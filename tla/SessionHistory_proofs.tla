----------------------- MODULE SessionHistory_proofs -----------------------
(* Theorems about one session's live policy and its history, for every set  *)
(* of scenarios and clock readings and every bound on the history.          *)
EXTENDS SessionHistory, WellFoundedInduction, TLAPS

\* The strengthening: the live session satisfies its constructor's rules, and
\* its version is covered by the events so far (Contract's e.seq >= e.version).
LiveOK == live # None => PostInit(live) /\ live.version <= Len(history)

HistoryInv == HTypeOK /\ LiveOK /\ NoUncodedRejection

-----------------------------------------------------------------------------
LEMMA RequestsTyped == Requests \subseteq RequestRecords
BY TimesAssumption DEF Requests, RequestRecords

\* transition_session returns a well-typed session.
LEMMA TransitionedType ==
    ASSUME NEW s \in SessionRecords, NEW r \in RequestRecords,
           TransitionError(s, r) = NoOutcome
    PROVE  Transitioned(s, r) \in SessionRecords
<1>1. r.at \in Nat /\ r.target \in LifecycleStates /\ r.failure \in BOOLEAN
  BY DEF RequestRecords
<1>2. RequestedSim(s, r) \in Nat
  BY DEF RequestRecords, RequestedSim, SessionRecords
<1>3. OutcomeOf(r.target) \in Terminal \union {NoOutcome}
  BY <1>1 DEF OutcomeOf
<1>4. s.version + 1 \in Nat
  BY DEF SessionRecords
<1>5. (IF s.state = "READY" /\ r.target = "RUNNING" THEN r.at ELSE s.started)
        \in Nat \union {Unset}
  BY <1>1 DEF SessionRecords
<1>6. (IF r.target \in Terminal THEN r.at ELSE Unset) \in Nat \union {Unset}
  BY <1>1
<1>. QED BY <1>1, <1>2, <1>3, <1>4, <1>5, <1>6 DEF Transitioned, SessionRecords

\* transition_session, field by field.
LEMMA TransitionedFields ==
    ASSUME NEW s \in SessionRecords, NEW r \in RequestRecords
    PROVE  LET t == Transitioned(s, r)
           IN /\ t.state = r.target
              /\ t.version = s.version + 1
              /\ t.scenario = s.scenario
              /\ t.created = s.created
              /\ t.updated = r.at
              /\ t.sim = RequestedSim(s, r)
              /\ t.started = (IF s.state = "READY" /\ r.target = "RUNNING"
                              THEN r.at ELSE s.started)
              /\ t.ended = (IF r.target \in Terminal THEN r.at ELSE Unset)
              /\ t.outcome = OutcomeOf(r.target)
              /\ t.failure = r.failure
BY DEF Transitioned, SessionRecords

\* What the four guards of transition_session let through.
LEMMA Guards ==
    ASSUME NEW s \in SessionRecords, NEW r \in RequestRecords,
           TransitionError(s, r) = NoOutcome
    PROVE  /\ r.at \in Nat /\ r.target \in LifecycleStates /\ r.failure \in BOOLEAN
           /\ RequestedSim(s, r) \in Nat
           /\ r.target \in allowed_transitions(s.state)
           /\ r.at >= s.updated
           /\ RequestedSim(s, r) >= s.sim
           /\ s.state # "RUNNING" => RequestedSim(s, r) = s.sim
           /\ r.failure = (r.target = "FAILED")
<1>1. r.at \in Nat /\ r.target \in LifecycleStates /\ r.failure \in BOOLEAN
  BY DEF RequestRecords
<1>2. RequestedSim(s, r) \in Nat
  BY DEF RequestRecords, RequestedSim, SessionRecords
<1>3. s.sim \in Nat /\ s.updated \in Nat
  BY DEF SessionRecords
<1>. QED
  BY <1>1, <1>2, <1>3 DEF TransitionError, NoOutcome

\* The four coded guards of transition_session imply everything that
\* Session.__post_init__ checks of the session it then constructs.
LEMMA TransitionedValid ==
    ASSUME NEW s \in SessionRecords, PostInit(s),
           NEW r \in RequestRecords, TransitionError(s, r) = NoOutcome
    PROVE  PostInit(Transitioned(s, r))
<1>. DEFINE t == Transitioned(s, r)
<1>1. /\ r.at \in Nat /\ r.target \in LifecycleStates /\ r.failure \in BOOLEAN
      /\ RequestedSim(s, r) \in Nat
      /\ r.target \in allowed_transitions(s.state)
      /\ r.at >= s.updated
      /\ s.state # "RUNNING" => RequestedSim(s, r) = s.sim
      /\ r.failure = (r.target = "FAILED")
  BY Guards
<1>2. /\ s.version \in Nat /\ s.created \in Nat /\ s.updated \in Nat
      /\ s.started \in Nat \union {Unset} /\ s.state \in LifecycleStates
  BY DEF SessionRecords
<1>3. /\ t.state = r.target /\ t.version = s.version + 1
      /\ t.created = s.created /\ t.updated = r.at
      /\ t.sim = RequestedSim(s, r)
      /\ t.started = (IF s.state = "READY" /\ r.target = "RUNNING" THEN r.at ELSE s.started)
      /\ t.ended = (IF r.target \in Terminal THEN r.at ELSE Unset)
      /\ t.outcome = OutcomeOf(r.target) /\ t.failure = r.failure
  BY TransitionedFields
<1>. HIDE DEF t
<1>4. t.version >= 1 /\ t.created <= t.updated
  BY <1>1, <1>2, <1>3 DEF PostInit
<1>5. t.started # Unset => t.created <= t.started /\ t.started <= t.updated
  BY <1>1, <1>2, <1>3 DEF PostInit, Unset
<1>6. /\ t.state \in PreRunning => t.started = Unset
      /\ t.state \in {"RUNNING", "PAUSED", "COMPLETED", "STOPPED"} => t.started # Unset
  BY <1>1, <1>2, <1>3 DEF PostInit, Unset, PreRunning, Terminal, allowed_transitions,
                          LifecycleStates
<1>7. t.started = Unset => t.sim = 0
  BY <1>1, <1>2, <1>3 DEF PostInit, Unset, PreRunning, Terminal, allowed_transitions,
                          LifecycleStates
<1>8. t.state # "CREATED"
  BY <1>1, <1>2, <1>3 DEF Terminal, allowed_transitions, LifecycleStates
<1>9. /\ t.ended = (IF t.state \in Terminal THEN t.updated ELSE Unset)
      /\ t.outcome = OutcomeOf(t.state)
      /\ t.failure <=> t.state = "FAILED"
  BY <1>1, <1>3
<1>. QED
  BY <1>4, <1>5, <1>6, <1>7, <1>8, <1>9 DEF PostInit, t

\* The event a transition emits is well typed, wherever it is put.
LEMMA TransitionEventType ==
    ASSUME NEW s \in SessionRecords, NEW r \in RequestRecords,
           TransitionError(s, r) = NoOutcome, NEW n \in Nat
    PROVE  TransitionEvent(s, r, n) \in EventRecords
<1>1. /\ r.at \in Nat /\ r.target \in LifecycleStates /\ r.failure \in BOOLEAN
      /\ RequestedSim(s, r) \in Nat
  BY Guards
<1>2. s.version \in Nat /\ s.state \in LifecycleStates
  BY DEF SessionRecords
<1>3. /\ Transitioned(s, r).state = r.target
      /\ Transitioned(s, r).version = s.version + 1
      /\ Transitioned(s, r).sim = RequestedSim(s, r)
      /\ Transitioned(s, r).outcome = OutcomeOf(r.target)
      /\ Transitioned(s, r).failure = r.failure
  BY TransitionedFields
<1>4. OutcomeOf(r.target) \in Terminal \union {NoOutcome}
  BY DEF OutcomeOf
<1>. QED BY <1>1, <1>2, <1>3, <1>4 DEF TransitionEvent, EventRecords

\* The event a transition emits satisfies DomainEvent's contract and follows
\* the session it was computed from; the projection recomputes its session.
LEMMA EventFollows ==
    ASSUME NEW s \in SessionRecords, PostInit(s),
           NEW r \in RequestRecords, TransitionError(s, r) = NoOutcome,
           NEW n \in Nat, s.version <= n
    PROVE  LET e == TransitionEvent(s, r, n + 1)
           IN /\ e \in EventRecords
              /\ e.seq = n + 1
              /\ e.kind = "transition"
              /\ Contract(e)
              /\ Follows(s, e)
              /\ AfterEvent(s, e) = Transitioned(s, r)
<1>. DEFINE e == TransitionEvent(s, r, n + 1)
            q == RequestOf(e)
<1>1. /\ r.at \in Nat /\ r.target \in LifecycleStates /\ r.failure \in BOOLEAN
      /\ RequestedSim(s, r) \in Nat
      /\ r.target \in allowed_transitions(s.state)
      /\ r.at >= s.updated
      /\ RequestedSim(s, r) >= s.sim
      /\ s.state # "RUNNING" => RequestedSim(s, r) = s.sim
      /\ r.failure = (r.target = "FAILED")
  BY Guards
<1>2. /\ s.version \in Nat /\ s.sim \in Nat /\ s.updated \in Nat /\ s.state \in LifecycleStates
  BY DEF SessionRecords
<1>3. /\ e.kind = "transition" /\ e.seq = n + 1 /\ e.at = r.at
      /\ e.sim = RequestedSim(s, r) /\ e.previous_state = s.state /\ e.state = r.target
      /\ e.previous_version = s.version /\ e.version = s.version + 1
      /\ e.outcome = OutcomeOf(r.target) /\ e.failure = r.failure
  BY TransitionedFields DEF TransitionEvent
<1>4. e \in EventRecords
  BY TransitionEventType
<1>5. /\ q.target = r.target /\ q.at = r.at
      /\ q.sim = RequestedSim(s, r) /\ q.failure = r.failure
  BY <1>3 DEF RequestOf
<1>6. RequestedSim(s, q) = RequestedSim(s, r)
  BY <1>1, <1>2, <1>5 DEF RequestedSim, Unset
<1>. HIDE DEF e, q
<1>7. TransitionError(s, q) = NoOutcome
  BY <1>1, <1>2, <1>5, <1>6 DEF TransitionError
<1>8. Transitioned(s, q) = Transitioned(s, r)
  BY <1>5, <1>6 DEF Transitioned
<1>9. Contract(e)
  <2>1. s.state = "CREATED" => s.version = 1
    BY DEF PostInit
  <2>2. s.state \in PreRunning => s.sim = 0
    BY DEF PostInit
  <2>3. e.state \in allowed_transitions(e.previous_state)
    BY <1>1, <1>3
  <2>4. e.failure <=> e.state = "FAILED"
    BY <1>1, <1>3
  <2>5. s.state \in PreRunning => e.sim = 0
    BY <1>1, <1>3, <2>2 DEF PreRunning
  <2>6. n + 1 > 1
    BY <1>2 DEF PostInit
  <2>. QED
    BY <1>2, <1>3, <2>1, <2>3, <2>4, <2>5, <2>6 DEF Contract
<1>10. Follows(s, e)
  BY <1>3, <1>7, <1>8, TransitionedValid DEF Follows, q
<1>11. AfterEvent(s, e) = Transitioned(s, r)
  BY <1>3, <1>8 DEF AfterEvent, q
<1>. QED BY <1>3, <1>4, <1>9, <1>10, <1>11 DEF e

\* The session that creation makes, and its event.
LEMMA CreationFollows ==
    ASSUME NEW sc \in Scenarios, NEW at \in Nat
    PROVE  LET s == create_session(sc, at)
               e == CreatedEvent(s, 1)
           IN /\ s \in SessionRecords /\ PostInit(s) /\ s.version = 1
              /\ e \in EventRecords /\ Contract(e)
              /\ e.seq = 1 /\ e.kind = "created" /\ s = create_session(e.scenario, e.at)
BY DEF create_session, SessionRecords, PostInit, CreatedEvent, EventRecords, Contract,
    LifecycleStates, PreRunning, Terminal, OutcomeOf, Unset, NoOutcome, FactKinds

\* Appending one event and its session keeps the shape of the state.
LEMMA CommitType ==
    ASSUME HTypeOK, Len(history) < MaxHistory,
           NEW s \in SessionRecords, NEW e \in EventRecords,
           Commit(s, e)
    PROVE  /\ HTypeOK'
           /\ history' = Append(history, e)
           /\ live' = s /\ outcome' = NoOutcome
           /\ Len(history') = Len(history) + 1
<1>1. /\ history' = Append(history, e)
      /\ live' = s /\ outcome' = NoOutcome
  BY DEF Commit
<1>2. /\ history' \in Seq(EventRecords) /\ Len(history') = Len(history) + 1
      /\ history' # <<>> /\ s # None
  BY <1>1, NoneIsNoSession DEF HTypeOK
<1>3. Len(history') <= MaxHistory
  BY <1>2, LengthAssumption DEF HTypeOK
<1>. QED BY <1>1, <1>2, <1>3 DEF HTypeOK, Codes

-----------------------------------------------------------------------------
THEOREM HistoryInit == HInit => HistoryInv
BY LengthAssumption DEF HInit, HistoryInv, HTypeOK, LiveOK, NoUncodedRejection, Codes, NoOutcome, UncodedError

\* The step facts of Create, of an accepted or refused Transition, and of a
\* fact: which event is appended and which session is live after it.
LEMMA CreateStep ==
    ASSUME HistoryInv, Create
    PROVE  \E sc \in Scenarios, at \in Clocks :
             Commit(create_session(sc, at), CreatedEvent(create_session(sc, at), 1))
             /\ history = <<>> /\ Len(history) < MaxHistory
<1>1. PICK sc \in Scenarios, at \in Clocks :
        LET s == create_session(sc, at)
            e == CreatedEvent(s, Len(history) + 1)
        IN IF PostInit(s) /\ Contract(e) THEN Commit(s, e) ELSE Reject(UncodedError)
  BY DEF Create
<1>2. history = <<>> /\ Len(history) < MaxHistory
  BY DEF HistoryInv, HTypeOK, Create
<1>3. Len(history) + 1 = 1
  BY <1>2
<1>4. Commit(create_session(sc, at), CreatedEvent(create_session(sc, at), 1))
  BY TimesAssumption, <1>1, <1>3, CreationFollows
<1>. QED BY <1>2, <1>4

LEMMA TransitionStep ==
    ASSUME HistoryInv, Transition
    PROVE  /\ live # None /\ live \in SessionRecords /\ PostInit(live)
           /\ Len(history) < MaxHistory
           /\ \E r \in Requests :
                \/ /\ TransitionError(live, r) # NoOutcome
                   /\ TransitionError(live, r) \in Codes \ {UncodedError}
                   /\ Reject(TransitionError(live, r))
                \/ /\ TransitionError(live, r) = NoOutcome
                   /\ Commit(Transitioned(live, r),
                             TransitionEvent(live, r, Len(history) + 1))
<1>1. /\ live # None /\ live \in SessionRecords /\ PostInit(live)
      /\ live.version <= Len(history) /\ Len(history) \in Nat /\ Len(history) < MaxHistory
  BY DEF HistoryInv, HTypeOK, LiveOK, Transition
<1>2. PICK r \in Requests :
        LET code == TransitionError(live, r)
            s == Transitioned(live, r)
            e == TransitionEvent(live, r, Len(history) + 1)
        IN IF code # NoOutcome THEN Reject(code)
           ELSE IF PostInit(s) /\ Contract(e) /\ Follows(live, e)
                THEN Commit(s, e)
                ELSE Reject(UncodedError)
  BY DEF Transition
<1>3. CASE TransitionError(live, r) # NoOutcome
  <2>1. TransitionError(live, r) \in Codes \ {UncodedError}
    BY DEF TransitionError, Codes, UncodedError, NoOutcome
  <2>. QED BY <1>1, <1>2, <1>3, <2>1
<1>4. CASE TransitionError(live, r) = NoOutcome
  <2>1. PostInit(Transitioned(live, r))
    BY RequestsTyped, <1>1, <1>4, TransitionedValid
  <2>2. /\ Contract(TransitionEvent(live, r, Len(history) + 1))
        /\ Follows(live, TransitionEvent(live, r, Len(history) + 1))
    BY RequestsTyped, <1>1, <1>4, EventFollows
  <2>. QED BY <1>1, <1>2, <1>4, <2>1, <2>2
<1>. QED BY <1>3, <1>4

LEMMA FactStep ==
    ASSUME HistoryInv, RecordFact
    PROVE  /\ live # None /\ live \in SessionRecords /\ Len(history) < MaxHistory
           /\ \E kind \in FactKinds, at \in Clocks, sim \in SimTimes :
                LET e == FactEvent(kind, at, sim, Len(history) + 1)
                IN /\ e \in EventRecords
                   /\ e.kind \in FactKinds /\ e.seq = Len(history) + 1
                   /\ \/ Reject("FACT_REJECTED")
                      \/ Contract(e) /\ Follows(live, e) /\ Commit(live, e)
<1>1. /\ live # None /\ live \in SessionRecords
      /\ Len(history) \in Nat /\ Len(history) < MaxHistory
  BY DEF HistoryInv, HTypeOK, RecordFact
<1>2. PICK kind \in FactKinds, at \in Clocks, sim \in SimTimes :
        LET e == FactEvent(kind, at, sim, Len(history) + 1)
        IN IF Contract(e) /\ Follows(live, e)
           THEN Commit(live, e)
           ELSE Reject("FACT_REJECTED")
  BY DEF RecordFact
<1>3. LET e == FactEvent(kind, at, sim, Len(history) + 1)
      IN /\ e \in EventRecords /\ e.kind \in FactKinds
         /\ e.seq = Len(history) + 1
  BY <1>1, TimesAssumption DEF FactEvent, EventRecords
<1>. QED BY <1>1, <1>2, <1>3

THEOREM HistoryNext == HistoryInv /\ [HNext]_hvars => HistoryInv'
<1>. SUFFICES ASSUME HistoryInv, [HNext]_hvars PROVE HistoryInv'
  OBVIOUS
<1>. USE DEF HistoryInv
<1>1. CASE Create
  <2>1. PICK sc \in Scenarios, at \in Clocks :
          Commit(create_session(sc, at), CreatedEvent(create_session(sc, at), 1))
          /\ history = <<>> /\ Len(history) < MaxHistory
    BY <1>1, CreateStep
  <2>2. HTypeOK' /\ live' = create_session(sc, at) /\ outcome' = NoOutcome /\ Len(history') = 1
    BY TimesAssumption, <2>1, CommitType, CreationFollows
  <2>. QED BY TimesAssumption, <2>2, CreationFollows DEF LiveOK, NoUncodedRejection, NoOutcome, UncodedError
<1>2. CASE Transition
  <2>1. /\ live \in SessionRecords /\ PostInit(live) /\ Len(history) < MaxHistory
        /\ live # None
    BY <1>2, TransitionStep
  <2>2. PICK r \in Requests :
          \/ /\ TransitionError(live, r) # NoOutcome
             /\ TransitionError(live, r) \in Codes \ {UncodedError}
             /\ Reject(TransitionError(live, r))
          \/ /\ TransitionError(live, r) = NoOutcome
             /\ Commit(Transitioned(live, r), TransitionEvent(live, r, Len(history) + 1))
    BY <1>2, TransitionStep
  <2>3. CASE Reject(TransitionError(live, r)) /\ TransitionError(live, r) \in Codes \ {UncodedError}
    BY <2>3 DEF Reject, HTypeOK, LiveOK, NoUncodedRejection
  <2>4. CASE /\ TransitionError(live, r) = NoOutcome
             /\ Commit(Transitioned(live, r), TransitionEvent(live, r, Len(history) + 1))
    <3>1. /\ Transitioned(live, r) \in SessionRecords
          /\ PostInit(Transitioned(live, r))
      BY RequestsTyped, <2>1, <2>4, TransitionedType, TransitionedValid
    <3>2. TransitionEvent(live, r, Len(history) + 1) \in EventRecords
      BY RequestsTyped, <2>1, <2>4, EventFollows DEF HTypeOK, LiveOK
    <3>3. /\ HTypeOK' /\ live' = Transitioned(live, r) /\ outcome' = NoOutcome
          /\ Len(history') = Len(history) + 1
      BY <2>1, <2>4, <3>1, <3>2, CommitType
    <3>4. /\ Transitioned(live, r).version = live.version + 1
          /\ live.version \in Nat /\ live.version <= Len(history) /\ Len(history) \in Nat
      <4>1. Transitioned(live, r).version = live.version + 1
        BY RequestsTyped, <2>1, TransitionedFields
      <4>2. live.version \in Nat
        BY <2>1 DEF SessionRecords
      <4>. QED BY <2>1, <4>1, <4>2 DEF LiveOK, HTypeOK
    <3>5. LiveOK'
      BY <3>1, <3>3, <3>4 DEF LiveOK
    <3>. QED BY <3>3, <3>5 DEF NoUncodedRejection, NoOutcome, UncodedError
  <2>. QED BY <2>2, <2>3, <2>4
<1>3. CASE RecordFact
  <2>1. /\ live # None /\ live \in SessionRecords /\ Len(history) < MaxHistory
    BY <1>3, FactStep
  <2>2. PICK kind \in FactKinds, at \in Clocks, sim \in SimTimes :
          LET e == FactEvent(kind, at, sim, Len(history) + 1)
          IN /\ e \in EventRecords
             /\ \/ Reject("FACT_REJECTED")
                \/ Commit(live, e)
    BY <1>3, FactStep
  <2>3. CASE Reject("FACT_REJECTED")
    BY <2>3 DEF Reject, HTypeOK, LiveOK, NoUncodedRejection, Codes, UncodedError
  <2>4. CASE Commit(live, FactEvent(kind, at, sim, Len(history) + 1))
    <3>1. /\ HTypeOK' /\ live' = live /\ outcome' = NoOutcome /\ Len(history') = Len(history) + 1
      BY <2>1, <2>2, <2>4, CommitType
    <3>2. live.version \in Nat /\ Len(history) \in Nat
      BY <2>1 DEF SessionRecords, HTypeOK
    <3>. QED BY <3>1, <3>2 DEF LiveOK, NoUncodedRejection, NoOutcome, UncodedError
  <2>. QED BY <2>2, <2>3, <2>4
<1>4. CASE UNCHANGED hvars
  BY <1>4 DEF hvars, HTypeOK, LiveOK, NoUncodedRejection
<1>. QED BY <1>1, <1>2, <1>3, <1>4 DEF HNext

\* Type correctness: every history the live commands can produce is a sequence
\* of well-formed events, and the live session is the last one recorded.
THEOREM HistoryTypeCorrect == HSpec => []HTypeOK
<1>1. HistoryInv => HTypeOK
  BY DEF HistoryInv
<1>. QED BY HistoryInit, HistoryNext, <1>1, PTL DEF HSpec

\* No lifecycle command of a sequential caller ends in an uncoded ValueError:
\* the four guards of transition_session cover the constructor's rules, the
\* event contract and the projection's checks.
THEOREM EveryRejectionCoded == HSpec => []NoUncodedRejection
<1>1. HistoryInv => NoUncodedRejection
  BY DEF HistoryInv
<1>. QED BY HistoryInit, HistoryNext, <1>1, PTL DEF HSpec

-----------------------------------------------------------------------------
(* The fold of project_session.                                             *)

\* A set of naturals has a least element.
LEMMA Least ==
    ASSUME NEW T \in SUBSET Nat, T # {}
    PROVE  \E x \in T : \A y \in T : x <= y
<1>1. PICK R : R = OpToRel(<, Nat)
  OBVIOUS
<1>2. IsWellFoundedOn(R, Nat)
  BY <1>1, NatLessThanWellFounded
<1>3. \A x, y \in Nat : y < x => <<y, x>> \in R
  BY <1>1 DEF OpToRel
<1>4. PICK x \in T : \A y \in T : ~(<<y, x>> \in R)
  BY <1>2, WFMin, Zenon
<1>5. ASSUME NEW y \in T
      PROVE  x <= y
  <2>1. x \in Nat /\ y \in Nat
    OBVIOUS
  <2>2. ~(y < x)
    BY <1>3, <1>4, <2>1
  <2> QED BY <2>1, <2>2
<1> QED BY <1>5

\* Induction over the naturals, from the least number that is not in S.
LEMMA Induction ==
    ASSUME NEW S, 0 \in S, \A n \in Nat : n \in S => n + 1 \in S
    PROVE  Nat \subseteq S
<1> SUFFICES ASSUME Nat \ S # {}
             PROVE  FALSE
  OBVIOUS
<1>1. PICK x \in Nat \ S : \A y \in Nat \ S : x <= y
  BY Least
<1>2. x # 0 /\ x - 1 \in Nat
  BY <1>1
<1>3. x - 1 \in S
  BY <1>1, <1>2
<1> QED BY <1>2, <1>3

\* What the fold makes of the i-th event of h, after the session s.
Projected(h, i, s) ==
    IF ~(h[i].seq = i /\ Contract(h[i])) THEN None
    ELSE IF i = 1
    THEN IF h[1].kind = "created" THEN create_session(h[1].scenario, h[1].at) ELSE None
    ELSE IF s # None /\ Follows(s, h[i]) THEN AfterEvent(s, h[i]) ELSE None

\* f is the table of the fold over the first n events of h.
Folds(h, n, f) == f = [i \in 0..n |-> IF i = 0 THEN None ELSE Projected(h, i, f[i-1])]

LEMMA FoldExists == ASSUME NEW h PROVE \A n \in Nat : \E f : Folds(h, n, f)
<1> DEFINE S == {n \in Nat : \E f : Folds(h, n, f)}
<1>1. 0 \in S
  <2>1. Folds(h, 0, [i \in 0..0 |-> None])
    BY DEF Folds
  <2> QED BY <2>1
<1>2. ASSUME NEW n \in Nat, n \in S
      PROVE  n + 1 \in S
  <2>1. PICK f : Folds(h, n, f)
    BY <1>2
  <2> DEFINE g == [i \in 0..(n+1) |-> IF i <= n THEN f[i] ELSE Projected(h, n+1, f[n])]
  <2>2. ASSUME NEW i \in 0..(n+1)
        PROVE  g[i] = IF i = 0 THEN None ELSE Projected(h, i, g[i-1])
    <3>1. CASE i <= n
      BY <2>1, <3>1 DEF Folds
    <3>2. CASE i = n + 1
      <4>1. g[i] = Projected(h, n+1, f[n]) /\ g[i-1] = f[n]
        BY <3>2
      <4> QED BY <3>2, <4>1
    <3> QED BY <3>1, <3>2
  <2>3. Folds(h, n + 1, g)
    BY <2>2 DEF Folds
  <2> QED BY <2>3
<1> HIDE DEF S
<1>3. Nat \subseteq S
  BY <1>1, <1>2, Induction
<1> QED BY <1>3 DEF S

\* Two folds agree as far as their histories do.
LEMMA FoldsAgree ==
    ASSUME NEW h, NEW n \in Nat, NEW f, Folds(h, n, f),
           NEW k, NEW m \in Nat, n <= m, NEW g, Folds(k, m, g),
           \A i \in 1..n : h[i] = k[i]
    PROVE  \A i \in 0..n : f[i] = g[i]
<1> DEFINE S == {i \in Nat : i <= n => f[i] = g[i]}
<1>1. 0 \in S
  BY DEF Folds
<1>2. ASSUME NEW i \in Nat, i \in S
      PROVE  i + 1 \in S
  <2> SUFFICES ASSUME i + 1 <= n
               PROVE  f[i+1] = g[i+1]
    OBVIOUS
  <2>1. f[i] = g[i] /\ h[i+1] = k[i+1] /\ h[1] = k[1]
    BY <1>2
  <2>2. f[i+1] = Projected(h, i+1, f[i]) /\ g[i+1] = Projected(k, i+1, g[i])
    BY DEF Folds
  <2> QED BY <2>1, <2>2 DEF Projected
<1> HIDE DEF S
<1>3. Nat \subseteq S
  BY <1>1, <1>2, Induction
<1> QED BY <1>3 DEF S

LEMMA ProjectIsFold ==
    ASSUME NEW h, Len(h) \in Nat
    PROVE  \E f : Folds(h, Len(h), f) /\ project_session(h) = f[Len(h)]
<1>1. PICK f : Folds(h, Len(h), f)
  BY FoldExists
<1> QED BY <1>1 DEF project_session, Folds, Projected

LEMMA ProjectEmpty == project_session(<<>>) = None
<1>1. PICK f : Folds(<<>>, 0, f) /\ project_session(<<>>) = f[0]
  BY ProjectIsFold
<1> QED BY <1>1 DEF Folds

\* One event more.
LEMMA ProjectAppend ==
    ASSUME NEW S, NEW h \in Seq(S), NEW e \in S
    PROVE  project_session(Append(h, e)) =
             IF ~(e.seq = Len(h) + 1 /\ Contract(e)) THEN None
             ELSE IF h = <<>>
             THEN IF e.kind = "created" THEN create_session(e.scenario, e.at) ELSE None
             ELSE IF project_session(h) # None /\ Follows(project_session(h), e)
             THEN AfterEvent(project_session(h), e) ELSE None
<1> DEFINE k == Append(h, e)
           n == Len(h)
<1>1. /\ n \in Nat /\ Len(k) = n + 1 /\ k[n+1] = e /\ \A i \in 1..n : h[i] = k[i]
      /\ n = 0 <=> h = <<>>
  OBVIOUS
<1> HIDE DEF k, n
<1>2. PICK f : Folds(h, n, f) /\ project_session(h) = f[n]
  BY <1>1, ProjectIsFold DEF n
<1>3. PICK g : Folds(k, n + 1, g) /\ project_session(k) = g[n+1]
  BY <1>1, ProjectIsFold
<1>4. f[n] = g[n]
  BY <1>1, <1>2, <1>3, FoldsAgree
<1>5. g[n+1] = Projected(k, n + 1, g[n])
  BY <1>1, <1>3 DEF Folds
<1>6. n + 1 = 1 <=> h = <<>>
  BY <1>1
<1>7. k[n+1] = e /\ (h = <<>> => k[1] = e)
  BY <1>1, <1>6
<1> QED BY <1>2, <1>3, <1>4, <1>5, <1>6, <1>7 DEF Projected, k, n

\* The session after an accepted event is well formed, and only a transition,
\* which no terminal session has, changes it.
LEMMA FollowsSound ==
    ASSUME NEW s \in SessionRecords, PostInit(s), NEW e \in EventRecords, Follows(s, e)
    PROVE  /\ AfterEvent(s, e) \in SessionRecords
           /\ PostInit(AfterEvent(s, e))
           /\ \/ e.kind # "transition" /\ AfterEvent(s, e) = s
              \/ /\ e.kind = "transition" /\ s.state \notin Terminal
                 /\ AfterEvent(s, e).state = e.state
                 /\ AfterEvent(s, e).version = s.version + 1
<1>1. CASE e.kind # "transition"
  BY <1>1 DEF AfterEvent
<1>2. CASE e.kind = "transition"
  <2>1. RequestOf(e) \in RequestRecords
    BY <1>2 DEF EventRecords, RequestOf, RequestRecords, FactKinds
  <2>2. TransitionError(s, RequestOf(e)) = NoOutcome /\ PostInit(Transitioned(s, RequestOf(e)))
    BY <1>2 DEF Follows, FactKinds
  <2>3. AfterEvent(s, e) = Transitioned(s, RequestOf(e)) /\ RequestOf(e).target = e.state
    BY <1>2 DEF AfterEvent, RequestOf
  <2>4. s.state \notin Terminal
    BY <2>1, <2>2, Guards DEF allowed_transitions, Terminal
  <2> QED BY <1>2, <2>1, <2>2, <2>3, <2>4, TransitionedType, TransitionedFields
<1> QED BY <1>1, <1>2

\* Every session on the way of a fold that succeeds is well formed.
LEMMA TableSound ==
    ASSUME NEW h \in Seq(EventRecords), NEW f, Folds(h, Len(h), f), f[Len(h)] # None
    PROVE  \A i \in 1..Len(h) : /\ f[i] # None /\ f[i] \in SessionRecords
                                /\ PostInit(f[i]) /\ f[i].version <= i
<1> DEFINE n == Len(h)
<1>0. n \in Nat /\ (\A i \in 1..n : h[i] \in EventRecords) /\ Folds(h, n, f)
  OBVIOUS
<1> HIDE DEF n
<1>1. /\ n \in Nat /\ \A i \in 1..n : h[i] \in EventRecords
      /\ \A i \in 1..n : f[i] = Projected(h, i, f[i-1])
  <2>1. \A i \in 1..n : f[i] = Projected(h, i, f[i-1])
    BY <1>0 DEF Folds
  <2> QED BY <1>0, <2>1
<1>2. ASSUME NEW i \in 1..n
      PROVE  f[i] # None
  <2> SUFFICES ASSUME f[i] = None
               PROVE  FALSE
    OBVIOUS
  <2> DEFINE S == {k \in Nat : i + k <= n => f[i+k] = None}
  <2>1. 0 \in S
    OBVIOUS
  <2>2. ASSUME NEW k \in Nat, k \in S
        PROVE  k + 1 \in S
    <3> SUFFICES ASSUME i + (k + 1) <= n
                 PROVE  f[i + (k + 1)] = None
      OBVIOUS
    <3>1. i + k \in 1..n /\ i + (k + 1) \in 1..n /\ i + (k + 1) # 1
          /\ (i + (k + 1)) - 1 = i + k
      BY <1>1
    <3>2. f[i+k] = None
      BY <2>2, <3>1
    <3> QED BY <1>1, <3>1, <3>2 DEF Projected
  <2> HIDE DEF S
  <2>3. Nat \subseteq S
    BY <2>1, <2>2, Induction
  <2>4. n - i \in Nat /\ i + (n - i) = n
    BY <1>1
  <2>5. f[n] = None
    BY <2>3, <2>4 DEF S
  <2> QED BY <2>5 DEF n
<1> DEFINE T == {i \in Nat : i \in 1..n => /\ f[i] \in SessionRecords
                                           /\ PostInit(f[i]) /\ f[i].version <= i}
<1>3. 0 \in T
  OBVIOUS
<1>4. ASSUME NEW i \in Nat, i \in T
      PROVE  i + 1 \in T
  <2> SUFFICES ASSUME i + 1 \in 1..n
               PROVE  /\ f[i+1] \in SessionRecords
                      /\ PostInit(f[i+1]) /\ f[i+1].version <= i + 1
    OBVIOUS
  <2>1. h[i+1] \in EventRecords /\ f[i+1] # None /\ f[i+1] = Projected(h, i+1, f[i])
    BY <1>1, <1>2
  <2>2. CASE i = 0
    <3>1. /\ h[1].kind = "created" /\ h[1] \in EventRecords
          /\ f[1] = create_session(h[1].scenario, h[1].at)
      BY <2>1, <2>2 DEF Projected
    <3>2. h[1].scenario \in Scenarios /\ h[1].at \in Nat
      BY <3>1 DEF EventRecords, FactKinds
    <3>3. f[1] \in SessionRecords /\ PostInit(f[1]) /\ f[1].version = 1
      BY <3>1, <3>2, CreationFollows
    <3> QED BY <2>2, <3>3
  <2>3. CASE i # 0
    <3>1. i \in 1..n /\ f[i] \in SessionRecords /\ PostInit(f[i]) /\ f[i].version <= i
      BY <1>1, <1>4, <2>3
    <3>2. Follows(f[i], h[i+1]) /\ f[i+1] = AfterEvent(f[i], h[i+1])
      BY <1>1, <2>1, <2>3 DEF Projected
    <3>3. f[i].version \in Nat
      BY <3>1 DEF SessionRecords
    <3>4. /\ f[i+1] \in SessionRecords /\ PostInit(f[i+1])
          /\ f[i+1] = f[i] \/ f[i+1].version = f[i].version + 1
      BY <2>1, <3>1, <3>2, FollowsSound
    <3> QED BY <3>1, <3>3, <3>4
  <2> QED BY <2>2, <2>3
<1> HIDE DEF T
<1>5. Nat \subseteq T
  BY <1>3, <1>4, Induction
<1> QED BY <1>1, <1>2, <1>5 DEF T, n

\* How a later session of such a fold relates to an earlier one.
LEMMA TableGrows ==
    ASSUME NEW h \in Seq(EventRecords), NEW f, Folds(h, Len(h), f), f[Len(h)] # None,
           NEW m \in 1..Len(h)
    PROVE  /\ f[m].version <= f[Len(h)].version
           /\ f[m].version = f[Len(h)].version => f[m] = f[Len(h)]
           /\ f[m].state = "FAILED" => f[Len(h)].state = "FAILED"
<1> DEFINE n == Len(h)
<1>1. n \in Nat /\ \A i \in 1..n : h[i] \in EventRecords
  OBVIOUS
<1>2. \A i \in 1..n : f[i] = Projected(h, i, f[i-1])
  BY <1>1 DEF Folds
<1>3. \A i \in 1..n : /\ f[i] # None /\ f[i] \in SessionRecords /\ PostInit(f[i])
                      /\ f[i].version \in Nat
  BY TableSound DEF SessionRecords
<1> HIDE DEF n
<1> DEFINE Later(i) == /\ f[m].version <= f[i].version
                       /\ f[m].version = f[i].version => f[m] = f[i]
                       /\ f[m].state = "FAILED" => f[i].state = "FAILED"
           S == {k \in Nat : m + k <= n => Later(m + k)}
<1>4. m \in 1..n
  BY DEF n
<1>5. 0 \in S
  BY <1>3, <1>4
<1>6. ASSUME NEW k \in Nat, k \in S
      PROVE  k + 1 \in S
  <2> DEFINE i == m + k
  <2> SUFFICES ASSUME m + (k + 1) <= n
               PROVE  Later(m + (k + 1))
    BY DEF S
  <2>1. m + (k + 1) = i + 1 /\ i \in 1..n /\ i + 1 \in 1..n /\ i + 1 # 1 /\ (i + 1) - 1 = i
    BY <1>1, <1>4
  <2>2. Later(i)
    BY <1>6, <2>1
  <2> HIDE DEF i
  <2>3. Follows(f[i], h[i+1]) /\ f[i+1] = AfterEvent(f[i], h[i+1])
    BY <1>2, <1>3, <2>1 DEF Projected
  <2>4. \/ f[i+1] = f[i]
        \/ f[i].state \notin Terminal /\ f[i+1].version = f[i].version + 1
    BY <1>1, <1>3, <2>1, <2>3, FollowsSound
  <2>5. f[i].version \in Nat /\ f[m].version \in Nat
    BY <1>3, <1>4, <2>1
  <2>6. Later(i + 1)
    BY <2>2, <2>4, <2>5 DEF Terminal
  <2> QED BY <2>1, <2>6
<1> HIDE DEF S
<1>7. Nat \subseteq S
  BY <1>5, <1>6, Induction
<1>8. n - m \in Nat /\ m + (n - m) = n
  BY <1>1, <1>4
<1>9. Later(n)
  BY <1>7, <1>8 DEF S
<1> QED BY <1>9 DEF n

\* A prefix projects to the session that the whole fold passed through.
LEMMA PrefixTable ==
    ASSUME NEW h \in Seq(EventRecords), NEW f, Folds(h, Len(h), f), NEW n \in 1..Len(h)
    PROVE  project_session(SubSeq(h, 1, n)) = f[n]
<1> DEFINE k == SubSeq(h, 1, n)
<1>1. Len(h) \in Nat /\ n \in Nat /\ n <= Len(h)
  OBVIOUS
<1>2. Len(k) = n /\ \A i \in 1..n : k[i] = h[i]
  BY <1>1
<1> HIDE DEF k
<1>3. PICK g : Folds(k, n, g) /\ project_session(k) = g[n]
  BY <1>1, <1>2, ProjectIsFold
<1>4. g[n] = f[n]
  BY <1>1, <1>2, <1>3, FoldsAgree
<1> QED BY <1>3, <1>4 DEF k

\* What replaying a prefix of a valid history tells of the whole: it projects to
\* a well-formed session; if that has the whole history's version it is the
\* whole history's session; a failure among its events is for good.
LEMMA PrefixProjects ==
    ASSUME NEW h \in Seq(EventRecords), project_session(h) # None, NEW n \in 1..Len(h)
    PROVE  LET s == project_session(SubSeq(h, 1, n))
               t == project_session(h)
           IN /\ s # None /\ s \in SessionRecords /\ PostInit(s) /\ s.version <= n
              /\ s.version = t.version => s = t
              /\ h[n].kind = "transition" /\ h[n].state = "FAILED" => t.state = "FAILED"
<1>1. Len(h) \in Nat /\ h[n] \in EventRecords
  OBVIOUS
<1>2. PICK f : Folds(h, Len(h), f) /\ project_session(h) = f[Len(h)]
  BY <1>1, ProjectIsFold
<1>3. project_session(SubSeq(h, 1, n)) = f[n]
  BY <1>2, PrefixTable
<1>4. f[n] # None /\ f[n] \in SessionRecords /\ PostInit(f[n]) /\ f[n].version <= n
  BY <1>2, TableSound
<1>5. /\ f[n].version = f[Len(h)].version => f[n] = f[Len(h)]
      /\ f[n].state = "FAILED" => f[Len(h)].state = "FAILED"
  BY <1>2, TableGrows
<1>6. ASSUME h[n].kind = "transition", h[n].state = "FAILED"
      PROVE  f[n].state = "FAILED"
  <2>1. f[n] = Projected(h, n, f[n-1])
    BY <1>1, <1>2 DEF Folds
  <2>2. n # 1
    BY <1>4, <1>6, <2>1 DEF Projected
  <2>3. n - 1 \in 1..Len(h)
    BY <1>1, <2>2
  <2>4. f[n-1] \in SessionRecords /\ PostInit(f[n-1])
    BY <1>2, <2>3, TableSound
  <2>5. Follows(f[n-1], h[n]) /\ f[n] = AfterEvent(f[n-1], h[n])
    BY <1>4, <2>1, <2>2 DEF Projected
  <2> QED BY <1>1, <1>6, <2>4, <2>5, FollowsSound
<1> QED BY <1>2, <1>3, <1>4, <1>5, <1>6

-----------------------------------------------------------------------------
\* What one step adds to the history, seen from the replay: nothing, or one
\* event that the projection accepts after the live session.
LEMMA ReplayStep ==
    ASSUME HistoryInv, [HNext]_hvars
    PROVE  \/ history' = history /\ live' = live
           \/ \E e \in EventRecords :
                /\ history' = Append(history, e)
                /\ e.seq = Len(history) + 1 /\ Contract(e)
                /\ \/ /\ history = <<>>
                      /\ e.kind = "created" /\ live' = create_session(e.scenario, e.at)
                   \/ /\ history # <<>> /\ live # None
                      /\ Follows(live, e) /\ live' = AfterEvent(live, e)
<1>1. live # None => history # <<>>
  BY DEF HistoryInv, HTypeOK
<1>2. CASE Create
  <2>1. PICK sc \in Scenarios, at \in Clocks :
          Commit(create_session(sc, at), CreatedEvent(create_session(sc, at), 1))
          /\ history = <<>> /\ Len(history) < MaxHistory
    BY <1>2, CreateStep
  <2>. DEFINE s == create_session(sc, at)
              e == CreatedEvent(s, 1)
  <2>2. /\ s \in SessionRecords /\ e \in EventRecords /\ Contract(e)
        /\ e.seq = 1 /\ e.kind = "created" /\ s = create_session(e.scenario, e.at)
    BY TimesAssumption, CreationFollows
  <2>3. history' = Append(history, e) /\ live' = s
    BY <2>1 DEF Commit
  <2>4. Len(history) + 1 = 1
    BY <2>1
  <2>. QED BY <2>1, <2>2, <2>3, <2>4
<1>3. CASE Transition
  <2>1. /\ live # None /\ live \in SessionRecords /\ PostInit(live)
        /\ live.version <= Len(history) /\ Len(history) \in Nat
    BY <1>3, TransitionStep DEF HistoryInv, LiveOK, HTypeOK
  <2>2. PICK r \in Requests :
          \/ Reject(TransitionError(live, r))
          \/ /\ TransitionError(live, r) = NoOutcome
             /\ Commit(Transitioned(live, r), TransitionEvent(live, r, Len(history) + 1))
    BY <1>3, TransitionStep
  <2>3. CASE Reject(TransitionError(live, r))
    BY <2>3 DEF Reject
  <2>4. CASE /\ TransitionError(live, r) = NoOutcome
             /\ Commit(Transitioned(live, r), TransitionEvent(live, r, Len(history) + 1))
    <3>. DEFINE e == TransitionEvent(live, r, Len(history) + 1)
                s == Transitioned(live, r)
    <3>1. s \in SessionRecords
      BY RequestsTyped, <2>1, <2>4, TransitionedType
    <3>2. /\ e \in EventRecords /\ e.seq = Len(history) + 1 /\ Contract(e)
          /\ Follows(live, e) /\ AfterEvent(live, e) = s
      BY RequestsTyped, <2>1, <2>4, EventFollows
    <3>3. history' = Append(history, e) /\ live' = s
      BY <2>4 DEF Commit
    <3>. HIDE DEF e, s
    <3>. QED BY <1>1, <2>1, <3>1, <3>2, <3>3
  <2>. QED BY <2>2, <2>3, <2>4
<1>4. CASE RecordFact
  <2>1. live # None /\ live \in SessionRecords
    BY <1>4, FactStep
  <2>2. PICK kind \in FactKinds, at \in Clocks, sim \in SimTimes :
          LET e == FactEvent(kind, at, sim, Len(history) + 1)
          IN /\ e \in EventRecords
             /\ e.kind \in FactKinds /\ e.seq = Len(history) + 1
             /\ \/ Reject("FACT_REJECTED")
                \/ Contract(e) /\ Follows(live, e) /\ Commit(live, e)
    BY <1>4, FactStep
  <2>. DEFINE e == FactEvent(kind, at, sim, Len(history) + 1)
  <2>3. CASE Reject("FACT_REJECTED")
    BY <2>3 DEF Reject
  <2>4. CASE Contract(e) /\ Follows(live, e) /\ Commit(live, e)
    <3>1. AfterEvent(live, e) = live
      BY <2>2 DEF AfterEvent, FactKinds
    <3>2. history' = Append(history, e) /\ live' = live
      BY <2>4 DEF Commit
    <3>3. e \in EventRecords /\ e.seq = Len(history) + 1
      BY <2>2
    <3>. HIDE DEF e
    <3>. QED BY <1>1, <2>1, <2>4, <3>1, <3>2, <3>3
  <2>. QED BY <2>2, <2>3, <2>4
<1>5. CASE UNCHANGED hvars
  BY <1>5 DEF hvars
<1>. QED BY <1>2, <1>3, <1>4, <1>5 DEF HNext

\* A restart projects the stored history back to the live session.
THEOREM ReplayCorrect == HSpec => []ReplayMatchesLive
<1>1. HInit => ReplayMatchesLive
  BY ProjectEmpty DEF HInit, ReplayMatchesLive
<1>2. HistoryInv /\ ReplayMatchesLive /\ [HNext]_hvars => ReplayMatchesLive'
  <2>. SUFFICES ASSUME HistoryInv, ReplayMatchesLive, [HNext]_hvars
                PROVE  ReplayMatchesLive'
    OBVIOUS
  <2>1. CASE history' = history /\ live' = live
    BY <2>1 DEF ReplayMatchesLive
  <2>2. ASSUME NEW e \in EventRecords,
               history' = Append(history, e),
               e.seq = Len(history) + 1, Contract(e),
               \/ /\ history = <<>>
                  /\ e.kind = "created" /\ live' = create_session(e.scenario, e.at)
               \/ /\ history # <<>> /\ live # None
                  /\ Follows(live, e) /\ live' = AfterEvent(live, e)
        PROVE  ReplayMatchesLive'
    <3>1. history \in Seq(EventRecords) /\ project_session(history) = live
      BY DEF HistoryInv, HTypeOK, ReplayMatchesLive
    <3>2. project_session(Append(history, e)) = live'
      BY <2>2, <3>1, ProjectAppend
    <3>. QED BY <2>2, <3>2 DEF ReplayMatchesLive
  <2>. QED BY <2>1, <2>2, ReplayStep
<1>. QED BY HistoryInit, HistoryNext, <1>1, <1>2, PTL DEF HSpec

\* The timeline of a session: its start is set once, simulation time moves
\* only out of RUNNING and forwards, and a terminal session never changes.
THEOREM TimelineCorrect == HSpec => Timeline
<1>1. HistoryInv /\ [HNext]_hvars => [TimelineStep]_hvars
  <2>. SUFFICES ASSUME HistoryInv, [HNext]_hvars, live # None PROVE TimelineStep
    BY DEF TimelineStep
  <2>0. live \in SessionRecords /\ PostInit(live)
    BY DEF HistoryInv, HTypeOK, LiveOK
  <2>1. CASE live' = live
    BY <2>0, <2>1 DEF TimelineStep, SessionRecords
  <2>2. ASSUME NEW r \in Requests, TransitionError(live, r) = NoOutcome,
               live' = Transitioned(live, r)
        PROVE  TimelineStep
    <3>1. /\ live'.started = (IF live.state = "READY" /\ r.target = "RUNNING"
                              THEN r.at ELSE live.started)
          /\ live'.sim = RequestedSim(live, r) /\ live'.updated = r.at
      BY RequestsTyped, <2>0, <2>2, TransitionedFields
    <3>2. /\ r.target \in allowed_transitions(live.state) /\ r.at >= live.updated
          /\ RequestedSim(live, r) >= live.sim /\ RequestedSim(live, r) \in Nat
          /\ live.state # "RUNNING" => RequestedSim(live, r) = live.sim
      BY RequestsTyped, <2>0, <2>2, Guards
    <3>3. live.started # Unset => live.state # "READY"
      BY <2>0 DEF PostInit, PreRunning
    <3>4. live.state \notin Terminal
      BY <3>2 DEF allowed_transitions, Terminal
    <3>5. live.sim \in Nat
      BY <2>0 DEF SessionRecords
    <3>. QED BY <3>1, <3>2, <3>3, <3>4, <3>5 DEF TimelineStep
  <2>3. CASE Create
    BY <2>3 DEF Create
  <2>4. CASE Transition
    <3>1. PICK r \in Requests :
            \/ Reject(TransitionError(live, r))
            \/ /\ TransitionError(live, r) = NoOutcome
               /\ Commit(Transitioned(live, r), TransitionEvent(live, r, Len(history) + 1))
      BY <2>4, TransitionStep
    <3>. QED BY <2>1, <2>2, <3>1 DEF Reject, Commit
  <2>5. CASE RecordFact
    <3>1. live' = live
      BY <2>5, FactStep DEF Reject, Commit
    <3>. QED BY <2>1, <3>1
  <2>6. CASE UNCHANGED hvars
    BY <2>1, <2>6 DEF hvars
  <2>. QED BY <2>3, <2>4, <2>5, <2>6 DEF HNext
<1>. QED BY HistoryInit, HistoryNext, <1>1, PTL DEF HSpec, Timeline
=============================================================================
