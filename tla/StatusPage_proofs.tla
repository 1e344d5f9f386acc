------------------------- MODULE StatusPage_proofs -------------------------
(***************************************************************************)
(* For every pace of the page (Poll, Deadline, Latency, Timeout) and every *)
(* number of requests: what the page shows is at most Lateness old, and    *)
(* where the level keeps the middleware's records, health does not read as *)
(* healthy over a failed one that has been reported.                       *)
(*                                                                         *)
(* ShownIsFresh is not inductive.  The age of what is shown is bounded by  *)
(* how far the polling effect has got since: Paced ties it to the running  *)
(* timer, or to the attempt under way, and InTime bounds the age of an     *)
(* answer by the time its fetch has waited.                                *)
(***************************************************************************)
EXTENDS StatusPage, TLAPS

\* Effect 2 always has a timer or an attempt, and what is shown is no older than
\* the deadline of the attempt that brought it and the time since.
Paced == /\ \A e \in Effects : timers[e] # None => ~Stopped(e) /\ attempts[e] = None
         /\ attempts[2] = None => timers[2] # None
         /\ age # None => IF attempts[2] = None THEN age + timers[2] <= Deadline + Poll
                          ELSE age <= Deadline + Poll + attempts[2].waited

\* An answer is no older than the fetch that waits for it, and has an outcome.
InTime == \A e \in Effects :
    LET r == attempts[e].request
    IN attempts[e] # None /\ r # None /\ served[r] # None =>
           /\ served[r].age <= attempts[e].waited
           /\ served[r].stage \in Routed => served[r].outcome # None

\* A failed record is reported, or about to be, and no other record is about to be
\* reported over it; a level that keeps nothing keeps no failure.
FailureKept == ("INFO" \in Dropped => "ERROR" \in Dropped) =>
    /\ logged = "failed" => ~logging.ok \/ \E q \in Slots : Stage(q) = "unrecorded"
    /\ \A q \in Slots : Stage(q) = "recorded" => logged # "failed"
    /\ "ERROR" \in Dropped => logged = "written" /\ \A q \in Slots : Stage(q) # "unrecorded"

IInv == /\ TypeOK /\ Paced /\ InTime /\ FailureKept
        /\ shown \in Readinesses <=> age # None

-----------------------------------------------------------------------------
\* The initial state satisfies the invariant.
LEMMA InitIInv == Init => IInv
<1> SUFFICES ASSUME Init PROVE IInv
  OBVIOUS
<1> DEFINE a == [request |-> None, waited |-> 0]
<1>1. a \in AttemptRecords /\ a # None /\ a.request = None /\ a.waited = 0
  BY PageAssumption, NoneAssumption DEF AttemptRecords
<1>2. attempts = [e \in Effects |-> a] /\ 1 \in Effects /\ 2 \in Effects
  BY DEF Init, Effects
<1>3. TypeOK
  <2>1. 0 \in -MaxBack..Timeout
    BY PageAssumption
  <2>2. None \notin Readinesses /\ "loading" \notin Readinesses
    BY NoneAssumption DEF Readinesses
  <2> HIDE DEF a
  <2> QED  BY <1>1, <1>2, <2>1, <2>2 DEF Init, TypeOK
<1>4. Paced /\ InTime /\ FailureKept /\ (shown \in Readinesses <=> age # None)
  <2> HIDE DEF a
  <2> QED  BY <1>1, <1>2, NoneAssumption
           DEF Init, Paced, InTime, FailureKept, Stage, Stopped, Readinesses
<1> QED  BY <1>3, <1>4 DEF IInv

\* A step of the API that keeps the page keeps the invariant if its slots age no
\* faster than the fetches and their outcomes are kept.
LEMMA ServerStep ==
    ASSUME IInv, UNCHANGED page,
           served' \in [Slots -> SlotRecords \union {None}],
           api' \in -MaxBack..Timeout,
           logging' \in [ok : BOOLEAN, age : -MaxBack..Timeout],
           logged' \in {"written", "failed", "lost"},
           writable' \in BOOLEAN, steady' \in BOOLEAN,
           FailureKept', InTime'
    PROVE IInv'
  BY DEF IInv, TypeOK, Paced, page, Stopped

\* A step keeps FailureKept if it keeps the log and the report on it, and puts no
\* request between record and report, nor takes one away.
LEMMA KeptStep ==
    ASSUME FailureKept, UNCHANGED logged, logging'.ok = logging.ok,
           \A q \in Slots : /\ Stage(q)' = "recorded" <=> Stage(q) = "recorded"
                            /\ Stage(q)' = "unrecorded" <=> Stage(q) = "unrecorded"
    PROVE FailureKept'
  BY DEF FailureKept

\* What a slot may become while the page waits for its answer.
LEMMA SlotStep ==
    ASSUME IInv, UNCHANGED page, NEW r \in Slots, NEW x \in SlotRecords \union {None},
           served' = [served EXCEPT ![r] = x],
           x # None /\ Awaited(r) => /\ served[r] # None => x.age <= served[r].age
                                     /\ served[r] = None => x.age = 0
                                     /\ x.stage \in Routed => x.outcome # None
    PROVE InTime' /\ served' \in [Slots -> SlotRecords \union {None}]
<1>1. served' \in [Slots -> SlotRecords \union {None}]
  BY DEF IInv, TypeOK
<1>2. SUFFICES ASSUME NEW e \in Effects, attempts[e] # None, attempts[e].request # None,
                      served'[attempts[e].request] # None
               PROVE /\ served'[attempts[e].request].age <= attempts[e].waited
                     /\ served'[attempts[e].request].stage \in Routed =>
                          served'[attempts[e].request].outcome # None
  BY <1>1 DEF InTime, page
<1> DEFINE q == attempts[e].request
<1>3. q \in Slots /\ attempts[e].waited \in Nat
  BY PageAssumption, <1>2 DEF IInv, TypeOK, AttemptRecords, Slots
<1>4. CASE q # r
  BY <1>2, <1>3, <1>4 DEF IInv, TypeOK, InTime
<1>5. CASE q = r
  <2>1. Awaited(r) /\ served'[q] = x /\ x # None /\ x \in SlotRecords
    BY <1>2, <1>3, <1>5 DEF Awaited, IInv, TypeOK
  <2>2. served[r] # None => served[r] \in SlotRecords /\ served[r].age <= attempts[e].waited
    BY <1>2, <1>3, <1>5 DEF IInv, InTime, TypeOK
  <2>3. x.age \in Nat /\ (served[r] # None => served[r].age \in Nat)
    BY <2>1, <2>2 DEF SlotRecords, Routed
  <2> QED  BY <1>3, <1>5, <2>1, <2>2, <2>3
<1> QED  BY <1>4, <1>5

\* What a step of one slot leaves of the others, and of its own stage.
LEMMA OtherStages ==
    ASSUME IInv, NEW r \in Slots, NEW x, served' = [served EXCEPT ![r] = x]
    PROVE /\ \A q \in Slots : q # r => Stage(q)' = Stage(q)
          /\ Stage(r)' = IF x = None THEN "free" ELSE x.stage
<1>1. served'[r] = x /\ \A q \in Slots : q # r => served'[q] = served[q]
  BY DEF IInv, TypeOK
<1> QED  BY <1>1 DEF Stage

\* The middleware reports "api", or gives up.
LEMMA EnterIInv == ASSUME IInv, NEW r \in Slots, Enter(r), UNCHANGED <<page, environment>> PROVE IInv'
<1> DEFINE x == served'[r]
<1>1. /\ served[r] # None /\ served[r] \in SlotRecords /\ Stage(r) = "received"
      /\ 0 \in -MaxBack..Timeout
  BY PageAssumption DEF Enter, IInv, TypeOK, Stage
<1>2. /\ served' = [served EXCEPT ![r] = x] /\ x \in SlotRecords
      /\ x.age = served[r].age /\ served[r].age \in Nat
      /\ x.stage = "routed" \/ (x.stage = "answered" /\ (Awaited(r) => x.outcome = "error"))
  <2>1. CASE api < 0
    BY <1>1, <2>1 DEF Enter, Uncoded, SlotRecords, Routed, IInv, TypeOK
  <2>2. CASE ~(api < 0)
    BY <1>1, <2>2 DEF Enter, Move, SlotRecords, Routed, IInv, TypeOK
  <2> QED  BY <2>1, <2>2
<1>3. InTime' /\ served' \in [Slots -> SlotRecords \union {None}]
  BY <1>1, <1>2, SlotStep, NoneAssumption DEF Routed
<1>4. api' \in -MaxBack..Timeout /\ UNCHANGED <<logging, logged>>
  BY <1>1 DEF Enter, Uncoded, IInv, TypeOK
<1>5. FailureKept'
  <2>1. x # None
    BY <1>2, NoneAssumption
  <2> QED  BY <1>1, <1>2, <1>4, <2>1, OtherStages, KeptStep DEF IInv
<1> QED  BY <1>3, <1>4, <1>5, ServerStep DEF IInv, TypeOK, environment

\* The route of GET /health takes its snapshot; another route returns or raises.
LEMMA ReadIInv == ASSUME IInv, NEW r \in Slots, Read(r), UNCHANGED <<page, environment>> PROVE IInv'
<1> DEFINE x == served'[r]
<1>1. Readiness \in Readinesses /\ served \in [Slots -> SlotRecords \union {None}]
  BY DEF Readiness, Readinesses, IInv, TypeOK
<1>2. /\ served' = [served EXCEPT ![r] = x] /\ x \in SlotRecords /\ x.age = 0
      /\ x.stage = "read" /\ (Awaited(r) => x.outcome \in Readinesses)
  BY <1>1 DEF Read, SlotRecords, Routed
<1>3. /\ served[r] \in SlotRecords /\ served[r].age \in Nat /\ None \notin Readinesses
      /\ Stage(r) = "routed" /\ x # None
  BY <1>1, <1>2, NoneAssumption DEF Read, Stage, SlotRecords, Routed
<1>4. InTime' /\ served' \in [Slots -> SlotRecords \union {None}]
  <2>1. Awaited(r) => x.outcome # None
    BY <1>2, <1>3
  <2>2. x.age <= served[r].age
    BY <1>2, <1>3
  <2> HIDE DEF x
  <2> QED  BY <1>2, <1>3, <2>1, <2>2, SlotStep DEF page
<1>5. FailureKept' /\ UNCHANGED <<api, logging, logged>>
  <2>1. UNCHANGED <<api, logging, logged>> /\ x.stage = "read"
    BY <1>1, <1>3 DEF Read
  <2> QED  BY <1>2, <1>3, <2>1, OtherStages, KeptStep DEF IInv
<1> QED  BY <1>4, <1>5, ServerStep DEF IInv, TypeOK, environment

\* The stages from the log record to the answer keep age and outcome.
LEMMA Answering ==
    ASSUME IInv, NEW r \in Slots, Stage(r) \in Routed, NEW x, UNCHANGED page,
           served' = [served EXCEPT ![r] = x],
           \E stage \in Routed : \/ x = [served[r] EXCEPT !.stage = stage]
                                 \/ /\ Awaited(r)
                                    /\ x = [served[r] EXCEPT !.stage = stage, !.outcome = "error"]
                                 \/ /\ ~Awaited(r)
                                    /\ x = [served[r] EXCEPT !.stage = stage, !.outcome = None]
    PROVE InTime' /\ served' \in [Slots -> SlotRecords \union {None}] /\ x # None
<1>1. served[r] # None /\ served[r] \in SlotRecords /\ served[r].stage \in Routed
  BY DEF Stage, IInv, TypeOK, Routed
<1>2. x \in SlotRecords /\ x.age = served[r].age /\ served[r].age \in Nat
      /\ (x.outcome = served[r].outcome \/ ~Awaited(r) \/ x.outcome = "error")
  BY <1>1 DEF SlotRecords, Routed
<1>3. Awaited(r) => served[r].outcome # None
  <2> SUFFICES ASSUME NEW e \in Effects, attempts[e] # None, attempts[e].request = r
               PROVE served[r].outcome # None
    BY DEF Awaited
  <2>1. r # None
    BY PageAssumption, NoneAssumption DEF Slots
  <2> QED  BY <1>1, <2>1 DEF IInv, InTime
<1>4. x # None /\ (Awaited(r) => x.outcome # None)
  BY <1>2, <1>3, NoneAssumption
<1>5. x.age <= served[r].age
  BY <1>2
<1> QED  BY <1>1, <1>2, <1>4, <1>5, SlotStep

\* The log record, dropped, written or failed.
LEMMA EmitIInv == ASSUME IInv, NEW r \in Slots, Emit(r), UNCHANGED <<page, environment>> PROVE IInv'
<1>1. PICK level \in Levels(r) :
        /\ Move(r, IF level \in Dropped \/ writable THEN "recorded" ELSE "unrecorded")
        /\ logged' = IF level \in Dropped THEN logged ELSE IF writable THEN "written" ELSE "failed"
  BY DEF Emit
<1> DEFINE stage == IF level \in Dropped \/ writable THEN "recorded" ELSE "unrecorded"
<1> DEFINE x == [served[r] EXCEPT !.stage = stage]
<1>2. /\ Stage(r) = "read" /\ served[r] # None /\ served[r] \in SlotRecords
      /\ stage \in Routed /\ UNCHANGED <<api, logging>>
      /\ \A q \in Slots : Stage(q) \notin {"recorded", "unrecorded"}
  BY DEF Emit, LoopBusy, Stage, IInv, TypeOK, Routed
<1>3. served' = [served EXCEPT ![r] = x] /\ x.stage = stage
  BY <1>1, <1>2 DEF Move, SlotRecords, Routed, IInv, TypeOK
<1> HIDE DEF x
<1>4. InTime' /\ served' \in [Slots -> SlotRecords \union {None}] /\ x # None
  BY <1>2, <1>3, Answering DEF Routed, x
<1>5. logged' \in {"written", "failed", "lost"}
  BY <1>1 DEF IInv, TypeOK
<1>6. /\ Stage(r)' = stage
      /\ \A q \in Slots : q # r => Stage(q)' \notin {"recorded", "unrecorded"}
  BY <1>2, <1>3, <1>4, OtherStages
<1>7. FailureKept'
  <2> SUFFICES ASSUME "INFO" \in Dropped => "ERROR" \in Dropped PROVE FailureKept'
    BY DEF FailureKept
  <2>1. level \in {"INFO", "ERROR"} /\ ("ERROR" \in Dropped => level \in Dropped)
    BY <1>1, LevelAssumption DEF Levels
  <2>2. level \in Dropped => "ERROR" \in Dropped
    BY <2>1
  <2>3. CASE level \in Dropped
    BY <1>1, <1>6, <2>2, <2>3 DEF FailureKept, IInv
  <2>4. CASE level \notin Dropped /\ writable
    BY <1>1, <1>6, <2>1, <2>4 DEF FailureKept, IInv
  <2>5. CASE level \notin Dropped /\ ~writable
    BY <1>1, <1>6, <2>1, <2>5 DEF FailureKept, IInv
  <2> QED  BY <2>3, <2>4, <2>5
<1> QED  BY <1>2, <1>4, <1>5, <1>7, ServerStep DEF IInv, TypeOK, environment

\* The report on it, and the answer.
LEMMA ReportIInv == ASSUME IInv, NEW r \in Slots, Report(r), UNCHANGED <<page, environment>> PROVE IInv'
<1> DEFINE x == served'[r]
<1>1. /\ Stage(r) \in {"recorded", "unrecorded"} /\ served[r] # None /\ served[r] \in SlotRecords
      /\ served \in [Slots -> SlotRecords \union {None}]
      /\ UNCHANGED api /\ FailureKept /\ 0 \in -MaxBack..Timeout
      /\ logged \in {"written", "failed", "lost"}
  BY PageAssumption DEF Report, Stage, IInv, TypeOK
<1>2. /\ served' = [served EXCEPT ![r] = x] /\ x.stage = "answered"
      /\ InTime' /\ served' \in [Slots -> SlotRecords \union {None}] /\ x # None
  <2>1. \/ served' = [served EXCEPT ![r].stage = "answered"]
        \/ /\ Awaited(r)
           /\ served' = [served EXCEPT ![r].stage = "answered", ![r].outcome = "error"]
        \/ /\ ~Awaited(r)
           /\ served' = [served EXCEPT ![r].stage = "answered", ![r].outcome = None]
    BY DEF Report, Uncoded, Move
  <2>2. /\ served' = [served EXCEPT ![r] = x]
        /\ \/ x = [served[r] EXCEPT !.stage = "answered"]
           \/ Awaited(r) /\ x = [served[r] EXCEPT !.stage = "answered", !.outcome = "error"]
           \/ ~Awaited(r) /\ x = [served[r] EXCEPT !.stage = "answered", !.outcome = None]
    BY <1>1, <2>1
  <2>3. x.stage = "answered"
    BY <1>1, <2>2 DEF SlotRecords, Routed
  <2> HIDE DEF x
  <2>4. InTime' /\ served' \in [Slots -> SlotRecords \union {None}] /\ x # None
    BY <1>1, <2>2, Answering DEF Routed
  <2> QED  BY <2>2, <2>3, <2>4
<1>3. /\ Stage(r)' = "answered"
      /\ \A q \in Slots : q # r => Stage(q)' = Stage(q)
  BY <1>2, OtherStages
<1>4. CASE logging.age < 0
  <2>1. logged' = (IF Stage(r) = "unrecorded" THEN "lost" ELSE logged) /\ UNCHANGED logging
    BY <1>4 DEF Report
  <2>2. FailureKept'
    BY <1>1, <1>3, <2>1 DEF FailureKept
  <2>3. logged' \in {"written", "failed", "lost"}
    BY <1>1, <2>1
  <2> QED  BY <1>1, <1>2, <2>1, <2>2, <2>3, ServerStep DEF IInv, TypeOK, environment
<1>5. CASE ~(logging.age < 0)
  <2> DEFINE ok == Stage(r) = "recorded"
  <2>1. logging' = [ok |-> ok, age |-> 0] /\ UNCHANGED logged /\ ok \in BOOLEAN
    BY <1>5 DEF Report
  <2>2. logging'.ok = ok
    BY <2>1
  <2>3. FailureKept'
    <3>1. CASE Stage(r) = "recorded"
      BY <1>1, <1>3, <2>1, <3>1 DEF FailureKept
    <3>2. CASE Stage(r) = "unrecorded"
      <4>1. ~logging'.ok
        BY <2>2, <3>2
      <4> QED  BY <1>1, <1>3, <2>1, <4>1 DEF FailureKept
    <3> QED  BY <1>1, <3>1, <3>2
  <2>4. logging' \in [ok : BOOLEAN, age : -MaxBack..Timeout]
    <3> HIDE DEF ok
    <3> QED  BY <1>1, <2>1
  <2> QED  BY <1>1, <1>2, <2>1, <2>3, <2>4, ServerStep DEF IInv, TypeOK, environment
<1> QED  BY <1>4, <1>5

\* An answer leaves.
LEMMA LeaveIInv == ASSUME IInv, NEW r \in Slots, Leave(r), UNCHANGED <<page, environment>> PROVE IInv'
<1>1. /\ served' = [served EXCEPT ![r] = None] /\ UNCHANGED <<api, logging, logged>>
      /\ Stage(r) = "answered"
  BY DEF Leave
<1>2. InTime' /\ served' \in [Slots -> SlotRecords \union {None}]
  BY <1>1, SlotStep
<1>3. FailureKept'
  BY <1>1, OtherStages, KeptStep DEF IInv
<1> QED  BY <1>1, <1>2, <1>3, ServerStep DEF IInv, TypeOK, environment

\* The middleware and the routes keep the invariant.
LEMMA ServeIInv == ASSUME IInv, NEW r \in Slots, Serve(r) PROVE IInv'
BY EnterIInv, ReadIInv, EmitIInv, ReportIInv, LeaveIInv DEF Serve

\* A request of another client comes.
LEMMA OtherIInv == ASSUME IInv, OtherArrives, UNCHANGED <<page, environment>> PROVE IInv'
<1> DEFINE x == [stage |-> "received", outcome |-> None, age |-> 0]
<1>1. x \in SlotRecords /\ x.age = 0 /\ x.stage = "received" /\ Other \in Slots
  BY DEF SlotRecords, Routed, Slots
<1>2. served' = [served EXCEPT ![Other] = x] /\ UNCHANGED <<api, logging, logged>>
      /\ served[Other] = None
  BY PageAssumption, NoneAssumption DEF OtherArrives, Stage, IInv, TypeOK, SlotRecords, Routed, Slots
<1>3. InTime' /\ served' \in [Slots -> SlotRecords \union {None}]
  <2>1. x.stage \notin Routed
    BY <1>1 DEF Routed
  <2> HIDE DEF x
  <2> QED  BY <1>1, <1>2, <2>1, SlotStep
<1>4. FailureKept'
  <2>1. x # None
    BY <1>1, NoneAssumption
  <2>2. Stage(Other) = "free"
    BY DEF OtherArrives
  <2> HIDE DEF x
  <2> QED  BY <1>1, <1>2, <2>1, <2>2, OtherStages, KeptStep DEF IInv
<1> QED  BY <1>2, <1>3, <1>4, ServerStep DEF IInv, TypeOK, environment

-----------------------------------------------------------------------------
\* The page's handlers.

\* What an attempt's end leaves: a readiness no older than its wait, or none.
LEMMA SettleIInv ==
    ASSUME IInv, NEW e \in Effects, attempts[e] # None, NEW outcome, NEW since,
           Settle(e, outcome, since),
           \/ outcome = "unavailable" /\ since = None
           \/ outcome \in Readinesses /\ since \in Nat /\ since <= attempts[e].waited,
           served' \in [Slots -> SlotRecords \union {None}],
           \A r \in Slots : served'[r] # None /\ Awaited(r)' => served'[r] = served[r],
           FailureKept', UNCHANGED <<api, logging, logged, environment>>
    PROVE IInv'
<1> USE PageAssumption, NoneAssumption
<1>1. TypeOK'
  BY DEF IInv, TypeOK, Settle, Show, environment
<1>2. Paced' /\ (shown \in Readinesses <=> age # None)'
  BY DEF IInv, TypeOK, Paced, Settle, Show, Stopped, Effects, AttemptRecords, Readinesses
<1>3. InTime'
  <2> SUFFICES ASSUME NEW d \in Effects, attempts'[d] # None, attempts'[d].request # None,
                      served'[attempts'[d].request] # None
               PROVE /\ served'[attempts'[d].request].age <= attempts'[d].waited
                     /\ served'[attempts'[d].request].stage \in Routed =>
                          served'[attempts'[d].request].outcome # None
    BY DEF InTime
  <2>1. attempts'[d] = attempts[d] /\ attempts[d] \in AttemptRecords
    BY DEF Settle, IInv, TypeOK
  <2>2. attempts[d].request \in Slots
    BY <2>1 DEF AttemptRecords, Slots
  <2> DEFINE q == attempts[d].request
  <2>3. PICK p \in Slots : p = q
    BY <2>2
  <2>4. Awaited(p)'
    BY <2>1, <2>3 DEF Awaited
  <2>5. served'[p] = served[p]
    BY <2>1, <2>3, <2>4
  <2> QED  BY <2>1, <2>3, <2>5 DEF IInv, InTime
<1> QED  BY <1>1, <1>2, <1>3 DEF IInv

\* An answer, an aborted or refused fetch.
LEMMA EndsIInv == ASSUME IInv, NEW e \in Effects, Answer(e) \/ Abort(e) \/ Refuse(e) PROVE IInv'
<1> USE PageAssumption, NoneAssumption
<1>1. CASE Answer(e)
  <2> DEFINE r == attempts[e].request
  <2>1. r \in Slots /\ served[r] # None /\ served[r] \in SlotRecords
        /\ served[r].stage = "answered" /\ attempts[e].waited \in Nat
    BY <1>1 DEF Answer, IInv, TypeOK, Stage, AttemptRecords, Slots
  <2>2. served[r].age \in Nat /\ served[r].age <= attempts[e].waited
        /\ served[r].outcome \in Readinesses \union {"error"}
    BY <1>1, <2>1 DEF Answer, IInv, InTime, SlotRecords, Routed
  <2>3. /\ served' \in [Slots -> SlotRecords \union {None}]
        /\ \A q \in Slots : served'[q] # None => served'[q] = served[q]
    BY <1>1, <2>1 DEF Answer, IInv, TypeOK
  <2>4. attempts[e] # None /\ UNCHANGED <<api, logging, logged, environment>>
    BY <1>1 DEF Answer
  <2>5. FailureKept'
    BY <1>1, <2>1, <2>4, OtherStages, KeptStep DEF Answer, Stage, IInv
  <2>6. CASE served[r].outcome = "error"
    BY <1>1, <2>3, <2>4, <2>5, <2>6, SettleIInv DEF Answer
  <2>7. CASE served[r].outcome # "error"
    BY <1>1, <2>2, <2>3, <2>4, <2>5, <2>7, SettleIInv DEF Answer
  <2> QED  BY <2>6, <2>7
<1>2. CASE Abort(e) \/ Refuse(e)
  <2>1. attempts[e] # None /\ Settle(e, "unavailable", None) /\ Forget
    BY <1>2 DEF Abort, Due, Refuse
  <2>2. UNCHANGED <<api, logging, logged, environment>>
    BY <2>1 DEF Forget
  <2>3. \A r \in Slots :
          /\ served'[r] \in SlotRecords \union {None}
          /\ Awaited(r)' => served'[r] = served[r]
          /\ Stage(r)' = Stage(r)
    <3> TAKE r \in Slots
    <3>1. served[r] \in SlotRecords \union {None}
      BY DEF IInv, TypeOK
    <3>2. CASE served[r] = None \/ Awaited(r)'
      BY <2>1, <3>1, <3>2 DEF Forget, Stage
    <3>3. CASE ~(served[r] = None \/ Awaited(r)')
      <4>1. served'[r] = [served[r] EXCEPT !.outcome = None, !.age = 0]
        BY <2>1, <3>3 DEF Forget
      <4>2. served'[r] \in SlotRecords /\ served'[r].stage = served[r].stage
        <5> DEFINE y == [served[r] EXCEPT !.outcome = None]
        <5>1. y \in SlotRecords /\ y.stage = served[r].stage
          BY <3>1, <3>3 DEF SlotRecords
        <5>2. served'[r] = [y EXCEPT !.age = 0]
          BY <4>1
        <5> HIDE DEF y
        <5> QED  BY <5>1, <5>2 DEF SlotRecords
      <4> QED  BY <3>3, <4>2 DEF Stage
    <3> QED  BY <3>2, <3>3
  <2>4. served' \in [Slots -> SlotRecords \union {None}]
    BY <2>1, <2>3 DEF Forget
  <2>5. FailureKept'
    BY <2>2, <2>3, KeptStep DEF IInv
  <2> QED  BY <2>1, <2>2, <2>3, <2>4, <2>5, SettleIInv
<1> QED  BY <1>1, <1>2

\* The next attempt.
LEMMA LoadIInv == ASSUME IInv, NEW e \in Effects, LoadHealth(e) PROVE IInv'
<1> USE PageAssumption, NoneAssumption
<1> DEFINE a == [request |-> None, waited |-> 0]
<1>1. a \in AttemptRecords /\ a # None /\ a.request = None /\ a.waited = 0
  BY DEF AttemptRecords
<1>2. /\ attempts' = [attempts EXCEPT ![e] = a] /\ timers' = [timers EXCEPT ![e] = None]
      /\ timers[e] = 0 /\ UNCHANGED <<shown, age, served, api, logging, logged, writable, steady>>
  BY DEF LoadHealth, server, environment
<1> HIDE DEF a
<1>3. TypeOK'
  BY <1>1, <1>2 DEF IInv, TypeOK
<1>4. e = 2 /\ attempts[e] = None
  BY <1>2 DEF IInv, Paced, Stopped, Effects
<1>5. Paced' /\ (shown \in Readinesses <=> age # None)'
  BY <1>1, <1>2, <1>4 DEF IInv, TypeOK, Paced, Stopped, Effects
<1>6. InTime' /\ FailureKept'
  BY <1>1, <1>2 DEF IInv, TypeOK, InTime, FailureKept, Stage
<1> QED  BY <1>3, <1>5, <1>6 DEF IInv

\* The API receives a fetch.
LEMMA DeliverIInv == ASSUME IInv, NEW e \in Effects, Deliver(e) PROVE IInv'
<1> USE PageAssumption, NoneAssumption
<1> DEFINE x == [stage |-> "received", outcome |-> None, age |-> 0]
<1>1. x \in SlotRecords /\ x.age = 0 /\ x.stage = "received" /\ x # None
  BY DEF SlotRecords, Routed
<1>2. PICK r \in Requests :
        /\ attempts[e] # None /\ attempts[e].request = None /\ Stage(r) = "free"
        /\ attempts' = [attempts EXCEPT ![e].request = r]
        /\ served' = [served EXCEPT ![r] = x]
        /\ UNCHANGED <<timers, shown, age, api, logging, logged, environment>>
  BY DEF Deliver
<1> HIDE DEF x
<1> DEFINE a == attempts'[e]
<1>3. /\ attempts' = [attempts EXCEPT ![e] = a] /\ a \in AttemptRecords /\ a # None
      /\ a.waited = attempts[e].waited /\ r \in Slots
  BY <1>2 DEF IInv, TypeOK, AttemptRecords, Slots
<1> HIDE DEF a
<1>4. TypeOK'
  BY <1>1, <1>2, <1>3 DEF IInv, TypeOK, environment
<1>5. Paced' /\ (shown \in Readinesses <=> age # None)'
  BY <1>2, <1>3 DEF IInv, TypeOK, Paced, Stopped
<1>6. InTime'
  <2>0. x.stage \notin Routed
    BY <1>1 DEF Routed
  <2>1. \A d \in Effects : attempts'[d] # None => attempts'[d].waited \in Nat
    BY <1>4 DEF TypeOK, AttemptRecords
  <2>2. \A d \in Effects : attempts'[d] # None /\ attempts'[d].request # None =>
             attempts'[d].request \in Slots
    BY <1>4 DEF TypeOK, AttemptRecords, Slots
  <2> QED  BY <1>1, <1>2, <1>3, <2>0, <2>1, <2>2 DEF IInv, TypeOK, InTime
<1>7. FailureKept'
  BY <1>1, <1>2, <1>3, OtherStages, KeptStep DEF IInv
<1> QED  BY <1>4, <1>5, <1>6, <1>7 DEF IInv

-----------------------------------------------------------------------------
\* The environment.

\* A second passes: every age grows by as much as the timers and waits do.
LEMMA TickIInv == ASSUME IInv, Tick PROVE IInv'
<1> USE PageAssumption, NoneAssumption
<1>1. attempts[1] = None /\ (attempts[2] # None => attempts[2].waited < Deadline)
  <2>1. ~Due(1) /\ ~Due(2)
    BY DEF Tick, TimeMayPass, Effects
  <2>2. attempts[2] # None => attempts[2].waited \in 0..Deadline
    BY DEF IInv, TypeOK, AttemptRecords, Effects
  <2> QED  BY <2>1, <2>2 DEF Due, Stopped
<1>2. timers[1] = None /\ (timers[2] # None => timers[2] \in 1..Poll)
  BY DEF Tick, TimeMayPass, Effects, IInv, TypeOK, Paced, Stopped
<1>3. \A e \in Effects :
        /\ attempts[e] = None <=> attempts'[e] = None
        /\ attempts[e] # None => /\ attempts'[e] \in AttemptRecords
                                 /\ attempts'[e].request = attempts[e].request
                                 /\ attempts'[e].waited = attempts[e].waited + 1
        /\ timers'[e] = IF timers[e] = None THEN None ELSE timers[e] - 1
  BY <1>1, <1>2 DEF Tick, IInv, TypeOK, AttemptRecords, Effects
<1>4. \A r \in Slots :
        /\ served[r] = None <=> served'[r] = None
        /\ served[r] # None => /\ served'[r] \in SlotRecords
                               /\ served'[r].stage = served[r].stage
                               /\ served'[r].outcome = served[r].outcome
                               /\ served'[r].age <= served[r].age + 1
  BY DEF Tick, IInv, TypeOK, SlotRecords, Routed, Stage, Least, Lateness
<1>5. TypeOK'
  <2>1. attempts' \in [Effects -> AttemptRecords \union {None}]
    BY <1>3 DEF Tick
  <2>2. timers' \in [Effects -> (0..Poll) \union {None}]
    BY <1>2, <1>3 DEF Tick, Effects
  <2>3. served' \in [Slots -> SlotRecords \union {None}]
    BY <1>4 DEF Tick
  <2>4. age' \in Nat \union {None} /\ api' \in -MaxBack..Timeout
        /\ logging' \in [ok : BOOLEAN, age : -MaxBack..Timeout]
    BY DEF Tick, IInv, TypeOK, Least, Lateness
  <2> QED  BY <2>1, <2>2, <2>3, <2>4 DEF Tick, IInv, TypeOK, environment
<1>6. Paced' /\ (shown \in Readinesses <=> age # None)'
  BY <1>1, <1>2, <1>3 DEF Tick, IInv, TypeOK, Paced, Least, Lateness, Stopped, Effects, AttemptRecords
<1>7. InTime'
  <2> SUFFICES ASSUME NEW e \in Effects, attempts'[e] # None, attempts'[e].request # None,
                      served'[attempts'[e].request] # None
               PROVE /\ served'[attempts'[e].request].age <= attempts'[e].waited
                     /\ served'[attempts'[e].request].stage \in Routed =>
                          served'[attempts'[e].request].outcome # None
    BY DEF InTime
  <2>1. attempts[e] # None /\ attempts[e] \in AttemptRecords
    BY <1>3 DEF IInv, TypeOK
  <2>2. attempts[e].request \in Slots /\ attempts[e].waited \in Nat
    BY <1>3, <2>1 DEF AttemptRecords, Slots
  <2>3. served[attempts[e].request] # None /\ served[attempts[e].request] \in SlotRecords
    BY <1>3, <1>4, <2>1, <2>2 DEF IInv, TypeOK
  <2>4. served[attempts[e].request].age \in Nat /\ served'[attempts[e].request].age \in Nat
    BY <1>4, <2>2, <2>3 DEF SlotRecords, Routed
  <2> QED  BY <1>3, <1>4, <2>1, <2>2, <2>3, <2>4 DEF IInv, InTime
<1>8. FailureKept'
  <2>1. \A r \in Slots : Stage(r)' = Stage(r)
    BY <1>4 DEF Stage
  <2>2. UNCHANGED logged /\ logging'.ok = logging.ok
    BY DEF Tick, IInv, TypeOK
  <2> QED  BY <2>1, <2>2, KeptStep DEF IInv
<1> QED  BY <1>5, <1>6, <1>7, <1>8 DEF IInv

\* The clock, the file, the process and the coming to rest.
LEMMA EnvironmentIInv ==
    ASSUME IInv, ClockSetBack \/ LogFileChanges \/ Restart \/ Rest PROVE IInv'
<1> USE PageAssumption, NoneAssumption
<1>1. CASE ClockSetBack
  <2>1. PICK by \in 1..MaxBack :
          /\ api - by >= -MaxBack /\ logging.age - by >= -MaxBack
          /\ api' \in SetBack(api, by)
          /\ \E a \in SetBack(logging.age, by) : logging' = [logging EXCEPT !.age = a]
    BY <1>1 DEF ClockSetBack
  <2>2. UNCHANGED <<page, served, logged, writable, steady>>
    BY <1>1 DEF ClockSetBack, environment
  <2>3. api' \in -MaxBack..Timeout
    BY <2>1 DEF SetBack, IInv, TypeOK
  <2>4. PICK a \in SetBack(logging.age, by) : logging' = [logging EXCEPT !.age = a]
    BY <2>1
  <2>5. a \in -MaxBack..Timeout
    BY <2>1, <2>4 DEF SetBack, IInv, TypeOK
  <2>6. logging' \in [ok : BOOLEAN, age : -MaxBack..Timeout] /\ logging'.ok = logging.ok
    BY <2>4, <2>5 DEF IInv, TypeOK
  <2>7. InTime' /\ FailureKept'
    BY <2>2, <2>6 DEF IInv, InTime, FailureKept, Stage, page
  <2> QED  BY <2>2, <2>3, <2>6, <2>7, ServerStep DEF IInv, TypeOK
<1>2. CASE LogFileChanges \/ Rest
  <2>1. UNCHANGED <<page, server>> /\ writable' \in BOOLEAN /\ steady' \in BOOLEAN
    BY <1>2 DEF LogFileChanges, Rest, IInv, TypeOK
  <2>2. InTime' /\ FailureKept'
    BY <2>1 DEF IInv, InTime, FailureKept, Stage, page, server
  <2> QED  BY <2>1, <2>2, ServerStep DEF IInv, TypeOK, server
<1>3. CASE Restart
  <2>1. \A e \in Effects :
          /\ attempts[e] = None <=> attempts'[e] = None
          /\ attempts[e] # None => /\ attempts'[e] \in AttemptRecords
                                   /\ attempts'[e].request = None
                                   /\ attempts'[e].waited = attempts[e].waited
    BY <1>3 DEF Restart, IInv, TypeOK, AttemptRecords
  <2>2. TypeOK'
    <3>1. attempts' \in [Effects -> AttemptRecords \union {None}]
      BY <1>3, <2>1 DEF Restart
    <3> QED  BY <1>3, <3>1 DEF Restart, IInv, TypeOK, environment
  <2>3. Paced' /\ (shown \in Readinesses <=> age # None)'
    BY <1>3, <2>1 DEF Restart, IInv, Paced, Effects, Stopped
  <2>4. InTime' /\ FailureKept'
    BY <1>3, <2>1 DEF Restart, InTime, FailureKept, Stage
  <2> QED  BY <2>2, <2>3, <2>4 DEF IInv
<1> QED  BY <1>1, <1>2, <1>3

-----------------------------------------------------------------------------
\* The invariant holds in every reachable state.
THEOREM Invariance == Spec => []IInv
<1>1. IInv /\ [Next]_vars => IInv'
  <2> SUFFICES ASSUME IInv, [Next]_vars PROVE IInv'
    OBVIOUS
  <2>1. ASSUME NEW e \in Effects, Deliver(e) \/ Poller(e) \/ Refuse(e) PROVE IInv'
    BY <2>1, DeliverIInv, EndsIInv, LoadIInv DEF Poller
  <2>2. ASSUME NEW r \in Slots, Serve(r) PROVE IInv'
    BY <2>2, ServeIInv
  <2>3. CASE OtherArrives /\ UNCHANGED <<page, environment>>
    BY <2>3, OtherIInv
  <2>4. CASE Tick
    BY <2>4, TickIInv
  <2>5. CASE ClockSetBack \/ LogFileChanges \/ Restart \/ Rest
    BY <2>5, EnvironmentIInv
  <2>6. CASE UNCHANGED vars
    BY <2>6 DEF vars, page, server, environment, IInv, TypeOK, Paced, InTime, FailureKept, Stage
  <2> QED  BY <2>1, <2>2, <2>3, <2>4, <2>5, <2>6 DEF Next
<1> QED  BY InitIInv, <1>1, PTL DEF Spec

\* Type correctness.
THEOREM TypeCorrect == Spec => []TypeOK
<1>1. IInv => TypeOK
  BY DEF IInv
<1> QED  BY Invariance, <1>1, PTL

\* The page is never late, and only one of its effects polls (HealthStatus.tsx).
THEOREM NeverLate == Spec => []ShownIsFresh
<1>1. IInv => ShownIsFresh
  BY PageAssumption, NoneAssumption
     DEF IInv, TypeOK, Paced, ShownIsFresh, Lateness, Effects, AttemptRecords
<1> QED  BY Invariance, <1>1, PTL

\* A reported failure of the log keeps health from reading as healthy (factory.py),
\* for every level that keeps all records of the middleware or none.
THEOREM FailureVisible == Spec => []LogFailureShows
<1>1. IInv => LogFailureShows
  BY DEF IInv, FailureKept, LogFailureShows, Readiness
<1> QED  BY Invariance, <1>1, PTL
=============================================================================
