--------------------------- MODULE SessionService ---------------------------
(***************************************************************************)
(* DurableSessionService (packages/application/sessions.py) over the       *)
(* SQLite store: create(), transition() and prepare_scenario() as request  *)
(* threads run them.  A call loads the session, consults the scenario      *)
(* catalogue and the clock, and builds its command outside the write lock; *)
(* the store decides on it later, under the lock.  Other threads commit    *)
(* and the catalogue's files change in between.                            *)
(*                                                                         *)
(* A request is [task, outer, step, seen, at, plan, settled]:              *)
(*   task     the create or transition being run, or None                  *)
(*   outer    the prepare_scenario call around it, or None                 *)
(*   seen     the session it loaded (`current'), or None                   *)
(*   at       the clock reading it took                                    *)
(*   plan     the command it built, or None                                *)
(*   settled  auxiliary: its key had already taken effect with the same    *)
(*            input when the request arrived                               *)
(***************************************************************************)
EXTENDS EventStore, TLC

CONSTANTS Tasks,       \* what clients may ask for
          Times,       \* what the wall clock may show
          Catalogued,  \* is a scenario directory configured?
          Unpinned,    \* the scenario of a session without a content hash
          Broken       \* the content of a directory that does not load

Contents == Scenarios \ {Unpinned}

\* What the scenario directory may hold of the scenario the clients ask for.
Catalogues == Contents \union {None, Broken}

CreateTasks == [op : {"create"}, session : Sessions, key : Keys, reference : {"r1", "r2"}]
TransitionTasks ==
    [op : {"transition"}, session : Sessions, key : Keys, target : LifecycleStates,
     expected : Nat, required : LifecycleStates \union {None}, failure : BOOLEAN]
PrepareTasks == [op : {"prepare"}, session : Sessions, initialising : Keys, invalid : Keys]


RequestStates ==
    [task : CreateTasks \union TransitionTasks \union {None}, outer : PrepareTasks \union {None},
     step : {"asked", "loaded", "built", "sent", "preparing", "verifying", "answered"},
     seen : SessionRecords \union {None}, at : Nat, plan : CommandRecords \union {None},
     settled : BOOLEAN]

ASSUME ServiceAssumption ==
    /\ Tasks \subseteq CreateTasks \union TransitionTasks \union PrepareTasks
    /\ Times \subseteq Nat
    /\ Catalogued \in BOOLEAN
    /\ Unpinned \in Scenarios
    /\ Broken \notin Scenarios \union {None}
    /\ None \notin RequestStates \union [session : SessionRecords, source : Nat]

VARIABLES req,
          catalogue,   \* the scenario directory, edited outside the service
          capture      \* what create requests use of it: one capture per process

catalogues == <<catalogue, capture>>
svars == <<vars, req, catalogues>>

SInit == /\ Init
         /\ req = [w \in Workers |-> None]
         /\ catalogue \in Catalogues
         /\ capture = Unset

\* The fingerprinted input of WriteRequest.
InputOf(t) == IF t.op = "create" THEN <<"session.create", t.reference>>
              ELSE <<"session.transition", t.target, t.required, t.failure>>
ExpectedOf(t) == IF t.op = "create" THEN 0 ELSE t.expected

ASSUME InputsAssumption ==
    /\ \A reference \in {"r1", "r2"} : <<"session.create", reference>> \in Inputs
    /\ \A target \in LifecycleStates, required \in LifecycleStates \union {None},
          failure \in BOOLEAN : <<"session.transition", target, required, failure>> \in Inputs

Current(s) == IF db.sessions[s] = None THEN None ELSE db.sessions[s].session

Settled(t) ==
    /\ t.op # "prepare"
    /\ db.requests[t.session][t.key] # None
    /\ db.requests[t.session][t.key].input = InputOf(t)
    /\ db.requests[t.session][t.key].expected = ExpectedOf(t)

At(w, step) == req[w] # None /\ req[w].step = step
Goes(w, q) == req' = [req EXCEPT ![w] = q]
Respond(w, r) == Reply(w, r) /\ Goes(w, [req[w] EXCEPT !.step = "answered"])

-----------------------------------------------------------------------------
Request(w, t) ==
    /\ pc[w] = "idle" /\ req[w] = None
    /\ req' = [req EXCEPT ![w] =
          [task |-> IF t.op = "prepare" THEN None ELSE t,
           outer |-> IF t.op = "prepare" THEN t ELSE None,
           step |-> IF t.op = "prepare" THEN "preparing" ELSE "asked",
           seen |-> None, at |-> 0, plan |-> None, settled |-> Settled(t)]]
    /\ Reply(w, [kind |-> "none"])
    /\ UNCHANGED <<db, work, writer, pc, cmd, catalogues>>

\* get_session: `prior' of create(), `current' of transition().
Load(w) ==
    /\ At(w, "asked")
    /\ LET s == Current(req[w].task.session)
       IN IF req[w].task.op = "transition" /\ s = None
          THEN Respond(w, [kind |-> "not_found"])
          ELSE Goes(w, [req[w] EXCEPT !.step = "loaded", !.seen = s]) /\ UNCHANGED reply
    /\ UNCHANGED <<db, work, writer, pc, cmd, catalogues>>

\* uuid4(): an identity nobody has used; any of them would do.
PlannedIds == {req[v].plan.batch[1].id : v \in
                 {x \in Workers : req[x] # None /\ req[x].plan # None
                                                /\ req[x].plan.batch # <<>>}}
FreshIds == EventIds \ (StoredIds(db) \union PlannedIds)

Planned(t, error, batch) ==
    [op |-> "commit", session |-> t.session, key |-> t.key, input |-> InputOf(t),
     expected |-> ExpectedOf(t), observed |-> Unset, error |-> error, batch |-> batch]

Builds(w, at, plan) == Goes(w, [req[w] EXCEPT !.step = "built", !.at = at, !.plan = plan])

\* Mutant: a catalogue without the scenario leaves the session unpinned.
MissingIsUnpinned(w, at) ==
    LET t == req[w].task
        scenario == IF req[w].seen = None /\ catalogue \in Contents THEN catalogue ELSE Unpinned
        event == [id |-> CHOOSE id \in FreshIds : TRUE,
                  body |-> CreatedEvent(create_session(scenario, at), 1)]
    IN /\ At(w, "loaded") /\ t.op = "create" /\ FreshIds # {}
       /\ Builds(w, at, Planned(t, NoError, <<event>>))
       /\ UNCHANGED <<db, work, writer, pc, cmd, reply, catalogues>>

\* LocalScenarioCatalogue.list: load the directory on the first use and keep what
\* was loaded; a directory that does not load is tried again.
Served == IF capture = Unset THEN catalogue ELSE capture
Keep == capture' = IF Served = Broken THEN capture ELSE Served

\* create(): resolve the scenario only for a session not seen before, from the
\* capture that the whole process shares.
BuildCreate(w, at) ==
    LET t == req[w].task
        resolves == req[w].seen = None /\ Catalogued
        scenario == IF resolves THEN Served ELSE Unpinned
        event == [id |-> CHOOSE id \in FreshIds : TRUE,
                  body |-> CreatedEvent(create_session(scenario, at), 1)]
    IN /\ At(w, "loaded") /\ t.op = "create"
       /\ IF resolves THEN Keep ELSE UNCHANGED capture
       /\ IF resolves /\ Served \notin Contents
          THEN Respond(w, [kind |-> "refused", code |-> IF Served = None THEN "SCENARIO_MISSING"
                                                        ELSE "SCENARIO_INVALID"])
          ELSE /\ FreshIds # {}
               /\ Builds(w, at, Planned(t, NoError, <<event>>))
               /\ UNCHANGED reply
       /\ UNCHANGED <<db, work, writer, pc, cmd, catalogue>>

\* The readiness check compares the pinned content with the catalogue's.
ScenarioError(t, s) == t.target = "READY" /\ s.scenario # Unpinned /\ catalogue # s.scenario

TransitionRequest(t, at) ==
    [target |-> t.target, at |-> at, sim |-> Unset, failure |-> t.failure]

\* What build() raises for the session it was closed over.
BuilderError(t, s, r) ==
    IF ScenarioError(t, s) THEN "SCENARIO_INVALID"
    ELSE IF t.required # None /\ s.state # t.required THEN "ILLEGAL_TRANSITION"
    ELSE IF TransitionError(s, r) # NoOutcome THEN TransitionError(s, r)
    ELSE NoError

\* Mutant: errors are raised before the store looks for a retry.
RaisesEarly(w, at) ==
    LET t == req[w].task
        s == req[w].seen
        r == TransitionRequest(t, at)
        error == BuilderError(t, s, r)
        event == [id |-> CHOOSE id \in FreshIds : TRUE, body |-> TransitionEvent(s, r, 2)]
    IN /\ At(w, "loaded") /\ t.op = "transition"
       /\ IF error # NoError
          THEN Respond(w, [kind |-> "refused", code |-> error])
          ELSE /\ FreshIds # {}
               /\ Builds(w, at, Planned(t, error, <<event>>))
               /\ UNCHANGED reply
       /\ UNCHANGED <<db, work, writer, pc, cmd, catalogues>>

\* transition(): errors are kept for the builder, which the store calls only
\* after its retry lookup and version check.
BuildTransition(w, at) ==
    LET t == req[w].task
        s == req[w].seen
        r == TransitionRequest(t, at)
        error == BuilderError(t, s, r)
        event == [id |-> CHOOSE id \in FreshIds : TRUE, body |-> TransitionEvent(s, r, 2)]
    IN /\ At(w, "loaded") /\ t.op = "transition"
       /\ error = NoError => FreshIds # {}
       /\ Builds(w, at, Planned(t, error, IF error = NoError THEN <<event>> ELSE <<>>))
       /\ UNCHANGED <<db, work, writer, pc, cmd, reply, catalogues>>

Send(w) == /\ At(w, "built")
           /\ Submit(w, req[w].plan)
           /\ Goes(w, [req[w] EXCEPT !.step = "sent"])
           /\ UNCHANGED catalogues

SendBusy(w) == /\ At(w, "built")
               /\ Busy(w)
               /\ Goes(w, [req[w] EXCEPT !.step = "answered"])
               /\ UNCHANGED catalogues

-----------------------------------------------------------------------------
(* prepare_scenario: up to two nested transitions around a catalogue check. *)

Nested(w, target, version, key) ==
    Goes(w, [req[w] EXCEPT !.step = "asked", !.seen = None, !.plan = None,
                !.task = [op |-> "transition", session |-> req[w].outer.session, key |-> key,
                          target |-> target, expected |-> version, required |-> None,
                          failure |-> target = "FAILED"]])

Verifies(w, s) == Goes(w, [req[w] EXCEPT !.step = "verifying", !.seen = s])

PrepareLoad(w) ==
    /\ At(w, "preparing")
    /\ LET s == Current(req[w].outer.session)
       IN IF s = None THEN Respond(w, [kind |-> "not_found"])
          ELSE IF s.state = "CREATED"
          THEN Nested(w, "INITIALISING", s.version, req[w].outer.initialising)
               /\ UNCHANGED reply
          ELSE IF s.state = "INITIALISING"
          THEN Verifies(w, s) /\ UNCHANGED reply
          ELSE Respond(w, [kind |-> "current", state |-> s.state])
    /\ UNCHANGED <<db, work, writer, pc, cmd, catalogues>>

\* Mutant: a preparation ends with its first transition, the catalogue unchecked.
Unverified(w) == FALSE

\* The nested transition to INITIALISING returned: go on with its session.
Continues(w) == /\ At(w, "sent") /\ pc[w] = "idle"
                /\ req[w].outer # None /\ req[w].task.target = "INITIALISING"
                /\ reply[w].kind = "result"

PrepareResume(w) ==
    /\ Continues(w)
    /\ LET r == reply[w]
           s == Project(SubSeq(db.log[r.session], 1, r.first + Len(r.events) - 1))
       IN Verifies(w, s)
    /\ UNCHANGED <<vars, catalogues>>

PrepareVerify(w) ==
    /\ At(w, "verifying")
    /\ LET s == req[w].seen
       IN IF s.scenario = Unpinned \/ catalogue # s.scenario
          THEN Nested(w, "FAILED", s.version, req[w].outer.invalid) /\ UNCHANGED reply
          ELSE Respond(w, [kind |-> "current", state |-> s.state])
    /\ UNCHANGED <<db, work, writer, pc, cmd, catalogues>>

Answered(w) ==
    \/ At(w, "answered")
    \/ At(w, "sent") /\ pc[w] \notin InTransaction /\ ~Continues(w)

Done(w) == /\ Answered(w)
           /\ req' = [req EXCEPT ![w] = None]
           /\ Reply(w, [kind |-> "none"])
           /\ UNCHANGED <<db, work, writer, pc, cmd, catalogues>>

-----------------------------------------------------------------------------
\* What a request's thread does next, outside the store's transactions.
ServiceStep(w) ==
    \/ Load(w)
    \/ \E at \in Times : BuildCreate(w, at) \/ BuildTransition(w, at)
    \/ Send(w) \/ SendBusy(w)
    \/ PrepareLoad(w) \/ PrepareResume(w) \/ PrepareVerify(w)
    \/ Done(w)

\* The store's own steps; a connection is recovered or closed between requests.
StoreStep(w) == \/ TransactionStep(w)
                \/ req[w] = None /\ pc[w] # "idle" /\ BeginRecovery(w)
                \/ req[w] = None /\ pc[w] # "idle" /\ RecoveryBusy(w)
                \/ req[w] = None /\ Close(w)

\* A restarted process captures the directory anew.
ServiceCrash == /\ Crash
                /\ req' = [w \in Workers |-> None]
                /\ capture' = Unset
                /\ UNCHANGED catalogue

\* Scenario files are edited outside the service.
EditCatalogue == /\ Catalogued
                 /\ catalogue' \in Catalogues \ {catalogue}
                 /\ UNCHANGED <<vars, req, capture>>

SNext == \/ \E w \in Workers : \/ \E t \in Tasks : Request(w, t)
                               \/ ServiceStep(w)
                               \/ StoreStep(w) /\ UNCHANGED <<req, catalogues>>
         \/ ServiceCrash
         \/ EditCatalogue

SSpec == /\ SInit /\ [][SNext]_svars
         /\ \A w \in Workers : /\ WF_svars(ServiceStep(w))
                               /\ WF_svars(TransactionStep(w) /\ UNCHANGED <<req, catalogues>>)

-----------------------------------------------------------------------------
\* A successful answer is the caller's own transition: the target, starting
\* version, required state and failure it asked for, or the creation of its
\* session, also when the answer comes from a retry record.  A preparation that
\* answers with a rejection leaves a durable FAILED session.
AnswerFitsTask ==
    \A w \in Workers : At(w, "sent") /\ Answered(w) /\ reply[w].kind = "result" =>
        LET t == req[w].task
            e == reply[w].events[1].body
        IN /\ Len(reply[w].events) = 1 /\ reply[w].session = t.session
           /\ t.op = "create" => e.kind = "created"
           /\ t.op = "transition" =>
                /\ e.kind = "transition" /\ e.state = t.target
                /\ e.previous_version = t.expected
                /\ t.required # None => e.previous_state = t.required
                /\ e.failure = t.failure
           /\ req[w].outer # None => Current(t.session).state = "FAILED"

\* Retry lookup precedes every check: a request whose key had taken effect with
\* the same input is never refused, whatever the session's current state and
\* the catalogue's current content; it gets its result or a storage failure.
RetryHonoured ==
    \A w \in Workers : Answered(w) /\ req[w].settled =>
        reply[w].kind \in {"result", "busy", "unavailable"}

\* With a catalogue, no session is ever created without a pinned content, also
\* when a concurrent creation made the service skip the catalogue.
AlwaysPinned ==
    Catalogued => \A s \in Sessions :
        db.log[s] # <<>> => db.log[s][1].body.scenario \in Contents

\* A step in which the store's decision refuses w's command.
Refuses(w) == /\ At(w, "sent") /\ reply'[w] # reply[w]
              /\ reply'[w].kind \in {"refused", "invalid"}

\* The refusal's code is what the policy says of the session as committed when
\* the command was decided (readiness checks answer for the catalogue instead).
Justified(w) ==
    LET t == req[w].task
        s == Project(db.log[t.session])
        code == reply'[w].code
    IN /\ t.op = "transition" /\ reply'[w].kind = "refused"
       /\ \/ code = "SCENARIO_INVALID" /\ t.target = "READY"
          \/ code = "ILLEGAL_TRANSITION" /\ t.required # None /\ s.state # t.required
          \/ code = TransitionError(s, TransitionRequest(t, req[w].at))

\* A caller that expects the version the service loaded is refused only for what
\* the session, as committed at the decision, forbids.
HonestRefusal ==
    [][\A w \in Workers :
         Refuses(w) /\ (req[w].task.op = "transition" =>
                          req[w].seen.version = req[w].task.expected) => Justified(w)]_svars

\* The same without that provision: docs/session-api.md:73 has each command check
\* the expected version and build its event under the write transaction.
RefusalReflectsHistory == [][\A w \in Workers : Refuses(w) => Justified(w)]_svars
=============================================================================
