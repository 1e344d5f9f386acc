--------------------------- MODULE TrafficService ---------------------------
(***************************************************************************)
(* TrafficService and SimulationService (packages/application/traffic.py,  *)
(* simulation.py) for one session: threads read the history, ask the       *)
(* provider, load the session and the clock, and hand commit() a builder   *)
(* over what they read, while lifecycle commands and other facts are       *)
(* committed in between.  The unit of work is what DurableLog promises:    *)
(* commit() is one atomic decision, possibly with an unknown outcome.      *)
(*                                                                         *)
(* A job is [task, step, observed, traffic, seen, at, error, facts,        *)
(* settled, answer, notified]: the call, the length of the history it read *)
(* and the replica replayed from it, the session and the time it loaded,   *)
(* what its builder raises or returns, whether its key had already taken   *)
(* effect when it was called (auxiliary), how it ended, and whether the    *)
(* caller's hook has been called with its result.                          *)
(***************************************************************************)
EXTENDS TrafficProjection, SimulationPort, TLC

CONSTANTS Threads, Keys,
          Tasks,          \* what callers ask for
          Entities,       \* the aircraft of the session's scenario, in its order
          MaxVersion,     \* bound on the session's lifecycle version
          MaxEvents,      \* bound on the history
          MaxTime         \* bound on the wall clock and on simulation time

ASSUME ServiceAssumption == /\ Tasks \subseteq [op : {"initialise", "transition", "apply"},
                                                key : Keys, expected : Nat, input : Nat,
                                                call : {t.call : t \in Tasks}]
                            /\ Entities \in Seq([id : AircraftIds, aircraft : InitialAircraft])
                            /\ Entities # <<>>
                            /\ MaxVersion \in Nat /\ MaxEvents \in Nat /\ MaxTime \in Nat

\* A call names what may exist or not.
ASSUME CallsAssumption ==
    \A t \in Tasks : t.op # "initialise" =>
        /\ t.call.id \in AircraftIds
        /\ t.call.hold \in Holds \union {None, Unknown}
        /\ t.call.runway \in Runways \union {None, Unknown}
        /\ t.op = "apply" => t.call.route \in Routes \union {Unknown}

\* initialise() maps its scenario before it builds anything: it spawns what
\* initial_traffic accepts, each aircraft under its own identifier.
Mapped == [id \in AircraftIds |->
              IF \E i \in DOMAIN Entities : Entities[i].id = id
              THEN Entities[CHOOSE i \in DOMAIN Entities : Entities[i].id = id].aircraft
              ELSE None]
ASSUME ScenarioAssumption ==
    /\ \A i, j \in DOMAIN Entities : Entities[i].id = Entities[j].id => i = j
    /\ initial_traffic(Mapped) # None

\* A retry record: the input and the version of a command, and its range of events.
Rows == [input : Nat, expected : Nat, first : Nat, last : Nat]

\* None is no replica, no retry record and no answer.
ASSUME NoneIsNothing == /\ None \notin Replicas \union Rows
                        /\ None \notin {"INVALID", "CONFLICT", "invalid"}

VARIABLES session,    \* the durable session: [state, version, sim, updated]
          log,        \* its events since INITIALISING
          answers,    \* its retry records: [Keys -> row or None]
          jobs        \* [Threads -> job or None]

durable == <<session, log, answers>>
vars == <<session, log, answers, jobs>>

Init == /\ session = [state |-> "INITIALISING", version |-> 1, sim |-> 0, updated |-> 0]
        /\ log = <<>>
        /\ answers = [k \in Keys |-> None]
        /\ jobs = [t \in Threads |-> None]

-----------------------------------------------------------------------------
\* An event that is not traffic.
Other == [kind |-> "other"]

\* project_traffic over a whole history, None when it raises.
OneRound(P, f) ==
    IF P = None \/ (f.kind = "other" /\ P.pending # None) THEN None
    ELSE IF f.kind = "other" THEN P
    ELSE IF Follows(P, f) THEN AfterFact(P, f) ELSE None
ReplayAll(replica, facts) ==
    LET p[i \in 0..Len(facts)] == IF i = 0 THEN replica ELSE OneRound(p[i - 1], facts[i])
    IN p[Len(facts)]
project_traffic(events) == ReplayAll(NoTraffic, events)

Known(P) == [aircraft |-> P.aircraft, runways |-> P.runways]

\* The spawn facts of initialise(), the first with the geometry.
SpawnFacts == [i \in DOMAIN Entities |->
                  SpawnFact(Entities[i].id, Entities[i].aircraft, i = 1)]

At(t, step) == jobs[t] # None /\ jobs[t].step = step
Goes(t, job) == jobs' = [jobs EXCEPT ![t] = job]

Settled(task) == /\ answers[task.key] # None
                 /\ answers[task.key].input = task.input
                 /\ answers[task.key].expected = task.expected

\* What effects() of a transition or an initialisation raises, or returns, for
\* the traffic P: a pure function of what the call has read.
EffectsError(task, P) ==
    IF task.op = "initialise"
    THEN IF P.geometry THEN "TRAFFIC_CONFLICT" ELSE NoError
    ELSE IF ~P.geometry THEN "TRAFFIC_CONFLICT"
    ELSE MoveError(Known(P), task.call.id, task.call)
EffectsFacts(task, P) ==
    IF EffectsError(task, P) # NoError THEN <<>>
    ELSE IF task.op = "initialise" THEN SpawnFacts
    ELSE Facts(Known(P), task.call.id, task.call)

\* A call starts with read_after(session_id, 0) and project_traffic.
Call(t, task) ==
    LET P == project_traffic(log)
        applies == task.op = "apply"
    IN /\ jobs[t] = None
       /\ Goes(t, [task |-> task, settled |-> Settled(task), answer |-> None, notified |-> FALSE,
                   step |-> IF applies THEN "asking" ELSE "read", observed |-> Len(log),
                   traffic |-> IF applies THEN P ELSE None, seen |-> None, at |-> 0,
                   error |-> IF applies THEN NoError ELSE EffectsError(task, P),
                   facts |-> IF applies THEN <<>> ELSE EffectsFacts(task, P)])
       /\ UNCHANGED durable

\* apply() up to _commit: the session's simulation time, the provider, and the
\* translation of its answer; a failure is kept for the builder.
AppliedError(call, P, sim, result) ==
    IF ~P.geometry \/ call.issued # sim THEN "TRAFFIC_CONFLICT"
    ELSE IF result = None THEN "PROVIDER_FAILED"
    ELSE TranslateError(Known(P), call, result)

Ask(t, result) ==
    /\ At(t, "asking")
    /\ LET j == jobs[t]
           error == AppliedError(j.task.call, j.traffic, session.sim, result)
           facts == IF error # NoError THEN <<>>
                    ELSE TranslatedFacts(Known(j.traffic), j.task.call, result)
       IN Goes(t, [j EXCEPT !.step = "read", !.traffic = None, !.error = error,
                            !.facts = facts])
    /\ UNCHANGED durable

\* The provider raises, or answers like the deterministic fake.
ProviderAnswers(t) ==
    LET T == Known(jobs[t].traffic)
    IN {None} \union IF jobs[t].traffic.geometry THEN {Fake(T, jobs[t].task.call)} ELSE {}

\* _commit: get_session, then the clock, which may show any time, since a wall
\* clock can be set back.
Load(t, now) ==
    /\ At(t, "read")
    /\ Goes(t, [jobs[t] EXCEPT !.step = "built", !.at = now,
                               !.seen = [state |-> session.state, sim |-> session.sim]])
    /\ UNCHANGED durable

-----------------------------------------------------------------------------
(* commit(request, build).                                                  *)

Row(t, first, last) == [input |-> jobs[t].task.input, expected |-> jobs[t].task.expected,
                        first |-> first, last |-> last]

Required(op) == IF op = "initialise" THEN "INITIALISING" ELSE "RUNNING"

\* Mutant: the builder does not compare the history it is called on.
BuildsAnyway(t) ==
    IF jobs[t].seen.state # Required(jobs[t].task.op) THEN "TRAFFIC_CONFLICT"
    ELSE jobs[t].error

\* What build() raises.
BuildError(t) ==
    IF \/ jobs[t].observed # Len(log)
       \/ jobs[t].seen.state # Required(jobs[t].task.op)
    THEN "TRAFFIC_CONFLICT"
    ELSE jobs[t].error

\* The candidate events keep the session's lifecycle and time, and replay.
Projects(t) ==
    /\ session.state = Required(jobs[t].task.op)
    /\ jobs[t].seen.sim = session.sim
    /\ jobs[t].at >= session.updated
    /\ LET P == ReplayAll(project_traffic(log), jobs[t].facts) IN P # None /\ Complete(P)

\* What a call has read is no longer needed once it is decided.
Answer(t, kind, step) ==
    Goes(t, [jobs[t] EXCEPT !.step = step, !.answer = kind,
                            !.task = IF step = "committed" THEN @ ELSE None,
                            !.observed = 0, !.seen = None, !.at = 0,
                            !.error = NoError, !.facts = <<>>])
Succeeded(t) == IF jobs[t].task.op = "apply" THEN "committed" ELSE "done"

\* Mutant: one event is written for a command, not its whole batch.
FirstFactOnly(t) ==
    /\ log' = Append(log, Head(jobs[t].facts))
    /\ answers' = [answers EXCEPT ![jobs[t].task.key] = Row(t, Len(log) + 1, Len(log) + 1)]
    /\ UNCHANGED session

WriteFacts(t) ==
    /\ log' = log \o jobs[t].facts
    /\ answers' = [answers EXCEPT ![jobs[t].task.key] =
                      Row(t, Len(log) + 1, Len(log) + Len(jobs[t].facts))]
    /\ UNCHANGED session

\* Mutant: a kept failure is raised before the unit of work is asked.
RaisesFirst(t) ==
    LET row == answers[jobs[t].task.key]
    IN IF jobs[t].error # NoError THEN Answer(t, jobs[t].error, "done") /\ UNCHANGED durable
       ELSE IF row # None
       THEN IF row = Row(t, row.first, row.last)
            THEN Answer(t, "result", Succeeded(t)) /\ UNCHANGED durable
            ELSE Answer(t, "conflict", "done") /\ UNCHANGED durable
       ELSE IF session.version # jobs[t].task.expected
       THEN Answer(t, "conflict", "done") /\ UNCHANGED durable
       ELSE IF BuildError(t) # NoError
       THEN Answer(t, BuildError(t), "done") /\ UNCHANGED durable
       ELSE IF ~Projects(t) THEN Answer(t, "invalid", "done") /\ UNCHANGED durable
       ELSE Answer(t, "result", Succeeded(t)) /\ WriteFacts(t)

Decide(t) ==
    LET row == answers[jobs[t].task.key]
    IN IF row # None
       THEN IF row = Row(t, row.first, row.last)
            THEN Answer(t, "result", Succeeded(t)) /\ UNCHANGED durable
            ELSE Answer(t, "conflict", "done") /\ UNCHANGED durable
       ELSE IF session.version # jobs[t].task.expected
       THEN Answer(t, "conflict", "done") /\ UNCHANGED durable
       ELSE IF BuildError(t) # NoError
       THEN Answer(t, BuildError(t), "done") /\ UNCHANGED durable
       ELSE IF ~Projects(t) THEN Answer(t, "invalid", "done") /\ UNCHANGED durable
       ELSE Answer(t, "result", Succeeded(t)) /\ WriteFacts(t)

Commit(t) == /\ At(t, "built")
             /\ Len(log) + Len(jobs[t].facts) <= MaxEvents
             /\ Decide(t)

\* Mutant: an error of commit() does not keep the hook from running.
HookRunsAnyway(t) ==
    /\ At(t, "built") /\ Answer(t, "unavailable", "committed")
    /\ UNCHANGED durable

\* commit() raises PersistenceError: rolled back, or with an unknown outcome.
CommitFails(t) ==
    /\ At(t, "built")
    /\ Len(log) + Len(jobs[t].facts) <= MaxEvents
    /\ Answer(t, "unavailable", "done")
    /\ \/ UNCHANGED durable
       \/ /\ answers[jobs[t].task.key] = None
          /\ session.version = jobs[t].task.expected
          /\ BuildError(t) = NoError /\ Projects(t)
          /\ WriteFacts(t)

\* on_committed(result), for apply().
Notify(t) ==
    /\ At(t, "committed")
    /\ Goes(t, [jobs[t] EXCEPT !.step = "done", !.notified = TRUE])
    /\ UNCHANGED durable

Return(t) == /\ At(t, "done")
             /\ jobs' = [jobs EXCEPT ![t] = None]
             /\ UNCHANGED durable

-----------------------------------------------------------------------------
(* The rest of the system.                                                  *)

Lifecycle(state) ==
    CASE state = "INITIALISING" -> {"READY"}
      [] state = "READY"        -> {"RUNNING"}
      [] state = "RUNNING"      -> {"PAUSED"}
      [] state = "PAUSED"       -> {"RUNNING"}

\* A lifecycle command; simulation time moves out of RUNNING.
SessionCommand ==
    /\ session.version < MaxVersion /\ Len(log) < MaxEvents
    /\ \E state \in Lifecycle(session.state) :
       \E now \in session.updated..MaxTime :
       \E sim \in IF session.state = "RUNNING" THEN session.sim..MaxTime ELSE {session.sim} :
         session' = [state |-> state, version |-> session.version + 1, sim |-> sim,
                     updated |-> now]
    /\ log' = Append(log, Other)
    /\ UNCHANGED <<answers, jobs>>

\* A health fact: the version stays, the history grows.  Bounded to RUNNING,
\* where traffic moves.
OtherFact == /\ session.state = "RUNNING" /\ Len(log) < MaxEvents
             /\ log' = Append(log, Other)
             /\ UNCHANGED <<session, answers, jobs>>

Restart == jobs' = [t \in Threads |-> None] /\ UNCHANGED durable

Next == \/ \E t \in Threads :
             \/ \E task \in Tasks : Call(t, task)
             \/ \E now \in 0..MaxTime : Load(t, now)
             \/ At(t, "asking") /\ \E result \in ProviderAnswers(t) : Ask(t, result)
             \/ Commit(t) \/ CommitFails(t) \/ Notify(t) \/ Return(t)
        \/ SessionCommand \/ OtherFact \/ Restart

Spec == Init /\ [][Next]_vars

-----------------------------------------------------------------------------
\* The type invariant: every durable history replays, and retry records name
\* ranges of traffic facts in it.
TypeOK ==
    /\ LET P == project_traffic(log) IN P # None /\ Complete(P)
    /\ session.sim \in 0..MaxTime /\ session.updated \in 0..MaxTime
    /\ \A k \in Keys : answers[k] # None =>
         /\ answers[k] \in Rows
         /\ 1 <= answers[k].first /\ answers[k].first <= answers[k].last
         /\ answers[k].last <= Len(log)
         /\ \A n \in answers[k].first..answers[k].last : log[n].kind # "other"
    /\ \A t \in Threads : jobs[t] # None =>
         jobs[t].step \in {"asking", "read", "built", "committed", "done"}

\* A retry of a command that took effect gets its result, or a storage failure,
\* also when the provider fails now, the traffic has moved on or the session is
\* no longer RUNNING (simulation.py:126).
RetryHonoured ==
    \A t \in Threads : At(t, "done") /\ jobs[t].settled =>
        jobs[t].answer \in {"result", "unavailable"}

\* The hook is only told of effects that are durable, and of no other call.
NotifiedIsDurable ==
    \A t \in Threads : jobs[t] # None /\ jobs[t].notified =>
        /\ answers[jobs[t].task.key] # None
        /\ answers[jobs[t].task.key].input = jobs[t].task.input

\* What t's call would do if it had read the state that it is decided on.
CurrentError(t) ==
    LET j == jobs[t]
        P == project_traffic(log)
    IN IF session.state # Required(j.task.op) THEN "TRAFFIC_CONFLICT"
       ELSE IF j.task.op = "apply"
       THEN AppliedError(j.task.call, P, session.sim, Fake(Known(P), j.task.call))
       ELSE EffectsError(j.task, P)
CurrentFacts(t) ==
    LET P == project_traffic(log)
        call == jobs[t].task.call
    IN IF jobs[t].task.op = "apply"
       THEN TranslatedFacts(Known(P), call, Fake(Known(P), call))
       ELSE EffectsFacts(jobs[t].task, P)

\* What takes effect is what the committed session and traffic call for, ...
EffectIsCurrent(t) ==
    log' # log /\ answers' # answers /\ At(t, "built") /\ jobs'[t] # jobs[t] =>
        CurrentError(t) = NoError /\ jobs[t].facts = CurrentFacts(t)
\* ... and so is a refusal that is not about the history or the provider.
RefusalIsCurrent(t) ==
    /\ jobs[t] # None /\ jobs[t].answer = None
    /\ jobs'[t] # None /\ jobs'[t].answer \in {"INVALID", "CONFLICT"}
    => CurrentError(t) # NoError

\* The observed-sequence guard (traffic.py:79) makes everything a call read
\* before the lock current when it is decided.
EffectsAreCurrent == [][\A t \in Threads : EffectIsCurrent(t) /\ RefusalIsCurrent(t)]_vars

\* The event contract and the replay never refuse what a builder returns, unless
\* the clock was set back behind the session: with clocks that advance, every
\* refusal of a traffic command has a code.
OnlyClockIsUncoded ==
    [][\A t \in Threads :
         jobs'[t] # jobs[t] /\ jobs'[t] # None /\ jobs'[t].answer = "invalid"
             => jobs[t].at < session.updated]_vars
=============================================================================
