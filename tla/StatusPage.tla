----------------------------- MODULE StatusPage -----------------------------
(***************************************************************************)
(* The status page of the browser (apps/web/src/HealthStatus.tsx) and the  *)
(* API whose health it polls: the middleware that reports every request    *)
(* (apps/api/factory.py), the registry's global observations of "api" and  *)
(* "logging" (packages/application/health.py) and the log file behind      *)
(* StructuredLog (packages/infrastructure/structured_logging.py).          *)
(*                                                                         *)
(* React's StrictMode (main.tsx) runs the page's effect twice: effect 1 is *)
(* cleaned up at once, effect 2 is the one that polls.  Both set the state *)
(* of the same component.  Time is discrete; the registry's observations   *)
(* are kept as ages on the wall clock, which may be set, negative when the *)
(* clock is behind the observation.                                        *)
(***************************************************************************)
EXTENDS Integers

CONSTANTS None,
          Requests,   \* requests of the page that the API serves at a time
          Other,      \* a request of another client
          Poll,       \* the pause between two attempts: 5000 ms
          Deadline,   \* an attempt is aborted after it: 3000 ms
          Latency,    \* a steady API answers within it
          Timeout,    \* health.timeout_seconds
          Dropped,    \* the levels of the middleware's records below logging.level
          MaxBack     \* bound on how far the clock is set behind an observation

\* A logging observation must outlive an answer on its way, the pause and the
\* next request on its way: 30 > 5 + 3 + 3 for the defaults.  The settings accept
\* less, and an idle page then shows expired logging for ever.
ASSUME PageAssumption ==
    /\ Other \notin Requests
    /\ Poll \in Nat \ {0} /\ Latency \in Nat /\ Deadline \in Nat /\ MaxBack \in Nat
    /\ Latency < Deadline
    /\ Timeout \in Nat /\ Timeout > Poll + 2 * Latency

\* A request that failed is recorded as ERROR, any other as INFO; DEBUG and INFO keep
\* both, WARNING and ERROR drop the second, CRITICAL drops both.
ASSUME LevelAssumption == Dropped \in {{}, {"INFO"}, {"INFO", "ERROR"}}

Readinesses == {"healthy", "degraded", "unready"}

AttemptRecords == [request : Requests \union {None}, waited : 0..Deadline]
\* A request whose route has returned: its record is still to be emitted, was
\* emitted or dropped, or raised, and "logging" is still to be reported; answered.
Routed == {"read", "recorded", "unrecorded", "answered"}
SlotRecords == [stage : {"received", "routed"} \union Routed,
                outcome : Readinesses \union {"error", None}, age : Nat]

ASSUME NoneAssumption == /\ None \notin Requests \union {Other} \union Nat \union Readinesses
                         /\ None # "error"
                         /\ None \notin AttemptRecords \union SlotRecords

Effects == {1, 2}
\* Effect 1 was cleaned up.
Stopped(e) == e = 1

Slots == Requests \union {Other}
Lateness == 2 * Deadline + Poll

VARIABLES
    attempts,   \* [Effects -> None or [request, waited]]: loadHealth() in a fetch
    timers,     \* [Effects -> None or the time left]: next
    shown,      \* the page's state
    age,        \* how long ago the readiness it shows was read, or None
    served,     \* [Slots -> None or [stage, outcome, age]]
    api,        \* age of the observation of "api", which is always healthy
    logging,    \* [ok, age]: the observation of "logging"
    writable,   \* the log file can be written
    logged,     \* the last record that was not dropped: "written", "failed", or "lost"
                \* when the registry refused to be told of the failure
    steady      \* the environment has come to rest

page == <<attempts, timers, shown, age>>
server == <<served, api, logging, logged>>
environment == <<writable, steady>>
vars == <<page, server, environment>>

\* create_app reports both components; the page's effect is run, stopped and run
\* again, so the first fetch is aborted but not yet settled.
Init == /\ attempts = [e \in Effects |-> [request |-> None, waited |-> 0]]
        /\ timers = [e \in Effects |-> None]
        /\ shown = "loading" /\ age = None
        /\ served = [r \in Slots |-> None]
        /\ api = 0 /\ logging = [ok |-> TRUE, age |-> 0]
        /\ writable \in BOOLEAN /\ logged = "written" /\ steady = FALSE

-----------------------------------------------------------------------------
\* The API.

Stage(r) == IF served[r] = None THEN "free" ELSE served[r].stage

Move(r, stage) == served' = [served EXCEPT ![r].stage = stage]

\* A fetch that is still waiting for the answer to r.
Awaited(r) == \E e \in Effects : attempts[e] # None /\ attempts[e].request = r

\* An exception outside the middleware's try: no coded answer.
Uncoded(r) == served' = [served EXCEPT ![r].stage = "answered",
                                       ![r].outcome = IF Awaited(r) THEN "error" ELSE None]

\* Between a log record and the report on it the middleware awaits nothing, so the
\* event loop runs nothing else.  The threads of the routes go on.
LoopBusy == \E r \in Slots : Stage(r) \in {"recorded", "unrecorded"}

\* The middleware reports "api" before it calls the route.
Enter(r) == /\ Stage(r) = "received" /\ ~LoopBusy
            /\ IF api < 0 THEN Uncoded(r) /\ UNCHANGED api
               ELSE Move(r, "routed") /\ api' = 0
            /\ UNCHANGED <<logging, logged>>

Expired(observed) == observed < 0 \/ observed >= Timeout

\* snapshot() and readiness(): "api" is required, "logging" is not.
Readiness == IF Expired(api) THEN "unready"
             ELSE IF Expired(logging.age) \/ ~logging.ok THEN "degraded"
             ELSE "healthy"

\* The route of GET /health; what any other request answers is left out.
Read(r) == /\ Stage(r) = "routed"
           /\ served' = [served EXCEPT ![r] = [stage |-> "read", age |-> 0,
                              outcome |-> IF Awaited(r) THEN Readiness ELSE None]]
           /\ UNCHANGED <<api, logging, logged>>

\* GET /health does not raise; any other route may.
Levels(r) == IF r = Other THEN {"INFO", "ERROR"} ELSE {"INFO"}

\* Mutant: the handler keeps the library's handleError, which raises nothing.
EmitIsSilent(r) ==
    /\ Stage(r) = "read" /\ ~LoopBusy
    /\ \E level \in Levels(r) :
         /\ Move(r, "recorded")
         /\ logged' = IF level \in Dropped THEN logged ELSE IF writable THEN "written" ELSE "failed"
    /\ UNCHANGED <<api, logging>>

\* StructuredLog.emit: a record below the level is dropped without a look at the
\* file, whose handler raises OSError.
Emit(r) ==
    /\ Stage(r) = "read" /\ ~LoopBusy
    /\ \E level \in Levels(r) :
         /\ Move(r, IF level \in Dropped \/ writable THEN "recorded" ELSE "unrecorded")
         /\ logged' = IF level \in Dropped THEN logged ELSE IF writable THEN "written" ELSE "failed"
    /\ UNCHANGED <<api, logging>>

\* Mutant: only failures are reported after a record.
ReportFailures(r) ==
    /\ Stage(r) \in {"recorded", "unrecorded"}
    /\ Move(r, "answered")
    /\ logging' = IF Stage(r) = "unrecorded" THEN [ok |-> FALSE, age |-> 0] ELSE logging
    /\ UNCHANGED <<api, logged>>

\* The middleware reports "logging" and answers; the registry refuses an observation
\* that moves backwards, and the answer is lost with it.
Report(r) ==
    /\ Stage(r) \in {"recorded", "unrecorded"}
    /\ IF logging.age < 0
       THEN /\ Uncoded(r) /\ UNCHANGED logging
            /\ logged' = IF Stage(r) = "unrecorded" THEN "lost" ELSE logged
       ELSE /\ Move(r, "answered") /\ UNCHANGED logged
            /\ logging' = [ok |-> Stage(r) = "recorded", age |-> 0]
    /\ UNCHANGED api

\* Another client's request comes, and its answer, or one nobody waits for, goes.
OtherArrives == /\ Stage(Other) = "free"
                /\ served' = [served EXCEPT ![Other] = [stage |-> "received", outcome |-> None, age |-> 0]]
                /\ UNCHANGED <<api, logging, logged>>

Leave(r) == /\ Stage(r) = "answered" /\ ~Awaited(r)
            /\ served' = [served EXCEPT ![r] = None]
            /\ UNCHANGED <<api, logging, logged>>

Serve(r) == /\ Enter(r) \/ Read(r) \/ Emit(r) \/ Report(r) \/ Leave(r)
            /\ UNCHANGED <<page, environment>>

-----------------------------------------------------------------------------
\* The page.

\* The API receives the fetch of an effect.
Deliver(e) == \E r \in Requests :
    /\ attempts[e] # None /\ attempts[e].request = None /\ Stage(r) = "free"
    /\ attempts' = [attempts EXCEPT ![e].request = r]
    /\ served' = [served EXCEPT ![r] = [stage |-> "received", outcome |-> None, age |-> 0]]
    /\ UNCHANGED <<timers, shown, age, api, logging, logged, environment>>

Show(outcome, since) == shown' = outcome /\ age' = since

\* Mutant: the timer of the next attempt is set in the try block.
SettleInTry(e, outcome, since) ==
    /\ attempts' = [attempts EXCEPT ![e] = None]
    /\ IF Stopped(e) THEN UNCHANGED <<shown, age, timers>>
       ELSE /\ Show(outcome, since)
            /\ IF outcome = "unavailable" THEN UNCHANGED timers
               ELSE timers' = [timers EXCEPT ![e] = Poll]
\* The handlers of an attempt: a readiness, or "unavailable" from the catch block;
\* the finally block sets the next timer.
Settle(e, outcome, since) ==
    /\ attempts' = [attempts EXCEPT ![e] = None]
    /\ IF Stopped(e) THEN UNCHANGED <<shown, age, timers>>
       ELSE Show(outcome, since) /\ timers' = [timers EXCEPT ![e] = Poll]

\* The answer arrives; response.ok is false for an uncoded error.
Answer(e) ==
    /\ attempts[e] # None /\ attempts[e].request # None
    /\ LET r == attempts[e].request
       IN /\ Stage(r) = "answered"
          /\ IF served[r].outcome = "error" THEN Settle(e, "unavailable", None)
             ELSE Settle(e, served[r].outcome, served[r].age)
          /\ served' = [served EXCEPT ![r] = None]
    /\ UNCHANGED <<api, logging, logged, environment>>

\* Mutant: an attempt waits for its answer however long it takes.
NoDeadline(e) == attempts[e] # None /\ Stopped(e)
\* controller.abort(), by the deadline's timer or by the effect's clean-up.
Due(e) == attempts[e] # None /\ (Stopped(e) \/ attempts[e].waited = Deadline)

\* What nobody waits for any more the model forgets.
Forget == /\ served' = [r \in Slots |-> IF served[r] = None \/ Awaited(r)' THEN served[r]
                                        ELSE [served[r] EXCEPT !.outcome = None, !.age = 0]]
          /\ UNCHANGED <<api, logging, logged, environment>>

\* The aborted fetch rejects.
Abort(e) == Due(e) /\ Settle(e, "unavailable", None) /\ Forget

\* The network refuses or drops the fetch.
Refuse(e) == /\ attempts[e] # None /\ ~steady
             /\ Settle(e, "unavailable", None)
             /\ Forget

LoadHealth(e) == /\ timers[e] = 0
                 /\ timers' = [timers EXCEPT ![e] = None]
                 /\ attempts' = [attempts EXCEPT ![e] = [request |-> None, waited |-> 0]]
                 /\ UNCHANGED <<shown, age, server, environment>>

Poller(e) == Answer(e) \/ Abort(e) \/ LoadHealth(e)

-----------------------------------------------------------------------------
\* The environment.

Least(a, b) == IF a < b THEN a ELSE b

\* Timers are prompt, and a steady API answers within Latency.
TimeMayPass ==
    \A e \in Effects : /\ timers[e] # 0
                       /\ ~Due(e)
                       /\ attempts[e] # None /\ steady => attempts[e].waited < Latency

Tick ==
    /\ TimeMayPass
    /\ attempts' = [e \in Effects |-> IF attempts[e] = None THEN None
                                      ELSE [attempts[e] EXCEPT !.waited = @ + 1]]
    /\ timers' = [e \in Effects |-> IF timers[e] = None THEN None ELSE timers[e] - 1]
    /\ age' = IF age = None THEN None ELSE Least(age + 1, Lateness + 1)
    /\ served' = [r \in Slots |-> IF Stage(r) \in Routed /\ Awaited(r)
                                  THEN [served[r] EXCEPT !.age = Least(@ + 1, Lateness)]
                                  ELSE served[r]]
    /\ api' = Least(api + 1, Timeout)
    /\ logging' = [logging EXCEPT !.age = Least(@ + 1, Timeout)]
    /\ UNCHANGED <<shown, logged, environment>>

\* The wall clock is set back: every observation is younger by the same amount. An
\* age of Timeout stands for every greater one.
SetBack(a, by) == IF a < Timeout THEN {a - by} ELSE (Timeout - by)..Timeout

ClockSetBack ==
    /\ ~steady
    /\ \E by \in 1..MaxBack :
         /\ api - by >= -MaxBack /\ logging.age - by >= -MaxBack
         /\ api' \in SetBack(api, by)
         /\ \E a \in SetBack(logging.age, by) : logging' = [logging EXCEPT !.age = a]
    /\ UNCHANGED <<page, served, logged, environment>>

LogFileChanges == ~steady /\ writable' = ~writable /\ UNCHANGED <<page, server, steady>>

\* The API process restarts: its requests and its registry are gone.
Restart ==
    /\ ~steady
    /\ attempts' = [e \in Effects |-> IF attempts[e] = None THEN None
                                      ELSE [attempts[e] EXCEPT !.request = None]]
    /\ served' = [r \in Slots |-> None]
    /\ api' = 0 /\ logging' = [ok |-> TRUE, age |-> 0] /\ logged' = "written"
    /\ UNCHANGED <<timers, shown, age, environment>>

\* From here on the file can be written, the clock and the network are sound, and
\* an attempt has at most Latency left to wait.
Rest == /\ ~steady /\ writable /\ api >= 0 /\ logging.age >= 0
        /\ \A e \in Effects : attempts[e] = None
        /\ steady' = TRUE
        /\ UNCHANGED <<page, server, writable>>

Next == \/ \E e \in Effects : Deliver(e) \/ Poller(e) \/ Refuse(e)
        \/ \E r \in Slots : Serve(r)
        \/ OtherArrives /\ UNCHANGED <<page, environment>>
        \/ Tick \/ ClockSetBack \/ LogFileChanges \/ Restart \/ Rest

\* The browser runs its handlers and time passes; the API need not do anything
\* before the environment is steady.  Then its event loop takes what is ready in turn,
\* also when others are served in between.
Spec == /\ Init /\ [][Next]_vars
        /\ WF_vars(Tick)
        /\ \A e \in Effects : WF_vars(Poller(e)) /\ WF_vars(steady /\ Deliver(e))
        /\ WF_vars(steady /\ Serve(Other)) /\ \A r \in Requests : SF_vars(steady /\ Serve(r))

-----------------------------------------------------------------------------
\* The type invariant.
TypeOK ==
    /\ attempts \in [Effects -> AttemptRecords \union {None}]
    /\ timers \in [Effects -> (0..Poll) \union {None}]
    /\ shown \in Readinesses \union {"loading", "unavailable"}
    /\ age \in Nat \union {None}
    /\ served \in [Slots -> SlotRecords \union {None}]
    /\ api \in -MaxBack..Timeout
    /\ logging \in [ok : BOOLEAN, age : -MaxBack..Timeout]
    /\ logged \in {"written", "failed", "lost"}
    /\ writable \in BOOLEAN /\ steady \in BOOLEAN

\* The page is never late: the readiness it shows was read at most two deadlines
\* and one pause ago, whatever the API, the network and the wall clock do, and only
\* one of its effects is polling.
ShownIsFresh == /\ age # None => age <= Lateness
                /\ shown \in Readinesses <=> age # None
                /\ \A e \in Effects : timers[e] # None => ~Stopped(e) /\ attempts[e] = None

\* A file error shows in health until a record is written: when the level keeps all
\* records of the middleware, or none, health reads as healthy over a record that
\* failed only in the moment before the middleware reports the failure (a thread may
\* read it then), or when the clock was behind the observation to be replaced.
LogFailureShows ==
    ("INFO" \in Dropped => "ERROR" \in Dropped) /\ Readiness = "healthy" /\ logged = "failed"
        => \E r \in Slots : Stage(r) = "unrecorded"

\* The page polls for ever, whatever becomes of its attempts.
PollsForever == []<>(attempts[2] # None)

\* Once the environment has come to rest, the page ends up healthy for good: it
\* recovers from refused requests, expired observations, a failed log file and a
\* restarted API.
Recovers == steady ~> [](shown = "healthy")
=============================================================================
