--------------------------- MODULE HealthRegistry ---------------------------
(***************************************************************************)
(* HealthRegistry (packages/application/health.py): the in-memory health   *)
(* of registered components, guarded by one lock, and the durable health   *)
(* events that reports with a session context write through the unit of    *)
(* work.  The unit of work is what DurableLog promises for one session:    *)
(* commit() is one atomic decision, possibly with an unknown outcome.      *)
(*                                                                         *)
(* A job is a thread inside report() or expire():                          *)
(*   step       "reading", "committing", "installing", "expiring"          *)
(*   component, material, context   the report's arguments                 *)
(*   at         when it observed them                                      *)
(*   old        the durable health it compares with, None when there is    *)
(*              none; sim: the simulation time of the session it loaded    *)
(*   base, rest expire()'s context and the components it has still to      *)
(*              report                                                     *)
(* A field is None where the code no longer reads it.                      *)
(***************************************************************************)
EXTENDS Integers, Sequences, FiniteSetsExt, TLC

CONSTANTS None, Threads,
          Components,   \* numbered in the order of their names
          Reports,      \* what producers observe: a subset of Materials
          Contexts,     \* SessionHealthContext of a call, or None for a global one
          Keys,         \* their idempotency keys
          Timeout,      \* timeout_seconds
          MaxTime,      \* bound on the clock
          MaxVersion    \* bound on the session's lifecycle version

Materials == {[status |-> "healthy",  reason |-> "operational"],
              [status |-> "degraded", reason |-> "failed"],
              [status |-> "unready",  reason |-> "failed"],
              [status |-> "unready",  reason |-> "timeout"],
              [status |-> "unready",  reason |-> "starting"]}
TimedOut == [status |-> "unready", reason |-> "timeout"]
Starting == [status |-> "unready", reason |-> "starting"]

Times == 0..MaxTime
Observations == [material : Materials, at : Times]

\* report() uses the context's key, expire() one derived from it per component.
AllKeys == Keys \union (Keys \X Components)

JobRecords ==
    [step : {"waiting", "reading", "committing", "installing", "expiring"},
     component : Components \union {None}, material : Materials \union {None},
     context : [key : AllKeys, expected : Nat] \union {None},
     at : Times \union {None}, old : Observations \union {None}, sim : {0, 1, None},
     base : Contexts \union {None}, rest : SUBSET Components]
Rows == [input : Materials, component : Components, expected : Nat]
HealthEvents == [component : Components, health : Observations,
                 previous : {m.status : m \in Materials} \union {None}]

ASSUME Assumption ==
    /\ None \notin Observations \union Materials \union JobRecords \union Rows
    /\ None \notin Threads \union Components \union Times
    /\ None \notin {m.status : m \in Materials} \union [key : AllKeys, expected : Nat]
    /\ Components \subseteq Nat
    /\ Reports \subseteq Materials
    /\ Contexts \subseteq [key : Keys, expected : Nat] \union {None}
    /\ Timeout \in Nat \ {0} /\ MaxTime \in Nat /\ MaxVersion \in Nat \ {0}

VARIABLES components,   \* [Components -> Observations]: _components
          lock,         \* the thread that holds _lock, or None
          jobs,         \* [Threads -> job or None]
          now,          \* the wall clock
          session,      \* the durable session: [version, sim, updated]
          history,      \* its durable health events
          answers       \* its retry records: [AllKeys -> row or None]

durable == <<session, history, answers>>
vars == <<components, lock, jobs, now, session, history, answers>>

Init == /\ now = 0
        /\ components = [c \in Components |-> [material |-> Starting, at |-> 0]]
        /\ lock = None
        /\ jobs = [t \in Threads |-> None]
        /\ session = [version |-> 1, sim |-> 0, updated |-> 0]
        /\ history = <<>>
        /\ answers = [k \in AllKeys |-> None]

-----------------------------------------------------------------------------
\* snapshot(): stale and future observations read as timed out.
Stale(c) == now < components[c].at \/ now - components[c].at >= Timeout
Snapshot == [c \in Components |-> IF Stale(c) THEN TimedOut ELSE components[c].material]

\* Where c's events are in the history.
HealthOf(c) == {i \in DOMAIN history : history[i].component = c}
\* Mutant: the comparison is with the registry, not with the durable history.
LatestInMemory(c) == components[c]

\* prior_health[-1]
LatestHealth(c) == IF HealthOf(c) = {} THEN None ELSE history[Max(HealthOf(c))].health

At(t, step) == jobs[t] # None /\ jobs[t].step = step
Goes(t, job) == jobs' = [jobs EXCEPT ![t] = job]

\* A thread that waits for the lock in report(), and one in expire()'s loop.
Reporting(c, m, context, base, rest) ==
    [step |-> "waiting", component |-> c, material |-> m, context |-> context,
     at |-> None, old |-> None, sim |-> None, base |-> base, rest |-> rest]
Looping(base, rest) ==
    [step |-> "expiring", component |-> None, material |-> None, context |-> None,
     at |-> None, old |-> None, sim |-> None, base |-> base, rest |-> rest]

\* Leaving report(), and expire() with it: the lock is released.
Raise(t) == /\ Goes(t, None)
            /\ lock' = None
            /\ UNCHANGED components
\* Mutant: a successful report leaves the lock taken.
InstallKeepsLock(t, o) == /\ components' = [components EXCEPT ![jobs[t].component] = o]
                          /\ Goes(t, None)
                          /\ UNCHANGED lock
\* Returning from report(), to expire()'s loop when there is more to expire.
Install(t, o) == /\ components' = [components EXCEPT ![jobs[t].component] = o]
                 /\ lock' = None
                 /\ Goes(t, IF jobs[t].rest = {} THEN None
                            ELSE Looping(jobs[t].base, jobs[t].rest))
\* To the second read of the history, after a result of commit().
Committed(t) == /\ Goes(t, [jobs[t] EXCEPT !.step = "installing", !.at = None, !.old = None,
                                             !.sim = None])
                /\ UNCHANGED <<components, lock>>

-----------------------------------------------------------------------------
\* A call of report(), up to the lock.
Report(t, c, m, context) ==
    /\ jobs[t] = None
    /\ Goes(t, Reporting(c, m, context, None, {}))
    /\ UNCHANGED <<components, lock, now, durable>>

\* expire(): the snapshot is taken under the lock, the reports come after it.
Expire(t, context) ==
    /\ jobs[t] = None /\ lock = None
    /\ LET late == {c \in Components : Snapshot[c].reason = "timeout"}
       IN Goes(t, IF late = {} THEN None ELSE Looping(context, late))
    /\ UNCHANGED <<components, lock, now, durable>>

DerivedContext(context, c) ==
    IF context = None THEN None ELSE [context EXCEPT !.key = <<context.key, c>>]

\* The next round of expire()'s loop, in the order of the components' names.
NextExpiry(t) ==
    /\ At(t, "expiring")
    /\ LET c == Min(jobs[t].rest)
           context == DerivedContext(jobs[t].base, c)
       IN Goes(t, Reporting(c, TimedOut, context, jobs[t].base, jobs[t].rest \ {c}))
    /\ UNCHANGED <<components, lock, now, durable>>

\* Take the lock and the observation; a global report is installed at once.
Observe(t) ==
    /\ At(t, "waiting") /\ lock = None
    /\ LET c == jobs[t].component
           o == [material |-> jobs[t].material, at |-> now]
       IN IF now < components[c].at THEN Raise(t)
          ELSE IF jobs[t].context = None THEN Install(t, o)
          ELSE /\ Goes(t, [jobs[t] EXCEPT !.step = "reading", !.at = now,
                                          !.old = LatestHealth(c)])
               /\ lock' = t
               /\ UNCHANGED components
    /\ UNCHANGED <<now, durable>>

\* get_session, a transaction after the one that read the history.
LoadSession(t) == /\ At(t, "reading")
                  /\ Goes(t, [jobs[t] EXCEPT !.step = "committing", !.sim = session.sim])
                  /\ UNCHANGED <<components, lock, now, durable>>

Changed(t) == jobs[t].old # None => jobs[t].old.material # jobs[t].material

Row(t) == [input |-> jobs[t].material, component |-> jobs[t].component,
           expected |-> jobs[t].context.expected]

Candidate(t) == [material |-> jobs[t].material, at |-> jobs[t].at]

Event(t) == [component |-> jobs[t].component, health |-> Candidate(t),
             previous |-> IF jobs[t].old = None THEN None ELSE jobs[t].old.material.status]

\* The builder's event projects after the committed history.
Projects(t) == jobs[t].sim = session.sim /\ jobs[t].at >= session.updated

WriteHealth(t) == /\ history' = Append(history, Event(t))
                  /\ answers' = [answers EXCEPT ![jobs[t].context.key] = Row(t)]
                  /\ UNCHANGED session

\* unit_of_work.commit(request, build): retry lookup, version, builder, append.
Decide(t) ==
    LET row == answers[jobs[t].context.key]
    IN IF row # None
       THEN (IF row = Row(t) THEN Committed(t) ELSE Raise(t)) /\ UNCHANGED durable
       ELSE IF session.version # jobs[t].context.expected
       THEN Raise(t) /\ UNCHANGED durable
       ELSE IF ~Changed(t) THEN Install(t, Candidate(t)) /\ UNCHANGED durable
       ELSE IF ~Projects(t) THEN Raise(t) /\ UNCHANGED durable
       ELSE Committed(t) /\ WriteHealth(t)

\* Mutant: a heartbeat without news never reaches the unit of work.
HeartbeatFirst(t) ==
    /\ At(t, "committing")
    /\ IF Changed(t) THEN Decide(t) ELSE Install(t, Candidate(t)) /\ UNCHANGED durable
    /\ UNCHANGED now

CommitHealth(t) == At(t, "committing") /\ Decide(t) /\ UNCHANGED now

\* Mutant: the candidate is installed although it was not stored.
FailureInstalls(t) == /\ At(t, "committing")
                      /\ Install(t, Candidate(t))
                      /\ UNCHANGED <<now, durable>>

\* commit() raises PersistenceError: rolled back, or with an unknown outcome.
CommitFails(t) ==
    /\ At(t, "committing")
    /\ Raise(t)
    /\ \/ UNCHANGED durable
       \/ /\ answers[jobs[t].context.key] = None
          /\ session.version = jobs[t].context.expected
          /\ Changed(t) /\ Projects(t)
          /\ WriteHealth(t)
    /\ UNCHANGED now

\* After a result: install the latest durable health of the component.
InstallDurable(t) == /\ At(t, "installing")
                     /\ Install(t, LatestHealth(jobs[t].component))
                     /\ UNCHANGED <<now, durable>>

\* A read of the store raises PersistenceError: nothing is installed.
ReadFails(t) == /\ At(t, "reading") \/ At(t, "installing")
                /\ Raise(t)
                /\ UNCHANGED <<now, durable>>

-----------------------------------------------------------------------------
\* Another command of the session: its version always moves, its simulation
\* time may.
SessionCommand == /\ session.version < MaxVersion /\ now >= session.updated
                  /\ \E sim \in {session.sim, 1} :
                       session' = [version |-> session.version + 1, sim |-> sim, updated |-> now]
                  /\ UNCHANGED <<components, lock, jobs, now, history, answers>>

\* Wall clocks are set back as well as forward.
Clock == now' \in Times \ {now} /\ UNCHANGED <<components, lock, jobs, durable>>

\* The process restarts: register() every component again.  That create_app reports
\* its own two components HEALTHY right after it is a global report (StatusPage).
Restart == /\ components' = [c \in Components |-> [material |-> Starting, at |-> now]]
           /\ lock' = None
           /\ jobs' = [t \in Threads |-> None]
           /\ UNCHANGED <<now, durable>>

JobStep(t) == \/ NextExpiry(t) \/ Observe(t) \/ LoadSession(t)
              \/ CommitHealth(t) \/ CommitFails(t) \/ InstallDurable(t) \/ ReadFails(t)

Next == \/ \E t \in Threads :
             \/ \E c \in Components, m \in Reports, x \in Contexts : Report(t, c, m, x)
             \/ \E x \in Contexts : Expire(t, x)
             \/ JobStep(t)
        \/ SessionCommand \/ Clock \/ Restart

\* Threads inside report() keep running.
Spec == Init /\ [][Next]_vars /\ \A t \in Threads : WF_vars(JobStep(t))

-----------------------------------------------------------------------------
\* The type invariant.
TypeOK ==
    /\ components \in [Components -> Observations]
    /\ lock \in Threads \union {None}
    /\ now \in Times
    /\ session \in [version : 1..MaxVersion, sim : {0, 1}, updated : Times]
    /\ history \in Seq(HealthEvents)
    /\ answers \in [AllKeys -> Rows \union {None}]
    /\ jobs \in [Threads -> JobRecords \union {None}]
    /\ \A t \in Threads :
         lock = t <=> \E step \in {"reading", "committing", "installing"} : At(t, step)

\* The durable health of a component is a chain of material changes: every event
\* differs from the one before it and names its status, across retries, unknown
\* commit outcomes and restarts of the registry.
Chained(i) ==
    LET before == {j \in HealthOf(history[i].component) : j < i}
    IN IF before = {} THEN history[i].previous = None
       ELSE LET last == history[Max(before)].health.material
            IN history[i].previous = last.status /\ history[i].health.material # last
ChainCoherent == \A i \in DOMAIN history : Chained(i)

\* With session reports only: nobody reads a health, other than the one that
\* registration gives, that is not in the durable history.
VisibleIsDurable ==
    \A c \in Components : components[c].material = Starting
        \/ \E i \in HealthOf(c) : history[i].health.material = components[c].material

\* A key stays bound to its input: no report with a session installs anything,
\* not even a heartbeat without news, when its key had been answered for another
\* observation.
KeyBindsInput ==
    [][\A t \in Threads :
         lock = t /\ components' # components /\ ~Restart =>
             answers[jobs[t].context.key] \in {None, Row(t)}]_vars

\* Health observations never move backwards while the registry lives
\* (health.py:133 raises on one that would).
ObservationsAdvance ==
    [][(\A c \in Components : components'[c].at >= components[c].at) \/ Restart]_vars
=============================================================================
