--------------------------- MODULE SessionDomain ---------------------------
(***************************************************************************)
(* The pure session policy of packages/domain/session.py and the event     *)
(* contract of packages/domain/events.py, as constant-level operators.     *)
(*                                                                         *)
(* Identities, hashes, seeds and version strings are one value, `scenario' *)
(* (what a session pins at creation); wall and simulation times are        *)
(* naturals; a failure's category and reason are the Boolean "present".    *)
(***************************************************************************)
EXTENDS Integers, Sequences

CONSTANTS None,                 \* Python None, for a session, event or row
          Scenarios             \* what a session may pin at creation

Unset == -1                     \* Python None, for a time
NoOutcome == "NONE"             \* Python None, for an outcome or an error code

LifecycleStates == {"CREATED", "INITIALISING", "READY", "RUNNING", "PAUSED",
                    "COMPLETED", "STOPPED", "FAILED"}
Terminal   == {"COMPLETED", "STOPPED", "FAILED"}
PreRunning == {"CREATED", "INITIALISING", "READY"}

\* Mutant: a stopped session may be started again.
StoppedResumes(state) ==
    CASE state \in {"RUNNING", "PAUSED"} -> {"RUNNING", "PAUSED"} \union Terminal
      [] state = "CREATED"      -> {"INITIALISING", "FAILED"}
      [] state = "INITIALISING" -> {"READY", "FAILED"}
      [] state \in {"READY", "STOPPED"} -> {"RUNNING", "FAILED"}
      [] OTHER -> {}

allowed_transitions(state) ==
    CASE state = "CREATED"      -> {"INITIALISING", "FAILED"}
      [] state = "INITIALISING" -> {"READY", "FAILED"}
      [] state = "READY"        -> {"RUNNING", "FAILED"}
      [] state = "RUNNING"      -> {"PAUSED"} \union Terminal
      [] state = "PAUSED"       -> {"RUNNING"} \union Terminal
      [] OTHER                  -> {}

OutcomeOf(state) == IF state \in Terminal THEN state ELSE NoOutcome

SessionRecords ==
    [state : LifecycleStates, version : Nat, scenario : Scenarios,
     created : Nat, updated : Nat, started : Nat \union {Unset},
     ended : Nat \union {Unset}, sim : Nat,
     outcome : Terminal \union {NoOutcome}, failure : BOOLEAN]

\* Session.__post_init__: what the dataclass refuses to construct.
PostInit(s) ==
    /\ s.version >= 1
    /\ s.created <= s.updated
    /\ s.started # Unset => s.created <= s.started /\ s.started <= s.updated
    /\ s.state \in PreRunning => s.started = Unset
    /\ s.state \in {"RUNNING", "PAUSED", "COMPLETED", "STOPPED"} => s.started # Unset
    /\ s.started = Unset => s.sim = 0
    /\ s.state = "CREATED" => s.version = 1 /\ s.updated = s.created
    /\ s.ended = IF s.state \in Terminal THEN s.updated ELSE Unset
    /\ s.outcome = OutcomeOf(s.state)
    /\ s.failure <=> s.state = "FAILED"

\* TransitionRequest; sim may be Unset, which keeps the session's simulation time.
RequestRecords == [target : LifecycleStates, at : Nat, sim : Nat \union {Unset},
                   failure : BOOLEAN]

create_session(scenario, at) ==
    [state |-> "CREATED", version |-> 1, scenario |-> scenario,
     created |-> at, updated |-> at, started |-> Unset, ended |-> Unset,
     sim |-> 0, outcome |-> NoOutcome, failure |-> FALSE]

-----------------------------------------------------------------------------
(* transition_session.                                                      *)

RequestedSim(s, r) == IF r.sim = Unset THEN s.sim ELSE r.sim

\* Mutant: any state, not only RUNNING, may advance simulation time.
PausedTimeAdvances(s, r) ==
    IF r.target \notin allowed_transitions(s.state) THEN "ILLEGAL_TRANSITION"
    ELSE IF r.at < s.updated THEN "INVALID_TIMESTAMP"
    ELSE IF RequestedSim(s, r) < s.sim THEN "INVALID_SIMULATION_TIME"
    ELSE IF r.failure # (r.target = "FAILED") THEN "INVALID_FAILURE"
    ELSE NoOutcome

\* The guards, in the order the code tries them: the first one that fails
\* names the SessionTransitionError.
TransitionError(s, r) ==
    IF r.target \notin allowed_transitions(s.state) THEN "ILLEGAL_TRANSITION"
    ELSE IF r.at < s.updated THEN "INVALID_TIMESTAMP"
    ELSE IF \/ RequestedSim(s, r) < s.sim
            \/ s.state # "RUNNING" /\ RequestedSim(s, r) # s.sim
         THEN "INVALID_SIMULATION_TIME"
    ELSE IF r.failure # (r.target = "FAILED") THEN "INVALID_FAILURE"
    ELSE NoOutcome

Transitioned(s, r) ==
    [s EXCEPT !.state   = r.target,
              !.version = @ + 1,
              !.updated = r.at,
              !.sim     = RequestedSim(s, r),
              !.started = IF s.state = "READY" /\ r.target = "RUNNING"
                          THEN r.at ELSE @,
              !.ended   = IF r.target \in Terminal THEN r.at ELSE Unset,
              !.outcome = OutcomeOf(r.target),
              !.failure = r.failure]

-----------------------------------------------------------------------------
(* Events.  kind is "created", "transition", "health", "spawned" or         *)
(* "traffic" (route, aircraft state and runway occupancy facts).            *)

FactKinds == {"health", "spawned", "traffic"}

EventRecords ==
    [kind : {"created"}, seq : Nat, at : Nat, sim : Nat, scenario : Scenarios]
    \union
    [kind : {"transition"}, seq : Nat, at : Nat, sim : Nat,
     previous_state : LifecycleStates, state : LifecycleStates,
     previous_version : Nat, version : Nat,
     outcome : Terminal \union {NoOutcome}, failure : BOOLEAN]
    \union
    [kind : FactKinds, seq : Nat, at : Nat, sim : Nat]

\* SessionEventFactory.created
CreatedEvent(s, seq) ==
    [kind |-> "created", seq |-> seq, at |-> s.created, sim |-> s.sim,
     scenario |-> s.scenario]

\* transition_session's fact, enveloped by SessionEventFactory.transitioned.
TransitionEvent(s, r, seq) ==
    LET t == Transitioned(s, r)
    IN [kind |-> "transition", seq |-> seq, at |-> r.at, sim |-> t.sim,
        previous_state |-> s.state, state |-> t.state,
        previous_version |-> s.version, version |-> t.version,
        outcome |-> t.outcome, failure |-> t.failure]

FactEvent(kind, at, sim, seq) == [kind |-> kind, seq |-> seq, at |-> at, sim |-> sim]

\* SessionTransitionPayload.valid_transition and the per-payload clauses of
\* DomainEvent.registered_contract.
Contract(e) ==
    /\ e.seq >= 1
    /\ e.kind = "created" => e.seq = 1 /\ e.sim = 0
    /\ e.kind # "created" => e.seq > 1
    /\ e.kind = "transition" =>
        /\ e.state \in allowed_transitions(e.previous_state)
        /\ e.version = e.previous_version + 1
        /\ e.previous_state = "CREATED" => e.previous_version = 1
        /\ e.outcome = OutcomeOf(e.state)
        /\ e.failure <=> e.state = "FAILED"
        /\ e.seq >= e.version
        /\ e.previous_state \in PreRunning => e.sim = 0

-----------------------------------------------------------------------------
(* project_session, one event at a time.                                    *)

\* The TransitionRequest the projection rebuilds from a stored event.
RequestOf(e) == [target |-> e.state, at |-> e.at, sim |-> e.sim, failure |-> e.failure]

\* project_session accepts e after a prefix that projects to s.
Follows(s, e) ==
    \/ /\ e.kind = "transition"
       /\ e.previous_version = s.version
       /\ e.previous_state = s.state
       /\ TransitionError(s, RequestOf(e)) = NoOutcome
       /\ PostInit(Transitioned(s, RequestOf(e)))
    \/ /\ e.kind \in FactKinds
       /\ e.kind = "spawned" => s.state = "INITIALISING"
       /\ e.kind = "traffic" => s.state = "RUNNING"
       /\ e.sim = s.sim
       /\ e.at >= s.updated

\* Mutant: replayed facts advance the session's clock.
FactsTouchClock(s, e) == IF e.kind = "transition" THEN Transitioned(s, RequestOf(e))
                         ELSE [s EXCEPT !.updated = e.at]

\* The session after e: facts leave the session as it was.
AfterEvent(s, e) == IF e.kind = "transition" THEN Transitioned(s, RequestOf(e)) ELSE s

\* project_session: the fold over a whole history; None is its ValueError.
project_session(history) ==
    LET ok(i) == history[i].seq = i /\ Contract(history[i])
        proj[i \in 0..Len(history)] ==
            IF i = 0 THEN None
            ELSE IF ~ok(i) THEN None
            ELSE IF i = 1
            THEN IF history[1].kind = "created"
                 THEN create_session(history[1].scenario, history[1].at) ELSE None
            ELSE LET s == proj[i - 1]
                 IN IF s # None /\ Follows(s, history[i]) THEN AfterEvent(s, history[i])
                    ELSE None
    IN proj[Len(history)]
=============================================================================
