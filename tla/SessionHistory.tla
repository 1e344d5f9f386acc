--------------------------- MODULE SessionHistory ---------------------------
(***************************************************************************)
(* One session under a sequential stream of commands: the live policy      *)
(* (create_session, transition_session), the events its factory emits, and *)
(* the history a restart projects back into a session.                     *)
(***************************************************************************)
EXTENDS SessionDomain

CONSTANTS Clocks,         \* wall-clock readings
          SimTimes,       \* simulation times a request may carry
          MaxHistory      \* bound on the length of the history

ASSUME TimesAssumption == Clocks \subseteq Nat /\ SimTimes \subseteq Nat
ASSUME LengthAssumption == MaxHistory \in Nat
ASSUME NoneIsNoSession == None \notin SessionRecords

VARIABLES history, live, outcome

hvars == <<history, live, outcome>>

Requests == [target : LifecycleStates, at : Clocks,
             sim : SimTimes \union {Unset}, failure : BOOLEAN]

HInit == /\ history = <<>>
         /\ live = None
         /\ outcome = NoOutcome

\* Append event e, after which the live session is s.
Commit(s, e) == /\ history' = Append(history, e)
                /\ live' = s
                /\ outcome' = NoOutcome

Reject(code) == outcome' = code /\ UNCHANGED <<history, live>>

\* A raise that carries no TransitionErrorCode: from Session.__post_init__,
\* the event contract, or the projection of the candidate history.
UncodedError == "ValueError"

Create ==
    /\ live = None
    /\ Len(history) < MaxHistory
    /\ \E sc \in Scenarios, at \in Clocks :
         LET s == create_session(sc, at)
             e == CreatedEvent(s, Len(history) + 1)
         IN IF PostInit(s) /\ Contract(e) THEN Commit(s, e) ELSE Reject(UncodedError)

Transition ==
    /\ live # None
    /\ Len(history) < MaxHistory
    /\ \E r \in Requests :
         LET code == TransitionError(live, r)
             s == Transitioned(live, r)
             e == TransitionEvent(live, r, Len(history) + 1)
         IN IF code # NoOutcome THEN Reject(code)
            ELSE IF PostInit(s) /\ Contract(e) /\ Follows(live, e)
                 THEN Commit(s, e)
                 ELSE Reject(UncodedError)

\* A health or traffic fact: it keeps the session and must fit its clock and,
\* for traffic, its lifecycle state.
RecordFact ==
    /\ live # None
    /\ Len(history) < MaxHistory
    /\ \E kind \in FactKinds, at \in Clocks, sim \in SimTimes :
         LET e == FactEvent(kind, at, sim, Len(history) + 1)
         IN IF Contract(e) /\ Follows(live, e)
            THEN Commit(live, e)
            ELSE Reject("FACT_REJECTED")

HNext == Create \/ Transition \/ RecordFact

HSpec == HInit /\ [][HNext]_hvars

-----------------------------------------------------------------------------
Codes == {NoOutcome, "ILLEGAL_TRANSITION", "INVALID_TIMESTAMP",
          "INVALID_SIMULATION_TIME", "INVALID_FAILURE", UncodedError, "FACT_REJECTED"}

\* The type invariant.
HTypeOK ==
    /\ live \in SessionRecords \union {None}
    /\ history \in Seq(EventRecords)
    /\ Len(history) <= MaxHistory
    /\ live = None <=> history = <<>>
    /\ outcome \in Codes

\* transition_session's four coded guards leave nothing for the constructor,
\* the event contract or the projection to refuse: no lifecycle command of one
\* sequential caller ends in an uncoded ValueError.
NoUncodedRejection == outcome # UncodedError

\* A restart projects the stored history back to the live session.
ReplayMatchesLive == project_session(history) = live

\* Once started, a session keeps its start; simulation time moves only out of
\* RUNNING and never back; a terminal session never changes again.
TimelineStep ==
    live # None =>
        /\ live.started # Unset => live'.started = live.started
        /\ live'.sim # live.sim => live.state = "RUNNING" /\ live'.sim > live.sim
        /\ live'.updated >= live.updated
        /\ live.state \in Terminal => live' = live
Timeline == [][TimelineStep]_hvars
=============================================================================
