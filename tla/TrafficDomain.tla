--------------------------- MODULE TrafficDomain ---------------------------
(***************************************************************************)
(* The traffic policy of packages/domain/traffic.py, the replay of         *)
(* packages/application/traffic_projection.py, and what an external        *)
(* provider may contribute (packages/application/simulation.py), as        *)
(* constant-level operators.                                               *)
(*                                                                         *)
(* A traffic state is [aircraft, runways]; an aircraft is the part of its  *)
(* record that some guard reads.  Runways are OPEN: nothing closes one.    *)
(* A route is one value; Unknown is an identifier, or a route through one, *)
(* that the aerodrome does not have.                                       *)
(***************************************************************************)
EXTENDS Integers, Sequences

CONSTANTS None, Unknown,
          AircraftIds, Runways, Holds,
          HoldRunway,      \* the runway of each holding point
          Routes, NoRoute  \* NoRoute: the empty route

ASSUME GeometryAssumption == /\ HoldRunway \in [Holds -> Runways]
                             /\ None \notin Runways \union Holds \union {Unknown}
                             /\ Unknown \notin Runways \union Holds \union Routes
                             /\ NoRoute \in Routes

NoError == "NO_ERROR"

AircraftStates == {"PARKED", "READY_TO_TAXI", "TAXIING", "HOLDING", "LINED_UP",
                   "TAKEOFF_ROLL", "AIRBORNE", "INBOUND", "FINAL", "LANDING_ROLL",
                   "VACATING", "STOPPED"}
RunwayStates == {"LINED_UP", "TAKEOFF_ROLL", "LANDING_ROLL", "VACATING"}

TRANSITIONS(state) ==
    CASE state = "PARKED"        -> {"READY_TO_TAXI", "STOPPED"}
      [] state = "READY_TO_TAXI" -> {"TAXIING", "STOPPED"}
      [] state = "TAXIING"       -> {"HOLDING", "PARKED", "STOPPED"}
      [] state = "HOLDING"       -> {"TAXIING", "LINED_UP", "STOPPED"}
      [] state = "LINED_UP"      -> {"TAKEOFF_ROLL", "VACATING", "STOPPED"}
      [] state = "TAKEOFF_ROLL"  -> {"AIRBORNE", "STOPPED"}
      [] state = "AIRBORNE"      -> {"INBOUND"}
      [] state = "INBOUND"       -> {"FINAL", "AIRBORNE"}
      [] state = "FINAL"         -> {"LANDING_ROLL", "AIRBORNE"}
      [] state = "LANDING_ROLL"  -> {"VACATING", "STOPPED"}
      [] state = "VACATING"      -> {"TAXIING", "STOPPED"}
      [] state = "STOPPED"       -> {}

AircraftOf(routes, runways, holds) ==
    [state : AircraftStates, version : Nat \ {0}, route : routes,
     assigned : runways \union {None}, hold : holds \union {None},
     occupied : runways \union {None}]
Aircraft == AircraftOf(Routes, Runways, Holds)

RunwayRecords == [version : Nat \ {0}, occupants : SUBSET AircraftIds]

OccupancyFacts == [kind : {"occupancy"}, id : AircraftIds, runway : Runways,
                   before : RunwayRecords, after : RunwayRecords, present : BOOLEAN]

\* None is no aircraft, also none with references that are yet to be checked.
ASSUME NoneAssumption ==
    /\ None \notin AircraftOf(Routes \union {Unknown}, Runways \union {Unknown},
                              Holds \union {Unknown})
    /\ None \notin OccupancyFacts

TrafficStates == [aircraft : [AircraftIds -> Aircraft \union {None}],
                  runways  : [Runways -> RunwayRecords]]

\* Aircraft.coherent
CoherentAircraft(a) ==
    /\ a.state = "HOLDING" <=> a.hold # None
    /\ a.state \in RunwayStates => a.occupied # None
    /\ a.occupied # None => /\ a.state \in RunwayStates \union {"STOPPED"}
                            /\ a.assigned = a.occupied

\* occupancy(), for an open runway and its current version
occupancy(runway, id, present) ==
    IF id \in runway.occupants <=> present THEN runway
    ELSE [version |-> runway.version + 1,
          occupants |-> IF present THEN runway.occupants \union {id}
                        ELSE runway.occupants \ {id}]

\* TrafficState.coherent: references, and membership on both sides.
References(T) ==
    \A id \in AircraftIds : T.aircraft[id] # None =>
        LET a == T.aircraft[id]
        IN /\ a.route \in Routes
           /\ a.assigned \in Runways \union {None}
           /\ a.hold # None => a.hold \in Holds /\ HoldRunway[a.hold] = a.assigned
Occupying(T, r) == {id \in AircraftIds : T.aircraft[id] # None /\ T.aircraft[id].occupied = r}
Membership(T) == \A r \in Runways : T.runways[r].occupants = Occupying(T, r)

-----------------------------------------------------------------------------
(* change_aircraft.  A move is [target, expected, expected_runway, hold,    *)
(* runway]; None stands for an argument that is not given.                  *)

AssignedTo(before, m) == IF m.runway # None THEN m.runway ELSE before.assigned

\* Mutant: an aircraft that stops on the runway is taken off it.
StoppedLeaves(before, m) ==
    [before EXCEPT !.state = m.target, !.version = @ + 1, !.hold = m.hold,
                   !.assigned = AssignedTo(before, m),
                   !.occupied = IF m.target \in RunwayStates THEN AssignedTo(before, m)
                                ELSE None]

Changed(before, m) ==
    [before EXCEPT !.state = m.target, !.version = @ + 1, !.hold = m.hold,
                   !.assigned = AssignedTo(before, m),
                   !.occupied = IF m.target \in RunwayStates THEN AssignedTo(before, m)
                                ELSE IF m.target = "STOPPED" THEN @ ELSE None]

\* Mutant: an aircraft on a runway may be assigned to another one.
ReassignsOccupied(before, m) ==
    IF m.expected # before.version \/ m.target \notin TRANSITIONS(before.state)
    THEN "CONFLICT"
    ELSE IF ~CoherentAircraft(Changed(before, m)) THEN "INVALID"
    ELSE NoError

ChangeError(before, m) ==
    IF \/ m.expected # before.version
       \/ m.target \notin TRANSITIONS(before.state)
       \/ before.occupied # None /\ AssignedTo(before, m) # before.assigned
    THEN "CONFLICT"
    ELSE IF ~CoherentAircraft(Changed(before, m)) THEN "INVALID"
    ELSE NoError

\* AircraftStateChangedPayload.legal
LegalChange(before, after) ==
    LET m == [target |-> after.state, expected |-> before.version,
              hold |-> after.hold, runway |-> after.assigned]
    IN ChangeError(before, m) = NoError /\ after = Changed(before, m)

-----------------------------------------------------------------------------
(* transition_traffic: the aircraft fact, the membership fact when the      *)
(* aircraft enters or leaves a runway, and the resulting state.             *)

StateFact(id, before, after) ==
    [kind |-> "state", id |-> id, before |-> before, after |-> after]
OccupancyFact(id, r, runway, present) ==
    [kind |-> "occupancy", id |-> id, runway |-> r, before |-> runway,
     after |-> occupancy(runway, id, present), present |-> present]

\* The runway whose membership a change from before to after concerns.
EntersOrLeaves(before, after) == before.occupied # after.occupied
Concerned(before, after) ==
    IF before.occupied # None THEN before.occupied ELSE after.occupied

Facts(T, id, m) ==
    LET before == T.aircraft[id]
        after == Changed(before, m)
        r == Concerned(before, after)
    IN <<StateFact(id, before, after)>>
       \o IF EntersOrLeaves(before, after)
          THEN <<OccupancyFact(id, r, T.runways[r], after.occupied # None)>> ELSE <<>>

\* The state after an aircraft fact and its membership fact, if any.
Moved(T, id, m) ==
    LET facts == Facts(T, id, m)
    IN [aircraft |-> [T.aircraft EXCEPT ![id] = facts[1].after],
        runways |-> IF Len(facts) = 1 THEN T.runways
                    ELSE [T.runways EXCEPT ![facts[2].runway] = facts[2].after]]

\* The version argument of the runway that the move enters, leaves or names.
RunwayConflict(T, before, after, expected) ==
    IF EntersOrLeaves(before, after)
    THEN \/ Concerned(before, after) \notin Runways
         \/ expected # T.runways[Concerned(before, after)].version
    ELSE /\ expected # None
         /\ \/ after.assigned \notin Runways
            \/ expected # T.runways[after.assigned].version

\* Mutant: references are not checked again after a move.
IgnoresReferences(T, id, m) ==
    LET before == T.aircraft[id]
        after == Changed(before, m)
    IN IF before = None THEN "CONFLICT"
       ELSE IF ChangeError(before, m) # NoError THEN ChangeError(before, m)
       ELSE IF RunwayConflict(T, before, after, m.expected_runway) THEN "CONFLICT"
       ELSE NoError

MoveError(T, id, m) ==
    LET before == T.aircraft[id]
        after == Changed(before, m)
    IN IF before = None THEN "CONFLICT"
       ELSE IF ChangeError(before, m) # NoError THEN ChangeError(before, m)
       ELSE IF ~LegalChange(before, after) THEN "MISMATCH"
       ELSE IF RunwayConflict(T, before, after, m.expected_runway) THEN "CONFLICT"
       ELSE IF \E i \in DOMAIN Facts(T, id, m) :
                 LET f == Facts(T, id, m)[i] IN f.before = f.after THEN "MISMATCH"
       ELSE IF ~References(Moved(T, id, m)) THEN "INVALID"
       ELSE IF ~Membership(Moved(T, id, m)) THEN "MISMATCH"
       ELSE NoError

-----------------------------------------------------------------------------
(* route_traffic.                                                           *)

Rerouted(before, route) == [before EXCEPT !.route = route, !.version = @ + 1]
RouteFact(id, before, route) ==
    [kind |-> "route", id |-> id, before |-> before, after |-> Rerouted(before, route)]
MovedRoute(T, id, route) ==
    [T EXCEPT !.aircraft[id] = Rerouted(@, route)]

AssignError(before, route, expected) ==
    IF \/ expected # before.version
       \/ before.occupied # None
       \/ before.state \notin {"READY_TO_TAXI", "TAXIING", "HOLDING"}
       \/ route \in {NoRoute, before.route}
    THEN "CONFLICT" ELSE NoError

RouteError(T, id, route, expected) ==
    IF T.aircraft[id] = None THEN "CONFLICT"
    ELSE IF AssignError(T.aircraft[id], route, expected) # NoError
    THEN AssignError(T.aircraft[id], route, expected)
    ELSE IF ~References(MovedRoute(T, id, route)) THEN "INVALID"
    ELSE NoError
=============================================================================
