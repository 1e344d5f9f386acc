------------------------- MODULE TrafficProjection -------------------------
(***************************************************************************)
(* packages/application/traffic_projection.py: the traffic a scenario      *)
(* starts with, and the replay of committed facts.  A replica is the       *)
(* loop state of project_traffic: [geometry, aircraft, runways, pending],  *)
(* where `pending' is the membership fact the next event has to be.        *)
(***************************************************************************)
EXTENDS TrafficDomain

InitialStates == {"PARKED", "TAXIING", "HOLDING", "INBOUND", "FINAL"}
EmptyRunways == [r \in Runways |-> [version |-> 1, occupants |-> {}]]

\* What initial_traffic maps an entity to: a runway or a holding point is
\* assigned when the entity's route names it.
InitialAircraft ==
    {a \in [state : InitialStates, version : {1}, route : Routes,
            assigned : Runways \union {None}, hold : Holds \union {None}, occupied : {None}] :
        a.assigned # None => a.route # NoRoute}

initial_traffic(entities) ==
    LET T == [aircraft |-> entities, runways |-> EmptyRunways]
    IN IF /\ \A id \in AircraftIds : entities[id] # None =>
               CoherentAircraft(entities[id])
          /\ References(T)
       THEN T ELSE None

SpawnFact(id, aircraft, aerodrome) ==
    [kind |-> "spawn", id |-> id, aircraft |-> aircraft, aerodrome |-> aerodrome]

NoTraffic == [geometry |-> FALSE, aircraft |-> [id \in AircraftIds |-> None],
              runways |-> EmptyRunways, pending |-> None]

Replicas == [geometry : BOOLEAN, aircraft : [AircraftIds -> Aircraft \union {None}],
             runways : [Runways -> RunwayRecords], pending : OccupancyFacts \union {None}]

\* The replica of a complete history whose traffic is T.
Replayed(T) == [geometry |-> TRUE, aircraft |-> T.aircraft,
                runways |-> T.runways, pending |-> None]

-----------------------------------------------------------------------------
\* The membership fact an aircraft fact calls for.
Called(P, f) ==
    LET r == Concerned(f.before, f.after)
    IN OccupancyFact(f.id, r, P.runways[r], f.after.occupied # None)

\* AircraftRouteAssignedPayload.legal
LegalRoute(before, after) ==
    /\ AssignError(before, after.route, before.version) = NoError
    /\ after = Rerouted(before, after.route)

\* One round of project_traffic's loop does not raise.
Follows(P, f) ==
    /\ P.pending # None => f = P.pending
    /\ \/ /\ f.kind = "spawn"
          /\ f.aerodrome # P.geometry
          /\ P.aircraft[f.id] = None
          /\ f.aircraft.version = 1 /\ f.aircraft.occupied = None
       \/ /\ f.kind \in {"state", "route"}
          /\ f.before # None /\ P.aircraft[f.id] = f.before
          /\ IF f.kind = "state" THEN LegalChange(f.before, f.after)
             ELSE LegalRoute(f.before, f.after)
          /\ EntersOrLeaves(f.before, f.after) =>
               /\ Concerned(f.before, f.after) \in Runways
               /\ Called(P, f).after # Called(P, f).before
       \/ /\ f.kind = "occupancy"
          /\ P.pending # None
          /\ P.runways[f.runway] = f.before

\* The replica after that round.
AfterFact(P, f) ==
    IF f.kind = "spawn"
    THEN [P EXCEPT !.geometry = TRUE, !.aircraft[f.id] = f.aircraft]
    ELSE IF f.kind = "occupancy"
    THEN [P EXCEPT !.runways[f.runway] = f.after, !.pending = None]
    ELSE [P EXCEPT !.aircraft[f.id] = f.after,
                   !.pending = IF EntersOrLeaves(f.before, f.after) THEN Called(P, f) ELSE None]

\* What project_traffic demands after the last event.
Complete(P) == /\ P.pending = None
               /\ P.geometry => References(P) /\ Membership(P)
=============================================================================
