-------------------------- MODULE MCTrafficHistory --------------------------
(* TrafficHistory with two aircraft, two runways and one holding point.       *)
EXTENDS TrafficHistory, TLC

CONSTANTS a1, a2, r1, r2, h1

Entity(state, route, assigned, hold) ==
    [state |-> state, version |-> 1, route |-> route, assigned |-> assigned, hold |-> hold,
     occupied |-> None]
MCEntities == {Entity("FINAL", "via", r1, None), Entity("HOLDING", "via", r1, h1),
               Entity("TAXIING", "none", None, None)}

MCHoldRunway == (h1 :> r1)
MCSymmetry == Permutations(AircraftIds)
=============================================================================
