-------------------------- MODULE MCTrafficService --------------------------
(* TrafficService with two threads and one aircraft that holds short of a     *)
(* runway: two initialisations, a TAXI command under the key of the second,   *)
(* a transition that competes with it and, under the same key, one that       *)
(* follows it.                                                                *)
EXTENDS TrafficService

CONSTANTS a1, r1, h1, k1, k2, k3

MCHoldRunway == (h1 :> r1)
Holding == [state |-> "HOLDING", version |-> 1, route |-> "via", assigned |-> r1, hold |-> h1,
            occupied |-> None]
MCEntities == <<[id |-> a1, aircraft |-> Holding]>>

Task(op, key, expected, input, call) ==
    [op |-> op, key |-> key, expected |-> expected, input |-> input, call |-> call]
Command(action, issued) ==
    [id |-> a1, action |-> action, route |-> "none", hold |-> None, runway |-> None,
     expected |-> 1, issued |-> issued]
Move(target, expected, expected_runway) ==
    [id |-> a1, target |-> target, expected |-> expected, expected_runway |-> expected_runway,
     hold |-> None, runway |-> None]

MCTasks == { Task("initialise", k1, 1, 1, [id |-> a1]),
             Task("initialise", k2, 1, 1, [id |-> a1]),
             Task("apply", k2, 3, 2, Command("TAXI", 0)),
             Task("transition", k3, 3, 3, Move("LINED_UP", 1, 1)),
             Task("transition", k3, 3, 4, Move("STOPPED", 2, None)) }

MCSymmetry == Permutations(Threads)
=============================================================================
