--------------------------- MODULE SimulationPort ---------------------------
(***************************************************************************)
(* packages/domain/simulation.py, the translation of a provider's effects  *)
(* in packages/application/simulation.py, and the deterministic fake       *)
(* provider in packages/infrastructure/simulation/fake.py.                 *)
(*                                                                         *)
(* A command is [id, action, route, hold, runway, expected].  A provider   *)
(* answers [accepted, route, state, version]: its route effect             *)
(* [id, route, expected] and its state effect [id, target, expected,       *)
(* expected_runway, hold, runway], each None when the list of effects does *)
(* not have it (any other list is refused like a missing effect).          *)
(***************************************************************************)
EXTENDS TrafficDomain

Actions == {"TAXI", "HOLD", "LINE_UP", "TAKE_OFF", "CONTINUE_APPROACH", "LAND",
            "GO_AROUND", "VACATE"}

TARGET_STATES == [TAXI |-> "TAXIING", HOLD |-> "HOLDING", LINE_UP |-> "LINED_UP",
                  TAKE_OFF |-> "TAKEOFF_ROLL", CONTINUE_APPROACH |-> "FINAL",
                  LAND |-> "LANDING_ROLL", GO_AROUND |-> "AIRBORNE", VACATE |-> "VACATING"]

RouteEffects == [id : AircraftIds, route : (Routes \ {NoRoute}) \union {Unknown},
                 expected : Nat \ {0}]
StateEffects == [id : AircraftIds, target : AircraftStates, expected : Nat \ {0},
                 expected_runway : Nat \union {None}, hold : Holds \union {None, Unknown},
                 runway : Runways \union {None, Unknown}]
ASSUME EffectsAssumption == None \notin RouteEffects \union StateEffects

\* What a provider answers that rejects a command.
Rejection == [accepted |-> FALSE, route |-> None, state |-> None, version |-> None]

\* ApplyResult.coherent: every answer of a provider that can be built.
ApplyResults ==
    {Rejection}
    \union {a \in [accepted : {TRUE}, route : RouteEffects \union {None},
                   state : StateEffects \union {None}, version : Nat \ {0}] :
               a.route # None \/ a.state # None}

\* SimulationCommand.parameters_for_action
Commands(versions) ==
    {c \in [id : AircraftIds, action : Actions, route : Routes \union {Unknown},
            hold : Holds \union {None, Unknown}, runway : Runways \union {None, Unknown},
            expected : versions] :
        /\ c.route # NoRoute => c.action = "TAXI"
        /\ c.action = "HOLD" <=> c.hold # None}

ChangesRoute(T, c) == c.route # NoRoute /\ c.route # T.aircraft[c.id].route

AfterRoute(T, c) == IF ChangesRoute(T, c) THEN MovedRoute(T, c.id, c.route) ELSE T

-----------------------------------------------------------------------------
(* translate_effects.                                                       *)

\* Mutant: the provider's effect may be about another aircraft.
AnyAircraft(c, state) == /\ state.target = TARGET_STATES[c.action]
                         /\ state.hold = c.hold
                         /\ state.runway = c.runway

\* The state effect is about the command's aircraft and does what was asked.
Intended(c, state) == /\ state.id = c.id
                      /\ state.target = TARGET_STATES[c.action]
                      /\ state.hold = c.hold
                      /\ state.runway = c.runway

\* The command's structure: a changed route comes with a route effect.
Structured(T, c, result) == /\ result.route # None <=> ChangesRoute(T, c)
                            /\ result.state # None

TranslateRouteError(T, c, result) ==
    IF ~ChangesRoute(T, c) THEN NoError
    ELSE IF result.route.id # c.id \/ result.route.route # c.route THEN "FORGED"
    ELSE RouteError(T, result.route.id, result.route.route, result.route.expected)

\* The facts of a translation, and the state they lead to: it is the effects'
\* aircraft, route and move that are applied.
Routed(T, c, route) == IF ChangesRoute(T, c) THEN MovedRoute(T, route.id, route.route) ELSE T
TranslatedFacts(T, c, result) ==
    (IF ChangesRoute(T, c)
     THEN <<RouteFact(result.route.id, T.aircraft[result.route.id], result.route.route)>>
     ELSE <<>>)
    \o Facts(Routed(T, c, result.route), result.state.id, result.state)
Translated(T, c, result) ==
    Moved(Routed(T, c, result.route), result.state.id, result.state)
TranslateMoveError(T, c, result) ==
    MoveError(Routed(T, c, result.route), result.state.id, result.state)

TranslateError(T, c, result) ==
    LET unmatched == \/ T.aircraft[c.id] = None
                     \/ T.aircraft[c.id].version # c.expected
    IN IF ~result.accepted THEN "REJECTED"
       ELSE IF unmatched THEN "CONFLICT"
       ELSE IF ~Structured(T, c, result) THEN "FORGED"
       ELSE IF TranslateRouteError(T, c, result) # NoError
       THEN TranslateRouteError(T, c, result)
       ELSE IF ~Intended(c, result.state) THEN "FORGED"
       ELSE IF TranslateMoveError(T, c, result) # NoError THEN TranslateMoveError(T, c, result)
       ELSE IF Translated(T, c, result).aircraft[c.id].version # result.version THEN "FORGED"
       ELSE NoError

-----------------------------------------------------------------------------
(* DeterministicFake.apply.                                                 *)

FakeRoute(T, c) ==
    IF ChangesRoute(T, c)
    THEN [id |-> c.id, route |-> c.route, expected |-> T.aircraft[c.id].version]
    ELSE None

FakeState(T, c) ==
    LET a == T.aircraft[c.id]
        r == IF c.runway # None THEN c.runway ELSE a.assigned
    IN [id |-> c.id, target |-> TARGET_STATES[c.action],
        expected |-> IF ChangesRoute(T, c) THEN a.version + 1 ELSE a.version,
        expected_runway |-> IF r \in Runways THEN T.runways[r].version ELSE None,
        hold |-> c.hold, runway |-> c.runway]

Fake(T, c) ==
    LET a == T.aircraft[c.id]
        rejects == \/ a = None
                   \/ a.version # c.expected
                   \/ TARGET_STATES[c.action] \notin TRANSITIONS(a.state)
                   \/ ChangesRoute(T, c) /\ RouteError(T, c.id, c.route, a.version) # NoError
                   \/ MoveError(AfterRoute(T, c), c.id, FakeState(T, c)) # NoError
        moved == Moved(AfterRoute(T, c), c.id, FakeState(T, c))
    IN IF rejects THEN Rejection
       ELSE [accepted |-> TRUE, route |-> FakeRoute(T, c), state |-> FakeState(T, c),
             version |-> moved.aircraft[c.id].version]
=============================================================================
