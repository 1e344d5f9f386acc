--------------------------- MODULE TrafficHistory ---------------------------
(***************************************************************************)
(* The traffic of one RUNNING session under a sequential stream of         *)
(* transitions and simulation commands, next to a restart that replays the *)
(* committed facts one at a time.                                          *)
(*                                                                         *)
(*   live     the TrafficState that transition_traffic and                 *)
(*            translate_effects return                                     *)
(*   replica  project_traffic's loop after the facts it has read           *)
(*   unread   the committed facts it has still to read                     *)
(*                                                                         *)
(* A command that is refused changes nothing; what it is refused for is    *)
(* MoveError, RouteError or TranslateError.                                *)
(***************************************************************************)
EXTENDS TrafficProjection, SimulationPort

CONSTANTS Starts,              \* what a scenario's aircraft may start as
          MaxAircraftVersion   \* bound on an aircraft's version

ASSUME HistoryAssumption == Starts \subseteq InitialAircraft /\ MaxAircraftVersion \in Nat

VARIABLES live, replica, unread

hvars == <<live, replica, unread>>

VersionOf(T, id) == IF T.aircraft[id] = None THEN 0 ELSE T.aircraft[id].version

\* The arguments of TrafficService.transition: current and stale versions, and
\* references the aerodrome does not have.
Moves(T, id) ==
    [target : AircraftStates,
     expected : {VersionOf(T, id), VersionOf(T, id) + 1},
     expected_runway : {None} \union {T.runways[r].version : r \in Runways},
     hold : Holds \union {None, Unknown}, runway : Runways \union {None, Unknown}]

\* Effects a provider may answer with: any route effect on its aircraft's version
\* or the next, and the fake's state effect with one field forged.
SomeRoutes(T, c) ==
    [id : AircraftIds, route : (Routes \ {NoRoute}) \union {Unknown},
     expected : {VersionOf(T, c.id), VersionOf(T, c.id) + 1}]
ForgedStates(T, c) ==
    LET state == FakeState(T, c)
    IN {[state EXCEPT !.target = target] : target \in AircraftStates}
       \union {[state EXCEPT !.expected = v] : v \in VersionOf(T, c.id)..(state.expected + 1)}
       \union {[state EXCEPT !.expected_runway = v] :
                   v \in {None} \union {T.runways[r].version : r \in Runways}}
       \union {[state EXCEPT !.hold = h] : h \in Holds \union {None, Unknown}}
       \union {[state EXCEPT !.runway = r] : r \in Runways \union {None, Unknown}}

\* Its answers: a rejection; effects that are the fake's, miss one or forge one,
\* with the version they lead to; and an effect on another aircraft, which leaves
\* the command's own where it was.  EffectsAreTheCommands is about every answer.
Answers(T, c) ==
    LET state == FakeState(T, c)
        route == FakeRoute(T, c)
        others == {[state EXCEPT !.id = id, !.expected = VersionOf(T, id)] :
                     id \in {id \in AircraftIds \ {c.id} : T.aircraft[id] # None}}
        Accepted(R, S, versions) == [accepted : {TRUE}, route : R, state : S, version : versions]
    IN {Rejection}
       \union Accepted({None} \union SomeRoutes(T, c), {state},
                       {state.expected, state.expected + 1})
       \union Accepted(SomeRoutes(T, c), {None}, {state.expected})
       \union Accepted({route}, ForgedStates(T, c), {state.expected + 1})
       \union Accepted({route}, others, {state.expected})

Spawned == {id \in AircraftIds : live.aircraft[id] # None}
SimulationCommands ==
    {c \in Commands({VersionOf(live, id) : id \in Spawned}) : c.id \in Spawned}

-----------------------------------------------------------------------------
\* initialise() has committed the scenario's aircraft.
HInit == /\ live \in {initial_traffic(e) : e \in [AircraftIds -> Starts \union {None}]}
         /\ live # None /\ Spawned # {}
         /\ replica = Replayed(live)
         /\ unread = <<>>

\* Mutant: the service commits the aircraft fact alone.
CommitFirst(T, facts) == /\ live' = T
                         /\ unread' = SubSeq(facts, 1, 1)
                         /\ UNCHANGED replica

CommitFacts(T, facts) == /\ live' = T
                         /\ unread' = facts
                         /\ UNCHANGED replica

\* TrafficService.transition
Transition(id) ==
    /\ unread = <<>> /\ VersionOf(live, id) < MaxAircraftVersion
    /\ \E m \in Moves(live, id) :
         /\ MoveError(live, id, m) = NoError
         /\ CommitFacts(Moved(live, id, m), Facts(live, id, m))

\* SimulationService.apply
Apply(c) ==
    /\ unread = <<>> /\ VersionOf(live, c.id) < MaxAircraftVersion
    /\ \E result \in Answers(live, c) :
         /\ TranslateError(live, c, result) = NoError
         /\ CommitFacts(Translated(live, c, result), TranslatedFacts(live, c, result))

\* A restart reads the next fact.
Replay == /\ unread # <<>>
          /\ Follows(replica, Head(unread))
          /\ replica' = AfterFact(replica, Head(unread))
          /\ unread' = Tail(unread)
          /\ UNCHANGED live

HNext == \/ \E id \in AircraftIds : Transition(id)
         \/ \E c \in SimulationCommands : Apply(c)
         \/ Replay

HSpec == HInit /\ [][HNext]_hvars

-----------------------------------------------------------------------------
\* The type invariant.
HTypeOK ==
    /\ live \in TrafficStates
    /\ [aircraft |-> replica.aircraft, runways |-> replica.runways] \in TrafficStates
    /\ Len(unread) <= 3

\* The policy's own validators never refuse what the policy produced: a command
\* ends in a conflict or names an unknown reference, but never in a fact that
\* contradicts itself or in an aircraft/runway membership mismatch.
NeverMismatched ==
    unread = <<>> => \A id \in AircraftIds : \A m \in Moves(live, id) :
                        MoveError(live, id, m) # "MISMATCH"

\* A restart accepts every committed fact after those before it, waits for a
\* membership fact only while there is one to read, and ends in the live state.
ReplayFollows ==
    IF unread = <<>> THEN replica = Replayed(live) /\ Complete(replica)
    ELSE Follows(replica, Head(unread))

\* A step that takes an aircraft off a runway is its take-off or its taxiing away.
LeavesStep ==
    \A r \in Runways : \A id \in live.runways[r].occupants :
        id \notin live'.runways[r].occupants =>
            <<live.aircraft[id].state, live'.aircraft[id].state>>
                \in {<<"TAKEOFF_ROLL", "AIRBORNE">>, <<"VACATING", "TAXIING">>}

\* An aircraft is taken off a runway only by its own take-off or by taxiing away
\* after vacating: no other aircraft's command and no stop ever clears it.
LeavesByItself == [][LeavesStep]_hvars

\* An answer that translates leads where the deterministic fake's answer leads.
LeadsAsFake(T, c, result) ==
    TranslateError(T, c, result) = NoError =>
        Fake(T, c).accepted /\ Translated(T, c, result) = Translated(T, c, Fake(T, c))

\* Effects are the command's, not the provider's (simulation.py:56-91): whatever
\* aircraft, route, phase, place or version an answer names, it is refused or leads
\* where the fake's answer leads, and what the fake accepts always translates.
ProviderDecidesNothing ==
    unread = <<>> => \A c \in SimulationCommands :
        /\ Fake(live, c).accepted => TranslateError(live, c, Fake(live, c)) = NoError
        /\ \A result \in Answers(live, c) : LeadsAsFake(live, c, result)
=============================================================================
