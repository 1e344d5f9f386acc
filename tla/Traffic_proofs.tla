--------------------------- MODULE Traffic_proofs ---------------------------
(***************************************************************************)
(* Theorems about TrafficHistory and TrafficService, for any aerodrome,    *)
(* scenario, set of threads and keys, and any tasks.                       *)
(*                                                                         *)
(* The first part is about the policy and its replay: what an accepted     *)
(* command preserves, and where its facts lead a replica.  The second is   *)
(* about the services around it, and rests on two more things.  Replaying  *)
(* a history is a fold, so a batch is replayed after the history it is     *)
(* appended to (ReplayConcat).  And what a call has read is tied to the    *)
(* durable state by the length of the history it read: as long as that     *)
(* length is the history's, what it read, computed and loaded is what it   *)
(* would read, compute and load now (Current).                             *)
(***************************************************************************)
EXTENDS TrafficHistory, TrafficService, WellFoundedInduction, SequenceTheorems, TLAPS

\* What every traffic state reached by commands satisfies.
Coherent(T) == /\ T \in TrafficStates
               /\ References(T)
               /\ Membership(T)
               /\ \A id \in AircraftIds :
                    T.aircraft[id] # None => CoherentAircraft(T.aircraft[id])

-----------------------------------------------------------------------------
(* Sequences of at most three facts.                                        *)

\* Nothing after one fact.
LEMMA ConcatNone ==
    ASSUME NEW a PROVE <<a>> \o <<>> = <<a>>
<1>1. <<a>> \in Seq({a})
  OBVIOUS
<1> QED BY <1>1, ConcatEmptySeq

\* Facts after nothing.
LEMMA NoneConcat ==
    ASSUME NEW a, NEW b PROVE <<>> \o <<a>> = <<a>> /\ <<>> \o <<a, b>> = <<a, b>>
<1>1. <<a>> \in Seq({a, b}) /\ <<a, b>> \in Seq({a, b})
  OBVIOUS
<1> QED BY <1>1, ConcatEmptySeq

\* One fact after one.
LEMMA ConcatOne ==
    ASSUME NEW a, NEW b PROVE <<a>> \o <<b>> = <<a, b>>
<1> DEFINE S == {a, b}
           s == <<a>> \o <<b>>
           t == <<a, b>>
<1>1. <<a>> \in Seq(S) /\ <<b>> \in Seq(S) /\ t \in Seq(S)
  OBVIOUS
<1>2. s \in Seq(S) /\ Len(s) = 2 /\ s[1] = a /\ s[2] = b
  BY <1>1
<1>3. Len(t) = 2 /\ t[1] = a /\ t[2] = b
  OBVIOUS
<1> HIDE DEF s, t, S
<1>4. \A i \in 1..Len(s) : s[i] = t[i]
  BY <1>2, <1>3
<1>5. s = t
  BY <1>1, <1>2, <1>3, <1>4, SeqEqual
<1> QED BY <1>5 DEF s, t

\* Two facts after one.
LEMMA ConcatTwo ==
    ASSUME NEW a, NEW b, NEW c PROVE <<a>> \o <<b, c>> = <<a, b, c>>
<1> DEFINE S == {a, b, c}
           s == <<a>> \o <<b, c>>
           t == <<a, b, c>>
<1>1. <<a>> \in Seq(S) /\ <<b, c>> \in Seq(S) /\ t \in Seq(S)
  OBVIOUS
<1>2. s \in Seq(S) /\ Len(s) = 3 /\ s[1] = a /\ s[2] = b /\ s[3] = c
  BY <1>1
<1>3. Len(t) = 3 /\ t[1] = a /\ t[2] = b /\ t[3] = c
  OBVIOUS
<1> HIDE DEF s, t, S
<1>4. \A i \in 1..Len(s) : s[i] = t[i]
  BY <1>2, <1>3
<1>5. s = t
  BY <1>1, <1>2, <1>3, <1>4, SeqEqual
<1> QED BY <1>5 DEF s, t

\* One fact after two.
LEMMA TwoConcat ==
    ASSUME NEW a, NEW b, NEW c PROVE <<a, b>> \o <<c>> = <<a, b, c>>
<1> DEFINE S == {a, b, c}
           s == <<a, b>> \o <<c>>
           t == <<a, b, c>>
<1>1. <<a, b>> \in Seq(S) /\ <<c>> \in Seq(S) /\ t \in Seq(S)
  OBVIOUS
<1>2. s \in Seq(S) /\ Len(s) = 3 /\ s[1] = a /\ s[2] = b /\ s[3] = c
  BY <1>1
<1>3. Len(t) = 3 /\ t[1] = a /\ t[2] = b /\ t[3] = c
  OBVIOUS
<1> HIDE DEF s, t, S
<1>4. \A i \in 1..Len(s) : s[i] = t[i]
  BY <1>2, <1>3
<1>5. s = t
  BY <1>1, <1>2, <1>3, <1>4, SeqEqual
<1> QED BY <1>5 DEF s, t

\* Reading one fact after the other.
LEMMA HeadAndTail ==
    ASSUME NEW a, NEW b, NEW c
    PROVE  /\ <<a>> # <<>> /\ Head(<<a>>) = a /\ Tail(<<a>>) = <<>>
           /\ <<a, b>> # <<>> /\ Head(<<a, b>>) = a /\ Tail(<<a, b>>) = <<b>>
           /\ <<a, b, c>> # <<>> /\ Head(<<a, b, c>>) = a /\ Tail(<<a, b, c>>) = <<b, c>>
<1>1. /\ <<a>> # <<>> /\ Head(<<a>>) = a /\ Tail(<<a>>) = <<>>
  OBVIOUS
<1>2. <<a, b>> # <<>> /\ Head(<<a, b>>) = a /\ Tail(<<a, b>>) = <<b>>
  OBVIOUS
<1>3. <<a, b, c>> # <<>> /\ Head(<<a, b, c>>) = a /\ Tail(<<a, b, c>>) = <<b, c>>
  OBVIOUS
<1> QED BY <1>1, <1>2, <1>3

-----------------------------------------------------------------------------
(* One aircraft.                                                            *)

\* The transition table leads from states to states.
LEMMA TransitionsType ==
    ASSUME NEW s \in AircraftStates PROVE TRANSITIONS(s) \subseteq AircraftStates
BY DEF AircraftStates, TRANSITIONS

\* change_aircraft's result, field by field.
LEMMA ChangedFields ==
    ASSUME NEW before \in Aircraft, NEW m
    PROVE  LET after == Changed(before, m)
           IN /\ after.state = m.target
              /\ after.version = before.version + 1
              /\ after.route = before.route
              /\ after.assigned = AssignedTo(before, m)
              /\ after.hold = m.hold
              /\ after.occupied =
                    IF m.target \in RunwayStates THEN AssignedTo(before, m)
                    ELSE IF m.target = "STOPPED" THEN before.occupied ELSE None
BY DEF Aircraft, AircraftOf, Changed

\* An aircraft leaves the runway it occupies only by take-off or by taxiing away,
\* and it never moves from one runway to another.
LEMMA Leaving ==
    ASSUME NEW before \in Aircraft, CoherentAircraft(before), NEW m,
           ChangeError(before, m) = NoError, before.occupied # None,
           Changed(before, m).occupied # before.occupied
    PROVE  /\ <<before.state, m.target>>
                \in {<<"TAKEOFF_ROLL", "AIRBORNE">>, <<"VACATING", "TAXIING">>}
           /\ Changed(before, m).occupied = None
<1>1. /\ m.target \in TRANSITIONS(before.state)
      /\ AssignedTo(before, m) = before.assigned
  BY DEF ChangeError, NoError
<1>2. /\ before.state \in RunwayStates \union {"STOPPED"}
      /\ before.assigned = before.occupied
  BY DEF CoherentAircraft
<1>3. m.target \notin RunwayStates /\ m.target # "STOPPED" /\ Changed(before, m).occupied = None
  BY <1>1, <1>2, ChangedFields
<1> QED BY <1>1, <1>2, <1>3 DEF TRANSITIONS, RunwayStates

\* A change that the policy allows is one that the fact's validator allows.
LEMMA ChangeIsLegal ==
    ASSUME NEW before \in Aircraft, NEW m, ChangeError(before, m) = NoError
    PROVE  LegalChange(before, Changed(before, m))
<1> DEFINE after == Changed(before, m)
           same == [target |-> after.state, expected |-> before.version,
                    hold |-> after.hold, runway |-> after.assigned]
<1>1. /\ after.state = m.target /\ after.hold = m.hold
      /\ after.assigned = AssignedTo(before, m)
  BY ChangedFields
<1>2. AssignedTo(before, same) = AssignedTo(before, m)
  BY <1>1 DEF AssignedTo
<1>3. Changed(before, same) = after
  BY <1>1, <1>2 DEF Changed
<1>4. ChangeError(before, same) = NoError
  BY <1>1, <1>2, <1>3 DEF ChangeError, NoError
<1> QED BY <1>3, <1>4 DEF LegalChange

\* A change to references of some kind is an aircraft of that kind.
LEMMA ChangedType ==
    ASSUME NEW routes, NEW runways, NEW holds, NEW before \in AircraftOf(routes, runways, holds),
           NEW m, ChangeError(before, m) = NoError,
           AssignedTo(before, m) \in runways \union {None}, m.hold \in holds \union {None}
    PROVE  Changed(before, m) \in AircraftOf(routes, runways, holds)
<1> DEFINE t == m.target
           h == m.hold
           a == AssignedTo(before, m)
           v == before.version + 1
           o == IF m.target \in RunwayStates THEN AssignedTo(before, m)
                ELSE IF m.target = "STOPPED" THEN before.occupied ELSE None
<1>1. m.target \in AircraftStates
  BY TransitionsType DEF ChangeError, NoError, AircraftOf
<1>2. o \in runways \union {None}
  BY DEF AircraftOf
<1>3. /\ t \in AircraftStates /\ h \in holds \union {None} /\ a \in runways \union {None}
      /\ v \in Nat \ {0}
  BY <1>1 DEF AircraftOf
<1>4. Changed(before, m) = [before EXCEPT !.state = t, !.version = v, !.hold = h,
                                          !.assigned = a, !.occupied = o]
  BY DEF Changed
<1> HIDE DEF o, a, t, h, v
<1> QED BY <1>2, <1>3, <1>4 DEF AircraftOf

\* The arguments of a move are given or not, and exist or not.
Arguments(m) == /\ m.hold \in Holds \union {None, Unknown}
                /\ m.runway \in Runways \union {None, Unknown}

\* The result of a change is an aircraft of some kind, with another version.
LEMMA ChangedIsAircraft ==
    ASSUME NEW before \in Aircraft, NEW m, Arguments(m), ChangeError(before, m) = NoError
    PROVE  /\ Changed(before, m) # None
           /\ Changed(before, m).version # before.version
           /\ CoherentAircraft(Changed(before, m))
<1> DEFINE R == Routes \union {Unknown}
           W == Runways \union {Unknown}
           H == Holds \union {Unknown}
<1>1. before \in AircraftOf(R, W, H)
  BY DEF Aircraft, AircraftOf
<1>2. AssignedTo(before, m) \in W \union {None} /\ m.hold \in H \union {None}
  BY DEF Arguments, AssignedTo, Aircraft, AircraftOf
<1>3. Changed(before, m) \in AircraftOf(R, W, H)
  BY <1>1, <1>2, ChangedType
<1>4. Changed(before, m).version # before.version
  BY ChangedFields DEF Aircraft, AircraftOf
<1> QED BY <1>3, <1>4, NoneAssumption DEF ChangeError, NoError

-----------------------------------------------------------------------------
(* transition_traffic.                                                      *)

\* The facts of a move: the aircraft's, then the membership fact, if any.
LEMMA FactsShape ==
    ASSUME NEW T, NEW id, NEW m
    PROVE  LET before == T.aircraft[id]
               after == Changed(before, m)
               r == Concerned(before, after)
               state == StateFact(id, before, after)
               member == OccupancyFact(id, r, T.runways[r], after.occupied # None)
           IN Facts(T, id, m) = IF EntersOrLeaves(before, after)
                                THEN <<state, member>> ELSE <<state>>
<1> DEFINE before == T.aircraft[id]
           after == Changed(before, m)
           r == Concerned(before, after)
           state == StateFact(id, before, after)
           member == OccupancyFact(id, r, T.runways[r], after.occupied # None)
<1>1. Facts(T, id, m) = <<state>> \o IF EntersOrLeaves(before, after) THEN <<member>> ELSE <<>>
  BY DEF Facts
<1> HIDE DEF state, member
<1>2. <<state>> \o <<member>> = <<state, member>> /\ <<state>> \o <<>> = <<state>>
  BY ConcatOne, ConcatNone
<1> QED BY <1>1, <1>2 DEF state, member

\* The state that a move leads to, field by field.
LEMMA MovedFields ==
    ASSUME NEW T, NEW id, NEW m
    PROVE  LET before == T.aircraft[id]
               after == Changed(before, m)
               r == Concerned(before, after)
           IN Moved(T, id, m) =
                [aircraft |-> [T.aircraft EXCEPT ![id] = after],
                 runways |-> IF EntersOrLeaves(before, after)
                             THEN [T.runways EXCEPT ![r] = occupancy(@, id, after.occupied # None)]
                             ELSE T.runways]
<1> DEFINE before == T.aircraft[id]
           after == Changed(before, m)
           r == Concerned(before, after)
           state == StateFact(id, before, after)
           member == OccupancyFact(id, r, T.runways[r], after.occupied # None)
           facts == Facts(T, id, m)
<1>1. /\ state.after = after
      /\ member.runway = r
      /\ member.after = occupancy(T.runways[r], id, after.occupied # None)
  BY DEF StateFact, OccupancyFact
<1>2. CASE EntersOrLeaves(before, after)
  <2>1. facts = <<state, member>>
    BY <1>2, FactsShape
  <2> HIDE DEF state, member
  <2>2. Len(facts) = 2 /\ facts[1] = state /\ facts[2] = member
    BY <2>1
  <2> QED BY <1>1, <1>2, <2>2 DEF Moved
<1>3. CASE ~EntersOrLeaves(before, after)
  <2>1. facts = <<state>>
    BY <1>3, FactsShape
  <2> HIDE DEF state, member
  <2>2. Len(facts) = 1 /\ facts[1] = state
    BY <2>1
  <2> QED BY <1>1, <1>3, <2>2 DEF Moved
<1> QED BY <1>2, <1>3

\* A move that enters or leaves a runway changes one membership, in step with the
\* aircraft: both sides agree afterwards, and the fact is material.
LEMMA MoveMembership ==
    ASSUME NEW T, Coherent(T), NEW id \in AircraftIds, T.aircraft[id] # None,
           NEW m, Arguments(m), ChangeError(T.aircraft[id], m) = NoError,
           ~RunwayConflict(T, T.aircraft[id], Changed(T.aircraft[id], m), m.expected_runway)
    PROVE  LET before == T.aircraft[id]
               after == Changed(before, m)
               r == Concerned(before, after)
               runway == occupancy(T.runways[r], id, after.occupied # None)
           IN /\ EntersOrLeaves(before, after) => /\ r \in Runways
                                                  /\ runway \in RunwayRecords
                                                  /\ runway # T.runways[r]
              /\ Membership(Moved(T, id, m))
<1> DEFINE before == T.aircraft[id]
           after == Changed(before, m)
           r == Concerned(before, after)
           present == after.occupied # None
           runway == occupancy(T.runways[r], id, present)
           M == Moved(T, id, m)
<1>1. /\ T.aircraft \in [AircraftIds -> Aircraft \union {None}]
      /\ T.runways \in [Runways -> RunwayRecords]
      /\ before \in Aircraft /\ CoherentAircraft(before)
  BY DEF Coherent, TrafficStates
<1>2. \A q \in Runways : T.runways[q].occupants = Occupying(T, q)
  BY DEF Coherent, Membership
<1>3. after # None
  BY <1>1, ChangedIsAircraft
<1>4. /\ M.aircraft = [T.aircraft EXCEPT ![id] = after]
      /\ EntersOrLeaves(before, after) => M.runways = [T.runways EXCEPT ![r] = runway]
      /\ ~EntersOrLeaves(before, after) => M.runways = T.runways
  BY MovedFields
<1>5. \A q : Occupying(M, q) = (Occupying(T, q) \ {id}) \union (IF after.occupied = q THEN {id} ELSE {})
  BY <1>1, <1>3, <1>4 DEF Occupying
<1>6. \A q : id \in Occupying(T, q) <=> before.occupied = q
  BY <1>1 DEF Occupying
<1> HIDE DEF before, after, M
<1>7. CASE ~EntersOrLeaves(before, after)
  BY <1>2, <1>4, <1>5, <1>6, <1>7 DEF EntersOrLeaves, Membership, M, before, after
<1>8. CASE EntersOrLeaves(before, after)
  <2>1. r \in Runways
    BY <1>8 DEF RunwayConflict, before, after
  <2>2. (id \in T.runways[r].occupants) # present
    <3>1. CASE before.occupied # None
      <4>1. r = before.occupied /\ after.occupied = None
        BY <1>1, <1>8, <3>1, Leaving DEF Concerned, EntersOrLeaves, before, after
      <4> QED BY <1>2, <1>6, <2>1, <4>1
    <3>2. CASE before.occupied = None
      <4>1. r = after.occupied /\ after.occupied # None
        BY <1>8, <3>2 DEF Concerned, EntersOrLeaves
      <4> QED BY <1>2, <1>6, <2>1, <3>2, <4>1
    <3> QED BY <3>1, <3>2
  <2>3. T.runways[r] \in RunwayRecords
    BY <1>1, <2>1
  <2>4. /\ runway \in RunwayRecords /\ runway.version # T.runways[r].version
        /\ runway.occupants = IF present THEN T.runways[r].occupants \union {id}
                              ELSE T.runways[r].occupants \ {id}
    BY <2>2, <2>3 DEF occupancy, RunwayRecords
  <2>5. ASSUME NEW q \in Runways PROVE M.runways[q].occupants = Occupying(M, q)
    <3>1. CASE q = r
      <4>1. M.runways[q].occupants = runway.occupants
        BY <1>1, <1>4, <1>8, <2>1, <3>1
      <4>2. present <=> after.occupied = r
        BY <1>1, <1>8, <2>1, Leaving, GeometryAssumption
           DEF Concerned, EntersOrLeaves, before, after
      <4>3. Occupying(M, q) = (Occupying(T, q) \ {id}) \union (IF present THEN {id} ELSE {})
        BY <1>5, <3>1, <4>2
      <4> HIDE DEF present, runway
      <4>4. runway.occupants = (T.runways[r].occupants \ {id}) \union (IF present THEN {id} ELSE {})
        <5>1. CASE present
          BY <2>4, <5>1
        <5>2. CASE ~present
          BY <2>4, <5>2
        <5> QED BY <5>1, <5>2
      <4> QED BY <1>2, <3>1, <4>1, <4>3, <4>4
    <3>2. CASE q # r
      <4>1. M.runways[q] = T.runways[q]
        BY <1>1, <1>4, <1>8, <2>1, <3>2
      <4>2. before.occupied # q /\ after.occupied # q
        BY <1>1, <1>8, <2>1, <3>2, Leaving, GeometryAssumption
           DEF Concerned, EntersOrLeaves, before, after
      <4>3. Occupying(M, q) = Occupying(T, q) \ {id} /\ id \notin Occupying(T, q)
        BY <1>5, <1>6, <4>2
      <4>4. Occupying(M, q) = Occupying(T, q)
        BY <4>3
      <4> QED BY <1>2, <4>1, <4>4
    <3> QED BY <3>1, <3>2
  <2> QED BY <2>1, <2>4, <2>5 DEF Membership, M, before, after
<1> QED BY <1>7, <1>8

\* Each fact of a move is material.
LEMMA FactsMaterial ==
    ASSUME NEW T, Coherent(T), NEW id \in AircraftIds, T.aircraft[id] # None,
           NEW m, Arguments(m), ChangeError(T.aircraft[id], m) = NoError,
           ~RunwayConflict(T, T.aircraft[id], Changed(T.aircraft[id], m), m.expected_runway),
           NEW i \in DOMAIN Facts(T, id, m)
    PROVE  Facts(T, id, m)[i].before # Facts(T, id, m)[i].after
<1> DEFINE before == T.aircraft[id]
           after == Changed(before, m)
           r == Concerned(before, after)
           state == StateFact(id, before, after)
           member == OccupancyFact(id, r, T.runways[r], after.occupied # None)
<1>1. before \in Aircraft /\ after # before
  BY ChangedIsAircraft DEF Coherent, TrafficStates
<1>2. state.before # state.after
  BY <1>1 DEF StateFact
<1>3. EntersOrLeaves(before, after) => member.before # member.after
  BY MoveMembership DEF OccupancyFact
<1>4. Facts(T, id, m) = IF EntersOrLeaves(before, after) THEN <<state, member>> ELSE <<state>>
  BY FactsShape
<1> HIDE DEF before, after, state, member
<1>5. CASE EntersOrLeaves(before, after)
  <2>1. i \in {1, 2} /\ Facts(T, id, m)[1] = state /\ Facts(T, id, m)[2] = member
    BY <1>4, <1>5
  <2> QED BY <1>2, <1>3, <1>5, <2>1
<1>6. CASE ~EntersOrLeaves(before, after)
  <2>1. i = 1 /\ Facts(T, id, m)[1] = state
    BY <1>4, <1>6
  <2> QED BY <1>2, <2>1
<1> QED BY <1>5, <1>6

\* The validators behind the policy's guards never refuse what the guards allow.
LEMMA MoveNeverMismatched ==
    ASSUME NEW T, Coherent(T), NEW id \in AircraftIds, NEW m, Arguments(m)
    PROVE  MoveError(T, id, m) # "MISMATCH"
<1> DEFINE before == T.aircraft[id]
           after == Changed(before, m)
<1>1. SUFFICES ASSUME before # None, ChangeError(before, m) = NoError,
                      ~RunwayConflict(T, before, after, m.expected_runway)
               PROVE  /\ LegalChange(before, after)
                      /\ \A i \in DOMAIN Facts(T, id, m) :
                            Facts(T, id, m)[i].before # Facts(T, id, m)[i].after
                      /\ Membership(Moved(T, id, m))
  <2>1. /\ ChangeError(before, m) \in {"CONFLICT", "INVALID", NoError}
        /\ (before # None /\ ChangeError(before, m) = NoError) => LegalChange(before, after)
    BY ChangeIsLegal DEF ChangeError, Coherent, TrafficStates
  <2> QED BY <1>1, <2>1 DEF MoveError, NoError
<1>2. before \in Aircraft
  BY <1>1 DEF Coherent, TrafficStates
<1>3. LegalChange(before, after)
  BY <1>1, <1>2, ChangeIsLegal
<1>4. Membership(Moved(T, id, m))
  BY <1>1, MoveMembership
<1>5. \A i \in DOMAIN Facts(T, id, m) :
         Facts(T, id, m)[i].before # Facts(T, id, m)[i].after
  BY <1>1, FactsMaterial
<1> QED BY <1>3, <1>4, <1>5

\* What a move that is not refused is known to satisfy.
LEMMA MoveGuards ==
    ASSUME NEW T, NEW id, NEW m, MoveError(T, id, m) = NoError
    PROVE  LET before == T.aircraft[id]
               after == Changed(before, m)
           IN /\ before # None
              /\ ChangeError(before, m) = NoError
              /\ ~RunwayConflict(T, before, after, m.expected_runway)
              /\ References(Moved(T, id, m))
              /\ Membership(Moved(T, id, m))
BY DEF MoveError, NoError

\* A move that is not refused leads to a coherent state.
LEMMA MoveSound ==
    ASSUME NEW T, Coherent(T), NEW id \in AircraftIds, NEW m, Arguments(m),
           MoveError(T, id, m) = NoError
    PROVE  Coherent(Moved(T, id, m))
<1> DEFINE before == T.aircraft[id]
           after == Changed(before, m)
           r == Concerned(before, after)
           runway == occupancy(T.runways[r], id, after.occupied # None)
           M == Moved(T, id, m)
<1>1. /\ before # None /\ ChangeError(before, m) = NoError
      /\ ~RunwayConflict(T, before, after, m.expected_runway)
      /\ References(M) /\ Membership(M)
  BY MoveGuards
<1>2. /\ T.aircraft \in [AircraftIds -> Aircraft \union {None}]
      /\ T.runways \in [Runways -> RunwayRecords]
      /\ before \in Aircraft
  BY <1>1 DEF Coherent, TrafficStates
<1>3. M = [aircraft |-> [T.aircraft EXCEPT ![id] = after],
           runways |-> IF EntersOrLeaves(before, after) THEN [T.runways EXCEPT ![r] = runway]
                       ELSE T.runways]
  BY MovedFields
<1>4. /\ after # None /\ CoherentAircraft(after)
      /\ after.hold = m.hold /\ after.assigned = AssignedTo(before, m)
  BY <1>1, <1>2, ChangedIsAircraft, ChangedFields DEF Aircraft
<1>5. EntersOrLeaves(before, after) => r \in Runways /\ runway \in RunwayRecords
  BY <1>1, MoveMembership
<1>6. M.aircraft[id] = after
  BY <1>2, <1>3
<1>7. after.hold \in Holds \union {None} /\ after.assigned \in Runways \union {None}
  BY <1>1, <1>4, <1>6 DEF References
<1>8. after \in Aircraft
  BY <1>1, <1>2, <1>4, <1>7, ChangedType DEF Aircraft
<1> HIDE DEF before, after, r, runway, M
<1>9. M \in TrafficStates
  <2>1. [T.aircraft EXCEPT ![id] = after] \in [AircraftIds -> Aircraft \union {None}]
    BY <1>2, <1>8
  <2>2. CASE EntersOrLeaves(before, after)
    <3>1. [T.runways EXCEPT ![r] = runway] \in [Runways -> RunwayRecords]
      BY <1>2, <1>5, <2>2
    <3> QED BY <1>3, <2>1, <2>2, <3>1 DEF TrafficStates
  <2>3. CASE ~EntersOrLeaves(before, after)
    BY <1>2, <1>3, <2>1, <2>3 DEF TrafficStates
  <2> QED BY <2>2, <2>3
<1>10. \A a \in AircraftIds : M.aircraft[a] # None => CoherentAircraft(M.aircraft[a])
  BY <1>2, <1>3, <1>4 DEF Coherent
<1> QED BY <1>1, <1>9, <1>10 DEF Coherent, M

-----------------------------------------------------------------------------
(* route_traffic and translate_effects.                                     *)

\* A route assignment that is not refused changes one aircraft's route and version.
LEMMA RouteSound ==
    ASSUME NEW T, Coherent(T), NEW id \in AircraftIds, NEW route \in Routes \union {Unknown},
           NEW expected, RouteError(T, id, route, expected) = NoError
    PROVE  /\ Coherent(MovedRoute(T, id, route))
           /\ T.aircraft[id] # None /\ T.aircraft[id].occupied = None
           /\ LegalRoute(T.aircraft[id], Rerouted(T.aircraft[id], route))
<1> DEFINE before == T.aircraft[id]
           after == Rerouted(before, route)
           v == before.version + 1
           M == MovedRoute(T, id, route)
<1>1. /\ before # None /\ AssignError(before, route, expected) = NoError /\ References(M)
      /\ expected = before.version /\ before.occupied = None
  BY DEF RouteError, AssignError, NoError
<1>2. /\ T \in TrafficStates /\ before \in Aircraft /\ CoherentAircraft(before)
      /\ v \in Nat \ {0}
  BY <1>1 DEF Coherent, TrafficStates, Aircraft, AircraftOf
<1>3. after = [before EXCEPT !.route = route, !.version = v]
  BY DEF Rerouted
<1> HIDE DEF v
<1>4. /\ after.state = before.state /\ after.hold = before.hold
      /\ after.assigned = before.assigned /\ after.occupied = before.occupied
      /\ after.route = route
  BY <1>2, <1>3 DEF Aircraft, AircraftOf
<1>5. after # None
  <2>1. after \in AircraftOf(Routes \union {Unknown}, Runways \union {Unknown},
                             Holds \union {Unknown})
    BY <1>2, <1>3 DEF Aircraft, AircraftOf
  <2> QED BY <2>1, NoneAssumption
<1>6. M = [T EXCEPT !.aircraft = [T.aircraft EXCEPT ![id] = after]]
  BY DEF MovedRoute
<1> HIDE DEF before, after, M
<1>7. /\ M.aircraft = [T.aircraft EXCEPT ![id] = after] /\ M.runways = T.runways
      /\ T.aircraft \in [AircraftIds -> Aircraft \union {None}]
      /\ T.runways \in [Runways -> RunwayRecords]
  BY <1>2, <1>6 DEF TrafficStates
<1>8. route \in Routes
  <2>1. M.aircraft[id] = after
    BY <1>7
  <2> QED BY <1>1, <1>4, <1>5, <2>1 DEF References
<1>9. after \in Aircraft
  BY <1>2, <1>3, <1>8 DEF Aircraft, AircraftOf
<1>10. M \in TrafficStates
  BY <1>2, <1>6, <1>9 DEF TrafficStates
<1>11. Membership(M)
  <2>1. \A q : Occupying(M, q) = Occupying(T, q)
    BY <1>1, <1>4, <1>5, <1>7 DEF Occupying, before
  <2> QED BY <1>7, <2>1 DEF Membership, Coherent
<1>12. \A a \in AircraftIds : M.aircraft[a] # None => CoherentAircraft(M.aircraft[a])
  <2>1. CoherentAircraft(after)
    BY <1>2, <1>4 DEF CoherentAircraft
  <2> QED BY <1>7, <2>1 DEF Coherent
<1>13. LegalRoute(before, after)
  BY <1>1, <1>4 DEF LegalRoute, after
<1> QED BY <1>1, <1>10, <1>11, <1>12, <1>13 DEF Coherent, before, after, M

\* Effects on the command's aircraft and route are what the fake computes with.
LEMMA AppliesOwn ==
    ASSUME NEW T, NEW c, NEW result, result.state.id = c.id,
           ChangesRoute(T, c) => result.route.id = c.id /\ result.route.route = c.route
    PROVE  /\ Routed(T, c, result.route) = AfterRoute(T, c)
           /\ Translated(T, c, result) = Moved(AfterRoute(T, c), c.id, result.state)
           /\ TranslatedFacts(T, c, result) =
                (IF ChangesRoute(T, c) THEN <<RouteFact(c.id, T.aircraft[c.id], c.route)>> ELSE <<>>)
                \o Facts(AfterRoute(T, c), c.id, result.state)
<1>1. Routed(T, c, result.route) = AfterRoute(T, c)
  BY DEF Routed, AfterRoute
<1> QED BY <1>1 DEF Translated, TranslatedFacts

\* What a translation that is not refused is known to satisfy.
LEMMA TranslateGuards ==
    ASSUME NEW T, NEW c, NEW result, TranslateError(T, c, result) = NoError
    PROVE  /\ T.aircraft[c.id] # None
           /\ ChangesRoute(T, c) =>
                RouteError(T, c.id, c.route, result.route.expected) = NoError
           /\ Intended(c, result.state)
           /\ MoveError(AfterRoute(T, c), c.id, result.state) = NoError
<1>1. /\ T.aircraft[c.id] # None /\ Intended(c, result.state)
      /\ TranslateRouteError(T, c, result) = NoError
      /\ TranslateMoveError(T, c, result) = NoError
  BY DEF TranslateError, NoError
<1>2. ChangesRoute(T, c) => result.route.id = c.id /\ result.route.route = c.route
  BY <1>1 DEF TranslateRouteError, NoError
<1>3. ChangesRoute(T, c) => RouteError(T, c.id, c.route, result.route.expected) = NoError
  BY <1>1, <1>2 DEF TranslateRouteError
<1>4. result.state.id = c.id
  BY <1>1 DEF Intended
<1> QED BY <1>1, <1>2, <1>3, <1>4, AppliesOwn DEF TranslateMoveError

LEMMA TranslateApplies ==
    ASSUME NEW T, NEW c, NEW result, TranslateError(T, c, result) = NoError
    PROVE  /\ Translated(T, c, result) = Moved(AfterRoute(T, c), c.id, result.state)
           /\ TranslatedFacts(T, c, result) =
                (IF ChangesRoute(T, c) THEN <<RouteFact(c.id, T.aircraft[c.id], c.route)>> ELSE <<>>)
                \o Facts(AfterRoute(T, c), c.id, result.state)
<1>1. TranslateRouteError(T, c, result) = NoError
  BY DEF TranslateError, NoError
<1>2. ChangesRoute(T, c) => result.route.id = c.id /\ result.route.route = c.route
  BY <1>1 DEF TranslateRouteError, NoError
<1>3. result.state.id = c.id
  BY TranslateGuards DEF Intended
<1> QED BY <1>2, <1>3, AppliesOwn

\* A command names an aircraft and references that may exist or not.
Referring(c) == /\ c.id \in AircraftIds /\ c.route \in Routes \union {Unknown}
                /\ c.hold \in Holds \union {None, Unknown}
                /\ c.runway \in Runways \union {None, Unknown}

LEMMA CommandsRefer ==
    ASSUME NEW versions, NEW c \in Commands(versions) PROVE Referring(c)
BY DEF Commands, Referring

\* Its route is assigned first, its move follows.
LEMMA TranslateSound ==
    ASSUME NEW T, Coherent(T), NEW c, Referring(c), NEW result,
           TranslateError(T, c, result) = NoError
    PROVE  /\ Coherent(AfterRoute(T, c))
           /\ Arguments(result.state)
           /\ Coherent(Translated(T, c, result))
<1>1. /\ c.id \in AircraftIds /\ c.route \in Routes \union {Unknown}
      /\ c.hold \in Holds \union {None, Unknown} /\ c.runway \in Runways \union {None, Unknown}
  BY DEF Referring
<1>2. Coherent(AfterRoute(T, c))
  BY <1>1, RouteSound, TranslateGuards DEF AfterRoute
<1>3. Arguments(result.state)
  BY <1>1, TranslateGuards DEF Intended, Arguments
<1>4. Coherent(Translated(T, c, result))
  BY <1>1, <1>2, <1>3, MoveSound, TranslateGuards, TranslateApplies
<1> QED BY <1>2, <1>3, <1>4

-----------------------------------------------------------------------------
(* Replay.                                                                  *)

\* One round of the replay is accepted and leaves a well-typed replica.
Reads(P, f) == Follows(P, f) /\ AfterFact(P, f) \in Replicas

\* Reading the facts one after the other leads the replica P to the traffic T.
LeadsTo(P, facts, T) ==
    \/ facts = <<>> /\ P = Replayed(T)
    \/ \E a : /\ facts = <<a>>
              /\ Reads(P, a) /\ AfterFact(P, a) = Replayed(T)
    \/ \E a, b : /\ facts = <<a, b>>
                 /\ Reads(P, a) /\ Reads(AfterFact(P, a), b)
                 /\ AfterFact(AfterFact(P, a), b) = Replayed(T)
    \/ \E a, b, c : /\ facts = <<a, b, c>>
                    /\ Reads(P, a) /\ Reads(AfterFact(P, a), b)
                    /\ Reads(AfterFact(AfterFact(P, a), b), c)
                    /\ AfterFact(AfterFact(AfterFact(P, a), b), c) = Replayed(T)

\* The traffic of a complete history.
LEMMA ReplayedTraffic ==
    ASSUME NEW T \in TrafficStates
    PROVE  /\ Known(Replayed(T)) = T /\ Replayed(T) \in Replicas
           /\ Replayed(T).geometry /\ Replayed(T).pending = None
BY DEF Known, Replayed, TrafficStates, Replicas

LEMMA ReplicaTraffic ==
    ASSUME NEW P \in Replicas PROVE Known(P) \in TrafficStates
BY DEF Known, TrafficStates, Replicas

\* The replay follows a route assignment.
LEMMA RouteReplays ==
    ASSUME NEW T, Coherent(T), NEW id \in AircraftIds, NEW route \in Routes \union {Unknown},
           NEW expected, RouteError(T, id, route, expected) = NoError
    PROVE  LET f == RouteFact(id, T.aircraft[id], route)
           IN /\ Reads(Replayed(T), f)
              /\ AfterFact(Replayed(T), f) = Replayed(MovedRoute(T, id, route))
<1> DEFINE before == T.aircraft[id]
           after == Rerouted(before, route)
           f == RouteFact(id, before, route)
           P == Replayed(T)
           M == MovedRoute(T, id, route)
<1>1. /\ Coherent(M) /\ M \in TrafficStates /\ T \in TrafficStates
      /\ before # None /\ before.occupied = None /\ LegalRoute(before, after)
  BY RouteSound DEF Coherent
<1>2. /\ f.kind = "route" /\ f.id = id /\ f.before = before /\ f.after = after
  BY DEF RouteFact
<1>3. /\ P.pending = None /\ P.aircraft = T.aircraft /\ P.runways = T.runways
  BY DEF Replayed
<1>4. after.occupied = None
  BY <1>1 DEF Rerouted, Coherent, TrafficStates, Aircraft, AircraftOf
<1>5. ~EntersOrLeaves(before, after)
  BY <1>1, <1>4 DEF EntersOrLeaves
<1> HIDE DEF before, after, f
<1>6. Follows(P, f)
  BY <1>1, <1>2, <1>3, <1>5 DEF Follows, before
<1>7. AfterFact(P, f) = [P EXCEPT !.aircraft[id] = after, !.pending = None]
  BY <1>2, <1>5 DEF AfterFact
<1>8. M = [T EXCEPT !.aircraft[id] = after]
  BY DEF MovedRoute, before, after
<1>9. M.aircraft = [T.aircraft EXCEPT ![id] = after] /\ M.runways = T.runways
  BY <1>1, <1>8 DEF TrafficStates
<1>10. AfterFact(P, f) = Replayed(M)
  BY <1>1, <1>7, <1>9 DEF Replayed
<1> QED BY <1>1, <1>6, <1>10, ReplayedTraffic DEF Reads, f, before, after

\* The replay follows the facts of a move: the aircraft's fact calls for exactly
\* the membership fact that the policy appended.
LEMMA MoveReplays ==
    ASSUME NEW T, Coherent(T), NEW id \in AircraftIds, NEW m, Arguments(m),
           MoveError(T, id, m) = NoError
    PROVE  LET before == T.aircraft[id]
               after == Changed(before, m)
               r == Concerned(before, after)
               a == StateFact(id, before, after)
               b == OccupancyFact(id, r, T.runways[r], after.occupied # None)
               M == Moved(T, id, m)
           IN \/ /\ Facts(T, id, m) = <<a>>
                 /\ Reads(Replayed(T), a) /\ AfterFact(Replayed(T), a) = Replayed(M)
              \/ /\ Facts(T, id, m) = <<a, b>>
                 /\ Reads(Replayed(T), a) /\ Reads(AfterFact(Replayed(T), a), b)
                 /\ AfterFact(AfterFact(Replayed(T), a), b) = Replayed(M)
<1> DEFINE before == T.aircraft[id]
           after == Changed(before, m)
           r == Concerned(before, after)
           runway == occupancy(T.runways[r], id, after.occupied # None)
           a == StateFact(id, before, after)
           b == OccupancyFact(id, r, T.runways[r], after.occupied # None)
           M == Moved(T, id, m)
           P == Replayed(T)
           Q == AfterFact(P, a)
<1>1. /\ before # None /\ before \in Aircraft /\ ChangeError(before, m) = NoError
      /\ ~RunwayConflict(T, before, after, m.expected_runway)
      /\ LegalChange(before, after)
  BY MoveGuards, ChangeIsLegal DEF Coherent, TrafficStates
<1>2. /\ T \in TrafficStates /\ M \in TrafficStates
  BY MoveSound DEF Coherent
<1>3. EntersOrLeaves(before, after) =>
        r \in Runways /\ runway \in RunwayRecords /\ runway # T.runways[r]
  BY <1>1, MoveMembership
<1>4. Facts(T, id, m) = IF EntersOrLeaves(before, after) THEN <<a, b>> ELSE <<a>>
  BY FactsShape
<1>5. M = [aircraft |-> [T.aircraft EXCEPT ![id] = after],
           runways |-> IF EntersOrLeaves(before, after) THEN [T.runways EXCEPT ![r] = runway]
                       ELSE T.runways]
  BY MovedFields
<1>6. /\ a.kind = "state" /\ a.id = id /\ a.before = before /\ a.after = after
      /\ b.kind = "occupancy" /\ b.runway = r /\ b.before = T.runways[r] /\ b.after = runway
  BY DEF StateFact, OccupancyFact
<1>7. /\ P.pending = None /\ P.aircraft = T.aircraft /\ P.runways = T.runways
      /\ P.geometry = TRUE
  BY DEF Replayed
<1>8. Called(P, a) = b
  BY <1>6, <1>7 DEF Called
<1>9. EntersOrLeaves(before, after) => b \in OccupancyFacts /\ b # None
  <2>1. SUFFICES ASSUME EntersOrLeaves(before, after) PROVE b \in OccupancyFacts
    BY NoneAssumption
  <2>2. T.runways[r] \in RunwayRecords
    BY <1>2, <1>3, <2>1 DEF TrafficStates
  <2> QED BY <1>3, <2>1, <2>2 DEF OccupancyFact, OccupancyFacts
<1> HIDE DEF before, after, r, runway, a, b, M
<1>10. Follows(P, a)
  BY <1>1, <1>3, <1>6, <1>7, <1>8 DEF Follows, before, r
<1>11. Q = [P EXCEPT !.aircraft[id] = after,
                     !.pending = IF EntersOrLeaves(before, after) THEN b ELSE None]
  BY <1>6, <1>8 DEF AfterFact
<1>12. /\ Q.geometry = TRUE /\ Q.aircraft = [T.aircraft EXCEPT ![id] = after]
       /\ Q.runways = T.runways
       /\ Q.pending = IF EntersOrLeaves(before, after) THEN b ELSE None
  BY <1>7, <1>11 DEF Replayed
<1> HIDE DEF P, Q
<1>13. Q \in Replicas
  <2>1. Q.aircraft \in [AircraftIds -> Aircraft \union {None}]
    BY <1>2, <1>5, <1>12 DEF TrafficStates
  <2>2. Q.runways \in [Runways -> RunwayRecords] /\ Q.pending \in OccupancyFacts \union {None}
    BY <1>2, <1>9, <1>12 DEF TrafficStates
  <2>3. Q = [geometry |-> TRUE, aircraft |-> Q.aircraft, runways |-> Q.runways,
             pending |-> Q.pending]
    BY <1>11 DEF P, Replayed
  <2>4. TRUE \in BOOLEAN
    OBVIOUS
  <2>5. PICK A, R, p : A = Q.aircraft /\ R = Q.runways /\ p = Q.pending
    OBVIOUS
  <2>6. [geometry |-> TRUE, aircraft |-> A, runways |-> R, pending |-> p] \in Replicas
    BY <2>1, <2>2, <2>4, <2>5 DEF Replicas
  <2> QED BY <2>3, <2>5, <2>6
<1>14. CASE ~EntersOrLeaves(before, after)
  <2>1. Q = Replayed(M)
    BY <1>5, <1>11, <1>12, <1>14 DEF Replayed, P
  <2> QED BY <1>4, <1>10, <1>13, <1>14, <2>1 DEF Reads, before, after, r, a, b, M, P, Q
<1>15. CASE EntersOrLeaves(before, after)
  <2>1. Follows(Q, b)
    BY <1>6, <1>9, <1>12, <1>15 DEF Follows
  <2>2. AfterFact(Q, b) = [Q EXCEPT !.runways[r] = runway, !.pending = None]
    BY <1>6 DEF AfterFact
  <2> DEFINE A == [T.aircraft EXCEPT ![id] = after]
             W == [T.runways EXCEPT ![r] = runway]
  <2>3. Replayed(M) = [geometry |-> TRUE, aircraft |-> A, runways |-> W, pending |-> None]
    BY <1>5, <1>15 DEF Replayed
  <2>4. AfterFact(Q, b) = [Q EXCEPT !.runways = W, !.pending = None]
    BY <1>12, <2>2
  <2>5. Q = [geometry |-> TRUE, aircraft |-> A, runways |-> T.runways, pending |-> b]
    BY <1>11, <1>12, <1>15 DEF Replayed, P
  <2> HIDE DEF A, W
  <2>6. AfterFact(Q, b) = Replayed(M)
    BY <2>3, <2>4, <2>5
  <2>7. AfterFact(Q, b) \in Replicas
    BY <1>2, <2>6, ReplayedTraffic
  <2> QED BY <1>4, <1>10, <1>13, <1>15, <2>1, <2>6, <2>7
          DEF Reads, before, after, r, a, b, M, P, Q
<1> QED BY <1>14, <1>15

\* The replay follows a move from the traffic it has reached.
LEMMA MoveLeads ==
    ASSUME NEW T, Coherent(T), NEW id \in AircraftIds, NEW m, Arguments(m),
           MoveError(T, id, m) = NoError
    PROVE  LeadsTo(Replayed(T), Facts(T, id, m), Moved(T, id, m))
BY MoveReplays DEF LeadsTo

\* The replay follows the facts of a translated command.
LEMMA TranslationLeads ==
    ASSUME NEW T, Coherent(T), NEW c, Referring(c), NEW result,
           TranslateError(T, c, result) = NoError
    PROVE  LeadsTo(Replayed(T), TranslatedFacts(T, c, result), Translated(T, c, result))
<1> DEFINE U == AfterRoute(T, c)
           m == result.state
           M == Moved(U, c.id, m)
           f == RouteFact(c.id, T.aircraft[c.id], c.route)
           before == U.aircraft[c.id]
           after == Changed(before, m)
           r == Concerned(before, after)
           a == StateFact(c.id, before, after)
           b == OccupancyFact(c.id, r, U.runways[r], after.occupied # None)
           facts == Facts(U, c.id, m)
<1>1. /\ Coherent(U) /\ Arguments(m) /\ MoveError(U, c.id, m) = NoError
      /\ c.id \in AircraftIds /\ c.route \in Routes \union {Unknown}
  BY TranslateSound, TranslateGuards DEF Referring
<1>2. \/ facts = <<a>> /\ Reads(Replayed(U), a) /\ AfterFact(Replayed(U), a) = Replayed(M)
      \/ /\ facts = <<a, b>>
         /\ Reads(Replayed(U), a) /\ Reads(AfterFact(Replayed(U), a), b)
         /\ AfterFact(AfterFact(Replayed(U), a), b) = Replayed(M)
  BY <1>1, MoveReplays
<1>3. TranslatedFacts(T, c, result) = (IF ChangesRoute(T, c) THEN <<f>> ELSE <<>>) \o facts
  BY TranslateApplies
<1>4. Translated(T, c, result) = M
  BY TranslateApplies
<1>5. CASE ChangesRoute(T, c)
  <2>1. Reads(Replayed(T), f) /\ AfterFact(Replayed(T), f) = Replayed(U)
    BY <1>1, <1>5, RouteReplays, TranslateGuards DEF AfterRoute
  <2> HIDE DEF f, a, b, facts, M, U
  <2>2. CASE facts = <<a>>
    BY <1>2, <1>3, <1>4, <1>5, <2>1, <2>2, ConcatOne DEF LeadsTo
  <2>3. CASE facts = <<a, b>>
    BY <1>2, <1>3, <1>4, <1>5, <2>1, <2>3, ConcatTwo DEF LeadsTo
  <2> QED BY <1>2, <2>2, <2>3
<1>6. CASE ~ChangesRoute(T, c)
  <2>1. U = T
    BY <1>6 DEF AfterRoute
  <2> HIDE DEF f, a, b, facts, M, U
  <2>2. CASE facts = <<a>>
    BY <1>2, <1>3, <1>4, <1>6, <2>1, <2>2, NoneConcat DEF LeadsTo
  <2>3. CASE facts = <<a, b>>
    BY <1>2, <1>3, <1>4, <1>6, <2>1, <2>3, NoneConcat DEF LeadsTo
  <2> QED BY <1>2, <2>2, <2>3
<1> QED BY <1>5, <1>6

\* Reading one fact leaves the rest of the way.
LEMMA LeadsStep ==
    ASSUME NEW P, NEW facts, NEW T, LeadsTo(P, facts, T), facts # <<>>
    PROVE  /\ Reads(P, Head(facts))
           /\ LeadsTo(AfterFact(P, Head(facts)), Tail(facts), T)
<1>1. CASE \E a : /\ facts = <<a>>
                  /\ Reads(P, a) /\ AfterFact(P, a) = Replayed(T)
  <2>1. PICK a : /\ facts = <<a>>
                 /\ Reads(P, a) /\ AfterFact(P, a) = Replayed(T)
    BY <1>1
  <2>2. Head(facts) = a /\ Tail(facts) = <<>>
    BY <2>1, HeadAndTail
  <2> QED BY <2>1, <2>2 DEF LeadsTo
<1>2. CASE \E a, b : /\ facts = <<a, b>>
                     /\ Reads(P, a) /\ Reads(AfterFact(P, a), b)
                     /\ AfterFact(AfterFact(P, a), b) = Replayed(T)
  <2>1. PICK a, b : /\ facts = <<a, b>>
                    /\ Reads(P, a) /\ Reads(AfterFact(P, a), b)
                    /\ AfterFact(AfterFact(P, a), b) = Replayed(T)
    BY <1>2
  <2>2. Head(facts) = a /\ Tail(facts) = <<b>>
    BY <2>1, HeadAndTail
  <2> QED BY <2>1, <2>2 DEF LeadsTo
<1>3. CASE \E a, b, c : /\ facts = <<a, b, c>>
                        /\ Reads(P, a) /\ Reads(AfterFact(P, a), b)
                        /\ Reads(AfterFact(AfterFact(P, a), b), c)
                        /\ AfterFact(AfterFact(AfterFact(P, a), b), c) = Replayed(T)
  <2>1. PICK a, b, c : /\ facts = <<a, b, c>>
                       /\ Reads(P, a) /\ Reads(AfterFact(P, a), b)
                       /\ Reads(AfterFact(AfterFact(P, a), b), c)
                       /\ AfterFact(AfterFact(AfterFact(P, a), b), c) = Replayed(T)
    BY <1>3
  <2>2. Head(facts) = a /\ Tail(facts) = <<b, c>>
    BY <2>1, HeadAndTail
  <2> QED BY <2>1, <2>2 DEF LeadsTo
<1> QED BY <1>1, <1>2, <1>3 DEF LeadsTo

\* The way is at most three facts long.
LEMMA LeadsLength ==
    ASSUME NEW P, NEW facts, NEW T, LeadsTo(P, facts, T) PROVE Len(facts) <= 3
<1>1. \/ facts = <<>>
      \/ \E a : facts = <<a>>
      \/ \E a, b : facts = <<a, b>>
      \/ \E a, b, c : facts = <<a, b, c>>
  BY Zenon DEF LeadsTo
<1>2. ASSUME NEW a, facts = <<a>> PROVE Len(facts) <= 3
  BY <1>2
<1>3. ASSUME NEW a, NEW b, facts = <<a, b>> PROVE Len(facts) <= 3
  BY <1>3
<1>4. ASSUME NEW a, NEW b, NEW c, facts = <<a, b, c>> PROVE Len(facts) <= 3
  BY <1>4
<1>5. facts = <<>> => Len(facts) <= 3
  OBVIOUS
<1> QED BY <1>1, <1>2, <1>3, <1>4, <1>5

-----------------------------------------------------------------------------
(* The inductive invariant and what follows from it.                        *)

HistoryInv == /\ Coherent(live)
        /\ Known(replica) \in TrafficStates
        /\ LeadsTo(replica, unread, live)

\* A scenario's aircraft are coherent and outside every runway.
LEMMA InitCoherent ==
    ASSUME NEW e \in [AircraftIds -> InitialAircraft \union {None}], initial_traffic(e) # None
    PROVE  /\ Coherent(initial_traffic(e))
           /\ initial_traffic(e) = [aircraft |-> e, runways |-> EmptyRunways]
<1> DEFINE T == [aircraft |-> e, runways |-> EmptyRunways]
<1>1. /\ initial_traffic(e) = T /\ References(T)
      /\ \A id \in AircraftIds : e[id] # None => CoherentAircraft(e[id])
  BY DEF initial_traffic
<1>2. \A id \in AircraftIds : e[id] # None => e[id] \in Aircraft /\ e[id].occupied = None
  <2>1. \A a \in InitialAircraft : a \in Aircraft /\ a.occupied = None
    BY DEF InitialAircraft, InitialStates, Aircraft, AircraftOf, AircraftStates
  <2> QED BY <2>1
<1>3. EmptyRunways \in [Runways -> RunwayRecords]
      /\ \A r \in Runways : EmptyRunways[r].occupants = {}
  BY DEF EmptyRunways, RunwayRecords
<1>4. T \in TrafficStates
  BY <1>2, <1>3 DEF TrafficStates
<1>5. Membership(T)
  BY <1>2, <1>3, GeometryAssumption DEF Membership, Occupying
<1> QED BY <1>1, <1>4, <1>5 DEF Coherent

\* A command's facts lead the replica that has caught up to the new traffic.
LEMMA CommitLeads ==
    ASSUME HistoryInv, unread = <<>>, NEW T, Coherent(T), NEW facts,
           LeadsTo(Replayed(live), facts, T), CommitFacts(T, facts)
    PROVE  HistoryInv'
<1>1. replica = Replayed(live)
  <2>1. \A a, b, c : <<a>> # <<>> /\ <<a, b>> # <<>> /\ <<a, b, c>> # <<>>
    BY HeadAndTail
  <2> QED BY <2>1 DEF HistoryInv, LeadsTo
<1>2. live' = T /\ unread' = facts /\ replica' = replica
  BY DEF CommitFacts
<1>3. LeadsTo(replica', unread', live')
  BY <1>1, <1>2
<1> QED BY <1>2, <1>3 DEF HistoryInv

\* The moves that a history tries have arguments of the expected kinds.
LEMMA MovesArguments ==
    ASSUME NEW T, NEW id, NEW m \in Moves(T, id) PROVE Arguments(m)
BY DEF Moves, Arguments

\* HistoryInv is inductive.
LEMMA HistoryStep == HistoryInv /\ [HNext]_hvars => HistoryInv'
<1> SUFFICES ASSUME HistoryInv, [HNext]_hvars PROVE HistoryInv'
  OBVIOUS
<1>1. ASSUME NEW id \in AircraftIds, Transition(id) PROVE HistoryInv'
  <2>1. PICK m \in Moves(live, id) : /\ MoveError(live, id, m) = NoError
                                     /\ CommitFacts(Moved(live, id, m), Facts(live, id, m))
    BY <1>1 DEF Transition
  <2>2. Coherent(live) /\ Arguments(m) /\ unread = <<>>
    BY <1>1, <2>1, MovesArguments DEF HistoryInv, Transition
  <2> QED BY <2>1, <2>2, MoveSound, MoveLeads, CommitLeads
<1>2. ASSUME NEW c \in SimulationCommands, Apply(c) PROVE HistoryInv'
  <2>1. PICK result \in Answers(live, c) :
          /\ TranslateError(live, c, result) = NoError
          /\ CommitFacts(Translated(live, c, result), TranslatedFacts(live, c, result))
    BY <1>2 DEF Apply
  <2>2. Coherent(live) /\ unread = <<>>
    BY <1>2 DEF HistoryInv, Apply
  <2>3. PICK versions : c \in Commands(versions)
    BY <1>2 DEF SimulationCommands
  <2>4. /\ Coherent(Translated(live, c, result))
        /\ LeadsTo(Replayed(live), TranslatedFacts(live, c, result), Translated(live, c, result))
    BY <2>1, <2>2, <2>3, CommandsRefer, TranslateSound, TranslationLeads
  <2> QED BY <2>1, <2>2, <2>4, CommitLeads
<1>3. CASE Replay
  <2>1. /\ Reads(replica, Head(unread))
        /\ LeadsTo(AfterFact(replica, Head(unread)), Tail(unread), live)
    BY <1>3, LeadsStep DEF Replay, HistoryInv
  <2> QED BY <1>3, <2>1, ReplicaTraffic DEF Replay, HistoryInv, Reads
<1>4. CASE UNCHANGED hvars
  BY <1>4 DEF hvars, HistoryInv
<1> QED BY <1>1, <1>2, <1>3, <1>4 DEF HNext

\* The live traffic stays coherent, and what a restart has not yet read leads to
\* it, for every aerodrome, scenario and sequence of commands.
THEOREM HistoryInvariance == HSpec => []HistoryInv
<1>1. HInit => HistoryInv
  <2> SUFFICES ASSUME HInit PROVE HistoryInv
    OBVIOUS
  <2>1. Coherent(live) /\ replica = Replayed(live) /\ unread = <<>>
    BY InitCoherent, HistoryAssumption DEF HInit
  <2> QED BY <2>1, ReplayedTraffic DEF HistoryInv, LeadsTo, Coherent
<1> QED BY <1>1, HistoryStep, PTL DEF HSpec

\* The traffic, live and replayed, is always well-typed, and a command appends
\* at most three facts.
THEOREM HistoryTypeCorrect == HSpec => []HTypeOK
<1>1. HistoryInv => HTypeOK
  BY LeadsLength DEF HistoryInv, HTypeOK, Known, Coherent
<1> QED BY <1>1, HistoryInvariance, PTL

\* The validators of the domain never contradict its policy: no transition of any
\* reachable traffic fails with a mismatch.
THEOREM PolicyNeverMismatched == HSpec => []NeverMismatched
<1>1. HistoryInv => NeverMismatched
  BY MoveNeverMismatched, MovesArguments DEF HistoryInv, NeverMismatched
<1> QED BY <1>1, HistoryInvariance, PTL

\* A restart reads every committed fact and ends in the live traffic.
THEOREM ReplayCorrect == HSpec => []ReplayFollows
<1>1. ASSUME HistoryInv PROVE ReplayFollows
  <2>1. CASE unread = <<>>
    <3>1. replica = Replayed(live)
      <4>1. \A a, b, c : <<a>> # <<>> /\ <<a, b>> # <<>> /\ <<a, b, c>> # <<>>
        BY HeadAndTail
      <4> QED BY <1>1, <2>1, <4>1 DEF HistoryInv, LeadsTo
    <3>2. References(Replayed(live)) /\ Membership(Replayed(live))
      BY <1>1 DEF HistoryInv, Coherent, References, Membership, Occupying, Replayed
    <3>3. Complete(Replayed(live))
      BY <3>2 DEF Complete, Replayed
    <3> QED BY <2>1, <3>1, <3>3 DEF ReplayFollows
  <2>2. CASE unread # <<>>
    BY <1>1, <2>2, LeadsStep DEF HistoryInv, ReplayFollows, Reads
  <2> QED BY <2>1, <2>2
<1> QED BY <1>1, HistoryInvariance, PTL

\* A move takes only its own aircraft off a runway, and only by the two legal ways.
LEMMA MoveLeaves ==
    ASSUME NEW T, Coherent(T), NEW id \in AircraftIds, NEW m, Arguments(m),
           MoveError(T, id, m) = NoError,
           NEW r \in Runways, NEW a \in T.runways[r].occupants,
           a \notin Moved(T, id, m).runways[r].occupants
    PROVE  <<T.aircraft[a].state, Moved(T, id, m).aircraft[a].state>>
              \in {<<"TAKEOFF_ROLL", "AIRBORNE">>, <<"VACATING", "TAXIING">>}
<1> DEFINE before == T.aircraft[id]
           after == Changed(before, m)
           M == Moved(T, id, m)
<1>1. /\ before # None /\ before \in Aircraft /\ CoherentAircraft(before)
      /\ ChangeError(before, m) = NoError /\ Membership(M)
      /\ T.aircraft \in [AircraftIds -> Aircraft \union {None}]
  BY MoveGuards DEF Coherent, TrafficStates
<1>2. M.aircraft = [T.aircraft EXCEPT ![id] = after]
  BY MovedFields
<1>3. /\ a \in AircraftIds /\ T.aircraft[a] # None /\ T.aircraft[a].occupied = r
      /\ ~(M.aircraft[a] # None /\ M.aircraft[a].occupied = r)
  BY <1>1 DEF Coherent, Membership, Occupying
<1>4. after # None /\ after.state = m.target
  BY <1>1, ChangedIsAircraft, ChangedFields
<1> HIDE DEF before, after, M
<1>5. a = id
  BY <1>1, <1>2, <1>3
<1>6. before.occupied = r /\ after.occupied # r /\ M.aircraft[a].state = m.target
  BY <1>1, <1>2, <1>3, <1>4, <1>5 DEF before
<1>7. r # None
  BY GeometryAssumption
<1> QED BY <1>1, <1>5, <1>6, <1>7, Leaving DEF before, after, M

\* A route assignment moves no aircraft and changes no phase.
LEMMA RouteKeepsStates ==
    ASSUME NEW T, Coherent(T), NEW id \in AircraftIds, NEW route, T.aircraft[id] # None
    PROVE  /\ MovedRoute(T, id, route).runways = T.runways
           /\ \A a \in AircraftIds :
                T.aircraft[a] # None =>
                   MovedRoute(T, id, route).aircraft[a].state = T.aircraft[a].state
<1> DEFINE after == Rerouted(T.aircraft[id], route)
           M == MovedRoute(T, id, route)
<1>1. T \in TrafficStates /\ T.aircraft[id] \in Aircraft
  BY DEF Coherent, TrafficStates
<1>2. after.state = T.aircraft[id].state
  BY <1>1 DEF Rerouted, Aircraft, AircraftOf
<1>3. M = [T EXCEPT !.aircraft[id] = after]
  BY DEF MovedRoute
<1> HIDE DEF after
<1>4. M.runways = T.runways /\ M.aircraft = [T.aircraft EXCEPT ![id] = after]
  BY <1>1, <1>3 DEF TrafficStates
<1> QED BY <1>1, <1>2, <1>4 DEF TrafficStates

\* An aircraft is taken off a runway by its own take-off or by taxiing away after
\* vacating, and by no other step.
THEOREM OnlyLeavesByItself == HSpec => LeavesByItself
<1>1. HistoryInv /\ [HNext]_hvars => [LeavesStep]_hvars
  <2> DEFINE Legal == {<<"TAKEOFF_ROLL", "AIRBORNE">>, <<"VACATING", "TAXIING">>}
  <2> SUFFICES ASSUME HistoryInv, HNext,
                      NEW r \in Runways, NEW a \in live.runways[r].occupants,
                      a \notin live'.runways[r].occupants
               PROVE  <<live.aircraft[a].state, live'.aircraft[a].state>> \in Legal
    BY DEF LeavesStep
  <2>1. ASSUME NEW id \in AircraftIds, Transition(id)
        PROVE  <<live.aircraft[a].state, live'.aircraft[a].state>> \in Legal
    <3>1. PICK m \in Moves(live, id) : /\ MoveError(live, id, m) = NoError
                                       /\ live' = Moved(live, id, m)
      BY <2>1 DEF Transition, CommitFacts
    <3> QED BY <3>1, MoveLeaves, MovesArguments DEF HistoryInv
  <2>2. ASSUME NEW c \in SimulationCommands, Apply(c)
        PROVE  <<live.aircraft[a].state, live'.aircraft[a].state>> \in Legal
    <3> DEFINE U == AfterRoute(live, c)
    <3>1. PICK result \in Answers(live, c) :
            /\ TranslateError(live, c, result) = NoError
            /\ live' = Translated(live, c, result)
      BY <2>2 DEF Apply, CommitFacts
    <3>2. PICK versions : c \in Commands(versions)
      BY <2>2 DEF SimulationCommands
    <3>3. /\ Coherent(live) /\ Coherent(U) /\ Arguments(result.state)
          /\ c.id \in AircraftIds /\ live.aircraft[c.id] # None
          /\ MoveError(U, c.id, result.state) = NoError
      BY <3>1, <3>2, CommandsRefer, TranslateSound, TranslateGuards DEF HistoryInv, Referring
    <3>4. a \in AircraftIds /\ live.aircraft[a] # None
      BY <3>3 DEF Coherent, Membership, Occupying
    <3>5. U.runways = live.runways /\ U.aircraft[a].state = live.aircraft[a].state
      BY <3>3, <3>4, RouteKeepsStates DEF AfterRoute
    <3>6. live' = Moved(U, c.id, result.state)
      BY <3>1, TranslateApplies
    <3> HIDE DEF U
    <3> QED BY <3>3, <3>5, <3>6, MoveLeaves
  <2>3. CASE Replay
    BY <2>3 DEF Replay
  <2> QED BY <2>1, <2>2, <2>3 DEF HNext
<1> QED BY <1>1, HistoryInvariance, PTL DEF HSpec, LeavesByItself

-----------------------------------------------------------------------------
(* The provider.                                                            *)

\* A move that is not refused may as well name the version of the runway that it
\* assigns: it is not refused either, and leads to the same state.
LEMMA SameMove ==
    ASSUME NEW T, Coherent(T), NEW id \in AircraftIds, NEW m, Arguments(m),
           MoveError(T, id, m) = NoError,
           NEW n, n.target = m.target, n.hold = m.hold, n.runway = m.runway,
           n.expected = T.aircraft[id].version,
           LET r == AssignedTo(T.aircraft[id], m)
           IN n.expected_runway = IF r \in Runways THEN T.runways[r].version ELSE None
    PROVE  MoveError(T, id, n) = NoError /\ Moved(T, id, n) = Moved(T, id, m)
<1> DEFINE before == T.aircraft[id]
           after == Changed(before, m)
           r == AssignedTo(before, m)
<1>1. AssignedTo(before, n) = r
  BY DEF AssignedTo
<1>2. Changed(before, n) = after
  BY <1>1 DEF Changed
<1>3. Facts(T, id, n) = Facts(T, id, m)
  BY <1>2 DEF Facts
<1>4. Moved(T, id, n) = Moved(T, id, m)
  BY <1>3 DEF Moved
<1>5. /\ before # None /\ before \in Aircraft /\ CoherentAircraft(before)
      /\ ChangeError(before, m) = NoError
      /\ ~RunwayConflict(T, before, after, m.expected_runway)
      /\ References(Moved(T, id, m))
  BY MoveGuards DEF Coherent, TrafficStates
<1>6. ChangeError(before, n) = NoError
  BY <1>1, <1>2, <1>5 DEF ChangeError, NoError
<1>7. ~RunwayConflict(T, before, after, n.expected_runway)
  <2>1. CASE EntersOrLeaves(before, after)
    <3>1. Concerned(before, after) \in Runways
      BY <1>5, <2>1 DEF RunwayConflict
    <3>2. Concerned(before, after) = r
      BY <1>5, <2>1, ChangedFields
         DEF Concerned, EntersOrLeaves, CoherentAircraft, ChangeError, NoError
    <3> QED BY <2>1, <3>1, <3>2 DEF RunwayConflict
  <2>2. CASE ~EntersOrLeaves(before, after)
    <3>1. after.assigned = r
      BY <1>5, ChangedFields
    <3> QED BY <2>2, <3>1 DEF RunwayConflict
  <2> QED BY <2>1, <2>2
<1>8. Arguments(n)
  BY DEF Arguments
<1>9. MoveError(T, id, n) \in {"MISMATCH", NoError}
  <2>1. References(Moved(T, id, n))
    BY <1>4, <1>5
  <2> QED BY <1>2, <1>5, <1>6, <1>7, <2>1 DEF MoveError
<1> QED BY <1>4, <1>8, <1>9, MoveNeverMismatched

\* What a route assignment keeps of the runways and of its aircraft.
LEMMA RouteKeeps ==
    ASSUME NEW T, Coherent(T), NEW id \in AircraftIds, NEW route, T.aircraft[id] # None
    PROVE  LET M == MovedRoute(T, id, route)
           IN /\ M.runways = T.runways
              /\ M.aircraft[id].state = T.aircraft[id].state
              /\ M.aircraft[id].assigned = T.aircraft[id].assigned
              /\ M.aircraft[id].version = T.aircraft[id].version + 1
<1> DEFINE before == T.aircraft[id]
           after == Rerouted(before, route)
           M == MovedRoute(T, id, route)
<1>1. /\ T \in TrafficStates /\ before \in Aircraft
      /\ T.aircraft \in [AircraftIds -> Aircraft \union {None}]
  BY DEF Coherent, TrafficStates
<1>2. /\ after.state = before.state /\ after.assigned = before.assigned
      /\ after.version = before.version + 1
  BY <1>1 DEF Rerouted, Aircraft, AircraftOf
<1>3. M = [T EXCEPT !.aircraft = [T.aircraft EXCEPT ![id] = after]]
  BY DEF MovedRoute
<1> HIDE DEF before, after, M
<1>4. M.aircraft = [T.aircraft EXCEPT ![id] = after] /\ M.runways = T.runways
  BY <1>1, <1>3 DEF TrafficStates
<1>5. M.aircraft[id] = after
  BY <1>1, <1>4
<1> QED BY <1>2, <1>4, <1>5 DEF before, after, M

\* The fake's state effect, on the traffic after the route assignment.
LEMMA FakeMove ==
    ASSUME NEW T, Coherent(T), NEW versions, NEW c \in Commands(versions),
           T.aircraft[c.id] # None,
           NEW m, m.runway = c.runway
    PROVE  LET n == FakeState(T, c)
               U == AfterRoute(T, c)
               r == AssignedTo(U.aircraft[c.id], m)
           IN /\ n.id = c.id /\ n.target = TARGET_STATES[c.action]
              /\ n.hold = c.hold /\ n.runway = c.runway
              /\ n.expected = U.aircraft[c.id].version
              /\ n.expected_runway = IF r \in Runways THEN U.runways[r].version ELSE None
              /\ n # None
              /\ U.aircraft[c.id].state = T.aircraft[c.id].state
<1> DEFINE n == FakeState(T, c)
           U == AfterRoute(T, c)
           a == T.aircraft[c.id]
           r == IF c.runway # None THEN c.runway ELSE a.assigned
<1>1. /\ c.id \in AircraftIds /\ c.action \in Actions
      /\ c.hold \in Holds \union {None, Unknown} /\ c.runway \in Runways \union {None, Unknown}
  BY DEF Commands
<1>2. /\ U.runways = T.runways /\ U.aircraft[c.id].state = a.state
      /\ U.aircraft[c.id].assigned = a.assigned
      /\ U.aircraft[c.id].version = IF ChangesRoute(T, c) THEN a.version + 1 ELSE a.version
  BY <1>1, RouteKeeps DEF AfterRoute
<1>3. /\ n.id = c.id /\ n.target = TARGET_STATES[c.action]
      /\ n.expected = IF ChangesRoute(T, c) THEN a.version + 1 ELSE a.version
      /\ n.expected_runway = IF r \in Runways THEN T.runways[r].version ELSE None
      /\ n.hold = c.hold /\ n.runway = c.runway
  BY DEF FakeState
<1>4. AssignedTo(U.aircraft[c.id], m) = r
  BY <1>2 DEF AssignedTo
<1>5. n # None
  <2>1. a.version \in Nat \ {0} /\ T.runways \in [Runways -> RunwayRecords]
    BY <1>1 DEF Coherent, TrafficStates, Aircraft, AircraftOf
  <2>2. /\ (IF ChangesRoute(T, c) THEN a.version + 1 ELSE a.version) \in Nat \ {0}
        /\ (IF r \in Runways THEN T.runways[r].version ELSE None) \in Nat \union {None}
    BY <2>1 DEF RunwayRecords
  <2>3. TARGET_STATES[c.action] \in AircraftStates
    BY <1>1 DEF TARGET_STATES, Actions, AircraftStates
  <2>4. n \in StateEffects
    BY <1>1, <2>2, <2>3 DEF FakeState, StateEffects
  <2> QED BY <2>4, EffectsAssumption
<1> HIDE DEF n, U, a, r
<1>6. (IF r \in Runways THEN T.runways[r].version ELSE None)
         = (IF r \in Runways THEN U.runways[r].version ELSE None)
  BY <1>2
<1> QED BY <1>2, <1>3, <1>4, <1>5, <1>6 DEF n, U, a

\* The fake's accepted answer, field by field.
LEMMA FakeFields ==
    ASSUME NEW T, NEW c, Fake(T, c).accepted
    PROVE  /\ T.aircraft[c.id] # None /\ T.aircraft[c.id].version = c.expected
           /\ ChangesRoute(T, c) =>
                RouteError(T, c.id, c.route, T.aircraft[c.id].version) = NoError
           /\ MoveError(AfterRoute(T, c), c.id, FakeState(T, c)) = NoError
           /\ Fake(T, c).route = FakeRoute(T, c)
           /\ Fake(T, c).state = FakeState(T, c)
           /\ Translated(T, c, Fake(T, c)) = Moved(AfterRoute(T, c), c.id, FakeState(T, c))
           /\ Fake(T, c).version = Translated(T, c, Fake(T, c)).aircraft[c.id].version
<1> DEFINE fake == Fake(T, c)
<1>1. /\ T.aircraft[c.id] # None /\ T.aircraft[c.id].version = c.expected
      /\ ChangesRoute(T, c) =>
           RouteError(T, c.id, c.route, T.aircraft[c.id].version) = NoError
      /\ MoveError(AfterRoute(T, c), c.id, FakeState(T, c)) = NoError
      /\ fake.route = FakeRoute(T, c) /\ fake.state = FakeState(T, c)
      /\ fake.version = Moved(AfterRoute(T, c), c.id, FakeState(T, c)).aircraft[c.id].version
  BY DEF Fake, Rejection
<1>2. fake.state.id = c.id
  BY <1>1 DEF FakeState
<1>3. ChangesRoute(T, c) => fake.route.id = c.id /\ fake.route.route = c.route
  BY <1>1 DEF FakeRoute
<1> HIDE DEF fake
<1>4. Translated(T, c, fake) = Moved(AfterRoute(T, c), c.id, fake.state)
  BY <1>2, <1>3, AppliesOwn
<1> QED BY <1>1, <1>4 DEF fake

\* What the fake accepts translates.
LEMMA FakeTranslates ==
    ASSUME NEW T, Coherent(T), NEW versions, NEW c \in Commands(versions), Fake(T, c).accepted
    PROVE  TranslateError(T, c, Fake(T, c)) = NoError
<1> DEFINE fake == Fake(T, c)
<1>1. /\ T.aircraft[c.id] # None /\ T.aircraft[c.id].version = c.expected
      /\ ChangesRoute(T, c) =>
           RouteError(T, c.id, c.route, T.aircraft[c.id].version) = NoError
      /\ MoveError(AfterRoute(T, c), c.id, FakeState(T, c)) = NoError
      /\ fake.route = FakeRoute(T, c) /\ fake.state = FakeState(T, c)
      /\ fake.version = Translated(T, c, fake).aircraft[c.id].version
  BY FakeFields
<1>2. Intended(c, fake.state) /\ fake.state # None
  BY <1>1, FakeMove DEF Intended
<1>3. ChangesRoute(T, c) => /\ fake.route # None
                            /\ fake.route.id = c.id /\ fake.route.route = c.route
                            /\ fake.route.expected = T.aircraft[c.id].version
  <2> SUFFICES ASSUME ChangesRoute(T, c)
               PROVE  /\ fake.route # None
                      /\ fake.route.id = c.id /\ fake.route.route = c.route
                      /\ fake.route.expected = T.aircraft[c.id].version
    OBVIOUS
  <2>1. fake.route = [id |-> c.id, route |-> c.route, expected |-> T.aircraft[c.id].version]
    BY <1>1 DEF FakeRoute
  <2>2. c.id \in AircraftIds /\ c.route \in (Routes \ {NoRoute}) \union {Unknown}
    BY DEF Commands, ChangesRoute
  <2>3. T.aircraft[c.id].version \in Nat \ {0}
    BY <1>1, <2>2 DEF Coherent, TrafficStates, Aircraft, AircraftOf
  <2>4. fake.route \in RouteEffects
    BY <2>1, <2>2, <2>3 DEF RouteEffects
  <2> QED BY <2>1, <2>4, EffectsAssumption
<1>4. ~ChangesRoute(T, c) => fake.route = None
  BY <1>1 DEF FakeRoute
<1> HIDE DEF fake
<1>5. Structured(T, c, fake) /\ TranslateRouteError(T, c, fake) = NoError
  BY <1>1, <1>2, <1>3, <1>4 DEF Structured, TranslateRouteError
<1>6. fake.accepted
  BY DEF fake
<1>7. TranslateMoveError(T, c, fake) = NoError
  BY <1>1, <1>2, <1>3, AppliesOwn DEF TranslateMoveError, Intended
<1> QED BY <1>1, <1>2, <1>5, <1>6, <1>7 DEF TranslateError, fake

\* Every answer that translates leads where the fake's answer leads.
LEMMA AnswerIsFake ==
    ASSUME NEW T, Coherent(T), NEW versions, NEW c \in Commands(versions), NEW result
    PROVE  LeadsAsFake(T, c, result)
<1> SUFFICES ASSUME TranslateError(T, c, result) = NoError
             PROVE  /\ Fake(T, c).accepted
                    /\ Translated(T, c, result) = Translated(T, c, Fake(T, c))
  BY DEF LeadsAsFake
<1> DEFINE U == AfterRoute(T, c)
           m == result.state
           n == FakeState(T, c)
           a == T.aircraft[c.id]
<1>1. /\ a # None /\ Intended(c, m)
      /\ MoveError(U, c.id, m) = NoError
      /\ ChangesRoute(T, c) => RouteError(T, c.id, c.route, result.route.expected) = NoError
  BY TranslateGuards
<1>2. a.version = c.expected
  BY DEF TranslateError, NoError
<1>3. Coherent(U) /\ Arguments(m) /\ c.id \in AircraftIds
  BY CommandsRefer, TranslateSound DEF Referring
<1>4. /\ n.id = c.id /\ n.target = m.target /\ n.hold = m.hold /\ n.runway = m.runway
      /\ n.expected = U.aircraft[c.id].version
      /\ LET r == AssignedTo(U.aircraft[c.id], m)
         IN n.expected_runway = IF r \in Runways THEN U.runways[r].version ELSE None
      /\ m.target = TARGET_STATES[c.action]
      /\ U.aircraft[c.id].state = a.state
  BY <1>1, FakeMove DEF Intended
<1>5. MoveError(U, c.id, n) = NoError /\ Moved(U, c.id, n) = Moved(U, c.id, m)
  <2> HIDE DEF U, m, n
  <2> QED BY <1>1, <1>3, <1>4, SameMove
<1>6. TARGET_STATES[c.action] \in TRANSITIONS(a.state)
  BY <1>1, <1>4, MoveGuards DEF ChangeError, NoError
<1>7. ChangesRoute(T, c) => RouteError(T, c.id, c.route, a.version) = NoError
  <2> SUFFICES ASSUME ChangesRoute(T, c)
               PROVE  RouteError(T, c.id, c.route, a.version) = NoError
    OBVIOUS
  <2>1. result.route.expected = a.version
    BY <1>1 DEF RouteError, AssignError, NoError
  <2> QED BY <1>1, <2>1
<1>8. Fake(T, c).accepted /\ Fake(T, c).state = n
  BY <1>1, <1>2, <1>5, <1>6, <1>7 DEF Fake
<1>9. Translated(T, c, result) = Moved(U, c.id, m)
  BY TranslateApplies
<1>10. Translated(T, c, Fake(T, c)) = Moved(U, c.id, n)
  BY <1>8, FakeFields
<1> HIDE DEF U, m, n
<1> QED BY <1>5, <1>8, <1>9, <1>10

\* The effects of a simulation command are the command's: whatever a provider
\* answers, of all the answers that can be built, it is refused or its translation
\* leads where the deterministic fake's answer leads, and what the fake accepts
\* translates.
EveryAnswer ==
    unread = <<>> => \A c \in SimulationCommands : \A result \in ApplyResults :
                        LeadsAsFake(live, c, result)

THEOREM EffectsAreTheCommands == HSpec => [](ProviderDecidesNothing /\ EveryAnswer)
<1>1. ASSUME HistoryInv PROVE ProviderDecidesNothing /\ EveryAnswer
  <2>1. ASSUME NEW c \in SimulationCommands
        PROVE  /\ Fake(live, c).accepted => TranslateError(live, c, Fake(live, c)) = NoError
               /\ \A result : LeadsAsFake(live, c, result)
    <3>1. PICK versions : c \in Commands(versions)
      BY DEF SimulationCommands
    <3>2. Coherent(live)
      BY <1>1 DEF HistoryInv
    <3> QED BY <3>1, <3>2, FakeTranslates, AnswerIsFake
  <2> QED BY <2>1 DEF ProviderDecidesNothing, EveryAnswer
<1> QED BY <1>1, HistoryInvariance, PTL

-----------------------------------------------------------------------------
(* TrafficService: several threads over one unit of work.                   *)

-----------------------------------------------------------------------------
(* Induction over the naturals.                                             *)

LEMMA Least ==
    ASSUME NEW T \in SUBSET Nat, T # {}
    PROVE  \E x \in T : \A y \in T : x <= y
<1>1. PICK R : R = OpToRel(<, Nat)
  OBVIOUS
<1>2. IsWellFoundedOn(R, Nat)
  BY <1>1, NatLessThanWellFounded
<1>3. \A x, y \in Nat : y < x => <<y, x>> \in R
  BY <1>1 DEF OpToRel
<1>4. PICK x \in T : \A y \in T : ~(<<y, x>> \in R)
  BY <1>2, WFMin, Zenon
<1>5. ASSUME NEW y \in T
      PROVE  x <= y
  <2>1. x \in Nat /\ y \in Nat
    OBVIOUS
  <2>2. ~(y < x)
    BY <1>3, <1>4, <2>1
  <2> QED BY <2>1, <2>2
<1> QED BY <1>5

\* Induction over the naturals, from the least number that is not in S.
LEMMA Induction ==
    ASSUME NEW S, 0 \in S, \A n \in Nat : n \in S => n + 1 \in S
    PROVE  Nat \subseteq S
<1> SUFFICES ASSUME Nat \ S # {}
             PROVE  FALSE
  OBVIOUS
<1>1. PICK x \in Nat \ S : \A y \in Nat \ S : x <= y
  BY Least
<1>2. x # 0 /\ x - 1 \in Nat
  BY <1>1
<1>3. x - 1 \in S
  BY <1>1, <1>2
<1> QED BY <1>2, <1>3

-----------------------------------------------------------------------------
(* Sequences of whatever elements.                                          *)

Sequence(s) == s \in Seq({s[i] : i \in DOMAIN s})

LEMMA SequenceOf == ASSUME NEW S, NEW s \in Seq(S) PROVE Sequence(s)
<1>1. Len(s) \in Nat /\ s \in [1..Len(s) -> S]
  OBVIOUS
<1>2. s \in [1..Len(s) -> {s[i] : i \in DOMAIN s}]
  BY <1>1
<1> QED BY <1>1, <1>2 DEF Sequence

LEMMA SequenceFields ==
    ASSUME NEW s, Sequence(s)
    PROVE  Len(s) \in Nat /\ DOMAIN s = 1..Len(s)
BY DEF Sequence

LEMMA ConcatSequence ==
    ASSUME NEW f, NEW g, Sequence(f), Sequence(g)
    PROVE  /\ Sequence(f \o g)
           /\ Len(f \o g) = Len(f) + Len(g)
           /\ \A i \in 1..Len(f) : (f \o g)[i] = f[i]
           /\ \A i \in 1..Len(g) : (f \o g)[Len(f) + i] = g[i]
<1> DEFINE S == {f[i] : i \in DOMAIN f} \union {g[i] : i \in DOMAIN g}
<1>1. f \in Seq(S)
  BY DEF Sequence
<1>2. g \in Seq(S)
  BY DEF Sequence
<1> HIDE DEF S
<1>3. /\ f \o g \in Seq(S) /\ Len(f \o g) = Len(f) + Len(g)
      /\ \A i \in 1..Len(f) : (f \o g)[i] = f[i]
      /\ \A i \in 1..Len(g) : (f \o g)[Len(f) + i] = g[i]
  BY <1>1, <1>2
<1>4. Sequence(f \o g)
  BY <1>3, SequenceOf
<1> QED BY <1>3, <1>4

LEMMA OneSequence ==
    ASSUME NEW e
    PROVE  Sequence(<<e>>) /\ Len(<<e>>) = 1 /\ <<e>>[1] = e
<1>1. <<e>> \in Seq({e})
  OBVIOUS
<1> QED BY <1>1, SequenceOf

LEMMA EmptySequence == Sequence(<<>>) /\ Len(<<>>) = 0
<1>1. <<>> \in Seq({})
  OBVIOUS
<1> QED BY <1>1, SequenceOf

LEMMA AppendConcat ==
    ASSUME NEW f, NEW e, Sequence(f)
    PROVE  Append(f, e) = f \o <<e>>
<1> DEFINE S == {f[i] : i \in DOMAIN f} \union {e}
<1>1. f \in Seq(S) /\ e \in S
  BY DEF Sequence
<1> HIDE DEF S
<1> QED BY <1>1, AppendIsConcat

-----------------------------------------------------------------------------
(* project_traffic is a fold of OneRound.                                   *)

\* p is the table of the replay of the first n facts, starting from P.
Replays(P, facts, n, p) ==
    p = [i \in 0..n |-> IF i = 0 THEN P ELSE OneRound(p[i-1], facts[i])]

LEMMA ReplayExists ==
    ASSUME NEW P, NEW facts
    PROVE  \A n \in Nat : \E p : Replays(P, facts, n, p)
<1> DEFINE S == {n \in Nat : \E p : Replays(P, facts, n, p)}
<1>1. 0 \in S
  <2>1. Replays(P, facts, 0, [i \in 0..0 |-> P])
    BY DEF Replays
  <2> QED BY <2>1
<1>2. ASSUME NEW n \in Nat, n \in S
      PROVE  n + 1 \in S
  <2>1. PICK p : Replays(P, facts, n, p)
    BY <1>2
  <2> DEFINE q == [i \in 0..(n+1) |-> IF i <= n THEN p[i] ELSE OneRound(p[n], facts[n+1])]
  <2>2. ASSUME NEW i \in 0..(n+1)
        PROVE  q[i] = IF i = 0 THEN P ELSE OneRound(q[i-1], facts[i])
    <3>1. CASE i <= n
      BY <2>1, <3>1 DEF Replays
    <3>2. CASE i = n + 1
      <4>1. q[i] = OneRound(p[n], facts[n+1]) /\ q[i-1] = p[n]
        BY <3>2
      <4> QED BY <3>2, <4>1
    <3> QED BY <3>1, <3>2
  <2>3. Replays(P, facts, n + 1, q)
    BY <2>2 DEF Replays
  <2> QED BY <2>3
<1> HIDE DEF S
<1>3. Nat \subseteq S
  BY <1>1, <1>2, Induction
<1> QED BY <1>3 DEF S

LEMMA ReplayIsFold ==
    ASSUME NEW P, NEW facts, Len(facts) \in Nat
    PROVE  \E p : Replays(P, facts, Len(facts), p) /\ ReplayAll(P, facts) = p[Len(facts)]
<1>1. PICK p : Replays(P, facts, Len(facts), p)
  BY ReplayExists
<1> QED BY <1>1 DEF ReplayAll, Replays

LEMMA ReplayEmpty == ASSUME NEW P PROVE ReplayAll(P, <<>>) = P
<1>1. PICK p : Replays(P, <<>>, 0, p) /\ ReplayAll(P, <<>>) = p[0]
  BY ReplayIsFold
<1> QED BY <1>1 DEF Replays

LEMMA ReplayOne == ASSUME NEW P, NEW e PROVE ReplayAll(P, <<e>>) = OneRound(P, e)
<1>1. PICK p : Replays(P, <<e>>, 1, p) /\ ReplayAll(P, <<e>>) = p[1]
  BY ReplayIsFold
<1>2. p[1] = OneRound(p[0], <<e>>[1]) /\ p[0] = P
  BY <1>1 DEF Replays
<1> QED BY <1>1, <1>2

\* A batch is replayed after the history it is appended to.
LEMMA ReplayConcat ==
    ASSUME NEW P, NEW f, NEW g, Sequence(f), Sequence(g)
    PROVE  ReplayAll(P, f \o g) = ReplayAll(ReplayAll(P, f), g)
<1> DEFINE n == Len(f)
           m == Len(g)
           h == f \o g
<1>1. /\ n \in Nat /\ m \in Nat /\ Len(h) = n + m
      /\ \A i \in 1..n : h[i] = f[i]
      /\ \A i \in 1..m : h[n+i] = g[i]
  BY ConcatSequence, SequenceFields
<1> HIDE DEF h, n, m
<1>2. PICK p : Replays(P, f, n, p) /\ ReplayAll(P, f) = p[n]
  BY <1>1, ReplayIsFold DEF n
<1>3. PICK q : Replays(P, h, n + m, q) /\ ReplayAll(P, h) = q[n+m]
  <2>1. Len(h) \in Nat /\ n + m = Len(h)
    BY <1>1
  <2>2. \E q : Replays(P, h, Len(h), q) /\ ReplayAll(P, h) = q[Len(h)]
    BY <2>1, ReplayIsFold
  <2> QED BY <2>1, <2>2
<1>4. PICK r : Replays(p[n], g, m, r) /\ ReplayAll(p[n], g) = r[m]
  BY <1>1, ReplayIsFold DEF m
<1>5. q[n] = p[n]
  <2> DEFINE S == {i \in Nat : i <= n => q[i] = p[i]}
  <2>1. 0 \in S
    BY <1>1, <1>2, <1>3 DEF Replays
  <2>2. ASSUME NEW i \in Nat, i \in S
        PROVE  i + 1 \in S
    <3> SUFFICES ASSUME i + 1 <= n
                 PROVE  q[i+1] = p[i+1]
      OBVIOUS
    <3>1. q[i] = p[i] /\ h[i+1] = f[i+1]
      BY <1>1, <2>2
    <3>2. q[i+1] = OneRound(q[i], h[i+1]) /\ p[i+1] = OneRound(p[i], f[i+1])
      BY <1>1, <1>2, <1>3 DEF Replays
    <3> QED BY <3>1, <3>2
  <2> HIDE DEF S
  <2>3. Nat \subseteq S
    BY <2>1, <2>2, Induction
  <2> QED BY <1>1, <2>3 DEF S
<1>6. q[n+m] = r[m]
  <2> DEFINE S == {i \in Nat : i <= m => q[n+i] = r[i]}
  <2>1. 0 \in S
    BY <1>1, <1>4, <1>5 DEF Replays
  <2>2. ASSUME NEW i \in Nat, i \in S
        PROVE  i + 1 \in S
    <3> SUFFICES ASSUME i + 1 <= m
                 PROVE  q[n+(i+1)] = r[i+1]
      OBVIOUS
    <3>1. q[n+i] = r[i] /\ h[n+(i+1)] = g[i+1]
      BY <1>1, <2>2
    <3>2. /\ q[n+(i+1)] = OneRound(q[n+i], h[n+(i+1)])
          /\ r[i+1] = OneRound(r[i], g[i+1])
      BY <1>1, <1>3, <1>4 DEF Replays
    <3> QED BY <3>1, <3>2
  <2> HIDE DEF S
  <2>3. Nat \subseteq S
    BY <2>1, <2>2, Induction
  <2> QED BY <1>1, <2>3 DEF S
<1> QED BY <1>2, <1>3, <1>4, <1>6 DEF h

\* An event that is not traffic leaves a complete replica as it is.
LEMMA ReplayOther ==
    ASSUME NEW P, NEW f, Sequence(f), ReplayAll(P, f) # None, ReplayAll(P, f).pending = None
    PROVE  /\ Sequence(Append(f, Other)) /\ Len(Append(f, Other)) = Len(f) + 1
           /\ \A i \in 1..Len(f) : Append(f, Other)[i] = f[i]
           /\ ReplayAll(P, Append(f, Other)) = ReplayAll(P, f)
<1>1. Append(f, Other) = f \o <<Other>>
  BY AppendConcat
<1>2. Sequence(<<Other>>) /\ Len(<<Other>>) = 1
  BY OneSequence
<1>3. ReplayAll(P, f \o <<Other>>) = OneRound(ReplayAll(P, f), Other)
  BY <1>2, ReplayConcat, ReplayOne
<1>4. OneRound(ReplayAll(P, f), Other) = ReplayAll(P, f)
  BY DEF OneRound, Other
<1> QED BY <1>1, <1>2, <1>3, <1>4, ConcatSequence

-----------------------------------------------------------------------------
(* Where the facts of a command lead the replay of its history.             *)

\* The traffic of a history: none yet, or one that commands lead to.
Arrived(P) == P = NoTraffic \/ \E T : Coherent(T) /\ P = Replayed(T)

LEMMA NoTrafficReplica ==
    /\ NoTraffic \in Replicas /\ NoTraffic # None
    /\ ~NoTraffic.geometry /\ NoTraffic.pending = None
<1>1. EmptyRunways \in [Runways -> RunwayRecords]
  BY DEF EmptyRunways, RunwayRecords
<1>2. NoTraffic \in Replicas
  BY <1>1 DEF NoTraffic, Replicas
<1> QED BY <1>2, NoneIsNothing DEF NoTraffic

\* Such traffic is what a history may end in.
LEMMA ArrivedComplete ==
    ASSUME NEW P, Arrived(P)
    PROVE  P \in Replicas /\ P # None /\ Complete(P)
<1>1. CASE P = NoTraffic
  BY <1>1, NoTrafficReplica DEF Complete
<1>2. CASE \E T : Coherent(T) /\ P = Replayed(T)
  <2>1. PICK T : Coherent(T) /\ P = Replayed(T)
    BY <1>2
  <2>2. P \in Replicas /\ P.pending = None
    BY <2>1, ReplayedTraffic DEF Coherent
  <2>3. P.aircraft = T.aircraft /\ P.runways = T.runways
    BY <2>1 DEF Replayed
  <2>4. References(P) /\ Membership(P)
    BY <2>1, <2>3 DEF Coherent, References, Membership, Occupying
  <2> QED BY <2>2, <2>4, NoneIsNothing DEF Complete
<1> QED BY <1>1, <1>2 DEF Arrived

\* One round is read.
LEMMA RoundReads ==
    ASSUME NEW P \in Replicas, NEW a, Reads(P, a)
    PROVE  OneRound(P, a) = AfterFact(P, a) /\ AfterFact(P, a) \in Replicas
<1>1. P # None /\ a.kind # "other"
  BY NoneIsNothing DEF Reads, Follows
<1> QED BY <1>1 DEF OneRound, Reads

\* The replay reads the facts one after the other.
LEMMA LeadsReplay ==
    ASSUME NEW P \in Replicas, NEW facts, NEW T, LeadsTo(P, facts, T)
    PROVE  ReplayAll(P, facts) = Replayed(T)
<1>1. ASSUME NEW a, NEW Q, ReplayAll(P, Q) \in Replicas, Sequence(Q),
             Reads(ReplayAll(P, Q), a)
      PROVE  /\ ReplayAll(P, Q \o <<a>>) = AfterFact(ReplayAll(P, Q), a)
             /\ Sequence(Q \o <<a>>)
  <2>1. Sequence(<<a>>)
    BY OneSequence
  <2>2. ReplayAll(P, Q \o <<a>>) = OneRound(ReplayAll(P, Q), a)
    BY <1>1, <2>1, ReplayConcat, ReplayOne
  <2> QED BY <1>1, <2>1, <2>2, RoundReads, ConcatSequence
<1>2. Sequence(<<>>) /\ ReplayAll(P, <<>>) = P
  BY EmptySequence, ReplayEmpty
<1>3. ASSUME NEW a, Reads(P, a)
      PROVE  ReplayAll(P, <<a>>) = AfterFact(P, a) /\ Sequence(<<a>>) /\ AfterFact(P, a) \in Replicas
  BY <1>3, ReplayOne, RoundReads, OneSequence
<1>4. ASSUME NEW a, NEW b, Reads(P, a), Reads(AfterFact(P, a), b)
      PROVE  /\ ReplayAll(P, <<a, b>>) = AfterFact(AfterFact(P, a), b)
             /\ Sequence(<<a, b>>) /\ AfterFact(AfterFact(P, a), b) \in Replicas
  <2>1. <<a>> \o <<b>> = <<a, b>>
    BY ConcatOne
  <2>2. AfterFact(AfterFact(P, a), b) \in Replicas
    BY <1>4 DEF Reads
  <2> QED BY <1>1, <1>3, <1>4, <2>1, <2>2
<1>5. ASSUME NEW a, NEW b, NEW c, Reads(P, a), Reads(AfterFact(P, a), b),
             Reads(AfterFact(AfterFact(P, a), b), c)
      PROVE  ReplayAll(P, <<a, b, c>>) = AfterFact(AfterFact(AfterFact(P, a), b), c)
  <2>1. <<a, b>> \o <<c>> = <<a, b, c>>
    BY TwoConcat
  <2>2. PICK Q : Q = <<a, b>>
    OBVIOUS
  <2>3. PICK R : R = AfterFact(AfterFact(P, a), b)
    OBVIOUS
  <2>4. ReplayAll(P, Q) = R /\ Sequence(Q) /\ R \in Replicas
    BY <1>4, <1>5, <2>2, <2>3
  <2>5. Reads(ReplayAll(P, Q), c)
    BY <1>5, <2>3, <2>4
  <2>6. ReplayAll(P, Q \o <<c>>) = AfterFact(ReplayAll(P, Q), c)
    BY <1>1, <2>4, <2>5
  <2> QED BY <2>1, <2>2, <2>3, <2>4, <2>6
<1> QED BY <1>2, <1>3, <1>4, <1>5 DEF LeadsTo

\* The spawn facts of a scenario lead from nothing to its initial traffic.
LEMMA SpawnReplays ==
    /\ Coherent(initial_traffic(Mapped))
    /\ ReplayAll(NoTraffic, SpawnFacts) = Replayed(initial_traffic(Mapped))
<1> DEFINE N == Len(Entities)
           Named(n, id) == \E i \in 1..n : Entities[i].id = id
           Prefix(n) == [geometry |-> n > 0,
                         aircraft |-> [id \in AircraftIds |->
                                          IF Named(n, id) THEN Mapped[id] ELSE None],
                         runways |-> EmptyRunways, pending |-> None]
<1>1. /\ N \in Nat /\ N >= 1 /\ DOMAIN Entities = 1..N
      /\ \A i \in 1..N : Entities[i] \in [id : AircraftIds, aircraft : InitialAircraft]
  <2>1. PICK R : R = [id : AircraftIds, aircraft : InitialAircraft]
    OBVIOUS
  <2>2. Entities \in Seq(R) /\ Entities # <<>>
    BY <2>1, ServiceAssumption
  <2>3. N \in Nat /\ N >= 1 /\ Entities \in [1..N -> R]
    BY <2>2
  <2> QED BY <2>1, <2>3
<1>2. \A i \in 1..N : /\ Entities[i].id \in AircraftIds
                      /\ Entities[i].aircraft \in InitialAircraft
                      /\ Entities[i].aircraft.version = 1 /\ Entities[i].aircraft.occupied = None
  BY <1>1 DEF InitialAircraft
<1>3. \A i \in 1..N : Mapped[Entities[i].id] = Entities[i].aircraft
  <2> SUFFICES ASSUME NEW i \in 1..N
               PROVE  Mapped[Entities[i].id] = Entities[i].aircraft
    OBVIOUS
  <2>1. PICK j \in DOMAIN Entities :
          /\ j = CHOOSE k \in DOMAIN Entities : Entities[k].id = Entities[i].id
          /\ Entities[j].id = Entities[i].id
    BY <1>1
  <2>2. j = i
    BY <1>1, <2>1, ScenarioAssumption
  <2> QED BY <1>1, <1>2, <2>1, <2>2 DEF Mapped
<1>4. Mapped \in [AircraftIds -> InitialAircraft \union {None}]
  <2> SUFFICES ASSUME NEW id \in AircraftIds
               PROVE  Mapped[id] \in InitialAircraft \union {None}
    BY DEF Mapped
  <2>1. CASE \E i \in DOMAIN Entities : Entities[i].id = id
    <3>1. PICK i \in 1..N : Entities[i].id = id
      BY <1>1, <2>1
    <3> QED BY <1>2, <1>3, <3>1
  <2>2. CASE ~\E i \in DOMAIN Entities : Entities[i].id = id
    BY <2>2 DEF Mapped
  <2> QED BY <2>1, <2>2
<1>5. /\ Coherent(initial_traffic(Mapped))
      /\ initial_traffic(Mapped) = [aircraft |-> Mapped, runways |-> EmptyRunways]
  BY <1>4, InitCoherent, ScenarioAssumption
<1>6. Prefix(0) = NoTraffic
  <2>1. \A id : ~Named(0, id)
    OBVIOUS
  <2>2. PICK A : A = [id \in AircraftIds |-> IF Named(0, id) THEN Mapped[id] ELSE None]
    OBVIOUS
  <2>3. A = [id \in AircraftIds |-> None]
    <3>1. \A id \in AircraftIds : (IF Named(0, id) THEN Mapped[id] ELSE None) = None
      BY <2>1
    <3> HIDE DEF Named
    <3> QED BY <2>2, <3>1
  <2>4. (0 > 0) = FALSE
    OBVIOUS
  <2>5. Prefix(0) = [geometry |-> FALSE, aircraft |-> A, runways |-> EmptyRunways,
                     pending |-> None]
    BY <2>2, <2>4
  <2> QED BY <2>3, <2>5 DEF NoTraffic
<1>7. Prefix(N) = Replayed(initial_traffic(Mapped))
  <2>1. \A id \in AircraftIds : ~Named(N, id) => Mapped[id] = None
    BY <1>1 DEF Mapped
  <2>2. [id \in AircraftIds |-> IF Named(N, id) THEN Mapped[id] ELSE None] = Mapped
    BY <1>4, <2>1
  <2>3. PICK A : A = [id \in AircraftIds |-> IF Named(N, id) THEN Mapped[id] ELSE None]
    OBVIOUS
  <2>4. (N > 0) = TRUE
    <3> HIDE DEF N
    <3> QED BY <1>1
  <2>5. Prefix(N) = [geometry |-> TRUE, aircraft |-> A, runways |-> EmptyRunways,
                     pending |-> None]
    BY <2>3, <2>4
  <2>6. A = Mapped
    BY <2>2, <2>3
  <2> QED BY <1>5, <2>5, <2>6 DEF Replayed
<1>8. ASSUME NEW n \in Nat, n + 1 <= N
      PROVE  OneRound(Prefix(n), SpawnFacts[n + 1]) = Prefix(n + 1)
  <2>1. PICK x : x = Entities[n + 1]
    OBVIOUS
  <2>2. n + 1 \in 1..N
    BY <1>8
  <2>3. /\ x.id \in AircraftIds /\ x.aircraft = Mapped[x.id]
        /\ x.aircraft.version = 1 /\ x.aircraft.occupied = None
    BY <1>2, <1>3, <2>1, <2>2
  <2>4. PICK f : f = SpawnFacts[n + 1]
    OBVIOUS
  <2>5. f = SpawnFact(x.id, x.aircraft, n + 1 = 1)
    BY <1>1, <2>1, <2>2, <2>4 DEF SpawnFacts
  <2>6. /\ f.kind = "spawn" /\ f.id = x.id /\ f.aircraft = x.aircraft
        /\ f.aerodrome = (n + 1 = 1)
    BY <2>5 DEF SpawnFact
  <2>7. ~Named(n, x.id)
    <3>1. ASSUME NEW i \in 1..n, Entities[i].id = x.id
          PROVE  FALSE
      <4>1. i \in 1..N /\ i # n + 1
        BY <1>1, <1>8
      <4> QED BY <1>1, <2>1, <2>2, <3>1, <4>1, ScenarioAssumption
    <3> QED BY <3>1
  <2>8. PICK P : P = Prefix(n)
    OBVIOUS
  <2>9. /\ P.geometry = (n > 0) /\ P.pending = None /\ P.runways = EmptyRunways
        /\ P.aircraft = [id \in AircraftIds |-> IF Named(n, id) THEN Mapped[id] ELSE None]
    BY <2>8
  <2>10. P \in Replicas
    <3>1. \A a \in InitialAircraft : a \in Aircraft
      BY DEF InitialAircraft, InitialStates, Aircraft, AircraftOf, AircraftStates
    <3>2. [id \in AircraftIds |-> IF Named(n, id) THEN Mapped[id] ELSE None]
             \in [AircraftIds -> Aircraft \union {None}]
      BY <1>4, <3>1
    <3>3. EmptyRunways \in [Runways -> RunwayRecords]
      BY DEF EmptyRunways, RunwayRecords
    <3>4. (n > 0) \in BOOLEAN
      OBVIOUS
    <3> HIDE DEF Named
    <3> QED BY <2>8, <3>2, <3>3, <3>4 DEF Replicas
  <2>11. Follows(P, f)
    <3>1. P.aircraft[f.id] = None
      BY <2>3, <2>6, <2>7, <2>9
    <3>2. f.aerodrome # P.geometry
      BY <2>6, <2>9
    <3> QED BY <2>3, <2>6, <2>9, <3>1, <3>2 DEF Follows
  <2>12. OneRound(P, f) = AfterFact(P, f)
    BY <2>6, <2>10, <2>11, NoneIsNothing DEF OneRound
  <2>13. AfterFact(P, f) = [P EXCEPT !.geometry = TRUE, !.aircraft[x.id] = x.aircraft]
    BY <2>6 DEF AfterFact
  <2> DEFINE A == [P.aircraft EXCEPT ![x.id] = x.aircraft]
  <2>14. A = [id \in AircraftIds |-> IF Named(n + 1, id) THEN Mapped[id] ELSE None]
    <3>1. \A id : Named(n + 1, id) <=> (Named(n, id) \/ id = x.id)
      <4>1. 1..(n + 1) = 1..n \union {n + 1}
        BY <1>8
      <4> QED BY <2>1, <4>1
    <3> HIDE DEF Named
    <3> QED BY <2>3, <2>9, <3>1
  <2>15. AfterFact(P, f) = [geometry |-> TRUE, aircraft |-> A, runways |-> EmptyRunways,
                            pending |-> None]
    BY <2>8, <2>13
  <2>16. n + 1 > 0
    BY <1>8
  <2> HIDE DEF Named, A
  <2> QED BY <2>4, <2>8, <2>12, <2>14, <2>15, <2>16
<1>9. Len(SpawnFacts) = N
  BY <1>1 DEF SpawnFacts
<1> HIDE DEF Prefix, N
<1>10. PICK p : Replays(NoTraffic, SpawnFacts, N, p) /\ ReplayAll(NoTraffic, SpawnFacts) = p[N]
  BY <1>1, <1>9, ReplayIsFold
<1> DEFINE S == {n \in Nat : n <= N => p[n] = Prefix(n)}
<1>11. 0 \in S
  BY <1>1, <1>6, <1>10 DEF Replays
<1>12. ASSUME NEW n \in Nat, n \in S
       PROVE  n + 1 \in S
  <2> SUFFICES ASSUME n + 1 <= N
               PROVE  p[n + 1] = Prefix(n + 1)
    OBVIOUS
  <2>1. p[n + 1] = OneRound(p[n], SpawnFacts[n + 1])
    BY <1>1, <1>10 DEF Replays
  <2>2. p[n] = Prefix(n)
    BY <1>1, <1>12
  <2> QED BY <1>8, <2>1, <2>2
<1> HIDE DEF S
<1>13. Nat \subseteq S
  BY <1>11, <1>12, Induction
<1>14. p[N] = Prefix(N)
  BY <1>1, <1>13 DEF S
<1> QED BY <1>5, <1>7, <1>10, <1>14

-----------------------------------------------------------------------------
(* The inductive invariant.                                                 *)

Fields == {"task", "settled", "answer", "notified", "step", "observed", "traffic",
           "seen", "at", "error", "facts"}
Undecided == {"asking", "read", "built"}
Decided == {"committed", "done"}

\* What a builder returns: facts, and at least one.
Batch(facts) == /\ Sequence(facts) /\ Len(facts) >= 1
                /\ \A i \in 1..Len(facts) : facts[i].kind # "other"

\* "invalid" is no code that a builder raises.
LEMMA BuildersRaiseCodes ==
    /\ \A T, id, m : MoveError(T, id, m) # "invalid"
    /\ \A T, c, result : TranslateError(T, c, result) # "invalid"
<1>1. \A before, m : ChangeError(before, m) # "invalid"
  BY DEF ChangeError, NoError
<1>2. \A T, id, m : MoveError(T, id, m) # "invalid"
  BY <1>1 DEF MoveError, NoError
<1>3. \A T, id, route, expected : RouteError(T, id, route, expected) # "invalid"
  BY DEF RouteError, AssignError, NoError
<1>4. \A T, c, result : TranslateRouteError(T, c, result) # "invalid"
  BY <1>3 DEF TranslateRouteError, NoError
<1>5. \A T, c, result : TranslateError(T, c, result) # "invalid"
  BY <1>2, <1>4 DEF TranslateError, TranslateMoveError, NoError
<1> QED BY <1>2, <1>5

\* The builder's error and facts are those of the committed traffic, for apply()
\* with some answer of the provider.
Computed(j, P) ==
    IF j.task.op = "apply"
    THEN \E result \in {None, Fake(Known(P), j.task.call)} :
           /\ j.error = AppliedError(j.task.call, P, session.sim, result)
           /\ j.facts = IF j.error # NoError THEN <<>>
                        ELSE TranslatedFacts(Known(P), j.task.call, result)
    ELSE /\ j.error = EffectsError(j.task, P)
         /\ j.facts = EffectsFacts(j.task, P)

\* What an undecided call holds is current as long as the history has the length
\* that it read.
Current(j) ==
    j.observed = Len(log) =>
      /\ j.step = "asking" => j.traffic = project_traffic(log)
      /\ j.step \in {"read", "built"} => Computed(j, project_traffic(log))
      /\ j.step = "built" => j.seen.state = session.state /\ j.seen.sim = session.sim

\* The retry record of a task is its own.
HasRow(task) == /\ task.key \in Keys /\ answers[task.key] # None
                /\ answers[task.key].input = task.input

UndecidedJob(j) ==
    j.step \in Undecided =>
      /\ j.task \in Tasks /\ j.answer = None /\ j.notified = FALSE
      /\ j.observed \in 0..Len(log)
      /\ j.step = "asking" => j.task.op = "apply"
      /\ j.step = "built" => j.at \in 0..MaxTime
      /\ j.error # "invalid"
      /\ j.settled => Settled(j.task)
      /\ j.step \in {"read", "built"} /\ j.error = NoError => Batch(j.facts)
      /\ Current(j)
DecidedJob(j) ==
    j.step \in Decided =>
      /\ j.settled => j.answer \in {"result", "unavailable"}
      /\ j.notified \in BOOLEAN
      /\ j.step = "committed" => j.answer = "result" /\ j.notified = FALSE
      /\ j.step = "committed" \/ j.notified => HasRow(j.task)

JobOK(j) == /\ DOMAIN j = Fields /\ j.step \in Undecided \union Decided
            /\ UndecidedJob(j) /\ DecidedJob(j)
JobsOK == /\ DOMAIN jobs = Threads
          /\ \A t \in Threads : jobs[t] # None => JobOK(jobs[t])

\* Every durable history replays, to what commands lead to.
LogOK == Sequence(log) /\ Arrived(project_traffic(log))
TimesOK == session.sim \in 0..MaxTime /\ session.updated \in 0..MaxTime

\* A retry record names a range of traffic facts.
RowOK(row) == /\ row \in Rows
              /\ 1 <= row.first /\ row.first <= row.last /\ row.last <= Len(log)
              /\ \A n \in row.first..row.last : log[n].kind # "other"
RowsOK == /\ DOMAIN answers = Keys
          /\ \A k \in Keys : answers[k] # None => RowOK(answers[k])

IInv == LogOK /\ TimesOK /\ RowsOK /\ JobsOK

-----------------------------------------------------------------------------
(* What a builder returns is a batch.                                       *)

LEMMA OneBatch ==
    ASSUME NEW f, f.kind # "other"
    PROVE  Batch(<<f>>)
BY OneSequence DEF Batch

LEMMA ConcatBatch ==
    ASSUME NEW f, NEW g, Batch(f), Batch(g)
    PROVE  Batch(f \o g)
<1>1. /\ Sequence(f \o g) /\ Len(f \o g) = Len(f) + Len(g)
      /\ \A i \in 1..Len(f) : (f \o g)[i] = f[i]
      /\ \A i \in 1..Len(g) : (f \o g)[Len(f) + i] = g[i]
  BY ConcatSequence DEF Batch
<1>2. Len(f) \in Nat /\ Len(g) \in Nat
  BY SequenceFields DEF Batch
<1>3. ASSUME NEW i \in 1..Len(f \o g)
      PROVE  (f \o g)[i].kind # "other"
  <2>1. CASE i <= Len(f)
    <3>1. i \in 1..Len(f)
      BY <1>1, <1>2, <2>1
    <3> QED BY <1>1, <3>1 DEF Batch
  <2>2. CASE i > Len(f)
    <3> DEFINE n == i - Len(f)
    <3>1. n \in 1..Len(g) /\ Len(f) + n = i
      BY <1>1, <1>2, <2>2
    <3> HIDE DEF n
    <3>2. (f \o g)[i] = g[n]
      BY <1>1, <3>1
    <3> QED BY <3>1, <3>2 DEF Batch
  <2> QED BY <1>1, <1>2, <2>1, <2>2
<1>4. Len(f \o g) >= 1
  BY <1>1, <1>2 DEF Batch
<1> QED BY <1>1, <1>3, <1>4 DEF Batch

LEMMA ConcatEmpty ==
    ASSUME NEW f, Sequence(f)
    PROVE  f \o <<>> = f /\ <<>> \o f = f
BY DEF Sequence

LEMMA FactsBatch == ASSUME NEW T, NEW id, NEW m PROVE Batch(Facts(T, id, m))
<1> DEFINE before == T.aircraft[id]
           after == Changed(before, m)
           e == StateFact(id, before, after)
           f == OccupancyFact(id, Concerned(before, after),
                              T.runways[Concerned(before, after)], after.occupied # None)
<1>1. e.kind # "other" /\ f.kind # "other"
  BY DEF StateFact, OccupancyFact
<1>2. Facts(T, id, m) = <<e>> \o IF EntersOrLeaves(before, after) THEN <<f>> ELSE <<>>
  BY DEF Facts
<1> HIDE DEF e, f, before, after
<1>3. Batch(<<e>>) /\ Batch(<<f>>) /\ <<e>> \o <<>> = <<e>>
  BY <1>1, OneBatch, ConcatEmpty DEF Batch
<1> QED BY <1>2, <1>3, ConcatBatch

LEMMA TranslatedBatch ==
    ASSUME NEW T, NEW c, NEW result
    PROVE  Batch(TranslatedFacts(T, c, result))
<1> DEFINE e == RouteFact(result.route.id, T.aircraft[result.route.id], result.route.route)
           facts == Facts(Routed(T, c, result.route), result.state.id, result.state)
<1>1. e.kind # "other"
  BY DEF RouteFact
<1>2. TranslatedFacts(T, c, result) = (IF ChangesRoute(T, c) THEN <<e>> ELSE <<>>) \o facts
  BY DEF TranslatedFacts
<1>3. Batch(facts)
  BY FactsBatch
<1> HIDE DEF e, facts
<1>4. Batch(<<e>>) /\ <<>> \o facts = facts
  BY <1>1, <1>3, OneBatch, ConcatEmpty DEF Batch
<1> QED BY <1>2, <1>3, <1>4, ConcatBatch

LEMMA SpawnBatch == Batch(SpawnFacts)
<1>1. /\ Len(Entities) \in Nat /\ Len(Entities) >= 1 /\ DOMAIN Entities = 1..Len(Entities)
  BY ServiceAssumption
<1> DEFINE n == Len(Entities)
           S == {SpawnFact(Entities[i].id, Entities[i].aircraft, i = 1) : i \in 1..n}
<1>2. SpawnFacts \in [1..n -> S]
  BY <1>1 DEF SpawnFacts
<1>3. \A f \in S : f.kind # "other"
  BY DEF SpawnFact
<1> HIDE DEF n, S
<1>4. SpawnFacts \in Seq(S) /\ Len(SpawnFacts) = n
  BY <1>1, <1>2 DEF n
<1>5. \A i \in 1..n : SpawnFacts[i] \in S
  BY <1>2
<1> QED BY <1>1, <1>3, <1>4, <1>5, SequenceOf DEF Batch, n

LEMMA EffectsBatch ==
    ASSUME NEW task, NEW P, EffectsError(task, P) = NoError
    PROVE  Batch(EffectsFacts(task, P))
BY SpawnBatch, FactsBatch DEF EffectsFacts

-----------------------------------------------------------------------------
(* The durable state and one job at a time.                                 *)

THEOREM InitInvariant == Init => IInv
<1> SUFFICES ASSUME Init PROVE IInv
  OBVIOUS
<1>1. LogOK
  <2>1. project_traffic(log) = NoTraffic
    BY ReplayEmpty DEF Init, project_traffic
  <2> QED BY <2>1, EmptySequence DEF LogOK, Init, Arrived
<1>2. TimesOK
  BY ServiceAssumption DEF Init, TimesOK
<1>3. RowsOK /\ JobsOK
  BY DEF Init, RowsOK, JobsOK
<1> QED BY <1>1, <1>2, <1>3 DEF IInv

\* Nothing durable changes: what was right of a job still is.
LEMMA JobKept ==
    ASSUME UNCHANGED durable, NEW j, JobOK(j)
    PROVE  JobOK(j)'
BY DEF durable, JobOK, UndecidedJob, DecidedJob, Current, Computed, Settled, HasRow

LEMMA DurableKept ==
    ASSUME IInv, UNCHANGED durable
    PROVE  LogOK' /\ TimesOK' /\ RowsOK'
BY DEF durable, IInv, LogOK, TimesOK, RowsOK, RowOK

\* The history grows: whatever a job holds is no longer current, and the retry
\* records there were are kept.
LEMMA JobOutdated ==
    ASSUME Len(log) \in Nat, Len(log') \in Nat, Len(log) < Len(log'),
           \A task \in Tasks : Settled(task) => Settled(task)',
           \A task : HasRow(task) => HasRow(task)',
           NEW j, JobOK(j)
    PROVE  JobOK(j)'
<1>1. j.step \in Undecided => j.observed \in 0..Len(log)
  BY DEF JobOK, UndecidedJob
<1>2. j.step \in Undecided => j.observed \in 0..Len(log') /\ j.observed # Len(log')
  BY <1>1
<1>3. UndecidedJob(j)'
  BY <1>2 DEF JobOK, UndecidedJob, Current
<1>4. DecidedJob(j)'
  BY DEF JobOK, DecidedJob
<1> QED BY <1>3, <1>4 DEF JobOK

\* One thread's job is replaced.
LEMMA GoesKeeps ==
    ASSUME JobsOK, NEW t \in Threads, NEW job, Goes(t, job), job # None => JobOK(job)',
           \A j : JobOK(j) => JobOK(j)'
    PROVE  JobsOK'
<1>1. /\ DOMAIN jobs' = Threads
      /\ \A u \in Threads : jobs'[u] = IF u = t THEN job ELSE jobs[u]
  BY DEF Goes, JobsOK
<1>2. \A u \in Threads : jobs'[u] # None => JobOK(jobs[u])'
  BY <1>1 DEF JobsOK
<1> QED BY <1>1, <1>2 DEF JobsOK

-----------------------------------------------------------------------------
(* A call reads, asks and loads.                                            *)

LEMMA CallKeeps ==
    ASSUME IInv, NEW t \in Threads, NEW task \in Tasks, Call(t, task)
    PROVE  IInv'
<1> DEFINE P == project_traffic(log)
<1>1. UNCHANGED durable
  BY DEF Call
<1>2. PICK job : job =
        [task |-> task, settled |-> Settled(task), answer |-> None, notified |-> FALSE,
         step |-> IF task.op = "apply" THEN "asking" ELSE "read", observed |-> Len(log),
         traffic |-> IF task.op = "apply" THEN P ELSE None, seen |-> None, at |-> 0,
         error |-> IF task.op = "apply" THEN NoError ELSE EffectsError(task, P),
         facts |-> IF task.op = "apply" THEN <<>> ELSE EffectsFacts(task, P)]
  OBVIOUS
<1>3. Goes(t, job)
  BY <1>2 DEF Call
<1>4. Len(log) \in Nat
  BY SequenceFields DEF IInv, LogOK
<1>5. /\ DOMAIN job = Fields
      /\ job.step = IF task.op = "apply" THEN "asking" ELSE "read"
      /\ job.task = task /\ job.answer = None /\ job.notified = FALSE
      /\ job.observed = Len(log) /\ job.settled = Settled(task)
      /\ task.op = "apply" => job.traffic = P
      /\ task.op # "apply" => job.error = EffectsError(task, P) /\ job.facts = EffectsFacts(task, P)
  BY <1>2 DEF Fields
<1>6. Current(job)
  BY <1>5 DEF Current, Computed
<1>7. job.error # "invalid"
  BY <1>2, BuildersRaiseCodes DEF EffectsError, NoError
<1>8. UndecidedJob(job)
  BY <1>4, <1>5, <1>6, <1>7, EffectsBatch DEF UndecidedJob
<1>9. JobOK(job)
  BY <1>5, <1>8 DEF JobOK, DecidedJob, Undecided, Decided
<1>10. JobsOK'
  BY <1>1, <1>3, <1>9, JobKept, GoesKeeps DEF IInv
<1> QED BY <1>1, <1>10, DurableKept DEF IInv

LEMMA AskKeeps ==
    ASSUME IInv, NEW t \in Threads, At(t, "asking"),
           NEW result \in ProviderAnswers(t), Ask(t, result)
    PROVE  IInv'
<1> DEFINE P == project_traffic(log)
<1>1. UNCHANGED durable
  BY DEF Ask
<1>2. PICK j : j = jobs[t]
  OBVIOUS
<1>3. JobOK(j) /\ j.step = "asking"
  BY <1>2 DEF IInv, JobsOK, At
<1> DEFINE error == AppliedError(j.task.call, j.traffic, session.sim, result)
           facts == IF error # NoError THEN <<>>
                    ELSE TranslatedFacts(Known(j.traffic), j.task.call, result)
<1>4. PICK job : job = [j EXCEPT !.step = "read", !.traffic = None, !.error = error,
                                 !.facts = facts]
  OBVIOUS
<1>5. Goes(t, job)
  BY <1>2, <1>4 DEF Ask
<1>6. result \in {None, Fake(Known(j.traffic), j.task.call)}
  BY <1>2 DEF ProviderAnswers
<1>7. /\ DOMAIN job = Fields /\ job.step = "read"
      /\ job.task = j.task /\ job.answer = j.answer /\ job.notified = j.notified
      /\ job.observed = j.observed /\ job.settled = j.settled
      /\ job.error = error /\ job.facts = facts
  BY <1>3, <1>4 DEF JobOK, Fields
<1>8. UndecidedJob(j) /\ "asking" \in Undecided
  BY <1>3 DEF JobOK, Undecided
<1>9. (error = NoError => Batch(facts)) /\ error # "invalid"
  BY TranslatedBatch, BuildersRaiseCodes DEF AppliedError, NoError
<1>10. Current(job)
  <2> SUFFICES ASSUME j.observed = Len(log)
               PROVE  Computed(job, P)
    BY <1>7 DEF Current
  <2>1. j.traffic = P /\ j.task.op = "apply"
    BY <1>3, <1>8 DEF UndecidedJob, Current
  <2> QED BY <1>6, <1>7, <2>1 DEF Computed
<1> HIDE DEF error, facts
<1>11. UndecidedJob(job)
  BY <1>3, <1>7, <1>8, <1>9, <1>10 DEF UndecidedJob
<1>12. JobOK(job)
  BY <1>7, <1>11 DEF JobOK, DecidedJob, Undecided, Decided
<1>13. JobsOK'
  BY <1>1, <1>5, <1>12, JobKept, GoesKeeps DEF IInv
<1> QED BY <1>1, <1>13, DurableKept DEF IInv

LEMMA LoadKeeps ==
    ASSUME IInv, NEW t \in Threads, NEW now \in 0..MaxTime, Load(t, now)
    PROVE  IInv'
<1>1. UNCHANGED durable
  BY DEF Load
<1>2. PICK j : j = jobs[t]
  OBVIOUS
<1>3. JobOK(j) /\ j.step = "read"
  BY <1>2 DEF IInv, JobsOK, At, Load
<1>4. PICK job : job = [j EXCEPT !.step = "built", !.at = now,
                                 !.seen = [state |-> session.state, sim |-> session.sim]]
  OBVIOUS
<1>5. Goes(t, job)
  BY <1>2, <1>4 DEF Load
<1>6. /\ DOMAIN job = Fields /\ job.step = "built"
      /\ job.task = j.task /\ job.answer = j.answer /\ job.notified = j.notified
      /\ job.observed = j.observed /\ job.settled = j.settled
      /\ job.error = j.error /\ job.facts = j.facts
      /\ job.seen.state = session.state /\ job.seen.sim = session.sim
      /\ job.at \in 0..MaxTime
  BY <1>3, <1>4 DEF JobOK, Fields
<1>7. UndecidedJob(j) /\ "read" \in Undecided
  BY <1>3 DEF JobOK, Undecided
<1>8. Current(job)
  BY <1>3, <1>6, <1>7 DEF Current, Computed, UndecidedJob
<1>9. UndecidedJob(job)
  BY <1>3, <1>6, <1>7, <1>8 DEF UndecidedJob
<1>10. JobOK(job)
  BY <1>6, <1>9 DEF JobOK, DecidedJob, Undecided, Decided
<1>11. JobsOK'
  BY <1>1, <1>5, <1>10, JobKept, GoesKeeps DEF IInv
<1> QED BY <1>1, <1>11, DurableKept DEF IInv

-----------------------------------------------------------------------------
(* commit().                                                                *)

LEMMA TaskKeys == \A task \in Tasks : task.key \in Keys
BY ServiceAssumption

LEMMA BuiltJob ==
    ASSUME IInv, NEW t \in Threads, At(t, "built")
    PROVE  LET j == jobs[t]
           IN /\ DOMAIN j = Fields /\ j.step = "built"
              /\ j.task \in Tasks /\ j.task.key \in Keys
              /\ j.task.input \in Nat /\ j.task.expected \in Nat
              /\ j.answer = None /\ j.notified = FALSE
              /\ j.settled => Settled(j.task)
              /\ j.error = NoError => Batch(j.facts)
              /\ j.at \in 0..MaxTime /\ j.error # "invalid"
              /\ Current(j)
<1>1. JobOK(jobs[t]) /\ jobs[t].step = "built" /\ "built" \in Undecided
  BY DEF IInv, JobsOK, At, Undecided
<1>2. jobs[t].task \in Tasks
  BY <1>1 DEF JobOK, UndecidedJob
<1>3. jobs[t].task \in [op : {"initialise", "transition", "apply"}, key : Keys, expected : Nat,
                        input : Nat, call : {u.call : u \in Tasks}]
  BY <1>2, ServiceAssumption
<1> QED BY <1>1, <1>3 DEF JobOK, UndecidedJob

\* A builder that does not refuse the history was computed from it.
LEMMA BuilderIsCurrent ==
    ASSUME IInv, NEW t \in Threads, At(t, "built"),
           BuildError(t) # "TRAFFIC_CONFLICT"
    PROVE  /\ BuildError(t) = jobs[t].error
           /\ session.state = Required(jobs[t].task.op)
           /\ Computed(jobs[t], project_traffic(log))
<1>1. Current(jobs[t]) /\ jobs[t].step = "built"
  BY BuiltJob
<1>2. /\ jobs[t].observed = Len(log) /\ jobs[t].seen.state = Required(jobs[t].task.op)
      /\ BuildError(t) = jobs[t].error
  BY DEF BuildError
<1> QED BY <1>1, <1>2 DEF Current

LEMMA ComputedError ==
    ASSUME NEW t \in Threads, session.state = Required(jobs[t].task.op),
           Computed(jobs[t], project_traffic(log)),
           jobs[t].error \in {NoError, "INVALID", "CONFLICT"}
    PROVE  /\ CurrentError(t) = jobs[t].error
           /\ jobs[t].error = NoError => jobs[t].facts = CurrentFacts(t)
<1> DEFINE P == project_traffic(log)
           call == jobs[t].task.call
<1>1. CASE jobs[t].task.op = "apply"
  <2>1. PICK result \in {None, Fake(Known(P), call)} :
          /\ jobs[t].error = AppliedError(call, P, session.sim, result)
          /\ jobs[t].facts = IF jobs[t].error # NoError THEN <<>>
                             ELSE TranslatedFacts(Known(P), call, result)
    BY <1>1 DEF Computed
  <2>2. result # None
    BY <2>1 DEF AppliedError, NoError
  <2>3. result = Fake(Known(P), call)
    BY <2>1, <2>2
  <2> QED BY <1>1, <2>1, <2>3 DEF CurrentError, CurrentFacts
<1>2. CASE jobs[t].task.op # "apply"
  BY <1>2 DEF Computed, CurrentError, CurrentFacts
<1> QED BY <1>1, <1>2

LEMMA WriteIsCurrent ==
    ASSUME IInv, NEW t \in Threads, At(t, "built"), BuildError(t) = NoError
    PROVE  CurrentError(t) = NoError /\ jobs[t].facts = CurrentFacts(t)
<1>1. BuildError(t) # "TRAFFIC_CONFLICT"
  BY DEF NoError
<1> QED BY <1>1, BuilderIsCurrent, ComputedError

\* The facts that are about to be written lead the committed traffic on.
LEMMA FactsArrive ==
    ASSUME IInv, NEW t \in Threads, At(t, "built"), BuildError(t) = NoError
    PROVE  Arrived(ReplayAll(project_traffic(log), jobs[t].facts))
<1>1. PICK P : P = project_traffic(log)
  OBVIOUS
<1>2. PICK task : task = jobs[t].task
  OBVIOUS
<1>3. PICK facts : facts = jobs[t].facts
  OBVIOUS
<1>4. /\ CurrentError(t) = NoError /\ facts = CurrentFacts(t)
      /\ task \in Tasks /\ Arrived(P)
  BY <1>1, <1>2, <1>3, WriteIsCurrent, BuiltJob DEF IInv, LogOK
<1>5. ASSUME P.geometry
      PROVE  \E T : Coherent(T) /\ P = Replayed(T) /\ Known(P) = T /\ P \in Replicas
  BY <1>4, <1>5, NoTrafficReplica, ReplayedTraffic DEF Arrived, Coherent
<1>6. CASE task.op = "apply"
  <2>1. PICK call : call = task.call
    OBVIOUS
  <2>2. PICK result : result = Fake(Known(P), call)
    OBVIOUS
  <2>3. AppliedError(call, P, session.sim, result) = NoError
    BY <1>1, <1>2, <1>4, <1>6, <2>1, <2>2 DEF CurrentError, NoError
  <2>4. P.geometry /\ TranslateError(Known(P), call, result) = NoError
    BY <2>3 DEF AppliedError, NoError
  <2>5. facts = TranslatedFacts(Known(P), call, result)
    BY <1>1, <1>2, <1>4, <1>6, <2>1, <2>2 DEF CurrentFacts
  <2>6. PICK T : Coherent(T) /\ P = Replayed(T) /\ Known(P) = T /\ P \in Replicas
    BY <1>5, <2>4
  <2>7. Referring(call)
    BY <1>4, <1>6, <2>1, CallsAssumption DEF Referring
  <2>8. /\ LeadsTo(P, facts, Translated(T, call, result))
        /\ Coherent(Translated(T, call, result))
    BY <2>4, <2>5, <2>6, <2>7, TranslationLeads, TranslateSound
  <2>9. ReplayAll(P, facts) = Replayed(Translated(T, call, result))
    BY <2>6, <2>8, LeadsReplay
  <2> QED BY <1>1, <1>3, <2>8, <2>9 DEF Arrived
<1>7. CASE task.op = "transition"
  <2>1. PICK call : call = task.call
    OBVIOUS
  <2>2. EffectsError(task, P) = NoError /\ facts = EffectsFacts(task, P)
    BY <1>1, <1>2, <1>4, <1>7 DEF CurrentError, CurrentFacts, NoError
  <2>3. P.geometry /\ MoveError(Known(P), call.id, call) = NoError
    BY <1>7, <2>1, <2>2 DEF EffectsError, NoError
  <2>4. facts = Facts(Known(P), call.id, call)
    BY <1>7, <2>1, <2>2 DEF EffectsFacts
  <2>5. PICK T : Coherent(T) /\ P = Replayed(T) /\ Known(P) = T /\ P \in Replicas
    BY <1>5, <2>3
  <2>6. call.id \in AircraftIds /\ Arguments(call)
    BY <1>4, <1>7, <2>1, CallsAssumption DEF Arguments
  <2>7. /\ LeadsTo(P, facts, Moved(T, call.id, call))
        /\ Coherent(Moved(T, call.id, call))
    BY <2>3, <2>4, <2>5, <2>6, MoveLeads, MoveSound
  <2>8. ReplayAll(P, facts) = Replayed(Moved(T, call.id, call))
    BY <2>5, <2>7, LeadsReplay
  <2> QED BY <1>1, <1>3, <2>7, <2>8 DEF Arrived
<1>8. CASE task.op = "initialise"
  <2>1. EffectsError(task, P) = NoError /\ facts = EffectsFacts(task, P)
    BY <1>1, <1>2, <1>4, <1>8 DEF CurrentError, CurrentFacts, NoError
  <2>2. ~P.geometry /\ facts = SpawnFacts
    BY <1>8, <2>1 DEF EffectsError, EffectsFacts, NoError
  <2>3. P = NoTraffic
    BY <1>4, <2>2, ReplayedTraffic DEF Arrived, Coherent
  <2> QED BY <1>1, <1>3, <2>2, <2>3, SpawnReplays DEF Arrived
<1>9. task.op \in {"initialise", "transition", "apply"}
  BY <1>4, ServiceAssumption
<1> QED BY <1>6, <1>7, <1>8, <1>9

\* The three ways in which commit() decides.
Repeats(t) ==
    /\ Answer(t, "result", Succeeded(t)) /\ UNCHANGED durable
    /\ HasRow(jobs[t].task) /\ Settled(jobs[t].task)
Refuses(t, kind) ==
    /\ Answer(t, kind, "done") /\ UNCHANGED durable
    /\ ~Settled(jobs[t].task)
    /\ kind \in {"INVALID", "CONFLICT"} => BuildError(t) = kind
    /\ kind = "invalid" => BuildError(t) = NoError /\ ~Projects(t)
Writes(t) ==
    /\ answers[jobs[t].task.key] = None /\ BuildError(t) = NoError /\ Projects(t)
    /\ WriteFacts(t)

LEMMA Decision ==
    ASSUME IInv, NEW t \in Threads, At(t, "built"), Decide(t)
    PROVE  \/ Repeats(t)
           \/ \E kind : Refuses(t, kind)
           \/ Answer(t, "result", Succeeded(t)) /\ Writes(t)
<1> DEFINE task == jobs[t].task
           row == answers[task.key]
<1>1. task.key \in Keys
  BY BuiltJob
<1>2. CASE row # None
  <2>1. row \in Rows
    BY <1>1, <1>2 DEF IInv, RowsOK, RowOK
  <2>2. row = Row(t, row.first, row.last) <=>
           row.input = task.input /\ row.expected = task.expected
    BY <2>1 DEF Row, Rows
  <2>3. CASE row = Row(t, row.first, row.last)
    <3>1. Answer(t, "result", Succeeded(t)) /\ UNCHANGED durable
      BY <1>2, <2>3 DEF Decide
    <3> QED BY <1>1, <1>2, <2>2, <2>3, <3>1 DEF Repeats, HasRow, Settled
  <2>4. CASE row # Row(t, row.first, row.last)
    <3>1. Answer(t, "conflict", "done") /\ UNCHANGED durable
      BY <1>2, <2>4 DEF Decide
    <3>2. ~Settled(task)
      BY <2>2, <2>4 DEF Settled
    <3>3. Refuses(t, "conflict")
      BY <3>1, <3>2 DEF Refuses
    <3> QED BY <3>3
  <2> QED BY <2>3, <2>4
<1>3. CASE row = None /\ session.version # task.expected
  <2>1. Answer(t, "conflict", "done") /\ UNCHANGED durable
    BY <1>3 DEF Decide
  <2>2. Refuses(t, "conflict")
    BY <1>3, <2>1 DEF Refuses, Settled
  <2> QED BY <2>2
<1>4. CASE row = None /\ session.version = task.expected /\ BuildError(t) # NoError
  <2>1. Answer(t, BuildError(t), "done") /\ UNCHANGED durable
    BY <1>4 DEF Decide
  <2>2. BuildError(t) # "invalid"
    BY BuiltJob DEF BuildError
  <2>3. Refuses(t, BuildError(t))
    BY <1>4, <2>1, <2>2 DEF Refuses, Settled
  <2> QED BY <2>3
<1>5. CASE row = None /\ session.version = task.expected /\ BuildError(t) = NoError /\ ~Projects(t)
  <2>1. Answer(t, "invalid", "done") /\ UNCHANGED durable
    BY <1>5 DEF Decide
  <2>2. Refuses(t, "invalid")
    BY <1>5, <2>1 DEF Refuses, Settled
  <2> QED BY <2>2
<1>6. CASE row = None /\ session.version = task.expected /\ BuildError(t) = NoError /\ Projects(t)
  <2>1. Answer(t, "result", Succeeded(t)) /\ WriteFacts(t)
    BY <1>6 DEF Decide
  <2> QED BY <1>6, <2>1 DEF Writes
<1> QED BY <1>2, <1>3, <1>4, <1>5, <1>6

\* A call that is decided keeps only how it ended.
LEMMA AnswerKeeps ==
    ASSUME IInv, NEW t \in Threads, NEW j, j = jobs[t], At(t, "built"),
           NEW kind, NEW step \in Decided, Answer(t, kind, step),
           j.settled => kind \in {"result", "unavailable"},
           step = "committed" => kind = "result" /\ HasRow(j.task)',
           \A i : JobOK(i) => JobOK(i)'
    PROVE  JobsOK'
<1>1. DOMAIN j = Fields /\ j.notified = FALSE
  BY BuiltJob
<1>2. PICK job : job = [j EXCEPT !.step = step, !.answer = kind,
                                 !.task = IF step = "committed" THEN @ ELSE None,
                                 !.observed = 0, !.seen = None, !.at = 0,
                                 !.error = NoError, !.facts = <<>>]
  OBVIOUS
<1>3. Goes(t, job)
  BY <1>2 DEF Answer
<1>4. /\ DOMAIN job = Fields /\ job.step = step /\ job.answer = kind
      /\ job.settled = j.settled /\ job.notified = FALSE
      /\ step = "committed" => job.task = j.task
  BY <1>1, <1>2 DEF Fields
<1>5. job.step \notin Undecided
  BY <1>4 DEF Decided, Undecided
<1>6. JobOK(job)'
  BY <1>4, <1>5 DEF JobOK, UndecidedJob, DecidedJob
<1> QED BY <1>3, <1>6, GoesKeeps DEF IInv

LEMMA WritesKeeps ==
    ASSUME IInv, NEW t \in Threads, NEW j, j = jobs[t], At(t, "built"), Writes(t)
    PROVE  /\ LogOK' /\ TimesOK' /\ RowsOK'
           /\ \A i : JobOK(i) => JobOK(i)'
           /\ ~Settled(j.task) /\ HasRow(j.task)'
<1>0. PICK row : row = Row(t, Len(log) + 1, Len(log) + Len(j.facts))
  OBVIOUS
<1>1. /\ j.task.key \in Keys /\ j.task.input \in Nat /\ j.task.expected \in Nat
      /\ j.error = NoError => Batch(j.facts)
  BY BuiltJob
<1>2. Batch(j.facts)
  BY <1>1 DEF Writes, BuildError, NoError
<1>3. Sequence(log) /\ Len(log) \in Nat /\ Len(j.facts) \in Nat /\ Len(j.facts) >= 1
  BY <1>2, SequenceFields DEF IInv, LogOK, Batch
<1>4. log' = log \o j.facts /\ session' = session /\ answers' = [answers EXCEPT ![j.task.key] = row]
  BY <1>0 DEF Writes, WriteFacts
<1>5. /\ Sequence(log') /\ Len(log') = Len(log) + Len(j.facts)
      /\ \A i \in 1..Len(log) : log'[i] = log[i]
      /\ \A i \in 1..Len(j.facts) : log'[Len(log) + i] = j.facts[i]
  BY <1>2, <1>3, <1>4, ConcatSequence DEF Batch
<1>6. project_traffic(log') = ReplayAll(project_traffic(log), j.facts)
  BY <1>2, <1>3, <1>4, ReplayConcat DEF project_traffic, Batch
<1>7. LogOK'
  BY <1>5, <1>6, FactsArrive DEF LogOK, Writes
<1>8. TimesOK'
  BY <1>4 DEF IInv, TimesOK
<1>9. row = [input |-> j.task.input, expected |-> j.task.expected,
             first |-> Len(log) + 1, last |-> Len(log) + Len(j.facts)]
  BY <1>0 DEF Row
<1>10. row \in Rows
  BY <1>1, <1>3, <1>9 DEF Rows
<1>11. row # None
  BY <1>10, NoneIsNothing
<1>12. /\ row.first = Len(log) + 1 /\ row.last = Len(log) + Len(j.facts)
       /\ row.input = j.task.input
  BY <1>9
<1>13. ASSUME NEW n \in row.first..row.last
       PROVE  log'[n].kind # "other"
  <2> DEFINE m == n - Len(log)
  <2>1. m \in 1..Len(j.facts) /\ Len(log) + m = n
    BY <1>3, <1>12
  <2> HIDE DEF m
  <2>2. log'[n] = j.facts[m]
    BY <1>5, <2>1
  <2> QED BY <1>2, <2>1, <2>2 DEF Batch
<1>14. ASSUME NEW r, RowOK(r)
       PROVE  RowOK(r)'
  <2>1. r.first \in Nat /\ r.last \in Nat /\ r.last <= Len(log')
    BY <1>3, <1>5, <1>14 DEF RowOK, Rows
  <2>2. \A n \in r.first..r.last : log'[n] = log[n]
    BY <1>3, <1>5, <1>14, <2>1 DEF RowOK
  <2> QED BY <1>14, <2>1, <2>2 DEF RowOK
<1>15. RowOK(row)'
  BY <1>3, <1>5, <1>10, <1>12, <1>13 DEF RowOK
<1>16. /\ DOMAIN answers' = Keys
       /\ \A k \in Keys : answers'[k] = IF k = j.task.key THEN row ELSE answers[k]
  BY <1>4 DEF IInv, RowsOK
<1>17. RowsOK'
  BY <1>14, <1>15, <1>16 DEF IInv, RowsOK
<1>18. answers[j.task.key] = None
  BY DEF Writes
<1>19. \A k \in Keys : answers[k] # None => answers'[k] = answers[k]
  BY <1>16, <1>18
<1>20. /\ \A task \in Tasks : Settled(task) => Settled(task)'
       /\ \A task : HasRow(task) => HasRow(task)'
  BY <1>19, TaskKeys DEF Settled, HasRow
<1>21. \A i : JobOK(i) => JobOK(i)'
  BY <1>3, <1>5, <1>20, JobOutdated
<1>22. ~Settled(j.task) /\ HasRow(j.task)'
  BY <1>1, <1>11, <1>12, <1>16, <1>18 DEF Settled, HasRow
<1> QED BY <1>7, <1>8, <1>17, <1>21, <1>22

LEMMA CommitKeeps ==
    ASSUME IInv, NEW t \in Threads, Commit(t)
    PROVE  IInv'
<1>1. PICK j : j = jobs[t]
  OBVIOUS
<1>2. At(t, "built") /\ Decide(t)
  BY DEF Commit
<1>3. PICK step : step = Succeeded(t)
  OBVIOUS
<1>4. step \in Decided /\ "done" \in Decided /\ "done" # "committed"
  BY <1>3 DEF Succeeded, Decided
<1>5. j.settled => Settled(j.task)
  BY <1>1, <1>2, BuiltJob
<1>6. CASE Repeats(t)
  <2>1. Answer(t, "result", step) /\ UNCHANGED durable /\ HasRow(j.task)
    BY <1>1, <1>3, <1>6 DEF Repeats
  <2>2. HasRow(j.task)'
    BY <2>1 DEF HasRow, durable
  <2>3. JobsOK'
    BY <1>1, <1>2, <1>4, <2>1, <2>2, AnswerKeeps, JobKept
  <2> QED BY <2>1, <2>3, DurableKept DEF IInv
<1>7. ASSUME NEW kind, Refuses(t, kind)
      PROVE  IInv'
  <2>1. Answer(t, kind, "done") /\ UNCHANGED durable /\ ~j.settled
    BY <1>1, <1>5, <1>7 DEF Refuses
  <2>2. JobsOK'
    BY <1>1, <1>2, <1>4, <2>1, AnswerKeeps, JobKept
  <2> QED BY <2>1, <2>2, DurableKept DEF IInv
<1>8. CASE Answer(t, "result", Succeeded(t)) /\ Writes(t)
  <2>1. Answer(t, "result", step)
    BY <1>3, <1>8
  <2>2. /\ LogOK' /\ TimesOK' /\ RowsOK'
        /\ \A i : JobOK(i) => JobOK(i)'
        /\ HasRow(j.task)'
    BY <1>1, <1>2, <1>8, WritesKeeps
  <2>3. JobsOK'
    BY <1>1, <1>2, <1>4, <2>1, <2>2, AnswerKeeps
  <2> QED BY <2>2, <2>3 DEF IInv
<1> QED BY <1>2, <1>6, <1>7, <1>8, Decision

LEMMA CommitFailsKeeps ==
    ASSUME IInv, NEW t \in Threads, CommitFails(t)
    PROVE  IInv'
<1>1. PICK j : j = jobs[t]
  OBVIOUS
<1>2. At(t, "built") /\ Answer(t, "unavailable", "done")
  BY DEF CommitFails
<1>3. "done" \in Decided /\ "done" # "committed"
  BY DEF Decided
<1>4. CASE UNCHANGED durable
  <2>1. JobsOK'
    BY <1>1, <1>2, <1>3, <1>4, AnswerKeeps, JobKept
  <2> QED BY <1>4, <2>1, DurableKept DEF IInv
<1>5. CASE Writes(t)
  <2>1. /\ LogOK' /\ TimesOK' /\ RowsOK'
        /\ \A i : JobOK(i) => JobOK(i)'
    BY <1>1, <1>2, <1>5, WritesKeeps
  <2>2. JobsOK'
    BY <1>1, <1>2, <1>3, <2>1, AnswerKeeps
  <2> QED BY <2>1, <2>2 DEF IInv
<1> QED BY <1>4, <1>5 DEF CommitFails, Writes

LEMMA NotifyKeeps ==
    ASSUME IInv, NEW t \in Threads, Notify(t)
    PROVE  IInv'
<1>1. UNCHANGED durable
  BY DEF Notify
<1>2. PICK j : j = jobs[t]
  OBVIOUS
<1>3. JobOK(j) /\ j.step = "committed"
  BY <1>2 DEF IInv, JobsOK, At, Notify
<1>4. PICK job : job = [j EXCEPT !.step = "done", !.notified = TRUE]
  OBVIOUS
<1>5. Goes(t, job)
  BY <1>2, <1>4 DEF Notify
<1>6. /\ DOMAIN job = Fields /\ job.step = "done" /\ job.notified = TRUE
      /\ job.task = j.task /\ job.answer = j.answer /\ job.settled = j.settled
  BY <1>3, <1>4 DEF JobOK, Fields
<1>7. JobOK(job)
  BY <1>3, <1>6 DEF JobOK, UndecidedJob, DecidedJob, Undecided, Decided
<1>8. JobsOK'
  BY <1>1, <1>5, <1>7, JobKept, GoesKeeps DEF IInv
<1> QED BY <1>1, <1>8, DurableKept DEF IInv

LEMMA ReturnKeeps ==
    ASSUME IInv, NEW t \in Threads, Return(t)
    PROVE  IInv'
<1>1. UNCHANGED durable /\ Goes(t, None)
  BY DEF Return, Goes
<1>2. JobsOK'
  BY <1>1, JobKept, GoesKeeps DEF IInv
<1> QED BY <1>1, <1>2, DurableKept DEF IInv

LEMMA RestartKeeps == ASSUME IInv, Restart PROVE IInv'
<1>1. UNCHANGED durable
  BY DEF Restart
<1>2. JobsOK'
  BY DEF Restart, JobsOK
<1> QED BY <1>1, <1>2, DurableKept DEF IInv

\* An event that is not traffic is appended: a lifecycle command, a health fact.
LEMMA OtherKeeps ==
    ASSUME IInv, log' = Append(log, Other), TimesOK', UNCHANGED <<answers, jobs>>
    PROVE  IInv'
<1>1. Sequence(log) /\ Len(log) \in Nat
  BY SequenceFields DEF IInv, LogOK
<1>2. /\ Sequence(log') /\ Len(log') = Len(log) + 1
      /\ \A i \in 1..Len(log) : log'[i] = log[i]
      /\ project_traffic(log') = project_traffic(log)
  BY <1>1, ReplayOther, ArrivedComplete DEF IInv, LogOK, Complete, project_traffic
<1>3. LogOK'
  BY <1>2 DEF IInv, LogOK
<1>4. ASSUME NEW r, RowOK(r)
      PROVE  RowOK(r)'
  <2>1. r.first \in Nat /\ r.last \in Nat /\ r.last <= Len(log')
    BY <1>1, <1>2, <1>4 DEF RowOK, Rows
  <2>2. \A n \in r.first..r.last : log'[n] = log[n]
    BY <1>1, <1>2, <1>4, <2>1 DEF RowOK
  <2> QED BY <1>4, <2>1, <2>2 DEF RowOK
<1>5. RowsOK'
  BY <1>4 DEF IInv, RowsOK
<1>6. /\ \A task \in Tasks : Settled(task) => Settled(task)'
      /\ \A task : HasRow(task) => HasRow(task)'
  BY DEF Settled, HasRow
<1>7. \A i : JobOK(i) => JobOK(i)'
  BY <1>1, <1>2, <1>6, JobOutdated
<1>8. JobsOK'
  BY <1>7 DEF IInv, JobsOK
<1> QED BY <1>3, <1>5, <1>8 DEF IInv

LEMMA SessionCommandKeeps == ASSUME IInv, SessionCommand PROVE IInv'
<1>1. PICK state \in Lifecycle(session.state), now \in session.updated..MaxTime,
           sim \in IF session.state = "RUNNING" THEN session.sim..MaxTime ELSE {session.sim} :
        session' = [state |-> state, version |-> session.version + 1, sim |-> sim,
                    updated |-> now]
  BY DEF SessionCommand
<1>2. session'.sim = sim /\ session'.updated = now
  BY <1>1
<1>3. sim \in 0..MaxTime /\ now \in 0..MaxTime
  BY ServiceAssumption DEF IInv, TimesOK
<1>4. TimesOK'
  BY <1>2, <1>3 DEF TimesOK
<1> QED BY <1>4, OtherKeeps DEF SessionCommand

LEMMA OtherFactKeeps == ASSUME IInv, OtherFact PROVE IInv'
<1>1. TimesOK'
  BY DEF OtherFact, IInv, TimesOK
<1> QED BY <1>1, OtherKeeps DEF OtherFact

LEMMA StutterKeeps == ASSUME IInv, UNCHANGED vars PROVE IInv'
<1>1. UNCHANGED durable /\ UNCHANGED jobs
  BY DEF vars, durable
<1>2. JobsOK'
  BY <1>1, JobKept DEF IInv, JobsOK
<1> QED BY <1>1, <1>2, DurableKept DEF IInv

-----------------------------------------------------------------------------
(* The theorems.                                                            *)

\* Everything in IInv holds throughout, of every task set, scenario and bound.
THEOREM Invariance == Spec => []IInv
<1>1. IInv /\ [Next]_vars => IInv'
  BY CallKeeps, AskKeeps, LoadKeeps, CommitKeeps, CommitFailsKeeps, NotifyKeeps, ReturnKeeps,
     SessionCommandKeeps, OtherFactKeeps, RestartKeeps, StutterKeeps DEF Next
<1> QED BY <1>1, InitInvariant, PTL DEF Spec

\* Every durable history replays to a complete replica, and every retry record
\* names a range of traffic facts in it (TypeOK).
THEOREM TypeCorrect == Spec => []TypeOK
<1>1. IInv => TypeOK
  BY ArrivedComplete DEF IInv, LogOK, TimesOK, RowsOK, RowOK, JobsOK, JobOK, TypeOK,
     Undecided, Decided
<1> QED BY <1>1, Invariance, PTL

\* The retry of a command that took effect is answered with its result or with a
\* storage failure, whatever the provider, the traffic and the session say now
\* (simulation.py:126).
THEOREM RetriesAreHonoured == Spec => []RetryHonoured
<1>1. IInv => RetryHonoured
  BY DEF IInv, JobsOK, JobOK, DecidedJob, Decided, RetryHonoured, At
<1> QED BY <1>1, Invariance, PTL

\* The hook is only told of effects whose retry record is durable.
THEOREM HookIsTold == Spec => []NotifiedIsDurable
<1>1. IInv => NotifiedIsDurable
  <2> SUFFICES ASSUME IInv, NEW t \in Threads, jobs[t] # None, jobs[t].notified
               PROVE  HasRow(jobs[t].task)
    BY DEF NotifiedIsDurable, HasRow
  <2> QED BY DEF IInv, JobsOK, JobOK, UndecidedJob, DecidedJob
<1> QED BY <1>1, Invariance, PTL

-----------------------------------------------------------------------------
(* What a step may never do.                                                *)

LEMMA RefusalOfCurrent ==
    ASSUME IInv, NEW t \in Threads, At(t, "built"), BuildError(t) \in {"INVALID", "CONFLICT"}
    PROVE  CurrentError(t) # NoError
<1>1. BuildError(t) # "TRAFFIC_CONFLICT" /\ BuildError(t) # NoError
  BY DEF NoError
<1> QED BY <1>1, BuilderIsCurrent, ComputedError

\* A step of another thread, of the session or of the process.
LEMMA OthersAreCurrent ==
    ASSUME NEW t \in Threads, jobs'[t] = jobs[t] \/ jobs'[t] = None
    PROVE  /\ jobs'[t] = jobs[t] => EffectIsCurrent(t)
           /\ RefusalIsCurrent(t)
BY NoneIsNothing DEF EffectIsCurrent, RefusalIsCurrent

\* A step of t before its call is decided, or after it.
LEMMA OwnStepIsCurrent ==
    ASSUME IInv, NEW t \in Threads, UNCHANGED durable, NEW job, Goes(t, job),
           \/ job = None \/ jobs[t] = None
           \/ job.answer = jobs[t].answer
    PROVE  EffectIsCurrent(t) /\ RefusalIsCurrent(t)
<1>1. jobs'[t] = job
  BY DEF Goes, IInv, JobsOK
<1> QED BY <1>1, NoneIsNothing DEF durable, EffectIsCurrent, RefusalIsCurrent

LEMMA CommitIsCurrent ==
    ASSUME IInv, NEW t \in Threads, Commit(t)
    PROVE  EffectIsCurrent(t) /\ RefusalIsCurrent(t)
<1>1. At(t, "built") /\ Decide(t) /\ DOMAIN jobs[t] = Fields /\ DOMAIN jobs = Threads
  BY BuiltJob DEF Commit, IInv, JobsOK
<1>2. ASSUME NEW kind, NEW step, Answer(t, kind, step)
      PROVE  jobs'[t].answer = kind
  BY <1>1, <1>2 DEF Answer, Goes, Fields
<1>3. CASE Repeats(t)
  BY <1>2, <1>3 DEF Repeats, durable, EffectIsCurrent, RefusalIsCurrent
<1>4. ASSUME NEW kind, Refuses(t, kind)
      PROVE  EffectIsCurrent(t) /\ RefusalIsCurrent(t)
  <2>1. jobs'[t].answer = kind /\ UNCHANGED durable
    BY <1>2, <1>4 DEF Refuses
  <2>2. CASE kind \in {"INVALID", "CONFLICT"}
    BY <1>1, <1>4, <2>1, <2>2, RefusalOfCurrent
    DEF Refuses, durable, EffectIsCurrent, RefusalIsCurrent
  <2>3. CASE kind \notin {"INVALID", "CONFLICT"}
    BY <2>1, <2>3 DEF durable, EffectIsCurrent, RefusalIsCurrent
  <2> QED BY <2>2, <2>3
<1>5. CASE Answer(t, "result", Succeeded(t)) /\ Writes(t)
  BY <1>1, <1>2, <1>5, WriteIsCurrent DEF Writes, EffectIsCurrent, RefusalIsCurrent
<1> QED BY <1>1, <1>3, <1>4, <1>5, Decision

LEMMA CommitFailsIsCurrent ==
    ASSUME IInv, NEW t \in Threads, CommitFails(t)
    PROVE  EffectIsCurrent(t) /\ RefusalIsCurrent(t)
<1>1. /\ At(t, "built") /\ Answer(t, "unavailable", "done")
      /\ DOMAIN jobs[t] = Fields /\ DOMAIN jobs = Threads
  BY BuiltJob DEF CommitFails, IInv, JobsOK
<1>2. jobs'[t].answer = "unavailable"
  BY <1>1 DEF Answer, Goes, Fields
<1>3. UNCHANGED durable \/ BuildError(t) = NoError
  BY DEF CommitFails
<1> QED BY <1>1, <1>2, <1>3, WriteIsCurrent DEF durable, EffectIsCurrent, RefusalIsCurrent

LEMMA StepIsCurrent ==
    ASSUME IInv, Next, NEW t \in Threads
    PROVE  EffectIsCurrent(t) /\ RefusalIsCurrent(t)
<1>1. ASSUME NEW u \in Threads, NEW job, Goes(u, job), u # t
      PROVE  EffectIsCurrent(t) /\ RefusalIsCurrent(t)
  <2>1. jobs'[t] = jobs[t]
    BY <1>1 DEF Goes, IInv, JobsOK
  <2> QED BY <2>1, OthersAreCurrent
<1>2. ASSUME NEW u \in Threads, NEW task \in Tasks, Call(u, task)
      PROVE  EffectIsCurrent(t) /\ RefusalIsCurrent(t)
  <2>1. \E job : Goes(u, job)
    BY <1>2 DEF Call
  <2>2. u = t => UNCHANGED durable /\ jobs[t] = None
    BY <1>2 DEF Call
  <2> QED BY <1>1, <2>1, <2>2, OwnStepIsCurrent
<1>3. ASSUME NEW u \in Threads, NEW result, At(u, "asking"), Ask(u, result)
      PROVE  EffectIsCurrent(t) /\ RefusalIsCurrent(t)
  <2>1. \E job : Goes(u, job) /\ (job.answer = jobs[u].answer) /\ UNCHANGED durable
    BY <1>3 DEF Ask, IInv, JobsOK, JobOK, Fields, At
  <2> QED BY <1>1, <2>1, OwnStepIsCurrent
<1>4. ASSUME NEW u \in Threads, NEW now, Load(u, now)
      PROVE  EffectIsCurrent(t) /\ RefusalIsCurrent(t)
  <2>1. \E job : Goes(u, job) /\ (job.answer = jobs[u].answer) /\ UNCHANGED durable
    BY <1>4 DEF Load, IInv, JobsOK, JobOK, Fields, At
  <2> QED BY <1>1, <2>1, OwnStepIsCurrent
<1>5. ASSUME NEW u \in Threads, Commit(u)
      PROVE  EffectIsCurrent(t) /\ RefusalIsCurrent(t)
  <2>1. \E job : Goes(u, job)
    BY <1>5, Decision DEF Commit, Repeats, Refuses, Answer
  <2> QED BY <1>1, <1>5, <2>1, CommitIsCurrent
<1>6. ASSUME NEW u \in Threads, CommitFails(u)
      PROVE  EffectIsCurrent(t) /\ RefusalIsCurrent(t)
  <2>1. \E job : Goes(u, job)
    BY <1>6 DEF CommitFails, Answer
  <2> QED BY <1>1, <1>6, <2>1, CommitFailsIsCurrent
<1>7. ASSUME NEW u \in Threads, Notify(u)
      PROVE  EffectIsCurrent(t) /\ RefusalIsCurrent(t)
  <2>1. \E job : Goes(u, job) /\ (job.answer = jobs[u].answer) /\ UNCHANGED durable
    BY <1>7 DEF Notify, IInv, JobsOK, JobOK, Fields, At
  <2> QED BY <1>1, <2>1, OwnStepIsCurrent
<1>8. ASSUME NEW u \in Threads, Return(u)
      PROVE  EffectIsCurrent(t) /\ RefusalIsCurrent(t)
  <2>1. Goes(u, None) /\ UNCHANGED durable
    BY <1>8 DEF Return, Goes
  <2> QED BY <1>1, <2>1, OwnStepIsCurrent
<1>9. CASE SessionCommand \/ OtherFact
  <2>1. jobs'[t] = jobs[t]
    BY <1>9 DEF SessionCommand, OtherFact
  <2> QED BY <2>1, OthersAreCurrent
<1>10. CASE Restart
  <2>1. jobs'[t] = None /\ UNCHANGED durable
    BY <1>10 DEF Restart
  <2> QED BY <2>1, OthersAreCurrent DEF durable, EffectIsCurrent
<1> QED BY <1>2, <1>3, <1>4, <1>5, <1>6, <1>7, <1>8, <1>9, <1>10 DEF Next

\* What a call read before the write lock is what is there when it takes effect:
\* a command takes effect, or is refused for the session or the traffic, as the
\* committed session and traffic call for (traffic.py:79).
THEOREM DecisionsAreCurrent == Spec => EffectsAreCurrent
<1>1. IInv /\ [Next]_vars => [\A t \in Threads : EffectIsCurrent(t) /\ RefusalIsCurrent(t)]_vars
  BY StepIsCurrent
<1> QED BY <1>1, Invariance, PTL DEF Spec, EffectsAreCurrent

\* The event contract and the replay refuse a builder's facts only when the clock
\* was set back behind the session.
LEMMA OnlyTheClockRefuses ==
    ASSUME IInv, NEW t \in Threads, At(t, "built"), BuildError(t) = NoError, ~Projects(t)
    PROVE  jobs[t].at < session.updated
<1>1. BuildError(t) # "TRAFFIC_CONFLICT"
  BY DEF NoError
<1>2. session.state = Required(jobs[t].task.op)
  BY <1>1, BuilderIsCurrent
<1>3. jobs[t].observed = Len(log) /\ Current(jobs[t]) /\ jobs[t].step = "built"
      /\ jobs[t].at \in 0..MaxTime
  BY <1>1, BuiltJob DEF BuildError
<1>4. jobs[t].seen.sim = session.sim
  BY <1>3 DEF Current
<1>5. PICK P : P = ReplayAll(project_traffic(log), jobs[t].facts)
  OBVIOUS
<1>6. P # None /\ Complete(P)
  BY <1>5, FactsArrive, ArrivedComplete
<1>7. ~(jobs[t].at >= session.updated)
  BY <1>2, <1>4, <1>5, <1>6 DEF Projects
<1>8. session.updated \in 0..MaxTime /\ MaxTime \in Nat
  BY ServiceAssumption DEF IInv, TimesOK
<1> QED BY <1>3, <1>7, <1>8

\* A refusal without a code, by which only the clock may refuse.
Uncoded(t) == jobs'[t] # jobs[t] /\ jobs'[t] # None /\ jobs'[t].answer = "invalid"
                  => jobs[t].at < session.updated

LEMMA CommitIsCoded ==
    ASSUME IInv, NEW t \in Threads, Commit(t)
    PROVE  Uncoded(t)
<1>1. At(t, "built") /\ Decide(t) /\ DOMAIN jobs[t] = Fields /\ DOMAIN jobs = Threads
  BY BuiltJob DEF Commit, IInv, JobsOK
<1>2. ASSUME NEW kind, NEW step, Answer(t, kind, step)
      PROVE  jobs'[t].answer = kind
  BY <1>1, <1>2 DEF Answer, Goes, Fields
<1>3. ASSUME NEW kind, Refuses(t, kind)
      PROVE  Uncoded(t)
  <2>1. jobs'[t].answer = kind
    BY <1>2, <1>3 DEF Refuses
  <2>2. kind = "invalid" => jobs[t].at < session.updated
    BY <1>1, <1>3, OnlyTheClockRefuses DEF Refuses
  <2> QED BY <2>1, <2>2 DEF Uncoded
<1>4. CASE Answer(t, "result", Succeeded(t))
  BY <1>2, <1>4 DEF Uncoded
<1> QED BY <1>1, <1>3, <1>4, Decision DEF Repeats

\* Every other step of a call leaves its answer open, or answers for the storage.
LEMMA StepIsCoded ==
    ASSUME IInv, Next, NEW t \in Threads
    PROVE  Uncoded(t)
<1>1. ASSUME NEW u \in Threads, NEW job, Goes(u, job), u = t => job = None \/ job.answer # "invalid"
      PROVE  Uncoded(t)
  <2>1. jobs'[t] = IF t = u THEN job ELSE jobs[t]
    BY <1>1 DEF Goes, IInv, JobsOK
  <2> QED BY <1>1, <2>1 DEF Uncoded
<1>2. ASSUME NEW u \in Threads, NEW task \in Tasks, Call(u, task)
      PROVE  Uncoded(t)
  <2>1. \E job : Goes(u, job) /\ (job.answer = None)
    BY <1>2 DEF Call
  <2> QED BY <1>1, <2>1, NoneIsNothing
<1>3. ASSUME NEW u \in Threads, NEW result, At(u, "asking"), Ask(u, result)
      PROVE  Uncoded(t)
  <2>1. DOMAIN jobs[u] = Fields /\ jobs[u].answer = None
    BY <1>3 DEF IInv, JobsOK, JobOK, UndecidedJob, Undecided, At
  <2>2. PICK error, facts, job :
          /\ job = [jobs[u] EXCEPT !.step = "read", !.traffic = None, !.error = error,
                                   !.facts = facts]
          /\ Goes(u, job)
    BY <1>3 DEF Ask
  <2>3. job.answer = None
    BY <2>1, <2>2 DEF Fields
  <2> QED BY <1>1, <2>2, <2>3, NoneIsNothing
<1>4. ASSUME NEW u \in Threads, NEW now, Load(u, now)
      PROVE  Uncoded(t)
  <2>1. DOMAIN jobs[u] = Fields /\ jobs[u].answer = None
    BY <1>4 DEF Load, IInv, JobsOK, JobOK, UndecidedJob, Undecided, At
  <2>2. PICK seen, job : /\ job = [jobs[u] EXCEPT !.step = "built", !.at = now, !.seen = seen]
                         /\ Goes(u, job)
    BY <1>4 DEF Load
  <2>3. job.answer = None
    BY <2>1, <2>2 DEF Fields
  <2> QED BY <1>1, <2>2, <2>3, NoneIsNothing
<1>5. ASSUME NEW u \in Threads, Commit(u)
      PROVE  Uncoded(t)
  <2>1. \E job : Goes(u, job)
    BY <1>5, Decision DEF Commit, Repeats, Refuses, Answer
  <2> QED BY <1>1, <1>5, <2>1, CommitIsCoded
<1>6. ASSUME NEW u \in Threads, CommitFails(u)
      PROVE  Uncoded(t)
  <2>1. At(u, "built") /\ DOMAIN jobs[u] = Fields /\ Answer(u, "unavailable", "done")
    BY <1>6, BuiltJob DEF CommitFails
  <2>2. PICK task, job :
          /\ job = [jobs[u] EXCEPT !.step = "done", !.answer = "unavailable", !.task = task,
                                   !.observed = 0, !.seen = None, !.at = 0,
                                   !.error = NoError, !.facts = <<>>]
          /\ Goes(u, job)
    BY <2>1 DEF Answer
  <2>3. job.answer = "unavailable"
    BY <2>1, <2>2 DEF Fields
  <2> QED BY <1>1, <2>2, <2>3
<1>7. ASSUME NEW u \in Threads, Notify(u)
      PROVE  Uncoded(t)
  <2>1. DOMAIN jobs[u] = Fields /\ jobs[u].answer = "result"
    BY <1>7 DEF Notify, IInv, JobsOK, JobOK, DecidedJob, Decided, At
  <2>2. PICK job : /\ job = [jobs[u] EXCEPT !.step = "done", !.notified = TRUE]
                   /\ Goes(u, job)
    BY <1>7 DEF Notify
  <2>3. job.answer = "result"
    BY <2>1, <2>2 DEF Fields
  <2> QED BY <1>1, <2>2, <2>3
<1>8. ASSUME NEW u \in Threads, Return(u)
      PROVE  Uncoded(t)
  <2>1. Goes(u, None)
    BY <1>8 DEF Return, Goes
  <2> QED BY <1>1, <2>1
<1>9. CASE SessionCommand \/ OtherFact
  BY <1>9 DEF SessionCommand, OtherFact, Uncoded
<1>10. CASE Restart
  BY <1>10 DEF Restart, Uncoded
<1> QED BY <1>2, <1>3, <1>4, <1>5, <1>6, <1>7, <1>8, <1>9, <1>10 DEF Next

\* What a builder returns is never refused by the event contract, or by the replay
\* that commit() runs on it before it writes, unless the clock was set back behind
\* the session (traffic.py:66): every other refusal of a traffic command has a code.
THEOREM ClockAloneIsUncoded == Spec => OnlyClockIsUncoded
<1>1. IInv /\ [Next]_vars => [\A t \in Threads : Uncoded(t)]_vars
  BY StepIsCoded
<1> QED BY <1>1, Invariance, PTL DEF Spec, OnlyClockIsUncoded, Uncoded
=============================================================================
