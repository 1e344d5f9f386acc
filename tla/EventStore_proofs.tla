------------------------- MODULE EventStore_proofs -------------------------
(* Theorems about the SQLite store's transactions, for every set of workers,  *)
(* sessions, keys, event identities and commands.                            *)
EXTENDS EventStore, SequenceTheorems, FiniteSetTheorems, TLAPS

\* What holds of any committed image of the authoritative tables.
Good(t) == OncePerKeyIn(t) /\ UniqueIdsIn(t) /\ IntentsIn(t) /\ OrderedIn(t)

\* A writer between its decision and its COMMIT: its command's session has
\* grown by events of its own key only, no retry record exists yet, and the
\* other authoritative rows are the committed ones.
WritingOK(w) ==
    LET c == cmd[w]
        s == c.session
    IN /\ c \in CommandRecords /\ c.batch # <<>>
       /\ work.requests = db.requests
       /\ c.op = "commit" => db.requests[s][c.key] = None
       /\ Len(db.log[s]) <= Len(work.log[s])
       /\ \A n \in 1..Len(db.log[s]) : work.log[s][n] = db.log[s][n]
       /\ \A n \in (Len(db.log[s]) + 1)..Len(work.log[s]) : work.log[s][n].key = KeyOf(c)
       /\ \A t \in Sessions : t # s => work.log[t] = db.log[t]
       /\ \A id \in EventIds : db.outbox[id] = "dispatched" => work.outbox[id] = "dispatched"
       /\ UniqueIdsIn(work) /\ IntentsIn(work) /\ OrderedIn(work)

InFlight(w) ==
    /\ pc[w] \in {"recovering", "begun"} => work = db
    /\ pc[w] = "begun" => cmd[w] \in CommandRecords
    /\ pc[w] \in {"writing", "projected"} => WritingOK(w)
    /\ pc[w] = "projected" => Len(db.log[cmd[w].session]) < Len(work.log[cmd[w].session])
    /\ pc[w] = "ready" => Good(work) /\ Preserves(db, work)

\* Control and lock agree, and the model's scratch tables start each transaction
\* from the committed ones: the glue between the conjuncts below.
LockedOrClean ==
    /\ \A w \in Workers : pc[w] \in InTransaction <=> writer = w
    /\ writer = None => work = db

IInv == /\ TypeOK /\ LockedOrClean
        /\ Good(db)
        /\ \A w \in Workers : InFlight(w)

-----------------------------------------------------------------------------
(* Tables.                                                                  *)

\* An identity is stored when it is some event's.
LEMMA StoredIdsMember ==
    ASSUME NEW t, TablesOK(t), NEW id
    PROVE  id \in StoredIds(t) <=>
             \E s \in Sessions : \E n \in 1..Len(t.log[s]) : t.log[s][n].id = id
<1>1. \A s \in Sessions : DOMAIN t.log[s] = 1..Len(t.log[s])
  BY DEF TablesOK
<1>. QED BY <1>1 DEF StoredIds

\* The empty database satisfies everything.
LEMMA EmptyGood == TablesOK(EmptyTables) /\ Good(EmptyTables)
<1>. DEFINE t == EmptyTables
<1>1. /\ \A s \in Sessions : t.log[s] = <<>> /\ Len(t.log[s]) = 0
      /\ \A id \in EventIds : t.outbox[id] = "absent"
      /\ \A s \in Sessions, k \in Keys : t.requests[s][k] = None
  BY DEF EmptyTables
<1>2. TablesOK(t)
  BY DEF EmptyTables, TablesOK
<1>. HIDE DEF t
<1>3. OncePerKeyIn(t)
  BY <1>1 DEF OncePerKeyIn
<1>4. UniqueIdsIn(t) /\ OrderedIn(t)
  BY <1>1 DEF UniqueIdsIn, OrderedIn
<1>5. IntentsIn(t)
  BY <1>1 DEF IntentsIn
<1>. QED BY <1>2, <1>3, <1>4, <1>5 DEF Good, t

\* Nothing is lost by not changing the tables.
LEMMA PreservesRefl ==
    ASSUME NEW t, TablesOK(t)
    PROVE  Preserves(t, t)
BY DEF Preserves, TablesOK

\* Stamping keeps a candidate a well-typed stored event, and names its key.
LEMMA StampedType ==
    ASSUME NEW c \in CommandRecords, NEW n \in Nat, NEW i \in 1..Len(c.batch)
    PROVE  /\ Stamped(c, n)[i] \in Stored
           /\ Stamped(c, n)[i].id = c.batch[i].id
           /\ Stamped(c, n)[i].key = KeyOf(c)
<1>1. /\ c.batch \in Seq(Candidates) /\ c.batch[i] \in Candidates
      /\ DOMAIN c.batch = 1..Len(c.batch) /\ c.key \in Keys
  BY DEF CommandRecords
<1>. DEFINE b == c.batch[i].body
<1>2. b \in EventRecords /\ c.batch[i].id \in EventIds
  BY <1>1 DEF Candidates
<1>3. n + i \in Nat
  OBVIOUS
<1>4. [b EXCEPT !.seq = n + i] \in EventRecords
  BY <1>2, <1>3 DEF EventRecords
<1>. QED BY <1>1, <1>2, <1>4 DEF Stamped, Stored, KeyOf

-----------------------------------------------------------------------------
(* The two ways a worker moves inside a transaction.                        *)

LEMMA InitIInv == Init => IInv
<1>. SUFFICES ASSUME Init PROVE IInv
  OBVIOUS
<1>1. TypeOK
  BY EmptyGood DEF Init, TypeOK
<1>2. LockedOrClean
  BY NoneAssumption DEF Init, LockedOrClean, InTransaction
<1>3. \A w \in Workers : InFlight(w)
  BY DEF Init, InFlight
<1>. QED BY <1>1, <1>2, <1>3, EmptyGood DEF Init, IInv

\* An unchanged committed image stays good.
LEMMA GoodSame ==
    ASSUME IInv, db' = db
    PROVE  Good(db)'
BY DEF IInv, Good, OncePerKeyIn, UniqueIdsIn, IntentsIn, OrderedIn, StoredIds

\* A worker that leaves its transaction with a good image keeps the invariant.
LEMMA EndOK ==
    ASSUME IInv, NEW w \in Workers, pc[w] \in InTransaction,
           NEW t, TablesOK(t), Good(t),
           NEW next \in {"closed", "idle", "sick"}, End(w, t, next),
           DOMAIN reply' = Workers
    PROVE  IInv'
<1>1. writer = w /\ \A v \in Workers : v # w => pc[v] \notin InTransaction
  BY DEF IInv, LockedOrClean
<1>2. /\ db' = t /\ work' = t /\ writer' = None
      /\ pc' = [pc EXCEPT ![w] = next] /\ cmd' = [cmd EXCEPT ![w] = None]
  BY DEF End
<1>3. TypeOK'
  BY <1>2 DEF IInv, TypeOK
<1>4. \A v \in Workers : pc'[v] \notin InTransaction
  BY <1>1, <1>2 DEF IInv, TypeOK, InTransaction
<1>5. LockedOrClean'
  BY <1>2, <1>4, NoneAssumption DEF LockedOrClean
<1>6. \A v \in Workers : InFlight(v)'
  BY <1>4 DEF InFlight, InTransaction
<1>7. Good(db)'
  BY <1>2 DEF Good, OncePerKeyIn, UniqueIdsIn, IntentsIn, OrderedIn, StoredIds
<1>. QED BY <1>3, <1>5, <1>6, <1>7 DEF IInv

LEMMA RollbackOK ==
    ASSUME IInv, NEW w \in Workers, pc[w] \in InTransaction, NEW kind,
           NEW next \in {"closed", "idle", "sick"}, Rollback(w, kind, next)
    PROVE  IInv'
<1>1. TablesOK(db) /\ Good(db) /\ DOMAIN reply = Workers
  BY DEF IInv, TypeOK
<1>2. DOMAIN reply' = Workers
  BY <1>1 DEF Rollback, Reply
<1>. QED BY <1>1, <1>2, EndOK DEF Rollback

\* A worker that goes on inside its transaction need only re-establish its own
\* in-flight condition.
LEMMA GoesOnOK ==
    ASSUME IInv, NEW w \in Workers, pc[w] \in InTransaction,
           db' = db, writer' = writer, cmd' = cmd,
           NEW at \in InTransaction, pc' = [pc EXCEPT ![w] = at],
           TablesOK(work'), DOMAIN reply' = Workers, InFlight(w)'
    PROVE  IInv'
<1>1. writer = w /\ \A v \in Workers : v # w => pc[v] \notin InTransaction
  BY DEF IInv, LockedOrClean
<1>2. \A v \in Workers : pc'[v] = IF v = w THEN at ELSE pc[v]
  BY DEF IInv, TypeOK
<1>3. TypeOK'
  BY DEF IInv, TypeOK, TablesOK
<1>4. LockedOrClean'
  BY <1>1, <1>2, NoneAssumption DEF LockedOrClean
<1>5. \A v \in Workers : InFlight(v)'
  BY <1>1, <1>2 DEF InFlight, InTransaction
<1>6. Good(db)'
  BY GoodSame
<1>. QED BY <1>3, <1>4, <1>5, <1>6 DEF IInv

\* A worker that takes the write lock, when nobody is in a transaction.
LEMMA EnterOK ==
    ASSUME IInv, NEW w \in Workers, writer = None, writer' = w, db' = db,
           NEW call \in CommandRecords \union OtherCalls,
           cmd' = [cmd EXCEPT ![w] = call],
           NEW at \in InTransaction, pc' = [pc EXCEPT ![w] = at],
           TablesOK(work'), DOMAIN reply' = Workers, InFlight(w)'
    PROVE  IInv'
<1>1. \A v \in Workers : pc[v] \notin InTransaction
  BY NoneAssumption DEF IInv, LockedOrClean
<1>2. \A v \in Workers : pc'[v] = IF v = w THEN at ELSE pc[v]
  BY DEF IInv, TypeOK
<1>3. TypeOK'
  BY DEF IInv, TypeOK, TablesOK
<1>4. LockedOrClean'
  BY <1>1, <1>2, NoneAssumption DEF LockedOrClean
<1>5. \A v \in Workers : InFlight(v)'
  BY <1>1, <1>2 DEF InFlight, InTransaction
<1>6. Good(db)'
  BY GoodSame
<1>. QED BY <1>3, <1>4, <1>5, <1>6 DEF IInv

\* A step that leaves tables, lock and transactions alone.
LEMMA OutsideOK ==
    ASSUME IInv, UNCHANGED <<db, work, writer, cmd>>, DOMAIN reply' = Workers,
           pc' \in [Workers -> {"closed", "idle", "sick"} \union InTransaction],
           \A v \in Workers : pc'[v] # pc[v] => pc[v] \notin InTransaction
                                             /\ pc'[v] \notin InTransaction
    PROVE  IInv'
<1>1. TypeOK'
  BY DEF IInv, TypeOK, TablesOK
<1>2. LockedOrClean'
  BY DEF IInv, LockedOrClean
<1>3. ASSUME NEW v \in Workers PROVE InFlight(v)'
  <2>1. WritingOK(v) => WritingOK(v)'
    BY DEF WritingOK, UniqueIdsIn, IntentsIn, OrderedIn, StoredIds
  <2>2. Good(work) /\ Preserves(db, work) => (Good(work) /\ Preserves(db, work))'
    BY DEF Good, Preserves, OncePerKeyIn, UniqueIdsIn, IntentsIn, OrderedIn, StoredIds
  <2>3. CASE pc'[v] = pc[v]
    BY <2>1, <2>2, <2>3 DEF IInv, InFlight
  <2>4. CASE pc'[v] # pc[v]
    BY <2>4 DEF InFlight, InTransaction
  <2>. QED BY <2>3, <2>4
<1>4. Good(db)'
  BY GoodSame
<1>. QED BY <1>1, <1>2, <1>3, <1>4 DEF IInv

-----------------------------------------------------------------------------
(* What one statement does to a table image.                                *)

\* The derived rows play no part in the conditions.
LEMMA SameTables ==
    ASSUME NEW t, NEW u, u.log = t.log, u.outbox = t.outbox, u.requests = t.requests
    PROVE  /\ OncePerKeyIn(t) => OncePerKeyIn(u)
           /\ UniqueIdsIn(t) => UniqueIdsIn(u)
           /\ IntentsIn(t) => IntentsIn(u)
           /\ OrderedIn(t) => OrderedIn(u)
BY DEF OncePerKeyIn, UniqueIdsIn, IntentsIn, OrderedIn, StoredIds

\* Appending an event whose identity is new, with its pending intent.
LEMMA AppendFresh ==
    ASSUME NEW t, TablesOK(t), UniqueIdsIn(t), IntentsIn(t), OrderedIn(t),
           NEW s \in Sessions, NEW e \in Stored, e.id \notin StoredIds(t),
           NEW u, u = [t EXCEPT !.log[s] = Append(@, e), !.outbox[e.id] = "pending"]
    PROVE  /\ TablesOK(u)
           /\ UniqueIdsIn(u) /\ IntentsIn(u) /\ OrderedIn(u)
<1>1. /\ t.log \in [Sessions -> Seq(Stored)] /\ t.log[s] \in Seq(Stored)
      /\ t.outbox \in [EventIds -> {"absent", "pending", "dispatched"}]
      /\ t.requests \in [Sessions -> [Keys -> RequestRows \union {None}]]
      /\ e.id \in EventIds
  BY DEF TablesOK, Stored
<1>2. /\ u.log = [t.log EXCEPT ![s] = Append(@, e)]
      /\ u.outbox = [t.outbox EXCEPT ![e.id] = "pending"]
      /\ u.sessions = t.sessions /\ u.requests = t.requests
      /\ u = [log |-> u.log, outbox |-> u.outbox, sessions |-> u.sessions,
              requests |-> u.requests]
  BY DEF TablesOK
<1>3. TablesOK(u)
  <2>1. t.sessions = [r \in Sessions |-> t.sessions[r]]
    BY DEF TablesOK
  <2>2. u.log \in [Sessions -> Seq(Stored)]
    BY <1>1, <1>2
  <2>3. u.outbox \in [EventIds -> {"absent", "pending", "dispatched"}]
    BY <1>1, <1>2
  <2>4. u.requests \in [Sessions -> [Keys -> RequestRows \union {None}]]
    BY <1>1, <1>2
  <2>. QED BY <1>2, <2>1, <2>2, <2>3, <2>4 DEF TablesOK
<1>. DEFINE N == Len(t.log[s]) + 1
<1>4. /\ Len(u.log[s]) = N /\ u.log[s][N] = e /\ N \in Nat \ {0}
      /\ \A n \in 1..Len(t.log[s]) : u.log[s][n] = t.log[s][n]
      /\ \A r \in Sessions : r # s => u.log[r] = t.log[r]
  <2>1. u.log[s] = Append(t.log[s], e)
    BY <1>1, <1>2
  <2>. QED BY <1>1, <1>2, <2>1
<1>5. \A r \in Sessions : /\ t.log[r] \in Seq(Stored) /\ Len(t.log[r]) \in Nat
                          /\ \A n \in 1..Len(t.log[r]) : t.log[r][n].id \in EventIds
  <2>. SUFFICES ASSUME NEW r \in Sessions
                PROVE  /\ t.log[r] \in Seq(Stored) /\ Len(t.log[r]) \in Nat
                       /\ \A n \in 1..Len(t.log[r]) : t.log[r][n].id \in EventIds
    OBVIOUS
  <2>1. t.log[r] \in Seq(Stored)
    BY <1>1
  <2>2. \A n \in 1..Len(t.log[r]) : t.log[r][n] \in Stored
    BY <2>1
  <2>. QED BY <2>1, <2>2 DEF Stored
<1>6. \A r \in Sessions, n \in Nat : n \in 1..Len(u.log[r]) =>
         \/ n \in 1..Len(t.log[r]) /\ u.log[r][n] = t.log[r][n]
         \/ r = s /\ n = N /\ u.log[r][n] = e
  <2>. SUFFICES ASSUME NEW r \in Sessions, NEW n \in Nat, n \in 1..Len(u.log[r])
                PROVE  \/ n \in 1..Len(t.log[r]) /\ u.log[r][n] = t.log[r][n]
                       \/ r = s /\ n = N /\ u.log[r][n] = e
    OBVIOUS
  <2>1. CASE r = s
    BY <1>4, <1>5, <2>1
  <2>2. CASE r # s
    BY <1>4, <2>2
  <2>. QED BY <2>1, <2>2
<1>7. \A r \in Sessions : \A n \in 1..Len(t.log[r]) : t.log[r][n].id # e.id
  BY StoredIdsMember
<1>8. UniqueIdsIn(u)
  <2>. SUFFICES ASSUME NEW a \in Sessions, NEW b \in Sessions,
                       NEW i \in 1..Len(u.log[a]), NEW j \in 1..Len(u.log[b]),
                       u.log[a][i].id = u.log[b][j].id
                PROVE  a = b /\ i = j
    BY DEF UniqueIdsIn
  <2>. QED BY <1>6, <1>7 DEF UniqueIdsIn
<1>9. \A id \in EventIds : u.outbox[id] = IF id = e.id THEN "pending" ELSE t.outbox[id]
  BY <1>1, <1>2
<1>10. \A r \in Sessions : \A n \in 1..Len(u.log[r]) : u.outbox[u.log[r][n].id] # "absent"
  BY <1>1, <1>5, <1>6, <1>7, <1>9 DEF IntentsIn
<1>11. ASSUME NEW id \in EventIds, u.outbox[id] # "absent" PROVE id \in StoredIds(u)
  <2>1. \E r \in Sessions : \E n \in 1..Len(u.log[r]) : u.log[r][n].id = id
    <3>1. CASE id = e.id
      BY <1>4, <3>1
    <3>2. CASE id # e.id
      <4>1. PICK r \in Sessions : \E n \in 1..Len(t.log[r]) : t.log[r][n].id = id
        BY <1>9, <1>11, <3>2, StoredIdsMember DEF IntentsIn
      <4>2. Len(t.log[r]) <= Len(u.log[r])
        BY <1>4, <1>5
      <4>3. \A n \in 1..Len(t.log[r]) : u.log[r][n] = t.log[r][n]
        BY <1>4
      <4>. QED BY <1>4, <1>5, <4>1, <4>2, <4>3
    <3>. QED BY <3>1, <3>2
  <2>. QED BY <1>3, <2>1, StoredIdsMember
<1>12. OrderedIn(u)
  <2>. SUFFICES ASSUME NEW r \in Sessions,
                       NEW m \in 1..Len(u.log[r]), NEW n \in 1..Len(u.log[r]),
                       m < n, u.outbox[u.log[r][n].id] = "dispatched"
                PROVE  u.outbox[u.log[r][m].id] = "dispatched"
    BY DEF OrderedIn
  <2>1. ~(r = s /\ n = N /\ u.log[r][n] = e)
    BY <1>1, <1>9
  <2>2. n \in 1..Len(t.log[r]) /\ u.log[r][n] = t.log[r][n]
    BY <1>6, <2>1
  <2>3. m \in 1..Len(t.log[r]) /\ u.log[r][m] = t.log[r][m]
    BY <1>4, <1>5, <2>2
  <2>. QED BY <1>5, <1>7, <1>9, <2>2, <2>3 DEF OrderedIn
<1>. QED BY <1>3, <1>8, <1>10, <1>11, <1>12 DEF IntentsIn

\* Marking an event all of whose predecessors in its session are dispatched.
LEMMA MarkEarliest ==
    ASSUME NEW t, TablesOK(t), Good(t),
           NEW s \in Sessions, NEW n \in 1..Len(t.log[s]), ~EarlierPending(t, s, n),
           NEW u, u = [t EXCEPT !.outbox[t.log[s][n].id] = "dispatched"]
    PROVE  TablesOK(u) /\ Good(u) /\ Preserves(t, u)
<1>. DEFINE id == t.log[s][n].id
<1>1. /\ t.log \in [Sessions -> Seq(Stored)]
      /\ t.outbox \in [EventIds -> {"absent", "pending", "dispatched"}]
      /\ t.sessions = [r \in Sessions |-> t.sessions[r]]
      /\ t.requests \in [Sessions -> [Keys -> RequestRows \union {None}]]
  BY DEF TablesOK
<1>2. \A r \in Sessions : /\ Len(t.log[r]) \in Nat
                          /\ \A m \in 1..Len(t.log[r]) : t.log[r][m].id \in EventIds
  <2>. SUFFICES ASSUME NEW r \in Sessions
                PROVE  /\ Len(t.log[r]) \in Nat
                       /\ \A m \in 1..Len(t.log[r]) : t.log[r][m].id \in EventIds
    OBVIOUS
  <2>1. t.log[r] \in Seq(Stored)
    BY <1>1
  <2>2. \A m \in 1..Len(t.log[r]) : t.log[r][m] \in Stored
    BY <2>1
  <2>. QED BY <2>1, <2>2 DEF Stored
<1>3. id \in EventIds
  BY <1>2
<1>4. /\ u.log = t.log /\ u.sessions = t.sessions /\ u.requests = t.requests
      /\ u.outbox = [t.outbox EXCEPT ![id] = "dispatched"]
      /\ u = [log |-> u.log, outbox |-> u.outbox, sessions |-> u.sessions,
              requests |-> u.requests]
  BY DEF TablesOK
<1>. HIDE DEF id
<1>5. \A i \in EventIds : u.outbox[i] = IF i = id THEN "dispatched" ELSE t.outbox[i]
  BY <1>1, <1>4
<1>6. TablesOK(u)
  <2>1. u.outbox \in [EventIds -> {"absent", "pending", "dispatched"}]
    BY <1>1, <1>4
  <2>. QED BY <1>1, <1>4, <2>1 DEF TablesOK
<1>7. OncePerKeyIn(u) /\ UniqueIdsIn(u)
  BY <1>4 DEF Good, OncePerKeyIn, UniqueIdsIn
<1>8. IntentsIn(u)
  <2>1. \A r \in Sessions : \A m \in 1..Len(u.log[r]) : u.outbox[u.log[r][m].id] # "absent"
    BY <1>2, <1>4, <1>5 DEF Good, IntentsIn
  <2>2. id \in StoredIds(t)
    BY <1>2, StoredIdsMember DEF id
  <2>3. \A i \in EventIds : u.outbox[i] # "absent" => i \in StoredIds(u)
    BY <1>4, <1>5, <2>2 DEF Good, IntentsIn, StoredIds
  <2>. QED BY <2>1, <2>3 DEF IntentsIn
<1>9. OrderedIn(u)
  <2>. SUFFICES ASSUME NEW r \in Sessions,
                       NEW i \in 1..Len(t.log[r]), NEW j \in 1..Len(t.log[r]),
                       i < j, u.outbox[t.log[r][j].id] = "dispatched"
                PROVE  u.outbox[t.log[r][i].id] = "dispatched"
    BY <1>4 DEF OrderedIn
  <2>1. t.log[r][i].id \in EventIds /\ t.log[r][j].id \in EventIds
    BY <1>2
  <2>2. CASE t.log[r][j].id # id
    BY <1>5, <2>1, <2>2 DEF Good, OrderedIn
  <2>3. CASE t.log[r][j].id = id
    <3>1. r = s /\ j = n
      BY <2>3 DEF Good, UniqueIdsIn, id
    <3>2. t.outbox[t.log[r][i].id] # "pending"
      BY <1>2, <3>1 DEF EarlierPending
    <3>3. t.outbox[t.log[r][i].id] # "absent"
      BY DEF Good, IntentsIn
    <3>4. t.outbox[t.log[r][i].id] \in {"absent", "pending", "dispatched"}
      BY <1>1, <2>1
    <3>. QED BY <1>5, <2>1, <3>2, <3>3, <3>4
  <2>. QED BY <2>2, <2>3
<1>10. Preserves(t, u)
  BY <1>2, <1>4, <1>5 DEF Preserves
<1>. QED BY <1>6, <1>7, <1>8, <1>9, <1>10 DEF Good

\* Recording the retry record of the events a command has just appended.
LEMMA RecordRange ==
    ASSUME NEW t, TablesOK(t), Good(t),
           NEW u, TablesOK(u), UniqueIdsIn(u), IntentsIn(u), OrderedIn(u),
           NEW s \in Sessions, NEW k \in Keys \union {None},
           u.requests = t.requests,
           k \in Keys => t.requests[s][k] = None,
           Len(t.log[s]) < Len(u.log[s]),
           \A n \in 1..Len(t.log[s]) : u.log[s][n] = t.log[s][n],
           \A n \in (Len(t.log[s]) + 1)..Len(u.log[s]) : u.log[s][n].key = k,
           \A r \in Sessions : r # s => u.log[r] = t.log[r],
           NEW row \in RequestRows,
           row.first = Len(t.log[s]) + 1, row.last = Len(u.log[s]),
           NEW v, v = IF k \in Keys THEN [u EXCEPT !.requests[s][k] = row] ELSE u
    PROVE  TablesOK(v) /\ Good(v)
<1>1. /\ u.log \in [Sessions -> Seq(Stored)]
      /\ u.outbox \in [EventIds -> {"absent", "pending", "dispatched"}]
      /\ u.sessions = [r \in Sessions |-> u.sessions[r]]
      /\ u.requests \in [Sessions -> [Keys -> RequestRows \union {None}]]
      /\ t.log \in [Sessions -> Seq(Stored)]
  BY DEF TablesOK
<1>2. /\ v.log = u.log /\ v.sessions = u.sessions /\ v.outbox = u.outbox
      /\ v = [log |-> v.log, outbox |-> v.outbox, sessions |-> v.sessions,
              requests |-> v.requests]
      /\ v.requests = IF k \in Keys THEN [u.requests EXCEPT ![s][k] = row] ELSE u.requests
  BY DEF TablesOK
<1>3. TablesOK(v)
  <2>1. v.requests \in [Sessions -> [Keys -> RequestRows \union {None}]]
    BY <1>1, <1>2
  <2>. QED BY <1>1, <1>2, <2>1 DEF TablesOK
<1>4. \A r \in Sessions, q \in Keys :
        v.requests[r][q] = IF r = s /\ q = k THEN row ELSE t.requests[r][q]
  BY <1>1, <1>2
<1>5. row # None /\ row.first <= row.last /\ 1 <= row.first
  BY <1>1, NoneAssumption
<1>6. OncePerKeyIn(v)
  <2>. SUFFICES ASSUME NEW r \in Sessions, NEW q \in Keys
                PROVE  LET x == v.requests[r][q]
                       IN /\ x # None => /\ 1 <= x.first /\ x.first <= x.last
                                         /\ x.last <= Len(u.log[r])
                          /\ \A n \in 1..Len(u.log[r]) :
                               u.log[r][n].key = q
                                 <=> (x # None /\ x.first <= n /\ n <= x.last)
    BY <1>2 DEF OncePerKeyIn
  <2>. DEFINE x == v.requests[r][q]
              y == t.requests[r][q]
  <2>1. /\ y # None => 1 <= y.first /\ y.first <= y.last /\ y.last <= Len(t.log[r])
        /\ \A n \in 1..Len(t.log[r]) :
             t.log[r][n].key = q <=> (y # None /\ y.first <= n /\ n <= y.last)
    BY DEF Good, OncePerKeyIn
  <2>2. Len(t.log[r]) \in Nat /\ Len(u.log[r]) \in Nat
    BY <1>1
  <2>3. y \in RequestRows \union {None}
    BY DEF TablesOK
  <2>4. CASE r # s
    BY <1>4, <2>1, <2>4
  <2>5. CASE r = s /\ q = k
    <3>1. x = row /\ y = None
      BY <1>4, <2>5
    <3>2. \A n \in 1..Len(u.log[r]) :
            u.log[r][n].key = q <=> (row.first <= n /\ n <= row.last)
      BY <2>1, <2>2, <2>5, <3>1
    <3>. QED BY <1>5, <2>5, <3>1, <3>2
  <2>6. CASE r = s /\ q # k
    <3>1. x = y
      BY <1>4, <2>6
    <3>2. y # None => y.last \in Nat /\ y.first \in Nat
      BY <2>3 DEF RequestRows
    <3>3. \A n \in 1..Len(u.log[r]) :
            u.log[r][n].key = q <=> (y # None /\ y.first <= n /\ n <= y.last)
      <4>. SUFFICES ASSUME NEW n \in 1..Len(u.log[r])
                    PROVE  u.log[r][n].key = q <=> (y # None /\ y.first <= n /\ n <= y.last)
        OBVIOUS
      <4>1. CASE n <= Len(t.log[r])
        BY <2>1, <2>2, <2>6, <4>1
      <4>2. CASE n > Len(t.log[r])
        BY <2>1, <2>2, <2>6, <3>2, <4>2
      <4>. QED BY <2>2, <4>1, <4>2
    <3>4. y # None => y.last <= Len(u.log[r])
      BY <2>1, <2>2, <2>6, <3>2
    <3>5. x # None => 1 <= x.first /\ x.first <= x.last /\ x.last <= Len(u.log[r])
      BY <2>1, <3>1, <3>4
    <3>6. \A n \in 1..Len(u.log[r]) :
            u.log[r][n].key = q <=> (x # None /\ x.first <= n /\ n <= x.last)
      BY <3>1, <3>3
    <3>. QED BY <3>5, <3>6
  <2>. QED BY <2>4, <2>5, <2>6
<1>7. UniqueIdsIn(v) /\ IntentsIn(v) /\ OrderedIn(v)
  BY <1>2 DEF UniqueIdsIn, IntentsIn, OrderedIn, StoredIds
<1>. QED BY <1>3, <1>6, <1>7 DEF Good

-----------------------------------------------------------------------------
(* One lemma per action.                                                    *)

LEMMA BeginRecoveryOK ==
    ASSUME IInv, NEW w \in Workers, BeginRecovery(w)
    PROVE  IInv'
<1>. DEFINE call == [op |-> IF pc[w] = "closed" THEN "open" ELSE "recover"]
<1>1. call \in CommandRecords \union OtherCalls
  BY DEF OtherCalls
<1>. HIDE DEF call
<1>2. /\ writer = None /\ writer' = w /\ work' = db /\ db' = db /\ reply' = reply
      /\ cmd' = [cmd EXCEPT ![w] = call] /\ pc' = [pc EXCEPT ![w] = "recovering"]
  BY DEF BeginRecovery, Begin, call
<1>3. /\ TablesOK(work') /\ DOMAIN reply' = Workers /\ "recovering" \in InTransaction
      /\ pc'[w] = "recovering"
  BY <1>2 DEF IInv, TypeOK, InTransaction
<1>4. InFlight(w)'
  BY <1>2, <1>3 DEF InFlight
<1>. QED BY <1>1, <1>2, <1>3, <1>4, EnterOK

\* Whatever its caller passes, a command only takes the lock.
LEMMA SubmitOK ==
    ASSUME IInv, NEW w \in Workers, NEW c \in CommandRecords, Submit(w, c)
    PROVE  IInv'
<1>1. /\ writer = None /\ writer' = w /\ work' = db /\ db' = db /\ reply' = reply
      /\ cmd' = [cmd EXCEPT ![w] = c] /\ pc' = [pc EXCEPT ![w] = "begun"]
  BY DEF Submit, Begin
<1>2. /\ TablesOK(work') /\ DOMAIN reply' = Workers /\ "begun" \in InTransaction
      /\ pc'[w] = "begun" /\ cmd'[w] = c
  BY <1>1 DEF IInv, TypeOK, InTransaction
<1>3. InFlight(w)'
  BY <1>1, <1>2 DEF InFlight
<1>. QED BY <1>1, <1>2, <1>3, EnterOK

LEMMA RecoverOK ==
    ASSUME IInv, NEW w \in Workers, Recover(w)
    PROVE  IInv'
<1>1. pc[w] = "recovering" /\ pc[w] \in InTransaction /\ work = db
  BY DEF Recover, InTransaction, IInv, InFlight
<1>2. CASE Trusted(work)
  <2>1. /\ work' = [work EXCEPT !.sessions =
                      [s \in Sessions |-> ProjectionRow(work.log[s])]]
        /\ pc' = [pc EXCEPT ![w] = "ready"] /\ reply' = [reply EXCEPT ![w] = [kind |-> "open"]]
        /\ db' = db /\ writer' = writer /\ cmd' = cmd
    BY <1>2 DEF Recover, Reply
  <2>2. /\ TablesOK(work) /\ DOMAIN reply' = Workers /\ "ready" \in InTransaction
        /\ pc'[w] = "ready"
    BY <2>1 DEF IInv, TypeOK, InTransaction
  <2>3. /\ work'.log = work.log /\ work'.outbox = work.outbox
        /\ work'.requests = work.requests
        /\ work'.sessions = [s \in Sessions |-> ProjectionRow(work.log[s])]
        /\ work' = [log |-> work'.log, outbox |-> work'.outbox,
                    sessions |-> work'.sessions, requests |-> work'.requests]
    BY <2>1, <2>2 DEF TablesOK
  <2>4. TablesOK(work')
    BY <2>2, <2>3 DEF TablesOK
  <2>5. Good(work')
    BY <1>1, <2>3, SameTables DEF IInv, Good
  <2>6. Preserves(db', work')
    BY <1>1, <2>1, <2>2, <2>3 DEF Preserves, TablesOK
  <2>7. InFlight(w)'
    BY <2>2, <2>5, <2>6 DEF InFlight
  <2>. QED BY <1>1, <2>1, <2>2, <2>4, <2>7, GoesOnOK
<1>3. CASE ~Trusted(work)
  <2>1. Rollback(w, "unavailable", Failed(w)) /\ Failed(w) \in {"closed", "idle", "sick"}
    BY <1>3 DEF Recover, Failed
  <2>. QED BY <1>1, <2>1, RollbackOK
<1>. QED BY <1>2, <1>3

\* A call that will write nothing waits for its COMMIT on the committed tables.
LEMMA PrepareOK ==
    ASSUME IInv, NEW w \in Workers, pc[w] = "begun", NEW r, Prepare(w, r)
    PROVE  IInv'
<1>1. pc[w] \in InTransaction /\ work = db /\ "ready" \in InTransaction
  BY DEF InTransaction, IInv, InFlight
<1>2. /\ pc' = [pc EXCEPT ![w] = "ready"] /\ DOMAIN reply' = Workers
      /\ work' = work /\ db' = db /\ writer' = writer /\ cmd' = cmd
      /\ TablesOK(work) /\ pc'[w] = "ready"
  BY DEF Prepare, Reply, IInv, TypeOK
<1>3. Good(work') /\ Preserves(db', work')
  <2>1. Good(db) /\ Preserves(db, db)
    BY <1>1, <1>2, PreservesRefl DEF IInv
  <2>. QED BY <1>1, <1>2, <2>1
<1>4. InFlight(w)'
  BY <1>2, <1>3 DEF InFlight
<1>. QED BY <1>1, <1>2, <1>4, GoesOnOK

LEMMA StartWritingOK ==
    ASSUME IInv, NEW w \in Workers, pc[w] = "begun", cmd[w].batch # <<>>,
           cmd[w].op = "commit" => db.requests[cmd[w].session][cmd[w].key] = None,
           StartWriting(w)
    PROVE  IInv'
<1>1. /\ pc[w] \in InTransaction /\ work = db /\ "writing" \in InTransaction
      /\ cmd[w] \in CommandRecords
  BY DEF InTransaction, IInv, InFlight
<1>2. /\ pc' = [pc EXCEPT ![w] = "writing"] /\ reply' = reply
      /\ work' = work /\ db' = db /\ writer' = writer /\ cmd' = cmd
      /\ TablesOK(work) /\ TablesOK(db) /\ pc'[w] = "writing" /\ DOMAIN reply = Workers
  BY DEF StartWriting, IInv, TypeOK
<1>3. cmd[w].session \in Sessions /\ Len(db.log[cmd[w].session]) \in Nat
  BY <1>1, <1>2 DEF CommandRecords, TablesOK
<1>4. UniqueIdsIn(work) /\ IntentsIn(work) /\ OrderedIn(work)
  BY <1>1 DEF IInv, Good
<1>5. WritingOK(w)
  BY <1>1, <1>3, <1>4 DEF WritingOK
<1>6. WritingOK(w)'
  BY <1>2, <1>5 DEF WritingOK, UniqueIdsIn, IntentsIn, OrderedIn, StoredIds
<1>7. InFlight(w)'
  BY <1>2, <1>6 DEF InFlight
<1>. QED BY <1>1, <1>2, <1>7, GoesOnOK

LEMMA RefuseOK ==
    ASSUME IInv, NEW w \in Workers, pc[w] = "begun", NEW code, Refuse(w, code)
    PROVE  IInv'
<1>1. /\ TablesOK(db) /\ Good(db) /\ DOMAIN reply' = Workers
      /\ End(w, db, "idle") /\ pc[w] \in InTransaction
  BY DEF IInv, TypeOK, Refuse, Reply, InTransaction
<1>. QED BY <1>1, EndOK

LEMMA DecideCommitOK ==
    ASSUME IInv, NEW w \in Workers, DecideCommit(w)
    PROVE  IInv'
<1>. DEFINE c == cmd[w]
            row == work.requests[c.session][c.key]
            r == Result(c.session, c.key, row.first, row.last)
<1>1. pc[w] = "begun" /\ pc[w] \in InTransaction /\ work = db /\ c.op = "commit"
  BY DEF DecideCommit, InTransaction, IInv, InFlight
<1>2. CASE Rollback(w, "conflict", "idle") \/ Rollback(w, "invalid", "idle")
  BY <1>1, <1>2, RollbackOK
<1>3. CASE Prepare(w, r)
  BY <1>1, <1>3, PrepareOK
<1>4. CASE Refuse(w, "TRAFFIC_CONFLICT") \/ Refuse(w, c.error)
  BY <1>1, <1>4, RefuseOK
<1>5. CASE row = None /\ Acceptable(c, work.log[c.session]) /\ StartWriting(w)
  <2>1. c.batch # <<>>
    BY <1>5 DEF Acceptable, ValidBatch
  <2>. QED BY <1>1, <1>5, <2>1, StartWritingOK
<1>. QED BY <1>2, <1>3, <1>4, <1>5 DEF DecideCommit

LEMMA DecideAppendOK ==
    ASSUME IInv, NEW w \in Workers, DecideAppend(w)
    PROVE  IInv'
<1>. DEFINE c == cmd[w]
            r == Result(c.session, None, c.expected + 1, c.expected + Len(c.batch))
<1>1. pc[w] = "begun" /\ pc[w] \in InTransaction /\ c.op = "append"
  BY DEF DecideAppend, InTransaction
<1>2. CASE Rollback(w, "conflict", "idle") \/ Rollback(w, "invalid", "idle")
  BY <1>1, <1>2, RollbackOK
<1>3. CASE Prepare(w, r)
  BY <1>1, <1>3, PrepareOK
<1>4. CASE Acceptable(c, work.log[c.session]) /\ StartWriting(w)
  BY <1>1, <1>4, StartWritingOK DEF Acceptable, ValidBatch
<1>. QED BY <1>2, <1>3, <1>4 DEF DecideAppend

LEMMA WriteEventOK ==
    ASSUME IInv, NEW w \in Workers, WriteEvent(w)
    PROVE  IInv'
<1>. DEFINE c == cmd[w]
            s == c.session
            n0 == Len(db.log[s])
            e == Stamped(c, n0)[Written(w) + 1]
<1>1. pc[w] = "writing" /\ pc[w] \in InTransaction /\ WritingOK(w)
  BY DEF WriteEvent, InTransaction, IInv, InFlight
<1>2. /\ TablesOK(work) /\ TablesOK(db) /\ DOMAIN reply = Workers
      /\ c \in CommandRecords /\ s \in Sessions /\ c.batch \in Seq(Candidates)
  BY <1>1 DEF IInv, TypeOK, WritingOK, CommandRecords
<1>3. CASE IdTaken(work, e.id)
  <2>1. Rollback(w, "conflict", "idle")
    BY <1>3 DEF WriteEvent
  <2>. QED BY <1>1, <2>1, RollbackOK
<1>4. CASE ~IdTaken(work, e.id)
  <2>1. /\ work' = [work EXCEPT !.log[s] = Append(@, e), !.outbox[e.id] = "pending"]
        /\ db' = db /\ writer' = writer /\ pc' = pc /\ cmd' = cmd /\ reply' = reply
    BY <1>4 DEF WriteEvent
  <2>2. n0 \in Nat /\ Len(work.log[s]) \in Nat /\ Written(w) \in Nat
        /\ Written(w) < Len(c.batch)
    <3>1. n0 \in Nat /\ Len(work.log[s]) \in Nat
      BY <1>2 DEF TablesOK
    <3>2. n0 <= Len(work.log[s])
      BY <1>1 DEF WritingOK
    <3>3. Written(w) = Len(work.log[s]) - n0
      BY DEF Written
    <3>4. Written(w) < Len(c.batch)
      BY DEF WriteEvent
    <3>5. Len(work.log[s]) - n0 \in Nat
      BY <3>1, <3>2
    <3>. QED BY <3>1, <3>3, <3>4, <3>5
  <2>3. /\ e \in Stored /\ e.key = KeyOf(c) /\ e.id \in EventIds
        /\ e.id \notin StoredIds(work)
    <3>1. Written(w) + 1 \in 1..Len(c.batch)
      BY <1>2, <2>2
    <3>2. e \in Stored /\ e.key = KeyOf(c)
      BY <1>2, <2>2, <3>1, StampedType
    <3>. QED BY <1>4, <3>2 DEF Stored, IdTaken
  <2>. HIDE DEF e
  <2>4. /\ TablesOK(work')
        /\ UniqueIdsIn(work') /\ IntentsIn(work') /\ OrderedIn(work')
    BY <1>1, <1>2, <2>1, <2>3, AppendFresh DEF WritingOK
  <2>5. /\ work.log \in [Sessions -> Seq(Stored)] /\ work.log[s] \in Seq(Stored)
        /\ work.outbox \in [EventIds -> {"absent", "pending", "dispatched"}]
        /\ work'.log = [work.log EXCEPT ![s] = Append(@, e)]
        /\ work'.outbox = [work.outbox EXCEPT ![e.id] = "pending"]
        /\ work'.requests = work.requests
    BY <1>2, <2>1 DEF TablesOK
  <2>6. work'.log[s] = Append(work.log[s], e)
    BY <1>2, <2>5
  <2>7. /\ Len(work'.log[s]) = Len(work.log[s]) + 1
        /\ work'.log[s][Len(work.log[s]) + 1] = e
        /\ \A n \in 1..Len(work.log[s]) : work'.log[s][n] = work.log[s][n]
        /\ \A t \in Sessions : t # s => work'.log[t] = work.log[t]
    BY <1>2, <2>5, <2>6
  <2>8. \A id \in EventIds : db.outbox[id] = "dispatched" => work'.outbox[id] = "dispatched"
    <3>. SUFFICES ASSUME NEW id \in EventIds, db.outbox[id] = "dispatched"
                  PROVE  work'.outbox[id] = "dispatched"
      OBVIOUS
    <3>1. work.outbox[id] = "dispatched"
      BY <1>1 DEF WritingOK
    <3>2. id \in StoredIds(work)
      BY <1>1, <3>1 DEF WritingOK, IntentsIn
    <3>. QED BY <2>3, <2>5, <3>1, <3>2
  <2>9. \A n \in (n0 + 1)..Len(work'.log[s]) : work'.log[s][n].key = KeyOf(c)
    <3>. SUFFICES ASSUME NEW n \in (n0 + 1)..Len(work'.log[s])
                  PROVE  work'.log[s][n].key = KeyOf(c)
      OBVIOUS
    <3>1. CASE n = Len(work.log[s]) + 1
      BY <2>3, <2>7, <3>1
    <3>2. CASE n # Len(work.log[s]) + 1
      <4>1. n \in (n0 + 1)..Len(work.log[s]) /\ n \in 1..Len(work.log[s])
        BY <2>2, <2>7, <3>2
      <4>. QED BY <1>1, <2>7, <4>1 DEF WritingOK
    <3>. QED BY <3>1, <3>2
  <2>10. /\ n0 <= Len(work'.log[s])
         /\ \A n \in 1..n0 : work'.log[s][n] = db.log[s][n]
         /\ \A t \in Sessions : t # s => work'.log[t] = db.log[t]
    <3>1. /\ n0 <= Len(work.log[s])
          /\ \A n \in 1..n0 : work.log[s][n] = db.log[s][n]
          /\ \A t \in Sessions : t # s => work.log[t] = db.log[t]
      BY <1>1 DEF WritingOK
    <3>2. \A n \in 1..n0 : n \in 1..Len(work.log[s])
      BY <2>2, <3>1
    <3>3. n0 <= Len(work'.log[s])
      BY <2>2, <2>7, <3>1
    <3>4. \A n \in 1..n0 : work'.log[s][n] = db.log[s][n]
      BY <2>7, <3>1, <3>2
    <3>5. \A t \in Sessions : t # s => work'.log[t] = db.log[t]
      BY <2>7, <3>1
    <3>. QED BY <3>3, <3>4, <3>5
  <2>11. /\ c.batch # <<>> /\ work'.requests = db.requests
         /\ c.op = "commit" => db.requests[s][c.key] = None
    BY <1>1, <2>5 DEF WritingOK
  <2>12. WritingOK(w)'
    <3>1. cmd'[w] = c /\ db' = db
      BY <2>1
    <3>2. KeyOf(c)' = KeyOf(c)
      BY <2>1 DEF KeyOf
    <3>3. UniqueIdsIn(work)' /\ IntentsIn(work)' /\ OrderedIn(work)'
      BY <2>4 DEF UniqueIdsIn, IntentsIn, OrderedIn, StoredIds
    <3>. QED BY <1>2, <2>8, <2>9, <2>10, <2>11, <3>1, <3>2, <3>3 DEF WritingOK
  <2>13. /\ pc' = [pc EXCEPT ![w] = "writing"] /\ "writing" \in InTransaction
         /\ pc'[w] = "writing" /\ DOMAIN reply' = Workers
    BY <1>1, <1>2, <2>1 DEF IInv, TypeOK, InTransaction
  <2>14. InFlight(w)'
    BY <2>12, <2>13 DEF InFlight
  <2>. QED BY <1>1, <2>1, <2>4, <2>13, <2>14, GoesOnOK
<1>. QED BY <1>3, <1>4

LEMMA SaveProjectionOK ==
    ASSUME IInv, NEW w \in Workers, SaveProjection(w)
    PROVE  IInv'
<1>. DEFINE c == cmd[w]
            s == c.session
<1>1. pc[w] = "writing" /\ pc[w] \in InTransaction /\ WritingOK(w)
  BY DEF SaveProjection, InTransaction, IInv, InFlight
<1>2. /\ TablesOK(work) /\ TablesOK(db) /\ DOMAIN reply = Workers
      /\ c \in CommandRecords /\ s \in Sessions /\ c.batch \in Seq(Candidates)
  BY <1>1 DEF IInv, TypeOK, WritingOK, CommandRecords
<1>3. /\ work' = [work EXCEPT !.sessions[s] = ProjectionRow(work.log[s])]
      /\ db' = db /\ writer' = writer /\ cmd' = cmd /\ reply' = reply
      /\ pc' = [pc EXCEPT ![w] = "projected"] /\ "projected" \in InTransaction
      /\ pc'[w] = "projected"
  BY DEF SaveProjection, IInv, TypeOK, InTransaction
<1>4. /\ work'.log = work.log /\ work'.outbox = work.outbox
      /\ work'.requests = work.requests
      /\ work'.sessions = [work.sessions EXCEPT ![s] = ProjectionRow(work.log[s])]
      /\ work' = [log |-> work'.log, outbox |-> work'.outbox,
                  sessions |-> work'.sessions, requests |-> work'.requests]
  BY <1>2, <1>3 DEF TablesOK
<1>5. TablesOK(work')
  <2>1. work.sessions = [r \in Sessions |-> work.sessions[r]]
    BY <1>2 DEF TablesOK
  <2>2. work'.sessions = [r \in Sessions |-> work'.sessions[r]]
    BY <1>4, <2>1
  <2>. QED BY <1>2, <1>4, <2>2 DEF TablesOK
<1>6. UniqueIdsIn(work') /\ IntentsIn(work') /\ OrderedIn(work')
  BY <1>1, <1>4, SameTables DEF WritingOK
<1>7. WritingOK(w)'
  <2>1. cmd'[w] = c /\ db' = db /\ KeyOf(c)' = KeyOf(c)
    BY <1>3 DEF KeyOf
  <2>2. UniqueIdsIn(work)' /\ IntentsIn(work)' /\ OrderedIn(work)'
    BY <1>6 DEF UniqueIdsIn, IntentsIn, OrderedIn, StoredIds
  <2>. QED BY <1>1, <1>4, <2>1, <2>2 DEF WritingOK
<1>8. Len(db'.log[s]) < Len(work'.log[s])
  <2>1. Written(w) = Len(c.batch) /\ c.batch # <<>>
    BY <1>1 DEF SaveProjection, WritingOK
  <2>2. Len(c.batch) > 0
    BY <1>2, <2>1
  <2>3. Len(db.log[s]) \in Nat /\ Len(work.log[s]) \in Nat
    BY <1>2 DEF TablesOK
  <2>4. Written(w) = Len(work.log[s]) - Len(db.log[s])
    BY DEF Written
  <2>5. Len(work.log[s]) - Len(db.log[s]) > 0
    BY <2>1, <2>2, <2>4
  <2>6. Len(db.log[s]) < Len(work.log[s])
    <3>1. \A a, b \in Nat : a - b > 0 => b < a
      OBVIOUS
    <3>. QED BY <2>3, <2>5, <3>1
  <2>. QED BY <1>3, <1>4, <2>6
<1>9. InFlight(w)'
  BY <1>3, <1>7, <1>8 DEF InFlight
<1>. QED BY <1>1, <1>2, <1>3, <1>5, <1>9, GoesOnOK

LEMMA RecordRequestOK ==
    ASSUME IInv, NEW w \in Workers, RecordRequest(w)
    PROVE  IInv'
<1>. DEFINE c == cmd[w]
            s == c.session
            first == Len(db.log[s]) + 1
            last == Len(work.log[s])
            row == [input |-> c.input, expected |-> c.expected, first |-> first,
                    last |-> last]
            k == KeyOf(c)
<1>1. /\ pc[w] = "projected" /\ pc[w] \in InTransaction /\ WritingOK(w)
      /\ Len(db.log[s]) < Len(work.log[s])
  BY DEF RecordRequest, InTransaction, IInv, InFlight
<1>2. /\ TablesOK(work) /\ TablesOK(db) /\ Good(db) /\ DOMAIN reply = Workers
      /\ c \in CommandRecords /\ s \in Sessions
      /\ c.op \in {"commit", "append"} /\ c.key \in Keys
      /\ c.input \in Inputs /\ c.expected \in Nat
  BY <1>1 DEF IInv, TypeOK, WritingOK, CommandRecords
<1>3. /\ work' = IF c.op = "commit"
                 THEN [work EXCEPT !.requests[s][c.key] = row] ELSE work
      /\ db' = db /\ writer' = writer /\ cmd' = cmd /\ DOMAIN reply' = Workers
      /\ pc' = [pc EXCEPT ![w] = "ready"] /\ "ready" \in InTransaction
      /\ pc'[w] = "ready"
  BY <1>2 DEF RecordRequest, IInv, TypeOK, InTransaction, Reply
<1>4. /\ row \in RequestRows /\ row.first = first /\ row.last = last
      /\ first \in Nat /\ last \in Nat
  BY <1>2 DEF RequestRows, TablesOK
<1>5. /\ k \in Keys \union {None} /\ (k \in Keys <=> c.op = "commit")
      /\ k \in Keys => k = c.key
  BY <1>2, NoneAssumption DEF KeyOf
<1>. HIDE DEF row, k
<1>6. work' = IF k \in Keys THEN [work EXCEPT !.requests[s][k] = row] ELSE work
  BY <1>3, <1>5
<1>7. /\ UniqueIdsIn(work) /\ IntentsIn(work) /\ OrderedIn(work)
      /\ work.requests = db.requests
      /\ k \in Keys => db.requests[s][k] = None
      /\ \A n \in 1..Len(db.log[s]) : work.log[s][n] = db.log[s][n]
      /\ \A n \in (Len(db.log[s]) + 1)..Len(work.log[s]) : work.log[s][n].key = k
      /\ \A r \in Sessions : r # s => work.log[r] = db.log[r]
      /\ \A id \in EventIds : db.outbox[id] = "dispatched" => work.outbox[id] = "dispatched"
  BY <1>1, <1>5 DEF WritingOK, k
<1>8. TablesOK(work') /\ Good(work')
  <2>. HIDE DEF c, s
  <2>. QED BY <1>1, <1>2, <1>4, <1>5, <1>6, <1>7, RecordRange
<1>9. Preserves(db', work')
  <2>1. /\ work'.log = work.log /\ work'.outbox = work.outbox
        /\ \A r \in Sessions, q \in Keys :
             work'.requests[r][q] = IF r = s /\ q = k THEN row ELSE db.requests[r][q]
    BY <1>2, <1>6, <1>7 DEF TablesOK
  <2>2. \A r \in Sessions : Len(db.log[r]) \in Nat /\ Len(work.log[r]) \in Nat
    BY <1>2 DEF TablesOK
  <2>3. \A r \in Sessions : /\ Len(db.log[r]) <= Len(work.log[r])
                            /\ \A n \in 1..Len(db.log[r]) : work.log[r][n] = db.log[r][n]
    <3>. SUFFICES ASSUME NEW r \in Sessions
                  PROVE  /\ Len(db.log[r]) <= Len(work.log[r])
                         /\ \A n \in 1..Len(db.log[r]) : work.log[r][n] = db.log[r][n]
      OBVIOUS
    <3>1. CASE r = s
      <4>1. Len(db.log[r]) < Len(work.log[r])
        BY <1>1, <3>1
      <4>2. \A n \in 1..Len(db.log[r]) : work.log[r][n] = db.log[r][n]
        BY <1>7, <3>1
      <4>. QED BY <2>2, <4>1, <4>2
    <3>2. CASE r # s
      <4>1. work.log[r] = db.log[r]
        BY <1>7, <3>2
      <4>. QED BY <2>2, <4>1
    <3>. QED BY <3>1, <3>2
  <2>4. \A r \in Sessions, q \in Keys :
          db.requests[r][q] # None => work'.requests[r][q] = db.requests[r][q]
    BY <1>7, <2>1
  <2>. QED BY <1>3, <1>7, <2>1, <2>3, <2>4 DEF Preserves
<1>10. InFlight(w)'
  BY <1>3, <1>8, <1>9 DEF InFlight
<1>. QED BY <1>1, <1>3, <1>8, <1>10, GoesOnOK

LEMMA MarkDispatchedOK ==
    ASSUME IInv, NEW w \in Workers, NEW id \in EventIds, MarkDispatched(w, id)
    PROVE  IInv'
<1>. DEFINE call == [op |-> "mark"]
<1>1. /\ TablesOK(db) /\ Good(db) /\ DOMAIN reply = Workers /\ writer = None
      /\ pc \in [Workers -> {"closed", "idle", "sick"} \union InTransaction]
  BY DEF IInv, TypeOK, MarkDispatched
<1>2. CASE UNCHANGED <<db, work, writer, pc, cmd>> /\ \E r : Reply(w, r)
  <2>1. DOMAIN reply' = Workers
    BY <1>1, <1>2 DEF Reply
  <2>. QED BY <1>1, <1>2, <2>1, OutsideOK
<1>3. ASSUME NEW s \in Sessions, NEW n \in DOMAIN db.log[s], db.log[s][n].id = id,
             ~EarlierPending(db, s, n),
             writer' = w, work' = [db EXCEPT !.outbox[id] = "dispatched"],
             pc' = [pc EXCEPT ![w] = "ready"], cmd' = [cmd EXCEPT ![w] = call],
             Reply(w, [kind |-> "marked"]), UNCHANGED db
      PROVE  IInv'
  <2>1. n \in 1..Len(db.log[s])
    BY <1>1 DEF TablesOK
  <2>2. TablesOK(work') /\ Good(work') /\ Preserves(db, work')
    BY <1>1, <1>3, <2>1, MarkEarliest
  <2>3. /\ call \in CommandRecords \union OtherCalls /\ "ready" \in InTransaction
        /\ pc'[w] = "ready" /\ DOMAIN reply' = Workers
    BY <1>1, <1>3 DEF OtherCalls, InTransaction, Reply
  <2>4. InFlight(w)'
    BY <1>3, <2>2, <2>3 DEF InFlight
  <2>. QED BY <1>1, <1>3, <2>2, <2>3, <2>4, EnterOK
<1>. QED BY <1>2, <1>3 DEF MarkDispatched

LEMMA CommitOkOK ==
    ASSUME IInv, NEW w \in Workers, CommitOk(w)
    PROVE  IInv'
<1>1. /\ pc[w] = "ready" /\ pc[w] \in InTransaction /\ End(w, work, "idle")
      /\ TablesOK(work) /\ DOMAIN reply' = Workers
  BY DEF CommitOk, InTransaction, IInv, TypeOK
<1>2. Good(work)
  BY <1>1 DEF IInv, InFlight
<1>. QED BY <1>1, <1>2, EndOK

LEMMA CommitUncertainOK ==
    ASSUME IInv, NEW w \in Workers, CommitUncertain(w)
    PROVE  IInv'
<1>1. PICK t \in {db, work} : End(w, t, "closed")
  BY DEF CommitUncertain
<1>2. /\ pc[w] = "ready" /\ pc[w] \in InTransaction
      /\ TablesOK(t) /\ DOMAIN reply' = Workers
  BY DEF CommitUncertain, Reply, InTransaction, IInv, TypeOK
<1>3. Good(t)
  BY <1>2 DEF IInv, InFlight
<1>. QED BY <1>1, <1>2, <1>3, EndOK

LEMMA StatementFailsOK ==
    ASSUME IInv, NEW w \in Workers, StatementFails(w)
    PROVE  IInv'
<1>1. pc[w] \in InTransaction /\ Rollback(w, "unavailable", Failed(w))
  BY DEF StatementFails
<1>2. Failed(w) \in {"closed", "idle", "sick"}
  BY DEF Failed
<1>. QED BY <1>1, <1>2, RollbackOK

LEMMA CrashOK == ASSUME IInv, Crash PROVE IInv'
<1>1. /\ db' = db /\ work' = db /\ writer' = None
      /\ pc' = [w \in Workers |-> "closed"] /\ cmd' = [w \in Workers |-> None]
      /\ reply' = [w \in Workers |-> [kind |-> "none"]] /\ TablesOK(db)
  BY DEF Crash, IInv, TypeOK
<1>2. TypeOK'
  BY <1>1 DEF TypeOK, TablesOK
<1>3. LockedOrClean'
  BY <1>1, NoneAssumption DEF LockedOrClean, InTransaction
<1>4. \A w \in Workers : InFlight(w)'
  BY <1>1 DEF InFlight
<1>. QED BY <1>1, <1>2, <1>3, <1>4, GoodSame DEF IInv

\* Steps outside any transaction.
LEMMA ElsewhereOK ==
    ASSUME IInv, NEW w \in Workers, RecoveryBusy(w) \/ Close(w) \/ Busy(w)
    PROVE  IInv'
<1>1. /\ db' = db /\ work' = work /\ writer' = writer /\ cmd' = cmd
      /\ DOMAIN reply = Workers
      /\ pc \in [Workers -> {"closed", "idle", "sick"} \union InTransaction]
  BY DEF RecoveryBusy, Close, Busy, IInv, TypeOK
<1>2. DOMAIN reply' = Workers
  BY <1>1 DEF RecoveryBusy, Close, Busy, Reply
<1>3. pc[w] \in {"closed", "sick", "idle"}
      /\ \E at \in {"closed", "sick", "idle"} : pc' = [pc EXCEPT ![w] = at]
  BY <1>1 DEF RecoveryBusy, Close, Busy
<1>4. /\ pc' \in [Workers -> {"closed", "idle", "sick"} \union InTransaction]
      /\ \A v \in Workers : pc'[v] # pc[v] => pc[v] \notin InTransaction
                                           /\ pc'[v] \notin InTransaction
  BY <1>1, <1>3 DEF InTransaction
<1>. QED BY <1>1, <1>2, <1>4, OutsideOK

\* The invariant is inductive.
THEOREM NextIInv == IInv /\ [Next]_vars => IInv'
<1>. SUFFICES ASSUME IInv, [Next]_vars PROVE IInv'
  OBVIOUS
<1>1. CASE UNCHANGED vars
  <2>1. /\ UNCHANGED <<db, work, writer, cmd>> /\ pc' = pc /\ reply' = reply
        /\ DOMAIN reply = Workers
        /\ pc \in [Workers -> {"closed", "idle", "sick"} \union InTransaction]
    BY <1>1 DEF vars, IInv, TypeOK
  <2>. QED BY <2>1, OutsideOK
<1>2. ASSUME NEW w \in Workers, TransactionStep(w) PROVE IInv'
  BY <1>2, RecoverOK, DecideCommitOK, DecideAppendOK, WriteEventOK, SaveProjectionOK,
     RecordRequestOK, CommitOkOK, StatementFailsOK, CommitUncertainOK DEF TransactionStep
<1>3. ASSUME NEW w \in Workers,
             \/ BeginRecovery(w) \/ RecoveryBusy(w) \/ Close(w)
             \/ \E c \in Commands : Submit(w, c)
             \/ Busy(w)
             \/ \E id \in EventIds : MarkDispatched(w, id)
      PROVE  IInv'
  BY <1>3, CommandsAssumption, BeginRecoveryOK, ElsewhereOK, SubmitOK, MarkDispatchedOK
<1>4. CASE Crash
  BY <1>4, CrashOK
<1>. QED BY <1>1, <1>2, <1>3, <1>4 DEF Next

\* Every reachable state satisfies it.
THEOREM Invariance == Spec => []IInv
BY InitIInv, NextIInv, PTL DEF Spec

-----------------------------------------------------------------------------
(* What follows from it.                                                    *)

\* Type correctness of the store's tables and of every worker's control state.
THEOREM TypeCorrect == Spec => []TypeOK
<1>1. IInv => TypeOK
  BY DEF IInv
<1>. QED BY <1>1, Invariance, PTL

\* A request key takes effect at most once, entirely, however many retries,
\* rollbacks, uncertain commits and crashes there are.
THEOREM EffectOncePerKey == Spec => []OncePerKey
<1>1. IInv => OncePerKey
  BY DEF IInv, Good, OncePerKey
<1>. QED BY <1>1, Invariance, PTL

\* Event identities stay unique across all sessions.
THEOREM IdentitiesUnique == Spec => []UniqueIds
<1>1. IInv => UniqueIds
  BY DEF IInv, Good, UniqueIds
<1>. QED BY <1>1, Invariance, PTL

\* Publication intents exist for exactly the committed events, and a session's
\* dispatched events are always a prefix of its history.
THEOREM DispatchedInOrder == Spec => []DispatchInOrder
<1>1. IInv => DispatchInOrder
  BY DEF IInv, Good, DispatchInOrder
<1>. QED BY <1>1, Invariance, PTL

\* No step of any worker, and no crash, rewrites or drops a committed event, a
\* retry record or a dispatch mark.
LEMMA StepPreserves == IInv /\ [Next]_vars => [Preserves(db, db')]_vars
<1>. SUFFICES ASSUME IInv, Next, vars' # vars PROVE Preserves(db, db')
  OBVIOUS
<1>1. TablesOK(db) /\ Preserves(db, db)
  BY PreservesRefl DEF IInv, TypeOK
<1>2. CASE db' = db
  BY <1>1, <1>2 DEF Preserves
<1>3. ASSUME NEW w \in Workers, pc[w] = "ready", db' \in {db, work}
      PROVE  Preserves(db, db')
  <2>1. Preserves(db, work)
    BY <1>3 DEF IInv, InFlight
  <2>. QED BY <1>1, <1>3, <2>1
<1>4. ASSUME NEW w \in Workers, TransactionStep(w)
      PROVE  db' = db \/ (pc[w] = "ready" /\ db' \in {db, work})
  BY <1>4 DEF TransactionStep, Recover, DecideCommit, DecideAppend, WriteEvent,
     SaveProjection, RecordRequest, CommitOk, StatementFails, CommitUncertain,
     Rollback, Refuse, End, Prepare, StartWriting
<1>5. ASSUME NEW w \in Workers,
             \/ BeginRecovery(w) \/ RecoveryBusy(w) \/ Close(w)
             \/ \E c \in Commands : Submit(w, c)
             \/ Busy(w)
             \/ \E id \in EventIds : MarkDispatched(w, id)
      PROVE  db' = db
  BY <1>5 DEF BeginRecovery, RecoveryBusy, Close, Submit, Busy, MarkDispatched
<1>6. CASE Crash
  BY <1>2, <1>6 DEF Crash
<1>. QED BY <1>2, <1>3, <1>4, <1>5, <1>6 DEF Next

THEOREM NothingRewritten == Spec => AppendOnly
<1>1. Spec => [][Preserves(db, db')]_vars
  BY Invariance, StepPreserves, PTL DEF Spec
<1>. QED BY <1>1 DEF AppendOnly

-----------------------------------------------------------------------------
(* What a restart and an acknowledged caller can rely on: recover() accepts   *)
(* whatever the store left behind, the derived sessions table is the          *)
(* projection of the histories, and an answer outlives every later step.      *)

\* Every history projects.
Projects(t) == \A s \in Sessions : t.log[s] # <<>> => Project(t.log[s]) # None

\* Every retry record follows a prefix with the version its request expected.
Expected(t) ==
    \A s \in Sessions, k \in Keys :
        LET row == t.requests[s][k]
        IN row # None => VersionOf(SubSeq(t.log[s], 1, row.first - 1)) = row.expected

\* Every derived row is the projection of its history.
RowsCurrent(t) == \A s \in Sessions : t.sessions[s] = ProjectionRow(t.log[s])

Sound(t) == Projects(t) /\ Expected(t) /\ RowsCurrent(t)

\* A writer has appended a prefix of the batch it decided to write.
Underway(w) ==
    LET c == cmd[w]
        s == c.session
        n == Len(db.log[s])
    IN /\ Acceptable(c, db.log[s])
       /\ c.op = "commit" => VersionOf(db.log[s]) = c.expected
       /\ Len(work.log[s]) <= n + Len(c.batch)
       /\ \A i \in 1..(Len(work.log[s]) - n) : work.log[s][n + i] = Stamped(c, n)[i]

SoundFlight(w) ==
    /\ pc[w] = "writing" => Underway(w) /\ work.sessions = db.sessions
    /\ pc[w] = "projected" =>
         /\ Sound(work)
         /\ cmd[w].op = "commit" => VersionOf(db.log[cmd[w].session]) = cmd[w].expected
    /\ pc[w] = "ready" => Sound(work)

RInv == Sound(db) /\ \A w \in Workers : SoundFlight(w)

-----------------------------------------------------------------------------
(* Sequences and tables.                                                    *)

\* A longer sequence has the shorter one's subsequences.
LEMMA SubSeqAgrees ==
    ASSUME NEW S, NEW a \in Seq(S), NEW b \in Seq(S), Len(a) <= Len(b),
           \A i \in 1..Len(a) : b[i] = a[i],
           NEW m \in Nat \ {0}, NEW n \in Int, n <= Len(a)
    PROVE  SubSeq(a, m, n) = SubSeq(b, m, n)
<1>1. Len(a) \in Nat /\ Len(b) \in Nat
  OBVIOUS
<1>2. \A i \in m..n : a[i] \in S /\ b[i] \in S /\ b[i] = a[i]
  BY <1>1
<1>3. /\ SubSeq(a, m, n) \in Seq(S) /\ SubSeq(b, m, n) \in Seq(S)
      /\ Len(SubSeq(a, m, n)) = (IF m <= n THEN n - m + 1 ELSE 0)
      /\ Len(SubSeq(b, m, n)) = (IF m <= n THEN n - m + 1 ELSE 0)
      /\ \A i \in 1..(n - m + 1) : SubSeq(a, m, n)[i] = a[m + i - 1]
      /\ \A i \in 1..(n - m + 1) : SubSeq(b, m, n)[i] = b[m + i - 1]
  <2>1. m \in Int
    OBVIOUS
  <2>. QED BY <1>2, <2>1, SubSeqProperties
<1>4. \A i \in 1..Len(SubSeq(a, m, n)) : SubSeq(a, m, n)[i] = SubSeq(b, m, n)[i]
  BY <1>2, <1>3
<1>. QED BY <1>3, <1>4, SeqEqual

\* The rows that the conditions read decide them.
LEMMA SoundSame ==
    ASSUME NEW t, NEW u, u.log = t.log, u.sessions = t.sessions, u.requests = t.requests,
           Sound(t)
    PROVE  Sound(u)
BY DEF Sound, Projects, Expected, RowsCurrent

\* A range that the history already holds reads the same after it has grown.
LEMMA ExpectedGrows ==
    ASSUME NEW t, TablesOK(t), Good(t), Expected(t),
           NEW u, TablesOK(u), Preserves(t, u),
           NEW s \in Sessions, NEW k \in Keys, t.requests[s][k] # None,
           u.requests[s][k] = t.requests[s][k]
    PROVE  VersionOf(SubSeq(u.log[s], 1, u.requests[s][k].first - 1))
             = u.requests[s][k].expected
<1>. DEFINE row == t.requests[s][k]
<1>1. row \in RequestRows /\ row.first \in Nat /\ row.last \in Nat
  BY DEF TablesOK, RequestRows
<1>2. 1 <= row.first /\ row.first <= row.last /\ row.last <= Len(t.log[s])
  BY DEF Good, OncePerKeyIn
<1>3. t.log[s] \in Seq(Stored) /\ u.log[s] \in Seq(Stored)
  BY DEF TablesOK
<1>4. Len(t.log[s]) <= Len(u.log[s]) /\ \A n \in 1..Len(t.log[s]) : u.log[s][n] = t.log[s][n]
  BY DEF Preserves
<1>5. row.first - 1 \in Int /\ row.first - 1 <= Len(t.log[s])
  <2>1. Len(t.log[s]) \in Nat
    BY <1>3
  <2>. HIDE DEF row
  <2>. QED BY <1>1, <1>2, <2>1
<1>6. SubSeq(t.log[s], 1, row.first - 1) = SubSeq(u.log[s], 1, row.first - 1)
  BY <1>3, <1>4, <1>5, SubSeqAgrees
<1>7. VersionOf(SubSeq(t.log[s], 1, row.first - 1)) = row.expected
  BY DEF Expected
<1>. QED BY <1>6, <1>7

\* recover() accepts a good and sound image.
LEMMA SoundTrusted ==
    ASSUME NEW t, TablesOK(t), Good(t), Sound(t)
    PROVE  Trusted(t)
<1>1. \A i \in StoredIds(t) : t.outbox[i] # "absent"
  BY StoredIdsMember DEF Good, IntentsIn
<1>2. \A s \in Sessions : t.log[s] # <<>> => Project(t.log[s]) # None
  BY DEF Sound, Projects
<1>3. ASSUME NEW s \in Sessions, NEW k \in Keys, t.requests[s][k] # None
      PROVE  /\ t.requests[s][k].first <= t.requests[s][k].last
             /\ t.requests[s][k].last <= Len(t.log[s])
             /\ VersionOf(SubSeq(t.log[s], 1, t.requests[s][k].first - 1))
                  = t.requests[s][k].expected
  BY <1>3 DEF Sound, Expected, Good, OncePerKeyIn
<1>. QED BY <1>1, <1>2, <1>3 DEF Trusted

-----------------------------------------------------------------------------
(* Where a step leaves the workers.                                         *)

\* Nobody is left inside a transaction.
LEMMA LeftOK ==
    ASSUME IInv', writer' = None, Sound(db')
    PROVE  RInv'
<1>1. \A v \in Workers : pc'[v] \notin InTransaction
  BY NoneAssumption DEF IInv, LockedOrClean
<1>2. \A v \in Workers : SoundFlight(v)'
  BY <1>1 DEF SoundFlight, InTransaction
<1>3. Sound(db)'
  BY DEF Sound, Projects, Expected, RowsCurrent
<1>. QED BY <1>2, <1>3 DEF RInv

\* Only w is inside a transaction.
LEMMA InsideOK ==
    ASSUME IInv', NEW w \in Workers, writer' = w, Sound(db'), SoundFlight(w)'
    PROVE  RInv'
<1>1. \A v \in Workers : v # w => pc'[v] \notin InTransaction
  BY DEF IInv, LockedOrClean
<1>2. \A v \in Workers : SoundFlight(v)'
  BY <1>1 DEF SoundFlight, InTransaction
<1>3. Sound(db)'
  BY DEF Sound, Projects, Expected, RowsCurrent
<1>. QED BY <1>2, <1>3 DEF RInv

\* A step outside any transaction.
LEMMA SoundOutside ==
    ASSUME IInv, IInv', RInv, UNCHANGED <<db, work, writer, cmd>>,
           \A v \in Workers : pc'[v] # pc[v] => pc'[v] \notin InTransaction
    PROVE  RInv'
<1>1. \A v \in Workers : SoundFlight(v)'
  <2>. SUFFICES ASSUME NEW v \in Workers PROVE SoundFlight(v)'
    OBVIOUS
  <2>1. CASE pc'[v] = pc[v]
    <3>1. SoundFlight(v)
      BY DEF RInv
    <3>2. Underway(v) => Underway(v)'
      BY DEF Underway
    <3>3. Sound(work) => Sound(work)'
      BY DEF Sound, Projects, Expected, RowsCurrent
    <3>. QED BY <2>1, <3>1, <3>2, <3>3 DEF SoundFlight
  <2>2. CASE pc'[v] # pc[v]
    BY <2>2 DEF SoundFlight, InTransaction
  <2>. QED BY <2>1, <2>2
<1>2. Sound(db)'
  BY DEF RInv, Sound, Projects, Expected, RowsCurrent
<1>. QED BY <1>1, <1>2 DEF RInv

LEMMA SoundRollback ==
    ASSUME IInv', RInv, NEW w \in Workers, NEW kind, NEW next, Rollback(w, kind, next)
    PROVE  RInv'
<1>1. db' = db /\ writer' = None
  BY DEF Rollback, End
<1>2. Sound(db')
  BY <1>1, SoundSame DEF RInv
<1>. QED BY <1>1, <1>2, LeftOK

-----------------------------------------------------------------------------
(* One lemma per action that moves a worker inside a transaction.           *)

\* Validated histories are rebuilt into current rows.
LEMMA RecoverSound ==
    ASSUME IInv, IInv', RInv, NEW w \in Workers, Recover(w)
    PROVE  RInv'
<1>1. /\ pc[w] = "recovering" /\ work = db /\ writer = w
      /\ TablesOK(db) /\ pc \in [Workers -> {"closed", "idle", "sick"} \union InTransaction]
  BY DEF Recover, IInv, InFlight, TypeOK, LockedOrClean, InTransaction
<1>2. CASE Trusted(work)
  <2>1. /\ work' = [work EXCEPT !.sessions =
                      [s \in Sessions |-> ProjectionRow(work.log[s])]]
        /\ pc' = [pc EXCEPT ![w] = "ready"]
        /\ db' = db /\ writer' = writer
    BY <1>2 DEF Recover
  <2>2. /\ work'.log = db.log /\ work'.requests = db.requests
        /\ work'.sessions = [s \in Sessions |-> ProjectionRow(db.log[s])]
    BY <1>1, <2>1 DEF TablesOK
  <2>3. Sound(work')
    BY <2>2 DEF RInv, Sound, Projects, Expected, RowsCurrent
  <2>4. Sound(work)' /\ pc'[w] = "ready"
    BY <1>1, <2>1, <2>3 DEF Sound, Projects, Expected, RowsCurrent
  <2>5. SoundFlight(w)'
    BY <2>4 DEF SoundFlight
  <2>6. Sound(db')
    BY <2>1, SoundSame DEF RInv
  <2>. QED BY <1>1, <2>1, <2>5, <2>6, InsideOK
<1>3. CASE ~Trusted(work)
  BY <1>3, SoundRollback DEF Recover
<1>. QED BY <1>2, <1>3

\* A call that writes nothing holds its answer on the committed tables.
LEMMA PrepareSound ==
    ASSUME IInv, IInv', RInv, NEW w \in Workers, pc[w] = "begun", NEW r, Prepare(w, r)
    PROVE  RInv'
<1>1. /\ work = db /\ writer = w
      /\ pc \in [Workers -> {"closed", "idle", "sick"} \union InTransaction]
  BY DEF IInv, InFlight, TypeOK, LockedOrClean, InTransaction
<1>2. db' = db /\ work' = db /\ writer' = w /\ pc'[w] = "ready"
  BY <1>1 DEF Prepare
<1>3. Sound(db') /\ Sound(work')
  BY <1>2, SoundSame DEF RInv
<1>4. Sound(work)'
  BY <1>3 DEF Sound, Projects, Expected, RowsCurrent
<1>5. SoundFlight(w)'
  BY <1>2, <1>4 DEF SoundFlight
<1>. QED BY <1>2, <1>3, <1>5, InsideOK

\* The decision to write fixes what the whole history will project to.
LEMMA StartWritingSound ==
    ASSUME IInv, IInv', RInv, NEW w \in Workers, pc[w] = "begun",
           Acceptable(cmd[w], db.log[cmd[w].session]),
           cmd[w].op = "commit" => VersionOf(db.log[cmd[w].session]) = cmd[w].expected,
           StartWriting(w)
    PROVE  RInv'
<1>. DEFINE c == cmd[w]
            s == c.session
<1>1. /\ work = db /\ writer = w /\ TablesOK(db) /\ c \in CommandRecords
      /\ pc \in [Workers -> {"closed", "idle", "sick"} \union InTransaction]
  BY DEF IInv, InFlight, TypeOK, LockedOrClean, InTransaction
<1>2. /\ db' = db /\ work' = work /\ writer' = w /\ cmd' = cmd
      /\ pc' = [pc EXCEPT ![w] = "writing"] /\ pc'[w] = "writing"
  BY <1>1 DEF StartWriting
<1>3. Underway(w)
  <2>1. Len(db.log[s]) \in Nat /\ Len(c.batch) \in Nat
    BY <1>1 DEF TablesOK, CommandRecords
  <2>2. work.log[s] = db.log[s]
    BY <1>1
  <2>3. /\ Len(work.log[s]) <= Len(db.log[s]) + Len(c.batch)
        /\ Len(work.log[s]) - Len(db.log[s]) = 0
    <3>1. \A a, b \in Nat : a <= a + b /\ a - a = 0
      OBVIOUS
    <3>. QED BY <2>1, <2>2, <3>1
  <2>4. \A i \in 1..(Len(work.log[s]) - Len(db.log[s])) : FALSE
    BY <2>3
  <2>. QED BY <2>3, <2>4 DEF Underway
<1>4. Underway(w)' /\ (work.sessions = db.sessions)'
  BY <1>1, <1>2, <1>3 DEF Underway
<1>5. SoundFlight(w)'
  BY <1>2, <1>4 DEF SoundFlight
<1>6. Sound(db')
  BY <1>2, SoundSame DEF RInv
<1>. QED BY <1>2, <1>5, <1>6, InsideOK

LEMMA DecideCommitSound ==
    ASSUME IInv, IInv', RInv, NEW w \in Workers, DecideCommit(w)
    PROVE  RInv'
<1>. DEFINE c == cmd[w]
            row == work.requests[c.session][c.key]
            r == Result(c.session, c.key, row.first, row.last)
<1>1. pc[w] = "begun" /\ work = db
  BY DEF DecideCommit, IInv, InFlight
<1>2. CASE Rollback(w, "conflict", "idle") \/ Rollback(w, "invalid", "idle")
  BY <1>2, SoundRollback
<1>3. CASE Prepare(w, r)
  BY <1>1, <1>3, PrepareSound
<1>4. CASE Refuse(w, "TRAFFIC_CONFLICT") \/ Refuse(w, c.error)
  <2>1. db' = db /\ writer' = None
    BY <1>4 DEF Refuse, End
  <2>2. Sound(db')
    BY <2>1, SoundSame DEF RInv
  <2>. QED BY <2>1, <2>2, LeftOK
<1>5. CASE /\ ~StaleVersion(c, work.log[c.session])
           /\ Acceptable(c, work.log[c.session]) /\ StartWriting(w)
  BY <1>1, <1>5, StartWritingSound DEF StaleVersion
<1>. QED BY <1>2, <1>3, <1>4, <1>5 DEF DecideCommit

LEMMA DecideAppendSound ==
    ASSUME IInv, IInv', RInv, NEW w \in Workers, DecideAppend(w)
    PROVE  RInv'
<1>. DEFINE c == cmd[w]
            r == Result(c.session, None, c.expected + 1, c.expected + Len(c.batch))
<1>1. pc[w] = "begun" /\ work = db /\ c.op = "append"
  BY DEF DecideAppend, IInv, InFlight
<1>2. CASE Rollback(w, "conflict", "idle") \/ Rollback(w, "invalid", "idle")
  BY <1>2, SoundRollback
<1>3. CASE Prepare(w, r)
  BY <1>1, <1>3, PrepareSound
<1>4. CASE Acceptable(c, work.log[c.session]) /\ StartWriting(w)
  BY <1>1, <1>4, StartWritingSound
<1>. QED BY <1>2, <1>3, <1>4 DEF DecideAppend

\* One more event of the batch.
LEMMA WriteEventSound ==
    ASSUME IInv, IInv', RInv, NEW w \in Workers, WriteEvent(w)
    PROVE  RInv'
<1>. DEFINE c == cmd[w]
            s == c.session
            n == Len(db.log[s])
            l == Len(work.log[s])
            e == Stamped(c, n)[Written(w) + 1]
<1>1. /\ pc[w] = "writing" /\ writer = w /\ WritingOK(w) /\ Underway(w)
      /\ work.sessions = db.sessions
  BY DEF WriteEvent, IInv, InFlight, LockedOrClean, InTransaction, RInv, SoundFlight
<1>2. /\ TablesOK(work) /\ TablesOK(db) /\ c \in CommandRecords /\ s \in Sessions
  BY <1>1 DEF IInv, TypeOK, WritingOK, CommandRecords
<1>3. CASE Rollback(w, "conflict", "idle")
  BY <1>3, SoundRollback
<1>4. CASE /\ work' = [work EXCEPT !.log[s] = Append(@, e), !.outbox[e.id] = "pending"]
           /\ UNCHANGED <<db, writer, pc, cmd, reply>>
  <2>1. n \in Nat /\ l \in Nat /\ n <= l /\ l - n < Len(c.batch) /\ Len(c.batch) \in Nat
    <3>1. n \in Nat /\ l \in Nat /\ Len(c.batch) \in Nat
      BY <1>2 DEF TablesOK, CommandRecords
    <3>2. n <= l
      BY <1>1 DEF WritingOK
    <3>3. Written(w) < Len(c.batch)
      BY DEF WriteEvent
    <3>. QED BY <3>1, <3>2, <3>3 DEF Written
  <2>2. /\ work.log \in [Sessions -> Seq(Stored)] /\ work.log[s] \in Seq(Stored)
        /\ work'.log = [work.log EXCEPT ![s] = Append(@, e)]
        /\ work'.sessions = work.sessions
    BY <1>2, <1>4 DEF TablesOK
  <2>. HIDE DEF e
  <2>3. /\ Len(work'.log[s]) = l + 1 /\ work'.log[s][l + 1] = e
        /\ \A i \in 1..l : work'.log[s][i] = work.log[s][i]
    <3>1. work'.log[s] = Append(work.log[s], e)
      BY <1>2, <2>2
    <3>. QED BY <2>2, <3>1
  <2>4. ASSUME NEW i \in 1..(l + 1 - n) PROVE work'.log[s][n + i] = Stamped(c, n)[i]
    <3>1. CASE i = l + 1 - n
      <4>1. \A a, b \in Nat : /\ a + (b + 1 - a) = b + 1 /\ (b - a) + 1 = b + 1 - a
        OBVIOUS
      <4>2. n + i = l + 1 /\ Written(w) + 1 = i
        BY <2>1, <3>1, <4>1 DEF Written
      <4>. QED BY <2>3, <4>2 DEF e
    <3>2. CASE i # l + 1 - n
      <4>1. i \in 1..(l - n) /\ n + i \in 1..l
        <5>1. \A a, b \in Nat : \A j \in 1..(b + 1 - a) :
                j # b + 1 - a => j \in 1..(b - a) /\ a + j \in 1..b
          OBVIOUS
        <5>. QED BY <2>1, <3>2, <5>1
      <4>2. work.log[s][n + i] = Stamped(c, n)[i]
        BY <1>1, <4>1 DEF Underway
      <4>. QED BY <2>3, <4>1, <4>2
    <3>. QED BY <3>1, <3>2
  <2>5. /\ cmd' = cmd /\ db' = db /\ writer' = w /\ pc'[w] = "writing"
    BY <1>1, <1>4
  <2>6. /\ Acceptable(c, db.log[s])
        /\ c.op = "commit" => VersionOf(db.log[s]) = c.expected
    BY <1>1 DEF Underway
  <2>7. Len(work'.log[s]) <= n + Len(c.batch)
    <3>1. \A a, b, d \in Nat : b - a < d => b + 1 <= a + d
      OBVIOUS
    <3>. QED BY <2>1, <2>3, <3>1
  <2>8. Underway(w)'
    <3>1. \A i \in 1..(Len(work'.log[s]) - n) : work'.log[s][n + i] = Stamped(c, n)[i]
      <4>1. Len(work'.log[s]) - n = l + 1 - n
        BY <2>3
      <4>. HIDE DEF l, n, s, c
      <4>. QED BY <2>4, <4>1
    <3>2. cmd'[w] = c /\ db'.log = db.log
      BY <2>5
    <3>. QED BY <2>6, <2>7, <3>1, <3>2 DEF Underway
  <2>9. SoundFlight(w)'
    BY <1>1, <2>2, <2>5, <2>8 DEF SoundFlight
  <2>10. Sound(db')
    BY <2>5, SoundSame DEF RInv
  <2>. QED BY <2>5, <2>9, <2>10, InsideOK
<1>. QED BY <1>3, <1>4 DEF WriteEvent

\* The complete batch is the history that was decided on: it projects, and its
\* row is saved.
LEMMA SaveProjectionSound ==
    ASSUME IInv, IInv', RInv, NEW w \in Workers, SaveProjection(w)
    PROVE  RInv'
<1>. DEFINE c == cmd[w]
            s == c.session
            n == Len(db.log[s])
            l == Len(work.log[s])
            whole == db.log[s] \o Stamped(c, n)
<1>1. /\ pc[w] = "writing" /\ writer = w /\ WritingOK(w) /\ Underway(w)
      /\ work.sessions = db.sessions /\ Sound(db) /\ Good(db)
      /\ pc \in [Workers -> {"closed", "idle", "sick"} \union InTransaction]
  BY DEF SaveProjection, IInv, InFlight, LockedOrClean, InTransaction, RInv,
         SoundFlight, TypeOK
<1>2. /\ TablesOK(work) /\ TablesOK(db) /\ c \in CommandRecords /\ s \in Sessions
  BY <1>1 DEF IInv, TypeOK, WritingOK, CommandRecords
<1>3. /\ work' = [work EXCEPT !.sessions[s] = ProjectionRow(work.log[s])]
      /\ db' = db /\ writer' = w /\ cmd' = cmd /\ pc'[w] = "projected"
  BY <1>1 DEF SaveProjection
<1>4. /\ work'.log = work.log /\ work'.requests = db.requests
      /\ work'.sessions = [db.sessions EXCEPT ![s] = ProjectionRow(work.log[s])]
      /\ db.sessions = [r \in Sessions |-> db.sessions[r]]
  <2>1. work.requests = db.requests
    BY <1>1 DEF WritingOK
  <2>. QED BY <1>1, <1>2, <1>3, <2>1 DEF TablesOK
<1>5. work.log[s] = whole
  <2>1. /\ db.log[s] \in Seq(Stored) /\ work.log[s] \in Seq(Stored)
        /\ n \in Nat /\ l \in Nat /\ Len(c.batch) \in Nat
        /\ c.batch \in Seq(Candidates)
    BY <1>2 DEF TablesOK, CommandRecords
  <2>2. l = n + Len(c.batch)
    <3>1. \A a, b, d \in Nat : b - a = d => b = a + d
      OBVIOUS
    <3>2. l - n = Len(c.batch)
      BY DEF SaveProjection, Written
    <3>. QED BY <2>1, <3>1, <3>2
  <2>3. Stamped(c, n) \in Seq(Stored) /\ Len(Stamped(c, n)) = Len(c.batch)
    <3>1. \A i \in 1..Len(c.batch) : Stamped(c, n)[i] \in Stored
      BY <1>2, <2>1, StampedType
    <3>2. DOMAIN c.batch = 1..Len(c.batch)
      BY <2>1
    <3>3. Stamped(c, n) = [i \in 1..Len(c.batch) |-> Stamped(c, n)[i]]
      BY <3>2 DEF Stamped
    <3>. HIDE DEF s, n, l
    <3>4. Stamped(c, n) \in [1..Len(c.batch) -> Stored]
      BY <3>1, <3>3
    <3>5. \A m \in Nat : \A q \in [1..m -> Stored] : q \in Seq(Stored) /\ Len(q) = m
      OBVIOUS
    <3>. QED BY <2>1, <3>4, <3>5
  <2>4. /\ whole \in Seq(Stored) /\ Len(whole) = l
        /\ \A i \in 1..l : whole[i] = IF i <= n THEN db.log[s][i] ELSE Stamped(c, n)[i - n]
    <3>1. /\ whole \in Seq(Stored) /\ Len(whole) = n + Len(Stamped(c, n))
          /\ \A i \in 1..(n + Len(Stamped(c, n))) :
               whole[i] = IF i <= n THEN db.log[s][i] ELSE Stamped(c, n)[i - n]
      BY <2>1, <2>3, ConcatProperties
    <3>. QED BY <2>2, <2>3, <3>1
  <2>5. ASSUME NEW i \in 1..l PROVE work.log[s][i] = whole[i]
    <3>1. CASE i <= n
      <4>1. i \in 1..n
        BY <2>1, <3>1
      <4>. QED BY <1>1, <2>4, <3>1, <4>1 DEF WritingOK
    <3>2. CASE ~(i <= n)
      <4>1. i - n \in 1..(l - n) /\ n + (i - n) = i
        BY <2>1, <3>2
      <4>2. work.log[s][n + (i - n)] = Stamped(c, n)[i - n]
        BY <1>1, <4>1 DEF Underway
      <4>. QED BY <2>4, <3>2, <4>1, <4>2
    <3>. QED BY <3>1, <3>2
  <2>. QED BY <2>1, <2>4, <2>5, SeqEqual
<1>6. Projects(work')
  <2>1. Project(work.log[s]) # None
    BY <1>1, <1>5 DEF Underway, Acceptable
  <2>2. \A r \in Sessions : r # s => work.log[r] = db.log[r]
    BY <1>1 DEF WritingOK
  <2>. QED BY <1>1, <1>4, <2>1, <2>2 DEF Sound, Projects
<1>7. RowsCurrent(work')
  <2>1. \A r \in Sessions : r # s => work.log[r] = db.log[r]
    BY <1>1 DEF WritingOK
  <2>2. \A r \in Sessions : work'.sessions[r] = IF r = s THEN ProjectionRow(work.log[s])
                                                ELSE db.sessions[r]
    BY <1>4
  <2>. QED BY <1>1, <1>4, <2>1, <2>2 DEF Sound, RowsCurrent
<1>8. TablesOK(work') /\ Preserves(db, work')
  <2>1. TablesOK(work')
    BY DEF IInv, TypeOK
  <2>2. /\ \A r \in Sessions : Len(db.log[r]) \in Nat
        /\ \A r \in Sessions : r # s => work.log[r] = db.log[r]
        /\ n <= l /\ \A i \in 1..n : work.log[s][i] = db.log[s][i]
        /\ \A id \in EventIds : db.outbox[id] = "dispatched" => work.outbox[id] = "dispatched"
    BY <1>1, <1>2 DEF WritingOK, TablesOK
  <2>3. \A r \in Sessions : /\ Len(db.log[r]) <= Len(work.log[r])
                            /\ \A i \in 1..Len(db.log[r]) : work.log[r][i] = db.log[r][i]
    BY <2>2
  <2>4. work'.outbox = work.outbox
    BY <1>2, <1>3 DEF TablesOK
  <2>. QED BY <1>4, <2>1, <2>2, <2>3, <2>4 DEF Preserves
<1>9. Expected(work')
  <2>. SUFFICES ASSUME NEW r \in Sessions, NEW k \in Keys, work'.requests[r][k] # None
                PROVE  VersionOf(SubSeq(work'.log[r], 1, work'.requests[r][k].first - 1))
                         = work'.requests[r][k].expected
    BY DEF Expected
  <2>1. db.requests[r][k] # None /\ work'.requests[r][k] = db.requests[r][k]
    BY <1>4
  <2>. QED BY <1>1, <1>2, <1>8, <2>1, ExpectedGrows DEF Sound
<1>10. Sound(work)'
  BY <1>6, <1>7, <1>9 DEF Sound, Projects, Expected, RowsCurrent
<1>11. c.op = "commit" => VersionOf(db.log[s]) = c.expected
  BY <1>1 DEF Underway
<1>12. SoundFlight(w)'
  BY <1>3, <1>10, <1>11 DEF SoundFlight
<1>13. Sound(db')
  BY <1>1, <1>3
<1>. QED BY <1>3, <1>12, <1>13, InsideOK

\* The new retry record names the history it was judged against.
LEMMA RecordRequestSound ==
    ASSUME IInv, IInv', RInv, NEW w \in Workers, RecordRequest(w)
    PROVE  RInv'
<1>. DEFINE c == cmd[w]
            s == c.session
            n == Len(db.log[s])
            row == [input |-> c.input, expected |-> c.expected, first |-> n + 1,
                    last |-> Len(work.log[s])]
<1>1. /\ pc[w] = "projected" /\ writer = w /\ WritingOK(w) /\ Sound(work) /\ Sound(db)
      /\ c.op = "commit" => VersionOf(db.log[s]) = c.expected
      /\ pc \in [Workers -> {"closed", "idle", "sick"} \union InTransaction]
  BY DEF RecordRequest, IInv, InFlight, LockedOrClean, InTransaction, RInv,
         SoundFlight, TypeOK
<1>2. /\ TablesOK(work) /\ TablesOK(db) /\ c \in CommandRecords /\ s \in Sessions
      /\ c.key \in Keys
  BY <1>1 DEF IInv, TypeOK, WritingOK, CommandRecords
<1>3. /\ work' = IF c.op = "commit"
                 THEN [work EXCEPT !.requests[s][c.key] = row] ELSE work
      /\ db' = db /\ writer' = w /\ cmd' = cmd /\ pc'[w] = "ready"
  BY <1>1 DEF RecordRequest
<1>4. Sound(db')
  BY <1>1, <1>3
<1>5. Sound(work')
  <2>1. CASE c.op # "commit"
    BY <1>1, <1>3, <2>1
  <2>2. CASE c.op = "commit"
    <3>1. row.first = n + 1 /\ row.expected = c.expected
      OBVIOUS
    <3>. HIDE DEF row
    <3>2. /\ work'.log = work.log /\ work'.sessions = work.sessions
          /\ work'.requests = [work.requests EXCEPT ![s][c.key] = row]
          /\ work.requests \in [Sessions -> [Keys -> RequestRows \union {None}]]
      BY <1>2, <1>3, <2>2 DEF TablesOK
    <3>3. \A r \in Sessions, k \in Keys :
             work'.requests[r][k] = IF r = s /\ k = c.key THEN row ELSE work.requests[r][k]
      BY <1>2, <3>2
    <3>4. SubSeq(work.log[s], 1, n) = db.log[s]
      <4>1. db.log[s] \in Seq(Stored) /\ work.log[s] \in Seq(Stored) /\ n \in Nat
        BY <1>2 DEF TablesOK
      <4>2. n <= Len(work.log[s]) /\ \A i \in 1..n : work.log[s][i] = db.log[s][i]
        BY <1>1 DEF WritingOK
      <4>3. SubSeq(db.log[s], 1, n) = SubSeq(work.log[s], 1, n)
        BY <4>1, <4>2, SubSeqAgrees
      <4>4. SubSeq(db.log[s], 1, n) = db.log[s]
        BY <4>1, SubSeqFull
      <4>. QED BY <4>3, <4>4
    <3>5. (n + 1) - 1 = n
      BY <1>2 DEF TablesOK
    <3>6. Expected(work')
      <4>. SUFFICES ASSUME NEW r \in Sessions, NEW k \in Keys, work'.requests[r][k] # None
                    PROVE  VersionOf(SubSeq(work'.log[r], 1, work'.requests[r][k].first - 1))
                             = work'.requests[r][k].expected
        BY DEF Expected
      <4>1. CASE r = s /\ k = c.key
        <5>1. work'.requests[r][k] = row /\ work'.log[r] = work.log[s]
          BY <3>2, <3>3, <4>1
        <5>2. row.first - 1 = n
          BY <3>1, <3>5
        <5>. QED BY <1>1, <2>2, <3>1, <3>4, <5>1, <5>2
      <4>2. CASE ~(r = s /\ k = c.key)
        BY <1>1, <3>2, <3>3, <4>2 DEF Sound, Expected
      <4>. QED BY <4>1, <4>2
    <3>7. Projects(work') /\ RowsCurrent(work')
      BY <1>1, <3>2 DEF Sound, Projects, RowsCurrent
    <3>. QED BY <3>6, <3>7 DEF Sound
  <2>. QED BY <2>1, <2>2
<1>6. Sound(work)'
  BY <1>5 DEF Sound, Projects, Expected, RowsCurrent
<1>7. SoundFlight(w)'
  BY <1>3, <1>6 DEF SoundFlight
<1>. QED BY <1>3, <1>4, <1>7, InsideOK

LEMMA MarkDispatchedSound ==
    ASSUME IInv, IInv', RInv, NEW w \in Workers, NEW id \in EventIds, MarkDispatched(w, id)
    PROVE  RInv'
<1>1. TablesOK(db) /\ pc \in [Workers -> {"closed", "idle", "sick"} \union InTransaction]
  BY DEF IInv, TypeOK
<1>2. CASE UNCHANGED <<db, work, writer, pc, cmd>>
  BY <1>2, SoundOutside
<1>3. CASE /\ writer' = w /\ work' = [db EXCEPT !.outbox[id] = "dispatched"]
           /\ pc' = [pc EXCEPT ![w] = "ready"] /\ UNCHANGED db
  <2>1. /\ work'.log = db.log /\ work'.sessions = db.sessions
        /\ work'.requests = db.requests /\ pc'[w] = "ready" /\ db' = db
    BY <1>1, <1>3 DEF TablesOK
  <2>2. Sound(work') /\ Sound(db')
    BY <2>1, SoundSame DEF RInv
  <2>3. Sound(work)'
    BY <2>2 DEF Sound, Projects, Expected, RowsCurrent
  <2>4. SoundFlight(w)'
    BY <2>1, <2>3 DEF SoundFlight
  <2>. QED BY <1>3, <2>2, <2>4, InsideOK
<1>. QED BY <1>2, <1>3 DEF MarkDispatched

\* Taking the lock writes nothing.
LEMMA BeginSound ==
    ASSUME IInv, IInv', RInv, NEW w \in Workers, NEW call,
           NEW at \in {"recovering", "begun"}, Begin(w, call, at), db' = db
    PROVE  RInv'
<1>1. pc \in [Workers -> {"closed", "idle", "sick"} \union InTransaction]
  BY DEF IInv, TypeOK
<1>2. writer' = w /\ pc'[w] = at
  BY <1>1 DEF Begin
<1>3. SoundFlight(w)'
  BY <1>2 DEF SoundFlight
<1>4. Sound(db')
  BY SoundSame DEF RInv
<1>. QED BY <1>2, <1>3, <1>4, InsideOK

\* COMMIT publishes what the worker had, or what was there.
LEMMA CommitSound ==
    ASSUME IInv, IInv', RInv, NEW w \in Workers, pc[w] = "ready",
           NEW t \in {db, work}, NEW next, End(w, t, next)
    PROVE  RInv'
<1>1. db' = t /\ writer' = None
  BY DEF End
<1>2. Sound(t)
  BY DEF RInv, SoundFlight
<1>3. Sound(db')
  BY <1>1, <1>2
<1>. QED BY <1>1, <1>3, LeftOK

\* The rows stay sound whatever happens.
LEMMA NextRInv == IInv /\ IInv' /\ RInv /\ [Next]_vars => RInv'
<1>. SUFFICES ASSUME IInv, IInv', RInv, [Next]_vars PROVE RInv'
  OBVIOUS
<1>1. CASE UNCHANGED vars
  BY <1>1, SoundOutside DEF vars
<1>2. ASSUME NEW w \in Workers, TransactionStep(w) PROVE RInv'
  <2>1. CASE StatementFails(w)
    BY <2>1, SoundRollback DEF StatementFails
  <2>2. CASE CommitUncertain(w) \/ CommitOk(w)
    BY <2>2, CommitSound DEF CommitUncertain, CommitOk
  <2>. QED BY <1>2, <2>1, <2>2, WriteEventSound, SaveProjectionSound, RecordRequestSound,
           DecideCommitSound, DecideAppendSound, RecoverSound DEF TransactionStep
<1>3. ASSUME NEW w \in Workers, BeginRecovery(w) PROVE RInv'
  BY <1>3, BeginSound DEF BeginRecovery
<1>4. ASSUME NEW w \in Workers, NEW c \in Commands, Submit(w, c) PROVE RInv'
  BY <1>4, BeginSound DEF Submit
<1>5. ASSUME NEW w \in Workers, RecoveryBusy(w) \/ Close(w) \/ Busy(w) PROVE RInv'
  <2>1. /\ UNCHANGED <<db, work, writer, cmd>>
        /\ pc \in [Workers -> {"closed", "idle", "sick"} \union InTransaction]
        /\ \E at \in {"closed", "sick", "idle"} : pc' = [pc EXCEPT ![w] = at]
    <3>1. pc \in [Workers -> {"closed", "idle", "sick"} \union InTransaction]
      BY DEF IInv, TypeOK
    <3>. QED BY <1>5, <3>1 DEF RecoveryBusy, Close, Busy
  <2>2. \A v \in Workers : pc'[v] # pc[v] => pc'[v] \notin InTransaction
    BY <2>1 DEF InTransaction
  <2>. QED BY <2>1, <2>2, SoundOutside
<1>6. ASSUME NEW w \in Workers, NEW id \in EventIds, MarkDispatched(w, id) PROVE RInv'
  BY <1>6, MarkDispatchedSound
<1>7. CASE Crash
  <2>1. db' = db /\ writer' = None
    BY <1>7 DEF Crash
  <2>2. Sound(db')
    BY <2>1, SoundSame DEF RInv
  <2>. QED BY <2>1, <2>2, LeftOK
<1>. QED BY <1>1, <1>2, <1>3, <1>4, <1>5, <1>6, <1>7 DEF Next

LEMMA InitRInv == Init => RInv
<1>. SUFFICES ASSUME Init PROVE RInv
  OBVIOUS
<1>1. \A s \in Sessions : db.log[s] = <<>> /\ db.sessions[s] = None
  BY DEF Init, EmptyTables
<1>2. \A s \in Sessions, k \in Keys : db.requests[s][k] = None
  BY DEF Init, EmptyTables
<1>3. Sound(db)
  BY <1>1, <1>2 DEF Sound, Projects, Expected, RowsCurrent, ProjectionRow
<1>4. \A w \in Workers : SoundFlight(w)
  BY DEF Init, SoundFlight
<1>. QED BY <1>3, <1>4 DEF RInv

\* In every reachable state the committed rows are sound, and so is what the
\* open transaction is about to commit.
THEOREM RowsSound == Spec => []RInv
BY InitRInv, NextRInv, Invariance, PTL DEF Spec

\* recover() never refuses what the store itself left on disk: a restart after
\* any crash, rollback or uncertain commit opens the database.
THEOREM NeverRefused == Spec => []AlwaysRecoverable
<1>1. IInv /\ RInv => AlwaysRecoverable
  BY SoundTrusted DEF IInv, TypeOK, RInv, AlwaysRecoverable
<1>. QED BY <1>1, Invariance, RowsSound, PTL

\* Readers of the sessions table see what the whole history projects to.
THEOREM ProjectionCorrect == Spec => []ProjectionCurrent
<1>1. RInv => ProjectionCurrent
  BY DEF RInv, Sound, RowsCurrent, ProjectionCurrent
<1>. QED BY <1>1, RowsSound, PTL

-----------------------------------------------------------------------------
(* Answers.                                                                 *)

\* The image t holds everything that the result r names.
Holds(t, r) ==
    LET last == r.first + Len(r.events) - 1
    IN /\ r.session \in Sessions /\ r.key \in Keys \union {None}
       /\ r.first \in Nat \ {0} /\ Len(r.events) \in Nat
       /\ last <= Len(t.log[r.session])
       /\ SubSeq(t.log[r.session], r.first, last) = r.events
       /\ r.key # None => /\ t.requests[r.session][r.key] # None
                          /\ t.requests[r.session][r.key].first = r.first
                          /\ t.requests[r.session][r.key].last = last

\* An answer that waits for its COMMIT speaks of the open transaction.
ReplyOK(w) == reply[w].kind = "result" =>
                  Holds(IF pc[w] = "ready" THEN work ELSE db, reply[w])

Answers == \A w \in Workers : ReplyOK(w)

\* What an image holds, it holds in every later one.
LEMMA HoldsOn ==
    ASSUME NEW t, TablesOK(t), NEW u, TablesOK(u), Preserves(t, u), NEW r, Holds(t, r)
    PROVE  Holds(u, r)
<1>. DEFINE s == r.session
            last == r.first + Len(r.events) - 1
<1>1. /\ s \in Sessions /\ r.first \in Nat \ {0} /\ Len(r.events) \in Nat
      /\ last <= Len(t.log[s]) /\ SubSeq(t.log[s], r.first, last) = r.events
  BY DEF Holds
<1>2. /\ t.log[s] \in Seq(Stored) /\ u.log[s] \in Seq(Stored)
      /\ Len(t.log[s]) \in Nat /\ Len(u.log[s]) \in Nat
  BY <1>1 DEF TablesOK
<1>3. /\ Len(t.log[s]) <= Len(u.log[s])
      /\ \A n \in 1..Len(t.log[s]) : u.log[s][n] = t.log[s][n]
  BY <1>1 DEF Preserves
<1>4. last \in Int
  BY <1>1
<1>5. SubSeq(t.log[s], r.first, last) = SubSeq(u.log[s], r.first, last)
  <2>. HIDE DEF s, last
  <2>. QED BY <1>1, <1>2, <1>3, <1>4, SubSeqAgrees
<1>6. last <= Len(u.log[s])
  <2>. HIDE DEF s, last
  <2>. QED BY <1>1, <1>2, <1>3, <1>4
<1>7. r.key # None => u.requests[s][r.key] = t.requests[s][r.key]
  BY DEF Holds, Preserves
<1>. QED BY <1>1, <1>5, <1>6, <1>7 DEF Holds

\* Holding depends on the histories and the retry records only.
LEMMA HoldsSame ==
    ASSUME NEW t, NEW u, u.log = t.log, u.requests = t.requests, NEW r, Holds(t, r)
    PROVE  Holds(u, r)
BY DEF Holds

\* A result that is read off an image is held by it.
LEMMA ResultHeld ==
    ASSUME TablesOK(work), NEW s \in Sessions, NEW k \in Keys \union {None},
           NEW first \in Nat \ {0}, NEW last \in Nat,
           first <= last + 1, last <= Len(work.log[s]),
           NEW t, TablesOK(t), t.log = work.log,
           k # None => /\ t.requests[s][k] # None
                       /\ t.requests[s][k].first = first
                       /\ t.requests[s][k].last = last
    PROVE  Holds(t, Result(s, k, first, last))
<1>. DEFINE r == Result(s, k, first, last)
            events == SubSeq(work.log[s], first, last)
<1>1. /\ r.session = s /\ r.key = k /\ r.first = first /\ r.events = events
  BY DEF Result
<1>2. Len(events) = last - first + 1
  <2>1. work.log[s] \in Seq(Stored) /\ first \in Int /\ last \in Int
    BY DEF TablesOK
  <2>2. \A i \in first..last : work.log[s][i] \in Stored
    BY <2>1
  <2>3. Len(events) = IF first <= last THEN last - first + 1 ELSE 0
    BY <2>1, <2>2, SubSeqProperties
  <2>. HIDE DEF events
  <2>. QED BY <2>3
<1>. HIDE DEF r, events
<1>3. Len(r.events) \in Nat /\ r.first + Len(r.events) - 1 = last
  BY <1>1, <1>2
<1>4. Holds(t, r)
  BY <1>1, <1>3 DEF Holds, events
<1>. QED BY <1>4 DEF r

\* A step of worker w that leaves the tables of the others in place, or moves
\* them on, keeps every answer that was already given.
LEMMA OthersKeep ==
    ASSUME IInv, IInv', Answers, NEW w \in Workers, Preserves(db, db'),
           \A v \in Workers \ {w} : reply'[v] = reply[v] /\ pc'[v] = pc[v],
           writer \in {w, None} \/ work' = work,
           ReplyOK(w)'
    PROVE  Answers'
<1>1. ASSUME NEW v \in Workers, v # w PROVE ReplyOK(v)'
  <2>1. reply'[v] = reply[v] /\ pc'[v] = pc[v]
    BY <1>1
  <2>2. TablesOK(db) /\ TablesOK(db')
    BY DEF IInv, TypeOK
  <2>3. ReplyOK(v)
    BY DEF Answers
  <2>4. CASE pc[v] = "ready"
    <3>1. writer = v /\ v # None
      BY <2>4, NoneAssumption DEF IInv, LockedOrClean, InTransaction
    <3>2. work' = work
      BY <1>1, <3>1
    <3>. QED BY <2>1, <2>3, <2>4, <3>2 DEF ReplyOK
  <2>5. CASE pc[v] # "ready"
    BY <2>1, <2>2, <2>3, <2>5, HoldsOn DEF ReplyOK
  <2>. QED BY <2>4, <2>5
<1>. QED BY <1>1 DEF Answers

\* A worker whose answer, if it has one, was given before and is out of any
\* COMMIT before and after the step.
LEMMA SameAnswer ==
    ASSUME IInv, IInv', Answers, NEW w \in Workers, db' = db, reply' = reply,
           pc[w] # "ready", pc'[w] # "ready"
    PROVE  ReplyOK(w)'
<1>1. ReplyOK(w)
  BY DEF Answers
<1>2. \A r : Holds(db, r) => Holds(db', r)
  BY HoldsSame
<1>. QED BY <1>1, <1>2 DEF ReplyOK

\* A worker that is told something other than a result.
LEMMA OtherAnswer ==
    ASSUME NEW w \in Workers, NEW r, r.kind # "result", IInv, Reply(w, r)
    PROVE  ReplyOK(w)'
<1>1. reply'[w] = r
  BY DEF IInv, TypeOK, Reply
<1>. QED BY <1>1 DEF ReplyOK

\* An answer that is held by the open transaction waits for its COMMIT.
LEMMA HeldReply ==
    ASSUME IInv, NEW w \in Workers, NEW r, reply' = [reply EXCEPT ![w] = r],
           pc'[w] = "ready", Holds(work', r)
    PROVE  ReplyOK(w)'
<1>1. reply'[w] = r
  BY DEF IInv, TypeOK
<1>. QED BY <1>1 DEF ReplyOK

LEMMA PreparedReply ==
    ASSUME IInv, NEW w \in Workers, NEW r, Prepare(w, r), Holds(work, r)
    PROVE  ReplyOK(w)'
<1>1. /\ reply' = [reply EXCEPT ![w] = r] /\ pc'[w] = "ready" /\ work' = work
  BY DEF Prepare, Reply, IInv, TypeOK
<1>. QED BY <1>1, HeldReply

\* A refused command is told why.
LEMMA RefusedReply ==
    ASSUME IInv, NEW w \in Workers, NEW code, Refuse(w, code)
    PROVE  ReplyOK(w)'
BY OtherAnswer DEF Refuse

\* A retry is answered with the range that its record names.
LEMMA DecideCommitReply ==
    ASSUME IInv, IInv', Answers, NEW w \in Workers, DecideCommit(w)
    PROVE  ReplyOK(w)'
<1>. DEFINE c == cmd[w]
            s == c.session
            row == work.requests[s][c.key]
            r == Result(s, c.key, row.first, row.last)
<1>1. /\ pc[w] = "begun" /\ work = db /\ c \in CommandRecords
      /\ TablesOK(work) /\ Good(work) /\ DOMAIN reply = Workers
      /\ pc \in [Workers -> {"closed", "idle", "sick"} \union InTransaction]
  BY DEF DecideCommit, IInv, InFlight, TypeOK
<1>2. ASSUME NEW kind \in {"conflict", "invalid"}, Rollback(w, kind, "idle")
      PROVE  ReplyOK(w)'
  BY <1>2, OtherAnswer DEF Rollback
<1>3. CASE Refuse(w, "TRAFFIC_CONFLICT") \/ Refuse(w, c.error)
  BY <1>3, RefusedReply
<1>4. CASE row # None /\ Prepare(w, r)
  <2>1. s \in Sessions /\ c.key \in Keys /\ c.key # None
    BY <1>1, NoneAssumption DEF CommandRecords
  <2>. DEFINE first == row.first
              last == row.last
  <2>2. row \in RequestRows
    <3>1. work.requests[s][c.key] \in RequestRows \union {None}
      BY <1>1, <2>1 DEF TablesOK
    <3>. QED BY <1>4, <3>1
  <2>3. 1 <= first /\ first <= last /\ last <= Len(work.log[s])
    <3>. HIDE DEF s, c, r
    <3>. QED BY <1>1, <1>4, <2>1 DEF Good, OncePerKeyIn
  <2>4. first \in Nat \ {0} /\ last \in Nat /\ first <= last + 1
    <3>1. \A q \in RequestRows : q.first \in Nat /\ q.last \in Nat
      BY DEF RequestRows
    <3>2. first \in Nat /\ last \in Nat
      BY <2>2, <3>1
    <3>. HIDE DEF first, last
    <3>. QED BY <2>3, <3>2
  <2>5. /\ work.requests[s][c.key] # None
        /\ work.requests[s][c.key].first = first
        /\ work.requests[s][c.key].last = last
    BY <1>4
  <2>6. Holds(work, r)
    <3>1. s \in Sessions /\ c.key \in Keys \union {None} /\ TablesOK(work)
      BY <1>1, <2>1
    <3>. HIDE DEF s, first, last
    <3>2. Holds(work, Result(s, c.key, first, last))
      BY <2>3, <2>4, <2>5, <3>1, ResultHeld
    <3>. QED BY <3>2 DEF first, last, s
  <2>. HIDE DEF r
  <2>. QED BY <1>4, <2>6, PreparedReply
<1>5. CASE StartWriting(w)
  <2>1. db' = db /\ reply' = reply /\ pc'[w] # "ready"
    BY <1>1, <1>5 DEF StartWriting
  <2>. QED BY <1>1, <2>1, SameAnswer
<1>. QED BY <1>2, <1>3, <1>4, <1>5 DEF DecideCommit

\* The exact retry of an append names a range of the history.
LEMMA DecideAppendReply ==
    ASSUME IInv, IInv', Answers, NEW w \in Workers, DecideAppend(w)
    PROVE  ReplyOK(w)'
<1>. DEFINE c == cmd[w]
            s == c.session
            first == c.expected + 1
            last == c.expected + Len(c.batch)
            r == Result(s, None, first, last)
<1>1. /\ pc[w] = "begun" /\ work = db /\ c \in CommandRecords
      /\ TablesOK(work) /\ DOMAIN reply = Workers
      /\ pc \in [Workers -> {"closed", "idle", "sick"} \union InTransaction]
  BY DEF DecideAppend, IInv, InFlight, TypeOK
<1>2. ASSUME NEW kind \in {"conflict", "invalid"}, Rollback(w, kind, "idle")
      PROVE  ReplyOK(w)'
  BY <1>2, OtherAnswer DEF Rollback
<1>3. CASE last <= Len(work.log[s]) /\ Prepare(w, r)
  <2>1. /\ s \in Sessions /\ c.expected \in Nat /\ Len(c.batch) \in Nat
    BY <1>1 DEF CommandRecords
  <2>2. first \in Nat \ {0} /\ last \in Nat /\ first <= last + 1
    <3>1. \A a, b \in Nat : a + 1 \in Nat \ {0} /\ a + b \in Nat /\ a + 1 <= a + b + 1
      OBVIOUS
    <3>. QED BY <2>1, <3>1
  <2>3. Holds(work, r)
    <3>1. last <= Len(work.log[s])
      BY <1>3
    <3>. HIDE DEF s, first, last
    <3>. QED BY <1>1, <2>1, <2>2, <3>1, ResultHeld
  <2>. HIDE DEF r
  <2>. QED BY <1>3, <2>3, PreparedReply
<1>4. CASE StartWriting(w)
  <2>1. db' = db /\ reply' = reply /\ pc'[w] # "ready"
    BY <1>1, <1>4 DEF StartWriting
  <2>. QED BY <1>1, <2>1, SameAnswer
<1>. QED BY <1>2, <1>3, <1>4 DEF DecideAppend

\* A command that took effect is answered with the range just written.
LEMMA RecordRequestReply ==
    ASSUME IInv, IInv', Answers, NEW w \in Workers, RecordRequest(w)
    PROVE  ReplyOK(w)'
<1>. DEFINE c == cmd[w]
            s == c.session
            first == Len(db.log[s]) + 1
            last == Len(work.log[s])
            row == [input |-> c.input, expected |-> c.expected, first |-> first,
                    last |-> last]
            k == KeyOf(c)
            r == Result(s, k, first, last)
<1>1. /\ pc[w] = "projected" /\ WritingOK(w) /\ Len(db.log[s]) < last
      /\ c \in CommandRecords /\ TablesOK(work) /\ TablesOK(db) /\ TablesOK(work')
      /\ DOMAIN reply = Workers
      /\ pc \in [Workers -> {"closed", "idle", "sick"} \union InTransaction]
  <2>1. pc[w] = "projected"
    BY DEF RecordRequest
  <2>2. WritingOK(w) /\ Len(db.log[s]) < last
    BY <2>1 DEF IInv, InFlight
  <2>3. c \in CommandRecords
    BY <2>2 DEF WritingOK
  <2>4. /\ TablesOK(work) /\ TablesOK(db) /\ TablesOK(work') /\ DOMAIN reply = Workers
        /\ pc \in [Workers -> {"closed", "idle", "sick"} \union InTransaction]
    BY DEF IInv, TypeOK
  <2>. QED BY <2>1, <2>2, <2>3, <2>4
<1>2. /\ s \in Sessions /\ c.key \in Keys /\ c.op \in {"commit", "append"}
      /\ k \in Keys \union {None} /\ (k # None <=> c.op = "commit")
      /\ k # None => k = c.key
  BY <1>1, NoneAssumption DEF CommandRecords, KeyOf
<1>3. Len(db.log[s]) \in Nat /\ last \in Nat
  BY <1>1, <1>2 DEF TablesOK
<1>4. first \in Nat \ {0} /\ first <= last + 1
  <2>1. \A a, b \in Nat : a < b => a + 1 \in Nat \ {0} /\ a + 1 <= b + 1
    OBVIOUS
  <2>. QED BY <1>1, <1>3, <2>1
<1>5. row.first = first /\ row.last = last
  OBVIOUS
<1>. HIDE DEF row
<1>6. work'.log = work.log /\ (k # None => work'.requests[s][k] = row)
  <2>1. work' = IF c.op = "commit"
                THEN [work EXCEPT !.requests[s][c.key] = row] ELSE work
    BY DEF RecordRequest, row
  <2>2. work.requests \in [Sessions -> [Keys -> RequestRows \union {None}]]
    BY <1>1 DEF TablesOK
  <2>3. CASE c.op = "commit"
    <3>1. /\ work'.log = work.log
          /\ work'.requests = [work.requests EXCEPT ![s][c.key] = row]
      BY <1>1, <2>1, <2>3 DEF TablesOK
    <3>. QED BY <1>2, <2>2, <2>3, <3>1
  <2>4. CASE c.op # "commit"
    BY <1>2, <2>1, <2>4
  <2>. QED BY <2>3, <2>4
<1>7. k # None => row # None
  <2>1. CASE k # None
    <3>1. k \in Keys /\ c.input \in Inputs /\ c.expected \in Nat
      BY <1>1, <1>2, <2>1 DEF CommandRecords
    <3>2. row \in RequestRows
      BY <1>3, <1>4, <3>1 DEF row, RequestRows
    <3>. QED BY <3>2, NoneAssumption
  <2>. QED BY <2>1
<1>8. Holds(work', r)
  <2>1. k # None => /\ work'.requests[s][k] # None
                    /\ work'.requests[s][k].first = first
                    /\ work'.requests[s][k].last = last
    BY <1>5, <1>6, <1>7
  <2>2. last <= Len(work.log[s])
    BY <1>3
  <2>. HIDE DEF s, k, first, last
  <2>. QED BY <1>1, <1>2, <1>3, <1>4, <1>6, <2>1, <2>2, ResultHeld
<1>9. reply' = [reply EXCEPT ![w] = r] /\ pc'[w] = "ready"
  BY <1>1 DEF RecordRequest, Reply
<1>. HIDE DEF r
<1>. QED BY <1>8, <1>9, HeldReply

\* COMMIT makes durable what the worker answers.
LEMMA CommitOkReply ==
    ASSUME IInv, IInv', Answers, NEW w \in Workers, CommitOk(w)
    PROVE  ReplyOK(w)'
<1>1. pc[w] = "ready" /\ db' = work /\ reply' = reply /\ pc'[w] # "ready"
  BY DEF CommitOk, End, IInv, TypeOK
<1>2. ReplyOK(w)
  BY DEF Answers
<1>. QED BY <1>1, <1>2 DEF ReplyOK

\* Every answer stays true whatever the other workers do.
LEMMA NextAnswers == IInv /\ IInv' /\ Answers /\ [Next]_vars => Answers'
<1>. SUFFICES ASSUME IInv, IInv', Answers, [Next]_vars PROVE Answers'
  OBVIOUS
<1>1. CASE UNCHANGED vars
  <2>1. \A r : Holds(db, r) => Holds(db', r)
    BY <1>1 DEF vars
  <2>2. \A r : Holds(work, r) => Holds(work', r)
    BY <1>1 DEF vars
  <2>. QED BY <1>1, <2>1, <2>2 DEF Answers, ReplyOK, vars
<1>2. CASE Crash
  BY <1>2 DEF Crash, Answers, ReplyOK
<1>3. Preserves(db, db')
  <2>1. CASE UNCHANGED vars
    BY <2>1, PreservesRefl DEF vars, IInv, TypeOK, Preserves
  <2>2. CASE ~UNCHANGED vars
    BY <2>2, StepPreserves
  <2>. QED BY <2>1, <2>2
<1>4. /\ DOMAIN reply = Workers
      /\ pc \in [Workers -> {"closed", "idle", "sick"} \union InTransaction]
  BY DEF IInv, TypeOK
<1>5. ASSUME NEW w \in Workers, TransactionStep(w) PROVE Answers'
  <2>1. writer = w
    <3>1. pc[w] \in InTransaction
      BY <1>5 DEF TransactionStep, StatementFails, CommitUncertain, CommitOk, WriteEvent,
         SaveProjection, RecordRequest, DecideCommit, DecideAppend, Recover, InTransaction
    <3>. QED BY <3>1 DEF IInv, LockedOrClean
  <2>2. \A v \in Workers \ {w} : reply'[v] = reply[v] /\ pc'[v] = pc[v]
    BY <1>4, <1>5 DEF TransactionStep, StatementFails, CommitUncertain, CommitOk,
       WriteEvent, SaveProjection, RecordRequest, DecideCommit, DecideAppend, Recover,
       Rollback, Refuse, Prepare, StartWriting, End, Reply
  <2>3. ReplyOK(w)'
    <3>1. CASE StatementFails(w) \/ CommitUncertain(w)
      BY <3>1, OtherAnswer DEF StatementFails, CommitUncertain, Rollback
    <3>2. CASE WriteEvent(w)
      <4>1. CASE Rollback(w, "conflict", "idle")
        BY <4>1, OtherAnswer DEF Rollback
      <4>2. CASE db' = db /\ pc' = pc /\ reply' = reply
        BY <3>2, <4>2, SameAnswer DEF WriteEvent
      <4>. QED BY <3>2, <4>1, <4>2 DEF WriteEvent
    <3>3. CASE SaveProjection(w)
      <4>1. db' = db /\ reply' = reply /\ pc[w] # "ready" /\ pc'[w] # "ready"
        BY <1>4, <3>3 DEF SaveProjection
      <4>. QED BY <4>1, SameAnswer
    <3>4. CASE Recover(w)
      BY <3>4, OtherAnswer DEF Recover, Rollback
    <3>. QED BY <1>5, <3>1, <3>2, <3>3, <3>4, CommitOkReply, RecordRequestReply,
             DecideCommitReply, DecideAppendReply DEF TransactionStep
  <2>4. writer \in {w, None} \/ work' = work
    BY <2>1
  <2>. QED BY <1>3, <2>2, <2>3, <2>4, OthersKeep
<1>6. ASSUME NEW w \in Workers,
             \/ BeginRecovery(w) \/ RecoveryBusy(w) \/ Close(w)
             \/ \E c \in Commands : Submit(w, c)
             \/ Busy(w)
             \/ \E id \in EventIds : MarkDispatched(w, id)
      PROVE  Answers'
  <2>1. /\ \A v \in Workers \ {w} : reply'[v] = reply[v] /\ pc'[v] = pc[v]
        /\ pc[w] # "ready" /\ db' = db
    BY <1>4, <1>6 DEF BeginRecovery, RecoveryBusy, Close, Submit, Busy, MarkDispatched,
       Begin, Reply
  <2>2. ReplyOK(w)'
    <3>1. CASE BeginRecovery(w) \/ Close(w) \/ \E c \in Commands : Submit(w, c)
      <4>1. reply' = reply /\ pc'[w] # "ready"
        BY <1>4, <3>1 DEF BeginRecovery, Close, Submit, Begin
      <4>. QED BY <2>1, <4>1, SameAnswer
    <3>2. CASE RecoveryBusy(w) \/ Busy(w)
      BY <3>2, OtherAnswer DEF RecoveryBusy, Busy
    <3>3. ASSUME NEW id \in EventIds, MarkDispatched(w, id) PROVE ReplyOK(w)'
      BY <3>3, OtherAnswer DEF MarkDispatched
    <3>. QED BY <1>6, <3>1, <3>2, <3>3
  <2>3. writer \in {w, None} \/ work' = work
    BY <1>6 DEF BeginRecovery, RecoveryBusy, Close, Submit, Busy, MarkDispatched, Begin
  <2>. QED BY <1>3, <2>1, <2>2, <2>3, OthersKeep
<1>. QED BY <1>1, <1>2, <1>5, <1>6 DEF Next

\* In every reachable state an answer that was given is held by the database.
THEOREM AnswersHeld == Spec => []Answers
<1>1. Init => Answers
  BY DEF Init, Answers, ReplyOK
<1>. QED BY <1>1, NextAnswers, Invariance, PTL DEF Spec

\* What a caller was told is durable: no later command, rollback, uncertain
\* commit, recovery or crash of another connection takes it back.
THEOREM AcknowledgementDurable == Spec => []AcknowledgedIsDurable
<1>1. Answers => AcknowledgedIsDurable
  BY DEF Answers, ReplyOK, Holds, AcknowledgedIsDurable, Acknowledged
<1>. QED BY <1>1, AnswersHeld, PTL

-----------------------------------------------------------------------------
(* The transactions of the SQLite store implement the abstract log: every     *)
(* step of a worker, and every crash, is one atomic effect or none.           *)

\* The same events are marked as dispatched.
SameMarks(t, u) ==
    \A id \in EventIds : u.outbox[id] = "dispatched" <=> t.outbox[id] = "dispatched"

\* u is t with more events of key k in session s, and the answer of k if there is one.
Grown(t, u, s, k) ==
    /\ Len(t.log[s]) < Len(u.log[s])
    /\ \A n \in 1..Len(t.log[s]) : u.log[s][n] = t.log[s][n]
    /\ \A n \in (Len(t.log[s]) + 1)..Len(u.log[s]) : u.log[s][n].key = k
    /\ \A r \in Sessions \ {s} : u.log[r] = t.log[r]
    /\ k = None => u.requests = t.requests
    /\ k # None =>
         /\ t.requests[s][k] = None
         /\ \E row \in RequestRows :
              /\ row.first = Len(t.log[s]) + 1 /\ row.last = Len(u.log[s])
              /\ u.requests = [t.requests EXCEPT ![s][k] = row]
    /\ SameMarks(t, u)

\* u is t with the n-th event of session s marked.
Marked(t, u, s, n) ==
    /\ u.log = t.log /\ u.requests = t.requests
    /\ u.outbox = [t.outbox EXCEPT ![t.log[s][n].id] = "dispatched"]

Quiet(t, u) == u.log = t.log /\ u.requests = t.requests /\ SameMarks(t, u)

\* What a transaction that is ready to commit amounts to.
Effect(t, u) ==
    \/ Quiet(t, u)
    \/ \E s \in Sessions, k \in Keys \union {None} : Grown(t, u, s, k)
    \/ \E s \in Sessions : \E n \in 1..Len(t.log[s]) : Marked(t, u, s, n)

EffectFlight(w) ==
    /\ pc[w] \in {"writing", "projected"} => SameMarks(db, work)
    /\ pc[w] = "ready" => Effect(db, work)

FInv == \A w \in Workers : EffectFlight(w)

-----------------------------------------------------------------------------
(* The invariant.                                                           *)

\* Nobody but w can be inside a transaction.
LEMMA FlightOK ==
    ASSUME IInv', NEW w \in Workers, writer' \in {w, None}, EffectFlight(w)'
    PROVE  FInv'
<1>1. \A v \in Workers : v # w => pc'[v] \notin InTransaction
  BY NoneAssumption DEF IInv, LockedOrClean
<1>2. \A v \in Workers : EffectFlight(v)'
  BY <1>1 DEF EffectFlight, InTransaction
<1>. QED BY <1>2 DEF FInv

\* A step that ends every transaction.
LEMMA FlightEnds ==
    ASSUME IInv', writer' = None
    PROVE  FInv'
<1>1. \A v \in Workers : pc'[v] \notin InTransaction
  BY NoneAssumption DEF IInv, LockedOrClean
<1>. QED BY <1>1 DEF FInv, EffectFlight, InTransaction

\* A step outside any transaction.
LEMMA FlightOutside ==
    ASSUME FInv, UNCHANGED <<db, work>>,
           \A v \in Workers : pc'[v] # pc[v] => pc'[v] \notin InTransaction
    PROVE  FInv'
<1>1. SameMarks(db, work) => SameMarks(db, work)'
  BY DEF SameMarks
<1>2. Effect(db, work) => Effect(db, work)'
  BY DEF Effect, Quiet, Grown, Marked, SameMarks
<1>. QED BY <1>1, <1>2 DEF FInv, EffectFlight, InTransaction

\* An effect in primed tables.
LEMMA EffectPrimed ==
    ASSUME NEW t, NEW u, db' = t, work' = u
    PROVE  (SameMarks(t, u) => SameMarks(db, work)') /\ (Effect(t, u) => Effect(db, work)')
BY DEF Effect, Quiet, Grown, Marked, SameMarks

LEMMA WriteEventFlight ==
    ASSUME IInv, IInv', FInv, NEW w \in Workers, WriteEvent(w)
    PROVE  FInv'
<1>. DEFINE c == cmd[w]
            s == c.session
            e == Stamped(c, Len(db.log[s]))[Written(w) + 1]
<1>1. pc[w] = "writing" /\ writer = w /\ TablesOK(work) /\ SameMarks(db, work) /\ IntentsIn(work)
  BY DEF WriteEvent, IInv, InFlight, WritingOK, LockedOrClean, InTransaction, FInv,
         EffectFlight, TypeOK
<1>2. CASE Rollback(w, "conflict", "idle")
  BY <1>2, FlightEnds DEF Rollback, End
<1>3. CASE /\ e.id \notin StoredIds(work)
           /\ work' = [work EXCEPT !.log[s] = Append(@, e), !.outbox[e.id] = "pending"]
           /\ UNCHANGED <<db, writer, pc, cmd, reply>>
  <2>. HIDE DEF e
  <2>1. work'.outbox = [work.outbox EXCEPT ![e.id] = "pending"]
    BY <1>1, <1>3 DEF TablesOK
  <2>2. ASSUME NEW id \in EventIds
        PROVE  work'.outbox[id] = "dispatched" <=> work.outbox[id] = "dispatched"
    <3>1. CASE id = e.id
      <4>1. work.outbox[id] = "absent" /\ work'.outbox[id] = "pending"
        BY <1>1, <1>3, <2>1, <3>1 DEF IntentsIn, TablesOK
      <4>. QED BY <4>1
    <3>2. CASE id # e.id
      BY <1>1, <2>1, <3>2 DEF TablesOK
    <3>. QED BY <3>1, <3>2
  <2>3. SameMarks(db, work)'
    BY <1>1, <1>3, <2>2 DEF SameMarks
  <2>4. EffectFlight(w)' /\ writer' = w
    BY <1>1, <1>3, <2>3 DEF EffectFlight
  <2>. QED BY <2>4, FlightOK
<1>. QED BY <1>2, <1>3 DEF WriteEvent, IdTaken

LEMMA SaveProjectionFlight ==
    ASSUME IInv, IInv', FInv, NEW w \in Workers, SaveProjection(w)
    PROVE  FInv'
<1>1. /\ pc[w] = "writing" /\ writer = w /\ TablesOK(work) /\ SameMarks(db, work)
      /\ pc \in [Workers -> {"closed", "idle", "sick"} \union InTransaction]
  BY DEF SaveProjection, IInv, LockedOrClean, InTransaction, FInv, EffectFlight, TypeOK
<1>2. db' = db /\ work'.outbox = work.outbox /\ pc'[w] = "projected" /\ writer' = w
  BY <1>1 DEF SaveProjection, TablesOK
<1>3. SameMarks(db, work)'
  BY <1>1, <1>2 DEF SameMarks
<1>4. EffectFlight(w)'
  BY <1>2, <1>3 DEF EffectFlight
<1>. QED BY <1>2, <1>4, FlightOK

LEMMA RecordRequestFlight ==
    ASSUME IInv, IInv', FInv, NEW w \in Workers, RecordRequest(w)
    PROVE  FInv'
<1>. DEFINE c == cmd[w]
            s == c.session
            row == [input |-> c.input, expected |-> c.expected,
                    first |-> Len(db.log[s]) + 1, last |-> Len(work.log[s])]
            k == KeyOf(c)
<1>1. /\ pc[w] = "projected" /\ writer = w /\ WritingOK(w) /\ Len(db.log[s]) < Len(work.log[s])
      /\ SameMarks(db, work) /\ TablesOK(work) /\ TablesOK(db) /\ c \in CommandRecords
      /\ pc \in [Workers -> {"closed", "idle", "sick"} \union InTransaction]
  <2>1. pc[w] = "projected"
    BY DEF RecordRequest
  <2>2. WritingOK(w) /\ Len(db.log[s]) < Len(work.log[s]) /\ writer = w
    BY <2>1 DEF IInv, InFlight, LockedOrClean, InTransaction
  <2>3. SameMarks(db, work)
    BY <2>1 DEF FInv, EffectFlight
  <2>4. /\ TablesOK(work) /\ TablesOK(db)
        /\ pc \in [Workers -> {"closed", "idle", "sick"} \union InTransaction]
    BY DEF IInv, TypeOK
  <2>5. c \in CommandRecords
    BY <2>2 DEF WritingOK
  <2>. QED BY <2>1, <2>2, <2>3, <2>4, <2>5
<1>2. /\ s \in Sessions /\ c.key \in Keys /\ c.op \in {"commit", "append"}
      /\ k \in Keys \union {None} /\ (k # None <=> c.op = "commit")
      /\ k # None => k = c.key
  BY <1>1, NoneAssumption DEF CommandRecords, KeyOf
<1>3. row \in RequestRows
  <2>1. Len(db.log[s]) + 1 \in Nat /\ Len(work.log[s]) \in Nat
    BY <1>1, <1>2 DEF TablesOK
  <2>2. c.input \in Inputs /\ c.expected \in Nat
    BY <1>1 DEF CommandRecords
  <2>. QED BY <2>1, <2>2 DEF RequestRows
<1>4. row.first = Len(db.log[s]) + 1 /\ row.last = Len(work.log[s])
  OBVIOUS
<1>5. /\ work' = IF c.op = "commit"
                 THEN [work EXCEPT !.requests[s][c.key] = row] ELSE work
      /\ db' = db /\ writer' = w /\ pc'[w] = "ready"
  BY <1>1 DEF RecordRequest
<1>. HIDE DEF row
<1>6. /\ work'.log = work.log /\ work'.outbox = work.outbox
      /\ k = None => work'.requests = work.requests
      /\ k # None => work'.requests = [work.requests EXCEPT ![s][k] = row]
  BY <1>1, <1>2, <1>5 DEF TablesOK
<1>7. /\ work.requests = db.requests /\ (k # None => db.requests[s][k] = None)
      /\ \A n \in 1..Len(db.log[s]) : work.log[s][n] = db.log[s][n]
      /\ \A n \in (Len(db.log[s]) + 1)..Len(work.log[s]) : work.log[s][n].key = k
      /\ \A r \in Sessions \ {s} : work.log[r] = db.log[r]
  BY <1>1, <1>2 DEF WritingOK
<1>8. Grown(db, work', s, k)
  <2>1. SameMarks(db, work')
    BY <1>1, <1>6 DEF SameMarks
  <2>. HIDE DEF s, k
  <2>. QED BY <1>1, <1>3, <1>4, <1>6, <1>7, <2>1 DEF Grown
<1>9. Effect(db, work)'
  <2>1. Effect(db, work')
    BY <1>2, <1>8 DEF Effect
  <2>. QED BY <1>5, <2>1, EffectPrimed
<1>10. EffectFlight(w)'
  BY <1>5, <1>9 DEF EffectFlight
<1>. QED BY <1>5, <1>10, FlightOK

\* A transaction that leaves logs, answers and marks as they are.
LEMMA QuietFlight ==
    ASSUME IInv', NEW w \in Workers, writer' = w, db' = db,
           work'.log = db.log, work'.requests = db.requests, work'.outbox = db.outbox
    PROVE  FInv'
<1>1. Quiet(db, work') /\ SameMarks(db, work')
  BY DEF Quiet, SameMarks
<1>2. Effect(db, work)' /\ SameMarks(db, work)'
  BY <1>1, EffectPrimed DEF Effect
<1>3. EffectFlight(w)'
  BY <1>2 DEF EffectFlight
<1>. QED BY <1>3, FlightOK

LEMMA MarkDispatchedFlight ==
    ASSUME IInv, IInv', FInv, NEW w \in Workers, NEW id \in EventIds, MarkDispatched(w, id)
    PROVE  FInv'
<1>1. CASE UNCHANGED <<db, work, writer, pc, cmd>>
  BY <1>1, FlightOutside
<1>2. ASSUME NEW s \in Sessions, NEW n \in DOMAIN db.log[s], db.log[s][n].id = id,
             writer' = w, work' = [db EXCEPT !.outbox[id] = "dispatched"],
             pc' = [pc EXCEPT ![w] = "ready"], UNCHANGED db
      PROVE  FInv'
  <2>1. TablesOK(db)
    BY DEF IInv, TypeOK
  <2>2. n \in 1..Len(db.log[s])
    BY <2>1 DEF TablesOK
  <2>3. Marked(db, work', s, n)
    BY <1>2, <2>1 DEF Marked, TablesOK
  <2>4. Effect(db, work)'
    <3>1. Effect(db, work')
      BY <2>2, <2>3 DEF Effect
    <3>. QED BY <1>2, <3>1, EffectPrimed
  <2>5. pc'[w] = "ready"
    BY <1>2 DEF IInv, TypeOK
  <2>6. EffectFlight(w)'
    BY <2>4, <2>5 DEF EffectFlight
  <2>. QED BY <1>2, <2>6, FlightOK
<1>. QED BY <1>1, <1>2 DEF MarkDispatched

\* What is ready to commit is always an effect.
LEMMA NextFInv == IInv /\ IInv' /\ FInv /\ [Next]_vars => FInv'
<1>. SUFFICES ASSUME IInv, IInv', FInv, [Next]_vars PROVE FInv'
  OBVIOUS
<1>1. CASE UNCHANGED vars
  BY <1>1, FlightOutside DEF vars
<1>2. CASE Crash
  BY <1>2, FlightEnds DEF Crash
<1>3. ASSUME NEW w \in Workers, TransactionStep(w) PROVE FInv'
  <2>1. CASE StatementFails(w) \/ CommitUncertain(w) \/ CommitOk(w)
    BY <2>1, FlightEnds DEF StatementFails, CommitUncertain, CommitOk, Rollback, End
  <2>2. CASE Recover(w) \/ DecideCommit(w) \/ DecideAppend(w)
    <3>1. /\ writer = w /\ work = db /\ TablesOK(db)
      BY <2>2 DEF Recover, DecideCommit, DecideAppend, IInv, InFlight, LockedOrClean,
         InTransaction, TypeOK
    <3>2. CASE writer' = None
      BY <3>2, FlightEnds
    <3>3. CASE /\ writer' = writer /\ db' = db
               /\ work' \in {work, [work EXCEPT !.sessions =
                                      [s \in Sessions |-> ProjectionRow(work.log[s])]]}
      <4>1. /\ work'.log = db.log /\ work'.requests = db.requests
            /\ work'.outbox = db.outbox
        BY <3>1, <3>3 DEF TablesOK
      <4>. QED BY <3>1, <3>3, <4>1, QuietFlight
    <3>. QED BY <2>2, <3>2, <3>3 DEF Recover, DecideCommit, DecideAppend, Rollback, Refuse,
             End, Prepare, StartWriting
  <2>. QED BY <1>3, <2>1, <2>2, WriteEventFlight, SaveProjectionFlight,
           RecordRequestFlight DEF TransactionStep
<1>4. ASSUME NEW w \in Workers, BeginRecovery(w) \/ \E c \in Commands : Submit(w, c)
      PROVE  FInv'
  <2>1. /\ writer' = w /\ work' = db /\ db' = db
    BY <1>4 DEF BeginRecovery, Submit, Begin
  <2>. QED BY <2>1, QuietFlight
<1>5. ASSUME NEW w \in Workers, RecoveryBusy(w) \/ Close(w) \/ Busy(w) PROVE FInv'
  <2>1. /\ UNCHANGED <<db, work>>
        /\ pc \in [Workers -> {"closed", "idle", "sick"} \union InTransaction]
        /\ \E at \in {"closed", "sick", "idle"} : pc' = [pc EXCEPT ![w] = at]
    <3>1. pc \in [Workers -> {"closed", "idle", "sick"} \union InTransaction]
      BY DEF IInv, TypeOK
    <3>. QED BY <1>5, <3>1 DEF RecoveryBusy, Close, Busy
  <2>2. \A v \in Workers : pc'[v] # pc[v] => pc'[v] \notin InTransaction
    BY <2>1 DEF InTransaction
  <2>. QED BY <2>1, <2>2, FlightOutside
<1>6. ASSUME NEW w \in Workers, NEW id \in EventIds, MarkDispatched(w, id) PROVE FInv'
  BY <1>6, MarkDispatchedFlight
<1>. QED BY <1>1, <1>2, <1>3, <1>4, <1>5, <1>6 DEF Next

-----------------------------------------------------------------------------
(* One effect is one step of the abstract log.                              *)

\* The places of session s that are marked.
Places(t, s) == {n \in DOMAIN t.log[s] : t.outbox[t.log[s][n].id] = "dispatched"}

AnswersOf(t) == [s \in Sessions |-> [k \in Keys |-> Answer(t.requests[s][k])]]
PublishedOf(t) == [s \in Sessions |-> Cardinality(Places(t, s))]

\* A session's marked places are finitely many, among its places.
LEMMA PlacesFinite ==
    ASSUME NEW t, TablesOK(t), NEW s \in Sessions
    PROVE  /\ IsFiniteSet(Places(t, s)) /\ Cardinality(Places(t, s)) \in Nat
           /\ Places(t, s) \subseteq 1..Len(t.log[s])
           /\ \A n \in 1..Len(t.log[s]) \ Places(t, s) :
                 Cardinality(Places(t, s)) < Len(t.log[s])
<1>. DEFINE l == Len(t.log[s])
            P == Places(t, s)
<1>1. l \in Nat /\ DOMAIN t.log[s] = 1..l
  BY DEF TablesOK
<1>2. P \subseteq 1..l
  BY <1>1 DEF Places
<1>. HIDE DEF P, l
<1>3. IsFiniteSet(1..l) /\ Cardinality(1..l) = l
  <2>1. IsFiniteSet(1..l) /\ Cardinality(1..l) = IF 1 > l THEN 0 ELSE l - 1 + 1
    BY <1>1, FS_Interval
  <2>. QED BY <1>1, <2>1
<1>4. /\ IsFiniteSet(P) /\ Cardinality(P) <= l
      /\ Cardinality(1..l) = Cardinality(P) => 1..l = P
  BY <1>2, <1>3, FS_Subset
<1>5. Cardinality(P) \in Nat
  BY <1>4, FS_CardinalityType
<1>6. \A n \in (1..l) \ P : Cardinality(P) < l
  BY <1>1, <1>3, <1>4, <1>5
<1>. QED BY <1>2, <1>4, <1>5, <1>6 DEF P, l

\* New events are pending, and old ones keep their marks.
LEMMA SamePlaces ==
    ASSUME NEW t, TablesOK(t), IntentsIn(t), NEW u, TablesOK(u), UniqueIdsIn(u),
           SameMarks(t, u), NEW s \in Sessions,
           Len(t.log[s]) <= Len(u.log[s]),
           \A n \in 1..Len(t.log[s]) : u.log[s][n] = t.log[s][n],
           \A r \in Sessions \ {s} : u.log[r] = t.log[r],
           NEW r \in Sessions
    PROVE  Places(u, r) = Places(t, r)
<1>1. \A q \in Sessions : /\ Len(t.log[q]) \in Nat /\ Len(u.log[q]) \in Nat
                          /\ DOMAIN t.log[q] = 1..Len(t.log[q])
                          /\ DOMAIN u.log[q] = 1..Len(u.log[q])
                          /\ \A n \in 1..Len(u.log[q]) : u.log[q][n].id \in EventIds
  <2>. SUFFICES ASSUME NEW q \in Sessions
                PROVE  /\ Len(t.log[q]) \in Nat /\ Len(u.log[q]) \in Nat
                       /\ DOMAIN t.log[q] = 1..Len(t.log[q])
                       /\ DOMAIN u.log[q] = 1..Len(u.log[q])
                       /\ \A n \in 1..Len(u.log[q]) : u.log[q][n].id \in EventIds
    OBVIOUS
  <2>1. t.log[q] \in Seq(Stored) /\ u.log[q] \in Seq(Stored)
    BY DEF TablesOK
  <2>2. \A n \in 1..Len(u.log[q]) : u.log[q][n] \in Stored
    BY <2>1
  <2>. QED BY <2>1, <2>2 DEF Stored
<1>2. CASE r # s
  BY <1>1, <1>2 DEF Places, SameMarks
<1>3. CASE r = s
  <2>1. ASSUME NEW n \in 1..Len(u.log[s]), n \notin 1..Len(t.log[s])
        PROVE  u.outbox[u.log[s][n].id] # "dispatched"
    <3>. DEFINE id == u.log[s][n].id
    <3>1. id \in EventIds
      BY <1>1
    <3>2. ASSUME NEW q \in Sessions, NEW m \in 1..Len(t.log[q]), t.log[q][m].id = id
          PROVE  FALSE
      <4>1. m \in 1..Len(u.log[q]) /\ u.log[q][m].id = id
        <5>1. CASE q = s
          BY <1>1, <3>2, <5>1
        <5>2. CASE q # s
          BY <1>1, <3>2, <5>2
        <5>. QED BY <5>1, <5>2
      <4>2. q = s /\ m = n
        BY <4>1 DEF UniqueIdsIn
      <4>. QED BY <2>1, <3>2, <4>2
    <3>3. id \notin StoredIds(t)
      BY <3>2, StoredIdsMember
    <3>4. t.outbox[id] = "absent"
      BY <3>1, <3>3 DEF IntentsIn
    <3>. QED BY <3>1, <3>4 DEF SameMarks
  <2>2. \A n \in 1..Len(t.log[s]) :
           /\ n \in 1..Len(u.log[s])
           /\ u.outbox[u.log[s][n].id] = "dispatched" <=> t.outbox[t.log[s][n].id] = "dispatched"
    BY <1>1 DEF SameMarks
  <2>3. Places(u, s) = Places(t, s)
    BY <1>1, <2>1, <2>2 DEF Places
  <2>. QED BY <1>3, <2>3
<1>. QED BY <1>2, <1>3

\* Marking the n-th event of a session, which was pending, adds that place.
LEMMA OnePlaceMore ==
    ASSUME NEW t, TablesOK(t), UniqueIdsIn(t), NEW u, TablesOK(u),
           NEW s \in Sessions, NEW n \in 1..Len(t.log[s]), Marked(t, u, s, n)
    PROVE  /\ Places(u, s) = Places(t, s) \union {n}
           /\ \A r \in Sessions \ {s} : Places(u, r) = Places(t, r)
<1>. DEFINE id == t.log[s][n].id
<1>1. \A q \in Sessions : /\ DOMAIN t.log[q] = 1..Len(t.log[q])
                          /\ \A m \in 1..Len(t.log[q]) : t.log[q][m].id \in EventIds
  <2>. SUFFICES ASSUME NEW q \in Sessions
                PROVE  /\ DOMAIN t.log[q] = 1..Len(t.log[q])
                       /\ \A m \in 1..Len(t.log[q]) : t.log[q][m].id \in EventIds
    OBVIOUS
  <2>1. t.log[q] \in Seq(Stored)
    BY DEF TablesOK
  <2>2. \A m \in 1..Len(t.log[q]) : t.log[q][m] \in Stored
    BY <2>1
  <2>. QED BY <2>1, <2>2 DEF Stored
<1>2. /\ u.log = t.log /\ id \in EventIds
      /\ \A i \in EventIds : u.outbox[i] = IF i = id THEN "dispatched" ELSE t.outbox[i]
  BY <1>1 DEF Marked, TablesOK
<1>3. \A q \in Sessions : \A m \in 1..Len(t.log[q]) :
         t.log[q][m].id = id => q = s /\ m = n
  BY DEF UniqueIdsIn
<1>4. Places(u, s) = Places(t, s) \union {n}
  BY <1>1, <1>2, <1>3 DEF Places
<1>5. \A r \in Sessions \ {s} : Places(u, r) = Places(t, r)
  BY <1>1, <1>2, <1>3 DEF Places
<1>. QED BY <1>4, <1>5

\* The abstract variables, as the tables give them.
LEMMA Mapped ==
    ASSUME NEW t, TablesOK(t)
    PROVE  /\ t.log = [s \in Sessions |-> t.log[s]]
           /\ \A s \in Sessions, k \in Keys : AnswersOf(t)[s][k] = Answer(t.requests[s][k])
           /\ \A s \in Sessions : PublishedOf(t)[s] = Cardinality(Places(t, s))
BY DEF TablesOK, AnswersOf, PublishedOf

\* Tables with the same logs, answers and marks look the same.
LEMMA QuietStep ==
    ASSUME TablesOK(db), TablesOK(db'), Quiet(db, db')
    PROVE  UNCHANGED Abstract!dvars
<1>1. db'.log = db.log /\ db'.requests = db.requests
  BY DEF Quiet
<1>2. AnswersOf(db') = AnswersOf(db)
  BY <1>1 DEF AnswersOf
<1>3. \A s \in Sessions : Places(db', s) = Places(db, s)
  <2>. SUFFICES ASSUME NEW s \in Sessions PROVE Places(db', s) = Places(db, s)
    OBVIOUS
  <2>1. db.log[s] \in Seq(Stored)
    BY DEF TablesOK
  <2>2. \A n \in DOMAIN db.log[s] : db.log[s][n] \in Stored
    BY <2>1
  <2>. QED BY <1>1, <2>2 DEF Places, Quiet, SameMarks, Stored
<1>4. PublishedOf(db') = PublishedOf(db)
  BY <1>3 DEF PublishedOf
<1>. QED BY <1>1, <1>2, <1>4 DEF Abstract!dvars, AnswersOf, PublishedOf, Places

\* A committed batch is one command's effect, or one append.
LEMMA GrownStep ==
    ASSUME TablesOK(db), Good(db), TablesOK(db'), Good(db'),
           NEW s \in Sessions, NEW k \in Keys \union {None}, Grown(db, db', s, k)
    PROVE  Abstract!LogNext
<1>. DEFINE l == Len(db.log[s])
<1>1. /\ db.log[s] \in Seq(Stored) /\ db'.log[s] \in Seq(Stored) /\ l \in Nat
      /\ Len(db'.log[s]) \in Nat /\ l < Len(db'.log[s])
  BY DEF TablesOK, Grown
<1>2. SubSeq(db'.log[s], 1, l) = db.log[s]
  <2>1. \A n \in 1..l : db'.log[s][n] = db.log[s][n]
    BY DEF Grown
  <2>2. SubSeq(db.log[s], 1, l) = SubSeq(db'.log[s], 1, l)
    BY <1>1, <2>1, SubSeqAgrees
  <2>3. SubSeq(db.log[s], 1, l) = db.log[s]
    BY <1>1, SubSeqFull
  <2>. QED BY <2>2, <2>3
<1>3. db'.log = [db.log EXCEPT ![s] = db'.log[s]]
  <2>1. db'.log = [r \in Sessions |-> db'.log[r]] /\ db.log = [r \in Sessions |-> db.log[r]]
    BY Mapped
  <2>2. \A r \in Sessions : r # s => db'.log[r] = db.log[r]
    BY DEF Grown
  <2>. QED BY <2>1, <2>2
<1>4. \A n \in (l + 1)..Len(db'.log[s]) : db'.log[s][n].key = k
  BY DEF Grown
<1>5. Abstract!Extends(s, k)
  BY <1>1, <1>2, <1>3, <1>4 DEF Abstract!Extends
<1>6. PublishedOf(db') = PublishedOf(db)
  <2>1. /\ IntentsIn(db) /\ UniqueIdsIn(db') /\ SameMarks(db, db')
        /\ l <= Len(db'.log[s]) /\ \A n \in 1..l : db'.log[s][n] = db.log[s][n]
        /\ \A r \in Sessions \ {s} : db'.log[r] = db.log[r]
    BY <1>1 DEF Good, Grown
  <2>2. \A r \in Sessions : Places(db', r) = Places(db, r)
    BY <2>1, SamePlaces
  <2>. QED BY <2>2 DEF PublishedOf
<1>7. CASE k = None
  <2>1. AnswersOf(db') = AnswersOf(db)
    BY <1>7 DEF AnswersOf, Grown
  <2>2. Abstract!AppendEvents(s)
    BY <1>5, <1>6, <1>7, <2>1 DEF Abstract!AppendEvents, AnswersOf, PublishedOf, Places
  <2>. QED BY <2>2 DEF Abstract!LogNext
<1>8. CASE k # None
  <2>1. k \in Keys
    BY <1>8
  <2>2. PICK row \in RequestRows :
           /\ row.first = l + 1 /\ row.last = Len(db'.log[s])
           /\ db'.requests = [db.requests EXCEPT ![s][k] = row]
    BY <1>8 DEF Grown
  <2>3. row # None /\ db.requests[s][k] = None
    BY <1>8, NoneAssumption DEF Grown
  <2>. DEFINE a == [first |-> l + 1, last |-> Len(db'.log[s])]
  <2>4. Answer(row) = a
    BY <2>2, <2>3 DEF Answer
  <2>5. AnswersOf(db)[s][k] = None
    BY <2>1, <2>3 DEF AnswersOf, Answer
  <2>6. \A r \in Sessions, q \in Keys :
           db'.requests[r][q] = IF r = s /\ q = k THEN row ELSE db.requests[r][q]
    BY <2>1, <2>2 DEF TablesOK
  <2>. HIDE DEF a
  <2>7. AnswersOf(db') = [AnswersOf(db) EXCEPT ![s][k] = a]
    <3>1. \A r \in Sessions, q \in Keys :
             Answer(db'.requests[r][q]) = IF r = s /\ q = k THEN a
                                          ELSE Answer(db.requests[r][q])
      BY <2>4, <2>6
    <3>. HIDE DEF l
    <3>2. AnswersOf(db') = [r \in Sessions |-> [q \in Keys |->
             IF r = s /\ q = k THEN a ELSE Answer(db.requests[r][q])]]
      BY <3>1 DEF AnswersOf
    <3>. QED BY <3>2 DEF AnswersOf
  <2>8. Abstract!TakeEffect(s, k)
    BY <1>5, <1>6, <2>5, <2>7 DEF Abstract!TakeEffect, AnswersOf, PublishedOf, Places, a
  <2>. QED BY <2>1, <2>8 DEF Abstract!LogNext
<1>. QED BY <1>7, <1>8

\* A mark that was not there moves the cursor by one.
LEMMA MarkedStep ==
    ASSUME TablesOK(db), Good(db), TablesOK(db'), Good(db'),
           NEW s \in Sessions, NEW n \in 1..Len(db.log[s]), Marked(db, db', s, n)
    PROVE  [Abstract!LogNext]_(Abstract!dvars)
<1>1. db'.log = db.log /\ db'.requests = db.requests
  BY DEF Marked
<1>2. AnswersOf(db') = AnswersOf(db)
  BY <1>1 DEF AnswersOf
<1>3. /\ Places(db', s) = Places(db, s) \union {n}
      /\ \A r \in Sessions \ {s} : Places(db', r) = Places(db, r)
  BY OnePlaceMore DEF Good
<1>4. CASE n \in Places(db, s)
  <2>1. \A r \in Sessions : Places(db', r) = Places(db, r)
    BY <1>3, <1>4
  <2>2. PublishedOf(db') = PublishedOf(db)
    BY <2>1 DEF PublishedOf
  <2>. QED BY <1>1, <1>2, <2>2 DEF Abstract!dvars, AnswersOf, PublishedOf, Places
<1>5. CASE n \notin Places(db, s)
  <2>1. /\ IsFiniteSet(Places(db, s)) /\ Cardinality(Places(db, s)) \in Nat
        /\ Cardinality(Places(db, s)) < Len(db.log[s])
    BY <1>5, PlacesFinite
  <2>2. Cardinality(Places(db', s)) = Cardinality(Places(db, s)) + 1
    BY <1>3, <1>5, <2>1, FS_AddElement
  <2>3. \A r \in Sessions : Cardinality(Places(db', r)) =
           IF r = s THEN Cardinality(Places(db, s)) + 1 ELSE Cardinality(Places(db, r))
    BY <1>3, <2>2
  <2>4. PublishedOf(db') = [PublishedOf(db) EXCEPT ![s] = @ + 1]
    BY <2>3 DEF PublishedOf
  <2>5. PublishedOf(db)[s] < Len(db.log[s])
    BY <2>1 DEF PublishedOf
  <2>6. Abstract!Publish(s)
    BY <1>1, <1>2, <2>4, <2>5 DEF Abstract!Publish, AnswersOf, PublishedOf, Places
  <2>. QED BY <2>6 DEF Abstract!LogNext
<1>. QED BY <1>4, <1>5

\* Every step of the store is one of the log's, or is not seen there.
LEMMA LogStep ==
    ASSUME IInv, IInv', FInv, [Next]_vars
    PROVE  [Abstract!LogNext]_(Abstract!dvars)
<1>1. TablesOK(db) /\ Good(db) /\ TablesOK(db') /\ Good(db')
  <2>1. Good(db)' => Good(db')
    BY DEF Good, OncePerKeyIn, UniqueIdsIn, IntentsIn, OrderedIn, StoredIds
  <2>. QED BY <2>1 DEF IInv, TypeOK
<1>2. CASE db' = db
  <2>1. Quiet(db, db')
    BY <1>2 DEF Quiet, SameMarks
  <2>. QED BY <1>1, <2>1, QuietStep
<1>3. ASSUME NEW w \in Workers, pc[w] = "ready", db' = work
      PROVE  [Abstract!LogNext]_(Abstract!dvars)
  <2>1. Effect(db, db')
    BY <1>3 DEF FInv, EffectFlight
  <2>. QED BY <1>1, <2>1, QuietStep, GrownStep, MarkedStep DEF Effect
<1>4. ASSUME NEW w \in Workers, TransactionStep(w)
      PROVE  db' = db \/ (pc[w] = "ready" /\ db' = work)
  BY <1>4 DEF TransactionStep, Recover, DecideCommit, DecideAppend, WriteEvent,
     SaveProjection, RecordRequest, CommitOk, StatementFails, CommitUncertain,
     Rollback, Refuse, End, Prepare, StartWriting
<1>5. ASSUME NEW w \in Workers,
             \/ BeginRecovery(w) \/ RecoveryBusy(w) \/ Close(w)
             \/ \E c \in Commands : Submit(w, c)
             \/ Busy(w)
             \/ \E id \in EventIds : MarkDispatched(w, id)
      PROVE  db' = db
  BY <1>5 DEF BeginRecovery, RecoveryBusy, Close, Submit, Busy, MarkDispatched
<1>6. CASE Crash
  BY <1>2, <1>6 DEF Crash
<1>7. CASE UNCHANGED vars
  BY <1>2, <1>7 DEF vars
<1>. QED BY <1>2, <1>3, <1>4, <1>5, <1>6, <1>7 DEF Next

\* The empty database is the empty log.
LEMMA LogInitially == Init => Abstract!LogInit
<1>. SUFFICES ASSUME Init PROVE Abstract!LogInit
  OBVIOUS
<1>1. /\ db.log = [s \in Sessions |-> <<>>]
      /\ \A s \in Sessions, k \in Keys : Answer(db.requests[s][k]) = None
      /\ \A s \in Sessions : db.log[s] = <<>>
  BY DEF Init, EmptyTables, Answer
<1>2. AnswersOf(db) = [s \in Sessions |-> [k \in Keys |-> None]]
  BY <1>1 DEF AnswersOf
<1>3. \A s \in Sessions : Places(db, s) = {}
  BY <1>1 DEF Places
<1>4. PublishedOf(db) = [s \in Sessions |-> 0]
  BY <1>3, FS_EmptySet DEF PublishedOf
<1>. QED BY <1>1, <1>2, <1>4 DEF Abstract!LogInit, AnswersOf, PublishedOf, Places

\* The store implements the abstract log: with any number of connections,
\* rollbacks, lock time-outs, uncertain commits, recoveries and crashes, a
\* command takes effect at once, at most once per key, and for good.
THEOREM StoreImplementsLog == Spec => ImplementsLog
<1>1. Init => FInv
  BY DEF Init, FInv, EffectFlight
<1>2. IInv /\ IInv' /\ FInv /\ [Next]_vars => [Abstract!LogNext]_(Abstract!dvars)
  BY LogStep
<1>. QED BY <1>1, <1>2, NextFInv, Invariance, LogInitially, PTL
         DEF Spec, ImplementsLog, Abstract!LogSpec
=============================================================================
