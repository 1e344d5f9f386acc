------------------------ MODULE SessionService_proofs ------------------------
(* Theorems about DurableSessionService over the SQLite store, for every set  *)
(* of request threads, sessions, keys, tasks, scenarios and clock readings:   *)
(* the store's invariants hold under the service, and with them what a client *)
(* is told.  A request's fields are judged as values (the operators with      *)
(* parameters below), so that a step is judged by what it makes of them.      *)
EXTENDS SessionService, SessionHistory_proofs, EventStore_proofs

CallTasks == CreateTasks \union TransitionTasks

\* The event e is what the task t asked for.
Fits(t, e) ==
    /\ t.op = "create" => e.kind = "created"
    /\ t.op = "transition" =>
         /\ e.kind = "transition" /\ e.state = t.target /\ e.previous_version = t.expected
         /\ t.required # None => e.previous_state = t.required
         /\ e.failure = t.failure

\* The retry record answers the task t.
Serves(row, t) == row # None /\ row.input = InputOf(t) /\ row.expected = ExpectedOf(t)

\* The tables t, committed or about to be: sessions are pinned, and every retry
\* record names one event, that of every task it would answer.
Pinned(t) == Catalogued => \A s \in Sessions :
                 t.log[s] # <<>> => t.log[s][1].body.scenario \in Contents
RowsFit(t) ==
    \A s \in Sessions, k \in Keys :
        LET row == t.requests[s][k]
        IN row # None =>
             /\ row.last = row.first
             /\ \A c \in CallTasks : Serves(row, c) => Fits(c, t.log[s][row.first].body)
ImageOK(t) == Pinned(t) /\ RowsFit(t)

\* s is what some prefix of the history projected to.
Recalled(s, log) == \E n \in 1..Len(log) : s = Project(SubSeq(log, 1, n))

\* A request (q), its worker's place in the store (p), its command (c), its
\* reply (r), the committed tables (d) and those of the open transaction (u).
FormOK(q, p) ==
    /\ q.step \in {"asked", "loaded", "built", "sent"} =>
         /\ q.task \in CallTasks
         /\ q.outer # None => /\ q.task.op = "transition"
                              /\ q.task.target \in {"INITIALISING", "FAILED"}
    /\ q.step \in {"preparing", "verifying"} => q.outer \in PrepareTasks
    /\ q.step = "verifying" => q.seen # None
    /\ q.outer # None \/ q.step \in {"preparing", "verifying"} => ~q.settled
    /\ q.step # "sent" => p = "idle"

SeenOK(q, d) ==
    q.step \in {"loaded", "built", "sent"} =>
        IF q.seen = None THEN q.task.op = "create"
        ELSE Recalled(q.seen, d.log[q.task.session])

\* The error a builder was given speaks of the session it was closed over.
Blames(t, s, at, error) ==
    \/ error = "SCENARIO_INVALID" /\ t.target = "READY"
    \/ error = "ILLEGAL_TRANSITION" /\ t.required # None /\ s.state # t.required
    \/ error = TransitionError(s, TransitionRequest(t, at))

CreatePlan(q, c) ==
    /\ c.error = NoError /\ Len(c.batch) = 1
    /\ \E sc \in Scenarios :
         /\ c.batch[1].body = CreatedEvent(create_session(sc, q.at), 1)
         /\ q.seen = None /\ Catalogued => sc \in Contents

TransitionPlan(q, c) ==
    LET r == TransitionRequest(q.task, q.at)
    IN IF c.error # NoError THEN Blames(q.task, q.seen, q.at, c.error) /\ c.batch = <<>>
       ELSE /\ TransitionError(q.seen, r) = NoOutcome
            /\ q.task.required # None => q.seen.state = q.task.required
            /\ Len(c.batch) = 1
            /\ c.batch[1].body = TransitionEvent(q.seen, r, 2)

PlanOK(q) ==
    q.step \in {"built", "sent"} =>
        /\ q.plan \in CommandRecords
        /\ q.plan = Planned(q.task, q.plan.error, q.plan.batch)
        /\ q.task.op = "create" => CreatePlan(q, q.plan)
        /\ q.task.op = "transition" => TransitionPlan(q, q.plan)

\* A request whose key had taken effect is not refused on the way.
Granted == {"result", "busy", "unavailable"}
SettledOK(q, p, r, d) ==
    q.settled =>
        /\ q.step \in {"asked", "loaded", "built", "sent"} =>
             Serves(d.requests[q.task.session][q.task.key], q.task)
        /\ q.step = "loaded" => q.seen # None
        /\ q.step = "sent" => /\ p \notin {"writing", "projected"}
                              /\ p = "ready" => r.kind = "result"
                              /\ p \notin InTransaction => r.kind \in Granted
        /\ q.step = "answered" => r.kind \in Granted

\* A result is that of the request's own key and input.
ReplyFits(q, p, r, d, u) ==
    q.step = "sent" /\ r.kind = "result" /\ p \notin {"begun", "writing", "projected"} =>
        /\ p \in {"ready", "idle"}
        /\ r.session = q.task.session /\ r.key = q.task.key
        /\ Serves((IF p = "ready" THEN u ELSE d).requests[r.session][r.key], q.task)

\* The event that is about to be recorded.
FlightFits(q, p, d, u) ==
    LET log == u.log[q.task.session]
    IN p = "projected" => /\ Len(log) = Len(d.log[q.task.session]) + 1
                          /\ Fits(q.task, log[Len(log)].body)

WorkerOK(q, p, c, r, d, u) ==
    /\ q \in RequestStates \union {None}
    /\ p = "recovering" => q = None
    /\ p \in {"begun", "writing", "projected"} =>
         q # None /\ q.step = "sent" /\ c = q.plan
    /\ q # None => /\ FormOK(q, p) /\ SeenOK(q, d) /\ PlanOK(q)
                   /\ SettledOK(q, p, r, d) /\ ReplyFits(q, p, r, d, u)
                   /\ FlightFits(q, p, d, u)

StoreInv == IInv /\ RInv /\ Answers

Own(w) == \A q, p, c, r, d, u :
    q = req[w] /\ p = pc[w] /\ c = cmd[w] /\ r = reply[w] /\ d = db /\ u = work
        => WorkerOK(q, p, c, r, d, u)

Shared == /\ \A t : t = db \/ t = work => ImageOK(t)
          /\ req \in [Workers -> RequestStates \union {None}]
          /\ catalogue \in Catalogues
          /\ capture \in Catalogues \union {Unset}

\* The inductive invariant.
ServiceInv == StoreInv /\ Shared /\ \A w \in Workers : Own(w)

-----------------------------------------------------------------------------
(* Histories and tables.                                                    *)

LEMMA BodiesOf ==
    ASSUME NEW log \in Seq(Stored)
    PROVE  /\ Bodies(log) \in Seq(EventRecords) /\ Len(Bodies(log)) = Len(log)
           /\ \A i \in 1..Len(log) : Bodies(log)[i] = log[i].body /\ log[i] \in Stored
           /\ \A n \in 1..Len(log) : Bodies(SubSeq(log, 1, n)) = SubSeq(Bodies(log), 1, n)
<1>1. /\ Len(log) \in Nat /\ DOMAIN log = 1..Len(log)
      /\ \A i \in 1..Len(log) : log[i] \in Stored /\ log[i].body \in EventRecords
  <2>1. Len(log) \in Nat /\ DOMAIN log = 1..Len(log)
    OBVIOUS
  <2>2. \A i \in 1..Len(log) : log[i] \in Stored
    OBVIOUS
  <2>3. \A e \in Stored : e.body \in EventRecords
    BY DEF Stored
  <2> QED BY <2>1, <2>2, <2>3
<1>2. Bodies(log) = [i \in 1..Len(log) |-> log[i].body]
  BY <1>1 DEF Bodies
<1>3. Bodies(log) \in [1..Len(log) -> EventRecords]
  BY <1>1, <1>2
<1>4. Bodies(log) \in Seq(EventRecords) /\ Len(Bodies(log)) = Len(log)
  BY <1>1, <1>3
<1>5. ASSUME NEW n \in 1..Len(log)
      PROVE  Bodies(SubSeq(log, 1, n)) = SubSeq(Bodies(log), 1, n)
  <2>1. n \in Nat /\ n <= Len(log)
    BY <1>1
  <2>2. SubSeq(log, 1, n) = [i \in 1..n |-> log[i]]
    BY <2>1
  <2>3. SubSeq(Bodies(log), 1, n) = [i \in 1..n |-> Bodies(log)[i]]
    BY <2>1
  <2>4. \A i \in 1..n : Bodies(log)[i] = log[i].body
    BY <1>2, <2>1
  <2> QED BY <2>2, <2>3, <2>4 DEF Bodies
<1> QED BY <1>1, <1>2, <1>4, <1>5

\* What a request recalls of a history that projects: a well-formed session; the
\* history's own one if the versions agree; and a failure is for good.
LEMMA RecalledSound ==
    ASSUME NEW log \in Seq(Stored), Project(log) # None, NEW n \in 1..Len(log)
    PROVE  LET s == Project(SubSeq(log, 1, n))
               e == log[n].body
           IN /\ s # None /\ s \in SessionRecords /\ PostInit(s) /\ s.version <= Len(log)
              /\ s.version = Project(log).version => s = Project(log)
              /\ e.kind = "transition" /\ e.state = "FAILED" => Project(log).state = "FAILED"
<1> DEFINE h == Bodies(log)
<1>1. /\ h \in Seq(EventRecords) /\ Len(h) = Len(log) /\ h[n] = log[n].body
      /\ Bodies(SubSeq(log, 1, n)) = SubSeq(h, 1, n)
  BY BodiesOf
<1>2. project_session(h) # None
  BY DEF Project
<1>3. n <= Len(log) /\ Len(log) \in Nat
  OBVIOUS
<1> HIDE DEF h
<1> DEFINE s == project_session(SubSeq(h, 1, n))
<1>4. /\ s # None /\ s \in SessionRecords /\ PostInit(s) /\ s.version <= n
      /\ s.version = project_session(h).version => s = project_session(h)
      /\ h[n].kind = "transition" /\ h[n].state = "FAILED"
           => project_session(h).state = "FAILED"
  BY <1>1, <1>2, PrefixProjects
<1>5. s.version \in Nat
  BY <1>4 DEF SessionRecords
<1> HIDE DEF s
<1>6. s.version <= Len(log)
  BY <1>3, <1>4, <1>5
<1>7. Project(log) = project_session(h) /\ Project(SubSeq(log, 1, n)) = s
  BY <1>1 DEF Project, h, s
<1> QED BY <1>1, <1>4, <1>6, <1>7

LEMMA ProjectSound ==
    ASSUME NEW log \in Seq(Stored), log # <<>>, Project(log) # None
    PROVE  /\ Project(log) \in SessionRecords /\ PostInit(Project(log))
           /\ Project(log).version <= Len(log)
           /\ Recalled(Project(log), log)
<1>1. Len(log) \in 1..Len(log) /\ SubSeq(log, 1, Len(log)) = log
  BY SubSeqFull
<1> QED BY <1>1, RecalledSound DEF Recalled

\* get_session: nothing before the creation, the projection afterwards.
LEMMA CurrentIs ==
    ASSUME StoreInv, NEW s \in Sessions
    PROVE  /\ db.log[s] \in Seq(Stored)
           /\ db.log[s] = <<>> => Current(s) = None
           /\ db.log[s] # <<>> => /\ Current(s) = Project(db.log[s])
                                  /\ Current(s) # None /\ Current(s) \in SessionRecords
                                  /\ Recalled(Current(s), db.log[s])
<1>1. /\ db.log[s] \in Seq(Stored)
      /\ db.log[s] # <<>> => Project(db.log[s]) # None
      /\ db.sessions[s] = ProjectionRow(db.log[s])
  BY DEF StoreInv, IInv, TypeOK, TablesOK, RInv, Sound, Projects, RowsCurrent
<1>2. CASE db.log[s] = <<>>
  BY <1>1, <1>2 DEF ProjectionRow, Current
<1>3. CASE db.log[s] # <<>>
  <2>1. Project(db.log[s]) \in SessionRecords /\ Recalled(Project(db.log[s]), db.log[s])
    BY <1>1, <1>3, ProjectSound
  <2>2. db.sessions[s] = [session |-> Project(db.log[s]), source |-> Len(db.log[s])]
    BY <1>1, <1>3 DEF ProjectionRow
  <2>3. Len(db.log[s]) \in Nat
    BY <1>1
  <2>4. db.sessions[s] # None
    BY <2>1, <2>2, <2>3, ServiceAssumption
  <2>5. Current(s) = Project(db.log[s])
    BY <2>2, <2>4 DEF Current
  <2> QED BY <1>1, <1>3, <2>1, <2>5
<1> QED BY <1>1, <1>2, <1>3

\* A history that has grown is recalled as before.
LEMMA RecalledGrows ==
    ASSUME NEW t, TablesOK(t), NEW u, TablesOK(u), Preserves(t, u),
           NEW s \in Sessions, NEW x, Recalled(x, t.log[s])
    PROVE  Recalled(x, u.log[s])
<1>1. PICK n \in 1..Len(t.log[s]) : x = Project(SubSeq(t.log[s], 1, n))
  BY DEF Recalled
<1>2. t.log[s] \in Seq(Stored) /\ u.log[s] \in Seq(Stored)
  BY DEF TablesOK
<1>3. Len(t.log[s]) <= Len(u.log[s]) /\ \A i \in 1..Len(t.log[s]) : u.log[s][i] = t.log[s][i]
  BY DEF Preserves
<1>4. Len(t.log[s]) \in Nat /\ Len(u.log[s]) \in Nat
  BY <1>2
<1>5. n \in 1..Len(u.log[s]) /\ n \in Int /\ n <= Len(t.log[s])
  BY <1>3, <1>4
<1>6. SubSeq(t.log[s], 1, n) = SubSeq(u.log[s], 1, n)
  BY <1>2, <1>3, <1>5, SubSeqAgrees
<1> QED BY <1>1, <1>5, <1>6 DEF Recalled

\* Tasks with the same fingerprint and starting version ask for the same.
LEMMA FitsSame ==
    ASSUME NEW t \in CallTasks, NEW c \in CallTasks, InputOf(t) = InputOf(c),
           ExpectedOf(t) = ExpectedOf(c), NEW e, Fits(t, e)
    PROVE  Fits(c, e)
<1>1. CASE t.op = "create"
  <2>1. InputOf(t)[1] = "session.create"
    BY <1>1 DEF InputOf
  <2>2. c.op # "transition"
    BY <2>1 DEF InputOf
  <2> QED BY <1>1, <2>2 DEF Fits
<1>2. CASE t.op # "create"
  <2>1. t.op = "transition" /\ t \in TransitionTasks
    BY <1>2 DEF CallTasks, CreateTasks, TransitionTasks
  <2>2. InputOf(t) = <<"session.transition", t.target, t.required, t.failure>>
    BY <1>2 DEF InputOf
  <2>3. CASE c.op = "create"
    <3>1. InputOf(c)[1] = "session.create"
      BY <2>3 DEF InputOf
    <3> QED BY <2>2, <3>1
  <2>4. CASE c.op # "create"
    <3>1. InputOf(c) = <<"session.transition", c.target, c.required, c.failure>>
      BY <2>4 DEF InputOf
    <3>2. t.target = c.target /\ t.required = c.required /\ t.failure = c.failure
      <4>1. /\ InputOf(t)[2] = t.target /\ InputOf(t)[3] = t.required
            /\ InputOf(t)[4] = t.failure
        BY <2>2
      <4>2. /\ InputOf(c)[2] = c.target /\ InputOf(c)[3] = c.required
            /\ InputOf(c)[4] = c.failure
        BY <3>1
      <4> QED BY <4>1, <4>2
    <3>3. t.expected = c.expected
      BY <1>2, <2>4 DEF ExpectedOf
    <3> QED BY <2>1, <2>4, <3>2, <3>3 DEF Fits
  <2> QED BY <2>3, <2>4
<1> QED BY <1>1, <1>2

-----------------------------------------------------------------------------
(* The invariant, taken apart and put together.                             *)

LEMMA Parts ==
    ASSUME ServiceInv, NEW w \in Workers
    PROVE  /\ StoreInv /\ TablesOK(db) /\ TablesOK(work)
           /\ ImageOK(db) /\ ImageOK(work)
           /\ WorkerOK(req[w], pc[w], cmd[w], reply[w], db, work)
           /\ req[w] \in RequestStates \union {None} /\ DOMAIN req = Workers
<1>1. TablesOK(db) /\ TablesOK(work)
  BY DEF ServiceInv, StoreInv, IInv, TypeOK
<1>2. WorkerOK(req[w], pc[w], cmd[w], reply[w], db, work)
  BY DEF ServiceInv, Own
<1> QED BY <1>1, <1>2 DEF ServiceInv, Shared

\* A worker that is left alone is not disturbed by what others commit.
LEMMA OthersOK ==
    ASSUME NEW q, NEW p, NEW c, NEW r, NEW d, NEW u, WorkerOK(q, p, c, r, d, u),
           NEW d2, NEW u2, TablesOK(d), TablesOK(d2), Preserves(d, d2),
           p \in InTransaction => d2 = d /\ u2 = u
    PROVE  WorkerOK(q, p, c, r, d2, u2)
<1>1. CASE p \in InTransaction
  BY <1>1
<1>2. CASE p \notin InTransaction /\ q # None
  <2>1. /\ q \in RequestStates
        /\ FormOK(q, p) /\ SeenOK(q, d) /\ PlanOK(q)
        /\ SettledOK(q, p, r, d) /\ ReplyFits(q, p, r, d, u)
    BY <1>2 DEF WorkerOK
  <2>2. p \notin {"recovering", "begun", "writing", "projected", "ready"}
    BY <1>2 DEF InTransaction
  <2>3. q.step \in {"asked", "loaded", "built", "sent"} =>
            q.task \in CallTasks /\ q.task.session \in Sessions /\ q.task.key \in Keys
    BY <2>1 DEF FormOK, CallTasks, CreateTasks, TransitionTasks
  <2>4. \A s \in Sessions, k \in Keys : \A t :
            Serves(d.requests[s][k], t) => d2.requests[s][k] = d.requests[s][k]
    BY DEF Serves, Preserves
  <2>5. SeenOK(q, d2)
    <3>1. ASSUME q.step \in {"loaded", "built", "sent"}, q.seen # None
          PROVE  Recalled(q.seen, d2.log[q.task.session])
      BY <2>1, <2>3, <3>1, RecalledGrows DEF SeenOK
    <3> QED BY <2>1, <3>1 DEF SeenOK
  <2>6. SettledOK(q, p, r, d2)
    BY <2>1, <2>3, <2>4 DEF SettledOK
  <2>7. ReplyFits(q, p, r, d2, u2)
    BY <2>1, <2>2, <2>3, <2>4 DEF ReplyFits
  <2>8. FlightFits(q, p, d2, u2)
    BY <2>2 DEF FlightFits
  <2> QED BY <2>1, <2>2, <2>5, <2>6, <2>7, <2>8 DEF WorkerOK
<1>3. CASE p \notin InTransaction /\ q = None
  BY <1>3 DEF WorkerOK
<1> QED BY <1>1, <1>2, <1>3

\* A step of one worker.
LEMMA OneMoves ==
    ASSUME ServiceInv, StoreInv', NEW w \in Workers, Preserves(db, db'),
           \A v \in Workers \ {w} : /\ req'[v] = req[v] /\ pc'[v] = pc[v]
                                    /\ cmd'[v] = cmd[v] /\ reply'[v] = reply[v],
           writer \in {w, None} \/ (work' = work /\ db' = db),
           ImageOK(db'), ImageOK(work'),
           req' \in [Workers -> RequestStates \union {None}],
           catalogue' \in Catalogues, capture' \in Catalogues \union {Unset},
           WorkerOK(req'[w], pc'[w], cmd'[w], reply'[w], db', work')
    PROVE  ServiceInv'
<1>1. ASSUME NEW v \in Workers
      PROVE  WorkerOK(req'[v], pc'[v], cmd'[v], reply'[v], db', work')
  <2>1. CASE v = w
    BY <2>1
  <2>2. CASE v # w
    <3>1. WorkerOK(req[v], pc[v], cmd[v], reply[v], db, work)
      BY Parts
    <3>2. TablesOK(db) /\ TablesOK(db')
      BY DEF ServiceInv, StoreInv, IInv, TypeOK
    <3>3. pc[v] \in InTransaction => db' = db /\ work' = work
      BY <2>2, NoneAssumption DEF ServiceInv, StoreInv, IInv, LockedOrClean
    <3>4. WorkerOK(req[v], pc[v], cmd[v], reply[v], db', work')
      BY <3>1, <3>2, <3>3, OthersOK
    <3> QED BY <2>2, <3>4
  <2> QED BY <2>1, <2>2
<1>2. \A v \in Workers : Own(v)'
  BY <1>1 DEF Own
<1>3. Shared'
  BY DEF Shared
<1> QED BY <1>2, <1>3 DEF ServiceInv

-----------------------------------------------------------------------------
(* The store's invariants under the service.                                *)

LEMMA StoreMoves ==
    ASSUME StoreInv, [Next]_vars
    PROVE  StoreInv' /\ Preserves(db, db')
<1>1. IInv'
  BY NextIInv DEF StoreInv
<1>2. RInv'
  BY <1>1, NextRInv DEF StoreInv
<1>3. Answers'
  BY <1>1, NextAnswers DEF StoreInv
<1>4. [Preserves(db, db')]_vars
  BY StepPreserves DEF StoreInv
<1>5. TablesOK(db)
  BY DEF StoreInv, IInv, TypeOK
<1>6. vars' = vars => db' = db
  BY DEF vars
<1> QED BY <1>1, <1>2, <1>3, <1>4, <1>5, <1>6, PreservesRefl DEF StoreInv

\* The service hands a command over.
LEMMA SubmitMoves ==
    ASSUME StoreInv, NEW w \in Workers, NEW c \in CommandRecords, Submit(w, c)
    PROVE  StoreInv'
<1>1. IInv /\ RInv /\ Answers /\ TablesOK(db) /\ w # None
  BY NoneAssumption DEF StoreInv, IInv, TypeOK
<1>2. /\ pc[w] = "idle" /\ Begin(w, c, "begun") /\ db' = db /\ reply' = reply
      /\ writer = None /\ pc' = [pc EXCEPT ![w] = "begun"]
  BY DEF Submit, Begin
<1>3. /\ \A v \in Workers \ {w} : reply'[v] = reply[v] /\ pc'[v] = pc[v]
      /\ pc'[w] = "begun"
  BY <1>1, <1>2 DEF IInv, TypeOK
<1>4. IInv'
  BY <1>1, SubmitOK
<1>5. RInv'
  BY <1>1, <1>2, <1>4, BeginSound
<1>6. ReplyOK(w)'
  BY <1>1, <1>2, <1>3, <1>4, SameAnswer
<1>7. Preserves(db, db')
  BY <1>1, <1>2, PreservesRefl
<1>8. Answers'
  BY <1>1, <1>2, <1>3, <1>4, <1>6, <1>7, OthersKeep
<1> QED BY <1>4, <1>5, <1>8 DEF StoreInv

\* A step of the service outside the store, which answers at most with something
\* other than a result.
LEMMA AsideMoves ==
    ASSUME StoreInv, NEW w \in Workers, UNCHANGED <<db, work, writer, pc, cmd>>,
           reply' = reply \/ \E r : Reply(w, r) /\ r.kind # "result"
    PROVE  StoreInv'
<1>1. /\ IInv /\ RInv /\ Answers /\ TablesOK(db) /\ DOMAIN reply = Workers
      /\ pc \in [Workers -> {"closed", "idle", "sick"} \union InTransaction]
  BY DEF StoreInv, IInv, TypeOK
<1>2. /\ db' = db /\ work' = work /\ pc' = pc /\ DOMAIN reply' = Workers
      /\ \A v \in Workers \ {w} : reply'[v] = reply[v] /\ pc'[v] = pc[v]
  BY <1>1 DEF Reply
<1>3. IInv'
  BY <1>1, <1>2, OutsideOK
<1>4. RInv'
  BY <1>1, <1>2, <1>3, SoundOutside
<1>5. ReplyOK(w)'
  <2>1. CASE reply' = reply
    <3>1. ReplyOK(w)
      BY <1>1 DEF Answers
    <3>2. \A r : Holds(db, r) => Holds(db', r)
      BY <1>2
    <3>3. \A r : Holds(work, r) => Holds(work', r)
      BY <1>2
    <3> QED BY <1>2, <2>1, <3>1, <3>2, <3>3 DEF ReplyOK
  <2>2. CASE \E r : Reply(w, r) /\ r.kind # "result"
    BY <1>1, <2>2, OtherAnswer
  <2> QED BY <2>1, <2>2
<1>6. Preserves(db, db')
  BY <1>1, <1>2, PreservesRefl
<1>7. Answers'
  BY <1>1, <1>2, <1>3, <1>5, <1>6, OthersKeep
<1> QED BY <1>3, <1>4, <1>7 DEF StoreInv

\* Such a step of w that leaves w's own request in order.
LEMMA AsideOK ==
    ASSUME ServiceInv, NEW w \in Workers, UNCHANGED <<db, work, writer, pc, cmd>>,
           NEW q \in RequestStates \union {None}, req' = [req EXCEPT ![w] = q],
           catalogue' \in Catalogues, capture' \in Catalogues \union {Unset},
           \/ reply' = reply /\ WorkerOK(q, pc[w], cmd[w], reply[w], db, work)
           \/ \E r : /\ Reply(w, r) /\ r.kind # "result"
                     /\ WorkerOK(q, pc[w], cmd[w], r, db, work)
    PROVE  ServiceInv'
<1>1. /\ StoreInv /\ TablesOK(db) /\ ImageOK(db) /\ ImageOK(work)
      /\ req \in [Workers -> RequestStates \union {None}] /\ DOMAIN reply = Workers
  BY Parts DEF ServiceInv, Shared, StoreInv, IInv, TypeOK
<1>2. StoreInv'
  BY <1>1, AsideMoves
<1>3. /\ db' = db /\ work' = work /\ pc' = pc /\ cmd' = cmd
      /\ req' \in [Workers -> RequestStates \union {None}]
      /\ req'[w] = q /\ \A v \in Workers \ {w} : req'[v] = req[v] /\ reply'[v] = reply[v]
  BY <1>1 DEF Reply
<1>4. WorkerOK(q, pc[w], cmd[w], reply'[w], db, work)
  BY <1>1 DEF Reply
<1>5. Preserves(db, db')
  BY <1>1, <1>3, PreservesRefl
<1> QED BY <1>1, <1>2, <1>3, <1>4, <1>5, OneMoves

-----------------------------------------------------------------------------
(* A request outside the store.                                             *)

\* A request that is not with the store: what is left to show of it.
LEMMA CalmOK ==
    ASSUME NEW q \in RequestStates, q.step # "sent", NEW c, NEW r, NEW d, NEW u,
           FormOK(q, "idle"), SeenOK(q, d), PlanOK(q), SettledOK(q, "idle", r, d)
    PROVE  WorkerOK(q, "idle", c, r, d, u)
BY DEF WorkerOK, ReplyFits, FlightFits

\* Where a worker's request stands.
LEMMA Standing ==
    ASSUME ServiceInv, NEW w \in Workers, NEW step, At(w, step)
    PROVE  /\ req[w] \in RequestStates /\ req[w].step = step
           /\ FormOK(req[w], pc[w]) /\ SeenOK(req[w], db) /\ PlanOK(req[w])
           /\ SettledOK(req[w], pc[w], reply[w], db)
           /\ step # "sent" => pc[w] = "idle"
           /\ catalogue \in Catalogues /\ capture \in Catalogues \union {Unset}
<1>1. req[w] # None /\ req[w].step = step
  BY DEF At
<1>2. WorkerOK(req[w], pc[w], cmd[w], reply[w], db, work)
  BY Parts
<1>3. /\ req[w] \in RequestStates /\ FormOK(req[w], pc[w]) /\ SeenOK(req[w], db)
      /\ PlanOK(req[w]) /\ SettledOK(req[w], pc[w], reply[w], db)
  BY <1>1, <1>2 DEF WorkerOK
<1> QED BY <1>1, <1>3 DEF FormOK, ServiceInv, Shared

\* A retry record stands for events.
LEMMA ServedIsStored ==
    ASSUME ServiceInv, NEW s \in Sessions, NEW k \in Keys, NEW t,
           Serves(db.requests[s][k], t)
    PROVE  db.log[s] # <<>>
<1>1. TablesOK(db) /\ OncePerKeyIn(db) /\ db.requests[s][k] # None
  BY DEF ServiceInv, StoreInv, IInv, TypeOK, Good, Serves
<1>2. /\ db.requests[s][k].first \in Nat /\ db.requests[s][k].last \in Nat
      /\ db.log[s] \in Seq(Stored)
  BY <1>1 DEF TablesOK, RequestRows
<1>3. 1 <= db.requests[s][k].first /\ db.requests[s][k].first <= db.requests[s][k].last
      /\ db.requests[s][k].last <= Len(db.log[s])
  BY <1>1 DEF OncePerKeyIn
<1> QED BY <1>2, <1>3

\* The thread answers by itself.
LEMMA RespondOK ==
    ASSUME ServiceInv, NEW w \in Workers, NEW step, At(w, step), step # "sent",
           NEW r, r.kind # "result", req[w].settled => r.kind \in Granted,
           Respond(w, r), UNCHANGED <<db, work, writer, pc, cmd, catalogue>>,
           capture' \in Catalogues \union {Unset}
    PROVE  ServiceInv'
<1>1. PICK q : q = req[w]
  OBVIOUS
<1>2. q \in RequestStates /\ FormOK(q, "idle") /\ pc[w] = "idle" /\ catalogue \in Catalogues
  BY <1>1, Standing
<1> DEFINE q2 == [q EXCEPT !.step = "answered"]
<1>3. /\ q2 \in RequestStates /\ q2.step = "answered" /\ q2.settled = q.settled
      /\ q2.outer = q.outer
  BY <1>2 DEF RequestStates
<1>4. req' = [req EXCEPT ![w] = q2] /\ Reply(w, r)
  BY <1>1 DEF Respond, Goes
<1> HIDE DEF q2
<1>5. FormOK(q2, "idle") /\ SeenOK(q2, db) /\ PlanOK(q2)
  BY <1>2, <1>3 DEF FormOK, SeenOK, PlanOK
<1>6. SettledOK(q2, "idle", r, db)
  BY <1>1, <1>3 DEF SettledOK
<1>7. WorkerOK(q2, pc[w], cmd[w], r, db, work)
  BY <1>2, <1>3, <1>5, <1>6, CalmOK
<1> QED BY <1>2, <1>3, <1>4, <1>7, AsideOK

LEMMA RequestOK ==
    ASSUME ServiceInv, NEW w \in Workers, NEW t \in Tasks, Request(w, t)
    PROVE  ServiceInv'
<1> DEFINE prepares == t.op = "prepare"
           settled == Settled(t)
           q == [task |-> IF prepares THEN None ELSE t,
                 outer |-> IF prepares THEN t ELSE None,
                 step |-> IF prepares THEN "preparing" ELSE "asked",
                 seen |-> None, at |-> 0, plan |-> None, settled |-> settled]
           r == [kind |-> "none"]
<1>1. /\ pc[w] = "idle" /\ req' = [req EXCEPT ![w] = q] /\ Reply(w, r)
      /\ UNCHANGED <<db, work, writer, pc, cmd, catalogue, capture>>
  BY DEF Request, catalogues
<1>2. catalogue' \in Catalogues /\ capture' \in Catalogues \union {Unset}
  BY <1>1 DEF ServiceInv, Shared
<1>3. prepares => t \in PrepareTasks
  BY ServiceAssumption DEF CreateTasks, TransitionTasks
<1>4. ~prepares => t \in CallTasks
  BY ServiceAssumption DEF PrepareTasks, CallTasks
<1>5. prepares => ~settled
  BY DEF Settled
<1>6. settled => Serves(db.requests[t.session][t.key], t)
  BY DEF Settled, Serves
<1>7. settled \in BOOLEAN
  BY DEF Settled
<1> HIDE DEF prepares, settled
<1>8. q \in RequestStates
  BY <1>3, <1>4, <1>7 DEF RequestStates, CallTasks
<1>9. FormOK(q, "idle") /\ SeenOK(q, db) /\ PlanOK(q)
  BY <1>3, <1>4, <1>5 DEF FormOK, SeenOK, PlanOK
<1>10. SettledOK(q, "idle", r, db)
  BY <1>5, <1>6 DEF SettledOK
<1>11. q.step # "sent" /\ r.kind # "result"
  OBVIOUS
<1>12. WorkerOK(q, pc[w], cmd[w], r, db, work)
  BY <1>1, <1>8, <1>9, <1>10, <1>11, CalmOK
<1> HIDE DEF q, r
<1> QED BY <1>1, <1>2, <1>8, <1>11, <1>12, AsideOK

LEMMA LoadOK ==
    ASSUME ServiceInv, NEW w \in Workers, Load(w)
    PROVE  ServiceInv'
<1>1. PICK q : q = req[w]
  OBVIOUS
<1>2. PICK s : s = Current(q.task.session)
  OBVIOUS
<1>3. /\ At(w, "asked") /\ UNCHANGED <<db, work, writer, pc, cmd, catalogue, capture>>
      /\ IF q.task.op = "transition" /\ s = None
         THEN Respond(w, [kind |-> "not_found"])
         ELSE Goes(w, [q EXCEPT !.step = "loaded", !.seen = s]) /\ reply' = reply
  BY <1>1, <1>2 DEF Load, catalogues
<1>4. /\ q \in RequestStates /\ q.step = "asked" /\ FormOK(q, "idle") /\ pc[w] = "idle"
      /\ SettledOK(q, "idle", reply[w], db)
      /\ catalogue \in Catalogues /\ capture \in Catalogues \union {Unset}
  BY <1>1, <1>3, Standing
<1>5. q.task \in CallTasks /\ q.task.session \in Sessions /\ q.task.key \in Keys
  BY <1>4 DEF FormOK, CallTasks, CreateTasks, TransitionTasks
<1>6. /\ db.log[q.task.session] \in Seq(Stored)
      /\ s # None => s \in SessionRecords /\ Recalled(s, db.log[q.task.session])
      /\ db.log[q.task.session] # <<>> => s # None
  BY <1>2, <1>5, CurrentIs DEF ServiceInv
<1>7. q.settled => s # None
  BY <1>4, <1>5, <1>6, ServedIsStored DEF SettledOK
<1>8. CASE q.task.op = "transition" /\ s = None
  BY <1>1, <1>3, <1>4, <1>7, <1>8, RespondOK
<1>9. CASE ~(q.task.op = "transition" /\ s = None)
  <2> DEFINE q2 == [q EXCEPT !.step = "loaded", !.seen = s]
  <2>1. /\ q2 \in RequestStates /\ q2.step = "loaded" /\ q2.task = q.task /\ q2.seen = s
        /\ q2.outer = q.outer /\ q2.settled = q.settled
    BY <1>4, <1>6 DEF RequestStates
  <2>2. req' = [req EXCEPT ![w] = q2] /\ reply' = reply
    BY <1>3, <1>9 DEF Goes
  <2> HIDE DEF q2
  <2>3. FormOK(q2, "idle") /\ PlanOK(q2)
    BY <1>4, <2>1 DEF FormOK, PlanOK
  <2>4. q.task.op \in {"create", "transition"}
    BY <1>5 DEF CallTasks, CreateTasks, TransitionTasks
  <2>5. SeenOK(q2, db)
    BY <1>6, <1>9, <2>1, <2>4 DEF SeenOK
  <2>6. SettledOK(q2, "idle", reply[w], db)
    BY <1>4, <1>7, <2>1 DEF SettledOK
  <2>7. WorkerOK(q2, pc[w], cmd[w], reply[w], db, work)
    BY <1>4, <2>1, <2>3, <2>5, <2>6, CalmOK
  <2> QED BY <1>3, <1>4, <2>1, <2>2, <2>7, AsideOK
<1> QED BY <1>8, <1>9

-----------------------------------------------------------------------------
(* Building and sending the command.                                        *)

LEMMA PlannedType ==
    ASSUME NEW t \in CallTasks, NEW error \in BuildErrors \union {NoError},
           NEW batch \in Seq(Candidates)
    PROVE  LET c == Planned(t, error, batch)
           IN /\ c \in CommandRecords
              /\ c.session = t.session /\ c.key = t.key /\ c.op = "commit"
              /\ c.input = InputOf(t) /\ c.expected = ExpectedOf(t)
              /\ c.error = error /\ c.batch = batch /\ c.observed = Unset
<1>1. t.session \in Sessions /\ t.key \in Keys
  BY DEF CallTasks, CreateTasks, TransitionTasks
<1>2. InputOf(t) \in Inputs /\ ExpectedOf(t) \in Nat
  <2>1. CASE t.op = "create"
    <3>1. t.reference \in {"r1", "r2"}
      BY <2>1 DEF CallTasks, CreateTasks, TransitionTasks
    <3> QED BY <2>1, <3>1, InputsAssumption DEF InputOf, ExpectedOf
  <2>2. CASE t.op # "create"
    <3>1. /\ t.target \in LifecycleStates /\ t.required \in LifecycleStates \union {None}
          /\ t.failure \in BOOLEAN /\ t.expected \in Nat
      BY <2>2 DEF CallTasks, CreateTasks, TransitionTasks
    <3> QED BY <2>2, <3>1, InputsAssumption DEF InputOf, ExpectedOf
  <2> QED BY <2>1, <2>2
<1> QED BY <1>1, <1>2 DEF Planned, CommandRecords

LEMMA FreshType == ASSUME FreshIds # {} PROVE (CHOOSE id \in FreshIds : TRUE) \in EventIds
BY DEF FreshIds

\* The thread holds a command of its task.
LEMMA BuiltOK ==
    ASSUME ServiceInv, NEW w \in Workers, At(w, "loaded"), NEW at \in Nat,
           NEW c \in CommandRecords, Builds(w, at, c),
           c = Planned(req[w].task, c.error, c.batch),
           LET q == [req[w] EXCEPT !.step = "built", !.at = at, !.plan = c]
           IN /\ q.task.op = "create" => CreatePlan(q, c)
              /\ q.task.op = "transition" => TransitionPlan(q, c),
           UNCHANGED <<db, work, writer, pc, cmd, reply, catalogue>>,
           capture' \in Catalogues \union {Unset}
    PROVE  ServiceInv'
<1>1. PICK q : q = req[w]
  OBVIOUS
<1>2. /\ q \in RequestStates /\ q.step = "loaded" /\ pc[w] = "idle"
      /\ FormOK(q, "idle") /\ SeenOK(q, db) /\ SettledOK(q, "idle", reply[w], db)
      /\ catalogue \in Catalogues
  BY <1>1, Standing
<1> DEFINE q2 == [q EXCEPT !.step = "built", !.at = at, !.plan = c]
<1>3. /\ q2 \in RequestStates /\ q2.step = "built" /\ q2.task = q.task /\ q2.seen = q.seen
      /\ q2.outer = q.outer /\ q2.settled = q.settled /\ q2.plan = c
  BY <1>2 DEF RequestStates
<1>4. /\ req' = [req EXCEPT ![w] = q2] /\ c = Planned(q.task, c.error, c.batch)
      /\ q2.task.op = "create" => CreatePlan(q2, c)
      /\ q2.task.op = "transition" => TransitionPlan(q2, c)
  BY <1>1 DEF Builds, Goes
<1> HIDE DEF q2
<1>5. FormOK(q2, "idle") /\ SeenOK(q2, db) /\ SettledOK(q2, "idle", reply[w], db)
  BY <1>2, <1>3 DEF FormOK, SeenOK, SettledOK
<1>6. PlanOK(q2)
  BY <1>3, <1>4 DEF PlanOK
<1>7. WorkerOK(q2, pc[w], cmd[w], reply[w], db, work)
  BY <1>2, <1>3, <1>5, <1>6, CalmOK
<1> QED BY <1>2, <1>3, <1>4, <1>7, AsideOK

LEMMA BuildCreateOK ==
    ASSUME ServiceInv, NEW w \in Workers, NEW at \in Times, BuildCreate(w, at)
    PROVE  ServiceInv'
<1>1. PICK q : q = req[w]
  OBVIOUS
<1> DEFINE resolves == q.seen = None /\ Catalogued
           scenario == IF resolves THEN Served ELSE Unpinned
           event == [id |-> CHOOSE id \in FreshIds : TRUE,
                     body |-> CreatedEvent(create_session(scenario, at), 1)]
           c == Planned(q.task, NoError, <<event>>)
<1>2. /\ At(w, "loaded") /\ q.task.op = "create"
      /\ IF resolves THEN Keep ELSE UNCHANGED capture
      /\ IF resolves /\ Served \notin Contents
         THEN Respond(w, [kind |-> "refused", code |-> IF Served = None THEN "SCENARIO_MISSING"
                                                       ELSE "SCENARIO_INVALID"])
         ELSE FreshIds # {} /\ Builds(w, at, c) /\ reply' = reply
      /\ UNCHANGED <<db, work, writer, pc, cmd, catalogue>>
  BY <1>1 DEF BuildCreate
<1>3. /\ q \in RequestStates /\ q.step = "loaded" /\ FormOK(q, "idle")
      /\ SettledOK(q, "idle", reply[w], db)
      /\ catalogue \in Catalogues /\ capture \in Catalogues \union {Unset}
  BY <1>1, <1>2, Standing
<1>4. capture' \in Catalogues \union {Unset}
  BY <1>2, <1>3 DEF Keep, Served
<1>5. CASE resolves /\ Served \notin Contents
  <2>1. ~q.settled
    BY <1>3, <1>5 DEF SettledOK
  <2>2. PICK r : r.kind = "refused" /\ Respond(w, r)
    BY <1>2, <1>5
  <2> QED BY <1>1, <1>2, <1>4, <2>1, <2>2, RespondOK
<1>6. CASE ~(resolves /\ Served \notin Contents)
  <2>1. scenario \in Scenarios /\ (resolves => scenario \in Contents)
    BY <1>6, ServiceAssumption DEF Contents
  <2>2. q.task \in CallTasks /\ at \in Nat
    BY <1>3, ServiceAssumption DEF FormOK
  <2>3. CreatedEvent(create_session(scenario, at), 1) \in EventRecords
    BY <2>1, <2>2, CreationFollows
  <2>4. event \in Candidates
    BY <1>2, <1>6, <2>3, FreshType DEF Candidates
  <2>5. event.body = CreatedEvent(create_session(scenario, at), 1)
    OBVIOUS
  <2> HIDE DEF event, scenario, resolves
  <2>6. <<event>> \in Seq(Candidates) /\ NoError \in BuildErrors \union {NoError}
        /\ Len(<<event>>) = 1 /\ <<event>>[1] = event
    BY <2>4
  <2>7. /\ c \in CommandRecords /\ c.error = NoError /\ c.batch = <<event>>
    BY <2>2, <2>6, PlannedType
  <2> HIDE DEF c
  <2>8. c = Planned(q.task, c.error, c.batch)
    BY <2>7 DEF c
  <2> DEFINE q2 == [q EXCEPT !.step = "built", !.at = at, !.plan = c]
  <2>9. q2.task = q.task /\ q2.seen = q.seen /\ q2.at = at
    BY <1>3 DEF RequestStates
  <2> HIDE DEF q2
  <2>10. CreatePlan(q2, c)
    BY <2>1, <2>5, <2>6, <2>7, <2>9 DEF CreatePlan, resolves
  <2>11. q2.task.op = "create"
    BY <1>2, <2>9
  <2> QED BY <1>1, <1>2, <1>4, <1>6, <2>2, <2>7, <2>8, <2>10, <2>11, BuiltOK DEF q2, resolves
<1> QED BY <1>5, <1>6

\* What build() raises is one of the store's build errors, and is blamed on the
\* session it was closed over.
LEMMA BuilderErrorType ==
    ASSUME NEW t, NEW s, NEW at,
           NEW error, error = BuilderError(t, s, TransitionRequest(t, at))
    PROVE  /\ error \in BuildErrors \union {NoError}
           /\ error # NoError => Blames(t, s, at, error)
           /\ error = NoError => /\ TransitionError(s, TransitionRequest(t, at)) = NoOutcome
                                 /\ t.required # None => s.state = t.required
BY DEF BuilderError, ScenarioError, TransitionError, Blames, BuildErrors, NoError, NoOutcome

LEMMA BuildTransitionOK ==
    ASSUME ServiceInv, NEW w \in Workers, NEW at \in Times, BuildTransition(w, at)
    PROVE  ServiceInv'
<1>1. PICK q : q = req[w]
  OBVIOUS
<1>2. PICK r, error : r = TransitionRequest(q.task, at) /\ error = BuilderError(q.task, q.seen, r)
  OBVIOUS
<1> DEFINE event == [id |-> CHOOSE id \in FreshIds : TRUE, body |-> TransitionEvent(q.seen, r, 2)]
           batch == IF error = NoError THEN <<event>> ELSE <<>>
           c == Planned(q.task, error, batch)
<1>3. /\ At(w, "loaded") /\ q.task.op = "transition"
      /\ error = NoError => FreshIds # {}
      /\ Builds(w, at, c)
      /\ UNCHANGED <<db, work, writer, pc, cmd, reply, catalogue, capture>>
  BY <1>1, <1>2 DEF BuildTransition, catalogues
<1>4. /\ q \in RequestStates /\ q.step = "loaded" /\ FormOK(q, "idle") /\ SeenOK(q, db)
      /\ capture \in Catalogues \union {Unset}
  BY <1>1, <1>3, Standing
<1>5. q.task \in CallTasks /\ at \in Nat
  BY <1>4, ServiceAssumption DEF FormOK
<1>6. r \in RequestRecords
  BY <1>2, <1>3, <1>5 DEF TransitionRequest, RequestRecords, CallTasks, CreateTasks,
                          TransitionTasks
<1>7. q.seen \in SessionRecords
  BY <1>3, <1>4 DEF SeenOK, RequestStates
<1>8. /\ error \in BuildErrors \union {NoError}
      /\ error # NoError => Blames(q.task, q.seen, at, error)
      /\ error = NoError => /\ TransitionError(q.seen, r) = NoOutcome
                            /\ q.task.required # None => q.seen.state = q.task.required
  BY <1>2, BuilderErrorType
<1>9. error = NoError => event \in Candidates
  <2> SUFFICES ASSUME error = NoError PROVE event \in Candidates
    OBVIOUS
  <2>1. TransitionEvent(q.seen, r, 2) \in EventRecords
    BY <1>6, <1>7, <1>8, TransitionEventType
  <2> QED BY <1>3, <2>1, FreshType DEF Candidates
<1>10. event.body = TransitionEvent(q.seen, r, 2)
  OBVIOUS
<1> HIDE DEF event
<1>11. /\ batch \in Seq(Candidates)
       /\ error = NoError => Len(batch) = 1 /\ batch[1] = event
       /\ error # NoError => batch = <<>>
  BY <1>9
<1> HIDE DEF batch
<1>12. c \in CommandRecords /\ c.error = error /\ c.batch = batch
  BY <1>5, <1>8, <1>11, PlannedType
<1> HIDE DEF c
<1>13. c = Planned(q.task, c.error, c.batch)
  BY <1>12 DEF c
<1> DEFINE q2 == [q EXCEPT !.step = "built", !.at = at, !.plan = c]
<1>14. q2.task = q.task /\ q2.seen = q.seen /\ q2.at = at
  BY <1>4 DEF RequestStates
<1> HIDE DEF q2
<1>15. TransitionPlan(q2, c)
  BY <1>2, <1>8, <1>10, <1>11, <1>12, <1>14 DEF TransitionPlan
<1>16. q2.task.op = "transition"
  BY <1>3, <1>14
<1> QED BY <1>1, <1>3, <1>4, <1>5, <1>12, <1>13, <1>15, <1>16, BuiltOK DEF q2

LEMMA SendOK ==
    ASSUME ServiceInv, NEW w \in Workers, Send(w)
    PROVE  ServiceInv'
<1>1. PICK q : q = req[w]
  OBVIOUS
<1> DEFINE q2 == [q EXCEPT !.step = "sent"]
<1>2. /\ At(w, "built") /\ Submit(w, q.plan) /\ req' = [req EXCEPT ![w] = q2]
      /\ catalogue' = catalogue /\ capture' = capture
  BY <1>1 DEF Send, Goes, catalogues
<1>3. /\ q \in RequestStates /\ q.step = "built" /\ FormOK(q, "idle") /\ SeenOK(q, db)
      /\ PlanOK(q) /\ SettledOK(q, "idle", reply[w], db)
      /\ catalogue \in Catalogues /\ capture \in Catalogues \union {Unset}
  BY <1>1, <1>2, Standing
<1>4. q.plan \in CommandRecords
  BY <1>3 DEF PlanOK
<1>5. /\ StoreInv /\ ImageOK(db) /\ TablesOK(db) /\ DOMAIN req = Workers
      /\ req \in [Workers -> RequestStates \union {None}]
  BY Parts DEF ServiceInv, Shared
<1>6. /\ pc \in [Workers -> {"closed", "idle", "sick"} \union InTransaction]
      /\ cmd \in [Workers -> CommandRecords \union OtherCalls \union {None}]
  BY <1>5 DEF StoreInv, IInv, TypeOK
<1>7. /\ writer = None /\ work' = db /\ db' = db /\ reply' = reply
      /\ pc' = [pc EXCEPT ![w] = "begun"] /\ cmd' = [cmd EXCEPT ![w] = q.plan]
  BY <1>2 DEF Submit, Begin
<1>8. StoreInv'
  <2>1. Submit(w, q.plan)
    BY <1>2
  <2> QED BY <1>4, <1>5, <2>1, SubmitMoves
<1>9. /\ q2 \in RequestStates /\ q2.step = "sent" /\ q2.task = q.task /\ q2.seen = q.seen
      /\ q2.outer = q.outer /\ q2.settled = q.settled /\ q2.plan = q.plan /\ q2.at = q.at
  BY <1>3 DEF RequestStates
<1> HIDE DEF q2
<1>10. FormOK(q2, "begun") /\ SeenOK(q2, db)
  BY <1>3, <1>9 DEF FormOK, SeenOK
<1>11. PlanOK(q2)
  BY <1>3, <1>9 DEF PlanOK, CreatePlan, TransitionPlan
<1>12. SettledOK(q2, "begun", reply[w], db)
  BY <1>3, <1>9 DEF SettledOK, InTransaction
<1>13. ReplyFits(q2, "begun", reply[w], db, db) /\ FlightFits(q2, "begun", db, db)
  BY DEF ReplyFits, FlightFits
<1>14. WorkerOK(q2, "begun", q.plan, reply[w], db, db)
  BY <1>9, <1>10, <1>11, <1>12, <1>13, ServiceAssumption DEF WorkerOK
<1>15. WorkerOK(req'[w], pc'[w], cmd'[w], reply'[w], db', work')
  BY <1>2, <1>5, <1>6, <1>7, <1>14
<1>16. \A v \in Workers \ {w} : /\ req'[v] = req[v] /\ pc'[v] = pc[v]
                                /\ cmd'[v] = cmd[v] /\ reply'[v] = reply[v]
  BY <1>2, <1>5, <1>6, <1>7
<1>17. req' \in [Workers -> RequestStates \union {None}]
  BY <1>2, <1>5, <1>9
<1>18. Preserves(db, db')
  BY <1>5, <1>7, PreservesRefl
<1>19. ImageOK(db') /\ ImageOK(work')
  BY <1>5, <1>7
<1>20. catalogue' \in Catalogues /\ capture' \in Catalogues \union {Unset}
  BY <1>2, <1>3
<1>21. writer \in {w, None} \/ (work' = work /\ db' = db)
  BY <1>7
<1> QED BY <1>8, <1>15, <1>16, <1>17, <1>18, <1>19, <1>20, <1>21, OneMoves

LEMMA SendBusyOK ==
    ASSUME ServiceInv, NEW w \in Workers, SendBusy(w)
    PROVE  ServiceInv'
<1>1. /\ At(w, "built") /\ Respond(w, [kind |-> "busy"])
      /\ UNCHANGED <<db, work, writer, pc, cmd, catalogue, capture>>
  BY DEF SendBusy, Busy, Respond, catalogues
<1>2. capture' \in Catalogues \union {Unset}
  BY <1>1, Standing
<1>3. PICK r : r = [kind |-> "busy"]
  OBVIOUS
<1>4. r.kind = "busy" /\ Respond(w, r)
  BY <1>1, <1>3
<1> QED BY <1>1, <1>2, <1>4, RespondOK DEF Granted

-----------------------------------------------------------------------------
(* prepare_scenario.                                                        *)

\* It starts one of its two transitions.
LEMMA NestedOK ==
    ASSUME ServiceInv, NEW w \in Workers, At(w, "preparing") \/ At(w, "verifying"),
           NEW target \in {"INITIALISING", "FAILED"}, NEW version \in Nat, NEW key \in Keys,
           Nested(w, target, version, key), reply' = reply,
           UNCHANGED <<db, work, writer, pc, cmd, catalogue, capture>>
    PROVE  ServiceInv'
<1>1. PICK q : q = req[w]
  OBVIOUS
<1>2. /\ q \in RequestStates /\ q.step \in {"preparing", "verifying"} /\ FormOK(q, "idle")
      /\ pc[w] = "idle" /\ catalogue \in Catalogues /\ capture \in Catalogues \union {Unset}
  BY <1>1, Standing
<1>3. q.outer \in PrepareTasks /\ ~q.settled /\ q.outer.session \in Sessions
  BY <1>2 DEF FormOK, PrepareTasks
<1> DEFINE t == [op |-> "transition", session |-> q.outer.session, key |-> key,
                 target |-> target, expected |-> version, required |-> None,
                 failure |-> target = "FAILED"]
           q2 == [q EXCEPT !.step = "asked", !.seen = None, !.plan = None, !.task = t]
<1>4. t \in TransitionTasks /\ t.op = "transition" /\ t.target = target
  BY <1>3 DEF TransitionTasks, LifecycleStates
<1>5. req' = [req EXCEPT ![w] = q2]
  BY <1>1 DEF Nested, Goes
<1> HIDE DEF t
<1>6. /\ q2 \in RequestStates /\ q2.step = "asked" /\ q2.task = t /\ q2.outer = q.outer
      /\ q2.settled = q.settled
  BY <1>2, <1>4 DEF RequestStates
<1> HIDE DEF q2
<1>7. FormOK(q2, "idle") /\ SeenOK(q2, db) /\ PlanOK(q2) /\ SettledOK(q2, "idle", reply[w], db)
  BY <1>3, <1>4, <1>6 DEF FormOK, CallTasks, SeenOK, PlanOK, SettledOK
<1>8. WorkerOK(q2, pc[w], cmd[w], reply[w], db, work)
  BY <1>2, <1>6, <1>7, CalmOK
<1> QED BY <1>2, <1>5, <1>6, <1>8, AsideOK

\* It goes on to verify the session s.
LEMMA VerifiesOK ==
    ASSUME ServiceInv, NEW w \in Workers, NEW s \in SessionRecords, Verifies(w, s),
           req[w] \in RequestStates, req[w].outer \in PrepareTasks, ~req[w].settled,
           pc[w] = "idle", UNCHANGED <<db, work, writer, pc, cmd, reply, catalogue, capture>>
    PROVE  ServiceInv'
<1>1. PICK q : q = req[w]
  OBVIOUS
<1> DEFINE q2 == [q EXCEPT !.step = "verifying", !.seen = s]
<1>2. req' = [req EXCEPT ![w] = q2] /\ s # None
  BY <1>1, NoneAssumption DEF Verifies, Goes
<1>3. /\ q2 \in RequestStates /\ q2.step = "verifying" /\ q2.outer = q.outer /\ q2.seen = s
      /\ q2.settled = q.settled
  BY <1>1 DEF RequestStates
<1> HIDE DEF q2
<1>4. FormOK(q2, "idle") /\ SeenOK(q2, db) /\ PlanOK(q2) /\ SettledOK(q2, "idle", reply[w], db)
  BY <1>1, <1>2, <1>3 DEF FormOK, SeenOK, PlanOK, SettledOK
<1>5. WorkerOK(q2, pc[w], cmd[w], reply[w], db, work)
  BY <1>3, <1>4, CalmOK
<1>6. catalogue' \in Catalogues /\ capture' \in Catalogues \union {Unset}
  BY DEF ServiceInv, Shared
<1> QED BY <1>2, <1>3, <1>5, <1>6, AsideOK

LEMMA PrepareLoadOK ==
    ASSUME ServiceInv, NEW w \in Workers, PrepareLoad(w)
    PROVE  ServiceInv'
<1>1. PICK q : q = req[w]
  OBVIOUS
<1>2. PICK s : s = Current(q.outer.session)
  OBVIOUS
<1>3. /\ At(w, "preparing")
      /\ IF s = None THEN Respond(w, [kind |-> "not_found"])
         ELSE IF s.state = "CREATED"
         THEN Nested(w, "INITIALISING", s.version, q.outer.initialising) /\ reply' = reply
         ELSE IF s.state = "INITIALISING"
         THEN Verifies(w, s) /\ reply' = reply
         ELSE Respond(w, [kind |-> "current", state |-> s.state])
      /\ UNCHANGED <<db, work, writer, pc, cmd, catalogue, capture>>
  BY <1>1, <1>2 DEF PrepareLoad, catalogues
<1>4. /\ q \in RequestStates /\ q.step = "preparing" /\ FormOK(q, "idle") /\ pc[w] = "idle"
      /\ capture' \in Catalogues \union {Unset}
  BY <1>1, <1>3, Standing
<1>5. /\ q.outer \in PrepareTasks /\ q.outer.session \in Sessions
      /\ q.outer.initialising \in Keys /\ ~q.settled
  BY <1>4 DEF FormOK, PrepareTasks
<1>6. s # None => s \in SessionRecords
  BY <1>2, <1>5, CurrentIs DEF ServiceInv
<1>7. s # None => s.version \in Nat
  BY <1>6 DEF SessionRecords
<1>8. ASSUME NEW r, r.kind # "result", Respond(w, r) PROVE ServiceInv'
  BY <1>1, <1>3, <1>4, <1>5, <1>8, RespondOK
<1>9. CASE Nested(w, "INITIALISING", s.version, q.outer.initialising) /\ reply' = reply
           /\ s # None
  BY <1>3, <1>5, <1>7, <1>9, NestedOK
<1>10. CASE Verifies(w, s) /\ reply' = reply /\ s # None
  BY <1>1, <1>3, <1>4, <1>5, <1>6, <1>10, VerifiesOK
<1>11. [kind |-> "not_found"].kind # "result"
       /\ [kind |-> "current", state |-> s.state].kind # "result"
  OBVIOUS
<1> QED BY <1>3, <1>8, <1>9, <1>10, <1>11

\* An answered result is one recorded event of the caller's session.
LEMMA ResultStored ==
    ASSUME ServiceInv, NEW w \in Workers, At(w, "sent"), reply[w].kind = "result",
           pc[w] \notin InTransaction
    PROVE  LET q == req[w]
               r == reply[w]
               log == db.log[q.task.session]
           IN /\ pc[w] = "idle" /\ q.task \in CallTasks
              /\ q.task.session \in Sessions /\ r.session = q.task.session
              /\ log \in Seq(Stored) /\ Project(log) # None
              /\ r.first \in 1..Len(log) /\ Len(r.events) = 1 /\ r.events[1] = log[r.first]
              /\ Fits(q.task, log[r.first].body)
<1>1. PICK q, r, p : q = req[w] /\ r = reply[w] /\ p = pc[w]
  OBVIOUS
<1>2. /\ q # None /\ q.step = "sent" /\ p \notin {"begun", "writing", "projected", "ready"}
      /\ r.kind = "result"
  BY <1>1 DEF At, InTransaction
<1>3. FormOK(q, p) /\ ReplyFits(q, p, r, db, work) /\ StoreInv /\ RowsFit(db) /\ TablesOK(db)
  BY <1>1, <1>2, Parts DEF WorkerOK, ImageOK
<1> DEFINE t == q.task
           log == db.log[t.session]
           row == db.requests[t.session][t.key]
<1>4. t \in CallTasks /\ t.session \in Sessions /\ t.key \in Keys /\ t.key # None
  BY <1>2, <1>3, NoneAssumption DEF FormOK, CallTasks, CreateTasks, TransitionTasks
<1>5. p = "idle" /\ r.session = t.session /\ r.key = t.key /\ Serves(row, t)
  BY <1>2, <1>3 DEF ReplyFits
<1>6. ReplyOK(w)
  BY <1>3 DEF StoreInv, Answers
<1>7. Holds(db, r)
  BY <1>1, <1>2, <1>6 DEF ReplyOK
<1>8. /\ row # None /\ row.last = row.first /\ Fits(t, log[row.first].body)
  BY <1>3, <1>4, <1>5 DEF RowsFit, Serves
<1>9. /\ row.first = r.first /\ row.last = r.first + Len(r.events) - 1
      /\ r.first \in Nat \ {0} /\ Len(r.events) \in Nat
      /\ r.first + Len(r.events) - 1 <= Len(log)
      /\ SubSeq(log, r.first, r.first + Len(r.events) - 1) = r.events
  BY <1>4, <1>5, <1>7 DEF Holds
<1>10. log \in Seq(Stored) /\ Len(log) \in Nat
  BY <1>3, <1>4 DEF TablesOK
<1> HIDE DEF row, log, t
<1>11. Len(r.events) = 1 /\ r.first \in 1..Len(log)
  <2>1. \A a \in Nat \ {0}, b, n \in Nat :
          a + b - 1 = a /\ a + b - 1 <= n => b = 1 /\ a \in 1..n
    OBVIOUS
  <2>2. r.first + Len(r.events) - 1 = r.first
    BY <1>8, <1>9
  <2> QED BY <1>9, <1>10, <2>1, <2>2
<1>12. SubSeq(log, r.first, r.first) = r.events
  BY <1>9, <1>11
<1>13. r.events[1] = log[r.first]
  BY <1>10, <1>11, <1>12
<1>14. Project(log) # None
  <2>1. log # <<>>
    BY <1>10, <1>11
  <2> QED BY <1>3, <1>4, <2>1 DEF StoreInv, RInv, Sound, Projects, log
<1> QED BY <1>1, <1>4, <1>5, <1>8, <1>9, <1>10, <1>11, <1>13, <1>14 DEF t, log

LEMMA PrepareResumeOK ==
    ASSUME ServiceInv, NEW w \in Workers, PrepareResume(w)
    PROVE  ServiceInv'
<1>1. PICK q, r : q = req[w] /\ r = reply[w]
  OBVIOUS
<1>2. PICK s : s = Project(SubSeq(db.log[r.session], 1, r.first + Len(r.events) - 1))
  OBVIOUS
<1>3. /\ At(w, "sent") /\ pc[w] = "idle" /\ q.outer # None /\ r.kind = "result"
      /\ Verifies(w, s) /\ UNCHANGED <<db, work, writer, pc, cmd, reply, catalogue, capture>>
  BY <1>1, <1>2 DEF PrepareResume, Continues, vars, catalogues
<1>4. q \in RequestStates /\ FormOK(q, "idle")
  BY <1>1, <1>3, Standing
<1>5. q.outer \in PrepareTasks /\ ~q.settled
  BY <1>3, <1>4 DEF FormOK, RequestStates
<1> DEFINE log == db.log[q.task.session]
<1>6. /\ r.session = q.task.session /\ log \in Seq(Stored) /\ Project(log) # None
      /\ r.first \in 1..Len(log) /\ Len(r.events) = 1
  BY <1>1, <1>3, ResultStored DEF InTransaction
<1> HIDE DEF log
<1>7. r.first + Len(r.events) - 1 = r.first
  BY <1>6
<1>8. s = Project(SubSeq(log, 1, r.first))
  BY <1>2, <1>6, <1>7 DEF log
<1>9. s \in SessionRecords
  BY <1>6, <1>8, RecalledSound
<1> QED BY <1>1, <1>3, <1>4, <1>5, <1>9, VerifiesOK

LEMMA PrepareVerifyOK ==
    ASSUME ServiceInv, NEW w \in Workers, PrepareVerify(w)
    PROVE  ServiceInv'
<1>1. PICK q : q = req[w]
  OBVIOUS
<1>2. /\ At(w, "verifying")
      /\ \/ Nested(w, "FAILED", q.seen.version, q.outer.invalid) /\ reply' = reply
         \/ Respond(w, [kind |-> "current", state |-> q.seen.state])
      /\ UNCHANGED <<db, work, writer, pc, cmd, catalogue, capture>>
  BY <1>1 DEF PrepareVerify, catalogues
<1>3. /\ q \in RequestStates /\ q.step = "verifying" /\ FormOK(q, "idle")
      /\ capture' \in Catalogues \union {Unset}
  BY <1>1, <1>2, Standing
<1>4. q.outer.invalid \in Keys /\ ~q.settled
  BY <1>3 DEF FormOK, PrepareTasks
<1>5. q.seen \in SessionRecords
  BY <1>3 DEF FormOK, RequestStates
<1>6. q.seen.version \in Nat
  BY <1>5 DEF SessionRecords
<1>7. CASE Nested(w, "FAILED", q.seen.version, q.outer.invalid) /\ reply' = reply
  BY <1>2, <1>4, <1>6, <1>7, NestedOK
<1>8. CASE Respond(w, [kind |-> "current", state |-> q.seen.state])
  <2>1. PICK r : r.kind = "current" /\ Respond(w, r)
    BY <1>8
  <2> QED BY <1>1, <1>2, <1>3, <1>4, <2>1, RespondOK
<1> QED BY <1>2, <1>7, <1>8

LEMMA DoneOK ==
    ASSUME ServiceInv, NEW w \in Workers, Done(w)
    PROVE  ServiceInv'
<1>1. PICK r : r = [kind |-> "none"]
  OBVIOUS
<1>2. /\ Answered(w) /\ req' = [req EXCEPT ![w] = None] /\ Reply(w, r) /\ r.kind # "result"
      /\ UNCHANGED <<db, work, writer, pc, cmd, catalogue, capture>>
  BY <1>1 DEF Done, catalogues
<1>3. pc[w] \notin InTransaction
  <2>1. At(w, "answered") => pc[w] = "idle"
    BY Standing
  <2> QED BY <1>2, <2>1 DEF Answered, InTransaction
<1>4. WorkerOK(None, pc[w], cmd[w], r, db, work)
  BY <1>3 DEF WorkerOK, InTransaction
<1>5. catalogue' \in Catalogues /\ capture' \in Catalogues \union {Unset}
  BY <1>2 DEF ServiceInv, Shared
<1> QED BY <1>2, <1>4, <1>5, AsideOK

-----------------------------------------------------------------------------
(* A request inside the store.                                              *)

LEMMA ImageSame ==
    ASSUME NEW t, NEW u, ImageOK(t), u.log = t.log, u.requests = t.requests
    PROVE  ImageOK(u)
BY DEF ImageOK, Pinned, RowsFit

\* One event more, while no record speaks of it.
LEMMA ImageAppend ==
    ASSUME NEW t, TablesOK(t), ImageOK(t), NEW s \in Sessions, NEW e \in Stored,
           \A x \in Sessions, k \in Keys :
               t.requests[x][k] # None => t.requests[x][k].first \in 1..Len(t.log[x]),
           Catalogued /\ t.log[s] = <<>> => e.body.scenario \in Contents,
           NEW u, u.log = [t.log EXCEPT ![s] = Append(@, e)], u.requests = t.requests
    PROVE  ImageOK(u)
<1>1. t.log \in [Sessions -> Seq(Stored)]
  BY DEF TablesOK
<1>2. /\ \A x \in Sessions : x # s => u.log[x] = t.log[x]
      /\ t.log[s] \in Seq(Stored) /\ u.log[s] = Append(t.log[s], e)
  BY <1>1
<1>3. /\ \A i \in 1..Len(t.log[s]) : u.log[s][i] = t.log[s][i]
      /\ t.log[s] = <<>> => u.log[s][1] = e
      /\ t.log[s] # <<>> => 1 \in 1..Len(t.log[s])
  BY <1>2
<1>4. Pinned(u)
  BY <1>2, <1>3 DEF ImageOK, Pinned
<1>5. ASSUME NEW x \in Sessions, NEW k \in Keys, u.requests[x][k] # None
      PROVE  LET row == u.requests[x][k]
             IN /\ row.last = row.first
                /\ \A c \in CallTasks : Serves(row, c) => Fits(c, u.log[x][row.first].body)
  <2>1. t.requests[x][k].first \in 1..Len(t.log[x])
    BY <1>5
  <2>2. u.log[x][t.requests[x][k].first] = t.log[x][t.requests[x][k].first]
    BY <1>2, <1>3, <2>1
  <2> QED BY <1>5, <2>2 DEF ImageOK, RowsFit
<1>6. RowsFit(u)
  BY <1>5 DEF RowsFit
<1> QED BY <1>4, <1>6 DEF ImageOK

\* Appending a sequence of one element.
LEMMA ConcatOne ==
    ASSUME NEW S, NEW a \in Seq(S), NEW b \in Seq(S), Len(b) = 1
    PROVE  a \o b = Append(a, b[1])
<1>1. PICK n, x : n = Len(a) /\ x = b[1] /\ n \in Nat /\ x \in S
  OBVIOUS
<1>2. PICK y, z : y = a \o b /\ z = Append(a, x)
  OBVIOUS
<1>3. /\ y \in Seq(S) /\ Len(y) = n + 1
      /\ \A i \in 1..(n + 1) : y[i] = IF i <= n THEN a[i] ELSE b[i - n]
  <2>1. /\ y \in Seq(S) /\ Len(y) = Len(a) + Len(b)
        /\ \A i \in 1..(Len(a) + Len(b)) : y[i] = IF i <= Len(a) THEN a[i] ELSE b[i - Len(a)]
    BY <1>2, ConcatProperties
  <2> QED BY <1>1, <2>1
<1>4. /\ z \in Seq(S) /\ Len(z) = n + 1 /\ z[n + 1] = x
      /\ \A i \in 1..n : z[i] = a[i]
  BY <1>1, <1>2, AppendProperties
<1>5. ASSUME NEW i \in 1..(n + 1) PROVE y[i] = z[i]
  <2>1. CASE i <= n
    <3>1. i \in 1..n
      BY <2>1
    <3> QED BY <1>3, <1>4, <2>1, <3>1
  <2>2. CASE ~(i <= n)
    <3>1. i = n + 1 /\ i - n = 1
      BY <1>1, <2>2
    <3>2. y[i] = b[i - n]
      BY <1>3, <2>2
    <3> QED BY <1>1, <1>4, <3>1, <3>2
  <2> QED BY <2>1, <2>2
<1>6. y = z
  BY <1>3, <1>4, <1>5, SeqEqual
<1> QED BY <1>1, <1>2, <1>6

LEMMA BodiesAppend ==
    ASSUME NEW log \in Seq(Stored), NEW x \in Stored
    PROVE  Bodies(Append(log, x)) = Append(Bodies(log), x.body)
<1>0. Len(log) \in Nat
  OBVIOUS
<1>1. PICK n, l : n = Len(log) /\ n \in Nat /\ l = Append(log, x)
  BY <1>0
<1>2. l \in Seq(Stored) /\ Len(l) = n + 1 /\ l[n + 1] = x /\ \A i \in 1..n : l[i] = log[i]
  BY <1>1, AppendProperties
<1>3. PICK g, h : g = Bodies(log) /\ h = Bodies(l)
  OBVIOUS
<1>4. g \in Seq(EventRecords) /\ Len(g) = n /\ \A i \in 1..n : g[i] = log[i].body
  BY <1>1, <1>3, BodiesOf
<1>5. h \in Seq(EventRecords) /\ Len(h) = n + 1 /\ \A i \in 1..(n + 1) : h[i] = l[i].body
  BY <1>2, <1>3, BodiesOf
<1>6. x.body \in EventRecords
  BY DEF Stored
<1>7. PICK z : z = Append(g, x.body)
  OBVIOUS
<1>8. /\ z \in Seq(EventRecords) /\ Len(z) = n + 1 /\ z[n + 1] = x.body
      /\ \A i \in 1..n : z[i] = g[i]
  BY <1>4, <1>6, <1>7, AppendProperties
<1>9. ASSUME NEW i \in 1..(n + 1) PROVE h[i] = z[i]
  <2>1. CASE i \in 1..n
    BY <1>2, <1>4, <1>5, <1>8, <2>1
  <2>2. CASE i = n + 1
    BY <1>2, <1>5, <1>8, <2>2
  <2>3. i \in 1..n \/ i = n + 1
    BY <1>1
  <2> QED BY <2>1, <2>2, <2>3
<1>10. h = z
  BY <1>5, <1>8, <1>9, SeqEqual
<1> QED BY <1>1, <1>3, <1>7, <1>10

\* A batch of one event, stamped and appended.
LEMMA OneEvent ==
    ASSUME NEW c \in CommandRecords, Len(c.batch) = 1, NEW log \in Seq(Stored)
    PROVE  LET x == Stamped(c, Len(log))[1]
           IN /\ x \in Stored
              /\ x.body = [c.batch[1].body EXCEPT !.seq = Len(log) + 1]
              /\ log \o Stamped(c, Len(log)) = Append(log, x)
              /\ Project(Append(log, x)) = project_session(Append(Bodies(log), x.body))
<1>1. PICK n : n = Len(log) /\ n \in Nat
  OBVIOUS
<1>2. c.batch \in Seq(Candidates) /\ 1 \in 1..Len(c.batch)
  BY DEF CommandRecords
<1>3. DOMAIN c.batch = 1..1
  BY <1>2
<1>4. PICK b : b = Stamped(c, n)
  OBVIOUS
<1>5. b[1] \in Stored
  BY <1>1, <1>2, <1>4, StampedType
<1>6. b = [i \in 1..1 |-> b[i]] /\ b[1].body = [c.batch[1].body EXCEPT !.seq = n + 1]
  BY <1>3, <1>4 DEF Stamped
<1>7. b \in Seq(Stored) /\ Len(b) = 1
  BY <1>5, <1>6
<1>8. log \o b = Append(log, b[1])
  BY <1>7, ConcatOne
<1>9. Project(Append(log, b[1])) = project_session(Append(Bodies(log), b[1].body))
  BY <1>5, BodiesAppend DEF Project
<1> QED BY <1>1, <1>4, <1>5, <1>6, <1>8, <1>9

\* Where the worker inside the transaction stands.
LEMMA Inside ==
    ASSUME ServiceInv, NEW w \in Workers, pc[w] \in InTransaction
    PROVE  /\ writer = w
           /\ pc[w] \in {"begun", "writing", "projected"} =>
                req[w] # None /\ cmd[w] = req[w].plan
           /\ req[w] # None =>
                /\ req[w] \in RequestStates /\ req[w].step = "sent"
                /\ req[w].task \in CallTasks
                /\ req[w].task.session \in Sessions /\ req[w].task.key \in Keys
                /\ req[w].plan \in CommandRecords
                /\ req[w].plan.op = "commit"
                /\ req[w].plan.session = req[w].task.session
                /\ req[w].plan.key = req[w].task.key
                /\ req[w].plan.input = InputOf(req[w].task)
                /\ req[w].plan.expected = ExpectedOf(req[w].task)
                /\ req[w].plan.observed = Unset
                /\ FormOK(req[w], pc[w]) /\ SeenOK(req[w], db) /\ PlanOK(req[w])
                /\ SettledOK(req[w], pc[w], reply[w], db)
                /\ ReplyFits(req[w], pc[w], reply[w], db, work)
                /\ FlightFits(req[w], pc[w], db, work)
<1>1. PICK q, p : q = req[w] /\ p = pc[w]
  OBVIOUS
<1>2. WorkerOK(q, p, cmd[w], reply[w], db, work)
  BY <1>1, Parts
<1>3. writer = w
  BY DEF ServiceInv, StoreInv, IInv, LockedOrClean
<1>4. p # "idle"
  BY <1>1 DEF InTransaction
<1>5. ASSUME q # None
      PROVE  /\ q \in RequestStates /\ q.step = "sent" /\ q.task \in CallTasks
             /\ q.task.session \in Sessions /\ q.task.key \in Keys
             /\ q.plan \in CommandRecords /\ q.plan.op = "commit"
             /\ q.plan.session = q.task.session /\ q.plan.key = q.task.key
             /\ q.plan.input = InputOf(q.task) /\ q.plan.expected = ExpectedOf(q.task)
             /\ q.plan.observed = Unset
             /\ FormOK(q, p) /\ SeenOK(q, db) /\ PlanOK(q)
             /\ SettledOK(q, p, reply[w], db) /\ ReplyFits(q, p, reply[w], db, work)
             /\ FlightFits(q, p, db, work)
  <2>1. /\ q \in RequestStates /\ FormOK(q, p) /\ SeenOK(q, db) /\ PlanOK(q)
        /\ SettledOK(q, p, reply[w], db) /\ ReplyFits(q, p, reply[w], db, work)
        /\ FlightFits(q, p, db, work)
    BY <1>2, <1>5 DEF WorkerOK
  <2>2. q.step = "sent" /\ q.task \in CallTasks
    BY <1>4, <2>1 DEF FormOK
  <2>3. q.task.session \in Sessions /\ q.task.key \in Keys
    BY <2>2 DEF CallTasks, CreateTasks, TransitionTasks
  <2>4. q.plan \in CommandRecords /\ q.plan = Planned(q.task, q.plan.error, q.plan.batch)
    BY <2>1, <2>2 DEF PlanOK
  <2>5. /\ q.plan.error \in BuildErrors \union {NoError}
        /\ q.plan.batch \in Seq(Candidates)
    BY <2>4 DEF CommandRecords
  <2>6. /\ q.plan.op = "commit"
        /\ q.plan.session = q.task.session /\ q.plan.key = q.task.key
        /\ q.plan.input = InputOf(q.task) /\ q.plan.expected = ExpectedOf(q.task)
        /\ q.plan.observed = Unset
    <3>1. PICK error, batch : error = q.plan.error /\ batch = q.plan.batch
      OBVIOUS
    <3>2. /\ error \in BuildErrors \union {NoError} /\ batch \in Seq(Candidates)
          /\ q.plan = Planned(q.task, error, batch)
      BY <2>4, <2>5, <3>1
    <3> QED BY <2>2, <3>2, PlannedType
  <2> QED BY <2>1, <2>2, <2>3, <2>4, <2>6
<1> QED BY <1>1, <1>2, <1>3, <1>5 DEF WorkerOK

\* The step leaves w with the reply r.
Says(w, r) == \/ reply' = [reply EXCEPT ![w] = r]
              \/ reply' = reply /\ r = reply[w]

\* A step of w in the store, which leaves the other workers alone.
LEMMA InStoreOK ==
    ASSUME ServiceInv, NEW w \in Workers, [Next]_vars,
           req' = req, catalogue' = catalogue, capture' = capture,
           writer \in {w, None} \/ (work' = work /\ db' = db),
           NEW p, pc' = [pc EXCEPT ![w] = p], NEW c, cmd' = [cmd EXCEPT ![w] = c],
           NEW r, Says(w, r), ImageOK(db'), ImageOK(work'),
           Preserves(db, db') => WorkerOK(req[w], p, c, r, db', work')
    PROVE  ServiceInv'
<1>1. /\ StoreInv /\ req \in [Workers -> RequestStates \union {None}]
      /\ catalogue \in Catalogues /\ capture \in Catalogues \union {Unset}
  BY DEF ServiceInv, Shared
<1>2. /\ pc \in [Workers -> {"closed", "idle", "sick"} \union InTransaction]
      /\ cmd \in [Workers -> CommandRecords \union OtherCalls \union {None}]
      /\ DOMAIN reply = Workers
  BY <1>1 DEF StoreInv, IInv, TypeOK
<1>3. StoreInv' /\ Preserves(db, db')
  BY <1>1, StoreMoves
<1>4. /\ req'[w] = req[w] /\ pc'[w] = p /\ cmd'[w] = c /\ reply'[w] = r
      /\ \A v \in Workers \ {w} : /\ req'[v] = req[v] /\ pc'[v] = pc[v]
                                  /\ cmd'[v] = cmd[v] /\ reply'[v] = reply[v]
  BY <1>2 DEF Says
<1>5. WorkerOK(req'[w], pc'[w], cmd'[w], reply'[w], db', work')
  BY <1>3, <1>4
<1>6. /\ req' \in [Workers -> RequestStates \union {None}]
      /\ catalogue' \in Catalogues /\ capture' \in Catalogues \union {Unset}
  BY <1>1
<1> QED BY <1>3, <1>4, <1>5, <1>6, OneMoves

\* A transaction ends, with or without a result.
LEMMA EndsOK ==
    ASSUME ServiceInv, NEW w \in Workers, [Next]_vars,
           req' = req, catalogue' = catalogue, capture' = capture,
           pc[w] \in InTransaction, NEW t \in {db, work},
           NEW next \in {"closed", "idle", "sick"}, End(w, t, next),
           NEW r, Says(w, r),
           r.kind = "result" =>
               pc[w] = "ready" /\ r = reply[w] /\ t = work /\ next = "idle",
           req[w] # None /\ req[w].settled => r.kind \in Granted
    PROVE  ServiceInv'
<1>1. PICK q, p : q = req[w] /\ p = pc[w]
  OBVIOUS
<1>2. /\ writer = w /\ ImageOK(t) /\ db' = t /\ work' = t
      /\ pc' = [pc EXCEPT ![w] = next] /\ cmd' = [cmd EXCEPT ![w] = None]
      /\ TablesOK(db) /\ TablesOK(t)
  BY Inside, Parts DEF End
<1>3. ASSUME Preserves(db, t) PROVE WorkerOK(q, next, None, r, t, t)
  <2>1. CASE q = None
    BY <2>1 DEF WorkerOK
  <2>2. CASE q # None
    <3>1. /\ q \in RequestStates /\ q.step = "sent" /\ q.task \in CallTasks
          /\ q.task.session \in Sessions /\ q.task.key \in Keys
          /\ FormOK(q, p) /\ SeenOK(q, db) /\ PlanOK(q)
          /\ SettledOK(q, p, reply[w], db) /\ ReplyFits(q, p, reply[w], db, work)
      BY <1>1, <2>2, Inside
    <3>2. FormOK(q, next)
      BY <3>1 DEF FormOK
    <3>3. SeenOK(q, t)
      <4>1. q.seen # None => Recalled(q.seen, t.log[q.task.session])
        BY <1>2, <1>3, <3>1, RecalledGrows DEF SeenOK
      <4> QED BY <3>1, <4>1 DEF SeenOK
    <3>4. \A k : Serves(db.requests[q.task.session][q.task.key], k)
                   => Serves(t.requests[q.task.session][q.task.key], k)
      BY <1>3, <3>1 DEF Serves, Preserves
    <3>5. SettledOK(q, next, r, t)
      BY <1>1, <2>2, <3>1, <3>4 DEF SettledOK
    <3>6. ReplyFits(q, next, r, t, t)
      BY <1>1, <3>1 DEF ReplyFits
    <3>7. FlightFits(q, next, t, t)
      BY DEF FlightFits
    <3> QED BY <3>1, <3>2, <3>3, <3>5, <3>6, <3>7 DEF WorkerOK
  <2> QED BY <2>1, <2>2
<1>4. Preserves(db, db') => WorkerOK(req[w], next, None, r, db', work')
  BY <1>1, <1>2, <1>3
<1>5. ImageOK(db') /\ ImageOK(work')
  BY <1>2
<1>6. writer \in {w, None} \/ (work' = work /\ db' = db)
  BY <1>2
<1>7. /\ pc' = [pc EXCEPT ![w] = next] /\ cmd' = [cmd EXCEPT ![w] = None]
  BY <1>2
<1> QED BY <1>4, <1>5, <1>6, <1>7, InStoreOK

\* A store step of a worker that runs no request.
LEMMA NoRequestOK ==
    ASSUME ServiceInv, NEW w \in Workers, [Next]_vars,
           req' = req, catalogue' = catalogue, capture' = capture, req[w] = None,
           writer \in {w, None} \/ (work' = work /\ db' = db),
           NEW p, pc' = [pc EXCEPT ![w] = p], p \notin {"begun", "writing", "projected"},
           NEW c, cmd' = [cmd EXCEPT ![w] = c], NEW r, Says(w, r),
           db' = db, ImageOK(work')
    PROVE  ServiceInv'
<1>1. ImageOK(db')
  BY Parts
<1>2. WorkerOK(None, p, c, r, db', work')
  BY DEF WorkerOK
<1>3. WorkerOK(req[w], p, c, r, db', work')
  BY <1>2
<1> QED BY <1>1, <1>3, InStoreOK

\* A request goes on inside its transaction.
LEMMA GoesOnInside ==
    ASSUME ServiceInv, NEW w \in Workers, [Next]_vars,
           req' = req, catalogue' = catalogue, capture' = capture,
           pc[w] \in {"begun", "writing", "projected"}, db' = db, cmd' = cmd,
           NEW p \in {"writing", "projected", "ready"}, pc' = [pc EXCEPT ![w] = p],
           NEW r, Says(w, r), NEW u, work' = u, ImageOK(u),
           req[w].settled => p = "ready",
           p = "ready" => /\ r.kind = "result"
                          /\ r.session = req[w].task.session /\ r.key = req[w].task.key
                          /\ Serves(u.requests[r.session][r.key], req[w].task),
           FlightFits(req[w], p, db, u)
    PROVE  ServiceInv'
<1>1. PICK q, c, d : q = req[w] /\ c = cmd[w] /\ d = db
  OBVIOUS
<1>2. pc[w] \in InTransaction
  BY DEF InTransaction
<1>3. /\ writer = w /\ q # None /\ c = q.plan /\ q \in RequestStates /\ q.step = "sent"
      /\ FormOK(q, pc[w]) /\ SeenOK(q, d) /\ PlanOK(q) /\ SettledOK(q, pc[w], reply[w], d)
  BY <1>1, <1>2, Inside
<1>4. FormOK(q, p)
  BY <1>3 DEF FormOK
<1>5. SettledOK(q, p, r, d)
  BY <1>1, <1>3 DEF SettledOK, InTransaction
<1>6. ReplyFits(q, p, r, d, u)
  BY <1>1 DEF ReplyFits
<1>7. FlightFits(q, p, d, u)
  BY <1>1
<1>8. WorkerOK(q, p, c, r, d, u)
  BY <1>3, <1>4, <1>5, <1>6, <1>7 DEF WorkerOK
<1>9. WorkerOK(req[w], p, c, r, db', work')
  BY <1>1, <1>8
<1>10. cmd' = [cmd EXCEPT ![w] = c]
  BY <1>1 DEF ServiceInv, StoreInv, IInv, TypeOK
<1>11. ImageOK(db') /\ ImageOK(work')
  BY Parts
<1>12. writer \in {w, None} \/ (work' = work /\ db' = db)
  BY <1>3
<1> QED BY <1>9, <1>10, <1>11, <1>12, InStoreOK

\* The tables inside the transaction of a request.
LEMMA InsideTables ==
    ASSUME ServiceInv, NEW w \in Workers, pc[w] \in {"begun", "writing", "projected"}
    PROVE  /\ TablesOK(db) /\ TablesOK(work) /\ ImageOK(work) /\ Good(db)
           /\ pc[w] = "begun" => work = db
           /\ pc[w] \in {"writing", "projected"} => WritingOK(w)
           /\ pc[w] = "writing" => Underway(w)
           /\ DOMAIN pc = Workers /\ DOMAIN reply = Workers
<1>1. TablesOK(db) /\ TablesOK(work) /\ ImageOK(work)
  BY Parts
<1>2. Good(db) /\ InFlight(w) /\ SoundFlight(w) /\ TypeOK
  BY DEF ServiceInv, StoreInv, IInv, RInv
<1> QED BY <1>1, <1>2 DEF InFlight, SoundFlight, TypeOK

LEMMA DecideCommitHolds ==
    ASSUME ServiceInv, NEW w \in Workers, DecideCommit(w),
           req' = req, catalogue' = catalogue, capture' = capture
    PROVE  ServiceInv'
<1>1. PICK q, c : q = req[w] /\ c = cmd[w]
  OBVIOUS
<1>2. PICK s, k, row : s = c.session /\ k = c.key /\ row = work.requests[s][k]
  OBVIOUS
<1>3. pc[w] = "begun" /\ pc[w] \in InTransaction /\ [Next]_vars
  BY DEF DecideCommit, InTransaction, Next, TransactionStep
<1>4. /\ work = db /\ ImageOK(work) /\ DOMAIN pc = Workers /\ DOMAIN reply = Workers
  BY <1>3, InsideTables
<1>5. /\ q # None /\ c = q.plan /\ SettledOK(q, pc[w], reply[w], db)
      /\ s = q.task.session /\ k = q.task.key /\ q.step = "sent"
      /\ c.input = InputOf(q.task) /\ c.expected = ExpectedOf(q.task)
  BY <1>1, <1>2, <1>3, Inside
<1>6. q.settled => row # None /\ SameCall(row, c)
  BY <1>2, <1>4, <1>5 DEF SettledOK, Serves, SameCall
<1>7. CASE row # None /\ SameCall(row, c)
  <2>1. PICK r : r = Result(s, k, row.first, row.last)
    OBVIOUS
  <2>2. /\ pc' = [pc EXCEPT ![w] = "ready"] /\ Says(w, r)
        /\ db' = db /\ work' = work /\ cmd' = cmd
    BY <1>1, <1>2, <1>7, <2>1 DEF DecideCommit, Prepare, Reply, Says
  <2>3. r.kind = "result" /\ r.session = s /\ r.key = k
    BY <2>1 DEF Result
  <2>4. Serves(work.requests[s][k], q.task)
    BY <1>2, <1>5, <1>7 DEF Serves, SameCall
  <2>5. PICK u : u = work
    OBVIOUS
  <2>6. /\ ImageOK(u) /\ work' = u /\ Serves(u.requests[r.session][r.key], q.task)
    BY <1>4, <2>2, <2>3, <2>4, <2>5
  <2>7. FlightFits(q, "ready", db, u)
    BY DEF FlightFits
  <2>8. pc[w] \in {"begun", "writing", "projected"}
    BY <1>3
  <2> QED BY <1>1, <1>3, <1>5, <2>2, <2>3, <2>6, <2>7, <2>8, GoesOnInside
<1>8. CASE ~(row # None /\ SameCall(row, c))
  <2>1. ~q.settled
    BY <1>6, <1>8
  <2>2. CASE StartWriting(w)
    <3>1. /\ pc' = [pc EXCEPT ![w] = "writing"] /\ db' = db /\ work' = work /\ cmd' = cmd
          /\ reply' = reply
      BY <2>2 DEF StartWriting
    <3>2. PICK u, r : u = work /\ r = reply[w]
      OBVIOUS
    <3>3. ImageOK(u) /\ work' = u /\ Says(w, r)
      BY <1>4, <3>1, <3>2 DEF Says
    <3>4. FlightFits(q, "writing", db, u)
      BY DEF FlightFits
    <3>5. pc[w] \in {"begun", "writing", "projected"}
      BY <1>3
    <3> QED BY <1>1, <1>3, <2>1, <3>1, <3>3, <3>4, <3>5, GoesOnInside
  <2>3. CASE \E r : End(w, db, "idle") /\ Reply(w, r) /\ r.kind # "result"
    <3>1. PICK r : End(w, db, "idle") /\ Says(w, r) /\ r.kind # "result"
      BY <2>3 DEF Reply, Says
    <3>2. PICK t : t = db
      OBVIOUS
    <3>3. t \in {db, work} /\ End(w, t, "idle")
      BY <3>1, <3>2
    <3>4. req[w] # None /\ req[w].settled => r.kind \in Granted
      BY <1>1, <2>1
    <3> QED BY <1>3, <3>1, <3>3, <3>4, EndsOK
  <2>4. \/ StartWriting(w)
        \/ \E kind \in {"conflict", "invalid"} : Rollback(w, kind, "idle")
        \/ \E code : Refuse(w, code)
    BY <1>1, <1>2, <1>8 DEF DecideCommit
  <2>5. ASSUME NEW kind \in {"conflict", "invalid"}, Rollback(w, kind, "idle")
        PROVE  \E r : End(w, db, "idle") /\ Reply(w, r) /\ r.kind # "result"
    <3>1. PICK r : r = [kind |-> kind]
      OBVIOUS
    <3>2. r.kind # "result"
      BY <3>1
    <3> QED BY <2>5, <3>1, <3>2 DEF Rollback
  <2>6. ASSUME NEW code, Refuse(w, code)
        PROVE  \E r : End(w, db, "idle") /\ Reply(w, r) /\ r.kind # "result"
    <3>1. PICK r : r = [kind |-> "refused", code |-> code]
      OBVIOUS
    <3>2. r.kind # "result"
      BY <3>1
    <3> QED BY <2>6, <3>1, <3>2 DEF Refuse
  <2> QED BY <2>2, <2>3, <2>4, <2>5, <2>6
<1> QED BY <1>7, <1>8

\* What a command writes is what its task asked for: the store compares the
\* version the task expects with the history's, and the projection compares the
\* event's starting version with it.
LEMMA WritesItsTask ==
    ASSUME NEW q \in RequestStates, q.step = "sent", q.task \in CallTasks, PlanOK(q),
           q.task.op = "transition" => q.seen # None, q.plan.batch # <<>>,
           NEW log \in Seq(Stored), Acceptable(q.plan, log),
           VersionOf(log) = ExpectedOf(q.task)
    PROVE  /\ Len(q.plan.batch) = 1
           /\ Fits(q.task, Stamped(q.plan, Len(log))[1].body)
           /\ Stamped(q.plan, Len(log))[1] \in Stored
<1>1. PICK t, c, n : t = q.task /\ c = q.plan /\ n = Len(log)
  OBVIOUS
<1>2. c \in CommandRecords /\ n \in Nat
  BY <1>1 DEF PlanOK
<1>3. t.op = "create" \/ (t.op = "transition" /\ t \in TransitionTasks)
  BY <1>1 DEF CallTasks, CreateTasks, TransitionTasks
<1>4. CASE t.op = "create"
  <2>1. Len(c.batch) = 1 /\ \E sc \in Scenarios :
            c.batch[1].body = CreatedEvent(create_session(sc, q.at), 1)
    BY <1>1, <1>4 DEF PlanOK, CreatePlan
  <2>2. PICK x, b : x = Stamped(c, n)[1] /\ b = c.batch[1].body
    OBVIOUS
  <2>3. x \in Stored /\ x.body = [b EXCEPT !.seq = n + 1]
    BY <1>1, <1>2, <2>1, <2>2, OneEvent
  <2>4. x.body.kind = "created"
    BY <2>1, <2>2, <2>3 DEF CreatedEvent
  <2> QED BY <1>1, <1>4, <2>1, <2>2, <2>3, <2>4 DEF Fits
<1>5. CASE t.op = "transition" /\ t \in TransitionTasks
  <2>1. PICK s, r : s = q.seen /\ r = TransitionRequest(t, q.at)
    OBVIOUS
  <2>2. /\ c.batch # <<>> => c.error = NoError
        /\ c.error = NoError => /\ t.required # None => s.state = t.required
                                /\ Len(c.batch) = 1
                                /\ c.batch[1].body = TransitionEvent(s, r, 2)
    BY <1>1, <1>5, <2>1 DEF PlanOK, TransitionPlan
  <2>3. Len(c.batch) = 1 /\ c.batch[1].body = TransitionEvent(s, r, 2)
        /\ (t.required # None => s.state = t.required)
    BY <1>1, <2>2
  <2>4. PICK x, b : x = Stamped(c, n)[1] /\ b = c.batch[1].body
    OBVIOUS
  <2>5. /\ x \in Stored /\ x.body = [b EXCEPT !.seq = n + 1]
        /\ log \o Stamped(c, n) = Append(log, x)
        /\ Project(Append(log, x)) = project_session(Append(Bodies(log), x.body))
    BY <1>1, <1>2, <2>3, <2>4, OneEvent
  <2>6. /\ s \in SessionRecords /\ q.at \in Nat
        /\ t.target \in LifecycleStates /\ t.failure \in BOOLEAN
    BY <1>1, <1>5, <2>1 DEF RequestStates, TransitionTasks
  <2>7. r \in RequestRecords /\ r.target = t.target /\ r.failure = t.failure
    BY <2>1, <2>6 DEF TransitionRequest, RequestRecords
  <2>8. /\ Transitioned(s, r).state = t.target /\ Transitioned(s, r).failure = t.failure
    BY <2>6, <2>7, TransitionedFields
  <2>9. /\ x.body.kind = "transition" /\ x.body.state = t.target
        /\ x.body.previous_version = s.version /\ x.body.previous_state = s.state
        /\ x.body.failure = t.failure
    BY <2>3, <2>4, <2>5, <2>8 DEF TransitionEvent
  <2>10. project_session(Append(Bodies(log), x.body)) # None
    BY <1>1, <2>5 DEF Acceptable
  <2>11. /\ Bodies(log) \in Seq(EventRecords) /\ Len(Bodies(log)) = Len(log)
         /\ x.body \in EventRecords
    BY <2>5, BodiesOf DEF Stored
  <2>12. Bodies(log) # <<>> /\ Follows(project_session(Bodies(log)), x.body)
    <3>1. PICK h, e : h = Bodies(log) /\ e = x.body
      OBVIOUS
    <3>2. project_session(Append(h, e)) =
             IF ~(e.seq = Len(h) + 1 /\ Contract(e)) THEN None
             ELSE IF h = <<>>
             THEN IF e.kind = "created" THEN create_session(e.scenario, e.at) ELSE None
             ELSE IF project_session(h) # None /\ Follows(project_session(h), e)
             THEN AfterEvent(project_session(h), e) ELSE None
      BY <2>11, <3>1, ProjectAppend
    <3> QED BY <2>9, <2>10, <3>1, <3>2
  <2>13. log # <<>>
    BY <2>11, <2>12
  <2>14. s.version = Project(log).version
    BY <2>9, <2>12 DEF Follows, Project, FactKinds
  <2>15. s.version = t.expected
    BY <1>1, <1>5, <2>13, <2>14 DEF VersionOf, ExpectedOf
  <2> QED BY <1>1, <1>5, <2>3, <2>4, <2>5, <2>9, <2>15 DEF Fits
<1> QED BY <1>3, <1>4, <1>5

\* A writer's own event: one, and what its task asked for.
LEMMA WritersEvent ==
    ASSUME ServiceInv, NEW w \in Workers, pc[w] = "writing"
    PROVE  LET c == cmd[w]
               s == c.session
               log == db.log[s]
           IN /\ s \in Sessions /\ log \in Seq(Stored) /\ work.log[s] \in Seq(Stored)
              /\ c = req[w].plan /\ s = req[w].task.session /\ ~req[w].settled
              /\ Len(c.batch) = 1
              /\ Stamped(c, Len(log))[1] \in Stored
              /\ Fits(req[w].task, Stamped(c, Len(log))[1].body)
<1>1. PICK q, c : q = req[w] /\ c = cmd[w]
  OBVIOUS
<1>2. PICK s : s = c.session
  OBVIOUS
<1>3. pc[w] \in InTransaction /\ pc[w] \in {"begun", "writing", "projected"}
  BY DEF InTransaction
<1>4. /\ q # None /\ c = q.plan /\ SettledOK(q, pc[w], reply[w], db) /\ SeenOK(q, db)
      /\ s = q.task.session /\ s \in Sessions /\ q.step = "sent"
      /\ q \in RequestStates /\ q.task \in CallTasks /\ PlanOK(q)
      /\ c.op = "commit" /\ c.expected = ExpectedOf(q.task)
  BY <1>1, <1>2, <1>3, Inside
<1>5. /\ TablesOK(db) /\ TablesOK(work) /\ WritingOK(w) /\ Underway(w)
  BY <1>3, InsideTables
<1>6. db.log[s] \in Seq(Stored) /\ work.log[s] \in Seq(Stored)
  BY <1>4, <1>5 DEF TablesOK
<1>7. ~q.settled
  BY <1>4 DEF SettledOK
<1>8. c.batch # <<>> /\ Acceptable(c, db.log[s]) /\ VersionOf(db.log[s]) = ExpectedOf(q.task)
  BY <1>1, <1>2, <1>4, <1>5 DEF WritingOK, Underway
<1>9. q.task.op = "transition" => q.seen # None
  BY <1>4 DEF SeenOK
<1>10. PICK log : log = db.log[s]
  OBVIOUS
<1>11. /\ Len(c.batch) = 1 /\ Fits(q.task, Stamped(c, Len(log))[1].body)
       /\ Stamped(c, Len(log))[1] \in Stored
  BY <1>4, <1>6, <1>8, <1>9, <1>10, WritesItsTask
<1> QED BY <1>1, <1>2, <1>4, <1>6, <1>7, <1>10, <1>11

\* A request gives up inside its transaction, before anything is recorded.
LEMMA GivesUp ==
    ASSUME ServiceInv, NEW w \in Workers, [Next]_vars,
           req' = req, catalogue' = catalogue, capture' = capture,
           pc[w] \in InTransaction, NEW kind, NEW next \in {"closed", "idle", "sick"},
           Rollback(w, kind, next), kind # "result",
           req[w] # None /\ req[w].settled => kind \in Granted
    PROVE  ServiceInv'
<1>1. PICK r, t : r = [kind |-> kind] /\ t = db
  OBVIOUS
<1>2. r.kind = kind
  BY <1>1
<1>3. t \in {db, work} /\ End(w, t, next) /\ Says(w, r)
  BY <1>1 DEF Rollback, Reply, Says
<1> QED BY <1>2, <1>3, EndsOK

LEMMA WriteEventHolds ==
    ASSUME ServiceInv, NEW w \in Workers, WriteEvent(w),
           req' = req, catalogue' = catalogue, capture' = capture
    PROVE  ServiceInv'
<1>1. PICK q, c : q = req[w] /\ c = cmd[w]
  OBVIOUS
<1>2. PICK s, n, l : s = c.session /\ n = Len(db.log[s]) /\ l = Len(work.log[s])
  OBVIOUS
<1>3. /\ pc[w] = "writing" /\ pc[w] \in InTransaction
      /\ pc[w] \in {"begun", "writing", "projected"} /\ [Next]_vars
  BY DEF WriteEvent, InTransaction, Next, TransactionStep
<1>4. PICK e : e = Stamped(c, n)[1]
  OBVIOUS
<1>5. /\ s \in Sessions /\ db.log[s] \in Seq(Stored) /\ work.log[s] \in Seq(Stored)
      /\ c = q.plan /\ s = q.task.session /\ ~q.settled
      /\ Len(c.batch) = 1 /\ e \in Stored /\ Fits(q.task, e.body)
  BY <1>1, <1>2, <1>3, <1>4, WritersEvent
<1>6. /\ TablesOK(db) /\ TablesOK(work) /\ ImageOK(work) /\ Good(db) /\ WritingOK(w)
      /\ DOMAIN pc = Workers
  BY <1>3, InsideTables
<1>7. /\ q # None /\ q.task \in CallTasks /\ q.step = "sent" /\ SeenOK(q, db) /\ PlanOK(q)
      /\ c = q.plan
  BY <1>1, <1>3, Inside
<1>8. n \in Nat /\ l \in Nat /\ n <= l
  <2>1. n \in Nat /\ l \in Nat
    <3>1. \A f \in Seq(Stored) : Len(f) \in Nat
      OBVIOUS
    <3>2. db.log[s] \in Seq(Stored) /\ work.log[s] \in Seq(Stored)
      BY <1>5
    <3> QED BY <1>2, <3>1, <3>2, Zenon
  <2>2. n <= l
    BY <1>1, <1>2, <1>6 DEF WritingOK
  <2> QED BY <2>1, <2>2
<1>9. l = n
  <2>1. l - n < 1
    BY <1>1, <1>2, <1>5 DEF WriteEvent, Written
  <2> QED BY <1>8, <2>1
<1>10. \/ Rollback(w, "conflict", "idle")
       \/ /\ work' = [work EXCEPT !.log[s] = Append(@, e), !.outbox[e.id] = "pending"]
          /\ e.id \notin StoredIds(work)
          /\ UNCHANGED <<db, writer, pc, cmd, reply>>
  <2>1. Written(w) + 1 = 1
    BY <1>1, <1>2, <1>8, <1>9 DEF Written
  <2> QED BY <1>1, <1>2, <1>4, <2>1 DEF WriteEvent, IdTaken
<1>11. CASE Rollback(w, "conflict", "idle")
  <2>1. req[w] # None /\ req[w].settled => "conflict" \in Granted
    BY <1>1, <1>5
  <2> QED BY <1>3, <1>11, <2>1, GivesUp
<1>12. CASE /\ work' = [work EXCEPT !.log[s] = Append(@, e), !.outbox[e.id] = "pending"]
            /\ e.id \notin StoredIds(work)
            /\ UNCHANGED <<db, writer, pc, cmd, reply>>
  <2>1. PICK t, u : t = work /\ u = work'
    OBVIOUS
  <2>2. /\ u.log = [t.log EXCEPT ![s] = Append(@, e)] /\ u.requests = t.requests
    BY <1>5, <1>6, <1>12, <2>1 DEF TablesOK
  <2>3. ASSUME NEW x \in Sessions, NEW k \in Keys, t.requests[x][k] # None
        PROVE  t.requests[x][k].first \in 1..Len(t.log[x])
    <3>1. t.requests = db.requests
      BY <1>6, <2>1 DEF WritingOK
    <3>2. PICK row : row = db.requests[x][k]
      OBVIOUS
    <3>3. /\ row # None /\ row \in RequestRows /\ Len(db.log[x]) \in Nat /\ Len(t.log[x]) \in Nat
      BY <1>6, <2>1, <2>3, <3>1, <3>2 DEF TablesOK
    <3>4. /\ 1 <= row.first /\ row.first <= row.last /\ row.last <= Len(db.log[x])
      BY <1>6, <3>2, <3>3 DEF Good, OncePerKeyIn
    <3>5. Len(db.log[x]) <= Len(t.log[x])
      <4>1. x # s => t.log[x] = db.log[x]
        BY <1>1, <1>2, <1>6, <2>1 DEF WritingOK
      <4>2. x = s => Len(db.log[x]) <= Len(t.log[x])
        BY <1>2, <1>8, <2>1
      <4> QED BY <3>3, <4>1, <4>2
    <3>6. row.first \in Nat /\ row.last \in Nat
      BY <3>3 DEF RequestRows
    <3>7. row.first \in 1..Len(t.log[x])
      BY <3>3, <3>4, <3>5, <3>6
    <3> QED BY <3>1, <3>2, <3>7
  <2>4. ASSUME Catalogued, t.log[s] = <<>> PROVE e.body.scenario \in Contents
    <3>1. l = 0
      BY <1>2, <2>1, <2>4
    <3>2. ~ \E i \in 1..n : TRUE
      BY <1>8, <1>9, <3>1
    <3>3. q.seen = None /\ q.task.op = "create"
      BY <1>2, <1>5, <1>7, <3>2 DEF SeenOK, Recalled
    <3>4. PICK sc \in Contents : c.batch[1].body = CreatedEvent(create_session(sc, q.at), 1)
      BY <1>7, <2>4, <3>3 DEF PlanOK, CreatePlan
    <3>5. PICK log : log = db.log[s]
      OBVIOUS
    <3>6. e.body = [c.batch[1].body EXCEPT !.seq = n + 1]
      <4>1. c \in CommandRecords
        BY <1>7 DEF PlanOK
      <4> QED BY <1>2, <1>4, <1>5, <3>5, <4>1, OneEvent
    <3>7. e.body.scenario = sc
      BY <3>4, <3>6 DEF CreatedEvent, create_session
    <3> QED BY <3>7
  <2>5. ImageOK(u)
    <3>1. TablesOK(t) /\ ImageOK(t)
      BY <1>6, <2>1
    <3>2. \A x \in Sessions, k \in Keys :
              t.requests[x][k] # None => t.requests[x][k].first \in 1..Len(t.log[x])
      BY <2>3
    <3>3. Catalogued /\ t.log[s] = <<>> => e.body.scenario \in Contents
      BY <2>4
    <3>4. u.log = [t.log EXCEPT ![s] = Append(@, e)]
      BY <2>2
    <3> QED BY <1>5, <2>2, <3>1, <3>2, <3>3, <3>4, ImageAppend
  <2>6. PICK r : r = reply[w]
    OBVIOUS
  <2>7. /\ Says(w, r) /\ work' = u /\ db' = db /\ cmd' = cmd
    BY <1>12, <2>1, <2>6 DEF Says
  <2>8. pc' = [pc EXCEPT ![w] = "writing"]
    BY <1>3, <1>12 DEF ServiceInv, StoreInv, IInv, TypeOK
  <2>9. FlightFits(req[w], "writing", db, u)
    BY DEF FlightFits
  <2>10. req[w].settled => "writing" = "ready"
    BY <1>1, <1>5
  <2>11. "writing" \in {"writing", "projected", "ready"} /\ "writing" # "ready"
    OBVIOUS
  <2> QED BY <1>3, <2>5, <2>7, <2>8, <2>9, <2>10, <2>11, GoesOnInside
<1> QED BY <1>10, <1>11, <1>12

LEMMA SaveProjectionHolds ==
    ASSUME ServiceInv, NEW w \in Workers, SaveProjection(w),
           req' = req, catalogue' = catalogue, capture' = capture
    PROVE  ServiceInv'
<1>1. PICK q, c : q = req[w] /\ c = cmd[w]
  OBVIOUS
<1>2. PICK s, n, l : s = c.session /\ n = Len(db.log[s]) /\ l = Len(work.log[s])
  OBVIOUS
<1>3. /\ pc[w] = "writing" /\ pc[w] \in {"begun", "writing", "projected"} /\ [Next]_vars
  BY DEF SaveProjection, Next, TransactionStep
<1>4. PICK e : e = Stamped(c, n)[1]
  OBVIOUS
<1>5. /\ s \in Sessions /\ db.log[s] \in Seq(Stored) /\ work.log[s] \in Seq(Stored)
      /\ s = q.task.session /\ ~q.settled
      /\ Len(c.batch) = 1 /\ Fits(q.task, e.body)
  BY <1>1, <1>2, <1>3, <1>4, WritersEvent
<1>6. /\ TablesOK(work) /\ ImageOK(work) /\ Underway(w) /\ DOMAIN pc = Workers
  BY <1>3, InsideTables
<1>7. n \in Nat /\ l \in Nat /\ l = n + 1
  <2>1. n \in Nat /\ l \in Nat
    BY <1>2, <1>5
  <2>2. l - n = 1
    BY <1>1, <1>2, <1>5 DEF SaveProjection, Written
  <2> QED BY <2>1, <2>2
<1>8. work.log[s][l] = e
  <2>1. 1 \in 1..(l - n)
    BY <1>7
  <2>2. work.log[s][n + 1] = Stamped(c, n)[1]
    BY <1>1, <1>2, <1>6, <2>1 DEF Underway
  <2> QED BY <1>4, <1>7, <2>2
<1>9. PICK t, u, r : t = work /\ u = work' /\ r = reply[w]
  OBVIOUS
<1>10. /\ pc' = [pc EXCEPT ![w] = "projected"] /\ db' = db /\ cmd' = cmd /\ Says(w, r)
       /\ u.log = t.log /\ u.requests = t.requests /\ work' = u
  BY <1>6, <1>9 DEF SaveProjection, Says, TablesOK
<1>11. ImageOK(u)
  BY <1>6, <1>9, <1>10, ImageSame
<1>12. FlightFits(req[w], "projected", db, u)
  BY <1>1, <1>2, <1>5, <1>7, <1>8, <1>9, <1>10 DEF FlightFits
<1>13. "projected" \in {"writing", "projected", "ready"} /\ "projected" # "ready"
  OBVIOUS
<1>14. req[w].settled => "projected" = "ready"
  BY <1>1, <1>5
<1> QED BY <1>3, <1>10, <1>11, <1>12, <1>13, <1>14, GoesOnInside

LEMMA RecordRequestHolds ==
    ASSUME ServiceInv, NEW w \in Workers, RecordRequest(w),
           req' = req, catalogue' = catalogue, capture' = capture
    PROVE  ServiceInv'
<1>1. PICK q, c : q = req[w] /\ c = cmd[w]
  OBVIOUS
<1>2. PICK s, k, n, l : s = c.session /\ k = c.key /\ n = Len(db.log[s])
                        /\ l = Len(work.log[s])
  OBVIOUS
<1>3. /\ pc[w] = "projected" /\ pc[w] \in {"begun", "writing", "projected"} /\ [Next]_vars
      /\ pc[w] \in InTransaction
  BY DEF RecordRequest, Next, TransactionStep, InTransaction
<1>4. PICK row, r : /\ row = [input |-> c.input, expected |-> c.expected,
                              first |-> n + 1, last |-> l]
                    /\ r = Result(s, k, n + 1, l)
  OBVIOUS
<1>5. /\ q # None /\ q.task \in CallTasks /\ c = q.plan /\ c \in CommandRecords
      /\ c.op = "commit" /\ s = q.task.session /\ k = q.task.key
      /\ c.input = InputOf(q.task) /\ c.expected = ExpectedOf(q.task)
      /\ s \in Sessions /\ k \in Keys
      /\ SettledOK(q, pc[w], reply[w], db) /\ FlightFits(q, pc[w], db, work)
      /\ q.step = "sent"
  BY <1>1, <1>2, <1>3, Inside
<1>6. TablesOK(db) /\ TablesOK(work) /\ ImageOK(work)
  BY <1>3, InsideTables
<1>7. ~q.settled
  BY <1>3, <1>5 DEF SettledOK
<1>8. /\ db.log[s] \in Seq(Stored) /\ n \in Nat /\ l \in Nat
      /\ l = n + 1 /\ Fits(q.task, work.log[s][l].body)
  BY <1>2, <1>3, <1>5, <1>6 DEF FlightFits, TablesOK
<1>9. /\ row \in RequestRows /\ row # None
      /\ row.input = InputOf(q.task) /\ row.expected = ExpectedOf(q.task)
      /\ row.first = l /\ row.last = l
  <2>1. c.input \in Inputs /\ c.expected \in Nat
    BY <1>5 DEF CommandRecords
  <2>2. row \in RequestRows
    BY <1>4, <1>8, <2>1 DEF RequestRows
  <2> QED BY <1>4, <1>5, <1>8, <2>2, NoneAssumption
<1>10. PICK t, u : t = work /\ u = work'
  OBVIOUS
<1>11. /\ pc' = [pc EXCEPT ![w] = "ready"] /\ db' = db /\ cmd' = cmd /\ work' = u
       /\ work' = [work EXCEPT !.requests[s][k] = row] /\ Says(w, r)
  BY <1>1, <1>2, <1>4, <1>5, <1>10 DEF RecordRequest, KeyOf, Reply, Says
<1>12. /\ u.log = t.log
       /\ u.requests = [t.requests EXCEPT ![s] = [t.requests[s] EXCEPT ![k] = row]]
  BY <1>5, <1>6, <1>10, <1>11 DEF TablesOK
<1>13. \A x \in Sessions, y \in Keys :
          u.requests[x][y] = IF x = s /\ y = k THEN row ELSE t.requests[x][y]
  BY <1>5, <1>6, <1>10, <1>12 DEF TablesOK
<1>14. Pinned(u)
  BY <1>6, <1>10, <1>12 DEF ImageOK, Pinned
<1>15. RowsFit(u)
  <2>1. ASSUME NEW x \in CallTasks, Serves(row, x)
        PROVE  Fits(x, u.log[s][row.first].body)
    <3>1. InputOf(x) = InputOf(q.task) /\ ExpectedOf(x) = ExpectedOf(q.task)
      BY <1>9, <2>1 DEF Serves
    <3>2. PICK e : e = work.log[s][l].body
      OBVIOUS
    <3>3. Fits(x, e)
      BY <1>5, <1>8, <3>1, <3>2, FitsSame
    <3> QED BY <1>9, <1>10, <1>12, <3>2, <3>3
  <2>2. RowsFit(t)
    BY <1>6, <1>10 DEF ImageOK
  <2>3. ASSUME NEW x \in Sessions, NEW y \in Keys, u.requests[x][y] # None
        PROVE  LET z == u.requests[x][y]
               IN /\ z.last = z.first
                  /\ \A a \in CallTasks : Serves(z, a) => Fits(a, u.log[x][z.first].body)
    <3>1. CASE x = s /\ y = k
      BY <1>9, <1>13, <2>1, <3>1
    <3>2. CASE ~(x = s /\ y = k)
      BY <1>12, <1>13, <2>2, <2>3, <3>2 DEF RowsFit
    <3> QED BY <3>1, <3>2
  <2> QED BY <2>3 DEF RowsFit
<1>16. ImageOK(u)
  BY <1>14, <1>15 DEF ImageOK
<1>17. /\ r.kind = "result" /\ r.session = q.task.session /\ r.key = q.task.key
       /\ Serves(u.requests[r.session][r.key], q.task)
  <2>1. r.kind = "result" /\ r.session = s /\ r.key = k
    BY <1>4 DEF Result
  <2>2. u.requests[s][k] = row
    BY <1>5, <1>13
  <2> QED BY <1>5, <1>9, <2>1, <2>2 DEF Serves
<1>18. FlightFits(q, "ready", db, u)
  BY DEF FlightFits
<1> QED BY <1>1, <1>3, <1>7, <1>11, <1>16, <1>17, <1>18, GoesOnInside

\* How a request's transaction ends.
LEMMA EndingsHold ==
    ASSUME ServiceInv, NEW w \in Workers,
           CommitOk(w) \/ CommitUncertain(w) \/ StatementFails(w),
           req' = req, catalogue' = catalogue, capture' = capture
    PROVE  ServiceInv'
<1>1. /\ pc[w] \in InTransaction /\ [Next]_vars
  BY DEF CommitOk, CommitUncertain, StatementFails, InTransaction, Next, TransactionStep
<1>2. CASE CommitOk(w)
  <2>1. PICK r, t : r = reply[w] /\ t = work
    OBVIOUS
  <2>2. /\ t \in {db, work} /\ End(w, t, "idle") /\ Says(w, r) /\ pc[w] = "ready"
    BY <1>2, <2>1 DEF CommitOk, Says
  <2>3. r.kind = "result" => pc[w] = "ready" /\ r = reply[w] /\ t = work /\ "idle" = "idle"
    BY <2>1, <2>2
  <2>4. req[w] # None /\ req[w].settled => r.kind \in Granted
    <3>1. PICK q : q = req[w]
      OBVIOUS
    <3>2. q # None => SettledOK(q, pc[w], reply[w], db) /\ q.step = "sent"
      BY <1>1, <3>1, Inside
    <3> QED BY <2>1, <2>2, <3>1, <3>2 DEF SettledOK, Granted
  <2> QED BY <1>1, <2>2, <2>3, <2>4, EndsOK
<1>3. CASE CommitUncertain(w)
  <2>1. PICK r : r = [kind |-> "unavailable"]
    OBVIOUS
  <2>2. PICK t \in {db, work} : End(w, t, "closed")
    BY <1>3 DEF CommitUncertain
  <2>3. Says(w, r) /\ r.kind = "unavailable"
    BY <1>3, <2>1 DEF CommitUncertain, Reply, Says
  <2>4. r.kind # "result" /\ r.kind \in Granted
    BY <2>3 DEF Granted
  <2> QED BY <1>1, <2>2, <2>3, <2>4, EndsOK
<1>4. CASE StatementFails(w)
  <2>1. PICK next : next = Failed(w)
    OBVIOUS
  <2>2. Rollback(w, "unavailable", next) /\ next \in {"closed", "idle", "sick"}
    BY <1>4, <2>1 DEF StatementFails, Failed
  <2>3. "unavailable" \in Granted /\ "unavailable" # "result"
    BY DEF Granted
  <2> QED BY <1>1, <2>2, <2>3, GivesUp
<1> QED BY <1>2, <1>3, <1>4

\* recover(), and what a worker without a request does to its connection.
LEMMA RecoverHolds ==
    ASSUME ServiceInv, NEW w \in Workers, Recover(w),
           req' = req, catalogue' = catalogue, capture' = capture
    PROVE  ServiceInv'
<1>1. /\ pc[w] = "recovering" /\ pc[w] \in InTransaction /\ [Next]_vars
  BY DEF Recover, InTransaction, Next, TransactionStep
<1>2. writer = w
  BY <1>1, Inside
<1>3. PICK q, p : q = req[w] /\ p = pc[w]
  OBVIOUS
<1>4. WorkerOK(q, p, cmd[w], reply[w], db, work) /\ TablesOK(work) /\ ImageOK(work)
  BY <1>3, Parts
<1>5. req[w] = None
  BY <1>1, <1>3, <1>4 DEF WorkerOK
<1>6. CASE Trusted(work)
  <2>1. PICK c, r : c = cmd[w] /\ r = [kind |-> "open"]
    OBVIOUS
  <2>2. /\ pc' = [pc EXCEPT ![w] = "ready"] /\ db' = db /\ cmd' = cmd /\ Says(w, r)
        /\ work' = [work EXCEPT !.sessions = [s \in Sessions |-> ProjectionRow(work.log[s])]]
    BY <1>6, <2>1 DEF Recover, Reply, Says
  <2>3. cmd' = [cmd EXCEPT ![w] = c]
    BY <2>1, <2>2 DEF ServiceInv, StoreInv, IInv, TypeOK
  <2>4. PICK t, u : t = work /\ u = work'
    OBVIOUS
  <2>5. u.log = t.log /\ u.requests = t.requests
    BY <1>4, <2>2, <2>4 DEF TablesOK
  <2>6. ImageOK(u)
    BY <1>4, <2>4, <2>5, ImageSame
  <2>7. ImageOK(work')
    BY <2>4, <2>6
  <2>8. writer \in {w, None} \/ (work' = work /\ db' = db)
    BY <1>2
  <2>9. "ready" \notin {"begun", "writing", "projected"}
    OBVIOUS
  <2> QED BY <1>1, <1>5, <2>2, <2>3, <2>7, <2>8, <2>9, NoRequestOK
<1>7. CASE ~Trusted(work)
  <2>1. PICK next : next = Failed(w)
    OBVIOUS
  <2>2. Rollback(w, "unavailable", next) /\ next \in {"closed", "idle", "sick"}
    BY <1>7, <2>1 DEF Recover, Failed
  <2>3. "unavailable" # "result"
    OBVIOUS
  <2> QED BY <1>1, <1>5, <2>2, <2>3, GivesUp
<1> QED BY <1>6, <1>7

LEMMA ConnectionHolds ==
    ASSUME ServiceInv, NEW w \in Workers, req[w] = None,
           BeginRecovery(w) \/ RecoveryBusy(w) \/ Close(w),
           req' = req, catalogue' = catalogue, capture' = capture
    PROVE  ServiceInv'
<1>1. [Next]_vars
  BY DEF Next
<1>2. /\ ImageOK(db) /\ ImageOK(work)
      /\ cmd \in [Workers -> CommandRecords \union OtherCalls \union {None}]
  BY Parts DEF ServiceInv, StoreInv, IInv, TypeOK
<1>3. PICK d, c : d = db /\ c = cmd[w]
  OBVIOUS
<1>4. CASE BeginRecovery(w)
  <2>1. PICK call, r : /\ call = [op |-> IF pc[w] = "closed" THEN "open" ELSE "recover"]
                       /\ r = reply[w]
    OBVIOUS
  <2>2. /\ writer = None /\ work' = d /\ db' = db /\ cmd' = [cmd EXCEPT ![w] = call]
        /\ pc' = [pc EXCEPT ![w] = "recovering"] /\ Says(w, r)
    BY <1>3, <1>4, <2>1 DEF BeginRecovery, Begin, Says
  <2>3. ImageOK(work')
    BY <1>2, <1>3, <2>2
  <2>4. writer \in {w, None} \/ (work' = work /\ db' = db)
    BY <2>2
  <2>5. "recovering" \notin {"begun", "writing", "projected"}
    OBVIOUS
  <2> QED BY <1>1, <2>2, <2>3, <2>4, <2>5, NoRequestOK
<1>5. CASE RecoveryBusy(w) \/ Close(w)
  <2>1. PICK next, r : /\ next = IF RecoveryBusy(w) /\ pc[w] # "closed" THEN "sick" ELSE "closed"
                       /\ r = IF RecoveryBusy(w) THEN [kind |-> "busy"] ELSE reply[w]
    OBVIOUS
  <2>2. /\ work' = work /\ db' = db /\ cmd' = cmd
        /\ pc' = [pc EXCEPT ![w] = next] /\ Says(w, r)
    BY <1>5, <2>1 DEF RecoveryBusy, Close, Reply, Says
  <2>3. ImageOK(work') /\ cmd' = [cmd EXCEPT ![w] = c]
    BY <1>2, <1>3, <2>2
  <2>4. writer \in {w, None} \/ (work' = work /\ db' = db)
    BY <2>2
  <2>5. next \notin {"begun", "writing", "projected"}
    BY <2>1
  <2> QED BY <1>1, <2>2, <2>3, <2>4, <2>5, NoRequestOK
<1> QED BY <1>4, <1>5

\* The requests go on in a store that is left as it was.
LEMMA QuietHolds ==
    ASSUME ServiceInv, UNCHANGED vars, req' = req,
           catalogue' \in Catalogues, capture' \in Catalogues \union {Unset}
    PROVE  ServiceInv'
<1>1. StoreInv'
  BY StoreMoves DEF ServiceInv
<1>2. /\ db' = db /\ work' = work /\ pc' = pc /\ cmd' = cmd /\ reply' = reply
  BY DEF vars
<1>3. Shared'
  <2>1. ImageOK(db') /\ ImageOK(work')
    <3>1. PICK d, u : d = db /\ u = work
      OBVIOUS
    <3>2. ImageOK(d) /\ ImageOK(u)
      BY <3>1 DEF ServiceInv, Shared
    <3> QED BY <1>2, <3>1, <3>2
  <2>2. req' \in [Workers -> RequestStates \union {None}]
    BY DEF ServiceInv, Shared
  <2> QED BY <2>1, <2>2 DEF Shared
<1>4. ASSUME NEW w \in Workers PROVE Own(w)'
  BY <1>2 DEF ServiceInv, Own
<1> QED BY <1>1, <1>3, <1>4 DEF ServiceInv

\* The process dies.
LEMMA CrashHolds == ASSUME ServiceInv, ServiceCrash PROVE ServiceInv'
<1>1. StoreInv'
  <2>1. [Next]_vars
    BY DEF ServiceCrash, Next
  <2> QED BY <2>1, StoreMoves DEF ServiceInv
<1>2. /\ db' = db /\ work' = db /\ req' = [w \in Workers |-> None]
      /\ pc' = [w \in Workers |-> "closed"] /\ capture' = Unset /\ catalogue' = catalogue
  BY DEF ServiceCrash, Crash
<1>3. Shared'
  <2>1. PICK d : d = db
    OBVIOUS
  <2>2. ImageOK(d)
    BY <2>1 DEF ServiceInv, Shared
  <2>3. ImageOK(db') /\ ImageOK(work')
    BY <1>2, <2>1, <2>2
  <2>4. req' \in [Workers -> RequestStates \union {None}] /\ catalogue \in Catalogues
    BY <1>2 DEF ServiceInv, Shared
  <2> QED BY <1>2, <2>3, <2>4 DEF Shared
<1>4. ASSUME NEW w \in Workers PROVE Own(w)'
  <2>1. req'[w] = None /\ pc'[w] = "closed"
    BY <1>2
  <2> QED BY <2>1 DEF Own, WorkerOK
<1> QED BY <1>1, <1>3, <1>4 DEF ServiceInv

LEMMA InitServiceInv == SInit => ServiceInv
<1> SUFFICES ASSUME SInit PROVE ServiceInv
  OBVIOUS
<1>1. StoreInv
  <2>1. Answers
    BY DEF SInit, Init, Answers, ReplyOK
  <2> QED BY <2>1, InitIInv, InitRInv DEF SInit, StoreInv
<1>2. /\ db = EmptyTables /\ work = EmptyTables /\ req = [w \in Workers |-> None]
      /\ pc = [w \in Workers |-> "closed"] /\ catalogue \in Catalogues /\ capture = Unset
  BY DEF SInit, Init
<1>3. ImageOK(EmptyTables)
  BY DEF EmptyTables, ImageOK, Pinned, RowsFit
<1>4. Shared
  <2>1. req \in [Workers -> RequestStates \union {None}]
    BY <1>2
  <2> QED BY <1>2, <1>3, <2>1 DEF Shared
<1>5. ASSUME NEW w \in Workers PROVE Own(w)
  BY <1>2 DEF Own, WorkerOK
<1> QED BY <1>1, <1>4, <1>5 DEF ServiceInv

\* Every step of the service keeps the invariant.
THEOREM NextServiceInv == ServiceInv /\ [SNext]_svars => ServiceInv'
<1> SUFFICES ASSUME ServiceInv, [SNext]_svars PROVE ServiceInv'
  OBVIOUS
<1>0. catalogue \in Catalogues /\ capture \in Catalogues \union {Unset}
  BY DEF ServiceInv, Shared
<1>1. ASSUME NEW w \in Workers, NEW t \in Tasks, Request(w, t) PROVE ServiceInv'
  BY <1>1, RequestOK
<1>2. ASSUME NEW w \in Workers, ServiceStep(w) PROVE ServiceInv'
  <2>1. CASE Load(w)
    BY <2>1, LoadOK
  <2>2. ASSUME NEW at \in Times, BuildCreate(w, at) PROVE ServiceInv'
    BY <2>2, BuildCreateOK
  <2>3. ASSUME NEW at \in Times, BuildTransition(w, at) PROVE ServiceInv'
    BY <2>3, BuildTransitionOK
  <2>4. CASE Send(w)
    BY <2>4, SendOK
  <2>5. CASE SendBusy(w)
    BY <2>5, SendBusyOK
  <2>6. CASE PrepareLoad(w)
    BY <2>6, PrepareLoadOK
  <2>7. CASE PrepareResume(w)
    BY <2>7, PrepareResumeOK
  <2>8. CASE PrepareVerify(w)
    BY <2>8, PrepareVerifyOK
  <2>9. CASE Done(w)
    BY <2>9, DoneOK
  <2> QED BY <1>2, <2>1, <2>2, <2>3, <2>4, <2>5, <2>6, <2>7, <2>8, <2>9 DEF ServiceStep
<1>3. ASSUME NEW w \in Workers, StoreStep(w), UNCHANGED <<req, catalogues>> PROVE ServiceInv'
  <2>0. req' = req /\ catalogue' = catalogue /\ capture' = capture
    BY <1>3 DEF catalogues
  <2>1. CASE CommitOk(w) \/ CommitUncertain(w) \/ StatementFails(w)
    BY <2>0, <2>1, EndingsHold
  <2>2. CASE WriteEvent(w)
    BY <2>0, <2>2, WriteEventHolds
  <2>3. CASE SaveProjection(w)
    BY <2>0, <2>3, SaveProjectionHolds
  <2>4. CASE RecordRequest(w)
    BY <2>0, <2>4, RecordRequestHolds
  <2>5. CASE DecideCommit(w)
    BY <2>0, <2>5, DecideCommitHolds
  <2>6. CASE DecideAppend(w)
    <3>1. pc[w] = "begun" /\ cmd[w].op = "append" /\ pc[w] \in InTransaction
      BY <2>6 DEF DecideAppend, InTransaction
    <3>2. cmd[w].op = "commit"
      BY <3>1, Inside
    <3> QED BY <3>1, <3>2
  <2>7. CASE Recover(w)
    BY <2>0, <2>7, RecoverHolds
  <2>8. CASE req[w] = None /\ (BeginRecovery(w) \/ RecoveryBusy(w) \/ Close(w))
    BY <2>0, <2>8, ConnectionHolds
  <2> QED BY <1>3, <2>1, <2>2, <2>3, <2>4, <2>5, <2>6, <2>7, <2>8 DEF StoreStep, TransactionStep
<1>4. CASE ServiceCrash
  BY <1>4, CrashHolds
<1>5. CASE EditCatalogue \/ UNCHANGED svars
  <2>1. /\ UNCHANGED vars /\ req' = req
        /\ catalogue' \in Catalogues /\ capture' \in Catalogues \union {Unset}
    BY <1>0, <1>5 DEF EditCatalogue, svars, catalogues
  <2> QED BY <2>1, QuietHolds
<1> QED BY <1>1, <1>2, <1>3, <1>4, <1>5 DEF SNext

-----------------------------------------------------------------------------
(* What clients are told.                                                   *)

\* Whatever the threads of DurableSessionService interleave, crash or retry, the
\* invariant above holds.
THEOREM ServiceInvariance == SSpec => []ServiceInv
BY InitServiceInv, NextServiceInv, PTL DEF SSpec

\* What the store promises its direct callers it keeps when the service drives it
\* with commands built from sessions loaded earlier: one effect per key, unique
\* identities, ordered publication, tables that recover() accepts, current
\* projections and durable answers.
THEOREM StoreKeepsItsPromises ==
    SSpec => [](/\ OncePerKey /\ UniqueIds /\ DispatchInOrder
                /\ AlwaysRecoverable /\ ProjectionCurrent /\ AcknowledgedIsDurable)
<1>1. ServiceInv => OncePerKey /\ UniqueIds /\ DispatchInOrder
  BY DEF ServiceInv, StoreInv, IInv, Good, OncePerKey, UniqueIds, DispatchInOrder
<1>2. ServiceInv => AlwaysRecoverable
  BY SoundTrusted DEF ServiceInv, StoreInv, IInv, TypeOK, RInv, AlwaysRecoverable
<1>3. ServiceInv => ProjectionCurrent
  BY DEF ServiceInv, StoreInv, RInv, Sound, RowsCurrent, ProjectionCurrent
<1>4. ServiceInv => AcknowledgedIsDurable
  BY DEF ServiceInv, StoreInv, Answers, ReplyOK, Holds, AcknowledgedIsDurable, Acknowledged
<1> QED BY <1>1, <1>2, <1>3, <1>4, ServiceInvariance, PTL

\* With a scenario directory configured, create() never leaves a session without
\* a pinned content, also when a concurrent creation, a rolled-back command or a
\* restart made it skip or repeat the catalogue lookup.
THEOREM PinnedFromCreation == SSpec => []AlwaysPinned
<1>1. ServiceInv => AlwaysPinned
  BY DEF ServiceInv, Shared, ImageOK, Pinned, AlwaysPinned
<1> QED BY <1>1, ServiceInvariance, PTL

\* A request whose key had taken effect with the same input is answered with its
\* result or a storage failure, never with a refusal, whatever was committed, or
\* changed in the catalogue, since.
THEOREM RetryNeverRefused == SSpec => []RetryHonoured
<1>1. ServiceInv => RetryHonoured
  <2> SUFFICES ASSUME ServiceInv, NEW w \in Workers, Answered(w), req[w].settled
               PROVE  reply[w].kind \in Granted
    BY DEF RetryHonoured, Granted
  <2>1. PICK q, p : q = req[w] /\ p = pc[w]
    OBVIOUS
  <2>2. CASE At(w, "answered")
    BY <2>1, <2>2, Standing DEF SettledOK
  <2>3. CASE At(w, "sent") /\ pc[w] \notin InTransaction
    BY <2>1, <2>3, Standing DEF SettledOK
  <2> QED BY <2>2, <2>3 DEF Answered
<1> QED BY <1>1, ServiceInvariance, PTL

\* A successful answer is the caller's own creation or transition, also from a
\* retry record; a preparation that answers with a rejection left the session
\* FAILED for good.
THEOREM AnswersAreOwn == SSpec => []AnswerFitsTask
<1>1. ServiceInv => AnswerFitsTask
  <2> SUFFICES ASSUME ServiceInv, NEW w \in Workers, At(w, "sent"), Answered(w),
                      reply[w].kind = "result"
               PROVE  LET t == req[w].task
                          e == reply[w].events[1].body
                      IN /\ Len(reply[w].events) = 1 /\ reply[w].session = t.session
                         /\ Fits(t, e)
                         /\ req[w].outer # None => Current(t.session).state = "FAILED"
    BY DEF AnswerFitsTask, Fits
  <2>1. PICK q, r, log : /\ q = req[w] /\ r = reply[w] /\ log = db.log[q.task.session]
    OBVIOUS
  <2>2. pc[w] \notin InTransaction /\ ~Continues(w)
    BY DEF Answered, At
  <2>3. /\ pc[w] = "idle" /\ q.task \in CallTasks
        /\ q.task.session \in Sessions /\ r.session = q.task.session
        /\ log \in Seq(Stored) /\ Project(log) # None
        /\ r.first \in 1..Len(log) /\ Len(r.events) = 1 /\ r.events[1] = log[r.first]
        /\ Fits(q.task, log[r.first].body)
    BY <2>1, <2>2, ResultStored
  <2>4. ASSUME q.outer # None PROVE Current(q.task.session).state = "FAILED"
    <3>1. q.task.target # "INITIALISING"
      BY <2>1, <2>2, <2>3, <2>4 DEF Continues
    <3>2. FormOK(q, pc[w]) /\ q.step = "sent"
      BY <2>1, Standing
    <3>3. q.task.op = "transition" /\ q.task.target = "FAILED"
      BY <2>4, <3>1, <3>2 DEF FormOK
    <3>4. PICK e : e = log[r.first].body
      OBVIOUS
    <3>5. e.kind = "transition" /\ e.state = "FAILED"
      BY <2>3, <3>3, <3>4 DEF Fits
    <3>6. Project(log).state = "FAILED"
      BY <2>3, <3>4, <3>5, RecalledSound
    <3>7. log # <<>>
      BY <2>3
    <3>8. Current(q.task.session) = Project(log)
      BY <2>1, <2>3, <3>7, CurrentIs DEF ServiceInv
    <3> QED BY <3>6, <3>8
  <2> QED BY <2>1, <2>3, <2>4
<1> QED BY <1>1, ServiceInvariance, PTL

\* A command built from the session the history projects to is accepted.
LEMMA Accepted ==
    ASSUME NEW q \in RequestStates, q.step = "sent", q.task \in CallTasks, PlanOK(q),
           q.plan.error = NoError, NEW log \in Seq(Stored),
           log # <<>> => Project(log) # None,
           q.task.op = "create" => log = <<>>,
           q.task.op = "transition" => log # <<>> /\ q.seen = Project(log)
    PROVE  Acceptable(q.plan, log)
<1>1. PICK t, c, n : t = q.task /\ c = q.plan /\ n = Len(log)
  OBVIOUS
<1>2. c \in CommandRecords /\ n \in Nat
  BY <1>1 DEF PlanOK
<1>3. t.op = "create" \/ (t.op = "transition" /\ t \in TransitionTasks)
  BY <1>1 DEF CallTasks, CreateTasks, TransitionTasks
<1>4. Len(c.batch) = 1
  BY <1>1, <1>3 DEF PlanOK, CreatePlan, TransitionPlan
<1>5. ValidBatch(c)
  <2>1. c.batch \in Seq(Candidates) /\ DOMAIN c.batch = 1..1
    BY <1>2, <1>4 DEF CommandRecords
  <2>2. \A i, j \in DOMAIN c.batch : i = j
    BY <2>1
  <2>3. c.batch # <<>>
    <3>1. c.batch = <<>> => Len(c.batch) = 0
      OBVIOUS
    <3> QED BY <1>4, <3>1
  <2> QED BY <2>2, <2>3 DEF ValidBatch
<1>6. PICK x, b, h : x = Stamped(c, n)[1] /\ b = c.batch[1].body /\ h = Bodies(log)
  OBVIOUS
<1>7. /\ x \in Stored /\ x.body = [b EXCEPT !.seq = n + 1]
      /\ log \o Stamped(c, n) = Append(log, x)
      /\ Project(Append(log, x)) = project_session(Append(h, x.body))
  BY <1>1, <1>2, <1>4, <1>6, OneEvent
<1>8. PICK e : e = x.body
  OBVIOUS
<1>9. /\ h \in Seq(EventRecords) /\ Len(h) = n /\ e \in EventRecords
  BY <1>1, <1>6, <1>7, <1>8, BodiesOf DEF Stored
<1>10. project_session(Append(h, e)) =
         IF ~(e.seq = Len(h) + 1 /\ Contract(e)) THEN None
         ELSE IF h = <<>>
         THEN IF e.kind = "created" THEN create_session(e.scenario, e.at) ELSE None
         ELSE IF project_session(h) # None /\ Follows(project_session(h), e)
         THEN AfterEvent(project_session(h), e) ELSE None
  BY <1>9, ProjectAppend
<1>11. project_session(Append(h, e)) # None
  <2>1. CASE t.op = "create"
    <3>1. PICK sc \in Scenarios : b = CreatedEvent(create_session(sc, q.at), 1)
      BY <1>1, <1>6, <2>1 DEF PlanOK, CreatePlan
    <3>2. q.at \in Nat
      BY DEF RequestStates
    <3>3. n = 0 /\ h = <<>>
      <4>1. n = 0
        BY <1>1, <2>1
      <4> QED BY <1>9, <4>1
    <3>4. e = b
      BY <1>7, <1>8, <3>1, <3>3 DEF CreatedEvent
    <3>5. PICK s : s = create_session(sc, q.at)
      OBVIOUS
    <3>6. /\ s \in SessionRecords /\ Contract(e) /\ e.seq = 1 /\ e.kind = "created"
          /\ s = create_session(e.scenario, e.at)
      BY <3>1, <3>2, <3>4, <3>5, CreationFollows
    <3> QED BY <1>9, <1>10, <3>3, <3>6, NoneAssumption
  <2>2. CASE t.op = "transition" /\ t \in TransitionTasks
    <3>1. PICK s, r : s = q.seen /\ r = TransitionRequest(t, q.at)
      OBVIOUS
    <3>2. TransitionError(s, r) = NoOutcome /\ b = TransitionEvent(s, r, 2)
      BY <1>1, <1>6, <2>2, <3>1 DEF PlanOK, TransitionPlan
    <3>3. s = Project(log) /\ log # <<>> /\ s # None
      BY <1>1, <2>2, <3>1
    <3>4. s \in SessionRecords /\ PostInit(s) /\ s.version <= n
      BY <1>1, <3>3, ProjectSound
    <3>5. r \in RequestRecords
      BY <2>2, <3>1 DEF TransitionRequest, RequestRecords, RequestStates, TransitionTasks
    <3>6. e = TransitionEvent(s, r, n + 1)
      BY <1>7, <1>8, <3>2 DEF TransitionEvent
    <3>7. /\ e.seq = n + 1 /\ e.kind = "transition" /\ Contract(e) /\ Follows(s, e)
          /\ AfterEvent(s, e) = Transitioned(s, r)
      BY <1>2, <3>2, <3>4, <3>5, <3>6, EventFollows
    <3>8. Transitioned(s, r) # None
      BY <3>2, <3>4, <3>5, TransitionedType, NoneAssumption
    <3>9. h # <<>> /\ project_session(h) = s
      BY <1>1, <1>6, <1>9, <3>3 DEF Project
    <3> QED BY <1>9, <1>10, <3>3, <3>7, <3>8, <3>9
  <2> QED BY <1>3, <2>1, <2>2
<1>12. Project(log \o Stamped(c, n)) # None
  BY <1>7, <1>8, <1>11
<1> QED BY <1>1, <1>5, <1>12 DEF Acceptable

\* Only a decision under the lock refuses a command that was handed over.
LEMMA RefusedAtDecision ==
    ASSUME ServiceInv, [SNext]_svars, NEW w \in Workers, Refuses(w)
    PROVE  DecideCommit(w) /\ pc[w] \in InTransaction
<1>1. /\ At(w, "sent") /\ reply'[w] # reply[w] /\ reply'[w].kind \in {"refused", "invalid"}
  BY DEF Refuses
<1>2. DOMAIN reply = Workers
  BY DEF ServiceInv, StoreInv, IInv, TypeOK
<1>3. \A v, r : v # w /\ Reply(v, r) => reply'[w] = reply[w]
  BY <1>2 DEF Reply
<1>4. \A r : Reply(w, r) => r = reply'[w]
  BY <1>2 DEF Reply
<1>5. ASSUME NEW v \in Workers, NEW t \in Tasks, Request(v, t) PROVE FALSE
  <2>1. v # w
    BY <1>1, <1>5 DEF Request, At
  <2> QED BY <1>1, <1>3, <1>5, <2>1 DEF Request
<1>6. ASSUME NEW v \in Workers, ServiceStep(v) PROVE FALSE
  <2>1. CASE v = w
    <3>1. /\ ~At(w, "asked") /\ ~At(w, "loaded") /\ ~At(w, "built")
          /\ ~At(w, "preparing") /\ ~At(w, "verifying")
      BY <1>1 DEF At
    <3>2. PrepareResume(w) \/ Done(w)
      BY <1>6, <2>1, <3>1 DEF ServiceStep, Load, BuildCreate, BuildTransition, Send, SendBusy,
            PrepareLoad, PrepareVerify
    <3>3. CASE PrepareResume(w)
      BY <1>1, <3>3 DEF PrepareResume, vars
    <3>4. CASE Done(w)
      <4>1. PICK r : r = [kind |-> "none"]
        OBVIOUS
      <4>2. Reply(w, r) /\ r.kind = "none"
        BY <3>4, <4>1 DEF Done
      <4> QED BY <1>1, <1>4, <4>2
    <3> QED BY <3>2, <3>3, <3>4
  <2>2. CASE v # w
    <3>1. reply' = reply \/ \E r : Reply(v, r)
      BY <1>6 DEF ServiceStep, Load, BuildCreate, BuildTransition, Send, SendBusy, Submit, Busy,
            PrepareLoad, PrepareResume, PrepareVerify, Done, Respond, vars
    <3> QED BY <1>1, <1>3, <2>2, <3>1
  <2> QED BY <2>1, <2>2
<1>7. ASSUME NEW v \in Workers, StoreStep(v) PROVE v = w /\ DecideCommit(w)
  <2>1. reply' = reply \/ \E r : Reply(v, r)
    BY <1>7 DEF StoreStep, TransactionStep, StatementFails, CommitUncertain, CommitOk, WriteEvent,
          SaveProjection, RecordRequest, DecideCommit, DecideAppend, Recover, BeginRecovery,
          RecoveryBusy, Close, Rollback, Refuse, Prepare, StartWriting
  <2>2. v = w
    BY <1>1, <1>3, <2>1
  <2>3. req[w] # None
    BY <1>1 DEF At
  <2>4. TransactionStep(w)
    BY <1>7, <2>2, <2>3 DEF StoreStep
  <2>5. \A r : Reply(w, r) => r.kind \in {"refused", "invalid"}
    BY <1>1, <1>4
  <2>6. ~StatementFails(w) /\ ~CommitUncertain(w)
    <3>1. PICK r : r = [kind |-> "unavailable"]
      OBVIOUS
    <3>2. ~Reply(w, r)
      BY <2>5, <3>1
    <3> QED BY <3>1, <3>2 DEF StatementFails, CommitUncertain, Rollback
  <2>7. ~CommitOk(w) /\ ~SaveProjection(w)
    BY <1>1 DEF CommitOk, SaveProjection
  <2>8. ~WriteEvent(w)
    <3>1. PICK r : r = [kind |-> "conflict"]
      OBVIOUS
    <3>2. ~Reply(w, r)
      BY <2>5, <3>1
    <3> QED BY <1>1, <3>1, <3>2 DEF WriteEvent, Rollback
  <2>9. ~RecordRequest(w)
    <3>1. PICK r : r = Result(cmd[w].session, KeyOf(cmd[w]),
                              Len(db.log[cmd[w].session]) + 1, Len(work.log[cmd[w].session]))
      OBVIOUS
    <3>2. ~Reply(w, r)
      BY <2>5, <3>1 DEF Result
    <3> QED BY <3>1, <3>2 DEF RecordRequest
  <2>10. pc[w] # "recovering"
    <3>1. PICK q, p : q = req[w] /\ p = pc[w]
      OBVIOUS
    <3>2. WorkerOK(q, p, cmd[w], reply[w], db, work)
      BY <3>1, Parts
    <3> QED BY <2>3, <3>1, <3>2 DEF WorkerOK
  <2>11. ~DecideAppend(w)
    <3>1. ASSUME DecideAppend(w) PROVE FALSE
      <4>1. pc[w] = "begun" /\ cmd[w].op = "append" /\ pc[w] \in InTransaction
        BY <3>1 DEF DecideAppend, InTransaction
      <4>2. cmd[w].op = "commit"
        BY <4>1, Inside
      <4> QED BY <4>1, <4>2
    <3> QED BY <3>1
  <2> QED BY <2>2, <2>4, <2>6, <2>7, <2>8, <2>9, <2>10, <2>11 DEF TransactionStep, Recover
<1>8. ~ServiceCrash
  BY <1>1 DEF ServiceCrash, Crash
<1>9. ~EditCatalogue /\ ~UNCHANGED svars
  BY <1>1 DEF EditCatalogue, svars, vars
<1>10. DecideCommit(w)
  BY <1>5, <1>6, <1>7, <1>8, <1>9 DEF SNext
<1> QED BY <1>10 DEF DecideCommit, InTransaction

\* A caller that expects the version the service loaded is refused only for what
\* the session, as committed when the store decides, forbids: the builder closed
\* over an older session can then not have been over another one.
THEOREM RefusalsHonest == SSpec => HonestRefusal
<1>1. ServiceInv /\ [SNext]_svars =>
        [\A w \in Workers :
           Refuses(w) /\ (req[w].task.op = "transition" =>
                            req[w].seen.version = req[w].task.expected) => Justified(w)]_svars
  <2> SUFFICES ASSUME ServiceInv, [SNext]_svars, NEW w \in Workers, Refuses(w),
                      req[w].task.op = "transition" =>
                          req[w].seen.version = req[w].task.expected
               PROVE  Justified(w)
    OBVIOUS
  <2>1. PICK q, c, s : q = req[w] /\ c = cmd[w] /\ s = c.session
    OBVIOUS
  <2>2. PICK k, row, log : k = c.key /\ row = work.requests[s][k] /\ log = work.log[s]
    OBVIOUS
  <2>3. DecideCommit(w) /\ pc[w] = "begun" /\ pc[w] \in InTransaction
    BY RefusedAtDecision DEF DecideCommit
  <2>4. reply'[w].kind \in {"refused", "invalid"} /\ DOMAIN reply = Workers
    BY DEF Refuses, ServiceInv, StoreInv, IInv, TypeOK
  <2>5. \A r : Reply(w, r) => r = reply'[w]
    BY <2>4 DEF Reply
  <2>6. /\ q # None /\ q \in RequestStates /\ q.step = "sent" /\ q.task \in CallTasks
        /\ c = q.plan /\ SeenOK(q, db) /\ PlanOK(q) /\ s = q.task.session /\ s \in Sessions
        /\ c.expected = ExpectedOf(q.task) /\ c.observed = Unset
    BY <2>1, <2>3, Inside
  <2>7. work = db /\ TablesOK(db)
    BY <2>3, InsideTables
  <2>8. log = db.log[s] /\ log \in Seq(Stored) /\ (log # <<>> => Project(log) # None)
    BY <2>2, <2>6, <2>7 DEF TablesOK, ServiceInv, StoreInv, RInv, Sound, Projects
  <2>9. \A kind : kind \notin {"refused", "invalid"} => ~Rollback(w, kind, "idle")
    <3>1. ASSUME NEW kind, kind \notin {"refused", "invalid"}, Rollback(w, kind, "idle")
          PROVE  FALSE
      <4>1. PICK r : r = [kind |-> kind]
        OBVIOUS
      <4>2. Reply(w, r) /\ r.kind = kind
        BY <3>1, <4>1 DEF Rollback
      <4> QED BY <2>4, <2>5, <3>1, <4>2
    <3> QED BY <3>1
  <2>10. ~Prepare(w, Result(s, k, row.first, row.last))
    <3>1. PICK r : r = Result(s, k, row.first, row.last)
      OBVIOUS
    <3>2. r.kind = "result"
      BY <3>1 DEF Result
    <3>3. ~Reply(w, r)
      BY <2>4, <2>5, <3>2
    <3> QED BY <3>1, <3>3 DEF Prepare
  <2>11. ~StartWriting(w)
    BY DEF Refuses, StartWriting
  <2>12. /\ VersionOf(log) = c.expected
         /\ \/ c.error # NoError /\ Refuse(w, c.error)
            \/ c.error = NoError /\ ~Acceptable(c, log)
    BY <2>1, <2>2, <2>3, <2>6, <2>9, <2>10, <2>11 DEF DecideCommit, StaleVersion
  <2>13. q.task.op = "transition" =>
           /\ q.task \in TransitionTasks /\ log # <<>>
           /\ q.seen = Project(log)
    <3>1. ASSUME q.task.op = "transition"
          PROVE  q.task \in TransitionTasks /\ log # <<>> /\ q.seen = Project(log)
      <4>1. q.task \in TransitionTasks
        BY <2>6, <3>1 DEF CallTasks, CreateTasks, TransitionTasks
      <4>2. Recalled(q.seen, log)
        BY <2>6, <2>8, <3>1 DEF SeenOK
      <4>3. PICK n \in 1..Len(log) : q.seen = Project(SubSeq(log, 1, n))
        BY <4>2 DEF Recalled
      <4>4. log # <<>> /\ Project(log) # None
        BY <2>8, <4>3
      <4>5. q.seen.version = Project(log).version => q.seen = Project(log)
        BY <2>8, <4>3, <4>4, RecalledSound
      <4>6. q.seen.version = q.task.expected
        BY <2>1, <3>1
      <4>7. Project(log).version = q.task.expected
        BY <2>6, <2>12, <3>1, <4>4 DEF VersionOf, ExpectedOf
      <4> QED BY <4>1, <4>4, <4>5, <4>6, <4>7
    <3> QED BY <3>1
  <2>14. CASE c.error # NoError /\ Refuse(w, c.error)
    <3>1. q.task.op = "transition"
      BY <2>6, <2>14 DEF PlanOK, CreatePlan, CallTasks, CreateTasks, TransitionTasks
    <3>2. Blames(q.task, q.seen, q.at, c.error)
      BY <2>6, <2>14, <3>1 DEF PlanOK, TransitionPlan
    <3>3. PICK r : r = [kind |-> "refused", code |-> c.error]
      OBVIOUS
    <3>4. Reply(w, r) /\ r.kind = "refused" /\ r.code = c.error
      BY <2>14, <3>3 DEF Refuse
    <3>5. reply'[w].kind = "refused" /\ reply'[w].code = c.error
      BY <2>5, <3>4
    <3>6. Blames(q.task, Project(db.log[q.task.session]), q.at, c.error)
      BY <2>6, <2>8, <2>13, <3>1, <3>2
    <3> QED BY <2>1, <3>1, <3>5, <3>6 DEF Justified, Blames
  <2>15. CASE c.error = NoError /\ ~Acceptable(c, log)
    <3>1. q.task.op = "create" => log = <<>>
      <4>1. ASSUME q.task.op = "create", log # <<>> PROVE FALSE
        <5>1. Project(log) \in SessionRecords /\ PostInit(Project(log))
          BY <2>8, <4>1, ProjectSound
        <5>2. Project(log).version = 0
          BY <2>6, <2>12, <4>1 DEF VersionOf, ExpectedOf
        <5> QED BY <5>1, <5>2 DEF PostInit
      <4> QED BY <4>1
    <3>2. Acceptable(q.plan, log)
      BY <2>6, <2>8, <2>13, <2>15, <3>1, Accepted
    <3> QED BY <2>6, <2>15, <3>2
  <2> QED BY <2>12, <2>14, <2>15
<1> QED BY <1>1, ServiceInvariance, PTL DEF SSpec, HonestRefusal
=============================================================================
