----------------------------- MODULE EventStore -----------------------------
(***************************************************************************)
(* SQLiteEventStore (packages/infrastructure/persistence/sqlite.py): the   *)
(* durable tables, the writer transaction that changes them, and the ways  *)
(* a transaction ends.  Every worker is a thread with a connection of its  *)
(* own (apps/api/sessions.py opens one store per request).                 *)
(*                                                                         *)
(*   db      the committed tables: what readers and a restart see          *)
(*   work    the tables as the open transaction sees them                  *)
(*   writer  the worker that holds SQLite's write lock, or None            *)
(*                                                                         *)
(* A stored event is [id, key, body]; `key' is the idempotency key of the  *)
(* command that wrote it.  It is auxiliary: no guard reads it.             *)
(***************************************************************************)
EXTENDS SessionDomain, FiniteSets

CONSTANTS Workers, Sessions, Keys, EventIds,
          Inputs,          \* fingerprinted command inputs (type and semantic JSON)
          Commands,        \* what callers may pass to commit() or append()
          MaxEvents        \* bound on the length of a session's history

NoError == "NO_ERROR"

\* What a builder raises: lifecycle codes, a blocked readiness check, a health
\* heartbeat without news, a traffic command on a changed history.
BuildErrors == {"ILLEGAL_TRANSITION", "INVALID_TIMESTAMP", "INVALID_SIMULATION_TIME",
                "INVALID_FAILURE", "SCENARIO_INVALID", "UNCHANGED", "TRAFFIC_CONFLICT"}

Candidates == [id : EventIds, body : EventRecords]

\* A call of commit(request, build) or of append(session, expected, events).
\* `build' is a closure over what its caller loaded before: it either raises
\* (error), or refuses any sequence but `observed' + 1 (Unset: accepts any), or
\* returns `batch' stamped with the sequences that follow the tail.
CommandRecords ==
    [op : {"commit", "append"}, session : Sessions, key : Keys, input : Inputs,
     expected : Nat, observed : Nat \union {Unset}, error : BuildErrors \union {NoError},
     batch : Seq(Candidates)]

\* The other calls that open a transaction: the constructor's recover(), a later
\* recover(), mark_dispatched().
OtherCalls == [op : {"open", "recover", "mark"}]

RequestRows == [input : Inputs, expected : Nat, first : Nat, last : Nat]

ASSUME CommandsAssumption == Commands \subseteq CommandRecords
ASSUME BoundAssumption == MaxEvents \in Nat
ASSUME NoneAssumption ==
    /\ None \notin Workers \union Keys
    /\ None \notin SessionRecords
    /\ None \notin CommandRecords \union OtherCalls \union RequestRows

VARIABLES db, work, writer, pc, cmd, reply

vars == <<db, work, writer, pc, cmd, reply>>

Stored == [id : EventIds, key : Keys \union {None}, body : EventRecords]

\* The authoritative tables are typed; a derived row is whatever the projection
\* of its history is (ProjectionCurrent below).
TablesOK(t) ==
    /\ t = [log |-> t.log, outbox |-> t.outbox,
            sessions |-> [s \in Sessions |-> t.sessions[s]], requests |-> t.requests]
    /\ t.log \in [Sessions -> Seq(Stored)]
    /\ t.outbox \in [EventIds -> {"absent", "pending", "dispatched"}]
    /\ t.requests \in [Sessions -> [Keys -> RequestRows \union {None}]]

EmptyTables == [log      |-> [s \in Sessions |-> <<>>],
                outbox   |-> [i \in EventIds |-> "absent"],
                sessions |-> [s \in Sessions |-> None],
                requests |-> [s \in Sessions |-> [k \in Keys |-> None]]]

-----------------------------------------------------------------------------
(* Reading tables.                                                          *)

Bodies(log) == [i \in DOMAIN log |-> log[i].body]

\* The ids of the events table.
StoredIds(t) == UNION {{t.log[s][i].id : i \in DOMAIN t.log[s]} : s \in Sessions}

Project(log) == project_session(Bodies(log))

\* commit's and recover's reading of a (possibly empty) history's version.
VersionOf(log) == IF log = <<>> THEN 0 ELSE Project(log).version

ProjectionRow(log) ==
    IF log = <<>> THEN None ELSE [session |-> Project(log), source |-> Len(log)]

KeyOf(c) == IF c.op = "commit" THEN c.key ELSE None

\* The candidate events as the builder stamps them after a history of length n.
Stamped(c, n) ==
    [i \in DOMAIN c.batch |->
        [id |-> c.batch[i].id,
         key |-> KeyOf(c),
         body |-> [c.batch[i].body EXCEPT !.seq = n + i]]]

\* validate_append_batch: a non-empty batch with distinct ids.
ValidBatch(c) ==
    /\ c.batch # <<>>
    /\ \A i, j \in DOMAIN c.batch : c.batch[i].id = c.batch[j].id => i = j

\* What recover() demands of the authoritative tables before it trusts them.
Trusted(t) ==
    /\ \A s \in Sessions : t.log[s] # <<>> => Project(t.log[s]) # None
    /\ \A i \in StoredIds(t) : t.outbox[i] # "absent"
    /\ \A s \in Sessions, k \in Keys :
         LET row == t.requests[s][k]
         IN row # None =>
              /\ row.first <= row.last /\ row.last <= Len(t.log[s])
              /\ VersionOf(SubSeq(t.log[s], 1, row.first - 1)) = row.expected

-----------------------------------------------------------------------------
Init == /\ db = EmptyTables
        /\ work = EmptyTables
        /\ writer = None
        /\ pc = [w \in Workers |-> "closed"]
        /\ cmd = [w \in Workers |-> None]
        /\ reply = [w \in Workers |-> [kind |-> "none"]]

InTransaction == {"recovering", "begun", "writing", "projected", "ready"}

Reply(w, r) == reply' = [reply EXCEPT ![w] = r]

\* BEGIN IMMEDIATE: take the write lock and see the committed tables.
Begin(w, call, at) == /\ writer = None
                      /\ writer' = w
                      /\ work' = db
                      /\ cmd' = [cmd EXCEPT ![w] = call]
                      /\ pc' = [pc EXCEPT ![w] = at]

\* Leave the transaction with the tables t, in state `next'.
End(w, t, next) == /\ db' = t
                   /\ work' = t
                   /\ writer' = None
                   /\ pc' = [pc EXCEPT ![w] = next]
                   /\ cmd' = [cmd EXCEPT ![w] = None]

\* Mutant: what was written before the error is committed.
CommitsPartially(w, kind, next) == End(w, work, next) /\ Reply(w, [kind |-> kind])

\* Mutant: the error path leaves the transaction without its ROLLBACK.
RollbackForgotten(w, kind, next) == /\ pc' = [pc EXCEPT ![w] = next]
                                    /\ cmd' = [cmd EXCEPT ![w] = None]
                                    /\ Reply(w, [kind |-> kind])
                                    /\ UNCHANGED <<db, work, writer>>

Rollback(w, kind, next) == End(w, db, next) /\ Reply(w, [kind |-> kind])

\* Where a failed transaction leaves its store: unhealthy until recover()
\* succeeds, or given up by the constructor.
Failed(w) == IF cmd[w].op = "open" THEN "closed" ELSE "sick"

-----------------------------------------------------------------------------
(* Opening a connection and recover().                                      *)

BeginRecovery(w) == /\ pc[w] \in {"closed", "sick", "idle"}
                    /\ Begin(w, [op |-> IF pc[w] = "closed" THEN "open" ELSE "recover"],
                             "recovering")
                    /\ UNCHANGED <<db, reply>>

\* The lock times out: a constructor gives its connection up, a recovery of an
\* open store has already declared it unhealthy.
RecoveryBusy(w) == /\ pc[w] \in {"closed", "sick", "idle"}
                   /\ writer # None
                   /\ pc' = [pc EXCEPT ![w] = IF @ = "closed" THEN "closed" ELSE "sick"]
                   /\ Reply(w, [kind |-> "busy"])
                   /\ UNCHANGED <<db, work, writer, cmd>>

\* Validate everything, then rebuild the derived rows.
Recover(w) ==
    /\ pc[w] = "recovering"
    /\ IF Trusted(work)
       THEN /\ work' = [work EXCEPT !.sessions =
                           [s \in Sessions |-> ProjectionRow(work.log[s])]]
            /\ pc' = [pc EXCEPT ![w] = "ready"]
            /\ Reply(w, [kind |-> "open"])
            /\ UNCHANGED <<db, writer, cmd>>
       ELSE Rollback(w, "unavailable", Failed(w))

Close(w) == /\ pc[w] \in {"idle", "sick"}
            /\ pc' = [pc EXCEPT ![w] = "closed"]
            /\ UNCHANGED <<db, work, writer, cmd, reply>>

-----------------------------------------------------------------------------
(* commit() and append().                                                   *)

\* append() validates its batch before it opens a transaction; commit() has no
\* batch until its builder runs.
Submit(w, c) == /\ pc[w] = "idle"
                /\ c.op = "append" => ValidBatch(c)
                /\ Len(db.log[c.session]) + Len(c.batch) <= MaxEvents
                /\ Begin(w, c, "begun")
                /\ UNCHANGED <<db, reply>>

\* StoreBusy: the lock times out, nothing was written, the store stays usable.
Busy(w) == /\ pc[w] = "idle"
           /\ writer # None
           /\ Reply(w, [kind |-> "busy"])
           /\ UNCHANGED <<db, work, writer, pc, cmd>>

Result(s, k, first, last) ==
    [kind |-> "result", session |-> s, key |-> k, first |-> first,
     events |-> SubSeq(work.log[s], first, last)]

\* Nothing left to write: hold `r' until COMMIT succeeds.
Prepare(w, r) == /\ pc' = [pc EXCEPT ![w] = "ready"]
                 /\ Reply(w, r)
                 /\ UNCHANGED <<db, work, writer, cmd>>

\* The candidate passes validation and projects after the committed history.
Acceptable(c, log) ==
    /\ ValidBatch(c)
    /\ Project(log \o Stamped(c, Len(log))) # None

StartWriting(w) == /\ pc' = [pc EXCEPT ![w] = "writing"]
                   /\ UNCHANGED <<db, work, writer, cmd, reply>>

\* The builder raises a domain error: nothing is written, the store is usable.
Refuse(w, code) == End(w, db, "idle") /\ Reply(w, [kind |-> "refused", code |-> code])

\* The retry record answers this very command.
SameCall(row, c) == row.input = c.input /\ row.expected = c.expected

\* Mutant: the expected version is not compared under the lock.
NeverStale(c, log) == FALSE

StaleVersion(c, log) == VersionOf(log) # c.expected

\* commit(): the retry lookup comes first, then the version, then the builder.
DecideCommit(w) ==
    LET c == cmd[w]
        row == work.requests[c.session][c.key]
        log == work.log[c.session]
    IN /\ pc[w] = "begun" /\ c.op = "commit"
       /\ IF row # None
          THEN IF ~SameCall(row, c)
               THEN Rollback(w, "conflict", "idle")
               ELSE Prepare(w, Result(c.session, c.key, row.first, row.last))
          ELSE IF StaleVersion(c, log) THEN Rollback(w, "conflict", "idle")
          ELSE IF c.observed # Unset /\ c.observed # Len(log)
               THEN Refuse(w, "TRAFFIC_CONFLICT")
          ELSE IF c.error # NoError THEN Refuse(w, c.error)
          ELSE IF ~Acceptable(c, log) THEN Rollback(w, "invalid", "idle")
          ELSE StartWriting(w)

\* append(): an exact retry of a committed range is a no-op, otherwise the tail
\* must be the one the caller saw.
DecideAppend(w) ==
    LET c == cmd[w]
        log == work.log[c.session]
        last == c.expected + Len(c.batch)
        Same(i) == /\ log[c.expected + i].id = c.batch[i].id
                   /\ log[c.expected + i].body = Stamped(c, c.expected)[i].body
    IN /\ pc[w] = "begun" /\ c.op = "append"
       /\ IF last <= Len(log) /\ \A i \in DOMAIN c.batch : Same(i)
          THEN Prepare(w, Result(c.session, None, c.expected + 1, last))
          ELSE IF Len(log) # c.expected THEN Rollback(w, "conflict", "idle")
          ELSE IF ~Acceptable(c, log) THEN Rollback(w, "invalid", "idle")
          ELSE StartWriting(w)

\* How many events of its batch the writer has inserted.
Written(w) == Len(work.log[cmd[w].session]) - Len(db.log[cmd[w].session])

IdTaken(t, id) == id \in StoredIds(t)

\* One round of _append's loop: the event row and its outbox row.
WriteEvent(w) ==
    /\ pc[w] = "writing"
    /\ Written(w) < Len(cmd[w].batch)
    /\ LET s == cmd[w].session
           e == Stamped(cmd[w], Len(db.log[s]))[Written(w) + 1]
       IN IF IdTaken(work, e.id)
          THEN Rollback(w, "conflict", "idle")
          ELSE /\ work' = [work EXCEPT !.log[s] = Append(@, e),
                                       !.outbox[e.id] = "pending"]
               /\ UNCHANGED <<db, writer, pc, cmd, reply>>

\* Mutant: the sessions row is left as it was.
SkipProjection(w) ==
    /\ pc[w] = "writing"
    /\ Written(w) = Len(cmd[w].batch)
    /\ pc' = [pc EXCEPT ![w] = "projected"]
    /\ UNCHANGED <<db, work, writer, cmd, reply>>

SaveProjection(w) ==
    /\ pc[w] = "writing"
    /\ Written(w) = Len(cmd[w].batch)
    /\ LET s == cmd[w].session
       IN work' = [work EXCEPT !.sessions[s] = ProjectionRow(work.log[s])]
    /\ pc' = [pc EXCEPT ![w] = "projected"]
    /\ UNCHANGED <<db, writer, cmd, reply>>

\* Mutant: the range of the retry record ends one too far.
RecordRangeTooLong(w) ==
    LET c == cmd[w]
        first == Len(db.log[c.session]) + 1
        last == Len(work.log[c.session])
        row == [input |-> c.input, expected |-> c.expected, first |-> first, last |-> last + 1]
    IN /\ pc[w] = "projected" /\ c.op = "commit"
       /\ work' = [work EXCEPT !.requests[c.session][c.key] = row]
       /\ pc' = [pc EXCEPT ![w] = "ready"]
       /\ Reply(w, Result(c.session, KeyOf(c), first, last))
       /\ UNCHANGED <<db, writer, cmd>>

\* commit() records the request; append() has none to record.
RecordRequest(w) ==
    LET c == cmd[w]
        first == Len(db.log[c.session]) + 1
        last == Len(work.log[c.session])
        row == [input |-> c.input, expected |-> c.expected, first |-> first, last |-> last]
    IN /\ pc[w] = "projected"
       /\ work' = IF c.op = "commit"
                  THEN [work EXCEPT !.requests[c.session][c.key] = row] ELSE work
       /\ pc' = [pc EXCEPT ![w] = "ready"]
       /\ Reply(w, Result(c.session, KeyOf(c), first, last))
       /\ UNCHANGED <<db, writer, cmd>>

-----------------------------------------------------------------------------
(* mark_dispatched(event_id), up to its COMMIT.                             *)

\* Mutant: events may be marked in any order.
NeverEarlier(t, s, n) == FALSE

EarlierPending(t, s, n) == \E j \in 1..(n - 1) : t.outbox[t.log[s][j].id] = "pending"

MarkDispatched(w, id) ==
    /\ pc[w] = "idle" /\ writer = None
    /\ IF id \notin StoredIds(db)
       THEN Reply(w, [kind |-> "invalid"]) /\ UNCHANGED <<db, work, writer, pc, cmd>>
       ELSE \E s \in Sessions : \E n \in DOMAIN db.log[s] :
              /\ db.log[s][n].id = id
              /\ IF EarlierPending(db, s, n)
                 THEN Reply(w, [kind |-> "conflict"]) /\ UNCHANGED <<db, work, writer, pc, cmd>>
                 ELSE /\ writer' = w
                      /\ work' = [db EXCEPT !.outbox[id] = "dispatched"]
                      /\ pc' = [pc EXCEPT ![w] = "ready"]
                      /\ cmd' = [cmd EXCEPT ![w] = [op |-> "mark"]]
                      /\ Reply(w, [kind |-> "marked"])
                      /\ UNCHANGED db

-----------------------------------------------------------------------------
(* How a transaction ends.                                                  *)

\* Mutant: the transaction is closed without COMMIT.
CommitForgotten(w) == /\ pc[w] = "ready"
                      /\ End(w, db, "idle")
                      /\ UNCHANGED reply

CommitOk(w) == /\ pc[w] = "ready"
               /\ End(w, work, "idle")
               /\ UNCHANGED reply

\* A statement, or a COMMIT that leaves the transaction open, raises
\* sqlite3.Error: roll back, refuse work until recover() succeeds.
StatementFails(w) == /\ pc[w] \in InTransaction
                     /\ Rollback(w, "unavailable", Failed(w))

\* Mutant: an unknown outcome is answered as a success.
UncertainIsSuccess(w) ==
    /\ pc[w] = "ready"
    /\ \E t \in {db, work} : End(w, t, "closed")
    /\ UNCHANGED reply

\* COMMIT raises and no transaction is left: it may have reached the disk.
CommitUncertain(w) ==
    /\ pc[w] = "ready"
    /\ \E t \in {db, work} : End(w, t, "closed")
    /\ Reply(w, [kind |-> "unavailable"])

\* The process dies: every connection is lost, SQLite discards the open
\* transaction, callers get no answer.
Crash == /\ pc # [w \in Workers |-> "closed"]
         /\ work' = db
         /\ writer' = None
         /\ pc' = [w \in Workers |-> "closed"]
         /\ cmd' = [w \in Workers |-> None]
         /\ reply' = [w \in Workers |-> [kind |-> "none"]]
         /\ UNCHANGED db

\* What the worker inside the transaction does next.
TransactionStep(w) ==
    \/ StatementFails(w) \/ CommitUncertain(w) \/ CommitOk(w)
    \/ WriteEvent(w) \/ SaveProjection(w) \/ RecordRequest(w)
    \/ DecideCommit(w) \/ DecideAppend(w)
    \/ Recover(w)

Next ==
    \/ \E w \in Workers :
         \/ TransactionStep(w)
         \/ BeginRecovery(w) \/ RecoveryBusy(w) \/ Close(w)
         \/ \E c \in Commands : Submit(w, c)
         \/ Busy(w)
         \/ \E id \in EventIds : MarkDispatched(w, id)
    \/ Crash

\* A thread that holds the write lock keeps running; nothing else is assumed.
Spec == Init /\ [][Next]_vars /\ \A w \in Workers : WF_vars(TransactionStep(w))

-----------------------------------------------------------------------------
\* The type invariant.
TypeOK ==
    /\ TablesOK(db) /\ TablesOK(work)
    /\ writer \in Workers \union {None}
    /\ pc \in [Workers -> {"closed", "idle", "sick"} \union InTransaction]
    /\ cmd \in [Workers -> CommandRecords \union OtherCalls \union {None}]
    /\ DOMAIN reply = Workers

\* recover() never refuses what commit(), append(), mark_dispatched(), crashes
\* and failed transactions leave on disk: histories project, every event has
\* its publication intent, and every retry record names a range of the history
\* whose prefix has the version the request expected.
AlwaysRecoverable == Trusted(db)

\* Readers of the derived sessions table see what the whole history projects to.
ProjectionCurrent == \A s \in Sessions : db.sessions[s] = ProjectionRow(db.log[s])

\* Each idempotency key takes effect at most once, and entirely: the events it
\* wrote are one contiguous range, and its retry record names that range.
OncePerKeyIn(t) ==
    \A s \in Sessions, k \in Keys :
        LET row == t.requests[s][k]
            Covers(n) == row # None /\ row.first <= n /\ n <= row.last
        IN /\ row # None => 1 <= row.first /\ row.first <= row.last
                            /\ row.last <= Len(t.log[s])
           /\ \A n \in 1..Len(t.log[s]) : t.log[s][n].key = k <=> Covers(n)
OncePerKey == OncePerKeyIn(db)

\* No two stored events share an identity, in or across sessions.
UniqueIdsIn(t) ==
    \A a, b \in Sessions : \A i \in 1..Len(t.log[a]), j \in 1..Len(t.log[b]) :
        t.log[a][i].id = t.log[b][j].id => a = b /\ i = j
UniqueIds == UniqueIdsIn(db)

\* Publication intents are for committed events only, and are marked in order:
\* a session's dispatched events are a prefix of its history.
IntentsIn(t) ==
    /\ \A s \in Sessions : \A n \in 1..Len(t.log[s]) : t.outbox[t.log[s][n].id] # "absent"
    /\ \A id \in EventIds : t.outbox[id] # "absent" => id \in StoredIds(t)
OrderedIn(t) ==
    \A s \in Sessions : \A m, n \in 1..Len(t.log[s]) :
        m < n /\ t.outbox[t.log[s][n].id] = "dispatched"
            => t.outbox[t.log[s][m].id] = "dispatched"
DispatchInOrder == IntentsIn(db) /\ OrderedIn(db)

\* What a caller was told is durable: an acknowledged result is still the same
\* range of the history, and its retry record still answers a retry with it.
Acknowledged(w) == reply[w].kind = "result" /\ pc[w] # "ready"
AcknowledgedIsDurable ==
    \A w \in Workers : Acknowledged(w) =>
        LET r == reply[w]
            last == r.first + Len(r.events) - 1
        IN /\ last <= Len(db.log[r.session])
           /\ SubSeq(db.log[r.session], r.first, last) = r.events
           /\ r.key # None => /\ db.requests[r.session][r.key] # None
                              /\ db.requests[r.session][r.key].first = r.first
                              /\ db.requests[r.session][r.key].last = last

\* Committed events and retry records are never rewritten or dropped, and an
\* event once dispatched never becomes pending again.
Preserves(t, u) ==
    /\ \A s \in Sessions :
         /\ Len(t.log[s]) <= Len(u.log[s])
         /\ \A n \in 1..Len(t.log[s]) : u.log[s][n] = t.log[s][n]
         /\ \A k \in Keys : t.requests[s][k] # None => u.requests[s][k] = t.requests[s][k]
    /\ \A id \in EventIds : t.outbox[id] = "dispatched" => u.outbox[id] = "dispatched"
AppendOnly == [][Preserves(db, db')]_vars

\* However a transaction goes on (a refusal, a conflict or an error at any of its
\* statements, a COMMIT whose outcome is unknown, a crash), the write lock is given
\* back: _transaction has no way out that leaves the store without writers.
LockReturned == (writer # None) ~> (writer = None)

-----------------------------------------------------------------------------
(* The abstract store that these transactions implement.                    *)

Answer(row) == IF row = None THEN None ELSE [first |-> row.first, last |-> row.last]

Abstract == INSTANCE DurableLog WITH
    log       <- db.log,
    answers   <- [s \in Sessions |-> [k \in Keys |-> Answer(db.requests[s][k])]],
    published <- [s \in Sessions |->
                    Cardinality({n \in DOMAIN db.log[s] :
                                   db.outbox[db.log[s][n].id] = "dispatched"})]

\* Every commit, rollback, uncertain commit, crash and recovery is one atomic
\* effect of the abstract store, or none.
ImplementsLog == Abstract!LogSpec
=============================================================================
