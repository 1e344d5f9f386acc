----------------------------- MODULE DurableLog -----------------------------
(***************************************************************************)
(* What SQLiteEventStore promises its callers, without tables, locks or    *)
(* transactions: per session an append-only log, an answer per idempotency *)
(* key that is fixed together with the events it names, and a publication  *)
(* cursor that moves over committed events one at a time and in order.     *)
(***************************************************************************)
EXTENDS Integers, Sequences

CONSTANTS Sessions, Keys, None

VARIABLES log,         \* [Sessions -> Seq([id, key, body])]
          answers,     \* [Sessions -> [Keys -> None or [first, last]]]
          published    \* [Sessions -> Nat]

dvars == <<log, answers, published>>

LogInit == /\ log = [s \in Sessions |-> <<>>]
           /\ answers = [s \in Sessions |-> [k \in Keys |-> None]]
           /\ published = [s \in Sessions |-> 0]

\* Session s gains at least one event, all of them written for key k.
Extends(s, k) ==
    /\ Len(log'[s]) > Len(log[s])
    /\ SubSeq(log'[s], 1, Len(log[s])) = log[s]
    /\ \A n \in (Len(log[s]) + 1)..Len(log'[s]) : log'[s][n].key = k
    /\ log' = [log EXCEPT ![s] = log'[s]]

\* A command takes effect: its events and its answer appear together, once.
TakeEffect(s, k) ==
    /\ answers[s][k] = None
    /\ Extends(s, k)
    /\ answers' = [answers EXCEPT ![s][k] =
                      [first |-> Len(log[s]) + 1, last |-> Len(log'[s])]]
    /\ UNCHANGED published

\* Events without a retry record, from the append port.
AppendEvents(s) == Extends(s, None) /\ UNCHANGED <<answers, published>>

Publish(s) == /\ published[s] < Len(log[s])
              /\ published' = [published EXCEPT ![s] = @ + 1]
              /\ UNCHANGED <<log, answers>>

LogNext == \E s \in Sessions :
              \/ \E k \in Keys : TakeEffect(s, k)
              \/ AppendEvents(s)
              \/ Publish(s)

LogSpec == LogInit /\ [][LogNext]_dvars
=============================================================================
