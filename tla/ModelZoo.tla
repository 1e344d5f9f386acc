------------------------------ MODULE ModelZoo ------------------------------
(***************************************************************************)
(* What controlled acquisition promises of the model zoo                   *)
(* (model-zoo/README.md, scripts/acquire_model.py): a revision appears     *)
(* whole, at once and for one call only; no call touches it afterwards;    *)
(* the call that made it is the only one that may be told VERIFIED, and a  *)
(* call that is told anything else made none; every call ends unless it    *)
(* waits for its operator.                                                 *)
(***************************************************************************)
CONSTANTS Callers, Revisions, None

Failures == {"INSUFFICIENT_STORAGE", "CONFIRMATION_REQUIRED", "INTERRUPTED",
             "ACQUISITION_FAILED"}

VARIABLES zoo,        \* zoo[r]: None, or who preserved it and whether it is intact
          state,      \* state[c]: new, running, waiting, or what the call was told
          disturbed   \* has anybody else touched the files?

vars == <<zoo, state, disturbed>>

Init == /\ zoo = [r \in Revisions |-> None]
        /\ state = [c \in Callers |-> "new"]
        /\ disturbed = FALSE

Owns(c) == \E r \in Revisions : zoo[r] # None /\ zoo[r].owner = c

Become(c, from, to) == state[c] = from /\ state' = [state EXCEPT ![c] = to]

Begin(c) == Become(c, "new", "running") /\ UNCHANGED <<zoo, disturbed>>
Ask(c) == Become(c, "running", "waiting") /\ UNCHANGED <<zoo, disturbed>>
Resume(c) == Become(c, "waiting", "running") /\ UNCHANGED <<zoo, disturbed>>

\* Promotion: one step, into nothing, of a snapshot that is whole unless files
\* were changed from outside.
Preserve(c, r) ==
    /\ state[c] = "running" /\ ~Owns(c) /\ zoo[r] = None
    /\ \E intact \in BOOLEAN :
         /\ ~intact => disturbed
         /\ zoo' = [zoo EXCEPT ![r] = [owner |-> c, intact |-> intact]]
    /\ UNCHANGED <<state, disturbed>>

\* A call that dies says nothing of what it left.
End(c) ==
    /\ \E a \in Failures \union {"VERIFIED", "DIED"} :
         /\ Become(c, "running", a)
         /\ a = "VERIFIED" => Owns(c)
         /\ a \in Failures => ~Owns(c)
    /\ UNCHANGED <<zoo, disturbed>>

Leave(c) ==
    /\ \E a \in {"CONFIRMATION_REQUIRED", "DIED"} : Become(c, "waiting", a)
    /\ UNCHANGED <<zoo, disturbed>>

Disturb == /\ disturbed' = TRUE
           /\ \/ UNCHANGED zoo
              \/ \E r \in Revisions : /\ zoo[r] # None
                                      /\ zoo' = [zoo EXCEPT ![r].intact = FALSE]
           /\ UNCHANGED state

Next == \/ \E c \in Callers : \/ Begin(c) \/ Ask(c) \/ Resume(c) \/ End(c) \/ Leave(c)
                              \/ \E r \in Revisions : Preserve(c, r)
        \/ Disturb

Spec == Init /\ [][Next]_vars /\ \A c \in Callers : WF_vars(End(c))
=============================================================================
