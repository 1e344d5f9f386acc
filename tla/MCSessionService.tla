-------------------------- MODULE MCSessionService --------------------------
(* SessionService with two request threads and one session: a creation, its   *)
(* preparation, and commands that race it.                                    *)
EXTENDS SessionService

CONSTANTS s1, k1, k2, k3, k4, k5, k6, h1

MCContents == {h1, Unpinned}

MCSymmetry == Permutations(Workers)

Create(reference) == [op |-> "create", session |-> s1, key |-> k1, reference |-> reference]
Change(key, target, expected, required) ==
    [op |-> "transition", session |-> s1, key |-> key, target |-> target,
     expected |-> expected, required |-> required, failure |-> target = "FAILED"]
Prepare1 == [op |-> "prepare", session |-> s1, initialising |-> k2, invalid |-> k3]

MCInputs == {InputOf(Create(r)) : r \in {"r1", "r2"}}
            \union {<<"session.transition", t, r, f>> :
                      t \in LifecycleStates, r \in LifecycleStates \union {None}, f \in BOOLEAN}

\* A creation, its preparation, and a command that races it.
PrepareTaskSet == {Create("r1"), Prepare1, Change(k4, "READY", 2, None)}

\* A catalogued session on its way to RUNNING.
LifecycleTaskSet == {Create("r1"), Change(k2, "INITIALISING", 1, None),
                     Change(k2, "FAILED", 1, None),
                     Change(k4, "READY", 2, None),
                     Change(k5, "FAILED", 2, "INITIALISING"),
                     Change(k6, "RUNNING", 3, "READY")}
=============================================================================
