---------------------------- MODULE MCEventStore ----------------------------
(* EventStore with two workers and two sessions: a creation and its retry     *)
(* under a fresh event id, two commands that share a key, a stale command, a  *)
(* second session whose event id collides with the retry's, a builder that    *)
(* raises, a command bound to a sequence, and a two-event append whose second *)
(* id another session's creation may have taken: it is refused after its      *)
(* first event has been inserted.                                             *)
EXTENDS EventStore

MCScenarios == {"scn"}

S0 == create_session("scn", 0)
To(target) == [target |-> target, at |-> 0, sim |-> Unset, failure |-> target = "FAILED"]
S1 == Transitioned(S0, To("INITIALISING"))

Created == CreatedEvent(S0, 1)
Initialising == TransitionEvent(S0, To("INITIALISING"), 2)
FailedLater == TransitionEvent(S1, To("FAILED"), 3)
Health == FactEvent("health", 0, 0, 2)

CONSTANTS s1, s2, k1, k2, k3, e1, e2, e3, e4

Call(op, session, key, input, expected, batch) ==
    [op |-> op, session |-> session, key |-> key, input |-> input, expected |-> expected,
     observed |-> Unset, error |-> NoError, batch |-> batch]
Event(id, body) == [id |-> id, body |-> body]

Retries == { Call("commit", s1, k1, "create", 0, <<Event(e1, Created)>>),
             Call("commit", s1, k1, "create", 0, <<Event(e2, Created)>>),
             Call("commit", s2, k1, "create", 0, <<Event(e2, Created)>>) }

Lifecycle == { Call("commit", s1, k2, "initialise", 1, <<Event(e3, Initialising)>>),
               [Call("commit", s1, k3, "fail", 2, <<Event(e4, FailedLater)>>)
                    EXCEPT !.observed = 2],
               [Call("commit", s1, k2, "health", 1, <<Event(e4, Health)>>)
                    EXCEPT !.error = "UNCHANGED"] }

Appends == { Call("append", s1, k3, "health", 1, <<Event(e4, Health), Event(e2, Health)>>) }

MCCommands == Retries \union Lifecycle \union Appends
=============================================================================
