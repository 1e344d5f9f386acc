-------------------------- MODULE MCHealthRegistry --------------------------
(* HealthRegistry with two reporting threads.                                 *)
EXTENDS HealthRegistry

CONSTANTS k1, k2

Healthy == [status |-> "healthy", reason |-> "operational"]
Failed  == [status |-> "unready", reason |-> "failed"]
MCReports == {Healthy, Failed}

SessionContexts == {[key |-> k1, expected |-> 1], [key |-> k2, expected |-> 1],
                    [key |-> k2, expected |-> 2]}
FewContexts == {[key |-> k1, expected |-> 1], [key |-> k2, expected |-> 2]}

MCSymmetry == Permutations(Threads)
=============================================================================
