-------------------------- MODULE MCSessionHistory --------------------------
(* SessionHistory on one pinned scenario, three clock readings, three        *)
(* simulation times and histories of up to MaxHistory events.                 *)
EXTENDS SessionHistory

MCTimes == 0..2
MCSimTimes == 0..2
=============================================================================
