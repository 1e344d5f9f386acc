------------------------ MODULE MCOfflineAcceptance ------------------------
(* Two stages, samples at most two seconds apart, an execution bound of       *)
(* three seconds, rows written within a second of their timestamp.            *)
EXTENDS OfflineAcceptance
=============================================================================
