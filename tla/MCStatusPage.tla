---------------------------- MODULE MCStatusPage ----------------------------
(* StatusPage with one request of the page in the API and one of another      *)
(* client at a time.                                                          *)
EXTENDS StatusPage
=============================================================================
