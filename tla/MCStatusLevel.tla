---------------------------- MODULE MCStatusLevel ----------------------------
(* StatusPage with a record of the file errors that no health response has    *)
(* been read over, for the levels of logging at which only failed requests    *)
(* are recorded.                                                              *)
EXTENDS StatusPage

VARIABLE unshown   \* a file error was reported; since then no health response has
                   \* been read and no record has been written

ErrorReported == \E r \in Slots : /\ Stage(r) = "unrecorded" /\ Stage(r)' = "answered"
                                  /\ ~logging.ok'
HealthRead == \E r \in Requests : Awaited(r) /\ Stage(r) = "routed" /\ Stage(r)' = "read"

LevelInit == Init /\ unshown = FALSE
LevelNext == /\ Next
             /\ unshown' = (\/ ErrorReported
                            \/ unshown /\ ~HealthRead /\ logged' = "failed")
LevelSpec == LevelInit /\ [][LevelNext]_<<vars, unshown>>

\* "File errors mark optional logging degraded on the next health response"
\* (docs/health.md:83): the response that would be read next does not say healthy
\* after a reported file error, as long as nothing was written.
ErrorsShow == unshown => Readiness # "healthy"
=============================================================================
