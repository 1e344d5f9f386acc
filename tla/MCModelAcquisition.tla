------------------------ MODULE MCModelAcquisition ------------------------
(* Two calls on one branch that moves between a revision of two files with   *)
(* known sizes and a revision of one file whose size is not reported.        *)
EXTENDS ModelAcquisition

CONSTANTS a, b, f1, f2, main

MCFilesOf == [r \in {a, b} |-> IF r = a THEN {f1, f2} ELSE {f1}]
MCSizeKnown == [r \in {a, b} |-> r = a]
=============================================================================
