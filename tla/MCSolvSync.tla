----------------------------- MODULE MCSolvSync -----------------------------
(***************************************************************************)
(* Instances of SolvSync for TLC.                                          *)
(***************************************************************************)
EXTENDS SolvSync, TLC

\* Two contents of each file, which with its absence are three states it can
\* be in; one of them takes two bytes and can be cut in the middle.
Plain == [f \in Files |-> IF f = "solv" THEN {<<1, 1>>, <<2>>} ELSE {<<1>>, <<2>>}]

\* Contents that differ only after a byte of value 255.
Binary == [f \in Files |-> IF f = "solv" THEN {<<1, 255, 1>>, <<1, 255, 2>>}
                                        ELSE {<<1>>}]
=============================================================================
