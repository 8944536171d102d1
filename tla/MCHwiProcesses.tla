--------------------------- MODULE MCHwiProcesses ---------------------------
(* Bounds: one command line process next to the GUI, and as many clients as *)
(* there are references to one: the process's, and those of the GUI's       *)
(* running slot, its client and its dialog.  A fifth client, for one that   *)
(* leaked while all four references are in use, adds 724 states to the      *)
(* 1855908 of four.                                                         *)
EXTENDS HwiProcesses, TLC

CONSTANTS c1, c2, c3, c4

MCClient == {c1, c2, c3, c4}

\* Clients are interchangeable.
ClientSymmetry == Permutations(MCClient)
=============================================================================
