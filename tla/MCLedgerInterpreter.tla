------------------------ MODULE MCLedgerInterpreter -------------------------
(***************************************************************************)
(* LedgerInterpreter with preimages around the sizes where the reply is    *)
(* full (252 bytes fit, 253 do not, 505 need three messages) and a tree    *)
(* whose proofs are one hash too long for one reply at index 0 and short   *)
(* at the last index.                                                      *)
(***************************************************************************)
EXTENDS LedgerInterpreter, LedgerMerkleTree

MCHashes == {"short", "full", "over", "long"}
MCPreimageLen ==
    [h \in MCHashes |-> CASE h = "short" -> 1   [] h = "full" -> 252
                          [] h = "over" -> 253  [] h = "long" -> 505]

MCTrees == {"wide", "single"}
MCLeavesOf ==
    [t \in MCTrees |-> IF t = "single" THEN <<"long">>
                       ELSE [n \in 1..100 |-> IF n = 2 THEN "over" ELSE "full"]]

\* The lengths of the proofs in trees of one leaf and of a hundred.
MCProofLen(n, i) == IF n = 1 THEN 0 ELSE IF i < 96 THEN 7 ELSE 4
ASSUME PathLenAssumption ==
    /\ MCProofLen(1, 0) = PathLen(1, 0)
    /\ \A i \in {0, 1, 31, 63, 64, 95, 96, 99} : MCProofLen(100, i) = PathLen(100, i)
=============================================================================
