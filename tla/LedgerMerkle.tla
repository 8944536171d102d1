---------------------------- MODULE LedgerMerkle ----------------------------
(***************************************************************************)
(* MerkleTree of ledger_bitcoin/merkle.py: a vector of hashes and the tree *)
(* over it, with which the host proves to a Ledger that an element is      *)
(* where it says.  Elements may be added and replaced; the values on the   *)
(* path to the root are recomputed each time.                              *)
(***************************************************************************)
EXTENDS LedgerMerkleTree

CONSTANTS
    Values,     \* leaf values
    MaxBuilt,   \* bound on the number of leaves the tree is built with
    MaxLeaves   \* bound on the number of leaves

ASSUME ValuesAssumption == \A x \in Values : Len(x) = 1
ASSUME SizeAssumption == MaxBuilt \in Nat /\ MaxLeaves \in Nat

VARIABLES
    leaves,   \* the values of the leaves
    tree,     \* the root node, NoTree if there is none
    depth,    \* the attribute of that name
    raised    \* an operation has raised an exception

vars == <<leaves, tree, depth, raised>>

prove_leaf_RootFirst(i) ==
    LET proof == ProveFrom(tree, i) IN [n \in 1..Len(proof) |-> proof[Len(proof) + 1 - n]]
prove_leaf(i) == ProveFrom(tree, i)

-----------------------------------------------------------------------------
Init ==
    /\ \E n \in 0..MaxBuilt : leaves \in [1..n -> Values]
    /\ tree = make_tree(leaves)
    /\ depth = IF leaves = << >> THEN -1 ELSE ceil_lg(Len(leaves))
    /\ raised = FALSE

\* The size of the left subtree is halved to a float, and is_power_of_2 takes integers
\* only: the search for the place of the new leaf can go down one level, not two.
LeftTreeSize == IF depth = 0 THEN 0 ELSE 2^(depth - 1)
Descends == ~is_power_of_2(Len(leaves))
DescentFails == Descends /\ ~is_power_of_2(Len(leaves) - LeftTreeSize)

Grown(x) == IF Descends THEN Inner(tree.kids[1], Inner(tree.kids[2], Leaf(x)))
                        ELSE Inner(tree, Leaf(x))

\* The leaf is in the list of leaves before its place in the tree is searched, and stays
\* there when the search raises.
add(x) ==
    /\ ~raised /\ Len(leaves) < MaxLeaves
    /\ leaves' = Append(leaves, x)
    /\ CASE leaves = << >> -> tree' = Leaf(x) /\ depth' = 0 /\ UNCHANGED raised
         [] leaves # << >> /\ DescentFails -> raised' = TRUE /\ UNCHANGED <<tree, depth>>
         [] OTHER -> /\ tree' = Grown(x)
                     /\ depth' = IF Descends THEN depth ELSE depth + 1
                     /\ UNCHANGED raised

RECURSIVE Replaced(_, _, _)
Replaced(node, i, x) ==
    IF node.kids = << >> THEN Leaf(x)
    ELSE LET l == node.kids[1]
             r == node.kids[2]
         IN  IF i < NumLeaves(l) THEN Inner(Replaced(l, i, x), r)
             ELSE Inner(l, Replaced(r, i - NumLeaves(l), x))

\* At the end of the vector set is add.
set(i, x) ==
    \/ i = Len(leaves) /\ add(x)
    \/ /\ ~raised /\ i < Len(leaves)
       /\ leaves' = [leaves EXCEPT ![i + 1] = x]
       /\ tree' = Replaced(tree, i, x)
       /\ UNCHANGED <<depth, raised>>

\* The caller of an add that raised.  The object is still there, with its odd leaf.
Stop == raised /\ UNCHANGED vars

Next == \/ \E x \in Values : add(x) \/ \E i \in 0..Len(leaves) : set(i, x)
        \/ Stop

Spec == Init /\ [][Next]_vars

-----------------------------------------------------------------------------
(* The verifier's side, as RFC 9162 describes it for the same shape of     *)
(* tree: it knows the root, the number of leaves and the index.            *)

RECURSIVE UpToRightTurn(_)
UpToRightTurn(s) == IF s.fn % 2 = 1 \/ s.fn = 0 THEN s
                    ELSE UpToRightTurn([s EXCEPT !.fn = @ \div 2, !.sn = @ \div 2])

RECURSIVE RootFrom(_, _)
RootFrom(s, proof) ==
    IF proof = << >> THEN s
    ELSE LET left == s.fn % 2 = 1 \/ s.fn = s.sn
             r == IF left THEN combine_hashes(Head(proof), s.r)
                          ELSE combine_hashes(s.r, Head(proof))
             t == IF left THEN UpToRightTurn(s) ELSE s
         IN  RootFrom([fn |-> t.fn \div 2, sn |-> t.sn \div 2, r |-> r], Tail(proof))

Verifies(i, leaf, proof, size, root) ==
    LET s == RootFrom([fn |-> i, sn |-> size - 1, r |-> leaf], proof)
    IN  s.sn = 0 /\ s.r = root

-----------------------------------------------------------------------------
(* Properties.                                                             *)

\* MerkleTree.add, set and __init__: the tree is the left-complete one over the vector,
\* however it grew.  An add that raised (line 180) has its leaf in the vector already, and
\* the tree is still the whole one over the leaves before it.
InTree == SubSeq(leaves, 1, Len(leaves) - IF raised THEN 1 ELSE 0)

\* Each proof of a leaf that is in the tree convinces a verifier that has only the root,
\* the number of these leaves and the index, and is as long as the depth at most.
ProofsVerify ==
    \A i \in 0..(Len(InTree) - 1) :
        /\ Verifies(i, leaves[i + 1], prove_leaf(i), Len(InTree), tree.value)
        /\ Len(prove_leaf(i)) <= depth
=============================================================================
