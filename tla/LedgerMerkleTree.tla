-------------------------- MODULE LedgerMerkleTree --------------------------
(***************************************************************************)
(* The functions of ledger_bitcoin/merkle.py: the left-complete tree over  *)
(* a list of leaf values, and the path from a leaf to the root.            *)
(*                                                                         *)
(* Hashing is free: the hash of two values is the pair of them, and a leaf *)
(* value is a one-tuple, so that values are equal only if they were        *)
(* computed from the same elements.                                        *)
(***************************************************************************)
EXTENDS Integers, Sequences

\* A node: its value, and its children (none for a leaf).
Leaf(x) == [value |-> x, kids |-> << >>]
NoTree  == [value |-> << >>, kids |-> << >>]
combine_hashes(left, right) == <<left, right>>
Inner(l, r) == [value |-> combine_hashes(l.value, r.value), kids |-> <<l, r>>]

is_power_of_2(n) == \E k \in 0..n : n = 2^k
ceil_lg(n) == CHOOSE k \in 0..n : n <= 2^k /\ (k > 0 => 2^(k - 1) < n)
largest_power_of_2_less_than(n) == 2^ceil_lg(n) \div 2

\* make_tree(leaves, begin, size) for a whole vector.
make_tree(ls) ==
    LET T[begin \in 0..Len(ls), size \in 1..Len(ls)] ==
            IF size = 1 THEN Leaf(ls[begin + 1])
            ELSE LET lchild_size == largest_power_of_2_less_than(size)
                 IN  Inner(T[begin, lchild_size],
                           T[begin + lchild_size, size - lchild_size])
    IN  IF ls = << >> THEN NoTree ELSE T[0, Len(ls)]

RECURSIVE NumLeaves(_)
NumLeaves(node) ==
    IF node.kids = << >> THEN 1 ELSE NumLeaves(node.kids[1]) + NumLeaves(node.kids[2])

\* prove_leaf climbs from leaf i to the root and notes the sibling at each level.
RECURSIVE ProveFrom(_, _)
ProveFrom(node, i) ==
    IF node.kids = << >> THEN << >>
    ELSE LET l == node.kids[1]
             r == node.kids[2]
         IN  IF i < NumLeaves(l) THEN Append(ProveFrom(l, i), r.value)
             ELSE Append(ProveFrom(r, i - NumLeaves(l)), l.value)

\* Length of the proof of leaf i in a tree built with n leaves.
PathLen(n, i) == Len(ProveFrom(make_tree([k \in 1..n |-> <<"leaf">>]), i))
=============================================================================
