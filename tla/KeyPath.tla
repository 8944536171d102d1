------------------------------ MODULE KeyPath ------------------------------
(***************************************************************************)
(* Derivation paths (key.py): child indices with their hardened bit, paths *)
(* and multipaths as numbers and as text.                                  *)
(*                                                                         *)
(* The text of an index is its number and the mark behind it: none, "h",   *)
(* "'", or "bad" when int() refuses what stands there ("empty" when there  *)
(* is nothing).  A path in text is a sequence of elements, each one index, *)
(* or several in the brackets of a multipath.                              *)
(*                                                                         *)
(* A conversion that may raise returns the set of its results: one, or     *)
(* none when it raises.                                                    *)
(***************************************************************************)
EXTENDS Naturals, Sequences, FiniteSets

CONSTANT Width   \* bits of a child index, 32 in the code

ASSUME WidthAssumption == Width \in Nat /\ Width > 7   \* room for the purposes 44 to 86

HARDENED_FLAG == 2 ^ (Width - 1)

is_hardened(i) == (i \div HARDENED_FLAG) % 2 = 1
H_(i) == IF is_hardened(i) THEN i ELSE i + HARDENED_FLAG

----------------------------------------------------------------------------
(* Numbers to text                                                         *)

Index(num, mark) == [num |-> num, mark |-> mark]

index_to_str(i, hardened_char) ==
    IF is_hardened(i) THEN Index(i - HARDENED_FLAG, hardened_char) ELSE Index(i, "")

Element(mp, hardened_char) ==
    [multi |-> Len(mp) > 1, idx |-> [j \in DOMAIN mp |-> index_to_str(mp[j], hardened_char)]]

multipath_to_string(path, hardened_char) == [k \in DOMAIN path |-> Element(path[k], hardened_char)]
path_to_string(path, hardened_char) == multipath_to_string([k \in DOMAIN path |-> <<path[k]>>], hardened_char)

----------------------------------------------------------------------------
(* Text to numbers                                                         *)

str_to_harden(x) == IF x.mark = "" THEN x.num ELSE H_(x.num)

_parse_path(text, allow_multipath) ==
    IF \/ \E k \in DOMAIN text : \E j \in DOMAIN text[k].idx : text[k].idx[j].mark \in {"bad", "empty"}
       \/ \E k \in DOMAIN text : text[k].multi /\ (~allow_multipath \/ Len(text[k].idx) < 2)
       \/ \E k, l \in DOMAIN text : k # l /\ text[k].multi /\ text[l].multi
    THEN {}
    ELSE {[k \in DOMAIN text |-> [j \in DOMAIN text[k].idx |-> str_to_harden(text[k].idx[j])]]}

parse_path(text) == {[k \in DOMAIN p |-> p[k][1]] : p \in _parse_path(text, FALSE)}
parse_multipath(text) == _parse_path(text, TRUE)

\* `text += str(n)': the digits of n (below ten) join the last index.
JoinDigits(text, n) ==
    LET last == text[Len(text)].idx[1]
        joined == CASE last.mark = "" -> Index(10 * last.num + n, "")
                    [] last.mark = "empty" -> Index(n, "")
                    [] OTHER -> Index(0, "bad")
    IN IF text = <<>> THEN <<[multi |-> FALSE, idx |-> <<Index(0, "bad")>>]>>
       ELSE [text EXCEPT ![Len(text)].idx[1] = joined]

----------------------------------------------------------------------------
(* BIP 44                                                                  *)

AddressTypes == {"LEGACY", "SH_WIT", "WIT", "TAP"}

get_bip44_purpose(addrtype) ==
    CASE addrtype = "LEGACY" -> 44
      [] addrtype = "SH_WIT" -> 49
      [] addrtype = "WIT" -> 84
      [] addrtype = "TAP" -> 86

get_bip44_chain(chain) == IF chain = "MAIN" THEN 0 ELSE 1

----------------------------------------------------------------------------
(* Extended keys: the wallet they come from and their path in it.          *)

ExtendedKey(seed, path) == [kind |-> "xpub", seed |-> seed, path |-> path]

derive_pub_path(key, path) ==
    IF \E k \in DOMAIN path : is_hardened(path[k]) THEN {} ELSE {[key EXCEPT !.path = @ \o path]}
=============================================================================
