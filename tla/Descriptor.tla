----------------------------- MODULE Descriptor -----------------------------
(***************************************************************************)
(* Output descriptors (descriptor.py): the objects, their text, the parser *)
(* and the templates of BIP 388 wallet policies.                           *)
(*                                                                         *)
(* A descriptor is [name, keys, subs, thresh, depths]; its text is a       *)
(* sequence of tokens, a whole key expression being one token.  Operators  *)
(* that may raise return the set of their results (see KeyPath).  The      *)
(* deriv_path of a key is empty where the code has None, or the empty list *)
(* that getdescriptor may make of a path.                                  *)
(***************************************************************************)
EXTENDS KeyPath, FiniteSetsExt, SequencesExt

CONSTANTS
    MaxMultisigKeys,   \* 16 in the code
    MaxBareKeys,       \* 3 in the code
    MAX_TAPROOT_NODES  \* 128 in the code

----------------------------------------------------------------------------
(* Key expressions                                                         *)

PubkeyProvider(origin, pubkey, deriv_path, expr_index, ranged) ==
    [origin |-> origin, pubkey |-> pubkey, deriv_path |-> deriv_path, expr_index |-> expr_index, ranged |-> ranged]

multipath_len(key) == Max({1} \cup {Len(key.deriv_path[k]) : k \in DOMAIN key.deriv_path})

key_to_string(key, hardened_char) ==
    [origin |-> [k \in DOMAIN key.origin |-> [fpr |-> key.origin[k].fpr,
                                              path |-> path_to_string(key.origin[k].path, hardened_char)]],
     pubkey |-> key.pubkey,
     path |-> multipath_to_string(key.deriv_path, hardened_char),
     ranged |-> key.ranged]

parse_key(s, key_expr_index) ==
    {PubkeyProvider([k \in DOMAIN s.origin |-> [fpr |-> s.origin[k].fpr, path |-> o]], s.pubkey, p, key_expr_index, s.ranged) :
        o \in IF s.origin = <<>> THEN {<<>>} ELSE parse_path(s.origin[1].path), p \in parse_multipath(s.path)}

\* Defined where the multipaths are long enough.
get_deriv_path(key, pos, multipath_pos) ==
    LET Choice(p) == IF Len(p) = 1 THEN p[1] ELSE p[multipath_pos + 1]
        path == [k \in DOMAIN key.deriv_path |-> Choice(key.deriv_path[k])]
    IN IF key.ranged THEN Append(path, pos) ELSE path

\* Without a derivation path the position is not looked at.
get_pubkey_bytes(key, pos, multipath_pos) ==
    IF key.pubkey.kind # "xpub" \/ key.deriv_path = <<>> THEN {key.pubkey}
    ELSE derive_pub_path(key.pubkey, get_deriv_path(key, pos, multipath_pos))

\* In text; a ranged key gets its position twice, the second time as digits
\* behind the last index.
get_full_derivation_path(key, pos, multipath_pos) ==
    LET base == IF key.origin = <<>> THEN <<[multi |-> FALSE, idx |-> <<Index(0, "empty")>>]>>
                ELSE path_to_string(key.origin[1].path, "h")
        path == IF key.deriv_path = <<>> THEN base
                ELSE base \o path_to_string(get_deriv_path(key, pos, multipath_pos), "h")
    IN IF key.ranged THEN JoinDigits(path, pos) ELSE path

\* A list of integers, the first of which is read as the fingerprint of the
\* master key.  Without an origin there is no fingerprint, and the first index
\* stands in its place; the position stands twice in the list of a ranged key
\* with a derivation path.
get_full_derivation_int_list(key, pos, multipath_pos) ==
    (IF key.origin = <<>> THEN <<>> ELSE <<key.origin[1].fpr>> \o key.origin[1].path)
        \o (IF key.deriv_path = <<>> THEN <<>> ELSE get_deriv_path(key, pos, multipath_pos))
        \o (IF key.ranged THEN <<pos>> ELSE <<>>)

\* Mutant: every key is the first of the key vector.
placeholder_First(key) == [index |-> 0, path |-> multipath_to_string(key.deriv_path, "'")]

placeholder(key) == [index |-> key.expr_index, path |-> multipath_to_string(key.deriv_path, "'")]

get_bip388_placeholder(key) == IF ~key.ranged \/ multipath_len(key) > 2 THEN {} ELSE {placeholder(key)}

get_bip388_key_info(key) == [key_to_string(key, "'") EXCEPT !.path = <<>>, !.ranged = FALSE]

----------------------------------------------------------------------------
(* Descriptors                                                             *)

New(name, keys, subs) == [name |-> name, keys |-> keys, subs |-> subs, thresh |-> 0, depths |-> <<>>]

MultisigDescriptor(keys, thresh, is_sorted) ==
    [New(IF is_sorted THEN "sortedmulti" ELSE "multi", keys, <<>>) EXCEPT !.thresh = thresh]

TRDescriptor(internal_key, subs, depths) == [New("tr", <<internal_key>>, subs) EXCEPT !.depths = depths]

Multisig == {"multi", "sortedmulti"}

get_pubkey_providers(d) ==
    LET RECURSIVE All(_)
        All(e) == e.keys \o FlattenSeq([k \in DOMAIN e.subs |-> All(e.subs[k])])
    IN All(d)

\* The descriptor with F applied to each of its keys.
MapKeys(d, F(_)) ==
    LET RECURSIVE Map(_)
        Map(e) == [e EXCEPT !.keys = [k \in DOMAIN e.keys |-> F(e.keys[k])],
                            !.subs = [k \in DOMAIN e.subs |-> Map(e.subs[k])]]
    IN Map(d)

derive(d, pos, multipath_index) ==
    LET At(key) == LET path == get_deriv_path(key, pos, multipath_index)
                   IN [key EXCEPT !.deriv_path = [k \in DOMAIN path |-> <<path[k]>>], !.ranged = FALSE]
        keys == get_pubkey_providers(d)
    IN IF \E k \in DOMAIN keys : multipath_len(keys[k]) \in 2..multipath_index THEN {}
       ELSE {MapKeys(d, At)}

----------------------------------------------------------------------------
(* Text                                                                    *)

NoKey == [origin |-> <<>>, pubkey |-> [kind |-> "none", seed |-> 0, path |-> <<>>], path |-> <<>>, ranged |-> FALSE]
Tok(t) == [t |-> t, n |-> 0, key |-> NoKey]
NumTok(n) == [Tok("num") EXCEPT !.n = n]
KeyTok(text) == [Tok("key") EXCEPT !.key = text]

\* The script tree of tr(): braces from the depths of the leaves, with the
\* branch taken at each level (path) as the loop of the code keeps it.
Tree(leaves, depths) ==
    LET RECURSIVE Loop(_, _), Closing(_)
        Closing(path) == IF path # <<>> /\ path[Len(path)] THEN 1 + Closing(Front(path)) ELSE 0
        Loop(p, path) ==
            IF p > Len(depths) THEN <<>>
            ELSE LET more == IF depths[p] + 1 > Len(path) THEN depths[p] + 1 - Len(path) ELSE 0
                     opens == IF Len(path) = 0 /\ more > 0 THEN more - 1 ELSE more
                     down == path \o [k \in 1..more |-> FALSE]
                     closes == Closing(down)
                     up == SubSeq(down, 1, Len(down) - closes)
                 IN <<Tok(",")>> \o [k \in 1..opens |-> Tok("{")] \o leaves[p] \o [k \in 1..closes |-> Tok("}")]
                        \o Loop(p + 1, IF up = <<>> THEN up ELSE [up EXCEPT ![Len(up)] = TRUE])
    IN Loop(1, <<>>)

Commas(items) ==
    FlattenSeq([k \in DOMAIN items |-> IF k = 1 THEN <<items[k]>> ELSE <<Tok(","), items[k]>>])

\* to_string_no_checksum, with KeyText for the text of a key.
Written(d, KeyText(_)) ==
    LET RECURSIVE Text(_)
        Text(e) ==
            LET keys == Commas([k \in DOMAIN e.keys |-> KeyTok(KeyText(e.keys[k]))])
                inner == CASE e.name \in Multisig -> <<NumTok(e.thresh), Tok(",")>> \o keys
                           [] e.name = "tr" -> keys \o Tree([k \in DOMAIN e.subs |-> Text(e.subs[k])], e.depths)
                           [] OTHER -> keys \o (IF e.subs = <<>> THEN <<>> ELSE Text(e.subs[1]))
            IN <<Tok(e.name), Tok("(")>> \o inner \o <<Tok(")")>>
    IN Text(d)

to_string_no_checksum(d, hardened_char) == LET KeyText(key) == key_to_string(key, hardened_char) IN Written(d, KeyText)

\* get_bip388_template: the placeholder of a key stands in its place, here as
\* an index into the key vector with a path.
get_bip388_template(d) ==
    LET P(key) == [NoKey EXCEPT !.pubkey.path = <<placeholder(key).index>>, !.path = placeholder(key).path, !.ranged = TRUE]
    IN IF \E k \in DOMAIN get_pubkey_providers(d) : get_bip388_placeholder(get_pubkey_providers(d)[k]) = {}
       THEN {} ELSE {Written(d, P)}

----------------------------------------------------------------------------
(* The parser.  Its results are records [d, ki]: what was read, and the    *)
(* index of the next key expression.                                       *)

Where(s, chars) == {i \in DOMAIN s : s[i].t \in chars}

\* Text behind the last closing parenthesis is not looked at.
_get_func_expr(s) ==
    LET opening == Where(s, {"("})
        closing == Where(s, {")"})
    IN IF opening = {} \/ closing = {} THEN {}
       ELSE {[func |-> SubSeq(s, 1, Min(opening) - 1), expr |-> SubSeq(s, Min(opening) + 1, Max(closing) - 1)]}

\* Up to the first comma or closing brace outside of parentheses and braces.
_get_expr(s) ==
    LET Level(i) == Cardinality({j \in Where(s, {"(", "{"}) : j < i}) - Cardinality({j \in Where(s, {")", "}"}) : j < i})
        ends == {i \in Where(s, {")", "}", ","}) : Level(i) = 0}
    IN IF ends = {} THEN [first |-> s, rest |-> <<>>]
       ELSE [first |-> SubSeq(s, 1, Min(ends) - 1), rest |-> SubSeq(s, Min(ends), Len(s))]

\* One key expression, up to the first comma.
parse_pubkey(expr, ki) ==
    LET commas == Where(expr, {","})
        text == IF commas = {} THEN expr ELSE SubSeq(expr, 1, Min(commas) - 1)
        rest == IF commas = {} THEN <<>> ELSE SubSeq(expr, Min(commas) + 1, Len(expr))
    IN IF Len(text) # 1 \/ Where(text, {"key"}) = {} THEN {}
       ELSE {[key |-> key, rest |-> rest, ki |-> ki + 1] : key \in parse_key(text[1].key, ki)}

\* Key expressions to the end of the text.
parse_pubkeys(expr, ki) ==
    LET RECURSIVE Loop(_, _, _)
        Loop(rest, i, keys) ==
            IF rest = <<>> THEN {[keys |-> keys, ki |-> i]}
            ELSE UNION {Loop(r.rest, r.ki, Append(keys, r.key)) : r \in parse_pubkey(rest, i)}
    IN Loop(expr, ki, <<>>)

MultipathsAgree(keys) ==
    \A k, l \in DOMAIN keys : multipath_len(keys[k]) > 1 /\ multipath_len(keys[l]) > 1 =>
        multipath_len(keys[k]) = multipath_len(keys[l])

\* Mutant: the threshold may exceed the number of keys.
MultisigAllowed_High(ctx, thresh, keys) ==
    /\ MultipathsAgree(keys)
    /\ Len(keys) \in 1..MaxMultisigKeys
    /\ thresh >= 1
    /\ ctx = "TOP" => Len(keys) <= MaxBareKeys

MultisigAllowed(ctx, thresh, keys) ==
    /\ MultipathsAgree(keys)
    /\ Len(keys) \in 1..MaxMultisigKeys
    /\ thresh \in 1..Len(keys)
    /\ ctx = "TOP" => Len(keys) <= MaxBareKeys

parse_multisig(func, expr, ctx, ki) ==
    IF Len(expr) < 2 \/ Where(SubSeq(expr, 1, 1), {"num"}) = {} \/ Where(SubSeq(expr, 2, 2), {","}) = {} THEN {}
    ELSE {[d |-> MultisigDescriptor(r.keys, expr[1].n, func = "sortedmulti"), ki |-> r.ki] :
            r \in {q \in parse_pubkeys(SubSeq(expr, 3, Len(expr)), ki) : MultisigAllowed(ctx, expr[1].n, q.keys)}}

\* Where each function may stand.
Contexts(func) ==
    CASE func = "pk" -> {"TOP", "P2SH", "P2WSH", "P2TR"}
      [] func \in {"pkh"} \cup Multisig -> {"TOP", "P2SH", "P2WSH"}
      [] func \in {"wpkh", "wsh"} -> {"TOP", "P2SH"}
      [] func \in {"sh", "tr"} -> {"TOP"}
      [] OTHER -> {}

\* The scripts of tr(): `branches' is the path from the top of the tree, TRUE
\* for a right branch.  Text behind the tree is not looked at.  Leaf(s, ki) is
\* the parser for a leaf.
parse_tree(expr, ki, Leaf(_, _)) ==
    LET Braces(s) == Cardinality({i \in DOMAIN s : \A j \in 1..i : s[j].t = "{"})
        \* how many levels end with a leaf on a right branch
        RECURSIVE Rights(_), Loop(_, _, _, _, _)
        Rights(branches) == IF branches # <<>> /\ branches[Len(branches)] THEN 1 + Rights(Front(branches)) ELSE 0
        Loop(text, i, branches, subs, depths) ==
            LET opens == Braces(text)
                down == branches \o [k \in 1..opens |-> FALSE]
                e == _get_expr(SubSeq(text, opens + 1, Len(text)))
                closes == Rights(down)
                up == SubSeq(down, 1, Len(down) - closes)
                Closed == Len(e.rest) >= closes /\ \A k \in 1..closes : e.rest[k].t = "}"
                rest == SubSeq(e.rest, closes + 1, Len(e.rest))
                Comma == rest # <<>> /\ rest[1].t = ","
            IN IF Len(down) > MAX_TAPROOT_NODES \/ ~Closed \/ (up # <<>> /\ ~Comma) THEN {}
               ELSE UNION {IF up = <<>>
                           THEN {[subs |-> Append(subs, r.d), depths |-> Append(depths, Len(down)), ki |-> r.ki]}
                           ELSE Loop(Tail(rest), r.ki, [up EXCEPT ![Len(up)] = TRUE],
                                     Append(subs, r.d), Append(depths, Len(down))) : r \in Leaf(e.first, i)}
    IN IF expr = <<>> THEN {[subs |-> <<>>, depths |-> <<>>, ki |-> ki]} ELSE Loop(expr, ki, <<>>, <<>>, <<>>)

_parse_descriptor(desc, context, index) ==
    LET RECURSIVE Parse(_, _, _)
        Parse(s, ctx, ki) ==
            UNION {LET func == IF Len(f.func) = 1 THEN f.func[1].t ELSE "none"
                       Leaf(t, i) == Parse(t, "P2TR", i)
                   IN IF ctx \notin Contexts(func) THEN {}
                      ELSE CASE func \in {"pk", "pkh", "wpkh"} ->
                                   {[d |-> New(func, <<r.key>>, <<>>), ki |-> r.ki] :
                                       r \in {q \in parse_pubkey(f.expr, ki) : q.rest = <<>>}}
                             [] func \in Multisig -> parse_multisig(func, f.expr, ctx, ki)
                             [] func \in {"sh", "wsh"} ->
                                   {[d |-> New(func, <<>>, <<r.d>>), ki |-> r.ki] :
                                       r \in Parse(f.expr, IF func = "sh" THEN "P2SH" ELSE "P2WSH", ki)}
                             [] func = "tr" ->
                                   UNION {{[d |-> TRDescriptor(k.key, r.subs, r.depths), ki |-> r.ki] :
                                              r \in {q \in parse_tree(k.rest, k.ki, Leaf) :
                                                  MultipathsAgree(<<k.key>> \o FlattenSeq([l \in DOMAIN q.subs |-> q.subs[l].keys]))}} :
                                          k \in parse_pubkey(f.expr, ki)}
                   : f \in _get_func_expr(s)}
    IN Parse(desc, context, index)

----------------------------------------------------------------------------
(* The checksum: a polynomial over GF(32), here its eight coefficients.    *)

Xor == [a \in 0..31 |-> [b \in 0..31 |->
            LET Bit(k) == ((a \div 2^k + b \div 2^k) % 2) * 2^k IN Bit(0) + Bit(1) + Bit(2) + Bit(3) + Bit(4)]]

Generator == <<<<30, 23, 15, 14, 10, 6, 12, 9>>, <<21, 7, 30, 28, 20, 12, 24, 18>>, <<3, 14, 21, 17, 1, 24, 25, 13>>,
               <<6, 28, 3, 11, 2, 25, 27, 26>>, <<12, 17, 6, 22, 4, 27, 31, 29>>>>

\* What the coefficient that is shifted out adds to each of the others.
Feedback ==
    [c0 \in 0..31 |-> [j \in 1..8 |->
        LET Term(k) == IF (c0 \div 2^k) % 2 = 1 THEN Generator[k + 1][j] ELSE 0
        IN Xor[Term(0)][Xor[Term(1)][Xor[Term(2)][Xor[Term(3)][Term(4)]]]]]]

\* Mutant: the coefficient that is shifted out is lost.
PolyMod_Lost(c, val) == Append(Tail(c), val)

PolyMod(c, val) ==
    LET F(j, x) == Xor[x][Feedback[c[1]][j]]
    IN <<F(1, c[2]), F(2, c[3]), F(3, c[4]), F(4, c[5]), F(5, c[6]), F(6, c[7]), F(7, c[8]), F(8, val)>>

\* A token as positions in INPUT_CHARSET: one for a sign, a name, a mark, a
\* fingerprint or a public key, one or two for a number.
Digits(n) == IF n < 32 THEN <<n>> ELSE <<n \div 32, n % 32>>
MarkChars(mark) == CASE mark = "h" -> <<25>> [] mark = "'" -> <<15>> [] OTHER -> <<>>
PathChars(path) ==
    FlattenSeq([k \in DOMAIN path |->
        FlattenSeq([j \in DOMAIN path[k].idx |-> Digits(path[k].idx[j].num) \o MarkChars(path[k].idx[j].mark)])])
KeyChars(key) ==
    FlattenSeq([o \in DOMAIN key.origin |-> <<12, key.origin[o].fpr>> \o PathChars(key.origin[o].path)])
        \o <<key.pubkey.seed + (IF key.pubkey.kind = "xpub" THEN 64 ELSE 0)>>
        \o PathChars(key.path) \o (IF key.ranged THEN <<17>> ELSE <<>>)
Signs == <<"(", ")", ",", "{", "}", "pk", "pkh", "wpkh", "multi", "sortedmulti", "sh", "wsh", "tr">>
TokenChars(tok) ==
    CASE tok.t = "num" -> Digits(tok.n)
      [] tok.t = "key" -> KeyChars(tok.key)
      [] OTHER -> <<29 + CHOOSE i \in DOMAIN Signs : Signs[i] = tok.t>>

DescriptorChecksum(desc) ==
    LET chars == FlattenSeq([i \in DOMAIN desc |-> TokenChars(desc[i])])
        \* c with the classes of the characters since the last group of three
        Read[i \in 0..Len(chars)] ==
            IF i = 0 THEN [c |-> <<0, 0, 0, 0, 0, 0, 0, 1>>, cls |-> 0, clscount |-> 0]
            ELSE LET st == Read[i - 1]
                     c == PolyMod(st.c, chars[i] % 32)
                     cls == st.cls * 3 + chars[i] \div 32
                 IN IF st.clscount = 2 THEN [c |-> PolyMod(c, cls), cls |-> 0, clscount |-> 0]
                    ELSE [c |-> c, cls |-> cls, clscount |-> st.clscount + 1]
        read == Read[Len(chars)]
        Zeros[j \in 0..8] ==
            IF j > 0 THEN PolyMod(Zeros[j - 1], 0)
            ELSE IF read.clscount > 0 THEN PolyMod(read.c, read.cls) ELSE read.c
    IN [Zeros[8] EXCEPT ![8] = Xor[@][1]]

\* A text is its body and whether the checksum behind it fits: the checksum
\* is "none", "right" or "wrong".
AddChecksum(desc) == [body |-> desc, checksum |-> "right"]

to_string(d, hardened_char) == AddChecksum(to_string_no_checksum(d, hardened_char))

\* The text when its body becomes s and what is behind it stays.
WithBody(text, s) ==
    [body |-> s, checksum |-> IF text.checksum = "none" \/ DescriptorChecksum(s) = DescriptorChecksum(text.body)
                              THEN text.checksum ELSE "wrong"]

parse_descriptor(text) ==
    IF text.checksum = "wrong" THEN {} ELSE {r.d : r \in _parse_descriptor(text.body, "TOP", 0)}

----------------------------------------------------------------------------
(* RegisteredDescriptor                                                    *)

serialize(name, d, device_type, registration) ==
    [magic |-> "rdesc", version |-> 1, name |-> name, descriptor |-> to_string(d, "h"),
     device_type |-> device_type, registration |-> registration]

deserialize(policy) ==
    IF policy.magic # "rdesc" \/ policy.version # 1 THEN {} ELSE parse_descriptor(policy.descriptor)
=============================================================================
