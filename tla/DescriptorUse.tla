--------------------------- MODULE DescriptorUse ---------------------------
(***************************************************************************)
(* What commands.py does with descriptors: getdescriptors and getkeypool   *)
(* write them, displayaddress and register_descriptor read them, in one    *)
(* process whose client keeps its xpub_cache while the wallet behind the   *)
(* device may change (another passphrase, another seed).  Texts pass       *)
(* through the user, who may damage them.                                  *)
(*                                                                         *)
(* A wallet is known by the fingerprint of its master key.                 *)
(***************************************************************************)
EXTENDS Descriptor

CONSTANTS
    Wallets,        \* wallets of the device
    Chain,          \* the chain of the client
    can_sign_taproot,
    Accounts,       \* account numbers asked for
    UserPaths,      \* paths given to getkeypool: [wellformed, path], the path in text
    Imports,        \* descriptors that come from elsewhere
    Forms,          \* how they are written: sign for hardened indices, checksum or not
    Positions,      \* address indices and multipath indices
    MaxShownKeys,   \* keys of a multisig the device displays, 15 in the code
    EditTokens,     \* what a damaged text may have in a place
    MaxCommands,    \* bound: commands of the process
    MaxDamage       \* bound: the number of commands after which texts are not damaged any more

ASSUME DescriptorUseAssumption ==
    /\ can_sign_taproot \in BOOLEAN
    /\ Wallets \subseteq 1..30 /\ Accounts \subseteq Nat /\ Positions \subseteq 0..9
    /\ Forms \subseteq {"h", "'"} \X BOOLEAN
    /\ MaxCommands \in Nat /\ MaxDamage \in Nat

VARIABLES
    wallet,      \* the wallet the device has loaded
    xpub_cache,  \* of the client: from paths to extended keys
    text,        \* the descriptor text at hand, if any
    from,        \* the descriptor it was written from, as long as it is undamaged
    policy,      \* the registration at hand, if any
    shown,       \* what the device was asked to display last, if anything
    commands     \* commands so far

vars == <<wallet, xpub_cache, text, from, policy, shown, commands>>

None == <<>>

Init ==
    /\ wallet \in Wallets
    /\ xpub_cache = <<>>
    /\ text = None
    /\ from = None
    /\ policy = None
    /\ shown = {}
    /\ commands = 0

get_pubkey_at_path(path) == ExtendedKey(wallet, path)

----------------------------------------------------------------------------
(* Writing descriptors                                                     *)

StandardPath(internal, addr_type, account) ==
    <<H_(get_bip44_purpose(addr_type)), H_(get_bip44_chain(Chain)), H_(account), IF internal THEN 1 ELSE 0>>

\* The path of the key: at most one; `path' is empty or one user path.
parsed_path(path, internal, addr_type, account) ==
    IF path = None THEN {StandardPath(internal, addr_type, account)}
    ELSE IF ~path[1].wellformed THEN {}
    ELSE parse_path(path[1].path)

\* Where the part ends that is derived on the device: behind the last
\* hardened index, or behind the first index when none is hardened.
OriginLength(path) == Max({1} \cup {i \in DOMAIN path : is_hardened(path[i])})

Cached(path_base) == IF path_base \in DOMAIN xpub_cache THEN xpub_cache[path_base] ELSE get_pubkey_at_path(path_base)

Wrapped(addr_type, key) ==
    CASE addr_type = "LEGACY" -> New("pkh", <<key>>, <<>>)
      [] addr_type = "SH_WIT" -> New("sh", <<>>, <<New("wpkh", <<key>>, <<>>)>>)
      [] addr_type = "WIT" -> New("wpkh", <<key>>, <<>>)
      [] addr_type = "TAP" -> TRDescriptor(key, <<>>, <<>>)

\* An empty path raises, for want of a last index.
getdescriptor(path, internal, addr_type, account) ==
    {LET i == OriginLength(p)
         base == SubSeq(p, 1, i)
     IN Wrapped(addr_type, PubkeyProvider(<<[fpr |-> wallet, path |-> base]>>, Cached(base),
                                          [k \in 1..(Len(p) - i) |-> <<p[i + k]>>], 0, TRUE))
        : p \in {q \in parsed_path(path, internal, addr_type, account) : q # <<>>}}

\* The cache after getdescriptor has been called for these arguments.
Caches(paths) ==
    LET bases == {SubSeq(p, 1, OriginLength(p)) : p \in paths \ {<<>>}}
    IN [b \in bases \cup DOMAIN xpub_cache |-> Cached(b)]

\* Bound: a damaged text is read, and nothing new is written after it.
Undamaged == text = None \/ from # None

Gives(descs, paths) ==
    /\ commands < MaxCommands
    /\ Undamaged
    /\ commands' = commands + 1
    /\ xpub_cache' = Caches(paths)
    /\ \E d \in descs :
          /\ text' = <<to_string(d, "h")>>
          /\ from' = <<d>>
    /\ UNCHANGED <<wallet, policy, shown>>

\* The types for which an UnavailableActionError is skipped are left out; the
\* key is fetched before that error is raised.
getdescriptors(account) ==
    Gives(UNION {getdescriptor(None, internal, t, account) :
                    internal \in BOOLEAN, t \in {u \in AddressTypes : u = "TAP" => can_sign_taproot}},
          {StandardPath(internal, t, account) : internal \in BOOLEAN, t \in AddressTypes})

\* addr_types is the type asked for, or all of them (--all).
getkeypool(path, internal, account, addr_types) ==
    LET types == {t \in addr_types : t = "TAP" => can_sign_taproot}
        internals == IF path = None /\ ~internal THEN BOOLEAN ELSE {internal}
    IN /\ types # {}
       /\ path # None \/ internal => Cardinality(types) = 1
       /\ Gives(UNION {getdescriptor(path, i, t, account) : i \in internals, t \in types},
                UNION {parsed_path(path, i, t, account) : i \in internals, t \in types})

----------------------------------------------------------------------------
(* Texts from elsewhere                                                    *)

\* One per process.
Import(d) ==
    /\ commands < MaxCommands
    /\ text = None
    /\ commands' = commands + 1
    /\ \E form \in Forms :
          text' = <<IF form[2] THEN to_string(d, form[1])
                    ELSE [body |-> to_string_no_checksum(d, form[1]), checksum |-> "none"]>>
    /\ from' = <<d>>
    /\ UNCHANGED <<wallet, xpub_cache, policy, shown>>

\* One token is lost, doubled or replaced.
Edited(s) ==
    {RemoveAt(s, i) : i \in DOMAIN s} \cup {InsertAt(s, i, s[i]) : i \in DOMAIN s}
        \cup {ReplaceAt(s, i, t) : i \in DOMAIN s, t \in EditTokens}

Edit ==
    /\ from # None
    /\ commands <= MaxDamage
    /\ text' \in {<<WithBody(text[1], s)>> : s \in Edited(text[1].body) \ {text[1].body}}
    /\ from' = None
    /\ UNCHANGED <<wallet, xpub_cache, policy, shown, commands>>

ChangeWallet ==
    /\ commands < MaxCommands
    /\ Undamaged
    /\ wallet' \in Wallets \ {wallet}
    /\ UNCHANGED <<xpub_cache, text, from, policy, shown, commands>>

----------------------------------------------------------------------------
(* Reading descriptors.  A command that raises changes nothing.            *)

\* What the device is asked to display: the address of one of its own keys
\* (at), or of a multisig with these keys and the paths that lead to them.
Shown(how, addr_type, d, at, keys) == [how |-> how, type |-> addr_type, d |-> d, at |-> at, keys |-> keys]

\* Of coldcard.py, which has the keys sorted in the script and in the paths.
display_multisig_address(how, addr_type, d, at) ==
    IF \/ d.name # "sortedmulti" \/ Len(d.keys) > MaxShownKeys
       \/ \E k \in DOMAIN d.keys : get_pubkey_bytes(d.keys[k], 0, 0) = {}
    THEN {}
    ELSE {Shown(how, addr_type, d, at,
                [k \in DOMAIN d.keys |->
                    [pubkey |-> CHOOSE pk \in get_pubkey_bytes(d.keys[k], 0, 0) : TRUE,
                     xfp_path |-> get_full_derivation_int_list(d.keys[k], 0, 0)]])}

\* Through sh() and wsh().
Inner(d) ==
    IF d.name \notin {"sh", "wsh"} THEN d
    ELSE IF d.subs[1].name = "wsh" THEN d.subs[1].subs[1]
    ELSE d.subs[1]

InWsh(d) == d.name = "wsh" \/ (d.name = "sh" /\ d.subs[1].name = "wsh")

MultisigType(d) ==
    IF ~InWsh(d) THEN "LEGACY" ELSE IF d.name = "sh" THEN "SH_WIT" ELSE "WIT"

SinglesigType(d) ==
    CASE Inner(d).name = "wpkh" -> IF d.name = "sh" THEN "SH_WIT" ELSE "WIT"
      [] Inner(d).name = "tr" -> "TAP"
      [] OTHER -> "LEGACY"

\* Mutant: the key is not compared with the device's.
OurKey_Any(key) == key.origin # <<>> /\ key.origin[1].fpr = wallet

\* The origin is this wallet, and its key there is the one in the text, as an
\* extended key or as a key in hexadecimal.
OurKey(key) ==
    /\ key.origin # <<>>
    /\ key.origin[1].fpr = wallet
    /\ key.pubkey \in {[get_pubkey_at_path(key.origin[1].path) EXCEPT !.kind = kind] : kind \in {"xpub", "hex", "xonly"}}

displayaddress(t) ==
    UNION {LET e == Inner(d) IN
           IF d.name \in {"sh", "wsh"} /\ e.name \in Multisig THEN display_multisig_address("multisig", MultisigType(d), e, <<>>)
           ELSE IF e.name \in {"pkh", "wpkh", "tr"} /\ OurKey(e.keys[1])
           THEN {Shown("singlesig", SinglesigType(d), e, path, <<>>) : path \in parse_path(get_full_derivation_path(e.keys[1], 0, 0))}
           ELSE {} : d \in parse_descriptor(t)}

Displayaddress ==
    /\ text # None
    /\ commands < MaxCommands
    /\ commands' = commands + 1
    /\ \E s \in displayaddress(text[1]) : shown' = {[s |-> s, of |-> text[1]]}
    /\ UNCHANGED <<wallet, xpub_cache, text, from, policy>>

\* The registration keeps the descriptor as text.
register_descriptor ==
    /\ text # None
    /\ commands < MaxCommands
    /\ commands' = commands + 1
    /\ \E d \in parse_descriptor(text[1]) : policy' = <<serialize("name", d, "coldcard", <<>>)>>
    /\ UNCHANGED <<wallet, xpub_cache, text, from, shown>>

\* displayaddress with a registration, as a client does that derives the
\* descriptor itself (coldcard.py).
DisplayPolicy(index, multipath_index) ==
    /\ policy # None
    /\ commands < MaxCommands
    /\ commands' = commands + 1
    /\ \E d \in deserialize(policy[1]) : \E e \in derive(d, index, multipath_index) :
          /\ e.name = "wsh" /\ e.subs[1].name \in Multisig
          /\ \E s \in display_multisig_address("policy", "WIT", e.subs[1], <<index, multipath_index>>) :
                shown' = {[s |-> s, of |-> policy[1].descriptor]}
    /\ UNCHANGED <<wallet, xpub_cache, text, from, policy>>

Next ==
    \/ \E a \in Accounts : getdescriptors(a)
    \/ \E path \in {None} \cup {<<p>> : p \in UserPaths}, internal \in BOOLEAN, a \in Accounts,
          addr_types \in {{t} : t \in AddressTypes} \cup {AddressTypes} : getkeypool(path, internal, a, addr_types)
    \/ \E d \in Imports : Import(d)
    \/ Edit \/ ChangeWallet \/ Displayaddress \/ register_descriptor
    \/ \E i, j \in Positions : DisplayPolicy(i, j)

Spec == Init /\ [][Next]_vars

----------------------------------------------------------------------------
(* Properties                                                              *)

\* The functions that may enclose one another, outermost first.
Nestings ==
    {<<f>> : f \in {"pk", "pkh", "wpkh", "tr"} \cup Multisig}
        \cup {<<"sh", f>> : f \in {"pk", "pkh", "wpkh"} \cup Multisig}
        \cup {<<"wsh", f>> : f \in {"pk", "pkh"} \cup Multisig}
        \cup {<<"sh", "wsh", f>> : f \in {"pk", "pkh"} \cup Multisig}

Chain3(d) ==
    IF d.name \notin {"sh", "wsh"} THEN <<d.name>>
    ELSE IF d.subs[1].name # "wsh" THEN <<d.name, d.subs[1].name>>
    ELSE <<d.name, "wsh", d.subs[1].subs[1].name>>

\* The leaves of a binary tree at these depths fill it.
FullTree(depths) ==
    LET D == Max({0} \cup {depths[k] : k \in DOMAIN depths})
    IN depths # <<>> => FoldLeft(LAMBDA sum, k : sum + 2 ^ (D - k), 0, depths) = 2 ^ D

Legal(d) ==
    LET e == Inner(d)
        keys == get_pubkey_providers(d)
    IN /\ Chain3(d) \in Nestings
       /\ e.name \in Multisig => e.thresh \in 1..Len(e.keys) /\ Len(e.keys) <= MaxMultisigKeys
       /\ d.name \in Multisig => Len(d.keys) <= MaxBareKeys
       /\ e.name \notin Multisig => Len(e.keys) = 1
       /\ d.name = "tr" => FullTree(d.depths) /\ \A k \in DOMAIN d.subs : d.subs[k].name = "pk"
       /\ \A k, l \in DOMAIN keys : {1} # {multipath_len(keys[k]), multipath_len(keys[l])} =>
             multipath_len(keys[k]) = multipath_len(keys[l]) \/ 1 \in {multipath_len(keys[k]), multipath_len(keys[l])}
       /\ \A k \in DOMAIN keys : keys[k].expr_index = k - 1

\* ReadsWhatIsWritten: a text that a descriptor was written to is read as that
\* descriptor, with either sign for hardened indices; and whatever else the
\* parser accepts is a legal descriptor, numbered in the order of its keys,
\* that is the same when it is written and read again (parse_descriptor,
\* to_string).
ReadsWhatIsWritten ==
    text # None =>
        /\ from # None => parse_descriptor(text[1]) = {from[1]}
        /\ \A d \in parse_descriptor(text[1]) : Legal(d) /\ parse_descriptor(to_string(d, "h")) = {d}

\* DamageRefused: a text with a checksum that was damaged is not read.
DamageRefused ==
    text # None => (from = None /\ text[1].checksum # "none" => parse_descriptor(text[1]) = {})

\* PolicyExpands: a wallet policy, its template with the key vector put in
\* place of the placeholders, is the descriptor, for every descriptor that has
\* one (get_bip388_template, get_bip388_key_info).
PolicyExpands ==
    text # None =>
        \A d \in parse_descriptor(text[1]) : \A template \in get_bip388_template(d) :
            LET keys == get_pubkey_providers(d)
                Expand(tok) ==
                    IF tok.t # "key" THEN tok
                    ELSE KeyTok([get_bip388_key_info(keys[tok.key.pubkey.path[1] + 1])
                                    EXCEPT !.path = tok.key.path, !.ranged = tok.key.ranged])
            IN [k \in DOMAIN template |-> Expand(template[k])] = to_string_no_checksum(d, "'")

\* The key of a wallet that a key expression names at a position.
KeyAt(key, pos, multipath_pos) ==
    LET Chosen[k \in 0..Len(key.deriv_path)] ==
            IF k = 0 THEN <<>>
            ELSE Append(Chosen[k - 1], IF Len(key.deriv_path[k]) = 1 THEN key.deriv_path[k][1]
                                       ELSE key.deriv_path[k][multipath_pos + 1])
    IN Chosen[Len(key.deriv_path)] \o (IF key.ranged THEN <<pos>> ELSE <<>>)

\* The fingerprint and the path the device is given lead to the key it is
\* given.  Of a key in hexadecimal nobody knows where it comes from.
Reaches(xfp_path, pubkey) ==
    pubkey.kind = "xpub" => xfp_path # <<>> /\ pubkey = ExtendedKey(xfp_path[1], Tail(xfp_path))

\* The descriptors getdescriptor writes.
Plain(d) == Chain3(d) \in {<<"pkh">>, <<"wpkh">>, <<"sh", "wpkh">>} \/ (d.name = "tr" /\ d.subs = <<>>)

\* DisplaysItsKey: when displayaddress shows an address of a single key, the
\* key is one that the wallet really has where the descriptor says, at the
\* descriptor's first position, whatever was cached or damaged before, and of
\* the descriptor's own type where that is one getdescriptor writes; a policy
\* is shown at the asked position of the asked branch; and the paths that the
\* device is given for the keys of a multisig lead to these keys or, of ranged
\* keys, whose position line 234 of descriptor.py appends once too often, past
\* them to their children at that position.  Keys without an origin are left
\* out: their lists have an index in the place of the fingerprint (line 230)
\* (displayaddress, get_full_derivation_path, derive, display_multisig_address).
DisplaysItsKey ==
    \A x \in shown :
        /\ x.s.how = "singlesig" =>
              LET key == x.s.d.keys[1] IN
              /\ key.pubkey.seed = key.origin[1].fpr
              /\ x.s.at = key.pubkey.path \o KeyAt(key, 0, 0)
              /\ \A d \in parse_descriptor(x.of) : Plain(d) => d = Wrapped(x.s.type, key)
        /\ x.s.how = "policy" =>
              \A d \in parse_descriptor(x.of) :
                  LET asked == get_pubkey_providers(d) IN
                  \A k \in DOMAIN asked : asked[k].pubkey.kind = "xpub" =>
                      x.s.keys[k].pubkey.path = asked[k].pubkey.path \o KeyAt(asked[k], x.s.at[1], x.s.at[2])
        /\ \A k \in DOMAIN x.s.keys : x.s.d.keys[k].origin # <<>> =>
              LET list == x.s.keys[k].xfp_path IN
              Reaches(IF x.s.d.keys[k].ranged THEN Front(list) ELSE list, x.s.keys[k].pubkey)
=============================================================================
