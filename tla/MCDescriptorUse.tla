-------------------------- MODULE MCDescriptorUse --------------------------
(***************************************************************************)
(* Keys with and without an origin, hardened, ranged and with multipaths   *)
(* of two and three branches; every form of descriptor, script trees with  *)
(* up to four leaves.                                                      *)
(***************************************************************************)
EXTENDS DescriptorUse

Account == <<H_(84), H_(0), H_(0)>>
Key(origin, pubkey, deriv_path, ranged) == [i \in 0..5 |-> PubkeyProvider(origin, pubkey, deriv_path, i, ranged)]

Ours == Key(<<[fpr |-> 1, path |-> Account]>>, ExtendedKey(1, Account), <<<<0>>>>, TRUE)
OursBranches == Key(<<[fpr |-> 1, path |-> Account]>>, ExtendedKey(1, Account), <<<<0, 1>>>>, TRUE)
OursFixed == Key(<<[fpr |-> 1, path |-> Account]>>, [ExtendedKey(1, Account) EXCEPT !.kind = "hex"], <<>>, FALSE)
OursPlain == Key(<<[fpr |-> 1, path |-> Account]>>, ExtendedKey(1, Account), <<>>, TRUE)
Theirs == Key(<<[fpr |-> 3, path |-> <<H_(48), 2>>]>>, ExtendedKey(3, <<H_(48), 2>>), <<<<5>>, <<0, 1>>>>, TRUE)
Three == Key(<<>>, ExtendedKey(3, <<>>), <<<<0, 1, H_(2)>>>>, TRUE)
Keys == {Ours, OursBranches, OursFixed, OursPlain, Theirs, Three}

Pk(key, i) == New("pk", <<key[i]>>, <<>>)
Pair(thresh) == {MultisigDescriptor(<<k[0], l[1]>>, thresh, s) : k \in {Ours, OursBranches}, l \in {Theirs, OursPlain}, s \in {TRUE}}
    \cup {MultisigDescriptor(<<k[0], Theirs[1]>>, thresh, FALSE) : k \in {OursBranches}}
Triple == {MultisigDescriptor(<<OursBranches[0], Theirs[1], OursFixed[2]>>, 2, TRUE)}

Leaves(n) == [i \in 1..n |-> Pk(IF i % 2 = 1 THEN Theirs ELSE OursBranches, i)]
Trees == {TRDescriptor(OursBranches[0], Leaves(Len(depths)), depths) :
             depths \in {<<>>, <<0>>, <<1, 1>>, <<1, 2, 2>>, <<2, 2, 1>>, <<2, 2, 2, 2>>, <<1, 3, 3, 2>>}}

MCImports ==
    {New(f, <<k[0]>>, <<>>) : f \in {"pkh", "wpkh"}, k \in Keys}
        \cup {New(f, <<>>, <<New(g, <<k[0]>>, <<>>)>>) : f \in {"sh"}, g \in {"pk", "pkh", "wpkh"}, k \in {Ours, Theirs}}
        \cup {New("wsh", <<>>, <<New("pkh", <<Ours[0]>>, <<>>)>>)}
        \cup {New("sh", <<>>, <<New("wsh", <<>>, <<d>>)>>) : d \in Triple}
        \cup {New("wsh", <<>>, <<d>>) : d \in Pair(1) \cup Triple}
        \cup {New("sh", <<>>, <<d>>) : d \in Pair(2)}
        \cup Pair(2) \cup Trees

MCForms == {<<"h", TRUE>>, <<"'", FALSE>>}

MCUserPaths ==
    {[wellformed |-> TRUE, path |-> path_to_string(p, "h")] : p \in {<<H_(49), H_(0), H_(1), 1, 3>>, <<4, 5>>, <<H_(44)>>}}
        \cup {[wellformed |-> w, path |-> <<>>] : w \in BOOLEAN}
        \cup {[wellformed |-> TRUE, path |-> multipath_to_string(<<<<H_(0)>>, <<0, 1>>>>, "h")]}

MCEditTokens ==
    {Tok(t) : t \in {")", ",", "{", "wpkh", "sh"}} \cup {NumTok(3)}
        \cup {KeyTok(key_to_string(k[0], "h")) : k \in {Three}}
=============================================================================
