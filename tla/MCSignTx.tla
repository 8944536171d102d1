------------------------------ MODULE MCSignTx ------------------------------
EXTENDS SignTx

F(t, v) == Field(t, NoKey, v)
S == <<Separator>>

\* Values of UTXOs and scripts (1 to 4, 7, 8) and hashes of previous transactions (5, 6).
MCKindOf == 1 :> "p2wpkh" @@ 2 :> "p2wsh" @@ 3 :> "p2sh" @@ 4 :> "p2tr" @@ 5 :> "p2wpkh"
            @@ 6 :> "p2pkh" @@ 7 :> "multisig" @@ 8 :> "p2wpkh"

\* Two inputs, two of our keys (1, 2) and a foreign one (3), out of the writer's order.
Ready    == <<F("witness_utxo", 1)>>
Keys     == {<< >>, <<Field("bip32", 2, Ours), Field("bip32", 1, Ours)>>,
             <<Field("bip32", 3, 2), Field("bip32", 1, Ours), Field("partial_sig", 3, 93)>>,
             <<Field("bip32", 1, Ours), Field("bip32", 2, Ours), Field("partial_sig", 1, Sig(1, 1))>>}
Extras   == {<< >>, <<F("final_script_sig", 7)>>, <<F("non_witness_utxo", 5)>>}
Inputs   == {Ready \o k \o e : k \in Keys, e \in Extras}
Second   == {Ready \o <<Field("bip32", 1, Ours), Field("bip32", 2, Ours)>>, <<Field("unknown", 9, 0)>>}

\* Every kind of script, with and without the script that it stands for, known from the
\* output or from the whole previous transaction.
Spent == {<<F("witness_utxo", v)>> : v \in {1, 2, 3, 9}}
         \cup {<<F("witness_utxo", 3), F("redeem_script", v)>> : v \in {1, 2, 9}}
         \cup {<<F("witness_utxo", 2), F("witness_script", 7)>>, <<F("non_witness_utxo", 5)>>,
               <<F("witness_utxo", 3), F("redeem_script", 2), F("witness_script", 7)>>}
OneKey   == {<<Field("bip32", 1, Ours)>>, <<Field("bip32", 1, OursAtRoot)>>}

\* Taproot: one key of ours, with and without leaf hashes, and two control blocks of a script.
Taproot(leaves) ==
    <<F("witness_utxo", 4), Field("tap_leaf_script", 6, 3), Field("tap_leaf_script", 5, 3),
      Field("tap_bip32", 1, Ours + 10 * leaves), F("tap_internal_key", 2)>>

Outpoint(i) == <<F("prev_txid", 4 + i), F("prev_out", 0)>>
Locks == {<< >>, <<F("height_locktime", 2)>>, <<F("time_locktime", Threshold + 1)>>,
          <<F("height_locktime", 1), F("time_locktime", Threshold + 2)>>}

Tx(version, vin, lock) ==
    [version |-> version, locktime |-> lock,
     vin |-> [i \in 1..vin |-> [txid |-> 4 + i, n |-> 0, sequence |-> 3]],
     vout |-> <<[amount |-> 6, script |-> 8]>>]

V0(blanks, version, ins, globals) ==
    [blanks |-> blanks, tx |-> Tx(version, Len(ins), 9),
     items |-> <<F("tx", 0)>> \o globals \o S
               \o FlattenSeq([i \in DOMAIN ins |-> ins[i] \o S]) \o S]

V2(version, ins, globals) ==
    [blanks |-> FALSE, tx |-> NoTx,
     items |-> <<F("version", 2), F("tx_version", version), F("input_count", Len(ins)),
                 F("output_count", 1)>> \o globals \o S
               \o FlattenSeq([i \in DOMAIN ins |-> Outpoint(i) \o ins[i] \o S])
               \o <<F("amount", 6), F("script", 8)>> \o S]

Cut(text, n) == [text EXCEPT !.items = SubSeq(@, 1, n)]

\* The file ends inside the value of the n-th item, of which v is left.
CutInside(text, n, v) == [text EXCEPT !.items = Append(SubSeq(@, 1, n - 1), [@[n] EXCEPT !.v = v])]

Sequence == <<F("sequence", 3)>>
Signable == Ready \o <<Field("bip32", 1, Ours)>>

MCFiles ==
    \* every first input beside every second one
    {V0(FALSE, 2, <<a, b>>, << >>) : a \in Inputs, b \in Second}
    \cup {V2(2, <<a \o Sequence, b>>, << >>) : a \in Inputs, b \in Second}
    \* kinds of scripts
    \cup {V2(2, <<a \o k \o Sequence>>, << >>) : a \in Spent, k \in OneKey}
    \cup {V0(FALSE, 2, <<Signable, <<F("non_witness_utxo", 6), Field("bip32", 1, Ours)>>>>, << >>)}
    \cup {V2(2, <<Signable \o Sequence, Taproot(leaves) \o Sequence>>, << >>) : leaves \in {0, 1}}
    \* lock times
    \cup {V2(2, <<Signable \o a \o Sequence, Signable \o b \o Sequence>>, g) :
            a \in Locks, b \in Locks, g \in {<< >>, <<F("fallback", 1)>>}}
    \* blanks, an explicit version, and versions of the transaction at the sign bit
    \cup {V0(b, v, <<Signable>>, g) :
            b \in BOOLEAN, v \in {2, -3}, g \in {<< >>, <<F("version", 0)>>, <<F("version", 1)>>}}
    \cup {V2(v, <<Signable>>, g) : v \in {2, SignedLimit}, g \in {<< >>, <<F("tx", 0)>>}}
    \* files that end early, also inside a value, a field that is there twice, the wrong
    \* previous transaction
    \cup {Cut(V0(FALSE, 2, <<Signable>>, << >>), n) : n \in 1..6}
    \cup {CutInside(V2(2, <<Signable \o Sequence>>, << >>), 13, v) : v \in {0, 1}}
    \cup {Cut(V2(2, <<Signable>>, << >>), n) : n \in 4..12}
    \cup {V0(FALSE, 2, <<Signable \o Signable>>, << >>), V2(2, <<Sequence \o Sequence>>, << >>),
          V0(FALSE, 2, <<<<F("non_witness_utxo", 6)>>>>, << >>)}
=============================================================================
