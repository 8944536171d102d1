---------------------------- MODULE MCTrezorSign ----------------------------
(***************************************************************************)
(* TrezorSign on PSBTs of two inputs.  The shapes are the script types the *)
(* preparation loop tells apart, with the key lists that make passes and   *)
(* inputs differ: none of ours, one, two, with a cosigner between them.    *)
(***************************************************************************)
EXTENDS TrezorSign

Plain(spk, hd) == [utxo |-> "ok", spk |-> spk, redeem |-> "none",
                   witness |-> "none", hd |-> hd, tap |-> "none"]
P2sh(redeem, hd) == [Plain("p2sh", hd) EXCEPT !.redeem = redeem]
P2wsh(witness, hd) == [Plain("p2wsh", hd) EXCEPT !.witness = witness]
Taproot(owner) == [Plain("p2tr", << >>) EXCEPT !.tap = owner]

CompleteShapes ==
    {Plain("p2wpkh", <<"k1">>), Plain("p2pkh", <<"f1">>),
     P2sh("multisig", <<"k1", "f1", "k2">>), P2wsh("multisig", <<"k2", "k1">>),
     Taproot("ours"), Taproot("foreign"),
     Plain("multisig", <<"k1">>), P2wsh("other", <<"k1">>), Plain("other", << >>)}

\* Inputs from whose PSBT record something is missing or wrong.
IncompleteShapes ==
    {[Plain("p2wpkh", <<"k1">>) EXCEPT !.utxo = "none"],
     [Plain("p2pkh", <<"k2">>) EXCEPT !.utxo = "wronghash"],
     P2sh("none", <<"k1">>), P2wsh("none", <<"k1", "k2">>),
     [Taproot("ours") EXCEPT !.hd = <<"k2">>]}

AllShapes == CompleteShapes \cup IncompleteShapes
SkippedShapes == {s \in AllShapes : ~Schnorr(s) \/ s.hd = << >>}
=============================================================================
