------------------------------- MODULE SignTx -------------------------------
(***************************************************************************)
(* The signtx command: a PSBT is read, handed to the client of a device,   *)
(* and what the client returns is printed.  The printed PSBT may be given  *)
(* to the next device.                                                     *)
(*                                                                         *)
(* The clients differ in what becomes of the PSBT object on the way.  The  *)
(* BitBox02, the Digital Bitbox and the Jade with old firmware take the    *)
(* transaction out of it and file the signatures in it; the Ledger signs a *)
(* copy of version 2 and merges the signatures; the Coldcard and the Jade  *)
(* send the file and read the one that comes back, the Coldcard several    *)
(* times over.  (The Trezor's passes are in TrezorSign.)                   *)
(*                                                                         *)
(* A key of a BIP 32 field is ours when its origin (the value) is Ours, or *)
(* OursAtRoot with an empty path; a taproot derivation has the number of a *)
(* set of leaf hashes before it (10 * leaves + origin; here the set is     *)
(* empty, 0, or has one member).  A signature is named by the input and    *)
(* the key it was made with.  A witness UTXO is named by its value, a      *)
(* previous transaction by its hash, and its output 0 is what is spent.    *)
(***************************************************************************)
EXTENDS Psbt, FiniteSets

CONSTANTS
    Files,         \* the PSBT files a user may give
    Clients,       \* the devices
    KindOf,        \* from values of UTXOs and scripts to the kinds of the scripts
    Batch,         \* sighashes in one message to the Digital Bitbox (15)
    MaxWallets,    \* bound: wallets of a Ledger that sign one transaction
    MaxPolicies,   \* bound: registered descriptors given to signtx
    MaxRounds      \* bound: devices that sign one after another

ASSUME BatchAssumption == Batch \in Nat \ {0}

\* A file has fields of the types in psbt.py, and numbers where psbt.py unpacks one.
FieldTypes == ToSet(InputOrder) \cup ToSet(OutputOrder) \cup V2Globals
              \cup {"tx", "xpub", "version", "unknown", "separator"}
Fields == [t : FieldTypes, k : Nat, v : Int]
Transactions == [version : Int, locktime : Int,
                 vin : Seq([txid : Int, n : Int, sequence : Int]),
                 vout : Seq([amount : Int, script : Int])]
IsFile(f) ==
    /\ f.items \in Seq(Fields) /\ f.tx \in Transactions
    /\ \A n \in DOMAIN f.items :
          f.items[n].t \in {"version", "time_locktime", "height_locktime"} =>
              f.items[n].v \in Nat \cup {Malformed}

ASSUME FilesAssumption == \A f \in Files : IsFile(f)

VARIABLES
    file,      \* the text given to signtx
    stage,     \* where the command is
    client,    \* the kind of device
    edge,      \* Coldcard firmware: signs for all of its keys at once
    psbt,      \* the PSBT object
    copy,      \* the Ledger's copy of it
    left,      \* passes, wallets or policies still to come
    queue,     \* Digital Bitbox: inputs and keys whose sighash is still to be sent
    result,    \* the text printed
    round,     \* how many devices have been asked
    original,  \* history: the transaction the user's file stands for
    shown,     \* history: the transactions devices were asked to sign
    withheld,  \* history: what the Jade was asked for in its last pass and did not sign
    made       \* history: the signatures devices made

vars == <<file, stage, client, edge, psbt, copy, left, queue, result, round, original, shown, withheld, made>>

Ours == 1
OursAtRoot == 3
OurOrigins == {Ours, OursAtRoot}
Sig(i, k) == 10 * i + k
Ended == {"unreadable", "refused", "printed"}

\* Keys of the device in a map, in the order of the dictionary, and those without signature.
IfOurs(keys, f) == IF f.t = "bip32" /\ f.v \in OurOrigins THEN Append(keys, f) ELSE keys
OurKeys(map) == Folded(IfOurs, << >>, map)
SignedKeys(map) == {map[n].k : n \in {m \in DOMAIN map : map[m].t = "partial_sig"}}
Unsigned(map) == {f.k : f \in {g \in ToSet(OurKeys(map)) : g.k \notin SignedKeys(map)}}
HasUtxo(map) == Has(map, "witness_utxo") \/ Has(map, "non_witness_utxo")

\* Taproot derivations of ours, with their leaf hashes.
OurTapKeys(map) == {n \in DOMAIN map : map[n].t = "tap_bip32" /\ map[n].v % 10 \in OurOrigins}
LeafHashes(f) == f.v \div 10
IsTaproot(map) == Has(map, "tap_internal_key")

\* The script that the UTXO pays to, the previous transaction going first, and the one
\* that a script hash stands for.
kind_of(v) == IF v \in DOMAIN KindOf THEN KindOf[v] ELSE "other"
scriptPubKey(map) ==
    kind_of(ValueOf(map, IF Has(map, "non_witness_utxo") THEN "non_witness_utxo" ELSE "witness_utxo"))
scriptcode(map) ==
    IF scriptPubKey(map) = "p2sh" THEN kind_of(ValueOf(map, "redeem_script")) ELSE scriptPubKey(map)
is_witness(kind) == kind \in {"p2wpkh", "p2wsh", "p2tr", "witness"}

\* The PSBT with signatures for a set of inputs and keys.
AddSignatures(p, pairs) ==
    [p EXCEPT !.inputs = [i \in DOMAIN @ |->
        Folded(Put, @[i], SetToSeq({Field("partial_sig", x[2], Sig(i, x[2])) :
                                        x \in {y \in pairs : y[1] = i}}))]]

-----------------------------------------------------------------------------
(* BIP 370: the lock time of a version 2 PSBT, independently of the code.  *)

Largest(S) == CHOOSE n \in S : \A m \in S : m <= n

ReferenceLockTime(p) ==
    LET inputs == ToSet(p.inputs)
        demanding == {m \in inputs : Has(m, "time_locktime") \/ Has(m, "height_locktime")}
        all(t) == \A m \in demanding : Has(m, t)
        most(t) == Largest({ValueOf(m, t) : m \in demanding})
    IN IF demanding = {} THEN (IF Has(p.fields, "fallback") THEN ValueOf(p.fields, "fallback") ELSE 0)
       ELSE IF all("height_locktime") THEN most("height_locktime")
       ELSE IF all("time_locktime") THEN most("time_locktime")
       ELSE None

ReferenceTx(p) == IF p.version = 0 THEN p.tx ELSE AssembledTx(p, ReferenceLockTime(p))

\* A device can make out a transaction in a PSBT that it is sent.
Legible(text) ==
    LET r == deserialize(text)
    IN r.stage = "done" /\ (r.psbt.version >= 2 => ReferenceLockTime(r.psbt) # None)

-----------------------------------------------------------------------------
Init ==
    /\ file \in Files
    /\ stage = "start"
    /\ client \in Clients
    /\ edge \in BOOLEAN /\ (edge => client = "coldcard")
    /\ psbt = Reader(NoTx).psbt
    /\ copy = Reader(NoTx).psbt
    /\ left = 0
    /\ queue = << >>
    /\ result = file
    /\ round = 1
    /\ original = NoTx
    /\ shown = {}
    /\ withheld = {}
    /\ made = {}

\* signtx: the file is read; the policies registered with the device go with it.
ReadFile ==
    /\ stage = "start"
    /\ \E r \in {deserialize(file)} :
          IF r.stage = "raised"
          THEN stage' = "unreadable" /\ UNCHANGED <<psbt, original>>
          ELSE /\ stage' = "client"
               /\ psbt' = r.psbt
               /\ original' = IF round = 1 THEN ReferenceTx(r.psbt) ELSE original
    /\ UNCHANGED <<file, client, edge, copy, left, queue, result, round, shown, withheld, made>>

\* A client raises: the command reports an error and prints no PSBT.
Refuse ==
    /\ stage' = "refused"
    /\ UNCHANGED <<file, client, edge, psbt, copy, left, queue, result, round, original, shown, withheld, made>>

\* The device, or its user, says no.
DeviceRefuses ==
    /\ stage \in {"batches", "jade", "wallets", "passes", "policies", "unnamed"}
    /\ Refuse

-----------------------------------------------------------------------------
(* BitBox02: one signature per input, for the first key that is ours.      *)

\* find_our_key, the keys of the BIP 32 fields before those of taproot.
find_our_key(map) ==
    IF OurKeys(map) # << >> THEN OurKeys(map)[1]
    ELSE map[CHOOSE n \in OurTapKeys(map) : \A m \in OurTapKeys(map) : n <= m]

\* Taproot script paths are not supported; in outputs neither.
ScriptPath(map) == IsTaproot(map) /\ \E n \in DOMAIN map : map[n].t = "tap_bip32" /\ LeafHashes(map[n]) # 0

\* script_config_from_utxo, without a registered policy.
HasScriptConfig(map) ==
    \/ scriptPubKey(map) \in {"p2wpkh", "p2tr"}
    \/ scriptPubKey(map) = "p2sh" /\ scriptcode(map) = "p2wpkh"
    \/ scriptcode(map) = "p2wsh" /\ kind_of(ValueOf(map, "witness_script")) = "multisig"

\* The path of a key of ours names an account, the same for all, but for the empty one.
RefusesInput(map, policy) ==
    \/ ~Has(map, "sequence")
    \/ ValueOf(map, "sighash") \notin {None, 0, 1}
    \/ ~HasUtxo(map) \/ ScriptPath(map)
    \/ OurKeys(map) = << >> /\ (IsTaproot(map) => OurTapKeys(map) = {})
    \/ find_our_key(map).v = OursAtRoot
    \/ ~policy /\ ~HasScriptConfig(map)

\* No output is change.
RefusesOutput(map) ==
    \/ ~Has(map, "script") \/ ScriptPath(map)
    \/ kind_of(ValueOf(map, "script")) \notin {"p2pkh", "p2wpkh", "p2sh", "p2wsh", "p2tr"}

BitBox02Refuses(p, policy) ==
    \/ \E i \in DOMAIN p.inputs : RefusesInput(p.inputs[i], policy)
    \/ \E i \in DOMAIN p.outputs : RefusesOutput(p.outputs[i])
    \/ p.inputs = << >>
    \/ compute_lock_time(p) = None

\* The signature of an input, under the key that was found or for its taproot key.
BitBox02Signature(i, map) ==
    LET k == find_our_key(map).k
    IN IF IsTaproot(map) THEN Field("tap_key_sig", NoKey, Sig(i, k)) ELSE Field("partial_sig", k, Sig(i, k))

\* With a registered descriptor the script of an input is not looked at.
BitBox02Sign ==
    LET tx == AssembledTx(psbt, compute_lock_time(psbt))
        pairs == {<<i, find_our_key(psbt.inputs[i]).k>> :
                    i \in {j \in DOMAIN psbt.inputs : ~IsTaproot(psbt.inputs[j])}}
    IN \E policy \in BOOLEAN :
       /\ stage = "client" /\ client = "bitbox02"
       /\ IF BitBox02Refuses(psbt, policy)
          THEN Refuse
          ELSE /\ psbt' = [psbt EXCEPT !.inputs = [i \in DOMAIN @ |-> Put(@[i], BitBox02Signature(i, @[i]))]]
               /\ shown' = shown \cup {tx}
               /\ made' = made \cup pairs
               /\ stage' = "returned"
               /\ UNCHANGED <<file, client, edge, copy, left, queue, result, round, original, withheld>>

-----------------------------------------------------------------------------
(* Digital Bitbox: the sighashes for all keys that are ours, signed or     *)
(* not, in batches; the signatures are matched to them by position.        *)

\* Inputs that are passed over: without a UTXO or without the script that is hashed, or
\* of no known kind.
PassedOver(map) ==
    \/ ~HasUtxo(map)
    \/ scriptPubKey(map) = "p2sh" /\ ~Has(map, "redeem_script")
    \/ scriptcode(map) = "p2wsh" /\ ~Has(map, "witness_script")
    \/ ~is_witness(scriptcode(map)) /\ scriptPubKey(map) \notin {"p2sh", "p2pkh", "p2pk"}

\* What is asserted of the amount that a witness signature covers.
AmountKnown(map) == ~PassedOver(map) /\ is_witness(scriptcode(map)) => Has(map, "witness_utxo")

SighashesOf(i, map) ==
    IF PassedOver(map) THEN << >>
    ELSE [n \in DOMAIN OurKeys(map) |-> <<i, OurKeys(map)[n].k>>]

\* Registered descriptors are refused.
DigitalBitboxStart ==
    /\ stage = "client" /\ client = "digitalbitbox"
    /\ \E registered \in BOOLEAN :
       IF registered \/ ~Assembles(psbt) \/ \E i \in DOMAIN psbt.inputs : ~AmountKnown(psbt.inputs[i])
       THEN Refuse
       ELSE /\ queue' = FlattenSeq([i \in DOMAIN psbt.inputs |-> SighashesOf(i, psbt.inputs[i])])
            /\ stage' = IF queue' = << >> THEN "returned" ELSE "batches"
            /\ UNCHANGED <<file, client, edge, psbt, copy, left, result, round, original, shown, withheld, made>>

Behind(s) == SubSeq(s, Batch + 1, Len(s))

DigitalBitboxBatch ==
    LET batch == SubSeq(queue, 1, IF Len(queue) < Batch THEN Len(queue) ELSE Batch)
    IN /\ stage = "batches"
       /\ psbt' = AddSignatures(psbt, ToSet(batch))
       /\ made' = made \cup ToSet(batch)
       /\ shown' = shown \cup {get_unsigned_tx(psbt)}
       /\ queue' = Behind(queue)
       /\ stage' = IF queue' = << >> THEN "returned" ELSE "batches"
       /\ UNCHANGED <<file, client, edge, copy, left, result, round, original, withheld>>

-----------------------------------------------------------------------------
(* Jade with old firmware: passes until no input has a further key of ours *)
(* that has not signed.  An input for which a pass has no key gets none.   *)

\* Keys of ours that have a path and have not signed.
Waiting(map) == {k \in Unsigned(map) : Field("bip32", k, Ours) \in ToSet(map)}

FirstWaiting(map) ==
    OurKeys(map)[CHOOSE n \in DOMAIN OurKeys(map) :
        /\ OurKeys(map)[n].k \in Waiting(map)
        /\ \A m \in 1..(n - 1) : OurKeys(map)[m].k \notin Waiting(map)].k

need_to_sign_AnyKey(p) == \E i \in DOMAIN p.inputs : Len(OurKeys(p.inputs[i])) > 1
need_to_sign(p) == \E i \in DOMAIN p.inputs : Cardinality(Waiting(p.inputs[i])) > 1

\* Inputs of another witness version are left out of those that go to the device.
SentInputs(p) ==
    {i \in DOMAIN p.inputs : is_witness(scriptcode(p.inputs[i])) => scriptcode(p.inputs[i]) \in {"p2wsh", "p2wpkh"}}

JadeStart ==
    /\ stage = "client" /\ client = "jade_legacy"
    /\ IF Assembles(psbt) /\ \A i \in DOMAIN psbt.inputs : HasUtxo(psbt.inputs[i])
       THEN /\ stage' = "jade"
            /\ UNCHANGED <<file, client, edge, psbt, copy, left, queue, result, round, original, shown, withheld, made>>
       ELSE Refuse

\* The device refuses inputs that are not as many as those of the transaction.  An empty
\* signature, for a key that it was asked for (withheld) or an input without one, is not
\* filed; the next pass asks again, whatever came of this one.
JadePass ==
    LET pairs == {<<i, FirstWaiting(psbt.inputs[i])>> :
                    i \in {j \in DOMAIN psbt.inputs : Waiting(psbt.inputs[j]) # {}}}
    IN /\ stage = "jade"
       /\ IF SentInputs(psbt) # DOMAIN psbt.inputs
          THEN Refuse
          ELSE \E given \in SUBSET pairs :
                /\ psbt' = AddSignatures(psbt, given)
                /\ made' = made \cup given
                /\ withheld' = pairs \ given
                /\ shown' = shown \cup {get_unsigned_tx(psbt)}
                /\ stage' = IF need_to_sign(psbt) THEN "jade" ELSE "returned"
                /\ UNCHANGED <<file, client, edge, copy, left, queue, result, round, original>>

-----------------------------------------------------------------------------
(* Ledger: a copy of version 2 is signed, once per wallet.                 *)

LedgerCopy ==
    /\ stage = "client" /\ client = "ledger"
    /\ copy' = IF psbt.version # 2 THEN convert_to_v2(psbt) ELSE psbt
    /\ left' \in 0..MaxWallets
    /\ stage' = "wallets"
    /\ UNCHANGED <<file, client, edge, psbt, queue, result, round, original, shown, withheld, made>>

\* The device takes the transaction out of the maps of the copy, as BIP 370 has it.
LedgerWallet ==
    /\ stage = "wallets" /\ left > 0
    /\ IF ~Packs(copy) \/ ~Legible(serialize(copy))
       THEN Refuse
       ELSE LET seen == deserialize(serialize(copy)).psbt
            IN /\ \E S \in SUBSET (DOMAIN seen.inputs) :
                    LET pairs == UNION {{<<i, k>> : k \in Unsigned(seen.inputs[i])} : i \in S}
                    IN copy' = AddSignatures(copy, pairs) /\ made' = made \cup pairs
               /\ shown' = shown \cup {ReferenceTx(seen)}
               /\ left' = left - 1
               /\ UNCHANGED <<file, stage, client, edge, psbt, queue, result, round, original, withheld>>

Merged_LastOnly(map, other) ==
    IF SignedKeys(other) = {} THEN map ELSE Put(map, Last(SelectSeq(other, LAMBDA f : f.t = "partial_sig")))
PutSignature(map, f) == IF f.t = "partial_sig" THEN Put(map, f) ELSE map
Merged(map, other) == Folded(PutSignature, map, other)

LedgerMerge ==
    /\ stage = "wallets" /\ left = 0
    /\ psbt' = [psbt EXCEPT !.inputs = [i \in DOMAIN @ |-> Merged(@[i], copy.inputs[i])]]
    /\ stage' = "returned"
    /\ UNCHANGED <<file, client, edge, copy, left, queue, result, round, original, shown, withheld, made>>

-----------------------------------------------------------------------------
(* Coldcard and Jade: the file goes to the device and another comes back.  *)

\* An edge device signs with all its keys, another with one key per input.
DeviceChoice(p) ==
    LET open == {i \in DOMAIN p.inputs : Unsigned(p.inputs[i]) # {} /\ ~Final(p.inputs[i])}
        all == UNION {{<<i, k>> : k \in Unsigned(p.inputs[i])} : i \in open}
    IN IF edge \/ client = "jade" THEN {all}
       ELSE {{<<i, f[i]>> : i \in open} :
               f \in {g \in [open -> {x[2] : x \in all}] : \A i \in open : g[i] \in Unsigned(p.inputs[i])}}

\* _sign_tx_once: the PSBT is written, the device reads it, signs for the inputs it
\* picks, writes it, and the answer is read into a new object.
SignOnce(covered, next) ==
    IF ~Packs(psbt) \/ ~Legible(serialize(psbt))
    THEN Refuse
    ELSE \E seen \in {deserialize(serialize(psbt)).psbt} :
         \E pairs \in DeviceChoice(seen) :
           LET added == {x \in pairs : x[1] \in covered}
           IN \E answer \in {deserialize(serialize(AddSignatures(seen, added)))} :
                 /\ psbt' = answer.psbt
                 /\ made' = made \cup added
                 /\ shown' = shown \cup {ReferenceTx(seen)}
                 /\ left' = IF left = 0 THEN 0 ELSE left - 1
                 /\ stage' = IF answer.stage = "raised" THEN "refused" ELSE next
                 /\ UNCHANGED <<file, client, edge, copy, queue, result, round, original, withheld>>

\* The passes that _sign_without_policy_names makes.
passes_FirstInput(p) == Larger(1, Cardinality(Unsigned(p.inputs[1])))
passes(p) == IF edge THEN 1
             ELSE Largest({1} \cup {Cardinality(Unsigned(p.inputs[i])) : i \in DOMAIN p.inputs})

ColdcardStart ==
    /\ stage = "client" /\ client = "coldcard"
    /\ \E supported \in IF edge THEN {TRUE} ELSE BOOLEAN, policies \in 0..MaxPolicies :
         LET p == IF psbt.version = 2 /\ ~supported THEN convert_to_v0(psbt) ELSE psbt
         IN IF psbt.version = 2 /\ ~supported /\ ~Assembles(psbt)
            THEN Refuse
            ELSE /\ psbt' = p
                 /\ stage' = IF edge /\ policies > 0 THEN "policies" ELSE "passes"
                 /\ left' = IF edge /\ policies > 0 THEN policies ELSE passes(p)
                 /\ UNCHANGED <<file, client, edge, copy, queue, result, round, original, shown, withheld, made>>

ColdcardPass ==
    /\ stage = "passes"
    /\ SignOnce(DOMAIN psbt.inputs, IF left > 1 THEN "passes" ELSE "returned")

\* A named policy covers the inputs that match it.
ColdcardPolicy ==
    /\ stage = "policies"
    /\ \E covered \in SUBSET (DOMAIN psbt.inputs) :
         SignOnce(covered, IF left > 1 THEN "policies" ELSE "unnamed")

has_fingerprint(map) == OurKeys(map) # << >> \/ OurTapKeys(map) # {}
has_signature(map) ==
    \/ \E n \in DOMAIN OurKeys(map) : OurKeys(map)[n].k \in SignedKeys(map)
    \/ \E n \in OurTapKeys(map) :
          IF LeafHashes(map[n]) = 0 THEN Has(map, "tap_key_sig")
          ELSE \E m \in DOMAIN map :
                  map[m].t = "tap_script_sig" /\ map[m].k = 10 * map[n].k + LeafHashes(map[n])

\* The unnamed request for the inputs that no policy covered.
ColdcardUnnamed ==
    /\ stage = "unnamed"
    /\ IF \E i \in DOMAIN psbt.inputs :
            has_fingerprint(psbt.inputs[i]) /\ ~has_signature(psbt.inputs[i])
       THEN SignOnce(DOMAIN psbt.inputs, "returned")
       ELSE /\ stage' = "returned"
            /\ UNCHANGED <<file, client, edge, psbt, copy, left, queue, result, round, original, shown, withheld, made>>

JadeSign ==
    /\ stage = "client" /\ client = "jade"
    /\ SignOnce(DOMAIN psbt.inputs, "returned")

-----------------------------------------------------------------------------
\* signtx: what the client returned is printed.
PrintResult ==
    /\ stage = "returned"
    /\ result' = serialize(psbt)
    /\ stage' = "printed"
    /\ UNCHANGED <<file, client, edge, psbt, copy, left, queue, round, original, shown, withheld, made>>

\* Texts are compared, which may also differ in the order of a set.
signed == result # file

\* The user gives the result to another device.
NextDevice ==
    /\ stage = "printed" /\ round < MaxRounds
    /\ file' = result
    /\ client' \in Clients
    /\ edge' \in BOOLEAN /\ (edge' => client' = "coldcard")
    /\ round' = round + 1
    /\ stage' = "start"
    /\ left' = 0
    /\ withheld' = {}
    /\ UNCHANGED <<psbt, copy, queue, result, original, shown, made>>

Finished ==
    /\ stage \in Ended
    /\ stage = "printed" => round = MaxRounds
    /\ UNCHANGED vars

Client ==
    \/ BitBox02Sign
    \/ DigitalBitboxStart \/ DigitalBitboxBatch
    \/ JadeStart \/ JadePass \/ JadeSign
    \/ LedgerCopy \/ LedgerWallet \/ LedgerMerge
    \/ ColdcardStart \/ ColdcardPass \/ ColdcardPolicy \/ ColdcardUnnamed

Next == ReadFile \/ Client \/ DeviceRefuses \/ PrintResult \/ NextDevice \/ Finished

Spec == Init /\ [][Next]_vars

-----------------------------------------------------------------------------
(* Properties.                                                             *)

\* Whatever form the PSBT takes on the way to a device (the transaction taken out of it,
\* a copy of version 2, a conversion to version 0, a file that went through another
\* device before), the device is asked to sign the transaction that the user's file
\* stands for by BIP 174 and BIP 370.
DeviceSignsTransaction == \A tx \in shown : tx = original

\* What signtx prints, signtx reads, and it says the same when it is written and read
\* again: no field is written that the reader of that version refuses, and none gets
\* lost.  (The text itself is not the same every time: sets of leaf hashes and of control
\* blocks are written in an order that Python chooses.)
ResultStable ==
    stage = "printed" =>
        LET r == deserialize(result)
            again == deserialize(serialize(r.psbt))
        IN /\ r.stage = "done" /\ again.stage = "done"
           /\ Content(again.psbt) = Content(r.psbt)

\* Every signature that was in the file or made by a device for an input that is not
\* final is in what is printed, under the key it was made with, after any number of
\* passes, wallets and devices.
SignaturesCarried ==
    stage = "printed" =>
        LET before == deserialize(file).psbt
            after == deserialize(result).psbt
        IN \A i \in DOMAIN after.inputs : ~Final(after.inputs[i]) =>
             /\ SignedKeys(before.inputs[i]) \subseteq SignedKeys(after.inputs[i])
             /\ \A x \in made : x[1] = i =>
                  Field("partial_sig", x[2], Sig(i, x[2])) \in ToSet(after.inputs[i])

\* When a client that makes several requests returns, no key of ours is left without a
\* signature on an input that is not final and whose UTXO is known: the number of passes
\* of the Coldcard, the loop of the Jade and the batches of the Digital Bitbox suffice.
\* The Digital Bitbox's client passes over some inputs, that of the Jade over keys without
\* a path and those that the device did not sign with when it was last asked.  With named
\* policies every input that has a BIP 32 key of ours has a signature of ours.
AllOurKeysSigned ==
    stage = "returned" =>
        \A i \in DOMAIN psbt.inputs :
            LET map == psbt.inputs[i]
            IN HasUtxo(map) /\ ~Final(map) =>
                 /\ client = "jade" => Unsigned(map) = {}
                 /\ client = "jade_legacy" => \A k \in Waiting(map) : <<i, k>> \in withheld
                 /\ client = "digitalbitbox" /\ ~PassedOver(map) => Unsigned(map) = {}
                 /\ client = "coldcard" /\ ~edge => Unsigned(map) = {}
                 /\ client = "coldcard" /\ OurKeys(map) # << >> => has_signature(map)

\* Every loop over passes, batches, wallets or policies comes closer to its end with
\* every round.  So does the loop of the Jade, which counts nothing: it goes on only while
\* a key of ours that it would ask for has not signed, and with one key less, but for a
\* round in which the device gives none of the signatures that it is asked for.  Such
\* rounds may go on for ever.
Work == Len(queue) + left
        + Cardinality(UNION {{<<i, k>> : k \in Unsigned(psbt.inputs[i])} : i \in DOMAIN psbt.inputs})
LoopsProgress ==
    [][stage = stage' /\ stage \in {"batches", "jade", "wallets", "passes", "policies"}
         => /\ \/ Work' < Work
               \/ stage = "jade" /\ made' = made /\ withheld' # {}
            /\ stage = "jade" => \E i \in DOMAIN psbt'.inputs : Waiting(psbt'.inputs[i]) # {}]_vars

Signatures(map) == {f \in ToSet(map) : f.t \in {"partial_sig", "tap_key_sig", "tap_script_sig"}}

\* "signed" is reported only when the device added a signature to the PSBT.
SignedMeansSigned ==
    stage = "printed" /\ signed =>
        LET before == deserialize(file).psbt
            after == deserialize(result).psbt
        IN \E i \in DOMAIN after.inputs :
             Signatures(after.inputs[i]) # Signatures(before.inputs[i])
=============================================================================
