----------------------------- MODULE TrezorSign -----------------------------
(***************************************************************************)
(* TrezorClient.sign_tx: how HWI turns the inputs of a PSBT into the list  *)
(* of inputs a Trezor (or KeepKey) is asked to sign, and how the list of   *)
(* signatures that comes back is written into the PSBT.                    *)
(*                                                                         *)
(* The device makes one signature for each input it is given, so an input  *)
(* with several of our keys (a multisig we take part in more than once)    *)
(* needs several passes over the whole transaction.  The device drives the *)
(* exchange of one pass itself (trezorlib.btc.sign_tx): it asks for pieces *)
(* of the transaction and hands out signatures by index, in any order.     *)
(*                                                                         *)
(* A signature is abstracted to the PSBT input whose prevout was signed,   *)
(* and the key that signed.                                                *)
(***************************************************************************)
EXTENDS Naturals, Sequences, FiniteSets

CONSTANTS
    NumInputs,  \* number of inputs of the PSBT
    Keys,       \* public keys that may stand in hd_keypaths
    OurKeys,    \* the keys whose origin has the device's master fingerprint
    Shapes,     \* the PSBT inputs considered, a set of input records
    OutSpks     \* kinds of scriptPubKey of the PSBT's outputs

InputShape ==
    [utxo : {"none", "wronghash", "ok"},
     spk : {"p2pkh", "p2wpkh", "p2tr", "p2sh", "p2wsh", "multisig", "other"},
     redeem : {"none", "p2pkh", "p2wpkh", "p2wsh", "multisig", "other"},
     witness : {"none", "multisig", "other"},
     hd : Seq(Keys),                      \* hd_keypaths, in dictionary order
     tap : {"none", "ours", "foreign"}]   \* whose key tap_internal_key is

ASSUME NumInputsAssumption == NumInputs \in Nat
ASSUME KeysAssumption == OurKeys \subseteq Keys
ASSUME ShapesAssumption == Shapes \subseteq InputShape
ASSUME DistinctKeysAssumption ==
    \A s \in Shapes : \A m, n \in DOMAIN s.hd : s.hd[m] = s.hd[n] => m = n

VARIABLES
    pc,           \* "idle", "prepare", "outputs", "sign", "record", "done" or "failed"
    psbt,         \* the static fields of the PSBT's inputs
    out_spk,      \* the scriptPubKey kinds of the PSBT's outputs
    external,     \* _supports_external() of the connected device
    partial_sigs, \* partial_sigs of each input, NoSig where there is none
    tap_key_sig,  \* tap_key_sig of each input
    passes, p,    \* the loop bounds of sign_tx
    cursor,       \* the input the preparation loop is at
    inputs,       \* the inputs prepared for the device in this pass
    to_ignore,    \* the PSBT inputs whose signature is dropped in this pass
    signatures    \* the signatures the device has delivered in this pass

psbtVars == <<psbt, out_spk, external>>
sigVars  == <<partial_sigs, tap_key_sig>>
passVars == <<passes, p>>
vars == <<pc, psbt, out_spk, external, partial_sigs, tap_key_sig, passes, p,
          cursor, inputs, to_ignore, signatures>>

PsbtInputs == 1..NumInputs
InternalKey == "internal"     \* stands for the input's tap_internal_key
DummyKey    == "dummy"        \* m/84h/coinh/0h/0/0, the path of an ignored input
NoSig       == [in |-> 0, key |-> "none"]
Sig(i, k)   == [in |-> i, key |-> k]
SigKeys     == Keys \cup {InternalKey, DummyKey}
Sigs        == [in : PsbtInputs, key : SigKeys]

-----------------------------------------------------------------------------
(* What the preparation loop finds out about one input.                    *)

\* The script that is executed after a P2SH scriptPubKey was resolved.
ScriptCode(in) == IF in.spk = "p2sh" THEN in.redeem ELSE in.spk

\* The three `continue`s that leave an input out because a UTXO or a script is missing.
Skipped(in) ==
    \/ in.utxo = "none"
    \/ in.spk = "p2sh" /\ in.redeem = "none"
    \/ ScriptCode(in) = "p2wsh" /\ in.witness = "none"

IsWitness(in) == ScriptCode(in) \in {"p2wpkh", "p2wsh", "p2tr"}

\* parse_multisig on the innermost script.
IsMultisig(in) ==
    "multisig" = (IF ScriptCode(in) = "p2wsh" THEN in.witness ELSE ScriptCode(in))

\* Bare multisig, unknown scriptPubKeys and unknown witness scripts.
Unsignable(in) ==
    \/ IsMultisig(in) /\ ~IsWitness(in) /\ in.spk # "p2sh"
    \/ ~IsMultisig(in) /\ ~IsWitness(in) /\ ScriptCode(in) # "p2pkh"
    \/ ~IsMultisig(in) /\ ScriptCode(in) = "p2wsh"

Schnorr(in) == ScriptCode(in) = "p2tr"

HdKeys(in) == {in.hd[n] : n \in DOMAIN in.hd}

\* Positions in hd_keypaths of our keys, and of those that have no signature yet.
OurPositions(in) == {n \in DOMAIN in.hd : in.hd[n] \in OurKeys}
UnsignedPositions_SignedToo(i) == OurPositions(psbt[i])
UnsignedPositions(i) ==
    {n \in OurPositions(psbt[i]) : partial_sigs[i][psbt[i].hd[n]] = NoSig}

FirstUnsigned(i) ==
    psbt[i].hd[CHOOSE n \in UnsignedPositions(i) :
                   \A m \in UnsignedPositions(i) : n <= m]
LastOurs(i) ==
    psbt[i].hd[CHOOSE n \in OurPositions(psbt[i]) :
                   \A m \in OurPositions(psbt[i]) : m <= n]

Found(i) == IF Schnorr(psbt[i]) THEN psbt[i].tap = "ours"
                                ELSE UnsignedPositions(i) # {}

FoundInSigs(i) ==
    IF Schnorr(psbt[i]) THEN tap_key_sig[i] # NoSig
                        ELSE OurPositions(psbt[i]) # UnsignedPositions(i)

PathLastOurs(i) == IF Schnorr(psbt[i]) THEN psbt[i].tap = "ours"
                                       ELSE OurPositions(psbt[i]) # {}

OurKeyCount_SignedToo(i) ==
    IF Schnorr(psbt[i]) THEN (IF psbt[i].tap = "ours" THEN 1 ELSE 0)
                        ELSE Cardinality(OurPositions(psbt[i]))
OurKeyCount(i) ==
    IF Schnorr(psbt[i]) THEN (IF psbt[i].tap = "ours" THEN 1 ELSE 0)
                        ELSE Cardinality(UnsignedPositions(i))

\* An input that is not ours, or that the device cannot sign: handed over under a
\* dummy path if the firmware tolerates that, refused otherwise.
Foreign(i) == \/ Unsignable(psbt[i])
              \/ ~Found(i) /\ ~FoundInSigs(i)

PassesAfter_Fixed(i) == passes
\* The passes counter only moves past the checks for unsignable scripts.
PassesAfter(i) ==
    IF ~Unsignable(psbt[i]) /\ OurKeyCount(i) > passes THEN OurKeyCount(i) ELSE passes

\* The key whose path is put in address_n.
SigningKey(i) == IF Schnorr(psbt[i]) THEN InternalKey
                 ELSE IF Found(i) THEN FirstUnsigned(i) ELSE LastOurs(i)

-----------------------------------------------------------------------------
(* The steps of sign_tx.                                                   *)

\* A PSBT as it is handed to signtx: it may carry signatures of earlier signers,
\* ours among them, each made for the input and the key it is filed under.
Init ==
    /\ pc = "idle"
    /\ psbt \in [PsbtInputs -> Shapes]
    /\ out_spk \in SUBSET OutSpks
    /\ external \in BOOLEAN
    /\ \E signed \in [PsbtInputs -> SUBSET Keys] :
         /\ \A i \in PsbtInputs : signed[i] \subseteq HdKeys(psbt[i])
         /\ partial_sigs = [i \in PsbtInputs |->
                [k \in Keys |-> IF k \in signed[i] THEN Sig(i, k) ELSE NoSig]]
    /\ \E signed \in SUBSET {i \in PsbtInputs : Schnorr(psbt[i])} :
         tap_key_sig = [i \in PsbtInputs |->
                IF i \in signed THEN Sig(i, InternalKey) ELSE NoSig]
    /\ passes = 1 /\ p = 0 /\ cursor = 1
    /\ inputs = << >> /\ to_ignore = {} /\ signatures = << >>

StartSigning_FromZero ==
    /\ pc = "idle"
    /\ pc' = "prepare"
    /\ passes' = 1 /\ p' = 0 /\ cursor' = 0
    /\ UNCHANGED <<psbtVars, sigVars, inputs, to_ignore, signatures>>

\* _check_unlocked succeeded and the master fingerprint is known.
StartSigning ==
    /\ pc = "idle"
    /\ pc' = "prepare"
    /\ passes' = 1 /\ p' = 0 /\ cursor' = 1
    /\ UNCHANGED <<psbtVars, sigVars, inputs, to_ignore, signatures>>

\* The device is locked, or refuses to give its public key.
RefuseToStart ==
    /\ pc = "idle"
    /\ pc' = "failed"
    /\ UNCHANGED <<psbtVars, sigVars, passVars, cursor, inputs, to_ignore, signatures>>

AtInput == pc = "prepare" /\ cursor \in PsbtInputs

SkipInput ==
    /\ AtInput
    /\ psbt[cursor].utxo # "wronghash" /\ Skipped(psbt[cursor])
    /\ cursor' = cursor + 1
    /\ UNCHANGED <<pc, psbtVars, sigVars, passVars, inputs, to_ignore, signatures>>

\* Any of the exceptions of the loop: a wrong previous transaction, a foreign input on a
\* device that takes none, and the assertion that a path of ours was seen.
RejectInput ==
    /\ AtInput
    /\ \/ psbt[cursor].utxo = "wronghash"
       \/ /\ ~Skipped(psbt[cursor])
          /\ \/ Foreign(cursor) /\ ~external
             \/ ~Foreign(cursor) /\ ~Found(cursor) /\ ~PathLastOurs(cursor)
    /\ pc' = "failed"
    /\ UNCHANGED <<psbtVars, sigVars, passVars, cursor, inputs, to_ignore, signatures>>

IgnoreInput_NotNoted ==
    /\ AtInput
    /\ psbt[cursor].utxo = "ok" /\ ~Skipped(psbt[cursor])
    /\ Foreign(cursor) /\ external
    /\ inputs' = Append(inputs, Sig(cursor, DummyKey))
    /\ passes' = PassesAfter(cursor)
    /\ cursor' = cursor + 1
    /\ UNCHANGED <<pc, psbtVars, sigVars, p, to_ignore, signatures>>

\* ignore_input()
IgnoreInput ==
    /\ AtInput
    /\ psbt[cursor].utxo = "ok" /\ ~Skipped(psbt[cursor])
    /\ Foreign(cursor) /\ external
    /\ inputs' = Append(inputs, Sig(cursor, DummyKey))
    /\ to_ignore' = to_ignore \cup {cursor}
    /\ passes' = PassesAfter(cursor)
    /\ cursor' = cursor + 1
    /\ UNCHANGED <<pc, psbtVars, sigVars, p, signatures>>

\* An input of ours.  When all our keys have signed it already the device signs it
\* once more, and the signature is ignored.
AddInput ==
    /\ AtInput
    /\ psbt[cursor].utxo = "ok" /\ ~Skipped(psbt[cursor])
    /\ ~Foreign(cursor)
    /\ Found(cursor) \/ PathLastOurs(cursor)
    /\ inputs' = Append(inputs, Sig(cursor, SigningKey(cursor)))
    /\ to_ignore' = IF Found(cursor) THEN to_ignore ELSE to_ignore \cup {cursor}
    /\ passes' = PassesAfter(cursor)
    /\ cursor' = cursor + 1
    /\ UNCHANGED <<pc, psbtVars, sigVars, p, signatures>>

InputsPrepared ==
    /\ pc = "prepare" /\ cursor = NumInputs + 1
    /\ pc' = "outputs"
    /\ UNCHANGED <<psbtVars, sigVars, passVars, cursor, inputs, to_ignore, signatures>>

\* Every output has to be an address or an OP_RETURN.  Then the SignTx message opens
\* the exchange, with room for one signature per prepared input.
PrepareOutputs ==
    /\ pc = "outputs"
    /\ IF "other" \in out_spk
       THEN pc' = "failed" /\ UNCHANGED signatures
       ELSE /\ pc' = "sign"
            /\ signatures' = [j \in 1..Len(inputs) |-> NoSig]
    /\ UNCHANGED <<psbtVars, sigVars, passVars, cursor, inputs, to_ignore>>

\* A TxRequest that carries the signature of input j (external: the device signs what
\* it was told).  A second signature for the same index is an error.
DeviceSignature(j) ==
    /\ pc = "sign" /\ j \in DOMAIN signatures
    /\ IF signatures[j] # NoSig
       THEN pc' = "failed" /\ UNCHANGED signatures
       ELSE signatures' = [signatures EXCEPT ![j] = inputs[j]] /\ UNCHANGED pc
    /\ UNCHANGED <<psbtVars, sigVars, passVars, cursor, inputs, to_ignore>>

\* TXFINISHED: all signatures must be there.
TxFinished ==
    /\ pc = "sign"
    /\ pc' = IF \E j \in DOMAIN signatures : signatures[j] = NoSig
             THEN "failed" ELSE "record"
    /\ UNCHANGED <<psbtVars, sigVars, passVars, cursor, inputs, to_ignore, signatures>>

\* The user cancels, the device fails, asks for a previous transaction that the PSBT
\* does not have, or is unplugged.
DeviceAbort ==
    /\ pc = "sign"
    /\ pc' = "failed"
    /\ UNCHANGED <<psbtVars, sigVars, passVars, cursor, inputs, to_ignore, signatures>>

\* zip(psbt.inputs, signed_tx[0]) pairs input i with the i-th signature.
Zipped(i) == i \in DOMAIN signatures /\ i \notin to_ignore

\* The end of the while loop's body, and its condition.
NextPass_NotCounted ==
    /\ p' = p
    /\ IF p < passes
       THEN pc' = "prepare" /\ cursor' = 1
       ELSE pc' = "done" /\ UNCHANGED cursor
NextPass ==
    /\ p' = p + 1
    /\ IF p + 1 < passes
       THEN pc' = "prepare" /\ cursor' = 1
       ELSE pc' = "done" /\ UNCHANGED cursor

RecordSignatures ==
    /\ pc = "record"
    /\ partial_sigs' =
         [i \in PsbtInputs |->
            IF Zipped(i) /\ UnsignedPositions(i) # {}
            THEN [partial_sigs[i] EXCEPT ![FirstUnsigned(i)] = signatures[i]]
            ELSE partial_sigs[i]]
    /\ tap_key_sig' =
         [i \in PsbtInputs |->
            IF Zipped(i) /\ psbt[i].tap # "none" /\ tap_key_sig[i] = NoSig
            THEN signatures[i] ELSE tap_key_sig[i]]
    /\ NextPass
    /\ inputs' = << >> /\ to_ignore' = {} /\ signatures' = << >>
    /\ UNCHANGED <<psbtVars, passes>>

\* sign_tx has returned the PSBT or raised.
Finished == pc \in {"done", "failed"} /\ UNCHANGED vars

HostNext == \/ StartSigning \/ RefuseToStart
            \/ SkipInput \/ RejectInput \/ IgnoreInput \/ AddInput
            \/ InputsPrepared \/ PrepareOutputs \/ RecordSignatures

DeviceNext == \/ \E j \in PsbtInputs : DeviceSignature(j)
              \/ TxFinished \/ DeviceAbort

Next == HostNext \/ DeviceNext \/ Finished

Spec == Init /\ [][Next]_vars

\* Fairness: the host runs its loop, and a call to the device returns (the transport
\* reads block until the device answers or disappears, and both end the exchange).
FairSpec == Spec /\ WF_vars(HostNext) /\ WF_vars(DeviceNext)

-----------------------------------------------------------------------------
(* Properties.                                                             *)

TypeOK ==
    /\ pc \in {"idle", "prepare", "outputs", "sign", "record", "done", "failed"}
    /\ psbt \in [PsbtInputs -> Shapes]
    /\ out_spk \subseteq OutSpks
    /\ external \in BOOLEAN
    /\ partial_sigs \in [PsbtInputs -> [Keys -> {NoSig} \cup Sigs]]
    /\ tap_key_sig \in [PsbtInputs -> {NoSig} \cup Sigs]
    /\ passes \in Nat /\ p \in Nat
    /\ cursor \in 1..(NumInputs + 1)
    /\ inputs \in Seq(Sigs)
    /\ to_ignore \subseteq PsbtInputs
    /\ signatures \in Seq({NoSig} \cup Sigs)

\* A taproot input names its keys in the tap_ fields and only there.
TapFieldsApart(in) == IF Schnorr(in) THEN in.tap # "none" /\ OurPositions(in) = {}
                                     ELSE in.tap = "none"

\* Nothing is missing from the PSBT's inputs and taproot fields are where they belong.
WellFormed == \A i \in PsbtInputs : ~Skipped(psbt[i]) /\ TapFieldsApart(psbt[i])

Belongs == 
    \A i \in PsbtInputs :
        /\ \A k \in Keys : partial_sigs[i][k] \in {NoSig, Sig(i, k)}
        /\ tap_key_sig[i] \in {NoSig, Sig(i, InternalKey)}

\* In a well-formed PSBT every signature is filed under the input and the key it was
\* made with, whatever pass it came from and in whatever order the device sent it.
SignaturesBelong == WellFormed => Belongs

\* The same without the precondition: the comment "Each input has one signature" of the
\* recording loop takes the i-th signature for that of the i-th PSBT input.
EachInputHasOneSignature == Belongs

\* When sign_tx returns, every key of ours in every input the device can sign has signed.
AllOurKeysSigned ==
    pc = "done" /\ WellFormed =>
        \A i \in PsbtInputs : ~Unsignable(psbt[i]) =>
            /\ UnsignedPositions(i) = {}
            /\ psbt[i].tap = "ours" => tap_key_sig[i] # NoSig

\* A signature that is in the PSBT is never replaced or removed.
SignaturesKept ==
    [][\A i \in PsbtInputs :
         /\ \A k \in Keys : partial_sigs[i][k] # NoSig => partial_sigs'[i][k] = partial_sigs[i][k]
         /\ tap_key_sig[i] # NoSig => tap_key_sig'[i] = tap_key_sig[i]]_vars

\* Each pass costs the user a confirmation on the device: every pass after the first
\* brings a signature that was missing.
NoWastedPass ==
    [][pc = "record" /\ p >= 1 /\ WellFormed => partial_sigs' # partial_sigs]_vars

\* sign_tx returns or raises: the number of passes it still wants does not run away.
SigningEnds == <>(pc \in {"done", "failed"})
=============================================================================
