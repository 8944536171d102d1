-------------------------------- MODULE Psbt --------------------------------
(***************************************************************************)
(* The PSBT format as psbt.py reads and writes it: the fields of the       *)
(* global, input and output maps, the order and the conditions under which *)
(* they are written, what is refused, the conversion between versions 0    *)
(* and 2, and the lock time.                                               *)
(*                                                                         *)
(* A map is the sequence of its fields in dictionary order.  A field has a *)
(* type, key data (NoKey for a key that is the type alone; a wrong length  *)
(* of the key is key data too many or missing) and a value: a number, 0    *)
(* for the empty string, Malformed for a value of the wrong length or      *)
(* form; a file that ends inside a value has what is left of it.  A file   *)
(* is the sequence of the fields and separators behind the magic bytes,    *)
(* the unsigned transaction of its global map beside it, and whether       *)
(* blanks surround the text.                                               *)
(*                                                                         *)
(* The leaf hashes in the value of a taproot derivation and the control    *)
(* blocks of a leaf script are Python sets, written in an order that       *)
(* differs from process to process.  A file here has the control blocks in *)
(* the order in which they were read, a value of a derivation stands for   *)
(* the set: a file stands for all texts that differ in the order of a set. *)
(***************************************************************************)
EXTENDS Integers, SequencesExt

CONSTANTS
    SignedLimit,  \* the first number too large for a signed 32-bit field
    Threshold     \* 500000000, the first lock time that is a time

ASSUME LimitAssumption == SignedLimit \in Nat /\ Threshold \in Nat \ {0}

NoKey     == 0
None      == -1
Malformed == -2
FinalSequence == 4   \* stands for 0xffffffff

Field(t, k, v) == [t |-> t, k |-> k, v |-> v]
Separator == Field("separator", NoKey, 0)

\* FoldLeft of SequencesExt with an accumulator that TLC evaluates once per element.
Folded(op(_, _), base, seq) ==
    LET upTo[n \in 0..Len(seq)] ==
          IF n = 0 THEN base
          ELSE CHOOSE value \in {op(acc, seq[n]) : acc \in {upTo[n - 1]}} : TRUE
    IN upTo[Len(seq)]

\* CTransaction(): no inputs and no outputs.
NoTx == [version |-> 1, locktime |-> 0, vin |-> << >>, vout |-> << >>]

-----------------------------------------------------------------------------
(* The fields of the maps, in the order in which they are written.         *)

InputOrder ==
    <<"non_witness_utxo", "witness_utxo", "partial_sig", "sighash", "redeem_script",
      "witness_script", "bip32", "tap_key_sig", "tap_script_sig", "tap_leaf_script",
      "tap_bip32", "tap_internal_key", "tap_merkle_root", "final_script_sig",
      "final_script_witness", "musig2_pubkeys", "musig2_nonce", "musig2_sig",
      "prev_txid", "prev_out", "sequence", "time_locktime", "height_locktime", "unknown">>

OutputOrder ==
    <<"redeem_script", "witness_script", "bip32", "amount", "script", "tap_internal_key",
      "tap_tree", "tap_bip32", "musig2_pubkeys", "unknown">>

KeyedTypes == {"xpub", "partial_sig", "bip32", "tap_script_sig", "tap_leaf_script", "tap_bip32",
               "musig2_pubkeys", "musig2_nonce", "musig2_sig", "unknown"}

\* Written in the order of their keys; the other dictionaries in insertion order, but
\* for the sets.
SortedTypes == {"xpub", "partial_sig", "bip32", "unknown"}

\* Fields whose value is not looked into.
OpaqueTypes == {"partial_sig", "redeem_script", "witness_script", "final_script_sig",
                "tap_tree", "script", "unknown"}

\* Fields for which the empty value is the same as no field.
BlankTypes == {"redeem_script", "witness_script", "final_script_sig",
               "final_script_witness", "tap_tree", "script"}

\* Fields of version 2 only; in version 0 the transaction has them.
V2Globals == {"tx_version", "fallback", "input_count", "output_count", "modifiable"}
V2Fields  == {"prev_txid", "prev_out", "sequence", "time_locktime", "height_locktime",
              "amount", "script"}

\* Fields that are no longer written once the input is final.
SigningTypes == {"partial_sig", "sighash", "redeem_script", "witness_script", "bip32",
                 "tap_key_sig", "tap_script_sig", "tap_leaf_script", "tap_bip32",
                 "tap_internal_key", "tap_merkle_root"}

IsSet(f) == ~(f.t \in BlankTypes /\ f.v = 0)
Has(map, t) == \E n \in DOMAIN map : map[n].t = t /\ IsSet(map[n])
ValueOf(map, t) == IF Has(map, t) THEN map[CHOOSE n \in DOMAIN map : map[n].t = t].v ELSE None

\* dict[key] = value, and likewise for an attribute
Put(map, f) ==
    LET at == {n \in DOMAIN map : map[n].t = f.t /\ map[n].k = f.k}
    IN IF at = {} THEN Append(map, f) ELSE [n \in DOMAIN map |-> IF n \in at THEN f ELSE map[n]]

-----------------------------------------------------------------------------
(* Writing.  A PSBT is its version, whether the version was written out,   *)
(* the transaction, the global fields, and the maps.                       *)

Final(map) == Has(map, "final_script_sig") \/ Has(map, "final_script_witness")

\* sorted(): a field is inserted behind those with smaller keys.
Inserted(fields, f) ==
    InsertAt(fields, Cardinality({n \in DOMAIN fields : fields[n].k < f.k}) + 1, f)

\* One round of the loop that collects the fields of type t.
Collected(t, fields, f) ==
    IF f.t # t \/ ~IsSet(f) THEN fields
    ELSE IF t \in SortedTypes THEN Inserted(fields, f) ELSE Append(fields, f)

OfType(map, t) == Folded(LAMBDA fields, f : Collected(t, fields, f), << >>, map)

Written_AnyVersion(version, map, t) == ~(t \in SigningTypes /\ Final(map))
Written(version, map, t) ==
    /\ ~(t \in SigningTypes /\ Final(map))
    /\ t \in V2Fields => version >= 2

MapItems(version, map, order) ==
    LET of(t) == IF Written(version, map, t) THEN OfType(map, t) ELSE << >>
    IN FlattenSeq([n \in DOMAIN order |-> of(order[n])]) \o <<Separator>>

GlobalItems(p) ==
    (IF p.version = 0 THEN <<Field("tx", NoKey, 0)>> ELSE << >>)
    \o OfType(p.fields, "xpub")
    \o (IF p.version = 0 THEN << >>
        ELSE OfType(p.fields, "tx_version") \o OfType(p.fields, "fallback")
             \o <<Field("input_count", NoKey, Len(p.inputs)),
                  Field("output_count", NoKey, Len(p.outputs))>>
             \o OfType(p.fields, "modifiable"))
    \o (IF p.version > 0 \/ p.explicit THEN <<Field("version", NoKey, p.version)>> ELSE << >>)
    \o OfType(p.fields, "unknown") \o <<Separator>>

serialize(p) ==
    [blanks |-> FALSE,
     tx |-> IF p.version = 0 THEN p.tx ELSE NoTx,
     items |-> GlobalItems(p)
               \o FlattenSeq([i \in DOMAIN p.inputs |-> MapItems(p.version, p.inputs[i], InputOrder)])
               \o FlattenSeq([i \in DOMAIN p.outputs |-> MapItems(p.version, p.outputs[i], OutputOrder)])]

\* What a PSBT says, in whatever order its fields are written.
Content(p) ==
    [version |-> p.version, tx |-> p.tx, fields |-> ToSet(p.fields),
     inputs |-> [i \in DOMAIN p.inputs |-> ToSet(p.inputs[i])],
     outputs |-> [i \in DOMAIN p.outputs |-> ToSet(p.outputs[i])]]

\* PSBT_GLOBAL_TX_VERSION is packed as an unsigned number, nVersion was read as a
\* signed one.
Packs(p) == p.version >= 2 => ValueOf(p.fields, "tx_version") >= 0

-----------------------------------------------------------------------------
(* Reading.                                                                *)

\* A field at which the loop over the fields of a map raises.
Refused(version, map, f) ==
    \/ \E n \in DOMAIN map : map[n].t = f.t /\ map[n].k = f.k
    \/ (f.t \in KeyedTypes) # (f.k # NoKey)
    \/ f.v = Malformed /\ f.t \notin OpaqueTypes
    \/ f.t \in V2Fields /\ version = 0
    \/ f.t = "time_locktime" /\ f.v < Threshold
    \/ f.t = "height_locktime" /\ (f.v = 0 \/ f.v >= Threshold)

\* The constraints of the versions on the global map.
GlobalsFit(version, map) ==
    CASE version = 0 -> Has(map, "tx") /\ \A t \in V2Globals : ~Has(map, t)
      [] version = 1 -> FALSE
      [] version >= 2 -> /\ Has(map, "tx_version") /\ Has(map, "input_count")
                         /\ Has(map, "output_count") /\ ~Has(map, "tx")

InputFits(version, map) == version >= 2 => Has(map, "prev_txid") /\ Has(map, "prev_out")
OutputFits(version, map) == version >= 2 => Has(map, "amount") /\ Has(map, "script")

\* The non-witness UTXO, named by its hash, is the transaction that is spent.
UtxoFits(map, prev_txid) ==
    Has(map, "non_witness_utxo") => ValueOf(map, "non_witness_utxo") = prev_txid

input_count(p)  == IF p.version = 0 THEN Len(p.tx.vin) ELSE ValueOf(p.fields, "input_count")
output_count(p) == IF p.version = 0 THEN Len(p.tx.vout) ELSE ValueOf(p.fields, "output_count")

\* cache_unsigned_tx_pieces and setup_from_tx
setup_from_tx(p) ==
    [p EXCEPT
        !.fields = Put(Put(@, Field("tx_version", NoKey, p.tx.version)),
                       Field("fallback", NoKey, p.tx.locktime)),
        !.inputs = [i \in DOMAIN @ |->
            Put(Put(Put(@[i], Field("prev_txid", NoKey, p.tx.vin[i].txid)),
                    Field("prev_out", NoKey, p.tx.vin[i].n)),
                Field("sequence", NoKey, p.tx.vin[i].sequence))],
        !.outputs = [i \in DOMAIN @ |->
            Put(Put(@[i], Field("amount", NoKey, p.tx.vout[i].amount)),
                Field("script", NoKey, p.tx.vout[i].script))]]

\* The state of the reading loops: which map is read, its fields so far, and the PSBT.
Reader(tx) ==
    [stage |-> "global", map |-> << >>,
     psbt |-> [version |-> 0, explicit |-> FALSE, tx |-> tx, fields |-> << >>,
               inputs |-> << >>, outputs |-> << >>]]

Raise(r) == [r EXCEPT !.stage = "raised"]

\* The loops over the inputs and the outputs end by count.
Settle(r) ==
    LET inputsRead == r.stage = "inputs" /\ Len(r.psbt.inputs) = input_count(r.psbt)
        outputsRead == /\ inputsRead \/ r.stage = "outputs"
                       /\ Len(r.psbt.outputs) = output_count(r.psbt)
    IN [r EXCEPT !.map = << >>,
                 !.stage = IF outputsRead THEN "done" ELSE IF inputsRead THEN "outputs" ELSE @]

TakeField(r, f) ==
    LET named == r.stage = "global" /\ f.t = "version"
    IN [r EXCEPT !.map = Append(@, f),
                 !.psbt.version = IF named THEN f.v ELSE @,
                 !.psbt.explicit = named \/ @]

prev_txid(r) == IF r.psbt.version >= 2 THEN ValueOf(r.map, "prev_txid")
                ELSE r.psbt.tx.vin[Len(r.psbt.inputs) + 1].txid

\* The separator behind a map, or the end of the file where one is missing.
EndMap(r) ==
    LET version == r.psbt.version
        fits == CASE r.stage = "global" -> GlobalsFit(version, r.map)
                  [] r.stage = "inputs" -> InputFits(version, r.map) /\ UtxoFits(r.map, prev_txid(r))
                  [] r.stage = "outputs" -> OutputFits(version, r.map)
    IN IF ~fits THEN Raise(r)
       ELSE Settle(CASE r.stage = "global" -> [r EXCEPT !.psbt.fields = r.map, !.stage = "inputs"]
                     [] r.stage = "inputs" -> [r EXCEPT !.psbt.inputs = Append(@, r.map)]
                     [] r.stage = "outputs" -> [r EXCEPT !.psbt.outputs = Append(@, r.map)])

\* One round of the loop over the fields of a map.  What follows the last map is not read.
ReadItem(r, f) ==
    IF r.stage \in {"done", "raised"} THEN r
    ELSE IF f = Separator THEN EndMap(r)
    ELSE IF Refused(r.psbt.version, r.map, f) THEN Raise(r) ELSE TakeField(r, f)

\* A map that ends with the file counts; one that would begin there is missing.
deserialize(file) ==
    LET r == Folded(ReadItem, Reader(file.tx), file.items)
        end == IF r.stage \in {"done", "raised"} \/ r.map = << >> THEN r ELSE EndMap(r)
    IN IF end.stage # "done" THEN Raise(end)
       ELSE IF end.psbt.version = 0 THEN [end EXCEPT !.psbt = setup_from_tx(@)] ELSE end

-----------------------------------------------------------------------------
(* The transaction of a PSBT, and the conversion between versions.         *)

Larger(a, b) == IF a >= b THEN a ELSE b

\* One round of the loop of compute_lock_time.
LockStep_LastWins(acc, map) ==
    LET time == ValueOf(map, "time_locktime")
        height == ValueOf(map, "height_locktime")
    IN [time |-> IF time # None THEN time ELSE acc.time,
        height |-> IF time # None /\ height = None THEN None
                   ELSE IF height # None THEN height ELSE acc.height,
        conflict |-> acc.conflict]
LockStep(acc, map) ==
    LET time == ValueOf(map, "time_locktime")
        height == ValueOf(map, "height_locktime")
        onlyTime == time # None /\ height = None
        onlyHeight == time = None /\ height # None
        t == IF onlyHeight THEN None ELSE acc.time
        h == IF onlyTime THEN None ELSE acc.height
    IN [time |-> IF time # None /\ t # None THEN Larger(t, time) ELSE t,
        height |-> IF height # None /\ h # None THEN Larger(h, height) ELSE h,
        conflict |-> \/ acc.conflict
                     \/ onlyTime /\ acc.time = None
                     \/ onlyHeight /\ acc.height = None]

\* None where the code raises.
compute_lock_time(p) ==
    LET lock == Folded(LockStep, [time |-> 0, height |-> 0, conflict |-> FALSE], p.inputs)
    IN IF lock.conflict THEN None
       ELSE IF lock.height > 0 THEN lock.height
       ELSE IF lock.time > 0 THEN lock.time
       ELSE IF Has(p.fields, "fallback") THEN ValueOf(p.fields, "fallback") ELSE 0

\* The transaction spelled out by the version 2 fields, with a given lock time.
AssembledTx(p, locktime) ==
    [version |-> ValueOf(p.fields, "tx_version"),
     locktime |-> locktime,
     vin |-> [i \in DOMAIN p.inputs |->
        [txid |-> ValueOf(p.inputs[i], "prev_txid"), n |-> ValueOf(p.inputs[i], "prev_out"),
         sequence |-> IF Has(p.inputs[i], "sequence") THEN ValueOf(p.inputs[i], "sequence")
                                                      ELSE FinalSequence]],
     vout |-> [i \in DOMAIN p.outputs |->
        [amount |-> ValueOf(p.outputs[i], "amount"),
         script |-> IF Has(p.outputs[i], "script") THEN ValueOf(p.outputs[i], "script") ELSE 0]]]

get_unsigned_tx(p) == IF p.version = 0 THEN p.tx ELSE AssembledTx(p, compute_lock_time(p))

\* get_unsigned_tx raises on contradicting lock times, and hashing the transaction
\* raises on a version that is no signed number.
Assembles(p) ==
    p.version # 0 => compute_lock_time(p) # None /\ ValueOf(p.fields, "tx_version") < SignedLimit

convert_to_v2(p) == [p EXCEPT !.version = 2]

convert_to_v0(p) == [p EXCEPT !.version = 0, !.explicit = FALSE, !.tx = get_unsigned_tx(p)]
=============================================================================
