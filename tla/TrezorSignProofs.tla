-------------------------- MODULE TrezorSignProofs --------------------------
(***************************************************************************)
(* Theorems about TrezorSign, for every number of inputs, every set of     *)
(* keys and every set of input shapes.                                     *)
(***************************************************************************)
EXTENDS TrezorSign, FiniteSetTheorems, WellFoundedInduction, SequenceTheorems, TLAPS

LtRel == {ss \in Nat \X Nat : ss[1] < ss[2]}

\* The library's well-foundedness of < on the naturals, with the relation spelled out.
LEMMA LtRelWellFounded == IsWellFoundedOn(LtRel, Nat)
<1>1. LtRel = OpToRel(<, Nat)
  BY DEF LtRel, OpToRel
<1> QED BY <1>1, NatLessThanWellFounded, Zenon

\* A nonempty set of natural numbers has a least element.
LEMMA LeastNatural ==
    ASSUME NEW T \in SUBSET Nat, T # {}
    PROVE  \E n \in T : \A m \in T : n <= m
<1>1. PICK n \in T : \A m \in T : ~(<<m, n>> \in LtRel)
  BY LtRelWellFounded, WFMin, Zenon
<1>2. ASSUME NEW m \in T PROVE n <= m
  <2>1. m \in Nat /\ n \in Nat
    OBVIOUS
  <2>2. <<m, n>> \in LtRel <=> m < n
    BY <2>1 DEF LtRel
  <2> QED BY <1>1, <2>1, <2>2
<1> QED BY <1>2

\* A nonempty set of natural numbers with an upper bound has a greatest element.
LEMMA GreatestNatural ==
    ASSUME NEW L \in Nat, NEW T \in SUBSET (1..L), T # {}
    PROVE  \E n \in T : \A m \in T : m <= n
<1> DEFINE U == {L - n : n \in T}
<1>1. U \in SUBSET Nat /\ U # {}
  OBVIOUS
<1> HIDE DEF U
<1>2. PICK u \in U : \A v \in U : u <= v
  BY <1>1, LeastNatural
<1>3. PICK n \in T : u = L - n
  BY DEF U
<1>4. ASSUME NEW m \in T PROVE m <= n
  <2>1. L - m \in U
    BY DEF U
  <2> QED BY <1>2, <1>3, <2>1
<1> QED BY <1>4

-----------------------------------------------------------------------------
\* What the key search returns are keys of the input, so what is sent to the device
\* names a key.
LEMMA SigningKeyType ==
    ASSUME TypeOK, NEW i \in PsbtInputs, Found(i) \/ PathLastOurs(i)
    PROVE  SigningKey(i) \in SigKeys
<1> DEFINE in == psbt[i]
<1>1. in \in InputShape /\ in.hd \in Seq(Keys)
  BY ShapesAssumption DEF TypeOK, InputShape
<1>2. OurPositions(in) \in SUBSET (1..Len(in.hd)) /\ Len(in.hd) \in Nat
  BY <1>1 DEF OurPositions
<1>3. \A n \in OurPositions(in) : in.hd[n] \in Keys
  BY <1>1 DEF OurPositions
<1>4. UnsignedPositions(i) \in SUBSET OurPositions(in)
  BY DEF UnsignedPositions
<1>5. CASE Schnorr(in)
  BY <1>5 DEF SigningKey, SigKeys
<1>6. CASE ~Schnorr(in) /\ Found(i)
  <2>1. UnsignedPositions(i) # {} /\ UnsignedPositions(i) \in SUBSET Nat
    BY <1>2, <1>4, <1>6 DEF Found
  <2>2. \E n \in UnsignedPositions(i) : \A m \in UnsignedPositions(i) : n <= m
    BY <2>1, LeastNatural
  <2>3. FirstUnsigned(i) \in Keys
    BY <2>2, <1>3, <1>4, Zenon DEF FirstUnsigned
  <2> QED BY <1>6, <2>3 DEF SigningKey, SigKeys
<1>7. CASE ~Schnorr(in) /\ ~Found(i)
  <2>1. OurPositions(in) # {}
    BY <1>7 DEF PathLastOurs
  <2>2. \E n \in OurPositions(in) : \A m \in OurPositions(in) : m <= n
    BY <1>2, <2>1, GreatestNatural
  <2>3. LastOurs(i) \in Keys
    BY <2>2, <1>3, Zenon DEF LastOurs
  <2> QED BY <1>7, <2>3 DEF SigningKey, SigKeys
<1> QED BY <1>5, <1>6, <1>7

\* The positions searched are finitely many, so counting them gives a number.
LEMMA PositionsFinite ==
    ASSUME TypeOK, NEW i \in PsbtInputs
    PROVE  /\ IsFiniteSet(UnsignedPositions(i))
           /\ Cardinality(UnsignedPositions(i)) \in Nat
           /\ OurKeyCount(i) \in Nat
<1>1. psbt[i] \in InputShape /\ psbt[i].hd \in Seq(Keys)
  BY ShapesAssumption DEF TypeOK, InputShape
<1>2. UnsignedPositions(i) \subseteq 1..Len(psbt[i].hd) /\ Len(psbt[i].hd) \in Nat
  BY <1>1 DEF UnsignedPositions, OurPositions
<1>3. IsFiniteSet(1..Len(psbt[i].hd))
  BY <1>2, FS_Interval
<1>4. IsFiniteSet(UnsignedPositions(i))
  BY <1>2, <1>3, FS_Subset
<1>5. Cardinality(UnsignedPositions(i)) \in Nat
  BY <1>4, FS_CardinalityType
<1> QED BY <1>4, <1>5 DEF OurKeyCount

-----------------------------------------------------------------------------
\* There is room for one signature per prepared input while the device signs.
SameLength == pc \in {"sign", "record"} => Len(signatures) = Len(inputs)

\* Every step keeps the variables in their types.
LEMMA TypeInductive == TypeOK /\ SameLength /\ [Next]_vars => TypeOK' /\ SameLength'
<1> SUFFICES ASSUME TypeOK, SameLength, [Next]_vars PROVE TypeOK' /\ SameLength'
  OBVIOUS
<1> USE NumInputsAssumption DEF PsbtInputs, SameLength
<1>1. CASE StartSigning
  BY <1>1 DEF StartSigning, TypeOK, psbtVars, sigVars
<1>2. CASE RefuseToStart \/ RejectInput \/ DeviceAbort \/ TxFinished \/ InputsPrepared
  BY <1>2 DEF RefuseToStart, RejectInput, DeviceAbort, TxFinished, InputsPrepared,
              TypeOK, psbtVars, sigVars, passVars
<1>3. CASE SkipInput
  BY <1>3 DEF SkipInput, AtInput, TypeOK, psbtVars, sigVars, passVars
<1>4. CASE IgnoreInput
  <2>1. Sig(cursor, DummyKey) \in Sigs /\ cursor \in PsbtInputs
    BY <1>4 DEF IgnoreInput, AtInput, Sig, Sigs, SigKeys
  <2>2. PassesAfter(cursor) \in Nat
    BY <2>1, PositionsFinite DEF PassesAfter, TypeOK
  <2>3. inputs' \in Seq(Sigs)
    BY <1>4, <2>1 DEF IgnoreInput, TypeOK
  <2> QED BY <1>4, <2>1, <2>2, <2>3 DEF IgnoreInput, AtInput, TypeOK, psbtVars, sigVars
<1>5. CASE AddInput
  <2>1. cursor \in PsbtInputs
    BY <1>5 DEF AddInput, AtInput
  <2>2. SigningKey(cursor) \in SigKeys
    BY <1>5, <2>1, SigningKeyType DEF AddInput
  <2>3. inputs' \in Seq(Sigs)
    BY <1>5, <2>1, <2>2 DEF AddInput, TypeOK, Sig, Sigs
  <2>4. PassesAfter(cursor) \in Nat
    BY <2>1, PositionsFinite DEF PassesAfter, TypeOK
  <2> QED BY <1>5, <2>1, <2>3, <2>4 DEF AddInput, AtInput, TypeOK, psbtVars, sigVars
<1>6. CASE PrepareOutputs
  <2>1. [j \in 1..Len(inputs) |-> NoSig] \in Seq({NoSig} \cup Sigs)
    BY DEF TypeOK
  <2>2. Len([j \in 1..Len(inputs) |-> NoSig]) = Len(inputs)
    BY DEF TypeOK
  <2> QED BY <1>6, <2>1, <2>2 DEF PrepareOutputs, TypeOK, psbtVars, sigVars, passVars
<1>7. ASSUME NEW j \in PsbtInputs, DeviceSignature(j) PROVE TypeOK' /\ SameLength'
  <2>1. CASE signatures[j] # NoSig
    BY <1>7, <2>1 DEF DeviceSignature, TypeOK, psbtVars, sigVars, passVars
  <2>2. CASE signatures[j] = NoSig
    <3>1. j \in 1..Len(signatures) /\ Len(signatures) = Len(inputs)
      BY <1>7 DEF DeviceSignature, TypeOK
    <3>2. inputs[j] \in {NoSig} \cup Sigs
      BY <3>1 DEF TypeOK
    <3>3. signatures' = [signatures EXCEPT ![j] = inputs[j]]
      BY <1>7, <2>2 DEF DeviceSignature
    <3>4. signatures \in Seq({NoSig} \cup Sigs)
      BY DEF TypeOK
    <3>5. signatures' \in Seq({NoSig} \cup Sigs) /\ Len(signatures') = Len(signatures)
      BY <3>1, <3>2, <3>3, <3>4, ExceptSeq
    <3> QED BY <1>7, <2>2, <3>1, <3>5 DEF DeviceSignature, TypeOK, psbtVars, sigVars, passVars
  <2> QED BY <2>1, <2>2
<1>8. CASE RecordSignatures
  <2>1. ASSUME NEW i \in PsbtInputs, Zipped(i) PROVE signatures[i] \in {NoSig} \cup Sigs
    BY <2>1 DEF Zipped, TypeOK
  <2>2. partial_sigs' \in [PsbtInputs -> [Keys -> {NoSig} \cup Sigs]]
    BY <1>8, <2>1 DEF RecordSignatures, TypeOK
  <2>3. tap_key_sig' \in [PsbtInputs -> {NoSig} \cup Sigs]
    BY <1>8, <2>1 DEF RecordSignatures, TypeOK
  <2>4. inputs' \in Seq(Sigs) /\ signatures' \in Seq({NoSig} \cup Sigs)
    BY <1>8 DEF RecordSignatures
  <2> QED BY <1>8, <2>2, <2>3, <2>4 DEF RecordSignatures, NextPass, TypeOK, psbtVars
<1>9. CASE Finished \/ UNCHANGED vars
  BY <1>9 DEF Finished, vars, TypeOK
<1> QED BY <1>1, <1>2, <1>3, <1>4, <1>5, <1>6, <1>7, <1>8, <1>9
        DEF Next, HostNext, DeviceNext

\* The initial PSBT is well-typed.
LEMMA TypeInitial == Init => TypeOK /\ SameLength
<1> SUFFICES ASSUME Init PROVE TypeOK /\ SameLength
  OBVIOUS
<1>1. \A i \in PsbtInputs, k \in Keys : Sig(i, k) \in Sigs
  BY DEF Sig, Sigs, SigKeys
<1>2. \A i \in PsbtInputs : Sig(i, InternalKey) \in Sigs
  BY DEF Sig, Sigs, SigKeys
<1>3. partial_sigs \in [PsbtInputs -> [Keys -> {NoSig} \cup Sigs]]
  BY <1>1 DEF Init
<1>4. tap_key_sig \in [PsbtInputs -> {NoSig} \cup Sigs]
  BY <1>2 DEF Init
<1> QED BY <1>3, <1>4, NumInputsAssumption DEF Init, TypeOK, SameLength

\* The variables of sign_tx keep their types, whatever PSBT and device it meets.
THEOREM TypeCorrect == Spec => []TypeOK
<1>1. Spec => [](TypeOK /\ SameLength)
  BY TypeInitial, TypeInductive, PTL DEF Spec
<1> QED BY <1>1, PTL

-----------------------------------------------------------------------------
\* The key the recording loop files a signature under is one that had none.
LEMMA FirstUnsignedIsUnsigned ==
    ASSUME TypeOK, NEW i \in PsbtInputs, UnsignedPositions(i) # {}
    PROVE  \E n \in UnsignedPositions(i) :
              /\ FirstUnsigned(i) = psbt[i].hd[n]
              /\ FirstUnsigned(i) \in Keys
              /\ partial_sigs[i][FirstUnsigned(i)] = NoSig
<1>1. psbt[i] \in InputShape /\ psbt[i].hd \in Seq(Keys)
  BY ShapesAssumption DEF TypeOK, InputShape
<1>2. UnsignedPositions(i) \subseteq 1..Len(psbt[i].hd) /\ Len(psbt[i].hd) \in Nat
  BY <1>1 DEF UnsignedPositions, OurPositions
<1>3. UnsignedPositions(i) \in SUBSET Nat
  BY <1>2
<1>4. \E n \in UnsignedPositions(i) : \A m \in UnsignedPositions(i) : n <= m
  BY <1>3, LeastNatural
<1>5. PICK n \in UnsignedPositions(i) : FirstUnsigned(i) = psbt[i].hd[n]
  BY <1>4, Zenon DEF FirstUnsigned
<1>6. psbt[i].hd[n] \in Keys
  BY <1>1, <1>2
<1>7. partial_sigs[i][psbt[i].hd[n]] = NoSig
  BY DEF UnsignedPositions
<1> QED BY <1>5, <1>6, <1>7

KeepsSignatures ==
    \A i \in PsbtInputs :
        /\ \A k \in Keys : partial_sigs[i][k] # NoSig
                           => partial_sigs'[i][k] = partial_sigs[i][k]
        /\ tap_key_sig[i] # NoSig => tap_key_sig'[i] = tap_key_sig[i]

\* No step replaces a signature.
LEMMA StepKeepsSignatures == TypeOK /\ [Next]_vars => KeepsSignatures
<1> SUFFICES ASSUME TypeOK, [Next]_vars PROVE KeepsSignatures
  OBVIOUS
<1>1. CASE UNCHANGED sigVars
  BY <1>1 DEF sigVars, KeepsSignatures
<1>2. CASE RecordSignatures
  <2> SUFFICES ASSUME NEW i \in PsbtInputs
               PROVE  /\ \A k \in Keys : partial_sigs[i][k] # NoSig
                                 => partial_sigs'[i][k] = partial_sigs[i][k]
                      /\ tap_key_sig[i] # NoSig => tap_key_sig'[i] = tap_key_sig[i]
    BY DEF KeepsSignatures
  <2>1. tap_key_sig[i] # NoSig => tap_key_sig'[i] = tap_key_sig[i]
    BY <1>2 DEF RecordSignatures
  <2>2. CASE Zipped(i) /\ UnsignedPositions(i) # {}
    <3>1. partial_sigs'[i] = [partial_sigs[i] EXCEPT ![FirstUnsigned(i)] = signatures[i]]
      BY <1>2, <2>2 DEF RecordSignatures
    <3>2. partial_sigs[i][FirstUnsigned(i)] = NoSig
      BY <2>2, FirstUnsignedIsUnsigned
    <3>3. partial_sigs[i] \in [Keys -> {NoSig} \cup Sigs]
      BY DEF TypeOK
    <3> QED BY <2>1, <3>1, <3>2, <3>3
  <2>3. CASE ~(Zipped(i) /\ UnsignedPositions(i) # {})
    BY <1>2, <2>1, <2>3 DEF RecordSignatures
  <2> QED BY <2>2, <2>3
<1>3. Next => UNCHANGED sigVars \/ RecordSignatures
  BY DEF Next, HostNext, DeviceNext, StartSigning, RefuseToStart, SkipInput,
         RejectInput, IgnoreInput, AddInput, InputsPrepared, PrepareOutputs,
         DeviceSignature, TxFinished, DeviceAbort, Finished, vars, sigVars
<1> QED BY <1>1, <1>2, <1>3 DEF vars, sigVars

\* A signature that stands in the PSBT is never replaced or removed, even when inputs
\* were skipped and signatures are filed under the wrong input.
THEOREM SignaturesAreKept == Spec => SignaturesKept
<1>1. TypeOK /\ [Next]_vars => [KeepsSignatures]_vars
  BY StepKeepsSignatures
<1> QED BY <1>1, TypeCorrect, PTL DEF Spec, SignaturesKept, KeepsSignatures

-----------------------------------------------------------------------------
(* The inductive invariant.  Aligned says that, in a well-formed PSBT, the *)
(* i-th input given to the device stands for the i-th input of the PSBT    *)
(* and asks for the signature that the recording loop will file.  Progress *)
(* says that the passes still to come are enough for the signatures still  *)
(* missing.                                                                *)

Prepared(i) == \/ pc = "prepare" /\ i < cursor
               \/ pc \in {"outputs", "sign", "record"}

Aligned ==
    /\ pc = "idle" => inputs = << >> /\ to_ignore = {} /\ p = 0
    /\ pc = "prepare" => Len(inputs) = cursor - 1 /\ \A i \in to_ignore : i < cursor
    /\ pc \in {"outputs", "sign", "record"} => Len(inputs) = NumInputs
    /\ \A i \in PsbtInputs : Prepared(i) =>
          /\ i \notin to_ignore => inputs[i] = Sig(i, SigningKey(i)) /\ Found(i)
          /\ ~Unsignable(psbt[i]) /\ Found(i) => i \notin to_ignore
    /\ pc \in {"sign", "record"} =>
          \A i \in PsbtInputs : signatures[i] \in {NoSig, inputs[i]}
    /\ pc = "record" => \A i \in PsbtInputs : signatures[i] # NoSig

Progress ==
    /\ pc \in {"prepare", "outputs", "sign", "record"} => p < passes
    /\ pc = "done" => p >= passes /\ p >= 1
    /\ \A i \in PsbtInputs : ~Unsignable(psbt[i]) =>
          /\ Prepared(i) \/ p >= 1 =>
                Cardinality(UnsignedPositions(i)) + p <= passes
          /\ p >= 1 /\ psbt[i].tap = "ours" => tap_key_sig[i] # NoSig

IInv == WellFormed => Aligned /\ Progress /\ Belongs

\* What the search finds depends on the PSBT and its signatures only.
LEMMA SearchUnchanged ==
    ASSUME UNCHANGED <<psbtVars, sigVars>>, NEW i \in PsbtInputs
    PROVE  /\ UnsignedPositions(i)' = UnsignedPositions(i)
           /\ Found(i)' = Found(i)
           /\ SigningKey(i)' = SigningKey(i)
<1>1. psbt' = psbt /\ partial_sigs' = partial_sigs
  BY DEF psbtVars, sigVars
<1>2. UnsignedPositions(i)' = UnsignedPositions(i)
  BY <1>1 DEF UnsignedPositions
<1>3. Found(i)' = Found(i)
  BY <1>1, <1>2 DEF Found
<1>4. FirstUnsigned(i)' = FirstUnsigned(i)
  BY <1>1, <1>2 DEF FirstUnsigned
<1>5. LastOurs(i)' = LastOurs(i)
  BY <1>1 DEF LastOurs
<1> QED BY <1>1, <1>2, <1>3, <1>4, <1>5 DEF SigningKey

\* In a well-formed PSBT a taproot input has no key of ours among its ECDSA keys, and
\* an input without one needs no pass.
LEMMA NothingUnsigned ==
    ASSUME WellFormed, NEW i \in PsbtInputs, Schnorr(psbt[i]) \/ ~Found(i)
    PROVE  UnsignedPositions(i) = {} /\ Cardinality(UnsignedPositions(i)) = 0
<1>1. UnsignedPositions(i) = {}
  <2>1. CASE Schnorr(psbt[i])
    <3>1. OurPositions(psbt[i]) = {}
      BY <2>1 DEF WellFormed, TapFieldsApart
    <3> QED BY <3>1 DEF UnsignedPositions
  <2>2. CASE ~Schnorr(psbt[i]) /\ ~Found(i)
    BY <2>2 DEF Found
  <2> QED BY <2>1, <2>2
<1> QED BY <1>1, FS_EmptySet

\* The recording loop files the signature of the input it stands at, which is one
\* signature less to make for an input with an unsigned key of ours.
LEMMA RecordKeepsInLine ==
    ASSUME TypeOK, SameLength, WellFormed, Aligned, Progress, Belongs, RecordSignatures
    PROVE  Aligned' /\ Progress' /\ Belongs'
<1> USE NumInputsAssumption DEF PsbtInputs
<1>1. /\ pc = "record" /\ pc' \in {"prepare", "done"} /\ psbt' = psbt
      /\ p \in Nat /\ passes \in Nat /\ p' = p + 1 /\ passes' = passes
      /\ inputs' = << >> /\ to_ignore' = {}
      /\ pc' = "prepare" => p + 1 < passes /\ cursor' = 1
      /\ pc' = "done" => p + 1 >= passes
  BY DEF RecordSignatures, NextPass, TypeOK, psbtVars
<1>2. DOMAIN signatures = PsbtInputs
  BY <1>1 DEF SameLength, TypeOK, Aligned
<1>3. ASSUME NEW i \in PsbtInputs, i \notin to_ignore
      PROVE  signatures[i] = Sig(i, SigningKey(i)) /\ signatures[i] # NoSig /\ Zipped(i)
  <2>1. signatures[i] = inputs[i] /\ signatures[i] # NoSig
    BY <1>1 DEF Aligned
  <2>2. inputs[i] = Sig(i, SigningKey(i))
    BY <1>1, <1>3 DEF Aligned, Prepared
  <2> QED BY <1>2, <1>3, <2>1, <2>2 DEF Zipped
<1>4. ASSUME NEW i \in PsbtInputs, ~Unsignable(psbt[i]), Found(i)
      PROVE  i \notin to_ignore
  BY <1>1, <1>4 DEF Aligned, Prepared
<1>5. Belongs'
  <2> SUFFICES ASSUME NEW i \in PsbtInputs
               PROVE  /\ \A k \in Keys : partial_sigs'[i][k] \in {NoSig, Sig(i, k)}
                      /\ tap_key_sig'[i] \in {NoSig, Sig(i, InternalKey)}
    BY DEF Belongs
  <2>1. partial_sigs[i] \in [Keys -> {NoSig} \cup Sigs]
    BY DEF TypeOK
  <2>2. CASE Zipped(i) /\ UnsignedPositions(i) # {}
    <3>1. ~Schnorr(psbt[i]) /\ Found(i)
      BY <2>2, NothingUnsigned
    <3>2. signatures[i] = Sig(i, FirstUnsigned(i))
      BY <1>3, <2>2, <3>1 DEF Zipped, SigningKey
    <3>3. partial_sigs'[i] = [partial_sigs[i] EXCEPT ![FirstUnsigned(i)] = signatures[i]]
      BY <2>2 DEF RecordSignatures
    <3>4. \A k \in Keys : partial_sigs'[i][k] \in {NoSig, Sig(i, k)}
      BY <2>1, <3>2, <3>3 DEF Belongs
    <3>5. tap_key_sig'[i] = tap_key_sig[i]
      BY <3>1 DEF RecordSignatures, WellFormed, TapFieldsApart
    <3> QED BY <3>4, <3>5 DEF Belongs
  <2>3. CASE ~(Zipped(i) /\ UnsignedPositions(i) # {})
    <3>1. partial_sigs'[i] = partial_sigs[i]
      BY <2>3 DEF RecordSignatures
    <3>2. CASE Zipped(i) /\ psbt[i].tap # "none"
      <4>1. Schnorr(psbt[i])
        BY <3>2 DEF WellFormed, TapFieldsApart
      <4>2. signatures[i] = Sig(i, InternalKey)
        BY <1>3, <3>2, <4>1 DEF Zipped, SigningKey
      <4> QED BY <3>1, <4>2 DEF Belongs, RecordSignatures
    <3>3. CASE ~(Zipped(i) /\ psbt[i].tap # "none")
      BY <3>1, <3>3 DEF Belongs, RecordSignatures
    <3> QED BY <3>2, <3>3
  <2> QED BY <2>2, <2>3
<1>6. Aligned'
  BY <1>1 DEF Aligned, Prepared
<1>7. ASSUME NEW i \in PsbtInputs, ~Unsignable(psbt[i])
      PROVE  Cardinality(UnsignedPositions(i)') + (p + 1) <= passes
  <2>1. Cardinality(UnsignedPositions(i)) + p <= passes /\ p < passes
    BY <1>1, <1>7 DEF Progress, Prepared
  <2>2. CASE UnsignedPositions(i) = {}
    <3>1. partial_sigs'[i] = partial_sigs[i]
      BY <2>2 DEF RecordSignatures
    <3>2. UnsignedPositions(i)' = {}
      BY <1>1, <2>2, <3>1 DEF UnsignedPositions
    <3>3. Cardinality(UnsignedPositions(i)') = 0
      BY <3>2, FS_EmptySet
    <3> QED BY <1>1, <2>1, <3>3
  <2>3. CASE UnsignedPositions(i) # {}
    <3>1. ~Schnorr(psbt[i]) /\ Found(i)
      BY <2>3, NothingUnsigned
    <3>2. i \notin to_ignore /\ Zipped(i) /\ signatures[i] # NoSig
      BY <1>3, <1>4, <1>7, <3>1
    <3>3. PICK n \in UnsignedPositions(i) :
               FirstUnsigned(i) = psbt[i].hd[n] /\ FirstUnsigned(i) \in Keys
      BY <2>3, FirstUnsignedIsUnsigned
    <3>4. partial_sigs'[i] = [partial_sigs[i] EXCEPT ![psbt[i].hd[n]] = signatures[i]]
      BY <2>3, <3>2, <3>3 DEF RecordSignatures
    <3>5. psbt[i] \in Shapes /\ psbt[i].hd \in Seq(Keys)
      BY ShapesAssumption DEF TypeOK, InputShape
    <3>6. \A m \in OurPositions(psbt[i]) : psbt[i].hd[m] = psbt[i].hd[n] => m = n
      BY <3>5, DistinctKeysAssumption DEF UnsignedPositions, OurPositions
    <3>7. \A m \in OurPositions(psbt[i]) : psbt[i].hd[m] \in Keys
      BY <3>5 DEF OurPositions
    <3>8. partial_sigs[i] \in [Keys -> {NoSig} \cup Sigs]
      BY DEF TypeOK
    <3>9. UnsignedPositions(i)' = UnsignedPositions(i) \ {n}
      BY <1>1, <3>2, <3>4, <3>6, <3>7, <3>8 DEF UnsignedPositions
    <3>10. Cardinality(UnsignedPositions(i) \ {n}) = Cardinality(UnsignedPositions(i)) - 1
      BY PositionsFinite, FS_RemoveElement
    <3>11. Cardinality(UnsignedPositions(i)) \in Nat
      BY PositionsFinite
    <3> QED BY <1>1, <2>1, <3>9, <3>10, <3>11
  <2> QED BY <2>2, <2>3
<1>8. ASSUME NEW i \in PsbtInputs, ~Unsignable(psbt[i]), psbt[i].tap = "ours"
      PROVE  tap_key_sig'[i] # NoSig
  <2>1. Schnorr(psbt[i]) /\ Found(i)
    BY <1>8 DEF WellFormed, TapFieldsApart, Found
  <2>2. Zipped(i) /\ signatures[i] # NoSig
    BY <1>3, <1>4, <1>8, <2>1
  <2> QED BY <1>8, <2>2 DEF RecordSignatures
<1>9. Progress'
  BY <1>1, <1>7, <1>8 DEF Progress, Prepared
<1> QED BY <1>5, <1>6, <1>9

\* Every step keeps the inputs, the signatures and the passes in line.
LEMMA StepKeepsInLine ==
    ASSUME TypeOK, SameLength, WellFormed, Aligned, Progress, Belongs, Next
    PROVE  Aligned' /\ Progress' /\ Belongs'
<1> USE NumInputsAssumption DEF PsbtInputs
<1>0. /\ NumInputs \in Nat /\ cursor \in 1..(NumInputs + 1)
      /\ passes \in Nat /\ p \in Nat
      /\ inputs \in Seq(Sigs) /\ to_ignore \subseteq PsbtInputs
      /\ \A i \in PsbtInputs : Cardinality(UnsignedPositions(i)) \in Nat
  BY PositionsFinite DEF TypeOK
<1>a. ASSUME UNCHANGED <<psbtVars, sigVars>>
      PROVE  /\ Belongs'
             /\ \A i \in PsbtInputs :
                   /\ UnsignedPositions(i)' = UnsignedPositions(i)
                   /\ Found(i)' = Found(i)
                   /\ SigningKey(i)' = SigningKey(i)
                   /\ psbt'[i] = psbt[i] /\ tap_key_sig'[i] = tap_key_sig[i]
  BY <1>a, SearchUnchanged DEF Belongs, psbtVars, sigVars
<1>1. CASE StartSigning
  <2>1. UNCHANGED <<psbtVars, sigVars>>
    BY <1>1 DEF StartSigning
  <2>2. /\ inputs' = << >> /\ to_ignore' = {} /\ pc' = "prepare"
        /\ cursor' = 1 /\ p' = 0 /\ passes' = 1
    BY <1>1 DEF StartSigning, Aligned
  <2>3. Aligned'
    BY <2>2 DEF Aligned, Prepared
  <2>4. Progress'
    BY <2>2 DEF Progress, Prepared
  <2> QED BY <1>a, <2>1, <2>3, <2>4
<1>2. ASSUME pc' = "failed", UNCHANGED <<psbtVars, sigVars, passVars>>
      PROVE  Aligned' /\ Progress' /\ Belongs'
  <2>1. Aligned'
    BY <1>2 DEF Aligned, Prepared
  <2>2. p' = p /\ passes' = passes
    BY <1>2 DEF passVars
  <2>3. Progress'
    BY <1>0, <1>a, <1>2, <2>2 DEF Progress, Prepared
  <2> QED BY <1>a, <1>2, <2>1, <2>3
<1>3. CASE SkipInput
  BY <1>3 DEF SkipInput, AtInput, WellFormed
<1>4. CASE IgnoreInput \/ AddInput
  <2>1. UNCHANGED <<psbtVars, sigVars>>
    BY <1>4 DEF IgnoreInput, AddInput
  <2>2. /\ pc = "prepare" /\ pc' = "prepare" /\ cursor \in PsbtInputs
        /\ to_ignore' \in {to_ignore, to_ignore \cup {cursor}}
        /\ cursor' = cursor + 1 /\ p' = p /\ passes' = PassesAfter(cursor)
    BY <1>4 DEF IgnoreInput, AddInput, AtInput
  <2>3. PICK k \in {DummyKey, SigningKey(cursor)} :
             /\ inputs' = Append(inputs, Sig(cursor, k))
             /\ cursor \notin to_ignore' => k = SigningKey(cursor) /\ Found(cursor)
    BY <1>4 DEF IgnoreInput, AddInput
  <2>4. Len(inputs) = cursor - 1 /\ cursor \notin to_ignore
    BY <1>0, <2>2 DEF Aligned
  <2>5. ~Unsignable(psbt[cursor]) /\ Found(cursor) => cursor \notin to_ignore'
    BY <1>4, <2>4 DEF IgnoreInput, AddInput, Foreign
  <2>6. passes' \in Nat /\ passes' >= passes
    BY <1>0, <2>2, PositionsFinite DEF PassesAfter
  <2>7. ~Unsignable(psbt[cursor]) => Cardinality(UnsignedPositions(cursor)) <= passes'
    <3>1. CASE Schnorr(psbt[cursor])
      BY <2>2, <2>6, <3>1, NothingUnsigned
    <3>2. CASE ~Schnorr(psbt[cursor])
      BY <1>0, <2>2, <3>2 DEF PassesAfter, OurKeyCount
    <3> QED BY <3>1, <3>2
  <2>8. Aligned'
    <3>1. Len(inputs') = cursor' - 1 /\ \A i \in to_ignore' : i < cursor'
      BY <1>0, <2>2, <2>3, <2>4 DEF Aligned
    <3>2. ASSUME NEW i \in PsbtInputs, i < cursor'
          PROVE  /\ i \notin to_ignore' => inputs'[i] = Sig(i, SigningKey(i)) /\ Found(i)
                 /\ ~Unsignable(psbt[i]) /\ Found(i) => i \notin to_ignore'
      <4>1. CASE i = cursor
        <5>1. inputs'[cursor] = Sig(cursor, k)
          BY <1>0, <2>3, <2>4
        <5> QED BY <2>3, <2>5, <4>1, <5>1
      <4>2. CASE i < cursor
        <5>1. inputs'[i] = inputs[i]
          BY <1>0, <2>3, <2>4, <4>2
        <5> QED BY <2>2, <4>2, <5>1 DEF Aligned, Prepared
      <4> QED BY <1>0, <2>2, <3>2, <4>1, <4>2
    <3> QED BY <1>a, <2>1, <2>2, <3>1, <3>2 DEF Aligned, Prepared
  <2>9. Progress'
    <3>1. ASSUME NEW i \in PsbtInputs, ~Unsignable(psbt[i]), i < cursor' \/ p >= 1
          PROVE  Cardinality(UnsignedPositions(i)) + p <= passes'
      <4>1. CASE p = 0 /\ i = cursor
        BY <1>0, <2>2, <2>7, <3>1, <4>1
      <4>2. CASE p >= 1 \/ i < cursor
        <5>1. Cardinality(UnsignedPositions(i)) + p <= passes
          BY <1>0, <2>2, <3>1, <4>2 DEF Progress, Prepared
        <5> QED BY <1>0, <2>6, <5>1
      <4> QED BY <1>0, <2>2, <3>1, <4>1, <4>2
    <3>2. p' < passes'
      BY <1>0, <2>2, <2>6 DEF Progress
    <3> QED BY <1>a, <2>1, <2>2, <3>1, <3>2 DEF Progress, Prepared
  <2> QED BY <1>a, <2>1, <2>8, <2>9
<1>5. CASE InputsPrepared
  <2>1. /\ UNCHANGED <<psbtVars, sigVars, passVars>>
        /\ pc = "prepare" /\ pc' = "outputs" /\ cursor = NumInputs + 1
        /\ inputs' = inputs /\ to_ignore' = to_ignore
    BY <1>5 DEF InputsPrepared
  <2>2. \A i \in PsbtInputs : Prepared(i)
    BY <2>1 DEF Prepared
  <2>3. Aligned'
    BY <1>a, <2>1, <2>2 DEF Aligned
  <2>4. Progress'
    BY <1>a, <2>1, <2>2 DEF Progress, passVars
  <2> QED BY <1>a, <2>1, <2>3, <2>4
<1>6. ASSUME /\ pc \in {"outputs", "sign"} /\ pc' \in {"sign", "record"}
             /\ UNCHANGED <<psbtVars, sigVars, passVars, inputs, to_ignore>>
             /\ \A i \in PsbtInputs : signatures'[i] \in {NoSig, inputs[i]}
             /\ pc' = "record" => \A i \in PsbtInputs : signatures'[i] # NoSig
      PROVE  Aligned' /\ Progress' /\ Belongs'
  <2>1. \A i \in PsbtInputs : Prepared(i)
    BY <1>6 DEF Prepared
  <2>2. Aligned'
    BY <1>a, <1>6, <2>1 DEF Aligned
  <2>3. Progress'
    BY <1>a, <1>6, <2>1 DEF Progress, passVars
  <2> QED BY <1>a, <1>6, <2>2, <2>3
<1>7. CASE PrepareOutputs
  <2>1. CASE pc' = "failed"
    BY <1>2, <1>7, <2>1 DEF PrepareOutputs
  <2>2. CASE pc' # "failed"
    <3>1. Len(inputs) = NumInputs /\ signatures' = [j \in 1..Len(inputs) |-> NoSig]
      BY <1>7, <2>2 DEF PrepareOutputs, Aligned
    <3> QED BY <1>6, <1>7, <2>2, <3>1 DEF PrepareOutputs
  <2> QED BY <2>1, <2>2
<1>8. ASSUME NEW j \in PsbtInputs, DeviceSignature(j)
      PROVE  Aligned' /\ Progress' /\ Belongs'
  <2>1. CASE pc' = "failed"
    BY <1>2, <1>8, <2>1 DEF DeviceSignature
  <2>2. CASE pc' # "failed"
    <3>1. /\ pc = "sign" /\ pc' = "sign"
          /\ UNCHANGED <<psbtVars, sigVars, passVars, inputs, to_ignore>>
          /\ signatures' = [signatures EXCEPT ![j] = inputs[j]]
      BY <1>8, <2>2 DEF DeviceSignature
    <3>2. DOMAIN signatures = PsbtInputs
      BY <3>1 DEF SameLength, TypeOK, Aligned
    <3>3. \A i \in PsbtInputs : signatures'[i] \in {NoSig, inputs[i]}
      BY <3>1, <3>2 DEF Aligned
    <3> QED BY <1>6, <3>1, <3>3
  <2> QED BY <2>1, <2>2
<1>9. CASE TxFinished
  <2>1. CASE pc' = "failed"
    BY <1>2, <1>9, <2>1 DEF TxFinished
  <2>2. CASE pc' # "failed"
    <3>1. /\ pc = "sign" /\ pc' = "record"
          /\ UNCHANGED <<psbtVars, sigVars, passVars, inputs, to_ignore, signatures>>
          /\ \A j \in DOMAIN signatures : signatures[j] # NoSig
      BY <1>9, <2>2 DEF TxFinished
    <3>2. DOMAIN signatures = PsbtInputs
      BY <3>1 DEF SameLength, TypeOK, Aligned
    <3> QED BY <1>6, <3>1, <3>2 DEF Aligned
  <2> QED BY <2>1, <2>2
<1>10. CASE RecordSignatures
  BY <1>10, RecordKeepsInLine
<1>11. CASE RefuseToStart \/ RejectInput \/ DeviceAbort
  BY <1>2, <1>11 DEF RefuseToStart, RejectInput, DeviceAbort
<1>12. CASE Finished
  <2>1. UNCHANGED vars
    BY <1>12 DEF Finished
  <2>2. Aligned' /\ Progress'
    BY <1>12 DEF Finished, vars, Aligned, Progress, Prepared, Found, SigningKey, UnsignedPositions, FirstUnsigned, LastOurs
  <2> QED BY <1>a, <2>1, <2>2 DEF vars, psbtVars, sigVars
<1> QED BY <1>1, <1>3, <1>4, <1>5, <1>7, <1>8, <1>9, <1>10, <1>11, <1>12
        DEF Next, HostNext, DeviceNext

\* Every step keeps positions, keys and signatures in line.
LEMMA IInvInductive == TypeOK /\ SameLength /\ IInv /\ [Next]_vars => IInv'
<1> SUFFICES ASSUME TypeOK, SameLength, IInv, [Next]_vars PROVE IInv'
  OBVIOUS
<1>1. CASE UNCHANGED vars
  <2>1. UNCHANGED <<psbtVars, sigVars>>
    BY <1>1 DEF vars, psbtVars, sigVars
  <2>2. \A i \in PsbtInputs : /\ UnsignedPositions(i)' = UnsignedPositions(i)
                              /\ Found(i)' = Found(i)
                              /\ SigningKey(i)' = SigningKey(i)
    BY <2>1, SearchUnchanged
  <2>3. (WellFormed' = WellFormed) /\ (Belongs' = Belongs)
    BY <1>1 DEF vars, WellFormed, Belongs
  <2>4. Aligned => Aligned'
    BY <1>1, <2>2 DEF vars, Aligned, Prepared
  <2>5. Progress => Progress'
    BY <1>1, <2>2 DEF vars, Progress, Prepared
  <2> QED BY <2>3, <2>4, <2>5 DEF IInv
<1>2. CASE Next
  <2>1. psbt' = psbt
    BY <1>2 DEF Next, HostNext, DeviceNext, StartSigning, RefuseToStart, SkipInput,
                RejectInput, IgnoreInput, AddInput, InputsPrepared, PrepareOutputs,
                RecordSignatures, DeviceSignature, TxFinished, DeviceAbort, Finished,
                vars, psbtVars
  <2>2. WellFormed' = WellFormed
    BY <2>1 DEF WellFormed
  <2> QED BY <1>2, <2>2, StepKeepsInLine DEF IInv
<1> QED BY <1>1, <1>2

\* Nothing is prepared and nothing is signed at first.
LEMMA IInvInitial == Init => IInv
<1> SUFFICES ASSUME Init, WellFormed PROVE Aligned /\ Progress /\ Belongs
  BY DEF IInv
<1>1. Belongs
  BY DEF Init, Belongs
<1>2. Aligned /\ Progress
  BY DEF Init, Aligned, Progress, Prepared
<1> QED BY <1>1, <1>2

\* They are in line in every behaviour.
LEMMA InLine == Spec => [](TypeOK /\ IInv)
<1>1. Init => TypeOK /\ SameLength /\ IInv
  BY TypeInitial, IInvInitial
<1>2. TypeOK /\ SameLength /\ IInv /\ [Next]_vars => (TypeOK /\ SameLength /\ IInv)'
  BY TypeInductive, IInvInductive
<1> QED BY <1>1, <1>2, PTL DEF Spec

\* In a PSBT without missing pieces, however many inputs and passes there are and in
\* whatever order the device delivers, a signature only ever stands under the input and
\* the key it was made with.
THEOREM SignaturesAlwaysBelong == Spec => []SignaturesBelong
<1>1. IInv => SignaturesBelong
  BY DEF IInv, SignaturesBelong
<1> QED BY <1>1, InLine, PTL

\* When sign_tx returns such a PSBT, no key of ours is left without a signature: the
\* number of passes, fixed while the inputs are first prepared, was large enough.
THEOREM ReturnsFullySigned == Spec => []AllOurKeysSigned
<1>1. TypeOK /\ IInv => AllOurKeysSigned
  <2> SUFFICES ASSUME TypeOK, IInv, pc = "done", WellFormed,
                      NEW i \in PsbtInputs, ~Unsignable(psbt[i])
               PROVE  /\ UnsignedPositions(i) = {}
                      /\ psbt[i].tap = "ours" => tap_key_sig[i] # NoSig
    BY DEF AllOurKeysSigned
  <2>1. /\ IsFiniteSet(UnsignedPositions(i))
        /\ Cardinality(UnsignedPositions(i)) \in Nat
        /\ p \in Nat /\ passes \in Nat
    BY PositionsFinite DEF TypeOK
  <2>2. p >= passes /\ p >= 1 /\ Cardinality(UnsignedPositions(i)) + p <= passes
    BY DEF IInv, Progress
  <2>3. Cardinality(UnsignedPositions(i)) = 0
    BY <2>1, <2>2
  <2>4. UnsignedPositions(i) = {}
    BY <2>1, <2>3, FS_EmptySet
  <2> QED BY <2>2, <2>4 DEF IInv, Progress
<1> QED BY <1>1, InLine, PTL

-----------------------------------------------------------------------------
(* No pass is wasted: some input still lacks as many signatures as there   *)
(* are passes left, if there was ever more than one.                       *)

Needed ==
    \/ passes <= 1
    \/ \E i \in PsbtInputs :
          ~Unsignable(psbt[i]) /\ Cardinality(UnsignedPositions(i)) + p >= passes

\* Recording files at most one signature per input, so that an input lacks at least all
\* but one of those it lacked before.
LEMMA RecordLeaves ==
    ASSUME TypeOK, RecordSignatures, NEW i \in PsbtInputs
    PROVE  /\ Cardinality(UnsignedPositions(i))' \in Nat
           /\ Cardinality(UnsignedPositions(i))' + 1 >= Cardinality(UnsignedPositions(i))
<1> DEFINE old == UnsignedPositions(i)
           new == UnsignedPositions(i)'
<1>1. psbt' = psbt /\ IsFiniteSet(old) /\ Cardinality(old) \in Nat
  BY PositionsFinite DEF RecordSignatures, psbtVars
<1>2. CASE UnsignedPositions(i) = {} \/ ~Zipped(i)
  <2>1. partial_sigs'[i] = partial_sigs[i]
    BY <1>2 DEF RecordSignatures
  <2>2. new = old
    BY <1>1, <2>1 DEF UnsignedPositions
  <2> QED BY <1>1, <2>2
<1>3. CASE UnsignedPositions(i) # {} /\ Zipped(i)
  <2>1. PICK n \in UnsignedPositions(i) :
             FirstUnsigned(i) = psbt[i].hd[n] /\ FirstUnsigned(i) \in Keys
    BY <1>3, FirstUnsignedIsUnsigned
  <2>2. partial_sigs'[i] = [partial_sigs[i] EXCEPT ![psbt[i].hd[n]] = signatures[i]]
    BY <1>3, <2>1 DEF RecordSignatures
  <2>3. psbt[i] \in Shapes /\ psbt[i].hd \in Seq(Keys)
    BY ShapesAssumption DEF TypeOK, InputShape
  <2>4. \A m \in OurPositions(psbt[i]) : psbt[i].hd[m] = psbt[i].hd[n] => m = n
    BY <2>3, DistinctKeysAssumption DEF UnsignedPositions, OurPositions
  <2>5. \A m \in OurPositions(psbt[i]) : psbt[i].hd[m] \in Keys
    BY <2>3 DEF OurPositions
  <2>6. partial_sigs[i] \in [Keys -> {NoSig} \cup Sigs]
    BY DEF TypeOK
  <2>7. new = old \/ new = old \ {n}
    <3>1. CASE signatures[i] = NoSig
      <4>1. partial_sigs'[i] = partial_sigs[i]
        <5>1. partial_sigs[i][psbt[i].hd[n]] = NoSig
          BY DEF UnsignedPositions
        <5> QED BY <2>2, <2>6, <3>1, <5>1
      <4> QED BY <1>1, <4>1 DEF UnsignedPositions
    <3>2. CASE signatures[i] # NoSig
      BY <1>1, <2>2, <2>4, <2>5, <2>6, <3>2 DEF UnsignedPositions
    <3> QED BY <3>1, <3>2
  <2>8. Cardinality(old \ {n}) = Cardinality(old) - 1 /\ Cardinality(old \ {n}) \in Nat
    <3>1. Cardinality(old \ {n}) = Cardinality(old) - 1 /\ IsFiniteSet(old \ {n})
      BY <1>1, FS_RemoveElement
    <3> QED BY <3>1, FS_CardinalityType
  <2> QED BY <1>1, <2>7, <2>8
<1> QED BY <1>2, <1>3

\* Every step keeps some input in need of the passes left.
LEMMA NeededInductive ==
    TypeOK /\ IInv /\ WellFormed /\ Needed /\ [Next]_vars => Needed'
<1> SUFFICES ASSUME TypeOK, IInv, WellFormed, Needed, [Next]_vars PROVE Needed'
  OBVIOUS
<1>0. /\ passes \in Nat /\ p \in Nat /\ Progress
      /\ \A i \in PsbtInputs : Cardinality(UnsignedPositions(i)) \in Nat
  BY PositionsFinite DEF TypeOK, IInv
<1>1. ASSUME UNCHANGED <<psbtVars, sigVars, passVars>> PROVE Needed'
  <2>1. /\ psbt' = psbt /\ passes' = passes /\ p' = p
        /\ \A i \in PsbtInputs : UnsignedPositions(i)' = UnsignedPositions(i)
    BY <1>1, SearchUnchanged DEF psbtVars, passVars
  <2>2. \A i \in PsbtInputs : Unsignable(psbt[i])' <=> Unsignable(psbt[i])
    BY <2>1
  <2> QED BY <2>1, <2>2 DEF Needed
<1>2. CASE StartSigning
  BY <1>2 DEF StartSigning, Needed
<1>3. CASE IgnoreInput \/ AddInput
  <2>1. /\ UNCHANGED <<psbtVars, sigVars>> /\ pc = "prepare" /\ cursor \in PsbtInputs
        /\ p' = p /\ passes' = PassesAfter(cursor)
    BY <1>3 DEF IgnoreInput, AddInput, AtInput
  <2>2. CASE passes' = passes
    BY <1>1, <2>1, <2>2 DEF passVars
  <2>3. CASE passes' # passes
    <3>1. PICK c \in PsbtInputs : c = cursor
      BY <2>1
    <3>2. ~Unsignable(psbt[c]) /\ passes' = OurKeyCount(c) /\ OurKeyCount(c) > passes
      BY <2>1, <2>3, <3>1 DEF PassesAfter
    <3>3. passes >= 1
      BY <1>0, <2>1 DEF Progress
    <3>4. passes' = Cardinality(UnsignedPositions(c))
      BY <1>0, <3>2, <3>3 DEF OurKeyCount
    <3>5. psbt' = psbt /\ UnsignedPositions(c)' = UnsignedPositions(c)
      BY <2>1, SearchUnchanged DEF psbtVars
    <3>6. Cardinality(UnsignedPositions(c))' + p' >= passes'
      BY <1>0, <2>1, <3>4, <3>5
    <3>7. ~Unsignable(psbt'[c])
      BY <3>2, <3>5
    <3> QED BY <3>6, <3>7 DEF Needed
  <2> QED BY <2>2, <2>3
<1>4. CASE RecordSignatures
  <2>1. psbt' = psbt /\ passes' = passes /\ p' = p + 1
    BY <1>4 DEF RecordSignatures, NextPass, psbtVars
  <2>2. CASE passes <= 1
    BY <2>1, <2>2 DEF Needed
  <2>3. CASE ~(passes <= 1)
    <3>1. PICK i \in PsbtInputs :
               ~Unsignable(psbt[i]) /\ Cardinality(UnsignedPositions(i)) + p >= passes
      BY <2>3 DEF Needed
    <3>2. /\ Cardinality(UnsignedPositions(i))' \in Nat
          /\ Cardinality(UnsignedPositions(i))' + 1 >= Cardinality(UnsignedPositions(i))
      BY <1>4, RecordLeaves
    <3>3. Cardinality(UnsignedPositions(i))' + p' >= passes'
      BY <1>0, <2>1, <3>1, <3>2
    <3>4. ~Unsignable(psbt'[i])
      BY <2>1, <3>1
    <3> QED BY <3>3, <3>4 DEF Needed
  <2> QED BY <2>2, <2>3
<1>5. CASE \/ RefuseToStart \/ SkipInput \/ RejectInput \/ InputsPrepared \/ PrepareOutputs
           \/ (\E j \in PsbtInputs : DeviceSignature(j)) \/ TxFinished \/ DeviceAbort \/ Finished
  <2>1. UNCHANGED <<psbtVars, sigVars, passVars>>
    BY <1>5 DEF RefuseToStart, SkipInput, RejectInput, InputsPrepared, PrepareOutputs,
                DeviceSignature, TxFinished, DeviceAbort, Finished, vars, psbtVars, sigVars, passVars
  <2> QED BY <1>1, <2>1
<1>6. CASE UNCHANGED vars
  BY <1>1, <1>6 DEF vars, psbtVars, sigVars, passVars
<1> QED BY <1>2, <1>3, <1>4, <1>5, <1>6 DEF Next, HostNext, DeviceNext

\* A pass after the first records a signature.
LEMMA PassRecords ==
    ASSUME TypeOK, SameLength, IInv, WellFormed, Needed, Next, pc = "record", p >= 1
    PROVE  partial_sigs' # partial_sigs
<1>1. RecordSignatures
  BY DEF Next, HostNext, DeviceNext, StartSigning, RefuseToStart, SkipInput, RejectInput,
         IgnoreInput, AddInput, AtInput, InputsPrepared, PrepareOutputs, DeviceSignature,
         TxFinished, DeviceAbort, Finished
<1>2. passes \in Nat /\ p \in Nat /\ p < passes /\ Aligned
  BY DEF TypeOK, IInv, Progress
<1>3. PICK i \in PsbtInputs :
           ~Unsignable(psbt[i]) /\ Cardinality(UnsignedPositions(i)) + p >= passes
  BY <1>2 DEF Needed
<1>4. Cardinality(UnsignedPositions(i)) # 0
  BY <1>2, <1>3, PositionsFinite
<1>5. UnsignedPositions(i) # {}
  BY <1>4, FS_EmptySet
<1>6. Found(i)
  BY <1>5, NothingUnsigned
<1>7. i \notin to_ignore /\ signatures[i] # NoSig
  BY <1>2, <1>3, <1>6 DEF Aligned, Prepared
<1>8. i \in DOMAIN signatures
  BY <1>2, NumInputsAssumption DEF SameLength, TypeOK, Aligned, PsbtInputs
<1>9. partial_sigs'[i] = [partial_sigs[i] EXCEPT ![FirstUnsigned(i)] = signatures[i]]
  BY <1>1, <1>5, <1>7, <1>8 DEF RecordSignatures, Zipped
<1>10. FirstUnsigned(i) \in Keys /\ partial_sigs[i][FirstUnsigned(i)] = NoSig
  BY <1>5, FirstUnsignedIsUnsigned
<1>11. partial_sigs[i] \in [Keys -> {NoSig} \cup Sigs]
  BY DEF TypeOK
<1>12. partial_sigs'[i][FirstUnsigned(i)] # partial_sigs[i][FirstUnsigned(i)]
  BY <1>7, <1>9, <1>10, <1>11
<1> QED BY <1>12

\* In a PSBT without missing pieces, for any number of inputs and keys, every pass after
\* the first, each of which costs the user a confirmation, records a signature that was
\* missing: the number of passes is not larger than it has to be.
THEOREM PassesAreNeeded == Spec => NoWastedPass
<1>1. Init => TypeOK /\ SameLength /\ IInv /\ (WellFormed => Needed)
  <2>1. Init => Needed
    BY DEF Init, Needed
  <2> QED BY <2>1, TypeInitial, IInvInitial
<1>2. /\ TypeOK /\ SameLength /\ IInv /\ (WellFormed => Needed)
      /\ [Next]_vars
      => (TypeOK /\ SameLength /\ IInv /\ (WellFormed => Needed))'
  <2>1. [Next]_vars => (WellFormed' => WellFormed)
    BY DEF Next, HostNext, DeviceNext, StartSigning, RefuseToStart, SkipInput,
           RejectInput, IgnoreInput, AddInput, InputsPrepared, PrepareOutputs,
           RecordSignatures, DeviceSignature, TxFinished, DeviceAbort, Finished,
           vars, psbtVars, WellFormed
  <2> QED BY <2>1, TypeInductive, IInvInductive, NeededInductive
<1>3. /\ TypeOK /\ SameLength /\ IInv /\ (WellFormed => Needed) /\ [Next]_vars
      => [pc = "record" /\ p >= 1 /\ WellFormed => partial_sigs' # partial_sigs]_vars
  BY PassRecords
<1> QED BY <1>1, <1>2, <1>3, PTL DEF Spec, NoWastedPass
=============================================================================
