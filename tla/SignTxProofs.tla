---------------------------- MODULE SignTxProofs ----------------------------
(***************************************************************************)
(* Proofs about SignTx, for any files, clients, wallets, policies, passes  *)
(* and devices one after another: every device is asked to sign the        *)
(* transaction of the user's file.                                         *)
(*                                                                         *)
(* The argument: reading gives a PSBT whose maps have no field twice       *)
(* (IsPsbt) and whose fields spell out a transaction (Spells); for version *)
(* 0 because setup_from_tx writes the transaction into the maps, for       *)
(* version 2 because the loop over the lock times computes what BIP 370    *)
(* says.  What serialize leaves out spells nothing, so that a PSBT that    *)
(* was written and read again spells out the same transaction.             *)
(***************************************************************************)
EXTENDS SignTx, FiniteSetTheorems, SequenceTheorems, WellFoundedInduction, TLAPS

----------------------------------------------------------------------------
(* The invariant                                                           *)

Psbts == [version : Nat, explicit : BOOLEAN, tx : Transactions, fields : Seq(Fields),
          inputs : Seq(Seq(Fields)), outputs : Seq(Seq(Fields))]

\* A map as the reader leaves it: no field twice, keys where keys belong, and
\* lock times above zero.
IsMap(m) ==
    /\ m \in Seq(Fields)
    /\ \A i, j \in 1..Len(m) : m[i].t = m[j].t /\ m[i].k = m[j].k => i = j
    /\ \A i \in 1..Len(m) : m[i].t \in KeyedTypes <=> m[i].k # NoKey
    /\ \A i \in 1..Len(m) : m[i].t \in {"time_locktime", "height_locktime"} => m[i].v > 0

IsPsbt(p) ==
    /\ p \in Psbts
    /\ IsMap(p.fields)
    /\ \A i \in 1..Len(p.inputs) : IsMap(p.inputs[i])
    /\ \A i \in 1..Len(p.outputs) : IsMap(p.outputs[i])
    /\ p.version = 0 => Len(p.inputs) = Len(p.tx.vin) /\ Len(p.outputs) = Len(p.tx.vout)
    /\ p.version # 1

\* The transaction that the fields of a PSBT spell out, and that of version 0
\* has beside them.
Spells(p, tx) ==
    /\ AssembledTx(p, ReferenceLockTime(p)) = tx
    /\ p.version = 0 => p.tx = tx

Holds(p) == IsPsbt(p) /\ Spells(p, original)

IInv ==
    /\ IsFile(file)
    /\ round \in Nat \ {0}
    /\ stage \notin {"start", "unreadable", "refused"} => Holds(psbt)
    /\ stage = "start" => IF round = 1 THEN shown = {} ELSE Holds(psbt) /\ file = serialize(psbt)
    /\ stage = "wallets" => Holds(copy) /\ Len(copy.inputs) = Len(psbt.inputs)
    /\ stage = "printed" => result = serialize(psbt)
    /\ queue \in Seq(Nat \X (Nat \ {0}))
    /\ DeviceSignsTransaction

----------------------------------------------------------------------------
(* Induction                                                               *)

\* The least number principle, from the theorem that < is well founded.
LEMMA Least ==
    ASSUME NEW T, T \subseteq Nat, T # {}
    PROVE  \E x \in T : \A y \in T : x <= y
<1>1. IsWellFoundedOn(OpToRel(<, Nat), Nat)
  BY NatLessThanWellFounded
<1> DEFINE R == OpToRel(<, Nat)
<1>2. \A x, y \in Nat : y < x => <<y, x>> \in R
  BY DEF OpToRel
<1>3. IsWellFoundedOn(R, Nat)
  BY <1>1
<1> HIDE DEF R
<1>4. \E x \in T : \A y \in T : ~ (<<y, x>> \in R)
  BY <1>3, WFMin
<1>5. PICK x \in T : \A y \in T : ~ (<<y, x>> \in R)
  BY <1>4
<1>6. ASSUME NEW y \in T PROVE x <= y
  <2>1. x \in Nat /\ y \in Nat
    OBVIOUS
  <2>2. ~(y < x)
    BY <1>2, <1>5, <2>1
  <2> QED BY <2>1, <2>2
<1> QED BY <1>6

\* Induction, with the property as a set of numbers.
LEMMA Induction ==
    ASSUME NEW T, 0 \in T, \A n \in Nat : n \in T => n + 1 \in T
    PROVE  \A n \in Nat : n \in T
<1> SUFFICES ASSUME Nat \ T # {} PROVE FALSE
  OBVIOUS
<1>1. PICK x \in Nat \ T : \A y \in Nat \ T : x <= y
  BY Least
<1>2. x \in Nat /\ x # 0
  OBVIOUS
<1>3. x - 1 \in Nat /\ ~(x <= x - 1)
  BY <1>2
<1>4. x - 1 \in T
  BY <1>1, <1>3
<1>5. (x - 1) + 1 \in T
  BY <1>3, <1>4
<1> QED BY <1>2, <1>5

----------------------------------------------------------------------------
(* The loops.  For each of them: there is a run of the loop over a         *)
(* sequence, and Folded is its last value.                                 *)

\* The loop over the fields of a file.
ReadRun(u, b, s, n) ==
    /\ u = [m \in 0..n |-> u[m]]
    /\ u[0] = b
    /\ \A m \in 1..n : u[m] = ReadItem(u[m - 1], s[m])

LEMMA ReadRuns ==
    ASSUME NEW b, NEW s, NEW n \in Nat
    PROVE  \E u : ReadRun(u, b, s, n)
<1> DEFINE T == {m \in Nat : \E u : ReadRun(u, b, s, m)}
<1>1. 0 \in T
  <2> DEFINE u == [m \in 0..0 |-> b]
  <2>1. ReadRun(u, b, s, 0)
    BY DEF ReadRun
  <2> QED BY <2>1
<1>2. ASSUME NEW m \in Nat, m \in T PROVE m + 1 \in T
  <2>1. PICK u : ReadRun(u, b, s, m)
    BY <1>2
  <2> DEFINE w == [k \in 0..(m + 1) |-> IF k = m + 1 THEN ReadItem(u[m], s[m + 1]) ELSE u[k]]
  <2>2. w = [k \in 0..(m + 1) |-> w[k]] /\ w[0] = b
    BY <2>1 DEF ReadRun
  <2>3. ASSUME NEW k \in 1..(m + 1) PROVE w[k] = ReadItem(w[k - 1], s[k])
    <3>1. CASE k = m + 1
      BY <3>1
    <3>2. CASE k # m + 1
      <4>1. k \in 1..m /\ k - 1 \in 0..m
        BY <3>2
      <4>2. w[k] = u[k] /\ w[k - 1] = u[k - 1]
        BY <4>1
      <4> QED BY <2>1, <4>1, <4>2 DEF ReadRun
    <3> QED BY <3>1, <3>2
  <2>4. ReadRun(w, b, s, m + 1)
    BY <2>2, <2>3 DEF ReadRun
  <2> QED BY <2>4
<1> HIDE DEF T
<1>3. n \in T
  BY <1>1, <1>2, Induction
<1> QED BY <1>3 DEF T

LEMMA ReadFolded ==
    ASSUME NEW b, NEW s, Len(s) \in Nat
    PROVE  \E u : ReadRun(u, b, s, Len(s)) /\ Folded(ReadItem, b, s) = u[Len(s)]
<1> DEFINE L == Len(s)
           G(u) == [n \in 0..L |-> IF n = 0 THEN b
                       ELSE CHOOSE value \in {ReadItem(acc, s[n]) : acc \in {u[n - 1]}} : TRUE]
<1>1. PICK u : ReadRun(u, b, s, L)
  BY ReadRuns
<1>2. ASSUME NEW y, NEW x
      PROVE  (CHOOSE value \in {ReadItem(acc, x) : acc \in {y}} : TRUE) = ReadItem(y, x)
  <2>1. {ReadItem(acc, x) : acc \in {y}} = {ReadItem(y, x)}
    OBVIOUS
  <2>2. \E value : value \in {ReadItem(acc, x) : acc \in {y}}
    BY <2>1
  <2> QED BY <2>1, <2>2
<1>3. ASSUME NEW w
      PROVE  G(w) = [n \in 0..L |-> IF n = 0 THEN b ELSE ReadItem(w[n - 1], s[n])]
  BY <1>2, Zenon
<1>4. u = G(u)
  <2>1. [n \in 0..L |-> IF n = 0 THEN b ELSE ReadItem(u[n - 1], s[n])] = [n \in 0..L |-> u[n]]
    BY <1>1 DEF ReadRun
  <2> QED BY <1>1, <1>3, <2>1 DEF ReadRun
<1>5. PICK w : w = CHOOSE v : v = G(v)
  OBVIOUS
<1>6. Folded(ReadItem, b, s) = w[L]
  BY <1>5 DEF Folded
<1> HIDE DEF G
<1>7. w = G(w)
  BY <1>4, <1>5, Zenon
<1>8. ReadRun(w, b, s, L)
  <2>1. w = [n \in 0..L |-> IF n = 0 THEN b ELSE ReadItem(w[n - 1], s[n])]
    BY <1>3, <1>7
  <2> QED BY <2>1 DEF ReadRun
<1> QED BY <1>6, <1>8

\* The loop over the lock times.
LockRun(u, b, s, n) ==
    /\ u = [m \in 0..n |-> u[m]]
    /\ u[0] = b
    /\ \A m \in 1..n : u[m] = LockStep(u[m - 1], s[m])

LEMMA LockRuns ==
    ASSUME NEW b, NEW s, NEW n \in Nat
    PROVE  \E u : LockRun(u, b, s, n)
<1> DEFINE T == {m \in Nat : \E u : LockRun(u, b, s, m)}
<1>1. 0 \in T
  <2> DEFINE u == [m \in 0..0 |-> b]
  <2>1. LockRun(u, b, s, 0)
    BY DEF LockRun
  <2> QED BY <2>1
<1>2. ASSUME NEW m \in Nat, m \in T PROVE m + 1 \in T
  <2>1. PICK u : LockRun(u, b, s, m)
    BY <1>2
  <2> DEFINE w == [k \in 0..(m + 1) |-> IF k = m + 1 THEN LockStep(u[m], s[m + 1]) ELSE u[k]]
  <2>2. w = [k \in 0..(m + 1) |-> w[k]] /\ w[0] = b
    BY <2>1 DEF LockRun
  <2>3. ASSUME NEW k \in 1..(m + 1) PROVE w[k] = LockStep(w[k - 1], s[k])
    <3>1. CASE k = m + 1
      BY <3>1
    <3>2. CASE k # m + 1
      <4>1. k \in 1..m /\ k - 1 \in 0..m
        BY <3>2
      <4>2. w[k] = u[k] /\ w[k - 1] = u[k - 1]
        BY <4>1
      <4> QED BY <2>1, <4>1, <4>2 DEF LockRun
    <3> QED BY <3>1, <3>2
  <2>4. LockRun(w, b, s, m + 1)
    BY <2>2, <2>3 DEF LockRun
  <2> QED BY <2>4
<1> HIDE DEF T
<1>3. n \in T
  BY <1>1, <1>2, Induction
<1> QED BY <1>3 DEF T

LEMMA LockFolded ==
    ASSUME NEW b, NEW s, Len(s) \in Nat
    PROVE  \E u : LockRun(u, b, s, Len(s)) /\ Folded(LockStep, b, s) = u[Len(s)]
<1> DEFINE L == Len(s)
           G(u) == [n \in 0..L |-> IF n = 0 THEN b
                       ELSE CHOOSE value \in {LockStep(acc, s[n]) : acc \in {u[n - 1]}} : TRUE]
<1>1. PICK u : LockRun(u, b, s, L)
  BY LockRuns
<1>2. ASSUME NEW y, NEW x
      PROVE  (CHOOSE value \in {LockStep(acc, x) : acc \in {y}} : TRUE) = LockStep(y, x)
  <2>1. {LockStep(acc, x) : acc \in {y}} = {LockStep(y, x)}
    OBVIOUS
  <2>2. \E value : value \in {LockStep(acc, x) : acc \in {y}}
    BY <2>1
  <2> QED BY <2>1, <2>2
<1>3. ASSUME NEW w
      PROVE  G(w) = [n \in 0..L |-> IF n = 0 THEN b ELSE LockStep(w[n - 1], s[n])]
  BY <1>2, Zenon
<1>4. u = G(u)
  <2>1. [n \in 0..L |-> IF n = 0 THEN b ELSE LockStep(u[n - 1], s[n])] = [n \in 0..L |-> u[n]]
    BY <1>1 DEF LockRun
  <2> QED BY <1>1, <1>3, <2>1 DEF LockRun
<1>5. PICK w : w = CHOOSE v : v = G(v)
  OBVIOUS
<1>6. Folded(LockStep, b, s) = w[L]
  BY <1>5 DEF Folded
<1> HIDE DEF G
<1>7. w = G(w)
  BY <1>4, <1>5, Zenon
<1>8. LockRun(w, b, s, L)
  <2>1. w = [n \in 0..L |-> IF n = 0 THEN b ELSE LockStep(w[n - 1], s[n])]
    BY <1>3, <1>7
  <2> QED BY <2>1 DEF LockRun
<1> QED BY <1>6, <1>8

\* The loop that puts fields into a map.
PutRun(u, b, s, n) ==
    /\ u = [m \in 0..n |-> u[m]]
    /\ u[0] = b
    /\ \A m \in 1..n : u[m] = Put(u[m - 1], s[m])

LEMMA PutRuns ==
    ASSUME NEW b, NEW s, NEW n \in Nat
    PROVE  \E u : PutRun(u, b, s, n)
<1> DEFINE T == {m \in Nat : \E u : PutRun(u, b, s, m)}
<1>1. 0 \in T
  <2> DEFINE u == [m \in 0..0 |-> b]
  <2>1. PutRun(u, b, s, 0)
    BY DEF PutRun
  <2> QED BY <2>1
<1>2. ASSUME NEW m \in Nat, m \in T PROVE m + 1 \in T
  <2>1. PICK u : PutRun(u, b, s, m)
    BY <1>2
  <2> DEFINE w == [k \in 0..(m + 1) |-> IF k = m + 1 THEN Put(u[m], s[m + 1]) ELSE u[k]]
  <2>2. w = [k \in 0..(m + 1) |-> w[k]] /\ w[0] = b
    BY <2>1 DEF PutRun
  <2>3. ASSUME NEW k \in 1..(m + 1) PROVE w[k] = Put(w[k - 1], s[k])
    <3>1. CASE k = m + 1
      BY <3>1
    <3>2. CASE k # m + 1
      <4>1. k \in 1..m /\ k - 1 \in 0..m
        BY <3>2
      <4>2. w[k] = u[k] /\ w[k - 1] = u[k - 1]
        BY <4>1
      <4> QED BY <2>1, <4>1, <4>2 DEF PutRun
    <3> QED BY <3>1, <3>2
  <2>4. PutRun(w, b, s, m + 1)
    BY <2>2, <2>3 DEF PutRun
  <2> QED BY <2>4
<1> HIDE DEF T
<1>3. n \in T
  BY <1>1, <1>2, Induction
<1> QED BY <1>3 DEF T

LEMMA PutFolded ==
    ASSUME NEW b, NEW s, Len(s) \in Nat
    PROVE  \E u : PutRun(u, b, s, Len(s)) /\ Folded(Put, b, s) = u[Len(s)]
<1> DEFINE L == Len(s)
           G(u) == [n \in 0..L |-> IF n = 0 THEN b
                       ELSE CHOOSE value \in {Put(acc, s[n]) : acc \in {u[n - 1]}} : TRUE]
<1>1. PICK u : PutRun(u, b, s, L)
  BY PutRuns
<1>2. ASSUME NEW y, NEW x
      PROVE  (CHOOSE value \in {Put(acc, x) : acc \in {y}} : TRUE) = Put(y, x)
  <2>1. {Put(acc, x) : acc \in {y}} = {Put(y, x)}
    OBVIOUS
  <2>2. \E value : value \in {Put(acc, x) : acc \in {y}}
    BY <2>1
  <2> QED BY <2>1, <2>2
<1>3. ASSUME NEW w
      PROVE  G(w) = [n \in 0..L |-> IF n = 0 THEN b ELSE Put(w[n - 1], s[n])]
  BY <1>2, Zenon
<1>4. u = G(u)
  <2>1. [n \in 0..L |-> IF n = 0 THEN b ELSE Put(u[n - 1], s[n])] = [n \in 0..L |-> u[n]]
    BY <1>1 DEF PutRun
  <2> QED BY <1>1, <1>3, <2>1 DEF PutRun
<1>5. PICK w : w = CHOOSE v : v = G(v)
  OBVIOUS
<1>6. Folded(Put, b, s) = w[L]
  BY <1>5 DEF Folded
<1> HIDE DEF G
<1>7. w = G(w)
  BY <1>4, <1>5, Zenon
<1>8. PutRun(w, b, s, L)
  <2>1. w = [n \in 0..L |-> IF n = 0 THEN b ELSE Put(w[n - 1], s[n])]
    BY <1>3, <1>7
  <2> QED BY <2>1 DEF PutRun
<1> QED BY <1>6, <1>8

\* The loop that puts the signatures of one map into another.
MergeRun(u, b, s, n) ==
    /\ u = [m \in 0..n |-> u[m]]
    /\ u[0] = b
    /\ \A m \in 1..n : u[m] = PutSignature(u[m - 1], s[m])

LEMMA MergeRuns ==
    ASSUME NEW b, NEW s, NEW n \in Nat
    PROVE  \E u : MergeRun(u, b, s, n)
<1> DEFINE T == {m \in Nat : \E u : MergeRun(u, b, s, m)}
<1>1. 0 \in T
  <2> DEFINE u == [m \in 0..0 |-> b]
  <2>1. MergeRun(u, b, s, 0)
    BY DEF MergeRun
  <2> QED BY <2>1
<1>2. ASSUME NEW m \in Nat, m \in T PROVE m + 1 \in T
  <2>1. PICK u : MergeRun(u, b, s, m)
    BY <1>2
  <2> DEFINE w == [k \in 0..(m + 1) |-> IF k = m + 1 THEN PutSignature(u[m], s[m + 1]) ELSE u[k]]
  <2>2. w = [k \in 0..(m + 1) |-> w[k]] /\ w[0] = b
    BY <2>1 DEF MergeRun
  <2>3. ASSUME NEW k \in 1..(m + 1) PROVE w[k] = PutSignature(w[k - 1], s[k])
    <3>1. CASE k = m + 1
      BY <3>1
    <3>2. CASE k # m + 1
      <4>1. k \in 1..m /\ k - 1 \in 0..m
        BY <3>2
      <4>2. w[k] = u[k] /\ w[k - 1] = u[k - 1]
        BY <4>1
      <4> QED BY <2>1, <4>1, <4>2 DEF MergeRun
    <3> QED BY <3>1, <3>2
  <2>4. MergeRun(w, b, s, m + 1)
    BY <2>2, <2>3 DEF MergeRun
  <2> QED BY <2>4
<1> HIDE DEF T
<1>3. n \in T
  BY <1>1, <1>2, Induction
<1> QED BY <1>3 DEF T

LEMMA MergeFolded ==
    ASSUME NEW b, NEW s, Len(s) \in Nat
    PROVE  \E u : MergeRun(u, b, s, Len(s)) /\ Folded(PutSignature, b, s) = u[Len(s)]
<1> DEFINE L == Len(s)
           G(u) == [n \in 0..L |-> IF n = 0 THEN b
                       ELSE CHOOSE value \in {PutSignature(acc, s[n]) : acc \in {u[n - 1]}} : TRUE]
<1>1. PICK u : MergeRun(u, b, s, L)
  BY MergeRuns
<1>2. ASSUME NEW y, NEW x
      PROVE  (CHOOSE value \in {PutSignature(acc, x) : acc \in {y}} : TRUE) = PutSignature(y, x)
  <2>1. {PutSignature(acc, x) : acc \in {y}} = {PutSignature(y, x)}
    OBVIOUS
  <2>2. \E value : value \in {PutSignature(acc, x) : acc \in {y}}
    BY <2>1
  <2> QED BY <2>1, <2>2
<1>3. ASSUME NEW w
      PROVE  G(w) = [n \in 0..L |-> IF n = 0 THEN b ELSE PutSignature(w[n - 1], s[n])]
  BY <1>2, Zenon
<1>4. u = G(u)
  <2>1. [n \in 0..L |-> IF n = 0 THEN b ELSE PutSignature(u[n - 1], s[n])] = [n \in 0..L |-> u[n]]
    BY <1>1 DEF MergeRun
  <2> QED BY <1>1, <1>3, <2>1 DEF MergeRun
<1>5. PICK w : w = CHOOSE v : v = G(v)
  OBVIOUS
<1>6. Folded(PutSignature, b, s) = w[L]
  BY <1>5 DEF Folded
<1> HIDE DEF G
<1>7. w = G(w)
  BY <1>4, <1>5, Zenon
<1>8. MergeRun(w, b, s, L)
  <2>1. w = [n \in 0..L |-> IF n = 0 THEN b ELSE PutSignature(w[n - 1], s[n])]
    BY <1>3, <1>7
  <2> QED BY <2>1 DEF MergeRun
<1> QED BY <1>6, <1>8

\* The loop that looks for keys of the device.
OursRun(u, b, s, n) ==
    /\ u = [m \in 0..n |-> u[m]]
    /\ u[0] = b
    /\ \A m \in 1..n : u[m] = IfOurs(u[m - 1], s[m])

LEMMA OursRuns ==
    ASSUME NEW b, NEW s, NEW n \in Nat
    PROVE  \E u : OursRun(u, b, s, n)
<1> DEFINE T == {m \in Nat : \E u : OursRun(u, b, s, m)}
<1>1. 0 \in T
  <2> DEFINE u == [m \in 0..0 |-> b]
  <2>1. OursRun(u, b, s, 0)
    BY DEF OursRun
  <2> QED BY <2>1
<1>2. ASSUME NEW m \in Nat, m \in T PROVE m + 1 \in T
  <2>1. PICK u : OursRun(u, b, s, m)
    BY <1>2
  <2> DEFINE w == [k \in 0..(m + 1) |-> IF k = m + 1 THEN IfOurs(u[m], s[m + 1]) ELSE u[k]]
  <2>2. w = [k \in 0..(m + 1) |-> w[k]] /\ w[0] = b
    BY <2>1 DEF OursRun
  <2>3. ASSUME NEW k \in 1..(m + 1) PROVE w[k] = IfOurs(w[k - 1], s[k])
    <3>1. CASE k = m + 1
      BY <3>1
    <3>2. CASE k # m + 1
      <4>1. k \in 1..m /\ k - 1 \in 0..m
        BY <3>2
      <4>2. w[k] = u[k] /\ w[k - 1] = u[k - 1]
        BY <4>1
      <4> QED BY <2>1, <4>1, <4>2 DEF OursRun
    <3> QED BY <3>1, <3>2
  <2>4. OursRun(w, b, s, m + 1)
    BY <2>2, <2>3 DEF OursRun
  <2> QED BY <2>4
<1> HIDE DEF T
<1>3. n \in T
  BY <1>1, <1>2, Induction
<1> QED BY <1>3 DEF T

LEMMA OursFolded ==
    ASSUME NEW b, NEW s, Len(s) \in Nat
    PROVE  \E u : OursRun(u, b, s, Len(s)) /\ Folded(IfOurs, b, s) = u[Len(s)]
<1> DEFINE L == Len(s)
           G(u) == [n \in 0..L |-> IF n = 0 THEN b
                       ELSE CHOOSE value \in {IfOurs(acc, s[n]) : acc \in {u[n - 1]}} : TRUE]
<1>1. PICK u : OursRun(u, b, s, L)
  BY OursRuns
<1>2. ASSUME NEW y, NEW x
      PROVE  (CHOOSE value \in {IfOurs(acc, x) : acc \in {y}} : TRUE) = IfOurs(y, x)
  <2>1. {IfOurs(acc, x) : acc \in {y}} = {IfOurs(y, x)}
    OBVIOUS
  <2>2. \E value : value \in {IfOurs(acc, x) : acc \in {y}}
    BY <2>1
  <2> QED BY <2>1, <2>2
<1>3. ASSUME NEW w
      PROVE  G(w) = [n \in 0..L |-> IF n = 0 THEN b ELSE IfOurs(w[n - 1], s[n])]
  BY <1>2, Zenon
<1>4. u = G(u)
  <2>1. [n \in 0..L |-> IF n = 0 THEN b ELSE IfOurs(u[n - 1], s[n])] = [n \in 0..L |-> u[n]]
    BY <1>1 DEF OursRun
  <2> QED BY <1>1, <1>3, <2>1 DEF OursRun
<1>5. PICK w : w = CHOOSE v : v = G(v)
  OBVIOUS
<1>6. Folded(IfOurs, b, s) = w[L]
  BY <1>5 DEF Folded
<1> HIDE DEF G
<1>7. w = G(w)
  BY <1>4, <1>5, Zenon
<1>8. OursRun(w, b, s, L)
  <2>1. w = [n \in 0..L |-> IF n = 0 THEN b ELSE IfOurs(w[n - 1], s[n])]
    BY <1>3, <1>7
  <2> QED BY <2>1 DEF OursRun
<1> QED BY <1>6, <1>8

\* The loop that collects the fields of one type.
CollectRun(t, u, b, s, n) ==
    /\ u = [m \in 0..n |-> u[m]]
    /\ u[0] = b
    /\ \A m \in 1..n : u[m] = Collected(t, u[m - 1], s[m])

LEMMA CollectRuns ==
    ASSUME NEW t, NEW b, NEW s, NEW n \in Nat
    PROVE  \E u : CollectRun(t, u, b, s, n)
<1> DEFINE T == {m \in Nat : \E u : CollectRun(t, u, b, s, m)}
<1>1. 0 \in T
  <2> DEFINE u == [m \in 0..0 |-> b]
  <2>1. CollectRun(t, u, b, s, 0)
    BY DEF CollectRun
  <2> QED BY <2>1
<1>2. ASSUME NEW m \in Nat, m \in T PROVE m + 1 \in T
  <2>1. PICK u : CollectRun(t, u, b, s, m)
    BY <1>2
  <2> DEFINE w == [k \in 0..(m + 1) |-> IF k = m + 1 THEN Collected(t, u[m], s[m + 1]) ELSE u[k]]
  <2>2. w = [k \in 0..(m + 1) |-> w[k]] /\ w[0] = b
    BY <2>1 DEF CollectRun
  <2>3. ASSUME NEW k \in 1..(m + 1) PROVE w[k] = Collected(t, w[k - 1], s[k])
    <3>1. CASE k = m + 1
      BY <3>1
    <3>2. CASE k # m + 1
      <4>1. k \in 1..m /\ k - 1 \in 0..m
        BY <3>2
      <4>2. w[k] = u[k] /\ w[k - 1] = u[k - 1]
        BY <4>1
      <4> QED BY <2>1, <4>1, <4>2 DEF CollectRun
    <3> QED BY <3>1, <3>2
  <2>4. CollectRun(t, w, b, s, m + 1)
    BY <2>2, <2>3 DEF CollectRun
  <2> QED BY <2>4
<1> HIDE DEF T
<1>3. n \in T
  BY <1>1, <1>2, Induction
<1> QED BY <1>3 DEF T

LEMMA CollectFolded ==
    ASSUME NEW t, NEW s, Len(s) \in Nat
    PROVE  \E u : CollectRun(t, u, << >>, s, Len(s)) /\ OfType(s, t) = u[Len(s)]
<1>0. PICK b : b = << >>
  OBVIOUS
<1> DEFINE L == Len(s)
           G(u) == [n \in 0..L |-> IF n = 0 THEN b
                       ELSE CHOOSE value \in {Collected(t, acc, s[n]) : acc \in {u[n - 1]}} : TRUE]
<1>1. PICK u : CollectRun(t, u, b, s, L)
  BY CollectRuns
<1>2. ASSUME NEW y, NEW x
      PROVE  (CHOOSE value \in {Collected(t, acc, x) : acc \in {y}} : TRUE) = Collected(t, y, x)
  <2>1. {Collected(t, acc, x) : acc \in {y}} = {Collected(t, y, x)}
    OBVIOUS
  <2>2. \E value : value \in {Collected(t, acc, x) : acc \in {y}}
    BY <2>1
  <2> QED BY <2>1, <2>2
<1>3. ASSUME NEW w
      PROVE  G(w) = [n \in 0..L |-> IF n = 0 THEN b ELSE Collected(t, w[n - 1], s[n])]
  BY <1>2, Zenon
<1>4. u = G(u)
  <2>1. [n \in 0..L |-> IF n = 0 THEN b ELSE Collected(t, u[n - 1], s[n])] = [n \in 0..L |-> u[n]]
    BY <1>1 DEF CollectRun
  <2> QED BY <1>1, <1>3, <2>1 DEF CollectRun
<1>5. PICK w : w = CHOOSE v : v = G(v)
  OBVIOUS
<1>6. OfType(s, t) = w[L]
  BY <1>0, <1>5 DEF OfType, Folded
<1> HIDE DEF G
<1>7. w = G(w)
  BY <1>4, <1>5, Zenon
<1>8. CollectRun(t, w, b, s, L)
  <2>1. w = [n \in 0..L |-> IF n = 0 THEN b ELSE Collected(t, w[n - 1], s[n])]
    BY <1>3, <1>7
  <2> QED BY <2>1 DEF CollectRun
<1> QED BY <1>0, <1>6, <1>8

----------------------------------------------------------------------------
(* Sequences                                                               *)

LEMMA InAppend ==
    ASSUME NEW S, NEW s \in Seq(S), NEW x \in S
    PROVE  Append(s, x) \in Seq(S) /\ \A y : y \in ToSet(Append(s, x)) <=> y \in ToSet(s) \/ y = x
<1>1. /\ Append(s, x) \in Seq(S) /\ DOMAIN Append(s, x) = 1..(Len(s) + 1) /\ Len(s) \in Nat
      /\ DOMAIN s = 1..Len(s)
  OBVIOUS
<1>2. (\A i \in 1..Len(s) : Append(s, x)[i] = s[i]) /\ Append(s, x)[Len(s) + 1] = x
  OBVIOUS
<1>3. ASSUME NEW y PROVE y \in ToSet(Append(s, x)) <=> \E i \in 1..(Len(s) + 1) : y = Append(s, x)[i]
  BY <1>1 DEF ToSet
<1>4. ASSUME NEW y PROVE y \in ToSet(s) <=> \E i \in 1..Len(s) : y = s[i]
  BY <1>1 DEF ToSet
<1>5. ASSUME NEW y, y \in ToSet(Append(s, x)) PROVE y \in ToSet(s) \/ y = x
  <2>1. PICK i \in 1..(Len(s) + 1) : y = Append(s, x)[i]
    BY <1>3, <1>5
  <2>2. i \in 1..Len(s) \/ i = Len(s) + 1
    BY <1>1
  <2> QED BY <1>2, <1>4, <2>1, <2>2
<1>6. ASSUME NEW y, y \in ToSet(s) \/ y = x PROVE y \in ToSet(Append(s, x))
  <2>1. Len(s) + 1 \in 1..(Len(s) + 1) /\ 1..Len(s) \subseteq 1..(Len(s) + 1)
    BY <1>1
  <2> QED BY <1>2, <1>3, <1>4, <1>6, <2>1
<1> QED BY <1>1, <1>5, <1>6

LEMMA InConcat ==
    ASSUME NEW S, NEW s \in Seq(S), NEW z \in Seq(S)
    PROVE  s \o z \in Seq(S) /\ \A y : y \in ToSet(s \o z) <=> y \in ToSet(s) \/ y \in ToSet(z)
<1>1. /\ s \o z \in Seq(S) /\ Len(s \o z) = Len(s) + Len(z) /\ Len(s) \in Nat /\ Len(z) \in Nat
      /\ DOMAIN s = 1..Len(s) /\ DOMAIN z = 1..Len(z) /\ DOMAIN (s \o z) = 1..(Len(s) + Len(z))
  OBVIOUS
<1>2. \A i \in 1..(Len(s) + Len(z)) : (s \o z)[i] = IF i <= Len(s) THEN s[i] ELSE z[i - Len(s)]
  OBVIOUS
<1>3. ASSUME NEW y PROVE y \in ToSet(s \o z) <=> \E i \in 1..(Len(s) + Len(z)) : y = (s \o z)[i]
  BY <1>1 DEF ToSet
<1>4. ASSUME NEW y PROVE /\ y \in ToSet(s) <=> \E i \in 1..Len(s) : y = s[i]
                         /\ y \in ToSet(z) <=> \E i \in 1..Len(z) : y = z[i]
  BY <1>1 DEF ToSet
<1>5. ASSUME NEW y, y \in ToSet(s \o z) PROVE y \in ToSet(s) \/ y \in ToSet(z)
  <2>1. PICK i \in 1..(Len(s) + Len(z)) : y = (s \o z)[i]
    BY <1>3, <1>5
  <2>2. CASE i <= Len(s)
    <3>1. i \in 1..Len(s) /\ y = s[i]
      BY <1>1, <1>2, <2>1, <2>2
    <3> QED BY <1>4, <3>1
  <2>3. CASE ~(i <= Len(s))
    <3>1. i - Len(s) \in 1..Len(z) /\ y = z[i - Len(s)]
      BY <1>1, <1>2, <2>1, <2>3
    <3> QED BY <1>4, <3>1
  <2> QED BY <2>2, <2>3
<1>6. ASSUME NEW y, y \in ToSet(s) PROVE y \in ToSet(s \o z)
  <2>1. PICK i \in 1..Len(s) : y = s[i]
    BY <1>4, <1>6
  <2>2. i \in 1..(Len(s) + Len(z)) /\ i <= Len(s)
    BY <1>1
  <2> QED BY <1>2, <1>3, <2>1, <2>2
<1>7. ASSUME NEW y, y \in ToSet(z) PROVE y \in ToSet(s \o z)
  <2>1. PICK i \in 1..Len(z) : y = z[i]
    BY <1>4, <1>7
  <2>2. i + Len(s) \in 1..(Len(s) + Len(z)) /\ ~(i + Len(s) <= Len(s)) /\ i + Len(s) - Len(s) = i
    BY <1>1
  <2> QED BY <1>2, <1>3, <2>1, <2>2
<1> QED BY <1>1, <1>5, <1>6, <1>7

LEMMA InEmpty ==
    /\ \A S : << >> \in Seq(S)
    /\ \A y : y \notin ToSet(<< >>)
<1>1. \A S : << >> \in Seq(S)
  OBVIOUS
<1>2. DOMAIN << >> = {}
  OBVIOUS
<1> QED BY <1>1, <1>2 DEF ToSet

LEMMA InSeq ==
    ASSUME NEW S, NEW s \in Seq(S)
    PROVE  /\ \A y : y \in ToSet(s) <=> \E i \in 1..Len(s) : y = s[i]
           /\ ToSet(s) \subseteq S
<1>1. DOMAIN s = 1..Len(s) /\ \A i \in 1..Len(s) : s[i] \in S
  OBVIOUS
<1> QED BY <1>1 DEF ToSet

LEMMA InOne ==
    ASSUME NEW S, NEW x \in S
    PROVE  <<x>> \in Seq(S) /\ \A y : y \in ToSet(<<x>>) <=> y = x
<1>1. <<x>> \in Seq(S) /\ Len(<<x>>) = 1 /\ <<x>>[1] = x
  OBVIOUS
<1>2. \A y : y \in ToSet(<<x>>) <=> \E i \in 1..Len(<<x>>) : y = <<x>>[i]
  BY <1>1, InSeq
<1>3. \A i : i \in 1..1 <=> i = 1
  OBVIOUS
<1> QED BY <1>1, <1>2, <1>3

\* FlattenSeq puts the sequences one behind the other.
FlatRun(u, ss, n) ==
    /\ u = [m \in 0..n |-> u[m]]
    /\ u[0] = << >>
    /\ \A m \in 1..n : u[m] = u[m - 1] \o ss[m]

LEMMA FlatRuns ==
    ASSUME NEW ss, NEW n \in Nat
    PROVE  \E u : FlatRun(u, ss, n)
<1> DEFINE T == {m \in Nat : \E u : FlatRun(u, ss, m)}
<1>1. 0 \in T
  <2> DEFINE u == [m \in 0..0 |-> << >>]
  <2>1. FlatRun(u, ss, 0)
    BY DEF FlatRun
  <2> QED BY <2>1
<1>2. ASSUME NEW m \in Nat, m \in T PROVE m + 1 \in T
  <2>1. PICK u : FlatRun(u, ss, m)
    BY <1>2
  <2> DEFINE w == [k \in 0..(m + 1) |-> IF k = m + 1 THEN u[m] \o ss[m + 1] ELSE u[k]]
  <2>2. w = [k \in 0..(m + 1) |-> w[k]] /\ w[0] = << >>
    BY <2>1 DEF FlatRun
  <2>3. ASSUME NEW k \in 1..(m + 1) PROVE w[k] = w[k - 1] \o ss[k]
    <3>1. CASE k = m + 1
      <4>1. k - 1 = m /\ k - 1 \in 0..(m + 1) /\ k - 1 # m + 1 /\ k \in 0..(m + 1)
        BY <3>1
      <4>2. w[k] = u[m] \o ss[m + 1] /\ w[k - 1] = u[m]
        BY <3>1, <4>1
      <4> QED BY <3>1, <4>2
    <3>2. CASE k # m + 1
      <4>1. k \in 1..m /\ k - 1 \in 0..m
        BY <3>2
      <4>2. w[k] = u[k] /\ w[k - 1] = u[k - 1]
        BY <4>1
      <4> QED BY <2>1, <4>1, <4>2 DEF FlatRun
    <3> QED BY <3>1, <3>2
  <2>4. FlatRun(w, ss, m + 1)
    BY <2>2, <2>3 DEF FlatRun
  <2> QED BY <2>4
<1> HIDE DEF T
<1>3. n \in T
  BY <1>1, <1>2, Induction
<1> QED BY <1>3 DEF T

LEMMA FlatTypes ==
    ASSUME NEW S, NEW ss \in Seq(Seq(S)), NEW u, FlatRun(u, ss, Len(ss))
    PROVE  \A m \in 0..Len(ss) : u[m] \in Seq(S)
<1> DEFINE T == {m \in Nat : m <= Len(ss) => u[m] \in Seq(S)}
<1>0. Len(ss) \in Nat /\ \A m \in 1..Len(ss) : ss[m] \in Seq(S)
  OBVIOUS
<1>1. 0 \in T
  <2>1. u[0] = << >> /\ << >> \in Seq(S)
    BY InEmpty DEF FlatRun
  <2> QED BY <2>1
<1>2. ASSUME NEW m \in Nat, m \in T PROVE m + 1 \in T
  <2>1. CASE m + 1 <= Len(ss)
    <3>1. m + 1 \in 1..Len(ss) /\ (m + 1) - 1 = m /\ m <= Len(ss)
      BY <1>0, <2>1
    <3>4. u[m + 1] = u[(m + 1) - 1] \o ss[m + 1]
      BY <3>1 DEF FlatRun
    <3>2. u[m + 1] = u[m] \o ss[m + 1] /\ u[m] \in Seq(S) /\ ss[m + 1] \in Seq(S)
      BY <1>0, <1>2, <3>1, <3>4
    <3>3. u[m + 1] \in Seq(S)
      BY <3>2
    <3> QED BY <3>3
  <2>2. CASE ~(m + 1 <= Len(ss))
    BY <2>2
  <2> QED BY <2>1, <2>2
<1> HIDE DEF T
<1>3. \A m \in Nat : m \in T
  BY <1>1, <1>2, Induction
<1> QED BY <1>3 DEF T

LEMMA Flattened ==
    ASSUME NEW S, NEW ss \in Seq(Seq(S))
    PROVE  \E u : FlatRun(u, ss, Len(ss)) /\ FlattenSeq(ss) = u[Len(ss)]
<1> DEFINE L == Len(ss)
           G(u) == [i \in 1..L |-> IF i = 1 THEN ss[i] ELSE u[i - 1] \o ss[i]]
<1>0. L \in Nat
  OBVIOUS
<1>1. PICK u : FlatRun(u, ss, L)
  BY <1>0, FlatRuns
<1>2. CASE L = 0
  <2>1. FlattenSeq(ss) = ss /\ ss = << >>
    BY <1>2 DEF FlattenSeq
  <2>2. u[L] = << >>
    BY <1>1, <1>2 DEF FlatRun
  <2> QED BY <1>1, <2>1, <2>2
<1>3. CASE L # 0
  <2> DEFINE v == [i \in 1..L |-> u[i]]
  <2>1. \A m \in 0..L : u[m] \in Seq(S)
    BY <1>1, FlatTypes
  <2>2. v = G(v)
    <3>1. ASSUME NEW i \in 1..L PROVE v[i] = IF i = 1 THEN ss[i] ELSE v[i - 1] \o ss[i]
      <4>1. u[i] = u[i - 1] \o ss[i]
        BY <1>1 DEF FlatRun
      <4>2. CASE i = 1
        <5>1. i - 1 = 0 /\ u[0] = << >> /\ ss[i] \in Seq(S)
          BY <1>1, <4>2 DEF FlatRun
        <5>2. u[i] = ss[i]
          BY <4>1, <5>1, ConcatEmptySeq
        <5> QED BY <4>2, <5>2
      <4>3. CASE i # 1
        <5>1. i - 1 \in 1..L
          BY <4>3
        <5> QED BY <4>1, <4>3, <5>1
      <4> QED BY <4>2, <4>3
    <3> QED BY <3>1
  <2>3. PICK w : w = CHOOSE x : x = G(x)
    OBVIOUS
  <2>4. FlattenSeq(ss) = w[L]
    BY <1>3, <2>3 DEF FlattenSeq
  <2> HIDE DEF G, v
  <2>5. w = G(w)
    BY <2>2, <2>3, Zenon
  <2> USE DEF G
  <2>6. \A i \in 1..L : w[i] = IF i = 1 THEN ss[i] ELSE w[i - 1] \o ss[i]
    BY <2>5
  <2> DEFINE y == [m \in 0..L |-> IF m = 0 THEN << >> ELSE w[m]]
  <2>7. y = [m \in 0..L |-> y[m]] /\ y[0] = << >> /\ y[L] = w[L]
    BY <1>0, <1>3
  <2>8. ASSUME NEW m \in 1..L PROVE y[m] = y[m - 1] \o ss[m]
    <3>1. CASE m = 1
      <4>1. y[m] = ss[m] /\ y[m - 1] = << >> /\ ss[m] \in Seq(S)
        BY <1>0, <2>6, <3>1
      <4> QED BY <4>1, ConcatEmptySeq
    <3>2. CASE m # 1
      <4>1. m - 1 \in 1..L
        BY <3>2
      <4>2. y[m] = w[m] /\ y[m - 1] = w[m - 1]
        BY <1>0, <4>1
      <4>3. w[m] = w[m - 1] \o ss[m]
        BY <2>6, <3>2
      <4> QED BY <4>2, <4>3
    <3> QED BY <3>1, <3>2
  <2>9. FlatRun(y, ss, L)
    BY <2>7, <2>8 DEF FlatRun
  <2> QED BY <2>4, <2>7, <2>9
<1> QED BY <1>2, <1>3

\* What is in the flattened sequence.
LEMMA InFlat ==
    ASSUME NEW S, NEW ss \in Seq(Seq(S))
    PROVE  /\ FlattenSeq(ss) \in Seq(S)
           /\ \A y : y \in ToSet(FlattenSeq(ss)) <=> \E m \in 1..Len(ss) : y \in ToSet(ss[m])
<1>1. PICK u : FlatRun(u, ss, Len(ss)) /\ FlattenSeq(ss) = u[Len(ss)]
  BY Flattened
<1>2. \A m \in 0..Len(ss) : u[m] \in Seq(S)
  BY <1>1, FlatTypes
<1>3. Len(ss) \in Nat /\ Len(ss) \in 0..Len(ss)
  OBVIOUS
<1> DEFINE T == {m \in Nat : m <= Len(ss) =>
                    \A y : y \in ToSet(u[m]) <=> \E k \in 1..m : y \in ToSet(ss[k])}
<1>4. 0 \in T
  <2>1. u[0] = << >>
    BY <1>1 DEF FlatRun
  <2>2. 1..0 = {}
    OBVIOUS
  <2> QED BY <2>1, <2>2, InEmpty
<1>5. ASSUME NEW m \in Nat, m \in T PROVE m + 1 \in T
  <2>1. CASE m + 1 <= Len(ss)
    <3>1. m + 1 \in 1..Len(ss) /\ (m + 1) - 1 = m /\ m <= Len(ss) /\ m \in 0..Len(ss)
      BY <1>3, <2>1
    <3>7. u[m + 1] = u[(m + 1) - 1] \o ss[m + 1]
      BY <1>1, <3>1 DEF FlatRun
    <3>2. u[m + 1] = u[m] \o ss[m + 1] /\ u[m] \in Seq(S) /\ ss[m + 1] \in Seq(S)
      BY <1>2, <3>1, <3>7
    <3>3. \A y : y \in ToSet(u[m + 1]) <=> y \in ToSet(u[m]) \/ y \in ToSet(ss[m + 1])
      BY <3>2, InConcat
    <3>4. \A y : y \in ToSet(u[m]) <=> \E k \in 1..m : y \in ToSet(ss[k])
      BY <1>5, <3>1
    <3>5. \A k : k \in 1..(m + 1) <=> k \in 1..m \/ k = m + 1
      OBVIOUS
    <3>6. \A y : y \in ToSet(u[m + 1]) <=> \E k \in 1..(m + 1) : y \in ToSet(ss[k])
      BY <3>3, <3>4, <3>5
    <3> QED BY <3>6
  <2>2. CASE ~(m + 1 <= Len(ss))
    BY <2>2
  <2> QED BY <2>1, <2>2
<1> HIDE DEF T
<1>6. Len(ss) \in T
  BY <1>3, <1>4, <1>5, Induction
<1> QED BY <1>1, <1>2, <1>3, <1>6 DEF T

----------------------------------------------------------------------------
(* The fields of one type                                                  *)

LEMMA InsertedIs ==
    ASSUME NEW s \in Seq(Fields), NEW f \in Fields
    PROVE  /\ Inserted(s, f) \in Seq(Fields)
           /\ \A y : y \in ToSet(Inserted(s, f)) <=> y \in ToSet(s) \/ y = f
<1> DEFINE smaller == {n \in DOMAIN s : s[n].k < f.k}
<1>1. DOMAIN s = 1..Len(s) /\ Len(s) \in Nat /\ \A i \in 1..Len(s) : s[i] \in Fields
  OBVIOUS
<1>2. IsFiniteSet(1..Len(s)) /\ Cardinality(1..Len(s)) = Len(s)
  <2>1. 1 \in Int /\ Len(s) \in Int /\ (IF 1 > Len(s) THEN 0 ELSE Len(s) - 1 + 1) = Len(s)
    BY <1>1
  <2> QED BY <2>1, FS_Interval
<1>3. smaller \subseteq 1..Len(s)
  BY <1>1
<1> HIDE DEF smaller
<1>4. IsFiniteSet(smaller) /\ Cardinality(smaller) \in Nat /\ Cardinality(smaller) <= Len(s)
  BY <1>2, <1>3, FS_Subset, FS_CardinalityType
<1>5. PICK c \in Nat : c = Cardinality(smaller) /\ c <= Len(s)
  BY <1>4
<1> DEFINE a == SubSeq(s, 1, c)
           b == SubSeq(s, c + 1, Len(s))
<1>6. Inserted(s, f) = (a \o <<f>>) \o b
  <2>1. (c + 1) - 1 = c
    BY <1>5
  <2> QED BY <1>5, <2>1 DEF Inserted, InsertAt, smaller
<1>7. a \in Seq(Fields) /\ Len(a) = c /\ \A i \in 1..c : a[i] = s[i]
  BY <1>1, <1>5
<1>8. b \in Seq(Fields) /\ Len(b) = Len(s) - c /\ \A i \in 1..(Len(s) - c) : b[i] = s[c + i]
  BY <1>1, <1>5
<1> HIDE DEF a, b
<1>9. <<f>> \in Seq(Fields) /\ \A y : y \in ToSet(<<f>>) <=> y = f
  BY InOne
<1>10. a \o <<f>> \in Seq(Fields) /\ \A y : y \in ToSet(a \o <<f>>) <=> y \in ToSet(a) \/ y = f
  BY <1>7, <1>9, InConcat
<1>11. /\ Inserted(s, f) \in Seq(Fields)
       /\ \A y : y \in ToSet(Inserted(s, f)) <=> y \in ToSet(a) \/ y = f \/ y \in ToSet(b)
  BY <1>6, <1>8, <1>10, InConcat
<1>12. ASSUME NEW y PROVE y \in ToSet(a) \/ y \in ToSet(b) <=> y \in ToSet(s)
  <2>1. /\ y \in ToSet(a) <=> \E i \in 1..c : y = s[i]
        /\ y \in ToSet(b) <=> \E i \in 1..(Len(s) - c) : y = s[c + i]
        /\ y \in ToSet(s) <=> \E i \in 1..Len(s) : y = s[i]
    <3>1. y \in ToSet(a) <=> \E i \in 1..Len(a) : y = a[i]
      BY <1>7, InSeq
    <3>2. y \in ToSet(b) <=> \E i \in 1..Len(b) : y = b[i]
      BY <1>8, InSeq
    <3>3. y \in ToSet(s) <=> \E i \in 1..Len(s) : y = s[i]
      BY InSeq
    <3> QED BY <1>7, <1>8, <3>1, <3>2, <3>3
  <2>2. ASSUME NEW i \in 1..c PROVE i \in 1..Len(s)
    BY <1>1, <1>5
  <2>3. ASSUME NEW i \in 1..(Len(s) - c) PROVE c + i \in 1..Len(s)
    BY <1>1, <1>5
  <2>4. ASSUME NEW i \in 1..Len(s) PROVE i \in 1..c \/ (i - c \in 1..(Len(s) - c) /\ c + (i - c) = i)
    BY <1>1, <1>5
  <2> QED BY <2>1, <2>2, <2>3, <2>4
<1> QED BY <1>11, <1>12

LEMMA CollectedIs ==
    ASSUME NEW t, NEW s \in Seq(Fields), NEW f \in Fields
    PROVE  /\ Collected(t, s, f) \in Seq(Fields)
           /\ \A y : y \in ToSet(Collected(t, s, f)) <=> y \in ToSet(s) \/ (y = f /\ f.t = t /\ IsSet(f))
<1>1. CASE f.t # t \/ ~IsSet(f)
  BY <1>1 DEF Collected
<1>2. CASE f.t = t /\ IsSet(f) /\ t \in SortedTypes
  BY <1>2, InsertedIs DEF Collected
<1>3. CASE f.t = t /\ IsSet(f) /\ t \notin SortedTypes
  BY <1>3, InAppend DEF Collected
<1> QED BY <1>1, <1>2, <1>3

LEMMA OfTypeIs ==
    ASSUME NEW map \in Seq(Fields), NEW t
    PROVE  /\ OfType(map, t) \in Seq(Fields)
           /\ \A y : y \in ToSet(OfType(map, t)) <=> y \in ToSet(map) /\ y.t = t /\ IsSet(y)
<1>1. Len(map) \in Nat /\ \A i \in 1..Len(map) : map[i] \in Fields
  OBVIOUS
<1>2. PICK u : CollectRun(t, u, << >>, map, Len(map)) /\ OfType(map, t) = u[Len(map)]
  BY <1>1, CollectFolded
<1> DEFINE T == {m \in Nat : m <= Len(map) =>
                    /\ u[m] \in Seq(Fields)
                    /\ \A y : y \in ToSet(u[m]) <=> \E i \in 1..m : y = map[i] /\ y.t = t /\ IsSet(y)}
<1>3. 0 \in T
  <2>1. u[0] = << >> /\ 1..0 = {}
    BY <1>2 DEF CollectRun
  <2> QED BY <2>1, InEmpty
<1>4. ASSUME NEW m \in Nat, m \in T PROVE m + 1 \in T
  <2>1. CASE m + 1 <= Len(map)
    <3>1. m + 1 \in 1..Len(map) /\ (m + 1) - 1 = m /\ m <= Len(map)
      BY <1>1, <2>1
    <3>2. u[m + 1] = Collected(t, u[(m + 1) - 1], map[m + 1])
      BY <1>2, <3>1 DEF CollectRun
    <3>3. /\ u[m] \in Seq(Fields)
          /\ \A y : y \in ToSet(u[m]) <=> \E i \in 1..m : y = map[i] /\ y.t = t /\ IsSet(y)
      BY <1>4, <3>1
    <3>4. u[m + 1] = Collected(t, u[m], map[m + 1]) /\ map[m + 1] \in Fields
      BY <1>1, <3>1, <3>2
    <3>5. /\ u[m + 1] \in Seq(Fields)
          /\ \A y : y \in ToSet(u[m + 1]) <=>
                \/ y \in ToSet(u[m])
                \/ y = map[m + 1] /\ map[m + 1].t = t /\ IsSet(map[m + 1])
      BY <3>3, <3>4, CollectedIs
    <3>6. \A k : k \in 1..(m + 1) <=> k \in 1..m \/ k = m + 1
      OBVIOUS
    <3>7. \A y : y \in ToSet(u[m + 1]) <=> \E i \in 1..(m + 1) : y = map[i] /\ y.t = t /\ IsSet(y)
      BY <3>3, <3>5, <3>6
    <3> QED BY <3>5, <3>7
  <2>2. CASE ~(m + 1 <= Len(map))
    BY <2>2
  <2> QED BY <2>1, <2>2
<1> HIDE DEF T
<1>5. Len(map) \in T
  BY <1>1, <1>3, <1>4, Induction
<1>6. /\ OfType(map, t) \in Seq(Fields)
      /\ \A y : y \in ToSet(OfType(map, t)) <=> \E i \in 1..Len(map) : y = map[i] /\ y.t = t /\ IsSet(y)
  BY <1>1, <1>2, <1>5 DEF T
<1>7. \A y : y \in ToSet(map) <=> \E i \in 1..Len(map) : y = map[i]
  BY InSeq
<1> QED BY <1>6, <1>7

----------------------------------------------------------------------------
(* What is written of a map                                                *)

InputTypes == {"non_witness_utxo", "witness_utxo", "partial_sig", "sighash", "redeem_script",
      "witness_script", "bip32", "tap_key_sig", "tap_script_sig", "tap_leaf_script",
      "tap_bip32", "tap_internal_key", "tap_merkle_root", "final_script_sig",
      "final_script_witness", "musig2_pubkeys", "musig2_nonce", "musig2_sig",
      "prev_txid", "prev_out", "sequence", "time_locktime", "height_locktime", "unknown"}

OutputTypes == {"redeem_script", "witness_script", "bip32", "amount", "script", "tap_internal_key",
      "tap_tree", "tap_bip32", "musig2_pubkeys", "unknown"}

LEMMA Orders ==
    /\ InputOrder \in Seq(InputTypes) /\ ToSet(InputOrder) = InputTypes
    /\ OutputOrder \in Seq(OutputTypes) /\ ToSet(OutputOrder) = OutputTypes
<1>1. InputOrder \in Seq(InputTypes)
  BY DEF InputOrder, InputTypes
<1>2. OutputOrder \in Seq(OutputTypes)
  BY DEF OutputOrder, OutputTypes
<1>3. ToSet(InputOrder) \subseteq InputTypes /\ ToSet(OutputOrder) \subseteq OutputTypes
  BY <1>1, <1>2, InSeq
<1>4. Len(InputOrder) = 24 /\ Len(OutputOrder) = 10
  BY DEF InputOrder, OutputOrder
<1>5. \A y : (\E i \in 1..24 : y = InputOrder[i]) => y \in ToSet(InputOrder)
  BY <1>1, <1>4, InSeq
<1>6. \A y : (\E i \in 1..10 : y = OutputOrder[i]) => y \in ToSet(OutputOrder)
  BY <1>2, <1>4, InSeq
<1>7. InputTypes \subseteq ToSet(InputOrder)
  <2>1. \A i \in 1..24 : InputOrder[i] \in ToSet(InputOrder)
    BY <1>5
  <2> QED BY <2>1 DEF InputOrder, InputTypes
<1>8. OutputTypes \subseteq ToSet(OutputOrder)
  <2>1. \A i \in 1..10 : OutputOrder[i] \in ToSet(OutputOrder)
    BY <1>6
  <2> QED BY <2>1 DEF OutputOrder, OutputTypes
<1> QED BY <1>1, <1>2, <1>3, <1>7, <1>8

LEMMA SeparatorIs == Separator \in Fields /\ Separator.t = "separator"
  BY DEF Separator, Field, Fields, FieldTypes, NoKey

LEMMA MapItemsIs ==
    ASSUME NEW version, NEW map \in Seq(Fields), NEW S, NEW order \in Seq(S)
    PROVE  \E c \in Seq(Fields) :
              /\ MapItems(version, map, order) = c \o <<Separator>>
              /\ \A y : y \in ToSet(c) <=> /\ y \in ToSet(map) /\ IsSet(y)
                                           /\ y.t \in ToSet(order) /\ Written(version, map, y.t)
<1> DEFINE of(t) == IF Written(version, map, t) THEN OfType(map, t) ELSE << >>
           ss == [n \in DOMAIN order |-> of(order[n])]
<1>1. Len(order) \in Nat /\ DOMAIN order = 1..Len(order)
  OBVIOUS
<1>2. ASSUME NEW t PROVE of(t) \in Seq(Fields)
  BY OfTypeIs, InEmpty
<1>3. ASSUME NEW t, NEW y PROVE y \in ToSet(of(t)) <=> /\ y \in ToSet(map) /\ IsSet(y)
                                                      /\ y.t = t /\ Written(version, map, t)
  BY OfTypeIs, InEmpty
<1> HIDE DEF of
<1>4. ss \in Seq(Seq(Fields)) /\ Len(ss) = Len(order) /\ \A n \in 1..Len(order) : ss[n] = of(order[n])
  BY <1>1, <1>2
<1> DEFINE c == FlattenSeq(ss)
<1>5. c \in Seq(Fields) /\ \A y : y \in ToSet(c) <=> \E m \in 1..Len(ss) : y \in ToSet(ss[m])
  BY <1>4, InFlat
<1>6. MapItems(version, map, order) = c \o <<Separator>>
  BY DEF MapItems, of
<1> HIDE DEF c, ss
<1>7. ASSUME NEW y
      PROVE  y \in ToSet(c) <=> /\ y \in ToSet(map) /\ IsSet(y)
                                /\ y.t \in ToSet(order) /\ Written(version, map, y.t)
  <2>1. y \in ToSet(c) <=> \E m \in 1..Len(order) : y \in ToSet(of(order[m]))
    BY <1>4, <1>5
  <2>2. y \in ToSet(c) <=> \E m \in 1..Len(order) : /\ y \in ToSet(map) /\ IsSet(y)
                                                   /\ y.t = order[m] /\ Written(version, map, order[m])
    BY <1>3, <2>1
  <2>3. y.t \in ToSet(order) <=> \E m \in 1..Len(order) : y.t = order[m]
    BY InSeq
  <2> QED BY <2>2, <2>3
<1> QED BY <1>5, <1>6, <1>7

----------------------------------------------------------------------------
(* The fields of a map                                                     *)

LEMMA FieldIs ==
    ASSUME NEW f \in Fields
    PROVE  f.t \in FieldTypes /\ f.k \in Nat /\ f.v \in Int /\ f = Field(f.t, f.k, f.v)
  BY DEF Fields, Field

\* Of a type without keys a map has one field at most.
LEMMA ValueIs ==
    ASSUME NEW m, IsMap(m), NEW t, t \notin KeyedTypes
    PROVE  /\ \A f \in ToSet(m) : f.t = t /\ IsSet(f) => Has(m, t) /\ ValueOf(m, t) = f.v
           /\ Has(m, t) => \E f \in ToSet(m) : f.t = t /\ IsSet(f) /\ ValueOf(m, t) = f.v
           /\ ~Has(m, t) => ValueOf(m, t) = None
<1>1. /\ m \in Seq(Fields) /\ DOMAIN m = 1..Len(m) /\ \A i \in 1..Len(m) : m[i] \in Fields
      /\ \A f : f \in ToSet(m) <=> \E i \in 1..Len(m) : f = m[i]
  BY InSeq DEF IsMap
<1>2. ASSUME NEW i \in 1..Len(m), NEW j \in 1..Len(m), m[i].t = t, m[j].t = t
      PROVE  i = j
  <2>1. m[i].k = NoKey /\ m[j].k = NoKey
    BY <1>2 DEF IsMap
  <2> QED BY <1>2, <2>1 DEF IsMap
<1>3. ASSUME NEW f \in ToSet(m), f.t = t, IsSet(f) PROVE Has(m, t) /\ ValueOf(m, t) = f.v
  <2>1. PICK i \in 1..Len(m) : f = m[i]
    BY <1>1
  <2>2. Has(m, t)
    BY <1>1, <1>3, <2>1 DEF Has
  <2>3. (CHOOSE n \in DOMAIN m : m[n].t = t) = i
    BY <1>1, <1>2, <1>3, <2>1
  <2> QED BY <2>1, <2>2, <2>3 DEF ValueOf
<1>4. ASSUME Has(m, t) PROVE \E f \in ToSet(m) : f.t = t /\ IsSet(f) /\ ValueOf(m, t) = f.v
  <2>1. PICK i \in 1..Len(m) : m[i].t = t /\ IsSet(m[i])
    BY <1>1, <1>4 DEF Has
  <2>2. m[i] \in ToSet(m)
    BY <1>1
  <2> QED BY <1>3, <2>1, <2>2
<1>5. ~Has(m, t) => ValueOf(m, t) = None
  BY DEF ValueOf
<1> QED BY <1>3, <1>4, <1>5

LEMMA ValueType ==
    ASSUME NEW m, IsMap(m), NEW t, t \notin KeyedTypes
    PROVE  ValueOf(m, t) \in Int /\ (t \in {"time_locktime", "height_locktime"} /\ Has(m, t) => ValueOf(m, t) > 0)
<1>1. /\ m \in Seq(Fields) /\ \A f \in ToSet(m) : f \in Fields
      /\ \A f : f \in ToSet(m) <=> \E i \in 1..Len(m) : f = m[i]
  BY InSeq DEF IsMap
<1>2. CASE Has(m, t)
  <2>1. PICK f \in ToSet(m) : f.t = t /\ IsSet(f) /\ ValueOf(m, t) = f.v
    BY <1>2, ValueIs
  <2>2. PICK i \in 1..Len(m) : f = m[i]
    BY <1>1
  <2>3. f.v \in Int
    BY <1>1, FieldIs
  <2> QED BY <2>1, <2>2, <2>3 DEF IsMap
<1>3. CASE ~Has(m, t)
  BY <1>3, ValueIs DEF None
<1> QED BY <1>2, <1>3

\* Two maps with the same fields of a type without keys.
LEMMA SameValue ==
    ASSUME NEW a, NEW b, IsMap(a), IsMap(b), NEW t, t \notin KeyedTypes,
           \A f : f.t = t /\ IsSet(f) => (f \in ToSet(a) <=> f \in ToSet(b))
    PROVE  (Has(a, t) <=> Has(b, t)) /\ ValueOf(a, t) = ValueOf(b, t)
<1>1. CASE Has(a, t)
  <2>1. PICK f \in ToSet(a) : f.t = t /\ IsSet(f) /\ ValueOf(a, t) = f.v
    BY <1>1, ValueIs
  <2> QED BY <1>1, <2>1, ValueIs
<1>2. CASE ~Has(a, t)
  <2>1. ~Has(b, t)
    <3> SUFFICES ASSUME Has(b, t) PROVE FALSE
      OBVIOUS
    <3>1. PICK f \in ToSet(b) : f.t = t /\ IsSet(f) /\ ValueOf(b, t) = f.v
      BY ValueIs
    <3> QED BY <1>2, <3>1, ValueIs
  <2> QED BY <1>2, <2>1, ValueIs
<1> QED BY <1>1, <1>2

LEMMA PutIs ==
    ASSUME NEW m, IsMap(m), NEW f \in Fields, f.t \in KeyedTypes <=> f.k # NoKey,
           f.t \in {"time_locktime", "height_locktime"} => f.v > 0
    PROVE  /\ IsMap(Put(m, f))
           /\ \A y : y \in ToSet(Put(m, f)) <=> y = f \/ (y \in ToSet(m) /\ ~(y.t = f.t /\ y.k = f.k))
<1> DEFINE at == {n \in DOMAIN m : m[n].t = f.t /\ m[n].k = f.k}
<1>1. /\ m \in Seq(Fields) /\ DOMAIN m = 1..Len(m) /\ Len(m) \in Nat
      /\ \A i \in 1..Len(m) : m[i] \in Fields
      /\ \A y : y \in ToSet(m) <=> \E i \in 1..Len(m) : y = m[i]
  BY InSeq DEF IsMap
<1>2. CASE at = {}
  <2>1. Put(m, f) = Append(m, f)
    BY <1>2 DEF Put
  <2>2. /\ Append(m, f) \in Seq(Fields) /\ Len(Append(m, f)) = Len(m) + 1
        /\ \A i \in 1..Len(m) : Append(m, f)[i] = m[i]
        /\ Append(m, f)[Len(m) + 1] = f
    BY <1>1
  <2>3. \A i \in 1..Len(m) : ~(m[i].t = f.t /\ m[i].k = f.k)
    BY <1>1, <1>2
  <2>4. \A i : i \in 1..(Len(m) + 1) <=> i \in 1..Len(m) \/ i = Len(m) + 1
    BY <1>1
  <2>5. PICK p : p = Append(m, f)
    OBVIOUS
  <2>6. /\ p \in Seq(Fields) /\ \A i : i \in 1..Len(p) <=> i \in 1..Len(m) \/ i = Len(m) + 1
        /\ \A i \in 1..Len(m) : p[i] = m[i]
        /\ p[Len(m) + 1] = f
    BY <2>2, <2>4, <2>5
  <2>7. \A i, j \in 1..Len(p) : p[i].t = p[j].t /\ p[i].k = p[j].k => i = j
    <3> SUFFICES ASSUME NEW i \in 1..Len(p), NEW j \in 1..Len(p), p[i].t = p[j].t, p[i].k = p[j].k
                 PROVE  i = j
      OBVIOUS
    <3>1. CASE i \in 1..Len(m) /\ j \in 1..Len(m)
      BY <2>6, <3>1 DEF IsMap
    <3>2. CASE i = Len(m) + 1 /\ j \in 1..Len(m)
      BY <2>3, <2>6, <3>2
    <3>3. CASE i \in 1..Len(m) /\ j = Len(m) + 1
      BY <2>3, <2>6, <3>3
    <3> QED BY <2>6, <3>1, <3>2, <3>3
  <2>8. \A i \in 1..Len(p) : p[i].t \in KeyedTypes <=> p[i].k # NoKey
    BY <2>6 DEF IsMap
  <2>9. \A i \in 1..Len(p) : p[i].t \in {"time_locktime", "height_locktime"} => p[i].v > 0
    <3> SUFFICES ASSUME NEW i \in 1..Len(p), p[i].t \in {"time_locktime", "height_locktime"}
                 PROVE  p[i].v > 0
      OBVIOUS
    <3>1. CASE i \in 1..Len(m)
      BY <2>6, <3>1 DEF IsMap
    <3>2. CASE i = Len(m) + 1
      BY <2>6, <3>2
    <3> QED BY <2>6, <3>1, <3>2
  <2>10. IsMap(p)
    BY <2>6, <2>7, <2>8, <2>9 DEF IsMap
  <2>11. \A y : y \in ToSet(p) <=> y \in ToSet(m) \/ y = f
    BY <1>1, <2>5, InAppend
  <2>12. \A y \in ToSet(m) : ~(y.t = f.t /\ y.k = f.k)
    BY <1>1, <2>3
  <2> QED BY <2>1, <2>5, <2>10, <2>11, <2>12
<1>3. CASE at # {}
  <2>1. PICK e \in 1..Len(m) : m[e].t = f.t /\ m[e].k = f.k
    BY <1>1, <1>3
  <2>2. \A i \in 1..Len(m) : i \in at <=> i = e
    BY <1>1, <2>1 DEF IsMap
  <2>3. PICK p : p = Put(m, f)
    OBVIOUS
  <2>4. p = [n \in 1..Len(m) |-> IF n \in at THEN f ELSE m[n]]
    BY <1>1, <1>3, <2>3 DEF Put
  <2>5. /\ p \in Seq(Fields) /\ Len(p) = Len(m) /\ p[e] = f
        /\ \A i \in 1..Len(m) : i # e => p[i] = m[i]
    BY <1>1, <2>2, <2>4
  <2>6. \A i \in 1..Len(m) : p[i].t = m[i].t /\ p[i].k = m[i].k
    BY <2>1, <2>5
  <2>7. \A i, j \in 1..Len(p) : p[i].t = p[j].t /\ p[i].k = p[j].k => i = j
    BY <2>5, <2>6 DEF IsMap
  <2>8. \A i \in 1..Len(p) : p[i].t \in KeyedTypes <=> p[i].k # NoKey
    BY <2>5, <2>6 DEF IsMap
  <2>9. \A i \in 1..Len(p) : p[i].t \in {"time_locktime", "height_locktime"} => p[i].v > 0
    BY <2>5 DEF IsMap
  <2>10. IsMap(p)
    BY <2>5, <2>7, <2>8, <2>9 DEF IsMap
  <2>11. \A y : y \in ToSet(p) <=> \E i \in 1..Len(m) : y = p[i]
    BY <2>5, InSeq
  <2>12. ASSUME NEW y
         PROVE  y \in ToSet(p) <=> y = f \/ (y \in ToSet(m) /\ ~(y.t = f.t /\ y.k = f.k))
    <3>1. ASSUME y \in ToSet(p), y # f PROVE y \in ToSet(m) /\ ~(y.t = f.t /\ y.k = f.k)
      <4>1. PICK i \in 1..Len(m) : y = p[i]
        BY <2>11, <3>1
      <4>2. i # e /\ y = m[i]
        BY <2>5, <3>1, <4>1
      <4>3. i \notin at
        BY <2>2, <4>2
      <4> QED BY <1>1, <4>2, <4>3
    <3>2. ASSUME y \in ToSet(m), ~(y.t = f.t /\ y.k = f.k) PROVE y \in ToSet(p)
      <4>1. PICK i \in 1..Len(m) : y = m[i]
        BY <1>1, <3>2
      <4>2. i # e
        BY <2>1, <3>2, <4>1
      <4> QED BY <2>5, <2>11, <4>1, <4>2
    <3>3. f \in ToSet(p)
      BY <2>5, <2>11
    <3> QED BY <3>1, <3>2, <3>3
  <2> QED BY <2>3, <2>10, <2>12
<1> QED BY <1>2, <1>3

\* What a field that is put into a map does to the values of the map.
LEMMA PutValues ==
    ASSUME NEW m, IsMap(m), NEW f \in Fields, f.t \in KeyedTypes <=> f.k # NoKey,
           f.t \in {"time_locktime", "height_locktime"} => f.v > 0,
           NEW t, t \notin KeyedTypes
    PROVE  /\ t # f.t => (Has(Put(m, f), t) <=> Has(m, t)) /\ ValueOf(Put(m, f), t) = ValueOf(m, t)
           /\ t = f.t /\ IsSet(f) => Has(Put(m, f), t) /\ ValueOf(Put(m, f), t) = f.v
           /\ t = f.t /\ ~IsSet(f) => ~Has(Put(m, f), t)
<1>1. PICK p : p = Put(m, f)
  OBVIOUS
<1>2. IsMap(p) /\ \A y : y \in ToSet(p) <=> y = f \/ (y \in ToSet(m) /\ ~(y.t = f.t /\ y.k = f.k))
  BY <1>1, PutIs
<1>3. ASSUME t # f.t PROVE (Has(p, t) <=> Has(m, t)) /\ ValueOf(p, t) = ValueOf(m, t)
  <2>1. \A y : y.t = t /\ IsSet(y) => (y \in ToSet(p) <=> y \in ToSet(m))
    BY <1>2, <1>3
  <2> QED BY <1>2, <2>1, SameValue
<1>4. ASSUME t = f.t, IsSet(f) PROVE Has(p, t) /\ ValueOf(p, t) = f.v
  BY <1>2, <1>4, ValueIs
<1>5. ASSUME t = f.t, ~IsSet(f), Has(p, t) PROVE FALSE
  <2>1. PICK y \in ToSet(p) : y.t = t /\ IsSet(y)
    BY <1>2, <1>5, ValueIs
  <2>2. y \in ToSet(m) /\ y.k # f.k
    BY <1>2, <1>5, <2>1
  <2>3. y.k = NoKey /\ f.k = NoKey
    BY <1>5, <2>1, <2>2, InSeq DEF IsMap
  <2> QED BY <2>2, <2>3
<1> QED BY <1>1, <1>3, <1>4, <1>5

----------------------------------------------------------------------------
(* Signatures do not change what a PSBT spells out                         *)

Spelled == V2Fields \cup {"tx_version", "fallback"}

Same(a, b) == \A t \in Spelled : (Has(a, t) <=> Has(b, t)) /\ ValueOf(a, t) = ValueOf(b, t)

LEMMA SpelledIs == \A t \in Spelled : t \notin KeyedTypes /\ t # "partial_sig" /\ t # "tap_key_sig"
  BY DEF Spelled, V2Fields, KeyedTypes

IsSignature(f) ==
    /\ f \in Fields
    /\ \/ f.t = "partial_sig" /\ f.k # NoKey
       \/ f.t = "tap_key_sig" /\ f.k = NoKey

LEMMA SignaturePut ==
    ASSUME NEW m, IsMap(m), NEW f, IsSignature(f)
    PROVE  IsMap(Put(m, f)) /\ Same(Put(m, f), m)
<1>1. /\ f.t \in KeyedTypes <=> f.k # NoKey
      /\ f.t \notin {"time_locktime", "height_locktime"} /\ f \in Fields
  BY DEF IsSignature, KeyedTypes
<1>2. IsMap(Put(m, f))
  BY <1>1, PutIs
<1>3. ASSUME NEW t \in Spelled
      PROVE (Has(Put(m, f), t) <=> Has(m, t)) /\ ValueOf(Put(m, f), t) = ValueOf(m, t)
  <2>1. t \notin KeyedTypes /\ t # f.t
    BY SpelledIs DEF IsSignature
  <2> QED BY <1>1, <2>1, PutValues
<1> QED BY <1>2, <1>3 DEF Same

LEMMA SameTrans ==
    ASSUME NEW a, NEW b, NEW c, Same(a, b), Same(b, c)
    PROVE  Same(a, c)
  BY DEF Same

LEMMA SameSelf == \A a : Same(a, a)
  BY DEF Same

LEMMA SignaturesPut ==
    ASSUME NEW m, IsMap(m), NEW s, Len(s) \in Nat, \A i \in 1..Len(s) : IsSignature(s[i])
    PROVE  IsMap(Folded(Put, m, s)) /\ Same(Folded(Put, m, s), m)
<1>1. PICK u : PutRun(u, m, s, Len(s)) /\ Folded(Put, m, s) = u[Len(s)]
  BY PutFolded
<1> DEFINE T == {n \in Nat : n <= Len(s) => IsMap(u[n]) /\ Same(u[n], m)}
<1>2. 0 \in T
  BY <1>1, SameSelf DEF PutRun
<1>3. ASSUME NEW n \in Nat, n \in T PROVE n + 1 \in T
  <2>1. CASE n + 1 <= Len(s)
    <3>1. n + 1 \in 1..Len(s) /\ (n + 1) - 1 = n /\ n <= Len(s)
      BY <2>1
    <3>2. u[n + 1] = Put(u[(n + 1) - 1], s[n + 1])
      BY <1>1, <3>1 DEF PutRun
    <3>3. IsMap(u[n]) /\ Same(u[n], m) /\ u[n + 1] = Put(u[n], s[n + 1]) /\ IsSignature(s[n + 1])
      BY <1>3, <3>1, <3>2
    <3>4. IsMap(u[n + 1]) /\ Same(u[n + 1], u[n])
      BY <3>3, SignaturePut
    <3>5. Same(u[n + 1], m)
      BY <3>3, <3>4, SameTrans
    <3> QED BY <3>4, <3>5
  <2>2. CASE ~(n + 1 <= Len(s))
    BY <2>2
  <2> QED BY <2>1, <2>2
<1> HIDE DEF T
<1>4. Len(s) \in T
  BY <1>2, <1>3, Induction
<1> QED BY <1>1, <1>4 DEF T

LEMMA MergedIs ==
    ASSUME NEW m, IsMap(m), NEW s, IsMap(s)
    PROVE  IsMap(Merged(m, s)) /\ Same(Merged(m, s), m)
<1>0. Len(s) \in Nat /\ \A i \in 1..Len(s) : s[i] \in Fields /\ (s[i].t \in KeyedTypes <=> s[i].k # NoKey)
  BY DEF IsMap
<1>1. PICK u : MergeRun(u, m, s, Len(s)) /\ Merged(m, s) = u[Len(s)]
  BY <1>0, MergeFolded DEF Merged
<1> DEFINE T == {n \in Nat : n <= Len(s) => IsMap(u[n]) /\ Same(u[n], m)}
<1>2. 0 \in T
  BY <1>1, SameSelf DEF MergeRun
<1>3. ASSUME NEW n \in Nat, n \in T PROVE n + 1 \in T
  <2>1. CASE n + 1 <= Len(s)
    <3>1. n + 1 \in 1..Len(s) /\ (n + 1) - 1 = n /\ n <= Len(s)
      BY <1>0, <2>1
    <3>2. u[n + 1] = PutSignature(u[(n + 1) - 1], s[n + 1])
      BY <1>1, <3>1 DEF MergeRun
    <3>3. IsMap(u[n]) /\ Same(u[n], m) /\ u[n + 1] = PutSignature(u[n], s[n + 1])
      BY <1>3, <3>1, <3>2
    <3>4. CASE s[n + 1].t = "partial_sig"
      <4>1. IsSignature(s[n + 1])
        BY <1>0, <3>1, <3>4 DEF IsSignature, KeyedTypes
      <4>2. IsMap(u[n + 1]) /\ Same(u[n + 1], u[n])
        BY <3>3, <3>4, <4>1, SignaturePut DEF PutSignature
      <4>3. Same(u[n + 1], m)
        BY <3>3, <4>2, SameTrans
      <4> QED BY <4>2, <4>3
    <3>5. CASE s[n + 1].t # "partial_sig"
      BY <3>3, <3>5 DEF PutSignature
    <3> QED BY <3>4, <3>5
  <2>2. CASE ~(n + 1 <= Len(s))
    BY <1>0, <2>2
  <2> QED BY <2>1, <2>2
<1> HIDE DEF T
<1>4. Len(s) \in T
  BY <1>0, <1>2, <1>3, Induction
<1> QED BY <1>0, <1>1, <1>4 DEF T

----------------------------------------------------------------------------
(* The keys of the device, and the signatures that are added               *)

LEMMA FiniteImage ==
    ASSUME NEW S, IsFiniteSet(S), NEW g
    PROVE  IsFiniteSet({g[x] : x \in S})
<1> DEFINE T == {g[x] : x \in S}
           h == [x \in S |-> g[x]]
<1>1. h \in Surjection(S, T)
  BY DEF Surjection
<1> HIDE DEF T, h
<1>2. IsFiniteSet(T)
  BY <1>1, FS_Surjection
<1> QED BY <1>2 DEF T

LEMMA FiniteToSet ==
    ASSUME NEW S, NEW s \in Seq(S)
    PROVE  IsFiniteSet(ToSet(s))
<1>1. Len(s) \in Nat /\ DOMAIN s = 1..Len(s)
  OBVIOUS
<1>2. IsFiniteSet(1..Len(s))
  BY <1>1, FS_Interval
<1>3. IsFiniteSet({s[x] : x \in 1..Len(s)})
  BY <1>2, FiniteImage
<1> QED BY <1>1, <1>3 DEF ToSet

LEMMA SetToSeqIs ==
    ASSUME NEW S, IsFiniteSet(S)
    PROVE  Len(SetToSeq(S)) \in Nat /\ \A i \in 1..Len(SetToSeq(S)) : SetToSeq(S)[i] \in S
<1>1. Cardinality(S) \in Nat /\ ExistsBijection(1..Cardinality(S), S)
  BY FS_CardinalityType
<1>2. PICK g : g \in [1..Cardinality(S) -> S] /\ IsInjective(g)
  BY <1>1 DEF ExistsBijection, Bijection, Injection
<1>3. SetToSeq(S) \in [1..Cardinality(S) -> S]
  BY <1>2 DEF SetToSeq
<1>4. SetToSeq(S) \in Seq(S)
  BY <1>1, <1>3
<1> QED BY <1>4

LEMMA OurKeysIs ==
    ASSUME NEW m, IsMap(m)
    PROVE  /\ OurKeys(m) \in Seq(Fields)
           /\ \A i \in 1..Len(OurKeys(m)) : OurKeys(m)[i].k \in Nat \ {0}
<1> DEFINE K == {f \in Fields : f.k # 0}
<1>0. /\ Len(m) \in Nat
      /\ \A i \in 1..Len(m) : m[i] \in Fields /\ (m[i].t = "bip32" => m[i].k # 0)
  BY DEF IsMap, KeyedTypes, NoKey
<1>1. PICK u : OursRun(u, << >>, m, Len(m)) /\ OurKeys(m) = u[Len(m)]
  BY <1>0, OursFolded DEF OurKeys
<1> DEFINE T == {n \in Nat : n <= Len(m) => u[n] \in Seq(K)}
<1>2. 0 \in T
  <2>1. u[0] = << >> /\ << >> \in Seq(K)
    BY <1>1, InEmpty DEF OursRun
  <2> QED BY <2>1
<1>3. ASSUME NEW n \in Nat, n \in T PROVE n + 1 \in T
  <2>1. CASE n + 1 <= Len(m)
    <3>1. n + 1 \in 1..Len(m) /\ (n + 1) - 1 = n /\ n <= Len(m)
      BY <1>0, <2>1
    <3>2. u[n + 1] = IfOurs(u[(n + 1) - 1], m[n + 1])
      BY <1>1, <3>1 DEF OursRun
    <3>3. u[n] \in Seq(K) /\ u[n + 1] = IfOurs(u[n], m[n + 1])
      BY <1>3, <3>1, <3>2
    <3>4. CASE m[n + 1].t = "bip32" /\ m[n + 1].v \in OurOrigins
      <4>1. m[n + 1] \in K
        BY <1>0, <3>1, <3>4
      <4>2. u[n + 1] = Append(u[n], m[n + 1])
        BY <3>3, <3>4 DEF IfOurs
      <4> HIDE DEF K
      <4>3. u[n + 1] \in Seq(K)
        BY <3>3, <4>1, <4>2
      <4> QED BY <4>3
    <3>5. CASE ~(m[n + 1].t = "bip32" /\ m[n + 1].v \in OurOrigins)
      <4>1. u[n + 1] = u[n]
        BY <3>3, <3>5 DEF IfOurs
      <4> QED BY <3>3, <4>1
    <3> QED BY <3>4, <3>5
  <2>2. CASE ~(n + 1 <= Len(m))
    BY <1>0, <2>2
  <2> QED BY <2>1, <2>2
<1> HIDE DEF T
<1>4. Len(m) \in T
  BY <1>0, <1>2, <1>3, Induction
<1>5. OurKeys(m) \in Seq(K)
  BY <1>0, <1>1, <1>4 DEF T
<1>6. \A f \in K : f \in Fields /\ f.k \in Nat \ {0}
  BY FieldIs
<1>7. K \subseteq Fields
  OBVIOUS
<1> HIDE DEF K
<1>8. OurKeys(m) \in Seq(Fields)
  BY <1>5, <1>7, SeqMonotonic
<1>9. \A i \in 1..Len(OurKeys(m)) : OurKeys(m)[i] \in K
  BY <1>5
<1> QED BY <1>6, <1>8, <1>9

LEMMA UnsignedIs ==
    ASSUME NEW m, IsMap(m)
    PROVE  IsFiniteSet(Unsigned(m)) /\ Unsigned(m) \subseteq Nat \ {0}
<1> DEFINE o == OurKeys(m)
           A == {f \in ToSet(o) : f.k \notin SignedKeys(m)}
           g == [f \in A |-> f.k]
<1>1. o \in Seq(Fields) /\ \A i \in 1..Len(o) : o[i].k \in Nat \ {0}
  BY OurKeysIs
<1>2. IsFiniteSet(ToSet(o)) /\ \A f \in ToSet(o) : f.k \in Nat \ {0}
  BY <1>1, FiniteToSet, InSeq
<1>3. IsFiniteSet(A)
  BY <1>2, FS_Subset
<1>4. IsFiniteSet({g[x] : x \in A})
  BY <1>3, FiniteImage
<1>5. Unsigned(m) = {f.k : f \in A}
  BY DEF Unsigned
<1>6. Unsigned(m) = {g[x] : x \in A}
  BY <1>5
<1> QED BY <1>2, <1>4, <1>5, <1>6

\* Inputs and keys that signatures are made for.
Pairs(S) == IsFiniteSet(S) /\ \A x \in S : x[1] \in Nat /\ x[2] \in Nat \ {0}

LEMMA FewerPairs ==
    ASSUME NEW S, Pairs(S), NEW T, T \subseteq S
    PROVE  Pairs(T)
  BY FS_Subset DEF Pairs

LEMMA ChosenPairs ==
    ASSUME NEW n \in Nat, NEW S, S \subseteq 1..n, NEW g, \A i \in S : g[i] \in Nat \ {0}
    PROVE  Pairs({<<i, g[i]>> : i \in S})
<1> DEFINE h == [i \in S |-> <<i, g[i]>>]
<1>1. IsFiniteSet(1..n)
  BY FS_Interval
<1>2. IsFiniteSet(S)
  BY <1>1, FS_Subset
<1>3. IsFiniteSet({h[i] : i \in S})
  BY <1>2, FiniteImage
<1>4. {h[i] : i \in S} = {<<i, g[i]>> : i \in S}
  OBVIOUS
<1>5. \A i \in S : i \in Nat
  OBVIOUS
<1> QED BY <1>3, <1>4, <1>5 DEF Pairs

AllOf(m, S) == UNION {{<<i, k>> : k \in Unsigned(m[i])} : i \in S}

LEMMA AllPairs ==
    ASSUME NEW n \in Nat, NEW S, S \subseteq 1..n, NEW m, \A i \in S : IsMap(m[i])
    PROVE  Pairs(AllOf(m, S))
<1> DEFINE h == [i \in S |-> {<<i, k>> : k \in Unsigned(m[i])}]
           H == {h[i] : i \in S}
<1>1. IsFiniteSet(1..n)
  BY FS_Interval
<1>2. IsFiniteSet(S)
  BY <1>1, FS_Subset
<1>3. IsFiniteSet(H)
  BY <1>2, FiniteImage
<1>4. ASSUME NEW i \in S PROVE IsFiniteSet(h[i]) /\ \A x \in h[i] : x[1] \in Nat /\ x[2] \in Nat \ {0}
  <2> DEFINE g == [k \in Unsigned(m[i]) |-> <<i, k>>]
  <2>1. IsFiniteSet(Unsigned(m[i])) /\ Unsigned(m[i]) \subseteq Nat \ {0} /\ i \in Nat
    BY UnsignedIs
  <2>2. IsFiniteSet({g[k] : k \in Unsigned(m[i])})
    BY <2>1, FiniteImage
  <2>3. h[i] = {<<i, k>> : k \in Unsigned(m[i])} /\ {g[k] : k \in Unsigned(m[i])} = {<<i, k>> : k \in Unsigned(m[i])}
    OBVIOUS
  <2> QED BY <2>1, <2>2, <2>3
<1>5. AllOf(m, S) = UNION H
  BY DEF AllOf
<1> HIDE DEF h
<1>6. IsFiniteSet(UNION H)
  BY <1>3, <1>4, FS_UNION
<1> QED BY <1>4, <1>5, <1>6 DEF Pairs

----------------------------------------------------------------------------
(* What a PSBT spells out                                                  *)

\* ReferenceLockTime, by the positions of the inputs.
Demands(p) == {i \in 1..Len(p.inputs) : \/ Has(p.inputs[i], "time_locktime")
                                        \/ Has(p.inputs[i], "height_locktime")}
Fallback(p) == IF Has(p.fields, "fallback") THEN ValueOf(p.fields, "fallback") ELSE 0
LocksOf(p, t) == {ValueOf(p.inputs[i], t) : i \in Demands(p)}
LockBy(p) ==
    IF Demands(p) = {} THEN Fallback(p)
    ELSE IF \A i \in Demands(p) : Has(p.inputs[i], "height_locktime") THEN Largest(LocksOf(p, "height_locktime"))
    ELSE IF \A i \in Demands(p) : Has(p.inputs[i], "time_locktime") THEN Largest(LocksOf(p, "time_locktime"))
    ELSE None

LEMMA LockByIs ==
    ASSUME NEW S, NEW p, p.inputs \in Seq(S)
    PROVE  ReferenceLockTime(p) = LockBy(p)
<1> DEFINE D == {m \in ToSet(p.inputs) : Has(m, "time_locktime") \/ Has(m, "height_locktime")}
<1>1. \A m : m \in ToSet(p.inputs) <=> \E i \in 1..Len(p.inputs) : m = p.inputs[i]
  BY InSeq
<1>2. \A m : m \in D <=> \E i \in Demands(p) : m = p.inputs[i]
  BY <1>1 DEF Demands
<1> HIDE DEF D
<1>3. D = {} <=> Demands(p) = {}
  BY <1>2
<1>4. ASSUME NEW t PROVE (\A m \in D : Has(m, t)) <=> (\A i \in Demands(p) : Has(p.inputs[i], t))
  BY <1>2
<1>5. ASSUME NEW t PROVE {ValueOf(m, t) : m \in D} = LocksOf(p, t)
  BY <1>2 DEF LocksOf
<1>6. ReferenceLockTime(p) =
        IF D = {} THEN Fallback(p)
        ELSE IF \A m \in D : Has(m, "height_locktime") THEN Largest({ValueOf(m, "height_locktime") : m \in D})
        ELSE IF \A m \in D : Has(m, "time_locktime") THEN Largest({ValueOf(m, "time_locktime") : m \in D})
        ELSE None
  BY DEF ReferenceLockTime, D, Fallback
<1>7. (\A m \in D : Has(m, "height_locktime")) <=> (\A i \in Demands(p) : Has(p.inputs[i], "height_locktime"))
  BY <1>4
<1>8. (\A m \in D : Has(m, "time_locktime")) <=> (\A i \in Demands(p) : Has(p.inputs[i], "time_locktime"))
  BY <1>4
<1>9. /\ {ValueOf(m, "height_locktime") : m \in D} = LocksOf(p, "height_locktime")
      /\ {ValueOf(m, "time_locktime") : m \in D} = LocksOf(p, "time_locktime")
  BY <1>5
<1> QED BY <1>3, <1>6, <1>7, <1>8, <1>9 DEF LockBy

InGlobals == {"tx_version", "fallback"}
InInputs  == {"prev_txid", "prev_out", "sequence", "time_locktime", "height_locktime"}
InOutputs == {"amount", "script"}

Agree(a, b, S) == \A t \in S : (Has(a, t) <=> Has(b, t)) /\ ValueOf(a, t) = ValueOf(b, t)

LEMMA SameAgree ==
    ASSUME NEW a, NEW b, Same(a, b)
    PROVE  Agree(a, b, InGlobals) /\ Agree(a, b, InInputs) /\ Agree(a, b, InOutputs)
<1>1. InGlobals \subseteq Spelled /\ InInputs \subseteq Spelled /\ InOutputs \subseteq Spelled
  BY DEF InGlobals, InInputs, InOutputs, Spelled, V2Fields
<1> QED BY <1>1 DEF Same, Agree

SamePsbt(p, q) ==
    /\ Agree(p.fields, q.fields, InGlobals)
    /\ Len(p.inputs) = Len(q.inputs) /\ \A i \in 1..Len(p.inputs) : Agree(p.inputs[i], q.inputs[i], InInputs)
    /\ Len(p.outputs) = Len(q.outputs) /\ \A i \in 1..Len(p.outputs) : Agree(p.outputs[i], q.outputs[i], InOutputs)

LEMMA PsbtIs ==
    ASSUME NEW p, IsPsbt(p)
    PROVE  /\ p.version \in Nat /\ p.version # 1 /\ p.explicit \in BOOLEAN /\ p.tx \in Transactions
           /\ p.fields \in Seq(Fields) /\ IsMap(p.fields)
           /\ p.inputs \in Seq(Seq(Fields)) /\ Len(p.inputs) \in Nat /\ DOMAIN p.inputs = 1..Len(p.inputs)
           /\ \A i \in 1..Len(p.inputs) : IsMap(p.inputs[i]) /\ p.inputs[i] \in Seq(Fields)
           /\ p.outputs \in Seq(Seq(Fields)) /\ Len(p.outputs) \in Nat /\ DOMAIN p.outputs = 1..Len(p.outputs)
           /\ \A i \in 1..Len(p.outputs) : IsMap(p.outputs[i]) /\ p.outputs[i] \in Seq(Fields)
           /\ p.version = 0 => Len(p.inputs) = Len(p.tx.vin) /\ Len(p.outputs) = Len(p.tx.vout)
<1>1. /\ p.version \in Nat /\ p.explicit \in BOOLEAN /\ p.tx \in Transactions
      /\ p.fields \in Seq(Fields) /\ p.inputs \in Seq(Seq(Fields)) /\ p.outputs \in Seq(Seq(Fields))
  BY DEF IsPsbt, Psbts
<1>2. /\ Len(p.inputs) \in Nat /\ DOMAIN p.inputs = 1..Len(p.inputs)
      /\ \A i \in 1..Len(p.inputs) : p.inputs[i] \in Seq(Fields)
  BY <1>1
<1>3. /\ Len(p.outputs) \in Nat /\ DOMAIN p.outputs = 1..Len(p.outputs)
      /\ \A i \in 1..Len(p.outputs) : p.outputs[i] \in Seq(Fields)
  BY <1>1
<1> QED BY <1>1, <1>2, <1>3 DEF IsPsbt

LEMMA SameSpells ==
    ASSUME NEW p, NEW q, IsPsbt(p), IsPsbt(q), SamePsbt(p, q)
    PROVE  AssembledTx(p, ReferenceLockTime(p)) = AssembledTx(q, ReferenceLockTime(q))
<1>0. /\ "time_locktime" \in InInputs /\ "height_locktime" \in InInputs /\ "fallback" \in InGlobals
      /\ "tx_version" \in InGlobals /\ "prev_txid" \in InInputs /\ "prev_out" \in InInputs
      /\ "sequence" \in InInputs /\ "amount" \in InOutputs /\ "script" \in InOutputs
  BY DEF InGlobals, InInputs, InOutputs
<1>1. ASSUME NEW t \in InGlobals
      PROVE  (Has(p.fields, t) <=> Has(q.fields, t)) /\ ValueOf(p.fields, t) = ValueOf(q.fields, t)
  BY DEF SamePsbt, Agree
<1>2. ASSUME NEW i \in 1..Len(p.inputs), NEW t \in InInputs
      PROVE  (Has(p.inputs[i], t) <=> Has(q.inputs[i], t)) /\ ValueOf(p.inputs[i], t) = ValueOf(q.inputs[i], t)
  BY DEF SamePsbt, Agree
<1>3. ASSUME NEW i \in 1..Len(p.outputs), NEW t \in InOutputs
      PROVE  (Has(p.outputs[i], t) <=> Has(q.outputs[i], t)) /\ ValueOf(p.outputs[i], t) = ValueOf(q.outputs[i], t)
  BY DEF SamePsbt, Agree
<1>4. Len(p.inputs) = Len(q.inputs) /\ Len(p.outputs) = Len(q.outputs)
  BY DEF SamePsbt
<1>5. ReferenceLockTime(p) = ReferenceLockTime(q)
  <2>1. Demands(p) = Demands(q)
    BY <1>0, <1>2, <1>4 DEF Demands
  <2>2. Fallback(p) = Fallback(q)
    BY <1>0, <1>1 DEF Fallback
  <2>3. \A i \in Demands(p) : i \in 1..Len(p.inputs)
    BY DEF Demands
  <2>4. ASSUME NEW t \in InInputs PROVE LocksOf(p, t) = LocksOf(q, t)
    BY <1>2, <2>1, <2>3 DEF LocksOf
  <2>5. LocksOf(p, "time_locktime") = LocksOf(q, "time_locktime") /\ LocksOf(p, "height_locktime") = LocksOf(q, "height_locktime")
    BY <1>0, <2>4
  <2>6. ASSUME NEW t \in InInputs
        PROVE  (\A i \in Demands(p) : Has(p.inputs[i], t)) <=> (\A i \in Demands(q) : Has(q.inputs[i], t))
    BY <1>2, <2>1, <2>3
  <2>7. LockBy(p) = LockBy(q)
    BY <1>0, <2>1, <2>2, <2>5, <2>6 DEF LockBy
  <2> QED BY <2>7, LockByIs, PsbtIs
<1>6. PICK l : l = ReferenceLockTime(p)
  OBVIOUS
<1>7. DOMAIN p.inputs = 1..Len(p.inputs) /\ DOMAIN q.inputs = 1..Len(p.inputs)
  BY <1>4, PsbtIs
<1>8. DOMAIN p.outputs = 1..Len(p.outputs) /\ DOMAIN q.outputs = 1..Len(p.outputs)
  BY <1>4, PsbtIs
<1> DEFINE In(m) == [txid |-> ValueOf(m, "prev_txid"), n |-> ValueOf(m, "prev_out"),
                     sequence |-> IF Has(m, "sequence") THEN ValueOf(m, "sequence") ELSE FinalSequence]
           Out(m) == [amount |-> ValueOf(m, "amount"),
                      script |-> IF Has(m, "script") THEN ValueOf(m, "script") ELSE 0]
<1>9. \A i \in 1..Len(p.inputs) : In(p.inputs[i]) = In(q.inputs[i])
  BY <1>0, <1>2
<1>10. \A i \in 1..Len(p.outputs) : Out(p.outputs[i]) = Out(q.outputs[i])
  BY <1>0, <1>3
<1>11. ASSUME NEW x
       PROVE  AssembledTx(x, l) = [version |-> ValueOf(x.fields, "tx_version"), locktime |-> l,
                                   vin |-> [i \in DOMAIN x.inputs |-> In(x.inputs[i])],
                                   vout |-> [i \in DOMAIN x.outputs |-> Out(x.outputs[i])]]
  BY DEF AssembledTx
<1> HIDE DEF In, Out
<1>12. [i \in DOMAIN p.inputs |-> In(p.inputs[i])] = [i \in DOMAIN q.inputs |-> In(q.inputs[i])]
  BY <1>7, <1>9
<1>13. [i \in DOMAIN p.outputs |-> Out(p.outputs[i])] = [i \in DOMAIN q.outputs |-> Out(q.outputs[i])]
  BY <1>8, <1>10
<1>14. ValueOf(p.fields, "tx_version") = ValueOf(q.fields, "tx_version")
  BY <1>0, <1>1
<1>15. AssembledTx(p, l) = AssembledTx(q, l)
  BY <1>11, <1>12, <1>13, <1>14
<1> QED BY <1>5, <1>6, <1>15

\* A PSBT in which only the inputs are replaced.
NewInputs(p, n) ==
    /\ n = [i \in DOMAIN p.inputs |-> n[i]]
    /\ \A i \in 1..Len(p.inputs) : IsMap(n[i]) /\ Same(n[i], p.inputs[i])

Keeps(q, p) ==
    /\ IsPsbt(q) /\ SamePsbt(q, p) /\ q.version = p.version /\ q.tx = p.tx
    /\ Len(q.inputs) = Len(p.inputs)

LEMMA WithInputs ==
    ASSUME NEW p, IsPsbt(p), NEW n, NewInputs(p, n)
    PROVE  Keeps([p EXCEPT !.inputs = n], p)
<1>0. PICK q : q = [p EXCEPT !.inputs = n]
  OBVIOUS
<1>1. /\ p \in Psbts /\ Len(p.inputs) \in Nat /\ DOMAIN p.inputs = 1..Len(p.inputs)
  BY PsbtIs DEF IsPsbt
<1>2. \A i \in 1..Len(p.inputs) : n[i] \in Seq(Fields)
  BY DEF IsMap, NewInputs
<1>3. n \in Seq(Seq(Fields)) /\ Len(n) = Len(p.inputs)
  <2>1. n = [i \in 1..Len(p.inputs) |-> n[i]]
    BY <1>1 DEF NewInputs
  <2> HIDE DEF Fields
  <2> QED BY <1>1, <1>2, <2>1
<1>4. /\ q.version = p.version /\ q.explicit = p.explicit /\ q.tx = p.tx /\ q.fields = p.fields
      /\ q.inputs = n /\ q.outputs = p.outputs
  BY <1>0, <1>1 DEF Psbts
<1>5. q \in Psbts
  BY <1>0, <1>1, <1>3 DEF Psbts
<1>6. IsPsbt(q)
  BY <1>3, <1>4, <1>5 DEF IsPsbt, NewInputs
<1>7. SamePsbt(q, p)
  BY <1>3, <1>4, SameSelf, SameAgree DEF SamePsbt, NewInputs
<1> QED BY <1>0, <1>3, <1>4, <1>6, <1>7 DEF Keeps

LEMMA AddedIs ==
    ASSUME NEW p, IsPsbt(p), NEW S, Pairs(S)
    PROVE  Keeps(AddSignatures(p, S), p)
<1> DEFINE at(i) == {y \in S : y[1] = i}
           sigs(i) == {Field("partial_sig", x[2], Sig(i, x[2])) : x \in at(i)}
           n == [i \in DOMAIN p.inputs |-> Folded(Put, p.inputs[i], SetToSeq(sigs(i)))]
<1>1. ASSUME NEW i \in 1..Len(p.inputs) PROVE IsFiniteSet(sigs(i)) /\ \A f \in sigs(i) : IsSignature(f)
  <2> DEFINE g == [x \in at(i) |-> Field("partial_sig", x[2], Sig(i, x[2]))]
  <2>1. IsFiniteSet(at(i)) /\ \A x \in at(i) : x[2] \in Nat \ {0}
    BY FS_Subset DEF Pairs
  <2>2. IsFiniteSet({g[x] : x \in at(i)})
    BY <2>1, FiniteImage
  <2>3. {g[x] : x \in at(i)} = sigs(i)
    OBVIOUS
  <2>4. i \in Int
    BY PsbtIs
  <2>5. ASSUME NEW k \in Nat \ {0} PROVE IsSignature(Field("partial_sig", k, Sig(i, k)))
    <3>1. Sig(i, k) \in Int
      BY <2>4 DEF Sig
    <3>2. "partial_sig" \in FieldTypes
      BY Orders DEF FieldTypes, InputTypes
    <3> QED BY <3>1, <3>2 DEF IsSignature, Field, Fields, NoKey
  <2> QED BY <2>1, <2>2, <2>3, <2>5
<1>2. DOMAIN p.inputs = 1..Len(p.inputs) /\ \A i \in 1..Len(p.inputs) : IsMap(p.inputs[i])
  BY PsbtIs
<1> HIDE DEF sigs
<1>3. ASSUME NEW i \in 1..Len(p.inputs) PROVE IsMap(n[i]) /\ Same(n[i], p.inputs[i])
  <2>1. /\ Len(SetToSeq(sigs(i))) \in Nat
        /\ \A j \in 1..Len(SetToSeq(sigs(i))) : SetToSeq(sigs(i))[j] \in sigs(i)
    BY <1>1, SetToSeqIs
  <2>2. \A j \in 1..Len(SetToSeq(sigs(i))) : IsSignature(SetToSeq(sigs(i))[j])
    BY <1>1, <2>1
  <2>3. n[i] = Folded(Put, p.inputs[i], SetToSeq(sigs(i)))
    BY <1>2
  <2> QED BY <1>2, <2>1, <2>2, <2>3, SignaturesPut
<1>4. AddSignatures(p, S) = [p EXCEPT !.inputs = n]
  BY DEF AddSignatures, sigs
<1>5. n = [i \in DOMAIN p.inputs |-> n[i]]
  OBVIOUS
<1> HIDE DEF n
<1>6. NewInputs(p, n)
  BY <1>3, <1>5 DEF NewInputs
<1> QED BY <1>4, <1>6, WithInputs

----------------------------------------------------------------------------
(* The loop over the lock times computes what BIP 370 says                 *)

LEMMA LargestIs ==
    ASSUME NEW S, S \subseteq Int, NEW x \in S, \A y \in S : y <= x
    PROVE  Largest(S) = x
<1>1. \A y \in S : (\A z \in S : z <= y) => y = x
  <2> SUFFICES ASSUME NEW y \in S, \A z \in S : z <= y PROVE y = x
    OBVIOUS
  <2>1. x <= y /\ y <= x /\ x \in Int /\ y \in Int
    OBVIOUS
  <2> QED BY <2>1
<1> QED BY <1>1 DEF Largest

TimeOf(p, i)   == ValueOf(p.inputs[i], "time_locktime")
HeightOf(p, i) == ValueOf(p.inputs[i], "height_locktime")

\* The accumulator of the loop for one kind of lock time, with the values v of the
\* inputs: None once an input has only the other kind (is in B), else the largest value.
Most(acc, n, v, B) ==
    /\ (\E i \in 1..n : i \in B) => acc = None
    /\ ~(\E i \in 1..n : i \in B) =>
          /\ acc \in Nat /\ \A i \in 1..n : v[i] <= acc
          /\ acc = 0 \/ \E i \in 1..n : v[i] = acc

LEMMA MostStep ==
    ASSUME NEW n \in Nat, NEW v, NEW B, NEW a, Most(a, n, v, B),
           \A i \in 1..(n + 1) : v[i] = None \/ v[i] \in Nat,
           NEW b, b = IF n + 1 \in B THEN None
                      ELSE IF v[n + 1] # None /\ a # None THEN Larger(a, v[n + 1]) ELSE a
    PROVE  Most(b, n + 1, v, B)
<1>1. \A i : i \in 1..(n + 1) <=> i \in 1..n \/ i = n + 1
  OBVIOUS
<1>2. CASE n + 1 \in B
  BY <1>1, <1>2 DEF Most
<1>3. CASE n + 1 \notin B /\ \E i \in 1..n : i \in B
  <2>1. a = None /\ b = None /\ \E i \in 1..(n + 1) : i \in B
    BY <1>1, <1>3 DEF Most
  <2> QED BY <2>1 DEF Most
<1>4. CASE n + 1 \notin B /\ ~\E i \in 1..n : i \in B
  <2>1. a \in Nat /\ (\A i \in 1..n : v[i] <= a) /\ (a = 0 \/ \E i \in 1..n : v[i] = a)
    BY <1>4 DEF Most
  <2>2. ~\E i \in 1..(n + 1) : i \in B
    BY <1>1, <1>4
  <2>3. n + 1 \in 1..(n + 1) /\ a # None /\ \A i \in 1..n : i \in 1..(n + 1)
    BY <2>1 DEF None
  <2>4. CASE v[n + 1] = None
    <3>1. b = a /\ v[n + 1] <= a
      BY <1>4, <2>1, <2>4 DEF None
    <3> QED BY <1>1, <2>1, <2>2, <2>3, <3>1 DEF Most
  <2>5. CASE v[n + 1] # None /\ a >= v[n + 1]
    <3>1. b = a /\ v[n + 1] <= a
      BY <1>4, <2>1, <2>3, <2>5 DEF Larger
    <3> QED BY <1>1, <2>1, <2>2, <2>3, <3>1 DEF Most
  <2>6. CASE v[n + 1] # None /\ ~(a >= v[n + 1])
    <3>1. b = v[n + 1] /\ v[n + 1] \in Nat /\ a <= b
      BY <1>4, <2>1, <2>3, <2>6 DEF Larger
    <3>2. \A i \in 1..n : v[i] <= b
      <4>1. ASSUME NEW i \in 1..n PROVE v[i] <= b
        <5>1. v[i] \in Int /\ v[i] <= a
          BY <2>1, <2>3 DEF None
        <5> QED BY <2>1, <3>1, <5>1
      <4> QED BY <4>1
    <3>3. \A i \in 1..(n + 1) : v[i] <= b
      BY <1>1, <3>1, <3>2
    <3> QED BY <2>2, <2>3, <3>1, <3>3 DEF Most
  <2> QED BY <2>4, <2>5, <2>6
<1> QED BY <1>2, <1>3, <1>4

OnlyTime(p, i)   == TimeOf(p, i) # None /\ HeightOf(p, i) = None
OnlyHeight(p, i) == TimeOf(p, i) = None /\ HeightOf(p, i) # None

LEMMA LockTypes ==
    ASSUME NEW p, IsPsbt(p), NEW i \in 1..Len(p.inputs)
    PROVE  /\ TimeOf(p, i) = None \/ TimeOf(p, i) \in Nat \ {0}
           /\ HeightOf(p, i) = None \/ HeightOf(p, i) \in Nat \ {0}
           /\ TimeOf(p, i) # None <=> Has(p.inputs[i], "time_locktime")
           /\ HeightOf(p, i) # None <=> Has(p.inputs[i], "height_locktime")
<1>1. IsMap(p.inputs[i])
  BY PsbtIs
<1>2. "time_locktime" \notin KeyedTypes /\ "height_locktime" \notin KeyedTypes
  BY DEF KeyedTypes
<1>3. ASSUME NEW t \in {"time_locktime", "height_locktime"}
      PROVE  /\ ValueOf(p.inputs[i], t) = None \/ ValueOf(p.inputs[i], t) \in Nat \ {0}
             /\ ValueOf(p.inputs[i], t) # None <=> Has(p.inputs[i], t)
  <2>1. t \notin KeyedTypes
    BY <1>2
  <2>2. ValueOf(p.inputs[i], t) \in Int /\ (Has(p.inputs[i], t) => ValueOf(p.inputs[i], t) > 0)
    BY <1>1, <2>1, ValueType
  <2>3. ~Has(p.inputs[i], t) => ValueOf(p.inputs[i], t) = None
    BY <1>1, <2>1, ValueIs
  <2> QED BY <2>2, <2>3 DEF None
<1> QED BY <1>3 DEF TimeOf, HeightOf

Times(p)   == [i \in 1..Len(p.inputs) |-> TimeOf(p, i)]
Heights(p) == [i \in 1..Len(p.inputs) |-> HeightOf(p, i)]
NoTime(p)   == {i \in 1..Len(p.inputs) : OnlyHeight(p, i)}
NoHeight(p) == {i \in 1..Len(p.inputs) : OnlyTime(p, i)}

LEMMA LockLoop ==
    ASSUME NEW p, IsPsbt(p), NEW u,
           LockRun(u, [time |-> 0, height |-> 0, conflict |-> FALSE], p.inputs, Len(p.inputs))
    PROVE  LET n == Len(p.inputs) IN
              /\ Most(u[n].time, n, Times(p), NoTime(p))
              /\ Most(u[n].height, n, Heights(p), NoHeight(p))
              /\ u[n].conflict <=> NoTime(p) # {} /\ NoHeight(p) # {}
<1>0. Len(p.inputs) \in Nat
  BY PsbtIs
<1> DEFINE L == Len(p.inputs)
           Ok(n) == /\ Most(u[n].time, n, Times(p), NoTime(p))
                    /\ Most(u[n].height, n, Heights(p), NoHeight(p))
                    /\ u[n].conflict <=> /\ \E i \in 1..n : i \in NoTime(p)
                                         /\ \E i \in 1..n : i \in NoHeight(p)
           T == {n \in Nat : n <= L => Ok(n)}
<1>1. 0 \in T
  <2>1. u[0].time = 0 /\ u[0].height = 0 /\ u[0].conflict = FALSE /\ 1..0 = {}
    BY DEF LockRun
  <2>2. Most(u[0].time, 0, Times(p), NoTime(p))
    BY <2>1 DEF Most
  <2>3. Most(u[0].height, 0, Heights(p), NoHeight(p))
    BY <2>1 DEF Most
  <2>4. u[0].conflict <=> (\E i \in 1..0 : i \in NoTime(p)) /\ (\E i \in 1..0 : i \in NoHeight(p))
    BY <2>1, Zenon
  <2> QED BY <2>2, <2>3, <2>4
<1>2. ASSUME NEW n \in Nat, n \in T PROVE n + 1 \in T
  <2>1. CASE n + 1 <= L
    <3>1. n + 1 \in 1..L /\ (n + 1) - 1 = n /\ n <= L /\ \A i \in 1..(n + 1) : i \in 1..L
      BY <1>0, <2>1
    <3>2. u[n + 1] = LockStep(u[(n + 1) - 1], p.inputs[n + 1])
      BY <3>1 DEF LockRun
    <3>3. Ok(n) /\ u[n + 1] = LockStep(u[n], p.inputs[n + 1])
      BY <1>2, <3>1, <3>2
    <3> DEFINE time == TimeOf(p, n + 1)
               height == HeightOf(p, n + 1)
               ot == OnlyTime(p, n + 1)
               oh == OnlyHeight(p, n + 1)
               t == IF oh THEN None ELSE u[n].time
               h == IF ot THEN None ELSE u[n].height
    <3>4. /\ u[n + 1].time = IF time # None /\ t # None THEN Larger(t, time) ELSE t
          /\ u[n + 1].height = IF height # None /\ h # None THEN Larger(h, height) ELSE h
      BY <3>3 DEF LockStep, TimeOf, HeightOf, OnlyTime, OnlyHeight
    <3>5. u[n + 1].conflict = \/ u[n].conflict
                              \/ ot /\ u[n].time = None
                              \/ oh /\ u[n].height = None
      BY <3>3 DEF LockStep, TimeOf, HeightOf, OnlyTime, OnlyHeight
    <3>6. /\ Times(p)[n + 1] = time /\ Heights(p)[n + 1] = height
          /\ n + 1 \in NoTime(p) <=> oh
          /\ n + 1 \in NoHeight(p) <=> ot
      BY <3>1 DEF Times, Heights, NoTime, NoHeight
    <3>7. \A i \in 1..(n + 1) : /\ Times(p)[i] = None \/ Times(p)[i] \in Nat
                                /\ Heights(p)[i] = None \/ Heights(p)[i] \in Nat
      BY <3>1, LockTypes DEF Times, Heights
    <3>8. (oh => time = None) /\ (ot => height = None)
      BY DEF OnlyHeight, OnlyTime
    <3> HIDE DEF time, height, ot, oh
    <3>9. u[n + 1].time = IF n + 1 \in NoTime(p) THEN None
                          ELSE IF Times(p)[n + 1] # None /\ u[n].time # None
                               THEN Larger(u[n].time, Times(p)[n + 1]) ELSE u[n].time
      BY <3>4, <3>6, <3>8
    <3>10. u[n + 1].height = IF n + 1 \in NoHeight(p) THEN None
                             ELSE IF Heights(p)[n + 1] # None /\ u[n].height # None
                                  THEN Larger(u[n].height, Heights(p)[n + 1]) ELSE u[n].height
      BY <3>4, <3>6, <3>8
    <3>11. Most(u[n + 1].time, n + 1, Times(p), NoTime(p))
      BY <3>3, <3>7, <3>9, MostStep
    <3>12. Most(u[n + 1].height, n + 1, Heights(p), NoHeight(p))
      BY <3>3, <3>7, <3>10, MostStep
    <3>13. /\ u[n].time = None <=> \E i \in 1..n : i \in NoTime(p)
           /\ u[n].height = None <=> \E i \in 1..n : i \in NoHeight(p)
      BY <3>3 DEF Most, None
    <3>14. \A i : i \in 1..(n + 1) <=> i \in 1..n \/ i = n + 1
      OBVIOUS
    <3>15. ~(ot /\ oh)
      BY DEF ot, oh, OnlyTime, OnlyHeight
    <3>16. /\ (\E i \in 1..(n + 1) : i \in NoTime(p)) <=> (\E i \in 1..n : i \in NoTime(p)) \/ oh
           /\ (\E i \in 1..(n + 1) : i \in NoHeight(p)) <=> (\E i \in 1..n : i \in NoHeight(p)) \/ ot
      BY <3>6, <3>14
    <3>17. u[n].conflict <=> /\ \E i \in 1..n : i \in NoTime(p)
                             /\ \E i \in 1..n : i \in NoHeight(p)
      BY <3>3
    <3>18. u[n + 1].conflict <=> /\ \E i \in 1..(n + 1) : i \in NoTime(p)
                                 /\ \E i \in 1..(n + 1) : i \in NoHeight(p)
      BY <3>5, <3>13, <3>15, <3>16, <3>17, Zenon
    <3> QED BY <3>11, <3>12, <3>18
  <2>2. CASE ~(n + 1 <= L)
    BY <1>0, <2>2
  <2> QED BY <2>1, <2>2
<1> HIDE DEF T
<1>3. L \in T
  BY <1>0, <1>1, <1>2, Induction
<1>4. Ok(L)
  BY <1>0, <1>3 DEF T
<1>5. \A i : (i \in NoTime(p) => i \in 1..L) /\ (i \in NoHeight(p) => i \in 1..L)
  BY DEF NoTime, NoHeight
<1> QED BY <1>4, <1>5

LEMMA LargestLock ==
    ASSUME NEW p, IsPsbt(p), NEW t \in {"time_locktime", "height_locktime"}, NEW x \in Nat \ {0},
           \A i \in 1..Len(p.inputs) : ValueOf(p.inputs[i], t) <= x,
           NEW j \in 1..Len(p.inputs), ValueOf(p.inputs[j], t) = x
    PROVE  Demands(p) # {} /\ Largest(LocksOf(p, t)) = x
<1>1. "time_locktime" \notin KeyedTypes /\ "height_locktime" \notin KeyedTypes
  BY DEF KeyedTypes
<1>2. \A i \in 1..Len(p.inputs) : IsMap(p.inputs[i])
  BY PsbtIs
<1>3. LocksOf(p, t) \subseteq Int
  BY <1>1, <1>2, ValueType DEF LocksOf, Demands
<1>4. Has(p.inputs[j], t)
  <2>1. ValueOf(p.inputs[j], t) # None
    BY DEF None
  <2> QED BY <1>1, <1>2, <2>1, ValueIs
<1>5. j \in Demands(p)
  BY <1>4 DEF Demands
<1>6. x \in LocksOf(p, t) /\ \A y \in LocksOf(p, t) : y <= x
  BY <1>5 DEF LocksOf, Demands
<1> QED BY <1>3, <1>5, <1>6, LargestIs

\* compute_lock_time is the lock time that BIP 370 prescribes, for any PSBT.
LEMMA LockTimeIs ==
    ASSUME NEW p, IsPsbt(p)
    PROVE  compute_lock_time(p) = ReferenceLockTime(p)
<1> DEFINE L == Len(p.inputs)
<1>0. L \in Nat /\ p.inputs \in Seq(Seq(Fields))
  BY PsbtIs
<1>1. ReferenceLockTime(p) = LockBy(p)
  BY <1>0, LockByIs
<1>2. PICK u : /\ LockRun(u, [time |-> 0, height |-> 0, conflict |-> FALSE], p.inputs, L)
               /\ Folded(LockStep, [time |-> 0, height |-> 0, conflict |-> FALSE], p.inputs) = u[L]
  BY <1>0, LockFolded
<1>3. PICK lock : lock = u[L]
  OBVIOUS
<1>4. /\ Most(lock.time, L, Times(p), NoTime(p))
      /\ Most(lock.height, L, Heights(p), NoHeight(p))
      /\ lock.conflict <=> NoTime(p) # {} /\ NoHeight(p) # {}
  BY <1>2, <1>3, LockLoop
<1>5. compute_lock_time(p) = IF lock.conflict THEN None
                             ELSE IF lock.height > 0 THEN lock.height
                             ELSE IF lock.time > 0 THEN lock.time ELSE Fallback(p)
  BY <1>2, <1>3 DEF compute_lock_time, Fallback
<1>6. \A i \in 1..L : Times(p)[i] = TimeOf(p, i) /\ Heights(p)[i] = HeightOf(p, i)
  BY DEF Times, Heights
<1>7. \A i \in 1..L : /\ TimeOf(p, i) = None \/ TimeOf(p, i) \in Nat \ {0}
                      /\ HeightOf(p, i) = None \/ HeightOf(p, i) \in Nat \ {0}
                      /\ TimeOf(p, i) # None <=> Has(p.inputs[i], "time_locktime")
                      /\ HeightOf(p, i) # None <=> Has(p.inputs[i], "height_locktime")
  BY LockTypes
<1>8. Demands(p) = {i \in 1..L : TimeOf(p, i) # None \/ HeightOf(p, i) # None}
  BY <1>7 DEF Demands
<1>9. CASE NoTime(p) # {} /\ NoHeight(p) # {}
  <2>1. PICK i, j \in 1..L : OnlyHeight(p, i) /\ OnlyTime(p, j)
    BY <1>9 DEF NoTime, NoHeight
  <2>2. i \in Demands(p) /\ ~Has(p.inputs[i], "time_locktime")
    BY <1>7, <1>8, <2>1 DEF OnlyHeight
  <2>3. j \in Demands(p) /\ ~Has(p.inputs[j], "height_locktime")
    BY <1>7, <1>8, <2>1 DEF OnlyTime
  <2>4. LockBy(p) = None
    BY <2>2, <2>3 DEF LockBy
  <2> QED BY <1>1, <1>4, <1>5, <1>9, <2>4
<1>10. CASE NoHeight(p) = {}
  <2>1. /\ lock.height \in Nat /\ \A i \in 1..L : HeightOf(p, i) <= lock.height
        /\ lock.height = 0 \/ \E i \in 1..L : HeightOf(p, i) = lock.height
    BY <1>4, <1>6, <1>10 DEF Most
  <2>2. \A i \in 1..L : ~OnlyTime(p, i)
    BY <1>10 DEF NoHeight
  <2>3. ~lock.conflict
    BY <1>4, <1>10
  <2>4. \A i \in Demands(p) : Has(p.inputs[i], "height_locktime")
    BY <1>7, <1>8, <2>2 DEF OnlyTime
  <2>5. CASE lock.height > 0
    <3>1. PICK j \in 1..L : HeightOf(p, j) = lock.height
      BY <2>1, <2>5
    <3>2. lock.height \in Nat \ {0}
      BY <2>1, <2>5
    <3>3. Demands(p) # {} /\ Largest(LocksOf(p, "height_locktime")) = lock.height
      BY <2>1, <3>1, <3>2, LargestLock DEF HeightOf
    <3>4. LockBy(p) = lock.height
      BY <2>4, <3>3 DEF LockBy
    <3> QED BY <1>1, <1>5, <2>3, <2>5, <3>4
  <2>6. CASE ~(lock.height > 0)
    <3>1. \A i \in 1..L : HeightOf(p, i) = None
      BY <1>7, <2>1, <2>6
    <3>2. \A i \in 1..L : TimeOf(p, i) = None
      BY <2>2, <3>1 DEF OnlyTime
    <3>3. Demands(p) = {}
      BY <1>8, <3>1, <3>2
    <3>4. \A i \in 1..L : ~OnlyHeight(p, i)
      BY <3>1 DEF OnlyHeight
    <3>5. NoTime(p) = {}
      BY <3>4 DEF NoTime
    <3>6. lock.time \in Nat /\ (lock.time = 0 \/ \E i \in 1..L : TimeOf(p, i) = lock.time)
      BY <1>4, <1>6, <3>5 DEF Most
    <3>7. ~(lock.time > 0)
      BY <3>2, <3>6 DEF None
    <3> QED BY <1>1, <1>5, <2>3, <2>6, <3>3, <3>7 DEF LockBy
  <2> QED BY <2>5, <2>6
<1>11. CASE NoTime(p) = {} /\ NoHeight(p) # {}
  <2>1. PICK j \in 1..L : OnlyTime(p, j)
    BY <1>11 DEF NoHeight
  <2>2. /\ lock.time \in Nat /\ \A i \in 1..L : TimeOf(p, i) <= lock.time
        /\ lock.time = 0 \/ \E i \in 1..L : TimeOf(p, i) = lock.time
    BY <1>4, <1>6, <1>11 DEF Most
  <2>3. lock.height = None
    <3>1. \E i \in 1..L : i \in NoHeight(p)
      BY <1>11 DEF NoHeight
    <3> QED BY <1>4, <3>1 DEF Most
  <2>4. ~lock.conflict /\ ~(lock.height > 0)
    BY <1>4, <1>11, <2>3 DEF None
  <2>5. TimeOf(p, j) \in Nat \ {0}
    BY <1>7, <2>1 DEF OnlyTime
  <2>6. lock.time \in Nat \ {0} /\ lock.time > 0
    BY <2>2, <2>5
  <2>7. PICK k \in 1..L : TimeOf(p, k) = lock.time
    BY <2>2, <2>6
  <2>8. Demands(p) # {} /\ Largest(LocksOf(p, "time_locktime")) = lock.time
    BY <2>2, <2>6, <2>7, LargestLock DEF TimeOf
  <2>9. \A i \in 1..L : ~OnlyHeight(p, i)
    BY <1>11 DEF NoTime
  <2>10. \A i \in Demands(p) : Has(p.inputs[i], "time_locktime")
    BY <1>7, <1>8, <2>9 DEF OnlyHeight
  <2>11. j \in Demands(p) /\ ~Has(p.inputs[j], "height_locktime")
    BY <1>7, <1>8, <2>1 DEF OnlyTime
  <2>12. LockBy(p) = lock.time
    BY <2>8, <2>10, <2>11 DEF LockBy
  <2> QED BY <1>1, <1>5, <2>4, <2>6, <2>12
<1> QED BY <1>9, <1>10, <1>11

LEMMA LockTimeType ==
    ASSUME NEW p, IsPsbt(p)
    PROVE  ReferenceLockTime(p) \in Int
<1>0. IsMap(p.fields) /\ p.inputs \in Seq(Seq(Fields)) /\ Len(p.inputs) \in Nat
  BY PsbtIs
<1>1. Fallback(p) \in Int
  <2>1. "fallback" \notin KeyedTypes
    BY DEF KeyedTypes
  <2> QED BY <1>0, <2>1, ValueType DEF Fallback
<1>2. PICK u : /\ LockRun(u, [time |-> 0, height |-> 0, conflict |-> FALSE], p.inputs, Len(p.inputs))
               /\ Folded(LockStep, [time |-> 0, height |-> 0, conflict |-> FALSE], p.inputs) = u[Len(p.inputs)]
  BY <1>0, LockFolded
<1>3. PICK lock : lock = u[Len(p.inputs)]
  OBVIOUS
<1>4. lock.time \in Int /\ lock.height \in Int
  <2>1. /\ Most(lock.time, Len(p.inputs), Times(p), NoTime(p))
        /\ Most(lock.height, Len(p.inputs), Heights(p), NoHeight(p))
    BY <1>2, <1>3, LockLoop
  <2> QED BY <2>1 DEF Most, None
<1>5. compute_lock_time(p) = IF lock.conflict THEN None
                             ELSE IF lock.height > 0 THEN lock.height
                             ELSE IF lock.time > 0 THEN lock.time ELSE Fallback(p)
  BY <1>2, <1>3 DEF compute_lock_time, Fallback
<1>6. compute_lock_time(p) \in Int
  BY <1>1, <1>4, <1>5 DEF None
<1> QED BY <1>6, LockTimeIs

LEMMA AssembledType ==
    ASSUME NEW p, IsPsbt(p)
    PROVE  /\ AssembledTx(p, ReferenceLockTime(p)) \in Transactions
           /\ Len(AssembledTx(p, ReferenceLockTime(p)).vin) = Len(p.inputs)
           /\ Len(AssembledTx(p, ReferenceLockTime(p)).vout) = Len(p.outputs)
<1>1. PICK l \in Int : l = ReferenceLockTime(p)
  BY LockTimeType
<1>2. "tx_version" \notin KeyedTypes /\ \A t \in V2Fields : t \notin KeyedTypes
  BY DEF KeyedTypes, V2Fields
<1>3. ValueOf(p.fields, "tx_version") \in Int
  BY <1>2, PsbtIs, ValueType
<1>4. ASSUME NEW m, IsMap(m), NEW t \in V2Fields PROVE ValueOf(m, t) \in Int
  BY <1>2, <1>4, ValueType
<1>5. \A t \in {"prev_txid", "prev_out", "sequence", "amount", "script"} : t \in V2Fields
  BY DEF V2Fields
<1> DEFINE In(m) == [txid |-> ValueOf(m, "prev_txid"), n |-> ValueOf(m, "prev_out"),
                     sequence |-> IF Has(m, "sequence") THEN ValueOf(m, "sequence") ELSE FinalSequence]
           Out(m) == [amount |-> ValueOf(m, "amount"),
                      script |-> IF Has(m, "script") THEN ValueOf(m, "script") ELSE 0]
           vin == [i \in DOMAIN p.inputs |-> In(p.inputs[i])]
           vout == [i \in DOMAIN p.outputs |-> Out(p.outputs[i])]
           VI == [txid : Int, n : Int, sequence : Int]
           VO == [amount : Int, script : Int]
<1>6. ASSUME NEW m, IsMap(m) PROVE In(m) \in VI
  <2>1. ValueOf(m, "prev_txid") \in Int /\ ValueOf(m, "prev_out") \in Int /\ ValueOf(m, "sequence") \in Int
    BY <1>4, <1>5, <1>6
  <2> QED BY <2>1 DEF FinalSequence
<1>7. ASSUME NEW m, IsMap(m) PROVE Out(m) \in VO
  <2>1. ValueOf(m, "amount") \in Int /\ ValueOf(m, "script") \in Int
    BY <1>4, <1>5, <1>7
  <2> QED BY <2>1
<1>8. AssembledTx(p, l) = [version |-> ValueOf(p.fields, "tx_version"), locktime |-> l, vin |-> vin, vout |-> vout]
  BY DEF AssembledTx
<1> HIDE DEF In, Out, VI, VO
<1>9. vin \in Seq(VI) /\ Len(vin) = Len(p.inputs)
  <2>1. /\ Len(p.inputs) \in Nat /\ DOMAIN p.inputs = 1..Len(p.inputs)
        /\ \A i \in 1..Len(p.inputs) : IsMap(p.inputs[i])
    BY PsbtIs
  <2>2. \A i \in 1..Len(p.inputs) : In(p.inputs[i]) \in VI
    BY <1>6, <2>1
  <2> QED BY <2>1, <2>2
<1>10. vout \in Seq(VO) /\ Len(vout) = Len(p.outputs)
  <2>1. /\ Len(p.outputs) \in Nat /\ DOMAIN p.outputs = 1..Len(p.outputs)
        /\ \A i \in 1..Len(p.outputs) : IsMap(p.outputs[i])
    BY PsbtIs
  <2>2. \A i \in 1..Len(p.outputs) : Out(p.outputs[i]) \in VO
    BY <1>7, <2>1
  <2> QED BY <2>1, <2>2
<1> HIDE DEF vin, vout
<1>11. /\ AssembledTx(p, l).version = ValueOf(p.fields, "tx_version") /\ AssembledTx(p, l).locktime = l
       /\ AssembledTx(p, l).vin = vin /\ AssembledTx(p, l).vout = vout
  BY <1>8
<1>12. AssembledTx(p, l) \in [version : Int, locktime : Int, vin : Seq(VI), vout : Seq(VO)]
  BY <1>3, <1>8, <1>9, <1>10
<1> QED BY <1>1, <1>9, <1>10, <1>11, <1>12 DEF Transactions, VI, VO

----------------------------------------------------------------------------
(* The reader leaves a PSBT whose maps have no field twice                 *)

\* A field of a file, with a version of X if it is one.
ItemOk(f, X) ==
    /\ f \in Fields
    /\ f.t = "version" => f.v \in X \cup {Malformed}
    /\ f.t \in {"time_locktime", "height_locktime"} => f.v \in Nat \cup {Malformed}

Stages  == {"global", "inputs", "outputs", "done", "raised"}
Readers == [stage : Stages, map : Seq(Fields), psbt : Psbts]
NoV2(m) == \A i \in 1..Len(m) : m[i].t \notin V2Fields

Body(b, tx, X) ==
    /\ b \in Psbts /\ b.version \in X /\ b.tx = tx /\ IsMap(b.fields)
    /\ \A i \in 1..Len(b.inputs) : IsMap(b.inputs[i])
    /\ \A i \in 1..Len(b.outputs) : IsMap(b.outputs[i])

Fixed(b) ==
    /\ b.version # 1
    /\ b.version = 0 => /\ \A i \in 1..Len(b.inputs) : NoV2(b.inputs[i])
                        /\ \A i \in 1..Len(b.outputs) : NoV2(b.outputs[i])

Reads(r, tx, X) ==
    /\ r \in Readers
    /\ r.stage # "raised" => IsMap(r.map) /\ Body(r.psbt, tx, X)
    /\ r.stage = "global" => r.psbt.inputs = << >> /\ r.psbt.outputs = << >>
    /\ r.stage \notin {"raised", "global"} => Fixed(r.psbt) /\ (r.psbt.version = 0 => NoV2(r.map))
    /\ r.stage \in {"outputs", "done"} => Len(r.psbt.inputs) = input_count(r.psbt)
    /\ r.stage = "done" => Len(r.psbt.outputs) = output_count(r.psbt)

LEMMA ReaderIs ==
    ASSUME NEW r \in Readers
    PROVE  /\ r.stage \in Stages /\ r.map \in Seq(Fields) /\ r.psbt \in Psbts
           /\ r.psbt.version \in Nat /\ r.psbt.explicit \in BOOLEAN /\ r.psbt.tx \in Transactions
           /\ r.psbt.fields \in Seq(Fields)
           /\ r.psbt.inputs \in Seq(Seq(Fields)) /\ r.psbt.outputs \in Seq(Seq(Fields))
           /\ Len(r.psbt.inputs) \in Nat /\ Len(r.psbt.outputs) \in Nat
<1>1. r.stage \in Stages /\ r.map \in Seq(Fields) /\ r.psbt \in Psbts
  BY DEF Readers
<1>2. /\ r.psbt.version \in Nat /\ r.psbt.explicit \in BOOLEAN /\ r.psbt.tx \in Transactions
      /\ r.psbt.fields \in Seq(Fields)
      /\ r.psbt.inputs \in Seq(Seq(Fields)) /\ r.psbt.outputs \in Seq(Seq(Fields))
  BY <1>1 DEF Psbts
<1> QED BY <1>1, <1>2

LEMMA EmptyMap == IsMap(<< >>) /\ NoV2(<< >>)
<1>1. << >> \in Seq(Fields) /\ Len(<< >>) = 0 /\ 1..0 = {}
  OBVIOUS
<1> QED BY <1>1 DEF IsMap, NoV2

LEMMA RaisedIs ==
    ASSUME NEW r \in Readers, NEW tx, NEW X
    PROVE  Reads(Raise(r), tx, X) /\ Raise(r).stage = "raised"
<1>1. Raise(r).stage = "raised" /\ Raise(r) \in Readers
  BY DEF Raise, Readers, Stages
<1> QED BY <1>1 DEF Reads

\* A reader with one more field.
Taken(q, r, f) ==
    /\ q.stage = r.stage /\ q.map = Append(r.map, f) /\ q.psbt.fields = r.psbt.fields
    /\ q.psbt.inputs = r.psbt.inputs /\ q.psbt.outputs = r.psbt.outputs
    /\ r.stage # "global" => q.psbt.version = r.psbt.version

LEMMA TakenIs ==
    ASSUME NEW r, NEW tx, NEW X, X \subseteq Nat, Reads(r, tx, X), r.stage \in {"global", "inputs", "outputs"},
           NEW f, ItemOk(f, X), ~Refused(r.psbt.version, r.map, f)
    PROVE  Reads(TakeField(r, f), tx, X) /\ Taken(TakeField(r, f), r, f)
<1>1. r \in Readers /\ IsMap(r.map) /\ Body(r.psbt, tx, X)
  BY DEF Reads
<1>2. f \in Fields /\ f.t \in FieldTypes /\ f.k \in Nat /\ f.v \in Int
  BY FieldIs DEF ItemOk
<1>3. PICK named \in BOOLEAN : named <=> r.stage = "global" /\ f.t = "version"
  OBVIOUS
<1>4. PICK version : version = IF named THEN f.v ELSE r.psbt.version
  OBVIOUS
<1>5. PICK q : q = TakeField(r, f)
  OBVIOUS
<1>6. q = [r EXCEPT !.map = Append(r.map, f), !.psbt.version = version, !.psbt.explicit = named \/ r.psbt.explicit]
  BY <1>3, <1>4, <1>5 DEF TakeField
<1>7. /\ q.stage = r.stage /\ q.map = Append(r.map, f)
      /\ q.psbt = [r.psbt EXCEPT !.version = version, !.explicit = named \/ r.psbt.explicit]
  BY <1>1, <1>6 DEF Readers
<1>8. /\ q.psbt.version = version /\ q.psbt.tx = r.psbt.tx /\ q.psbt.fields = r.psbt.fields
      /\ q.psbt.inputs = r.psbt.inputs /\ q.psbt.outputs = r.psbt.outputs
  BY <1>1, <1>7, ReaderIs DEF Psbts
<1>9. version \in X
  <2>1. CASE named
    <3>1. f.t = "version" /\ f.v # Malformed
      BY <1>3, <2>1 DEF Refused, OpaqueTypes
    <3> QED BY <1>4, <2>1, <3>1 DEF ItemOk
  <2>2. CASE ~named
    BY <1>1, <1>4, <2>2 DEF Body
  <2> QED BY <2>1, <2>2
<1>10. q.psbt \in Psbts
  <2>1. version \in Nat /\ (named \/ r.psbt.explicit) \in BOOLEAN
    BY <1>9
  <2> QED BY <1>1, <1>7, <2>1, ReaderIs DEF Psbts
<1>11. q \in Readers
  <2>1. Append(r.map, f) \in Seq(Fields)
    BY <1>1, <1>2, ReaderIs
  <2> QED BY <1>1, <1>6, <1>7, <1>10, <2>1 DEF Readers
<1>12. IsMap(q.map)
  <2>1. /\ r.map \in Seq(Fields) /\ Len(r.map) \in Nat /\ DOMAIN r.map = 1..Len(r.map)
    BY <1>1, ReaderIs
  <2>2. /\ q.map \in Seq(Fields) /\ Len(q.map) = Len(r.map) + 1
        /\ \A i \in 1..Len(r.map) : q.map[i] = r.map[i]
        /\ q.map[Len(r.map) + 1] = f
    BY <1>2, <1>7, <2>1
  <2>3. \A i : i \in 1..Len(q.map) <=> i \in 1..Len(r.map) \/ i = Len(r.map) + 1
    BY <2>1, <2>2
  <2>4. \A i \in 1..Len(r.map) : ~(r.map[i].t = f.t /\ r.map[i].k = f.k)
    BY <2>1 DEF Refused
  <2>5. f.t \in KeyedTypes <=> f.k # NoKey
    BY DEF Refused
  <2>6. f.t \in {"time_locktime", "height_locktime"} => f.v > 0
    <3>1. CASE f.t = "time_locktime"
      BY <1>2, <3>1, LimitAssumption DEF Refused
    <3>2. CASE f.t = "height_locktime"
      <4>1. f.v # Malformed /\ f.v # 0 /\ f.v \in Nat \cup {Malformed}
        BY <3>2 DEF Refused, OpaqueTypes, ItemOk
      <4> QED BY <4>1
    <3> QED BY <3>1, <3>2
  <2>7. \A i, j \in 1..Len(q.map) : q.map[i].t = q.map[j].t /\ q.map[i].k = q.map[j].k => i = j
    <3> SUFFICES ASSUME NEW i \in 1..Len(q.map), NEW j \in 1..Len(q.map),
                        q.map[i].t = q.map[j].t, q.map[i].k = q.map[j].k
                 PROVE  i = j
      OBVIOUS
    <3>1. CASE i \in 1..Len(r.map) /\ j \in 1..Len(r.map)
      BY <1>1, <2>2, <3>1 DEF IsMap
    <3>2. CASE i = Len(r.map) + 1 /\ j \in 1..Len(r.map)
      BY <2>2, <2>4, <3>2
    <3>3. CASE i \in 1..Len(r.map) /\ j = Len(r.map) + 1
      BY <2>2, <2>4, <3>3
    <3> QED BY <2>3, <3>1, <3>2, <3>3
  <2>8. \A i \in 1..Len(q.map) : q.map[i].t \in KeyedTypes <=> q.map[i].k # NoKey
    BY <1>1, <2>2, <2>3, <2>5 DEF IsMap
  <2>9. \A i \in 1..Len(q.map) : q.map[i].t \in {"time_locktime", "height_locktime"} => q.map[i].v > 0
    <3> SUFFICES ASSUME NEW i \in 1..Len(q.map), q.map[i].t \in {"time_locktime", "height_locktime"}
                 PROVE  q.map[i].v > 0
      OBVIOUS
    <3>1. CASE i \in 1..Len(r.map)
      BY <1>1, <2>2, <3>1 DEF IsMap
    <3>2. CASE i = Len(r.map) + 1
      BY <2>2, <2>6, <3>2
    <3> QED BY <2>3, <3>1, <3>2
  <2> QED BY <2>2, <2>7, <2>8, <2>9 DEF IsMap
<1>13. Body(q.psbt, tx, X)
  BY <1>1, <1>8, <1>9, <1>10 DEF Body
<1>14. r.stage # "global" => q.psbt.version = r.psbt.version
  BY <1>3, <1>4, <1>8
<1>15. ASSUME r.stage # "global" PROVE Fixed(q.psbt) /\ (q.psbt.version = 0 => NoV2(q.map))
  <2>1. Fixed(r.psbt) /\ (r.psbt.version = 0 => NoV2(r.map))
    BY <1>15 DEF Reads
  <2>2. Fixed(q.psbt)
    BY <1>8, <1>14, <1>15, <2>1 DEF Fixed
  <2>3. ASSUME q.psbt.version = 0 PROVE NoV2(q.map)
    <3>1. NoV2(r.map) /\ f.t \notin V2Fields
      BY <1>14, <1>15, <2>1, <2>3 DEF Refused
    <3>2. /\ r.map \in Seq(Fields) /\ Len(r.map) \in Nat
      BY <1>1, ReaderIs
    <3>3. /\ Len(q.map) = Len(r.map) + 1
          /\ \A i \in 1..Len(r.map) : q.map[i] = r.map[i]
          /\ q.map[Len(r.map) + 1] = f
      BY <1>2, <1>7, <3>2
    <3>4. \A i : i \in 1..Len(q.map) <=> i \in 1..Len(r.map) \/ i = Len(r.map) + 1
      BY <3>2, <3>3
    <3> QED BY <3>1, <3>3, <3>4 DEF NoV2
  <2> QED BY <2>2, <2>3
<1>16. r.stage = "outputs" => Len(q.psbt.inputs) = input_count(q.psbt)
  BY <1>8, <1>14 DEF Reads, input_count
<1>18. r.stage = "global" => q.psbt.inputs = << >> /\ q.psbt.outputs = << >>
  BY <1>8 DEF Reads
<1>17. Reads(q, tx, X)
  BY <1>7, <1>11, <1>12, <1>13, <1>15, <1>16, <1>18 DEF Reads, Stages
<1> QED BY <1>5, <1>7, <1>8, <1>14, <1>17 DEF Taken

NextStage(at, b) ==
    IF (at = "outputs" \/ Len(b.inputs) = input_count(b)) /\ Len(b.outputs) = output_count(b) THEN "done"
    ELSE IF at = "inputs" /\ Len(b.inputs) = input_count(b) THEN "outputs" ELSE at

LEMMA SettleIs ==
    ASSUME NEW q, NEW tx, NEW X, q \in Readers, q.stage \in {"inputs", "outputs"},
           Body(q.psbt, tx, X), Fixed(q.psbt),
           q.stage = "outputs" => Len(q.psbt.inputs) = input_count(q.psbt)
    PROVE  /\ Reads(Settle(q), tx, X) /\ Settle(q).map = << >> /\ Settle(q).psbt = q.psbt
           /\ Settle(q).stage = NextStage(q.stage, q.psbt)
<1>1. PICK s : s = NextStage(q.stage, q.psbt)
  OBVIOUS
<1>2. Settle(q) = [q EXCEPT !.map = << >>, !.stage = s]
  BY <1>1 DEF Settle, NextStage
<1>3. Settle(q).map = << >> /\ Settle(q).psbt = q.psbt /\ Settle(q).stage = s
  BY <1>2 DEF Readers
<1>4. s \in {"inputs", "outputs", "done"}
  BY <1>1 DEF NextStage
<1>5. Settle(q) \in Readers
  <2>1. << >> \in Seq(Fields) /\ s \in Stages
    BY <1>4 DEF Stages
  <2> QED BY <1>2, <2>1 DEF Readers
<1>6. s \in {"outputs", "done"} => Len(q.psbt.inputs) = input_count(q.psbt)
  BY <1>1 DEF NextStage
<1>7. s = "done" => Len(q.psbt.outputs) = output_count(q.psbt)
  BY <1>1 DEF NextStage
<1>8. Reads(Settle(q), tx, X)
  BY <1>3, <1>4, <1>5, <1>6, <1>7, EmptyMap DEF Reads, Stages
<1> QED BY <1>1, <1>3, <1>8

\* The PSBT behind a map.
Closed(r) ==
    CASE r.stage = "global" -> [r.psbt EXCEPT !.fields = r.map]
      [] r.stage = "inputs" -> [r.psbt EXCEPT !.inputs = Append(@, r.map)]
      [] r.stage = "outputs" -> [r.psbt EXCEPT !.outputs = Append(@, r.map)]

LEMMA AppendMaps ==
    ASSUME NEW s \in Seq(Seq(Fields)), NEW m \in Seq(Fields)
    PROVE  /\ Append(s, m) \in Seq(Seq(Fields)) /\ Len(Append(s, m)) = Len(s) + 1
           /\ \A i : i \in 1..(Len(s) + 1) <=> i \in 1..Len(s) \/ i = Len(s) + 1
           /\ \A i \in 1..Len(s) : Append(s, m)[i] = s[i]
           /\ Append(s, m)[Len(s) + 1] = m
<1> HIDE DEF Fields
<1>1. /\ Append(s, m) \in Seq(Seq(Fields)) /\ Len(Append(s, m)) = Len(s) + 1
      /\ \A i \in 1..Len(s) : Append(s, m)[i] = s[i]
      /\ Append(s, m)[Len(s) + 1] = m
  OBVIOUS
<1>2. Len(s) \in Nat
  OBVIOUS
<1>3. \A i : i \in 1..(Len(s) + 1) <=> i \in 1..Len(s) \/ i = Len(s) + 1
  BY <1>2
<1> QED BY <1>1, <1>3

LEMMA FitIs ==
    ASSUME NEW version \in Nat, NEW m, GlobalsFit(version, m)
    PROVE  version # 1 /\ (version = 0 => Has(m, "tx"))
<1>1. CASE version = 0
  <2>1. GlobalsFit(0, m) => Has(m, "tx")
    BY DEF GlobalsFit
  <2> QED BY <1>1, <2>1
<1>2. CASE version = 1
  <2>1. ~GlobalsFit(1, m)
    BY DEF GlobalsFit
  <2> QED BY <1>2, <2>1
<1> QED BY <1>1, <1>2

LEMMA EndMapIs ==
    ASSUME NEW r, NEW tx, NEW X, X \subseteq Nat, Reads(r, tx, X), r.stage \in {"global", "inputs", "outputs"}
    PROVE  /\ Reads(EndMap(r), tx, X)
           /\ EndMap(r).stage # "raised" =>
                /\ EndMap(r).map = << >> /\ EndMap(r).psbt = Closed(r)
                /\ EndMap(r).stage = NextStage(IF r.stage = "global" THEN "inputs" ELSE r.stage, Closed(r))
                /\ r.stage = "global" => GlobalsFit(r.psbt.version, r.map)
<1>1. /\ r \in Readers /\ IsMap(r.map) /\ Body(r.psbt, tx, X)
      /\ r.map \in Seq(Fields) /\ r.psbt \in Psbts
      /\ r.psbt.version \in Nat /\ r.psbt.inputs \in Seq(Seq(Fields)) /\ r.psbt.outputs \in Seq(Seq(Fields))
  BY ReaderIs DEF Reads
<1>2. CASE EndMap(r) = Raise(r)
  BY <1>1, <1>2, RaisedIs
<1>3. CASE EndMap(r) # Raise(r) /\ r.stage = "global"
  <2>1. PICK q : q = [r EXCEPT !.psbt.fields = r.map, !.stage = "inputs"]
    OBVIOUS
  <2>2. GlobalsFit(r.psbt.version, r.map) /\ EndMap(r) = Settle(q)
    BY <1>3, <2>1 DEF EndMap
  <2>3. q.stage = "inputs" /\ q.map = r.map /\ q.psbt = [r.psbt EXCEPT !.fields = r.map]
    BY <1>1, <2>1 DEF Readers
  <2>4. q.psbt = Closed(r)
    BY <1>3, <2>3 DEF Closed
  <2>5. /\ q.psbt.version = r.psbt.version /\ q.psbt.tx = r.psbt.tx /\ q.psbt.fields = r.map
        /\ q.psbt.inputs = r.psbt.inputs /\ q.psbt.outputs = r.psbt.outputs /\ q.psbt \in Psbts
    BY <1>1, <2>3 DEF Psbts
  <2>6. q \in Readers
    BY <1>1, <2>1, <2>3, <2>5 DEF Readers, Stages
  <2>7. Body(q.psbt, tx, X)
    BY <1>1, <2>5 DEF Body
  <2>8. Fixed(q.psbt)
    <3>1. r.psbt.version # 1
      BY <1>1, <2>2, FitIs
    <3>2. ASSUME r.psbt.version = 0
          PROVE  /\ \A i \in 1..Len(r.psbt.inputs) : NoV2(r.psbt.inputs[i])
                 /\ \A i \in 1..Len(r.psbt.outputs) : NoV2(r.psbt.outputs[i])
      <4>1. Len(r.psbt.inputs) = 0 /\ Len(r.psbt.outputs) = 0 /\ 1..0 = {}
        BY <1>3 DEF Reads
      <4> QED BY <4>1
    <3> QED BY <2>5, <3>1, <3>2 DEF Fixed
  <2>9. /\ Reads(Settle(q), tx, X) /\ Settle(q).map = << >> /\ Settle(q).psbt = q.psbt
        /\ Settle(q).stage = NextStage(q.stage, q.psbt)
    BY <2>3, <2>6, <2>7, <2>8, SettleIs
  <2> QED BY <1>3, <2>2, <2>3, <2>4, <2>9
<1>4. CASE EndMap(r) # Raise(r) /\ r.stage = "inputs"
  <2>1. PICK n : n = Append(r.psbt.inputs, r.map)
    OBVIOUS
  <2>10. PICK q : q = [r EXCEPT !.psbt.inputs = n]
    OBVIOUS
  <2>2. EndMap(r) = Settle(q)
    BY <1>4, <2>1, <2>10 DEF EndMap
  <2>3. q.stage = "inputs" /\ q.map = r.map /\ q.psbt = [r.psbt EXCEPT !.inputs = n]
    BY <1>1, <1>4, <2>10 DEF Readers
  <2>4. q.psbt = Closed(r)
    BY <1>4, <2>1, <2>3 DEF Closed
  <2>11. /\ n \in Seq(Seq(Fields)) /\ Len(n) = Len(r.psbt.inputs) + 1
         /\ \A i : i \in 1..Len(n) <=> i \in 1..Len(r.psbt.inputs) \/ i = Len(r.psbt.inputs) + 1
         /\ \A i \in 1..Len(r.psbt.inputs) : n[i] = r.psbt.inputs[i]
         /\ n[Len(r.psbt.inputs) + 1] = r.map
    BY <1>1, <2>1, AppendMaps
  <2>5. /\ q.psbt.version = r.psbt.version /\ q.psbt.tx = r.psbt.tx /\ q.psbt.fields = r.psbt.fields
        /\ q.psbt.inputs = n /\ q.psbt.outputs = r.psbt.outputs /\ q.psbt \in Psbts
    BY <1>1, <2>3, <2>11 DEF Psbts
  <2>6. q \in Readers
    BY <1>1, <2>3, <2>5, <2>10 DEF Readers, Stages
  <2>7. Body(q.psbt, tx, X)
    BY <1>1, <2>5, <2>11 DEF Body
  <2>8. Fixed(q.psbt)
    <3>1. Fixed(r.psbt) /\ (r.psbt.version = 0 => NoV2(r.map))
      BY <1>4 DEF Reads
    <3> QED BY <2>5, <2>11, <3>1 DEF Fixed
  <2>9. /\ Reads(Settle(q), tx, X) /\ Settle(q).map = << >> /\ Settle(q).psbt = q.psbt
        /\ Settle(q).stage = NextStage(q.stage, q.psbt)
    BY <2>3, <2>6, <2>7, <2>8, SettleIs
  <2> QED BY <1>4, <2>2, <2>3, <2>4, <2>9
<1>5. CASE EndMap(r) # Raise(r) /\ r.stage = "outputs"
  <2>1. PICK n : n = Append(r.psbt.outputs, r.map)
    OBVIOUS
  <2>10. PICK q : q = [r EXCEPT !.psbt.outputs = n]
    OBVIOUS
  <2>2. EndMap(r) = Settle(q)
    BY <1>5, <2>1, <2>10 DEF EndMap
  <2>3. q.stage = "outputs" /\ q.map = r.map /\ q.psbt = [r.psbt EXCEPT !.outputs = n]
    BY <1>1, <1>5, <2>10 DEF Readers
  <2>4. q.psbt = Closed(r)
    BY <1>5, <2>1, <2>3 DEF Closed
  <2>11. /\ n \in Seq(Seq(Fields)) /\ Len(n) = Len(r.psbt.outputs) + 1
         /\ \A i : i \in 1..Len(n) <=> i \in 1..Len(r.psbt.outputs) \/ i = Len(r.psbt.outputs) + 1
         /\ \A i \in 1..Len(r.psbt.outputs) : n[i] = r.psbt.outputs[i]
         /\ n[Len(r.psbt.outputs) + 1] = r.map
    BY <1>1, <2>1, AppendMaps
  <2>5. /\ q.psbt.version = r.psbt.version /\ q.psbt.tx = r.psbt.tx /\ q.psbt.fields = r.psbt.fields
        /\ q.psbt.inputs = r.psbt.inputs /\ q.psbt.outputs = n /\ q.psbt \in Psbts
    BY <1>1, <2>3, <2>11 DEF Psbts
  <2>6. q \in Readers
    BY <1>1, <2>3, <2>5, <2>10 DEF Readers, Stages
  <2>7. Body(q.psbt, tx, X)
    BY <1>1, <2>5, <2>11 DEF Body
  <2>8. Fixed(q.psbt)
    <3>1. Fixed(r.psbt) /\ (r.psbt.version = 0 => NoV2(r.map))
      BY <1>5 DEF Reads
    <3> QED BY <2>5, <2>11, <3>1 DEF Fixed
  <2>12. Len(q.psbt.inputs) = input_count(q.psbt)
    BY <1>5, <2>5 DEF Reads, input_count
  <2>9. /\ Reads(Settle(q), tx, X) /\ Settle(q).map = << >> /\ Settle(q).psbt = q.psbt
        /\ Settle(q).stage = NextStage(q.stage, q.psbt)
    BY <2>3, <2>6, <2>7, <2>8, <2>12, SettleIs
  <2> QED BY <1>5, <2>2, <2>3, <2>4, <2>9
<1> QED BY <1>2, <1>3, <1>4, <1>5

Items(s, X) == s \in Seq(Fields) /\ \A i \in 1..Len(s) : ItemOk(s[i], X)

LEMMA ItemReads ==
    ASSUME NEW r, NEW tx, NEW X, X \subseteq Nat, Reads(r, tx, X), NEW f, ItemOk(f, X)
    PROVE  Reads(ReadItem(r, f), tx, X)
<1>1. CASE r.stage \in {"done", "raised"}
  BY <1>1 DEF ReadItem
<1>2. CASE r.stage \notin {"done", "raised"}
  <2>1. r \in Readers /\ r.stage \in {"global", "inputs", "outputs"}
    BY <1>2, ReaderIs DEF Reads, Stages
  <2>2. CASE f = Separator
    <3>1. ReadItem(r, f) = EndMap(r)
      BY <1>2, <2>2 DEF ReadItem
    <3> QED BY <2>1, <3>1, EndMapIs
  <2>3. CASE f # Separator /\ Refused(r.psbt.version, r.map, f)
    <3>1. ReadItem(r, f) = Raise(r)
      BY <1>2, <2>3 DEF ReadItem
    <3> QED BY <2>1, <3>1, RaisedIs
  <2>4. CASE f # Separator /\ ~Refused(r.psbt.version, r.map, f)
    <3>1. ReadItem(r, f) = TakeField(r, f)
      BY <1>2, <2>4 DEF ReadItem
    <3> QED BY <2>1, <2>4, <3>1, TakenIs
  <2> QED BY <2>2, <2>3, <2>4
<1> QED BY <1>1, <1>2

LEMMA FoldReads ==
    ASSUME NEW b, NEW tx, NEW X, X \subseteq Nat, Reads(b, tx, X), NEW s, Items(s, X)
    PROVE  Reads(Folded(ReadItem, b, s), tx, X)
<1>0. Len(s) \in Nat
  BY DEF Items
<1>1. PICK u : ReadRun(u, b, s, Len(s)) /\ Folded(ReadItem, b, s) = u[Len(s)]
  BY <1>0, ReadFolded
<1> DEFINE T == {n \in Nat : n <= Len(s) => Reads(u[n], tx, X)}
<1>2. 0 \in T
  BY <1>1 DEF ReadRun
<1>3. ASSUME NEW n \in Nat, n \in T PROVE n + 1 \in T
  <2>1. CASE n + 1 <= Len(s)
    <3>1. n + 1 \in 1..Len(s) /\ (n + 1) - 1 = n /\ n <= Len(s)
      BY <1>0, <2>1
    <3>2. u[n + 1] = ReadItem(u[(n + 1) - 1], s[n + 1])
      BY <1>1, <3>1 DEF ReadRun
    <3>3. Reads(u[n], tx, X) /\ u[n + 1] = ReadItem(u[n], s[n + 1]) /\ ItemOk(s[n + 1], X)
      BY <1>3, <3>1, <3>2 DEF Items
    <3>4. Reads(u[n + 1], tx, X)
      BY <3>3, ItemReads
    <3> QED BY <3>4
  <2>2. CASE ~(n + 1 <= Len(s))
    BY <1>0, <2>2
  <2> QED BY <2>1, <2>2
<1> HIDE DEF T
<1>4. Len(s) \in T
  BY <1>0, <1>2, <1>3, Induction
<1> QED BY <1>0, <1>1, <1>4 DEF T

LEMMA ReaderReads ==
    ASSUME NEW tx \in Transactions, NEW X, 0 \in X
    PROVE  Reads(Reader(tx), tx, X) /\ Reader(tx).stage = "global" /\ Reader(tx).map = << >>
<1>1. PICK b : b = [version |-> 0, explicit |-> FALSE, tx |-> tx, fields |-> << >>,
                    inputs |-> << >>, outputs |-> << >>]
  OBVIOUS
<1>2. Reader(tx) = [stage |-> "global", map |-> << >>, psbt |-> b]
  BY <1>1 DEF Reader
<1>3. << >> \in Seq(Fields) /\ << >> \in Seq(Seq(Fields))
  BY InEmpty
<1>4. b \in Psbts
  BY <1>1, <1>3 DEF Psbts
<1>5. Reader(tx) \in Readers
  BY <1>2, <1>3, <1>4 DEF Readers, Stages
<1>6. /\ Reader(tx).stage = "global" /\ Reader(tx).map = << >> /\ Reader(tx).psbt = b
      /\ b.version = 0 /\ b.tx = tx /\ b.fields = << >> /\ b.inputs = << >> /\ b.outputs = << >>
  BY <1>1, <1>2
<1>7. Body(b, tx, X)
  <2>1. Len(b.inputs) = 0 /\ Len(b.outputs) = 0 /\ 1..0 = {}
    BY <1>6
  <2> QED BY <1>4, <1>6, <2>1, EmptyMap DEF Body
<1> QED BY <1>5, <1>6, <1>7, EmptyMap DEF Reads

----------------------------------------------------------------------------
(* setup_from_tx spells out the transaction of version 0                   *)

PlainTypes == {"tx_version", "fallback", "prev_txid", "prev_out", "sequence", "amount", "script"}

Plain(q, m, t, v) ==
    /\ IsMap(q)
    /\ \A u \in Spelled : u # t => (Has(q, u) <=> Has(m, u)) /\ ValueOf(q, u) = ValueOf(m, u)
    /\ t # "script" => Has(q, t) /\ ValueOf(q, t) = v
    /\ (IF Has(q, t) THEN ValueOf(q, t) ELSE 0) = v

LEMMA PlainField ==
    ASSUME NEW m, IsMap(m), NEW t \in PlainTypes, NEW v \in Int
    PROVE  Plain(Put(m, Field(t, NoKey, v)), m, t, v)
<1>1. PICK f : f = Field(t, NoKey, v)
  OBVIOUS
<1>2. f.t = t /\ f.k = NoKey /\ f.v = v
  BY <1>1 DEF Field
<1>3. t \in FieldTypes
  BY Orders DEF FieldTypes, InputTypes, OutputTypes, V2Globals, PlainTypes
<1>4. f \in Fields
  BY <1>1, <1>3 DEF Field, Fields, NoKey
<1>5. t \notin KeyedTypes /\ t \notin {"time_locktime", "height_locktime"}
  BY DEF KeyedTypes, PlainTypes
<1>6. /\ IsMap(Put(m, f))
      /\ \A u : u \notin KeyedTypes =>
           /\ u # t => (Has(Put(m, f), u) <=> Has(m, u)) /\ ValueOf(Put(m, f), u) = ValueOf(m, u)
           /\ u = t /\ IsSet(f) => Has(Put(m, f), u) /\ ValueOf(Put(m, f), u) = v
           /\ u = t /\ ~IsSet(f) => ~Has(Put(m, f), u)
  BY <1>2, <1>4, <1>5, PutIs, PutValues
<1>7. (t # "script" => IsSet(f)) /\ (~IsSet(f) => v = 0)
  <2>1. t \in BlankTypes => t = "script"
    BY DEF PlainTypes, BlankTypes
  <2> QED BY <1>2, <2>1 DEF IsSet
<1>8. \A u \in Spelled : u \notin KeyedTypes
  BY SpelledIs
<1>9. (IF Has(Put(m, f), t) THEN ValueOf(Put(m, f), t) ELSE 0) = v
  BY <1>5, <1>6, <1>7
<1> QED BY <1>1, <1>5, <1>6, <1>7, <1>8, <1>9 DEF Plain

LEMMA PlainTypesAre ==
    /\ "tx_version" \in PlainTypes /\ "fallback" \in PlainTypes /\ "prev_txid" \in PlainTypes
    /\ "prev_out" \in PlainTypes /\ "sequence" \in PlainTypes /\ "amount" \in PlainTypes
    /\ "script" \in PlainTypes /\ PlainTypes \subseteq Spelled
  BY DEF PlainTypes, Spelled, V2Fields

Locks == {"time_locktime", "height_locktime"}

LEMMA InputSetup ==
    ASSUME NEW m, IsMap(m), NoV2(m), NEW x \in Int, NEW y \in Int, NEW z \in Int, NEW q,
           q = Put(Put(Put(m, Field("prev_txid", NoKey, x)), Field("prev_out", NoKey, y)), Field("sequence", NoKey, z))
    PROVE  /\ IsMap(q) /\ ValueOf(q, "prev_txid") = x /\ ValueOf(q, "prev_out") = y
           /\ Has(q, "sequence") /\ ValueOf(q, "sequence") = z
           /\ \A t \in Locks : ~Has(q, t)
<1>0. \A t \in Locks \cup {"prev_txid", "prev_out", "sequence"} : t \in Spelled
  BY DEF Spelled, V2Fields, Locks
<1>1. PICK a : a = Put(m, Field("prev_txid", NoKey, x))
  OBVIOUS
<1>2. PICK b : b = Put(a, Field("prev_out", NoKey, y))
  OBVIOUS
<1>3. q = Put(b, Field("sequence", NoKey, z))
  BY <1>1, <1>2
<1>9. Plain(a, m, "prev_txid", x)
  BY <1>1, PlainField, PlainTypesAre
<1>4. /\ IsMap(a) /\ ValueOf(a, "prev_txid") = x
      /\ \A u \in Spelled : u # "prev_txid" => (Has(a, u) <=> Has(m, u))
  BY <1>9 DEF Plain
<1>10. Plain(b, a, "prev_out", y)
  BY <1>2, <1>4, PlainField, PlainTypesAre
<1>5. /\ IsMap(b) /\ ValueOf(b, "prev_out") = y
      /\ \A u \in Spelled : u # "prev_out" => (Has(b, u) <=> Has(a, u)) /\ ValueOf(b, u) = ValueOf(a, u)
  BY <1>10 DEF Plain
<1>11. Plain(q, b, "sequence", z)
  BY <1>3, <1>5, PlainField, PlainTypesAre
<1>6. /\ IsMap(q) /\ Has(q, "sequence") /\ ValueOf(q, "sequence") = z
      /\ \A u \in Spelled : u # "sequence" => (Has(q, u) <=> Has(b, u)) /\ ValueOf(q, u) = ValueOf(b, u)
  BY <1>11 DEF Plain
<1>7. ValueOf(q, "prev_txid") = x /\ ValueOf(q, "prev_out") = y
  BY <1>0, <1>4, <1>5, <1>6
<1>8. ASSUME NEW t \in Locks PROVE ~Has(q, t)
  <2>1. t \in Spelled /\ t # "prev_txid" /\ t # "prev_out" /\ t # "sequence" /\ t \in V2Fields
    BY <1>0 DEF Locks, V2Fields
  <2>2. m \in Seq(Fields) /\ DOMAIN m = 1..Len(m)
    BY DEF IsMap
  <2>3. ~Has(m, t)
    BY <2>1, <2>2 DEF Has, NoV2
  <2> QED BY <1>4, <1>5, <1>6, <2>1, <2>3
<1> QED BY <1>6, <1>7, <1>8

LEMMA OutputSetup ==
    ASSUME NEW m, IsMap(m), NEW x \in Int, NEW y \in Int, NEW q,
           q = Put(Put(m, Field("amount", NoKey, x)), Field("script", NoKey, y))
    PROVE  /\ IsMap(q) /\ ValueOf(q, "amount") = x
           /\ (IF Has(q, "script") THEN ValueOf(q, "script") ELSE 0) = y
<1>0. "amount" \in Spelled
  BY DEF Spelled, V2Fields
<1>1. PICK a : a = Put(m, Field("amount", NoKey, x))
  OBVIOUS
<1>2. q = Put(a, Field("script", NoKey, y))
  BY <1>1
<1>5. Plain(a, m, "amount", x)
  BY <1>1, PlainField, PlainTypesAre
<1>3. IsMap(a) /\ ValueOf(a, "amount") = x
  BY <1>5 DEF Plain
<1>6. Plain(q, a, "script", y)
  BY <1>2, <1>3, PlainField, PlainTypesAre
<1>4. /\ IsMap(q) /\ (IF Has(q, "script") THEN ValueOf(q, "script") ELSE 0) = y
      /\ \A u \in Spelled : u # "script" => ValueOf(q, u) = ValueOf(a, u)
  BY <1>6 DEF Plain
<1> QED BY <1>0, <1>3, <1>4

LEMMA GlobalSetup ==
    ASSUME NEW m, IsMap(m), NEW x \in Int, NEW y \in Int, NEW q,
           q = Put(Put(m, Field("tx_version", NoKey, x)), Field("fallback", NoKey, y))
    PROVE  /\ IsMap(q) /\ ValueOf(q, "tx_version") = x
           /\ Has(q, "fallback") /\ ValueOf(q, "fallback") = y
<1>0. "tx_version" \in Spelled
  BY DEF Spelled
<1>1. PICK a : a = Put(m, Field("tx_version", NoKey, x))
  OBVIOUS
<1>2. q = Put(a, Field("fallback", NoKey, y))
  BY <1>1
<1>5. Plain(a, m, "tx_version", x)
  BY <1>1, PlainField, PlainTypesAre
<1>3. IsMap(a) /\ ValueOf(a, "tx_version") = x
  BY <1>5 DEF Plain
<1>6. Plain(q, a, "fallback", y)
  BY <1>2, <1>3, PlainField, PlainTypesAre
<1>4. /\ IsMap(q) /\ Has(q, "fallback") /\ ValueOf(q, "fallback") = y
      /\ \A u \in Spelled : u # "fallback" => ValueOf(q, u) = ValueOf(a, u)
  BY <1>6 DEF Plain
<1> QED BY <1>0, <1>3, <1>4

IsTxIn(x) == /\ x.txid \in Int /\ x.n \in Int /\ x.sequence \in Int
             /\ x = [txid |-> x.txid, n |-> x.n, sequence |-> x.sequence]
IsTxOut(x) == /\ x.amount \in Int /\ x.script \in Int
              /\ x = [amount |-> x.amount, script |-> x.script]

LEMMA TransactionIs ==
    ASSUME NEW tx \in Transactions
    PROVE  /\ tx.version \in Int /\ tx.locktime \in Int
           /\ Len(tx.vin) \in Nat /\ tx.vin = [i \in 1..Len(tx.vin) |-> tx.vin[i]]
           /\ \A i \in 1..Len(tx.vin) : IsTxIn(tx.vin[i])
           /\ Len(tx.vout) \in Nat /\ tx.vout = [i \in 1..Len(tx.vout) |-> tx.vout[i]]
           /\ \A i \in 1..Len(tx.vout) : IsTxOut(tx.vout[i])
           /\ tx = [version |-> tx.version, locktime |-> tx.locktime, vin |-> tx.vin, vout |-> tx.vout]
<1> DEFINE VI == [txid : Int, n : Int, sequence : Int]
           VO == [amount : Int, script : Int]
<1>1. /\ tx.version \in Int /\ tx.locktime \in Int /\ tx.vin \in Seq(VI) /\ tx.vout \in Seq(VO)
      /\ tx = [version |-> tx.version, locktime |-> tx.locktime, vin |-> tx.vin, vout |-> tx.vout]
  BY DEF Transactions
<1>2. \A x \in VI : IsTxIn(x)
  BY DEF IsTxIn
<1>3. \A x \in VO : IsTxOut(x)
  BY DEF IsTxOut
<1> HIDE DEF VI, VO
<1>4. Len(tx.vin) \in Nat /\ tx.vin = [i \in 1..Len(tx.vin) |-> tx.vin[i]] /\ \A i \in 1..Len(tx.vin) : tx.vin[i] \in VI
  BY <1>1
<1>5. Len(tx.vout) \in Nat /\ tx.vout = [i \in 1..Len(tx.vout) |-> tx.vout[i]] /\ \A i \in 1..Len(tx.vout) : tx.vout[i] \in VO
  BY <1>1
<1> QED BY <1>1, <1>2, <1>3, <1>4, <1>5

LEMMA MapsIs ==
    ASSUME NEW k \in Nat, NEW s, s = [i \in 1..k |-> s[i]], \A i \in 1..k : s[i] \in Seq(Fields)
    PROVE  s \in Seq(Seq(Fields)) /\ Len(s) = k
<1>1. PICK S : S = Seq(Fields)
  OBVIOUS
<1>2. s \in [1..k -> S]
  BY <1>1
<1>3. s \in Seq(S) /\ Len(s) = k
  BY <1>2
<1> QED BY <1>1, <1>3

LEMMA SetupIs ==
    ASSUME NEW p, IsPsbt(p), p.version = 0, \A i \in 1..Len(p.inputs) : NoV2(p.inputs[i])
    PROVE  /\ IsPsbt(setup_from_tx(p)) /\ Spells(setup_from_tx(p), p.tx)
           /\ setup_from_tx(p).version = 0 /\ setup_from_tx(p).tx = p.tx
<1>1. PICK tx \in Transactions : tx = p.tx
  BY PsbtIs
<1>2. /\ p \in Psbts /\ IsMap(p.fields)
      /\ Len(p.inputs) \in Nat /\ DOMAIN p.inputs = 1..Len(p.inputs) /\ Len(p.inputs) = Len(tx.vin)
      /\ \A i \in 1..Len(p.inputs) : IsMap(p.inputs[i]) /\ NoV2(p.inputs[i])
      /\ Len(p.outputs) \in Nat /\ DOMAIN p.outputs = 1..Len(p.outputs) /\ Len(p.outputs) = Len(tx.vout)
      /\ \A i \in 1..Len(p.outputs) : IsMap(p.outputs[i])
  BY <1>1, PsbtIs DEF IsPsbt
<1> DEFINE f == Put(Put(p.fields, Field("tx_version", NoKey, tx.version)), Field("fallback", NoKey, tx.locktime))
           n == [i \in DOMAIN p.inputs |->
                   Put(Put(Put(p.inputs[i], Field("prev_txid", NoKey, tx.vin[i].txid)),
                           Field("prev_out", NoKey, tx.vin[i].n)),
                       Field("sequence", NoKey, tx.vin[i].sequence))]
           o == [i \in DOMAIN p.outputs |->
                   Put(Put(p.outputs[i], Field("amount", NoKey, tx.vout[i].amount)),
                       Field("script", NoKey, tx.vout[i].script))]
<1>3. PICK q : q = setup_from_tx(p)
  OBVIOUS
<1>4. q = [p EXCEPT !.fields = f, !.inputs = n, !.outputs = o]
  BY <1>1, <1>3 DEF setup_from_tx
<1>5. /\ IsMap(f) /\ ValueOf(f, "tx_version") = tx.version
      /\ Has(f, "fallback") /\ ValueOf(f, "fallback") = tx.locktime
  <2>1. PICK g : g = f
    OBVIOUS
  <2>2. tx.version \in Int /\ tx.locktime \in Int
    BY TransactionIs
  <2>3. /\ IsMap(g) /\ ValueOf(g, "tx_version") = tx.version
        /\ Has(g, "fallback") /\ ValueOf(g, "fallback") = tx.locktime
    BY <1>2, <2>1, <2>2, GlobalSetup
  <2> HIDE DEF f
  <2> QED BY <2>1, <2>3
<1>6. ASSUME NEW i \in 1..Len(p.inputs)
      PROVE  /\ IsMap(n[i]) /\ ValueOf(n[i], "prev_txid") = tx.vin[i].txid
             /\ ValueOf(n[i], "prev_out") = tx.vin[i].n
             /\ Has(n[i], "sequence") /\ ValueOf(n[i], "sequence") = tx.vin[i].sequence
             /\ \A t \in Locks : ~Has(n[i], t)
  <2>1. n[i] = Put(Put(Put(p.inputs[i], Field("prev_txid", NoKey, tx.vin[i].txid)),
                       Field("prev_out", NoKey, tx.vin[i].n)),
                   Field("sequence", NoKey, tx.vin[i].sequence))
    BY <1>2
  <2>2. tx.vin[i].txid \in Int /\ tx.vin[i].n \in Int /\ tx.vin[i].sequence \in Int
    BY <1>2, TransactionIs DEF IsTxIn
  <2> HIDE DEF n
  <2> QED BY <1>2, <2>1, <2>2, InputSetup
<1>7. ASSUME NEW i \in 1..Len(p.outputs)
      PROVE  /\ IsMap(o[i]) /\ ValueOf(o[i], "amount") = tx.vout[i].amount
             /\ (IF Has(o[i], "script") THEN ValueOf(o[i], "script") ELSE 0) = tx.vout[i].script
  <2>1. o[i] = Put(Put(p.outputs[i], Field("amount", NoKey, tx.vout[i].amount)),
                   Field("script", NoKey, tx.vout[i].script))
    BY <1>2
  <2>2. tx.vout[i].amount \in Int /\ tx.vout[i].script \in Int
    BY <1>2, TransactionIs DEF IsTxOut
  <2> HIDE DEF o
  <2> QED BY <1>2, <2>1, <2>2, OutputSetup
<1>8. DOMAIN n = 1..Len(p.inputs) /\ n = [i \in 1..Len(p.inputs) |-> n[i]]
  BY <1>2
<1>9. DOMAIN o = 1..Len(p.outputs) /\ o = [i \in 1..Len(p.outputs) |-> o[i]]
  BY <1>2
<1> HIDE DEF f, n, o
<1>10. n \in Seq(Seq(Fields)) /\ Len(n) = Len(p.inputs)
  <2>1. \A i \in 1..Len(p.inputs) : n[i] \in Seq(Fields)
    BY <1>6 DEF IsMap
  <2> QED BY <1>2, <1>8, <2>1, MapsIs
<1>11. o \in Seq(Seq(Fields)) /\ Len(o) = Len(p.outputs)
  <2>1. \A i \in 1..Len(p.outputs) : o[i] \in Seq(Fields)
    BY <1>7 DEF IsMap
  <2> QED BY <1>2, <1>9, <2>1, MapsIs
<1>12. /\ q.version = 0 /\ q.tx = tx /\ q.fields = f /\ q.inputs = n /\ q.outputs = o
  BY <1>1, <1>2, <1>4 DEF Psbts
<1>13. q \in Psbts
  <2>1. f \in Seq(Fields)
    BY <1>5 DEF IsMap
  <2> QED BY <1>2, <1>4, <1>10, <1>11, <2>1 DEF Psbts
<1>14. IsPsbt(q)
  <2>1. \A i \in 1..Len(q.inputs) : IsMap(q.inputs[i])
    BY <1>6, <1>10, <1>12
  <2>2. \A i \in 1..Len(q.outputs) : IsMap(q.outputs[i])
    BY <1>7, <1>11, <1>12
  <2> QED BY <1>2, <1>5, <1>10, <1>11, <1>12, <1>13, <2>1, <2>2 DEF IsPsbt
<1>15. ReferenceLockTime(q) = tx.locktime
  <2>1. Demands(q) = {}
    BY <1>6, <1>10, <1>12 DEF Demands, Locks
  <2>2. LockBy(q) = tx.locktime
    BY <1>5, <1>12, <2>1 DEF LockBy, Fallback
  <2> QED BY <1>10, <1>12, <2>2, LockByIs
<1>16. AssembledTx(q, tx.locktime) = tx
  <2> DEFINE vin == [i \in DOMAIN n |->
                        [txid |-> ValueOf(n[i], "prev_txid"), n |-> ValueOf(n[i], "prev_out"),
                         sequence |-> IF Has(n[i], "sequence") THEN ValueOf(n[i], "sequence") ELSE FinalSequence]]
             vout == [i \in DOMAIN o |->
                        [amount |-> ValueOf(o[i], "amount"),
                         script |-> IF Has(o[i], "script") THEN ValueOf(o[i], "script") ELSE 0]]
  <2>1. AssembledTx(q, tx.locktime) = [version |-> ValueOf(f, "tx_version"), locktime |-> tx.locktime, vin |-> vin, vout |-> vout]
    BY <1>12 DEF AssembledTx
  <2>2. vin = tx.vin
    <3>1. tx.vin = [i \in 1..Len(p.inputs) |-> tx.vin[i]]
      BY <1>2, TransactionIs
    <3>2. \A i \in 1..Len(p.inputs) : vin[i] = [txid |-> tx.vin[i].txid, n |-> tx.vin[i].n, sequence |-> tx.vin[i].sequence]
      <4> SUFFICES ASSUME NEW i \in 1..Len(p.inputs)
                   PROVE  vin[i] = [txid |-> tx.vin[i].txid, n |-> tx.vin[i].n, sequence |-> tx.vin[i].sequence]
        OBVIOUS
      <4>1. vin[i] = [txid |-> ValueOf(n[i], "prev_txid"), n |-> ValueOf(n[i], "prev_out"),
                      sequence |-> IF Has(n[i], "sequence") THEN ValueOf(n[i], "sequence") ELSE FinalSequence]
        BY <1>8
      <4>2. /\ ValueOf(n[i], "prev_txid") = tx.vin[i].txid /\ ValueOf(n[i], "prev_out") = tx.vin[i].n
            /\ Has(n[i], "sequence") /\ ValueOf(n[i], "sequence") = tx.vin[i].sequence
        BY <1>6
      <4> HIDE DEF vin
      <4> QED BY <4>1, <4>2
    <3>5. \A i \in 1..Len(p.inputs) : IsTxIn(tx.vin[i])
      BY <1>2, TransactionIs
    <3>3. ASSUME NEW i \in 1..Len(p.inputs) PROVE vin[i] = tx.vin[i]
      <4> HIDE DEF vin
      <4>1. PICK x : x = tx.vin[i]
        OBVIOUS
      <4>2. x = [txid |-> x.txid, n |-> x.n, sequence |-> x.sequence]
        BY <3>5, <4>1 DEF IsTxIn
      <4> QED BY <3>2, <4>1, <4>2
    <3>4. vin = [i \in 1..Len(p.inputs) |-> vin[i]]
      BY <1>8
    <3> HIDE DEF vin
    <3> QED BY <3>1, <3>3, <3>4
  <2>3. vout = tx.vout
    <3>1. tx.vout = [i \in 1..Len(p.outputs) |-> tx.vout[i]]
      BY <1>2, TransactionIs
    <3>2. \A i \in 1..Len(p.outputs) : vout[i] = [amount |-> tx.vout[i].amount, script |-> tx.vout[i].script]
      <4> SUFFICES ASSUME NEW i \in 1..Len(p.outputs)
                   PROVE  vout[i] = [amount |-> tx.vout[i].amount, script |-> tx.vout[i].script]
        OBVIOUS
      <4>1. vout[i] = [amount |-> ValueOf(o[i], "amount"),
                       script |-> IF Has(o[i], "script") THEN ValueOf(o[i], "script") ELSE 0]
        BY <1>9
      <4>2. /\ ValueOf(o[i], "amount") = tx.vout[i].amount
            /\ (IF Has(o[i], "script") THEN ValueOf(o[i], "script") ELSE 0) = tx.vout[i].script
        BY <1>7
      <4> HIDE DEF vout
      <4> QED BY <4>1, <4>2
    <3>5. \A i \in 1..Len(p.outputs) : IsTxOut(tx.vout[i])
      BY <1>2, TransactionIs
    <3>3. ASSUME NEW i \in 1..Len(p.outputs) PROVE vout[i] = tx.vout[i]
      <4> HIDE DEF vout
      <4>1. PICK x : x = tx.vout[i]
        OBVIOUS
      <4>2. x = [amount |-> x.amount, script |-> x.script]
        BY <3>5, <4>1 DEF IsTxOut
      <4> QED BY <3>2, <4>1, <4>2
    <3>4. vout = [i \in 1..Len(p.outputs) |-> vout[i]]
      BY <1>9
    <3> HIDE DEF vout
    <3> QED BY <3>1, <3>3, <3>4
  <2> HIDE DEF vin, vout
  <2> QED BY <1>5, <2>1, <2>2, <2>3, TransactionIs
<1> QED BY <1>1, <1>3, <1>12, <1>14, <1>15, <1>16 DEF Spells

----------------------------------------------------------------------------
(* Reading a file                                                          *)

LEMMA ReadPsbt ==
    ASSUME NEW r, NEW tx, NEW X, X \subseteq Nat, Reads(r, tx, X), r.stage = "done"
    PROVE  /\ IsPsbt(r.psbt) /\ r.psbt.version \in X /\ r.psbt.tx = tx
           /\ r.psbt.version = 0 => \A i \in 1..Len(r.psbt.inputs) : NoV2(r.psbt.inputs[i])
<1>1. /\ Body(r.psbt, tx, X) /\ Fixed(r.psbt)
      /\ Len(r.psbt.inputs) = input_count(r.psbt) /\ Len(r.psbt.outputs) = output_count(r.psbt)
  BY DEF Reads
<1>2. r.psbt.version = 0 => Len(r.psbt.inputs) = Len(r.psbt.tx.vin) /\ Len(r.psbt.outputs) = Len(r.psbt.tx.vout)
  BY <1>1 DEF input_count, output_count
<1> QED BY <1>1, <1>2 DEF IsPsbt, Body, Fixed

\* What deserialize makes of a reader at the end of the file.
Deserialized(r, tx, X) ==
    /\ r.stage \in {"done", "raised"}
    /\ r.stage = "done" => /\ IsPsbt(r.psbt) /\ r.psbt.version \in X /\ r.psbt.tx = tx
                           /\ r.psbt.version = 0 => Spells(r.psbt, tx)

LEMMA DeserializedIs ==
    ASSUME NEW text, text.tx \in Transactions, NEW X, X \subseteq Nat, 0 \in X, Items(text.items, X)
    PROVE  Deserialized(deserialize(text), text.tx, X)
<1>1. PICK tx \in Transactions : tx = text.tx
  OBVIOUS
<1>2. PICK r : r = Folded(ReadItem, Reader(tx), text.items)
  OBVIOUS
<1>3. Reads(r, tx, X)
  BY <1>2, ReaderReads, FoldReads
<1>4. PICK end : end = IF r.stage \in {"done", "raised"} \/ r.map = << >> THEN r ELSE EndMap(r)
  OBVIOUS
<1>5. Reads(end, tx, X)
  <2>1. r.stage \in {"global", "inputs", "outputs", "done", "raised"}
    BY <1>3, ReaderIs DEF Reads, Stages
  <2> QED BY <1>3, <1>4, <2>1, EndMapIs
<1>6. deserialize(text) = IF end.stage # "done" THEN Raise(end)
                          ELSE IF end.psbt.version = 0 THEN [end EXCEPT !.psbt = setup_from_tx(@)] ELSE end
  BY <1>1, <1>2, <1>4 DEF deserialize
<1>7. end \in Readers
  BY <1>5 DEF Reads
<1>8. CASE end.stage # "done"
  <2>1. deserialize(text).stage = "raised"
    BY <1>6, <1>7, <1>8, RaisedIs
  <2> QED BY <2>1 DEF Deserialized
<1>9. CASE end.stage = "done" /\ end.psbt.version # 0
  <2>1. deserialize(text) = end
    BY <1>6, <1>9
  <2> QED BY <1>1, <1>5, <1>9, <2>1, ReadPsbt DEF Deserialized
<1>10. CASE end.stage = "done" /\ end.psbt.version = 0
  <2>1. PICK p : p = end.psbt
    OBVIOUS
  <2>2. /\ IsPsbt(p) /\ p.version = 0 /\ p.tx = tx /\ \A i \in 1..Len(p.inputs) : NoV2(p.inputs[i])
    BY <1>5, <1>10, <2>1, ReadPsbt
  <2>3. PICK q : q = setup_from_tx(p)
    OBVIOUS
  <2>4. IsPsbt(q) /\ Spells(q, tx) /\ q.version = 0 /\ q.tx = tx
    BY <2>2, <2>3, SetupIs
  <2>5. deserialize(text) = [end EXCEPT !.psbt = q]
    BY <1>6, <1>10, <2>1, <2>3
  <2>6. deserialize(text).stage = "done" /\ deserialize(text).psbt = q
    BY <1>7, <1>10, <2>5 DEF Readers
  <2> QED BY <1>1, <2>4, <2>6 DEF Deserialized
<1> QED BY <1>8, <1>9, <1>10

----------------------------------------------------------------------------
(* Writing a file                                                          *)

LEMMA ItemsIs ==
    ASSUME NEW s \in Seq(Fields), NEW X
    PROVE  Items(s, X) <=> \A y \in ToSet(s) : ItemOk(y, X)
  BY InSeq DEF Items

LEMMA ItemsConcat ==
    ASSUME NEW a, NEW b, NEW X, Items(a, X), Items(b, X)
    PROVE  Items(a \o b, X)
<1>1. a \in Seq(Fields) /\ b \in Seq(Fields) /\ a \o b \in Seq(Fields)
  BY DEF Items
<1>2. \A y : y \in ToSet(a \o b) <=> y \in ToSet(a) \/ y \in ToSet(b)
  BY <1>1, InConcat
<1> QED BY <1>1, <1>2, ItemsIs

LEMMA ItemsOne ==
    ASSUME NEW f, NEW X, ItemOk(f, X)
    PROVE  Items(<<f>>, X)
<1>1. f \in Fields /\ <<f>> \in Seq(Fields)
  BY DEF ItemOk
<1>2. \A y : y \in ToSet(<<f>>) <=> y = f
  BY <1>1, InOne
<1> QED BY <1>1, <1>2, ItemsIs

LEMMA ItemsNone ==
    ASSUME NEW X
    PROVE  Items(<< >>, X)
  BY InEmpty, ItemsIs

LEMMA ItemsFlat ==
    ASSUME NEW ss \in Seq(Seq(Fields)), NEW X, \A m \in 1..Len(ss) : Items(ss[m], X)
    PROVE  Items(FlattenSeq(ss), X)
<1>1. FlattenSeq(ss) \in Seq(Fields)
  BY InFlat
<1>2. \A y : y \in ToSet(FlattenSeq(ss)) <=> \E m \in 1..Len(ss) : y \in ToSet(ss[m])
  BY InFlat
<1>3. \A m \in 1..Len(ss) : \A y \in ToSet(ss[m]) : ItemOk(y, X)
  BY ItemsIs DEF Items
<1> QED BY <1>1, <1>2, <1>3, ItemsIs

LEMMA MapItemOk ==
    ASSUME NEW m, IsMap(m), NEW y \in ToSet(m), y.t # "version", NEW X
    PROVE  ItemOk(y, X)
<1>1. m \in Seq(Fields)
  BY DEF IsMap
<1>2. PICK i \in 1..Len(m) : y = m[i]
  BY <1>1, InSeq
<1>3. y \in Fields /\ y.v \in Int
  BY <1>1, <1>2, FieldIs
<1>4. y.t \in {"time_locktime", "height_locktime"} => y.v > 0
  BY <1>2 DEF IsMap
<1> QED BY <1>3, <1>4 DEF ItemOk

LEMMA OfTypeItems ==
    ASSUME NEW m, IsMap(m), NEW t, t # "version", NEW X
    PROVE  Items(OfType(m, t), X)
<1>1. m \in Seq(Fields)
  BY DEF IsMap
<1>2. OfType(m, t) \in Seq(Fields)
  BY <1>1, OfTypeIs
<1>3. \A y \in ToSet(OfType(m, t)) : y \in ToSet(m) /\ y.t = t
  BY <1>1, OfTypeIs
<1> QED BY <1>2, <1>3, ItemsIs, MapItemOk

\* What is written of a map, without the separator.
IsPart(c, version, map, order) ==
    /\ c \in Seq(Fields)
    /\ MapItems(version, map, order) = c \o <<Separator>>
    /\ \A y : y \in ToSet(c) <=> /\ y \in ToSet(map) /\ IsSet(y)
                                 /\ y.t \in ToSet(order) /\ Written(version, map, y.t)
Part(version, map, order) == CHOOSE c : IsPart(c, version, map, order)

LEMMA PartIs ==
    ASSUME NEW version, NEW map \in Seq(Fields), NEW S, NEW order \in Seq(S)
    PROVE  IsPart(Part(version, map, order), version, map, order)
<1>1. \E c : IsPart(c, version, map, order)
  BY MapItemsIs DEF IsPart
<1> QED BY <1>1, Zenon DEF Part

\* A map of a file: fields of the map that was written, and a separator.
Chunk(c, X) == Items(c, X) /\ \A y \in ToSet(c) : y # Separator

LEMMA SeparatorOk ==
    ASSUME NEW X
    PROVE  ItemOk(Separator, X)
  BY SeparatorIs DEF ItemOk

LEMMA PartChunk ==
    ASSUME NEW version, NEW map, IsMap(map), NEW S, NEW order \in Seq(S),
           "version" \notin ToSet(order), "separator" \notin ToSet(order), NEW X
    PROVE  /\ Chunk(Part(version, map, order), X)
           /\ MapItems(version, map, order) = Part(version, map, order) \o <<Separator>>
           /\ Items(MapItems(version, map, order), X)
<1>1. PICK c : c = Part(version, map, order)
  OBVIOUS
<1>2. map \in Seq(Fields)
  BY DEF IsMap
<1>3. IsPart(c, version, map, order)
  BY <1>1, <1>2, PartIs
<1>4. c \in Seq(Fields) /\ MapItems(version, map, order) = c \o <<Separator>>
  BY <1>3 DEF IsPart
<1>5. \A y \in ToSet(c) : y \in ToSet(map) /\ y.t # "version" /\ y.t # "separator"
  BY <1>3 DEF IsPart
<1>6. Items(c, X)
  BY <1>4, <1>5, ItemsIs, MapItemOk
<1>7. \A y \in ToSet(c) : y # Separator
  BY <1>5, SeparatorIs
<1>8. Items(c \o <<Separator>>, X)
  BY <1>6, SeparatorOk, ItemsOne, ItemsConcat
<1> QED BY <1>1, <1>4, <1>6, <1>7, <1>8 DEF Chunk

LEMMA OrderTypes ==
    /\ "version" \notin ToSet(InputOrder) /\ "separator" \notin ToSet(InputOrder)
    /\ "version" \notin ToSet(OutputOrder) /\ "separator" \notin ToSet(OutputOrder)
    /\ InInputs \subseteq ToSet(InputOrder) /\ InOutputs \subseteq ToSet(OutputOrder)
  BY Orders DEF InputTypes, OutputTypes, InInputs, InOutputs

\* What is written of the global map, without the separator.
GlobalV2(p) ==
    OfType(p.fields, "tx_version") \o OfType(p.fields, "fallback")
    \o <<Field("input_count", NoKey, Len(p.inputs)), Field("output_count", NoKey, Len(p.outputs))>>
    \o OfType(p.fields, "modifiable")

GlobalPart(p) ==
    (IF p.version = 0 THEN <<Field("tx", NoKey, 0)>> ELSE << >>)
    \o OfType(p.fields, "xpub")
    \o (IF p.version = 0 THEN << >> ELSE GlobalV2(p))
    \o (IF p.version > 0 \/ p.explicit THEN <<Field("version", NoKey, p.version)>> ELSE << >>)
    \o OfType(p.fields, "unknown")

LEMMA GlobalItemsIs ==
    ASSUME NEW p
    PROVE  GlobalItems(p) = GlobalPart(p) \o <<Separator>>
  BY DEF GlobalItems, GlobalPart, GlobalV2

LEMMA GlobalFields ==
    ASSUME NEW v \in Int, NEW t \in {"tx", "version", "input_count", "output_count"}
    PROVE  /\ Field(t, NoKey, v) \in Fields /\ Field(t, NoKey, v).t = t
           /\ Field(t, NoKey, v).v = v /\ IsSet(Field(t, NoKey, v))
<1>1. t \in FieldTypes /\ t \notin BlankTypes
  BY DEF FieldTypes, V2Globals, BlankTypes
<1> QED BY <1>1 DEF Field, Fields, NoKey, IsSet

LEMMA GlobalV2Is ==
    ASSUME NEW p, IsPsbt(p), NEW X
    PROVE  /\ Items(GlobalV2(p), X)
           /\ \A y : y \in ToSet(GlobalV2(p)) <=>
                \/ /\ y \in ToSet(p.fields) /\ IsSet(y) /\ y.t \in {"tx_version", "fallback", "modifiable"}
                \/ y = Field("input_count", NoKey, Len(p.inputs))
                \/ y = Field("output_count", NoKey, Len(p.outputs))
<1> DEFINE ic == Field("input_count", NoKey, Len(p.inputs))
           oc == Field("output_count", NoKey, Len(p.outputs))
<1>1. PICK a : a = OfType(p.fields, "tx_version")
  OBVIOUS
<1>2. PICK b : b = OfType(p.fields, "fallback")
  OBVIOUS
<1>3. PICK d : d = OfType(p.fields, "modifiable")
  OBVIOUS
<1>4. PICK e : e = <<ic, oc>>
  OBVIOUS
<1>5. GlobalV2(p) = ((a \o b) \o e) \o d
  BY <1>1, <1>2, <1>3, <1>4 DEF GlobalV2
<1>6. IsMap(p.fields) /\ p.fields \in Seq(Fields) /\ Len(p.inputs) \in Int /\ Len(p.outputs) \in Int
  BY PsbtIs
<1>7. Items(a, X) /\ Items(b, X) /\ Items(d, X)
  BY <1>1, <1>2, <1>3, <1>6, OfTypeItems
<1>8. ItemOk(ic, X) /\ ItemOk(oc, X) /\ ic \in Fields /\ oc \in Fields
  BY <1>6, GlobalFields DEF ItemOk
<1> HIDE DEF ic, oc
<1>9. e \in Seq(Fields) /\ Len(e) = 2 /\ e[1] = ic /\ e[2] = oc
  BY <1>4, <1>8
<1>10. \A y : y \in ToSet(e) <=> y = ic \/ y = oc
  <2>1. \A y : y \in ToSet(e) <=> \E i \in 1..2 : y = e[i]
    BY <1>9, InSeq
  <2> QED BY <1>9, <2>1
<1>11. Items(e, X)
  BY <1>8, <1>9, <1>10, ItemsIs
<1>12. Items(a \o b, X)
  BY <1>7, ItemsConcat
<1>13. Items((a \o b) \o e, X)
  BY <1>11, <1>12, ItemsConcat
<1>14. Items(((a \o b) \o e) \o d, X)
  BY <1>7, <1>13, ItemsConcat
<1>15. /\ a \in Seq(Fields) /\ b \in Seq(Fields) /\ d \in Seq(Fields)
       /\ a \o b \in Seq(Fields) /\ (a \o b) \o e \in Seq(Fields)
  BY <1>7, <1>12, <1>13 DEF Items
<1>16. ASSUME NEW y
       PROVE  y \in ToSet(GlobalV2(p)) <=> y \in ToSet(a) \/ y \in ToSet(b) \/ y \in ToSet(e) \/ y \in ToSet(d)
  <2>1. y \in ToSet(a \o b) <=> y \in ToSet(a) \/ y \in ToSet(b)
    BY <1>15, InConcat
  <2>2. y \in ToSet((a \o b) \o e) <=> y \in ToSet(a \o b) \/ y \in ToSet(e)
    BY <1>9, <1>15, InConcat
  <2>4. PICK abe \in Seq(Fields) : abe = (a \o b) \o e
    BY <1>15
  <2>5. y \in ToSet(abe \o d) <=> y \in ToSet(abe) \/ y \in ToSet(d)
    BY <1>15, InConcat
  <2>3. y \in ToSet(((a \o b) \o e) \o d) <=> y \in ToSet((a \o b) \o e) \/ y \in ToSet(d)
    BY <2>4, <2>5
  <2> QED BY <1>5, <2>1, <2>2, <2>3
<1>17. ASSUME NEW y
       PROVE  /\ y \in ToSet(a) <=> y \in ToSet(p.fields) /\ y.t = "tx_version" /\ IsSet(y)
              /\ y \in ToSet(b) <=> y \in ToSet(p.fields) /\ y.t = "fallback" /\ IsSet(y)
              /\ y \in ToSet(d) <=> y \in ToSet(p.fields) /\ y.t = "modifiable" /\ IsSet(y)
  BY <1>1, <1>2, <1>3, <1>6, OfTypeIs
<1> QED BY <1>5, <1>10, <1>14, <1>16, <1>17 DEF ic, oc

LEMMA GlobalPartIs ==
    ASSUME NEW p, IsPsbt(p)
    PROVE  /\ Chunk(GlobalPart(p), {0, p.version})
           /\ p.version # 0 =>
                \A y : y \in ToSet(GlobalPart(p)) <=>
                  \/ /\ y \in ToSet(p.fields) /\ IsSet(y)
                     /\ y.t \in {"tx_version", "fallback", "modifiable", "xpub", "unknown"}
                  \/ y = Field("input_count", NoKey, Len(p.inputs))
                  \/ y = Field("output_count", NoKey, Len(p.outputs))
                  \/ y = Field("version", NoKey, p.version)
<1> DEFINE X == {0, p.version}
<1>1. PICK a : a = IF p.version = 0 THEN <<Field("tx", NoKey, 0)>> ELSE << >>
  OBVIOUS
<1>2. PICK b : b = OfType(p.fields, "xpub")
  OBVIOUS
<1>3. PICK c : c = IF p.version = 0 THEN << >> ELSE GlobalV2(p)
  OBVIOUS
<1>4. PICK d : d = IF p.version > 0 \/ p.explicit THEN <<Field("version", NoKey, p.version)>> ELSE << >>
  OBVIOUS
<1>5. PICK e : e = OfType(p.fields, "unknown")
  OBVIOUS
<1>6. GlobalPart(p) = (((a \o b) \o c) \o d) \o e
  BY <1>1, <1>2, <1>3, <1>4, <1>5 DEF GlobalPart
<1>7. IsMap(p.fields) /\ p.fields \in Seq(Fields) /\ p.version \in Nat
      /\ Len(p.inputs) \in Int /\ Len(p.outputs) \in Int
  BY PsbtIs
<1>8. /\ ItemOk(Field("tx", NoKey, 0), X) /\ Field("tx", NoKey, 0).t = "tx"
      /\ ItemOk(Field("version", NoKey, p.version), X) /\ Field("version", NoKey, p.version).t = "version"
  BY <1>7, GlobalFields DEF ItemOk
<1>9. Items(a, X)
  BY <1>1, <1>8, ItemsOne, ItemsNone
<1>10. Items(b, X) /\ Items(e, X)
  BY <1>2, <1>5, <1>7, OfTypeItems
<1>11. Items(c, X)
  BY <1>3, GlobalV2Is, ItemsNone
<1>12. Items(d, X)
  BY <1>4, <1>8, ItemsOne, ItemsNone
<1> HIDE DEF X
<1>13. Items(a \o b, X)
  BY <1>9, <1>10, ItemsConcat
<1>14. Items((a \o b) \o c, X)
  BY <1>11, <1>13, ItemsConcat
<1>15. Items(((a \o b) \o c) \o d, X)
  BY <1>12, <1>14, ItemsConcat
<1>16. Items((((a \o b) \o c) \o d) \o e, X)
  BY <1>10, <1>15, ItemsConcat
<1>17. /\ a \in Seq(Fields) /\ b \in Seq(Fields) /\ c \in Seq(Fields) /\ d \in Seq(Fields) /\ e \in Seq(Fields)
       /\ a \o b \in Seq(Fields) /\ (a \o b) \o c \in Seq(Fields) /\ ((a \o b) \o c) \o d \in Seq(Fields)
  BY <1>9, <1>10, <1>11, <1>12, <1>13, <1>14, <1>15 DEF Items
<1>18. ASSUME NEW y
       PROVE  y \in ToSet(GlobalPart(p)) <=>
                 y \in ToSet(a) \/ y \in ToSet(b) \/ y \in ToSet(c) \/ y \in ToSet(d) \/ y \in ToSet(e)
  <2>1. y \in ToSet(a \o b) <=> y \in ToSet(a) \/ y \in ToSet(b)
    BY <1>17, InConcat
  <2>2. y \in ToSet((a \o b) \o c) <=> y \in ToSet(a \o b) \/ y \in ToSet(c)
    BY <1>17, InConcat
  <2>5. PICK abc \in Seq(Fields) : abc = (a \o b) \o c
    BY <1>17
  <2>6. y \in ToSet(abc \o d) <=> y \in ToSet(abc) \/ y \in ToSet(d)
    BY <1>17, InConcat
  <2>3. y \in ToSet(((a \o b) \o c) \o d) <=> y \in ToSet((a \o b) \o c) \/ y \in ToSet(d)
    BY <2>5, <2>6
  <2>7. PICK abcd \in Seq(Fields) : abcd = ((a \o b) \o c) \o d
    BY <1>17
  <2>8. y \in ToSet(abcd \o e) <=> y \in ToSet(abcd) \/ y \in ToSet(e)
    BY <1>17, InConcat
  <2>4. y \in ToSet((((a \o b) \o c) \o d) \o e) <=> y \in ToSet(((a \o b) \o c) \o d) \/ y \in ToSet(e)
    BY <2>7, <2>8
  <2> QED BY <1>6, <2>1, <2>2, <2>3, <2>4
<1>19. ASSUME NEW y
       PROVE  /\ y \in ToSet(b) <=> y \in ToSet(p.fields) /\ y.t = "xpub" /\ IsSet(y)
              /\ y \in ToSet(e) <=> y \in ToSet(p.fields) /\ y.t = "unknown" /\ IsSet(y)
  BY <1>2, <1>5, <1>7, OfTypeIs
<1>20. ASSUME NEW y
       PROVE  /\ y \in ToSet(a) <=> p.version = 0 /\ y = Field("tx", NoKey, 0)
              /\ y \in ToSet(d) <=> (p.version > 0 \/ p.explicit) /\ y = Field("version", NoKey, p.version)
  <2>1. Field("tx", NoKey, 0) \in Fields /\ Field("version", NoKey, p.version) \in Fields
    BY <1>8 DEF ItemOk
  <2>2. /\ \A z : z \in ToSet(<<Field("tx", NoKey, 0)>>) <=> z = Field("tx", NoKey, 0)
        /\ \A z : z \in ToSet(<<Field("version", NoKey, p.version)>>) <=> z = Field("version", NoKey, p.version)
    BY <2>1, InOne
  <2> QED BY <1>1, <1>4, <2>2, InEmpty
<1>21. ASSUME NEW y
       PROVE  y \in ToSet(c) <=>
                /\ p.version # 0
                /\ \/ /\ y \in ToSet(p.fields) /\ IsSet(y) /\ y.t \in {"tx_version", "fallback", "modifiable"}
                   \/ y = Field("input_count", NoKey, Len(p.inputs))
                   \/ y = Field("output_count", NoKey, Len(p.outputs))
  BY <1>3, GlobalV2Is, InEmpty
<1>22. ASSUME NEW y \in ToSet(GlobalPart(p)) PROVE y # Separator
  <2>1. y.t # "separator"
    <3>1. /\ Field("input_count", NoKey, Len(p.inputs)).t = "input_count"
          /\ Field("output_count", NoKey, Len(p.outputs)).t = "output_count"
      BY <1>7, GlobalFields
    <3> QED BY <1>8, <1>18, <1>19, <1>20, <1>21, <3>1
  <2> QED BY <2>1, SeparatorIs
<1>23. ASSUME p.version # 0, NEW y
       PROVE  y \in ToSet(GlobalPart(p)) <=>
                  \/ /\ y \in ToSet(p.fields) /\ IsSet(y)
                     /\ y.t \in {"tx_version", "fallback", "modifiable", "xpub", "unknown"}
                  \/ y = Field("input_count", NoKey, Len(p.inputs))
                  \/ y = Field("output_count", NoKey, Len(p.outputs))
                  \/ y = Field("version", NoKey, p.version)
  <2>1. p.version > 0
    BY <1>7, <1>23
  <2> QED BY <1>18, <1>19, <1>20, <1>21, <1>23, <2>1
<1> QED BY <1>6, <1>16, <1>22, <1>23 DEF Chunk, X

\* The maps of the inputs, or of the outputs, as they are written.
MapsWritten(version, maps, order) == [i \in DOMAIN maps |-> MapItems(version, maps[i], order)]

LEMMA MapsWrittenIs ==
    ASSUME NEW version, NEW maps \in Seq(Seq(Fields)), \A i \in 1..Len(maps) : IsMap(maps[i]),
           NEW S, NEW order \in Seq(S), "version" \notin ToSet(order), "separator" \notin ToSet(order), NEW X
    PROVE  /\ MapsWritten(version, maps, order) \in Seq(Seq(Fields))
           /\ Len(MapsWritten(version, maps, order)) = Len(maps)
           /\ \A i \in 1..Len(maps) :
                /\ MapsWritten(version, maps, order)[i] = Part(version, maps[i], order) \o <<Separator>>
                /\ Chunk(Part(version, maps[i], order), X)
           /\ Items(FlattenSeq(MapsWritten(version, maps, order)), X)
<1>1. PICK s : s = MapsWritten(version, maps, order)
  OBVIOUS
<1>2. Len(maps) \in Nat /\ DOMAIN maps = 1..Len(maps)
  OBVIOUS
<1>3. s = [i \in 1..Len(maps) |-> MapItems(version, maps[i], order)]
  BY <1>1, <1>2 DEF MapsWritten
<1>4. \A i \in 1..Len(maps) : s[i] = MapItems(version, maps[i], order)
  BY <1>3
<1>5. \A i \in 1..Len(maps) :
         /\ MapItems(version, maps[i], order) = Part(version, maps[i], order) \o <<Separator>>
         /\ Chunk(Part(version, maps[i], order), X)
         /\ Items(MapItems(version, maps[i], order), X)
  BY PartChunk
<1>6. \A i \in 1..Len(maps) : s[i] \in Seq(Fields)
  BY <1>4, <1>5 DEF Items
<1>7. s \in Seq(Seq(Fields)) /\ Len(s) = Len(maps)
  <2>1. s = [i \in 1..Len(maps) |-> s[i]]
    BY <1>3
  <2> QED BY <1>2, <1>6, <2>1, MapsIs
<1>8. Items(FlattenSeq(s), X)
  BY <1>4, <1>5, <1>7, ItemsFlat
<1> QED BY <1>1, <1>4, <1>5, <1>7, <1>8

InItems(p)  == FlattenSeq(MapsWritten(p.version, p.inputs, InputOrder))
OutItems(p) == FlattenSeq(MapsWritten(p.version, p.outputs, OutputOrder))

LEMMA SerializedIs ==
    ASSUME NEW p, IsPsbt(p)
    PROVE  /\ serialize(p).items = ((GlobalPart(p) \o <<Separator>>) \o InItems(p)) \o OutItems(p)
           /\ Items(InItems(p), {0, p.version}) /\ Items(OutItems(p), {0, p.version})
           /\ Items(serialize(p).items, {0, p.version})
           /\ serialize(p).tx \in Transactions /\ (p.version = 0 => serialize(p).tx = p.tx)
           /\ IsFile(serialize(p))
<1>1. PICK X : X = {0, p.version}
  OBVIOUS
<1>2. PICK f : f = serialize(p)
  OBVIOUS
<1>3. f.items = (GlobalItems(p) \o InItems(p)) \o OutItems(p)
  BY <1>2 DEF serialize, InItems, OutItems, MapsWritten
<1>4. /\ p.version \in Nat /\ p.tx \in Transactions
      /\ p.inputs \in Seq(Seq(Fields)) /\ \A i \in 1..Len(p.inputs) : IsMap(p.inputs[i])
      /\ p.outputs \in Seq(Seq(Fields)) /\ \A i \in 1..Len(p.outputs) : IsMap(p.outputs[i])
  BY PsbtIs
<1>5. Items(InItems(p), X)
  BY <1>4, Orders, OrderTypes, MapsWrittenIs DEF InItems
<1>6. Items(OutItems(p), X)
  BY <1>4, Orders, OrderTypes, MapsWrittenIs DEF OutItems
<1>7. Items(GlobalPart(p), X)
  BY <1>1, GlobalPartIs DEF Chunk
<1>8. Items(GlobalPart(p) \o <<Separator>>, X)
  BY <1>7, SeparatorOk, ItemsOne, ItemsConcat
<1>9. Items((GlobalPart(p) \o <<Separator>>) \o InItems(p), X)
  BY <1>5, <1>8, ItemsConcat
<1>10. Items(((GlobalPart(p) \o <<Separator>>) \o InItems(p)) \o OutItems(p), X)
  BY <1>6, <1>9, ItemsConcat
<1>11. f.items = ((GlobalPart(p) \o <<Separator>>) \o InItems(p)) \o OutItems(p)
  BY <1>3, GlobalItemsIs
<1>12. f.tx = IF p.version = 0 THEN p.tx ELSE NoTx
  BY <1>2 DEF serialize
<1>13. NoTx \in Transactions
  <2>1. \A S : << >> \in Seq(S)
    BY InEmpty
  <2> QED BY <2>1 DEF NoTx, Transactions
<1>14. f.tx \in Transactions /\ (p.version = 0 => f.tx = p.tx)
  BY <1>4, <1>12, <1>13
<1>15. IsFile(f)
  <2>1. Items(f.items, X)
    BY <1>10, <1>11
  <2>2. f.items \in Seq(Fields) /\ DOMAIN f.items = 1..Len(f.items)
    BY <2>1 DEF Items
  <2>3. \A n \in 1..Len(f.items) :
          f.items[n].t \in {"version", "time_locktime", "height_locktime"} => f.items[n].v \in Nat \cup {Malformed}
    <3>1. X \subseteq Nat
      BY <1>1, <1>4
    <3>2. \A n \in 1..Len(f.items) : ItemOk(f.items[n], X)
      BY <2>1 DEF Items
    <3>3. ASSUME NEW y, ItemOk(y, X), y.t \in {"version", "time_locktime", "height_locktime"}
          PROVE  y.v \in Nat \cup {Malformed}
      BY <3>1, <3>3 DEF ItemOk
    <3> QED BY <3>2, <3>3
  <2> QED BY <1>14, <2>2, <2>3 DEF IsFile
<1> QED BY <1>1, <1>2, <1>5, <1>6, <1>10, <1>11, <1>14, <1>15

LEMMA FileItems ==
    ASSUME NEW f, IsFile(f)
    PROVE  f.tx \in Transactions /\ Items(f.items, Nat)
<1>1. f.tx \in Transactions /\ f.items \in Seq(Fields)
  BY DEF IsFile
<1>2. DOMAIN f.items = 1..Len(f.items) /\ \A n \in 1..Len(f.items) : f.items[n] \in Fields
  BY <1>1
<1>3. \A n \in 1..Len(f.items) :
          f.items[n].t \in {"version", "time_locktime", "height_locktime"} => f.items[n].v \in Nat \cup {Malformed}
  BY <1>2 DEF IsFile
<1> QED BY <1>1, <1>2, <1>3 DEF Items, ItemOk

----------------------------------------------------------------------------
(* Reading what was written                                                *)

\* The fields of a file are read one behind the other.
LEMMA ReadConcat ==
    ASSUME NEW b, NEW s \in Seq(Fields), NEW z \in Seq(Fields)
    PROVE  Folded(ReadItem, b, s \o z) = Folded(ReadItem, Folded(ReadItem, b, s), z)
<1>1. /\ Len(s) \in Nat /\ Len(z) \in Nat /\ s \o z \in Seq(Fields) /\ Len(s \o z) = Len(s) + Len(z)
      /\ \A i \in 1..(Len(s) + Len(z)) : (s \o z)[i] = IF i <= Len(s) THEN s[i] ELSE z[i - Len(s)]
  OBVIOUS
<1>2. PICK w : w = s \o z
  OBVIOUS
<1>3. PICK u : ReadRun(u, b, s, Len(s)) /\ Folded(ReadItem, b, s) = u[Len(s)]
  BY <1>1, ReadFolded
<1>4. PICK m : m = u[Len(s)]
  OBVIOUS
<1>5. PICK v : ReadRun(v, m, z, Len(z)) /\ Folded(ReadItem, m, z) = v[Len(z)]
  BY <1>1, ReadFolded
<1>13. Len(w) \in Nat
  BY <1>1, <1>2
<1>6. PICK x : ReadRun(x, b, w, Len(w)) /\ Folded(ReadItem, b, w) = x[Len(w)]
  BY <1>13, ReadFolded
<1> DEFINE T == {n \in Nat : n <= Len(s) => x[n] = u[n]}
<1>7. 0 \in T
  BY <1>3, <1>6 DEF ReadRun
<1>8. ASSUME NEW n \in Nat, n \in T PROVE n + 1 \in T
  <2>1. CASE n + 1 <= Len(s)
    <3>1. n + 1 \in 1..Len(s) /\ n + 1 \in 1..Len(w) /\ (n + 1) - 1 = n /\ n <= Len(s) /\ w[n + 1] = s[n + 1]
      BY <1>1, <1>2, <2>1
    <3>2. x[n + 1] = ReadItem(x[(n + 1) - 1], w[n + 1]) /\ u[n + 1] = ReadItem(u[(n + 1) - 1], s[n + 1])
      BY <1>3, <1>6, <3>1 DEF ReadRun
    <3> QED BY <1>8, <3>1, <3>2
  <2>2. CASE ~(n + 1 <= Len(s))
    BY <1>1, <2>2
  <2> QED BY <2>1, <2>2
<1>9. x[Len(s)] = m
  <2> HIDE DEF T
  <2>1. Len(s) \in T
    BY <1>1, <1>7, <1>8, Induction
  <2> QED BY <1>1, <1>4, <2>1 DEF T
<1> DEFINE U == {n \in Nat : n <= Len(z) => x[Len(s) + n] = v[n]}
<1>10. 0 \in U
  BY <1>1, <1>5, <1>9 DEF ReadRun
<1>11. ASSUME NEW n \in Nat, n \in U PROVE n + 1 \in U
  <2>1. CASE n + 1 <= Len(z)
    <3>1. /\ n + 1 \in 1..Len(z) /\ Len(s) + (n + 1) \in 1..Len(w) /\ (n + 1) - 1 = n
          /\ (Len(s) + (n + 1)) - 1 = Len(s) + n /\ n <= Len(z) /\ w[Len(s) + (n + 1)] = z[n + 1]
      BY <1>1, <1>2, <2>1
    <3>2. /\ x[Len(s) + (n + 1)] = ReadItem(x[(Len(s) + (n + 1)) - 1], w[Len(s) + (n + 1)])
          /\ v[n + 1] = ReadItem(v[(n + 1) - 1], z[n + 1])
      BY <1>5, <1>6, <3>1 DEF ReadRun
    <3> QED BY <1>11, <3>1, <3>2
  <2>2. CASE ~(n + 1 <= Len(z))
    BY <1>1, <2>2
  <2> QED BY <2>1, <2>2
<1>12. x[Len(w)] = v[Len(z)]
  <2> HIDE DEF U
  <2>1. Len(z) \in U
    BY <1>1, <1>10, <1>11, Induction
  <2> QED BY <1>1, <1>2, <2>1 DEF U
<1> QED BY <1>2, <1>3, <1>4, <1>5, <1>6, <1>12

LEMMA ReadOne ==
    ASSUME NEW b, NEW f \in Fields
    PROVE  Folded(ReadItem, b, <<f>>) = ReadItem(b, f)
<1>1. Len(<<f>>) = 1 /\ <<f>>[1] = f
  OBVIOUS
<1>2. PICK u : ReadRun(u, b, <<f>>, 1) /\ Folded(ReadItem, b, <<f>>) = u[1]
  BY <1>1, ReadFolded
<1>3. 1 \in 1..1 /\ 1 - 1 = 0
  OBVIOUS
<1>4. u[1] = ReadItem(u[1 - 1], <<f>>[1])
  BY <1>2, <1>3 DEF ReadRun
<1>5. u[0] = b
  BY <1>2 DEF ReadRun
<1> QED BY <1>1, <1>2, <1>3, <1>4, <1>5

\* A reader that has raised stays as it is.
LEMMA ReadRaised ==
    ASSUME NEW b, b.stage = "raised", NEW s \in Seq(Fields)
    PROVE  Folded(ReadItem, b, s) = b
<1>0. Len(s) \in Nat
  OBVIOUS
<1>1. PICK u : ReadRun(u, b, s, Len(s)) /\ Folded(ReadItem, b, s) = u[Len(s)]
  BY <1>0, ReadFolded
<1> DEFINE T == {n \in Nat : n <= Len(s) => u[n] = b}
<1>2. 0 \in T
  BY <1>1 DEF ReadRun
<1>3. ASSUME NEW n \in Nat, n \in T PROVE n + 1 \in T
  <2>1. CASE n + 1 <= Len(s)
    <3>1. n + 1 \in 1..Len(s) /\ (n + 1) - 1 = n /\ n <= Len(s)
      BY <1>0, <2>1
    <3>2. u[n + 1] = ReadItem(u[(n + 1) - 1], s[n + 1])
      BY <1>1, <3>1 DEF ReadRun
    <3>3. u[n + 1] = ReadItem(b, s[n + 1])
      BY <1>3, <3>1, <3>2
    <3> QED BY <3>3 DEF ReadItem
  <2>2. CASE ~(n + 1 <= Len(s))
    BY <1>0, <2>2
  <2> QED BY <2>1, <2>2
<1> HIDE DEF T
<1>4. Len(s) \in T
  BY <1>0, <1>2, <1>3, Induction
<1> QED BY <1>0, <1>1, <1>4 DEF T

\* A reader that has taken the first n fields of a map.
Filled(q, r, c, n) ==
    \/ q.stage = "raised"
    \/ /\ q.stage = r.stage /\ Len(q.map) = n /\ \A i \in 1..n : q.map[i] = c[i]
       /\ q.psbt.fields = r.psbt.fields /\ q.psbt.inputs = r.psbt.inputs /\ q.psbt.outputs = r.psbt.outputs
       /\ r.stage # "global" => q.psbt.version = r.psbt.version

AtMap(r) == r.stage \in {"global", "inputs", "outputs"} /\ r.map = << >>

LEMMA FieldTaken ==
    ASSUME NEW r, AtMap(r), NEW tx, NEW X, X \subseteq Nat, NEW c, NEW n \in Nat,
           NEW q, Reads(q, tx, X), Filled(q, r, c, n), ItemOk(c[n + 1], X), c[n + 1] # Separator
    PROVE  Filled(ReadItem(q, c[n + 1]), r, c, n + 1)
<1>1. PICK f : f = c[n + 1]
  OBVIOUS
<1>2. CASE q.stage = "raised"
  BY <1>2 DEF ReadItem, Filled
<1>3. CASE q.stage # "raised"
  <2>1. /\ q \in Readers /\ q.stage \in {"global", "inputs", "outputs"} /\ q.stage = r.stage
    BY <1>3 DEF Filled, AtMap, Reads
  <2>2. q.stage \notin {"done", "raised"}
    BY <2>1
  <2>3. CASE Refused(q.psbt.version, q.map, f)
    <3>1. ReadItem(q, f) = Raise(q)
      BY <1>1, <2>2, <2>3 DEF ReadItem
    <3>2. Raise(q).stage = "raised"
      BY <2>1, RaisedIs
    <3> QED BY <1>1, <3>1, <3>2 DEF Filled
  <2>4. CASE ~Refused(q.psbt.version, q.map, f)
    <3>1. ReadItem(q, f) = TakeField(q, f)
      BY <1>1, <2>2, <2>4 DEF ReadItem
    <3>2. PICK e : e = TakeField(q, f)
      OBVIOUS
    <3>3. /\ e.stage = q.stage /\ e.map = Append(q.map, f) /\ e.psbt.fields = q.psbt.fields
          /\ e.psbt.inputs = q.psbt.inputs /\ e.psbt.outputs = q.psbt.outputs
          /\ q.stage # "global" => e.psbt.version = q.psbt.version
      <4>1. ItemOk(f, X)
        BY <1>1
      <4>2. Taken(e, q, f)
        BY <2>1, <2>4, <3>2, <4>1, TakenIs
      <4> QED BY <4>2 DEF Taken
    <3>4. q.map \in Seq(Fields) /\ Len(q.map) = n /\ \A i \in 1..n : q.map[i] = c[i]
      BY <1>3, <2>1, ReaderIs DEF Filled
    <3>5. f \in Fields
      BY <1>1 DEF ItemOk
    <3>6. /\ Len(e.map) = n + 1 /\ e.map[n + 1] = f /\ \A i \in 1..n : e.map[i] = q.map[i]
      BY <3>3, <3>4, <3>5
    <3>7. \A i : i \in 1..(n + 1) <=> i \in 1..n \/ i = n + 1
      OBVIOUS
    <3>8. \A i \in 1..(n + 1) : e.map[i] = c[i]
      BY <1>1, <3>4, <3>6, <3>7
    <3> QED BY <1>1, <1>3, <3>1, <3>2, <3>3, <3>6, <3>8 DEF Filled
  <2> QED BY <2>3, <2>4
<1> QED BY <1>2, <1>3

LEMMA FieldsTaken ==
    ASSUME NEW r, AtMap(r), NEW tx, NEW X, X \subseteq Nat, Reads(r, tx, X), NEW c, Chunk(c, X)
    PROVE  Filled(Folded(ReadItem, r, c), r, c, Len(c))
<1>0. c \in Seq(Fields) /\ Len(c) \in Nat
  BY DEF Chunk, Items
<1>1. PICK u : ReadRun(u, r, c, Len(c)) /\ Folded(ReadItem, r, c) = u[Len(c)]
  BY <1>0, ReadFolded
<1> DEFINE T == {n \in Nat : n <= Len(c) => Reads(u[n], tx, X) /\ Filled(u[n], r, c, n)}
<1>2. 0 \in T
  <2>1. u[0] = r /\ Len(r.map) = 0 /\ 1..0 = {}
    BY <1>1 DEF ReadRun, AtMap
  <2>2. Filled(u[0], r, c, 0)
    BY <2>1 DEF Filled
  <2> QED BY <2>1, <2>2
<1>3. ASSUME NEW n \in Nat, n \in T PROVE n + 1 \in T
  <2>1. CASE n + 1 <= Len(c)
    <3>1. n + 1 \in 1..Len(c) /\ (n + 1) - 1 = n /\ n <= Len(c)
      BY <1>0, <2>1
    <3>2. u[n + 1] = ReadItem(u[(n + 1) - 1], c[n + 1])
      BY <1>1, <3>1 DEF ReadRun
    <3>3. Reads(u[n], tx, X) /\ Filled(u[n], r, c, n) /\ u[n + 1] = ReadItem(u[n], c[n + 1])
      BY <1>3, <3>1, <3>2
    <3>4. ItemOk(c[n + 1], X)
      BY <3>1 DEF Chunk, Items
    <3>5. c[n + 1] # Separator
      <4>1. c[n + 1] \in ToSet(c)
        BY <1>0, <3>1, InSeq
      <4> QED BY <4>1 DEF Chunk
    <3>6. Reads(u[n + 1], tx, X)
      BY <3>3, <3>4, ItemReads
    <3>7. Filled(u[n + 1], r, c, n + 1)
      BY <3>3, <3>4, <3>5, FieldTaken
    <3> QED BY <3>6, <3>7
  <2>2. CASE ~(n + 1 <= Len(c))
    BY <1>0, <2>2
  <2> QED BY <2>1, <2>2
<1> HIDE DEF T
<1>4. Len(c) \in T
  BY <1>0, <1>2, <1>3, Induction
<1> QED BY <1>0, <1>1, <1>4 DEF T

\* A reader behind the map c.
MapRead(q, r, c) ==
    /\ q.map = << >>
    /\ q.psbt.fields = IF r.stage = "global" THEN c ELSE r.psbt.fields
    /\ q.psbt.inputs = IF r.stage = "inputs" THEN Append(r.psbt.inputs, c) ELSE r.psbt.inputs
    /\ q.psbt.outputs = IF r.stage = "outputs" THEN Append(r.psbt.outputs, c) ELSE r.psbt.outputs
    /\ r.stage # "global" => q.psbt.version = r.psbt.version
    /\ r.stage = "global" => GlobalsFit(q.psbt.version, c)
    /\ q.stage = NextStage(IF r.stage = "global" THEN "inputs" ELSE r.stage, q.psbt)

LEMMA ReadMap ==
    ASSUME NEW r, AtMap(r), NEW tx, NEW X, X \subseteq Nat, Reads(r, tx, X), NEW c, Chunk(c, X),
           NEW q, q = Folded(ReadItem, r, c \o <<Separator>>)
    PROVE  Reads(q, tx, X) /\ (q.stage = "raised" \/ MapRead(q, r, c))
<1>1. PICK e : e = Folded(ReadItem, r, c)
  OBVIOUS
<1>2. c \in Seq(Fields) /\ Items(c, X) /\ Len(c) \in Nat
  BY DEF Chunk, Items
<1>3. Reads(e, tx, X)
  BY <1>1, <1>2, FoldReads
<1>4. Filled(e, r, c, Len(c))
  BY <1>1, FieldsTaken
<1>5. q = ReadItem(e, Separator)
  <2>1. Separator \in Fields /\ <<Separator>> \in Seq(Fields)
    BY SeparatorIs
  <2>2. q = Folded(ReadItem, e, <<Separator>>)
    BY <1>1, <1>2, <2>1, ReadConcat
  <2> QED BY <2>1, <2>2, ReadOne
<1>6. CASE e.stage = "raised"
  BY <1>3, <1>5, <1>6 DEF ReadItem
<1>7. CASE e.stage # "raised"
  <2>1. /\ e.stage = r.stage /\ e.stage \in {"global", "inputs", "outputs"} /\ e \in Readers
        /\ Len(e.map) = Len(c) /\ \A i \in 1..Len(c) : e.map[i] = c[i]
        /\ e.psbt.fields = r.psbt.fields /\ e.psbt.inputs = r.psbt.inputs /\ e.psbt.outputs = r.psbt.outputs
        /\ r.stage # "global" => e.psbt.version = r.psbt.version
    BY <1>3, <1>4, <1>7 DEF Filled, AtMap, Reads
  <2>2. e.map = c
    <3>1. e.map \in Seq(Fields)
      BY <2>1, ReaderIs
    <3> HIDE DEF Fields
    <3> QED BY <1>2, <2>1, <3>1
  <2>3. q = EndMap(e)
    <3>1. e.stage \notin {"done", "raised"}
      BY <2>1
    <3> QED BY <1>5, <3>1 DEF ReadItem
  <2>4. Reads(q, tx, X)
    BY <1>3, <2>1, <2>3, EndMapIs
  <2>5. ASSUME q.stage # "raised" PROVE MapRead(q, r, c)
    <3>1. /\ q.map = << >> /\ q.psbt = Closed(e)
          /\ q.stage = NextStage(IF e.stage = "global" THEN "inputs" ELSE e.stage, Closed(e))
          /\ e.stage = "global" => GlobalsFit(e.psbt.version, e.map)
      BY <1>3, <2>1, <2>3, <2>5, EndMapIs
    <3>2. PICK b \in Psbts : b = e.psbt
      BY <2>1, ReaderIs
    <3>3. CASE r.stage = "global"
      <4>1. q.psbt = [b EXCEPT !.fields = c]
        BY <2>1, <2>2, <3>1, <3>2, <3>3 DEF Closed
      <4>2. q.psbt.fields = c /\ q.psbt.inputs = b.inputs /\ q.psbt.outputs = b.outputs /\ q.psbt.version = b.version
        BY <4>1 DEF Psbts
      <4> QED BY <2>1, <2>2, <3>1, <3>2, <3>3, <4>2 DEF MapRead
    <3>4. CASE r.stage = "inputs"
      <4>1. q.psbt = [b EXCEPT !.inputs = Append(b.inputs, c)]
        BY <2>1, <2>2, <3>1, <3>2, <3>4 DEF Closed
      <4>2. /\ q.psbt.fields = b.fields /\ q.psbt.inputs = Append(b.inputs, c)
            /\ q.psbt.outputs = b.outputs /\ q.psbt.version = b.version
        BY <4>1 DEF Psbts
      <4> QED BY <2>1, <2>2, <3>1, <3>2, <3>4, <4>2 DEF MapRead
    <3>5. CASE r.stage = "outputs"
      <4>1. q.psbt = [b EXCEPT !.outputs = Append(b.outputs, c)]
        BY <2>1, <2>2, <3>1, <3>2, <3>5 DEF Closed
      <4>2. /\ q.psbt.fields = b.fields /\ q.psbt.inputs = b.inputs
            /\ q.psbt.outputs = Append(b.outputs, c) /\ q.psbt.version = b.version
        BY <4>1 DEF Psbts
      <4> QED BY <2>1, <2>2, <3>1, <3>2, <3>5, <4>2 DEF MapRead
    <3> QED BY <2>1, <3>3, <3>4, <3>5
  <2> QED BY <2>4, <2>5
<1> QED BY <1>6, <1>7

\* A reader behind m inputs and j outputs of what was written of p.
InPart(p, i)  == Part(p.version, p.inputs[i], InputOrder)
OutPart(p, i) == Part(p.version, p.outputs[i], OutputOrder)
StageBehind(p, m, j) ==
    IF m < Len(p.inputs) THEN "inputs" ELSE IF j < Len(p.outputs) THEN "outputs" ELSE "done"
ReadBehind(q, p, m, j) ==
    /\ q.map = << >> /\ q.psbt.version = p.version /\ q.psbt.fields = GlobalPart(p)
    /\ Len(q.psbt.inputs) = m /\ \A i \in 1..m : q.psbt.inputs[i] = InPart(p, i)
    /\ Len(q.psbt.outputs) = j /\ \A i \in 1..j : q.psbt.outputs[i] = OutPart(p, i)
    /\ q.stage = StageBehind(p, m, j)
ReadTo(q, p, m, j) == q.stage = "raised" \/ ReadBehind(q, p, m, j)

LEMMA CountsAre ==
    ASSUME NEW p, IsPsbt(p), p.version # 0, IsMap(GlobalPart(p)),
           NEW b, b.version = p.version, b.fields = GlobalPart(p)
    PROVE  input_count(b) = Len(p.inputs) /\ output_count(b) = Len(p.outputs)
<1>1. PICK f : f = Field("input_count", NoKey, Len(p.inputs))
  OBVIOUS
<1>2. PICK g : g = Field("output_count", NoKey, Len(p.outputs))
  OBVIOUS
<1>3. f \in ToSet(GlobalPart(p)) /\ g \in ToSet(GlobalPart(p))
  BY <1>1, <1>2, GlobalPartIs
<1>4. Len(p.inputs) \in Int /\ Len(p.outputs) \in Int
  BY PsbtIs
<1>5. /\ f.t = "input_count" /\ f.v = Len(p.inputs) /\ IsSet(f)
      /\ g.t = "output_count" /\ g.v = Len(p.outputs) /\ IsSet(g)
  BY <1>1, <1>2, <1>4, GlobalFields
<1>6. "input_count" \notin KeyedTypes /\ "output_count" \notin KeyedTypes
  BY DEF KeyedTypes
<1>7. ValueOf(GlobalPart(p), "input_count") = Len(p.inputs)
  BY <1>3, <1>5, <1>6, ValueIs
<1>8. ValueOf(GlobalPart(p), "output_count") = Len(p.outputs)
  BY <1>3, <1>5, <1>6, ValueIs
<1> QED BY <1>7, <1>8 DEF input_count, output_count

\* The loops over the maps end where those that wrote them did.
LEMMA StageIs ==
    ASSUME NEW p, IsPsbt(p), p.version # 0, NEW b, b.version = p.version, b.fields = GlobalPart(p),
           IsMap(GlobalPart(p)), NEW m \in Nat, NEW j \in Nat, m <= Len(p.inputs), j <= Len(p.outputs),
           Len(b.inputs) = m, Len(b.outputs) = j
    PROVE  /\ j = 0 => NextStage("inputs", b) = StageBehind(p, m, j)
           /\ m = Len(p.inputs) => NextStage("outputs", b) = StageBehind(p, m, j)
<1>1. input_count(b) = Len(p.inputs) /\ output_count(b) = Len(p.outputs)
  BY CountsAre
<1>2. Len(p.inputs) \in Nat /\ Len(p.outputs) \in Nat
  BY PsbtIs
<1>3. ASSUME j = 0 PROVE NextStage("inputs", b) = StageBehind(p, m, j)
  BY <1>1, <1>2, <1>3 DEF NextStage, StageBehind
<1>4. ASSUME m = Len(p.inputs) PROVE NextStage("outputs", b) = StageBehind(p, m, j)
  BY <1>1, <1>2, <1>4 DEF NextStage, StageBehind
<1> QED BY <1>3, <1>4

LEMMA GlobalRead ==
    ASSUME NEW p, IsPsbt(p), p.version # 0, NEW q, NEW tx \in Transactions,
           q = Folded(ReadItem, Reader(tx), GlobalPart(p) \o <<Separator>>)
    PROVE  Reads(q, tx, {0, p.version}) /\ ReadTo(q, p, 0, 0)
<1>1. PICK X : X = {0, p.version}
  OBVIOUS
<1>2. PICK r : r = Reader(tx)
  OBVIOUS
<1>3. p.version \in Nat /\ X \subseteq Nat /\ 0 \in X
  BY <1>1, PsbtIs
<1>4. Reads(r, tx, X) /\ AtMap(r) /\ r.stage = "global"
  BY <1>2, <1>3, ReaderReads DEF AtMap
<1>5. Chunk(GlobalPart(p), X)
  BY <1>1, GlobalPartIs
<1>6. Reads(q, tx, X) /\ (q.stage = "raised" \/ MapRead(q, r, GlobalPart(p)))
  BY <1>2, <1>3, <1>4, <1>5, ReadMap
<1>7. ASSUME q.stage # "raised" PROVE ReadBehind(q, p, 0, 0)
  <2>1. /\ q.map = << >> /\ q.psbt.fields = GlobalPart(p)
        /\ q.psbt.inputs = r.psbt.inputs /\ q.psbt.outputs = r.psbt.outputs
        /\ GlobalsFit(q.psbt.version, GlobalPart(p)) /\ q.stage = NextStage("inputs", q.psbt)
    BY <1>4, <1>6, <1>7 DEF MapRead
  <2>2. r.psbt.inputs = << >> /\ r.psbt.outputs = << >>
    BY <1>4 DEF Reads
  <2>3. Body(q.psbt, tx, X)
    BY <1>6, <1>7 DEF Reads
  <2>4. IsMap(GlobalPart(p)) /\ q.psbt.version \in X
    BY <2>1, <2>3 DEF Body
  <2>5. q.psbt.version # 0
    <3> SUFFICES ASSUME q.psbt.version = 0 PROVE FALSE
      OBVIOUS
    <3>0. GlobalsFit(0, GlobalPart(p)) /\ 0 \in Nat
      BY <2>1
    <3>1. Has(GlobalPart(p), "tx")
      BY <3>0, FitIs
    <3>2. "tx" \notin KeyedTypes
      BY DEF KeyedTypes
    <3>3. PICK f \in ToSet(GlobalPart(p)) : f.t = "tx"
      BY <2>4, <3>1, <3>2, ValueIs
    <3>4. f.t # "tx"
      <4>1. Len(p.inputs) \in Int /\ Len(p.outputs) \in Int
        BY PsbtIs
      <4>2. /\ Field("input_count", NoKey, Len(p.inputs)).t = "input_count"
            /\ Field("output_count", NoKey, Len(p.outputs)).t = "output_count"
            /\ Field("version", NoKey, p.version).t = "version"
        BY <1>3, <4>1, GlobalFields
      <4> QED BY <4>2, GlobalPartIs
    <3> QED BY <3>3, <3>4
  <2>6. q.psbt.version = p.version
    BY <1>1, <2>4, <2>5
  <2>7. Len(q.psbt.inputs) = 0 /\ Len(q.psbt.outputs) = 0 /\ 1..0 = {}
    BY <2>1, <2>2
  <2>8. Len(p.inputs) \in Nat /\ Len(p.outputs) \in Nat
    BY PsbtIs
  <2>9. NextStage("inputs", q.psbt) = StageBehind(p, 0, 0)
    <3>1. PICK b : b = q.psbt
      OBVIOUS
    <3>2. /\ b.version = p.version /\ b.fields = GlobalPart(p) /\ Len(b.inputs) = 0 /\ Len(b.outputs) = 0
          /\ 0 <= Len(p.inputs) /\ 0 <= Len(p.outputs) /\ 0 \in Nat
      BY <2>1, <2>6, <2>7, <2>8, <3>1
    <3>3. NextStage("inputs", b) = StageBehind(p, 0, 0)
      BY <2>4, <3>2, StageIs
    <3> QED BY <3>1, <3>3
  <2> QED BY <2>1, <2>6, <2>7, <2>9 DEF ReadBehind
<1> QED BY <1>1, <1>6, <1>7 DEF ReadTo

LEMMA InputRead ==
    ASSUME NEW p, IsPsbt(p), p.version # 0, NEW q, NEW tx, Reads(q, tx, {0, p.version}),
           NEW m \in Nat, m < Len(p.inputs), ReadTo(q, p, m, 0),
           NEW e, e = Folded(ReadItem, q, InPart(p, m + 1) \o <<Separator>>)
    PROVE  Reads(e, tx, {0, p.version}) /\ ReadTo(e, p, m + 1, 0)
<1>1. PICK X : X = {0, p.version}
  OBVIOUS
<1>2. p.version \in Nat /\ X \subseteq Nat /\ Len(p.inputs) \in Nat /\ Len(p.outputs) \in Nat
  BY <1>1, PsbtIs
<1>3. m + 1 \in 1..Len(p.inputs)
  BY <1>2
<1>4. PICK c : c = InPart(p, m + 1)
  OBVIOUS
<1>5. Chunk(c, X)
  BY <1>3, <1>4, PsbtIs, Orders, OrderTypes, PartChunk DEF InPart
<1>6. CASE q.stage = "raised"
  <2>1. c \o <<Separator>> \in Seq(Fields)
    BY <1>5, SeparatorIs DEF Chunk, Items
  <2> QED BY <1>4, <1>6, <2>1, ReadRaised DEF ReadTo
<1>7. CASE q.stage # "raised"
  <2>1. ReadBehind(q, p, m, 0)
    BY <1>7 DEF ReadTo
  <2>2. q.stage = "inputs" /\ AtMap(q)
    BY <1>2, <2>1 DEF ReadBehind, StageBehind, AtMap
  <2>3. Reads(e, tx, X) /\ (e.stage = "raised" \/ MapRead(e, q, c))
    BY <1>1, <1>2, <1>4, <1>5, <2>2, ReadMap
  <2>4. ASSUME e.stage # "raised" PROVE ReadBehind(e, p, m + 1, 0)
    <3>1. /\ e.map = << >> /\ e.psbt.fields = q.psbt.fields /\ e.psbt.version = q.psbt.version
          /\ e.psbt.inputs = Append(q.psbt.inputs, c) /\ e.psbt.outputs = q.psbt.outputs
          /\ e.stage = NextStage("inputs", e.psbt)
      BY <2>2, <2>3, <2>4 DEF MapRead
    <3>2. /\ q.psbt.version = p.version /\ q.psbt.fields = GlobalPart(p)
          /\ Len(q.psbt.inputs) = m /\ \A i \in 1..m : q.psbt.inputs[i] = InPart(p, i)
          /\ Len(q.psbt.outputs) = 0
      BY <2>1 DEF ReadBehind
    <3>3. q \in Readers /\ Body(q.psbt, tx, X)
      BY <1>1, <1>7 DEF Reads
    <3>4. q.psbt.inputs \in Seq(Seq(Fields)) /\ c \in Seq(Fields) /\ IsMap(GlobalPart(p))
      BY <1>5, <3>2, <3>3, ReaderIs DEF Chunk, Items, Body
    <3>5. /\ Len(e.psbt.inputs) = m + 1 /\ \A i : i \in 1..(m + 1) <=> i \in 1..m \/ i = m + 1
          /\ \A i \in 1..m : e.psbt.inputs[i] = q.psbt.inputs[i]
          /\ e.psbt.inputs[m + 1] = c
      <4>1. PICK s \in Seq(Seq(Fields)) : s = q.psbt.inputs
        BY <3>4
      <4>2. PICK a : a = Append(s, c)
        OBVIOUS
      <4>3. /\ Len(a) = Len(s) + 1 /\ \A i : i \in 1..(Len(s) + 1) <=> i \in 1..Len(s) \/ i = Len(s) + 1
            /\ \A i \in 1..Len(s) : a[i] = s[i]
            /\ a[Len(s) + 1] = c
        BY <3>4, <4>2, AppendMaps
      <4>4. Len(s) = m /\ a = e.psbt.inputs
        BY <3>1, <3>2, <4>1, <4>2
      <4> QED BY <4>1, <4>3, <4>4
    <3>6. \A i \in 1..(m + 1) : e.psbt.inputs[i] = InPart(p, i)
      BY <1>4, <3>2, <3>5
    <3>7. NextStage("inputs", e.psbt) = StageBehind(p, m + 1, 0)
      <4>1. m + 1 \in Nat /\ m + 1 <= Len(p.inputs) /\ 0 <= Len(p.outputs)
        BY <1>2
      <4>2. PICK b : b = e.psbt
        OBVIOUS
      <4>3. b.version = p.version /\ b.fields = GlobalPart(p) /\ Len(b.inputs) = m + 1 /\ Len(b.outputs) = 0 /\ 0 \in Nat
        BY <3>1, <3>2, <3>5, <4>2
      <4>4. NextStage("inputs", b) = StageBehind(p, m + 1, 0)
        BY <3>4, <4>1, <4>3, StageIs
      <4> QED BY <4>2, <4>4
    <3>8. 1..0 = {}
      OBVIOUS
    <3> QED BY <3>1, <3>2, <3>5, <3>6, <3>7, <3>8 DEF ReadBehind
  <2> QED BY <1>1, <2>3, <2>4 DEF ReadTo
<1> QED BY <1>6, <1>7

LEMMA OutputRead ==
    ASSUME NEW p, IsPsbt(p), p.version # 0, NEW q, NEW tx, Reads(q, tx, {0, p.version}),
           NEW j \in Nat, j < Len(p.outputs), ReadTo(q, p, Len(p.inputs), j),
           NEW e, e = Folded(ReadItem, q, OutPart(p, j + 1) \o <<Separator>>)
    PROVE  Reads(e, tx, {0, p.version}) /\ ReadTo(e, p, Len(p.inputs), j + 1)
<1>1. PICK X : X = {0, p.version}
  OBVIOUS
<1>2. p.version \in Nat /\ X \subseteq Nat /\ Len(p.inputs) \in Nat /\ Len(p.outputs) \in Nat
  BY <1>1, PsbtIs
<1>3. j + 1 \in 1..Len(p.outputs)
  BY <1>2
<1>4. PICK c : c = OutPart(p, j + 1)
  OBVIOUS
<1>5. Chunk(c, X)
  BY <1>3, <1>4, PsbtIs, Orders, OrderTypes, PartChunk DEF OutPart
<1>6. CASE q.stage = "raised"
  <2>1. c \o <<Separator>> \in Seq(Fields)
    BY <1>5, SeparatorIs DEF Chunk, Items
  <2> QED BY <1>4, <1>6, <2>1, ReadRaised DEF ReadTo
<1>7. CASE q.stage # "raised"
  <2>1. ReadBehind(q, p, Len(p.inputs), j)
    BY <1>7 DEF ReadTo
  <2>2. q.stage = "outputs" /\ AtMap(q)
    BY <1>2, <2>1 DEF ReadBehind, StageBehind, AtMap
  <2>3. Reads(e, tx, X) /\ (e.stage = "raised" \/ MapRead(e, q, c))
    BY <1>1, <1>2, <1>4, <1>5, <2>2, ReadMap
  <2>4. ASSUME e.stage # "raised" PROVE ReadBehind(e, p, Len(p.inputs), j + 1)
    <3>1. /\ e.map = << >> /\ e.psbt.fields = q.psbt.fields /\ e.psbt.version = q.psbt.version
          /\ e.psbt.outputs = Append(q.psbt.outputs, c) /\ e.psbt.inputs = q.psbt.inputs
          /\ e.stage = NextStage("outputs", e.psbt)
      BY <2>2, <2>3, <2>4 DEF MapRead
    <3>2. /\ q.psbt.version = p.version /\ q.psbt.fields = GlobalPart(p)
          /\ Len(q.psbt.inputs) = Len(p.inputs) /\ \A i \in 1..Len(p.inputs) : q.psbt.inputs[i] = InPart(p, i)
          /\ Len(q.psbt.outputs) = j /\ \A i \in 1..j : q.psbt.outputs[i] = OutPart(p, i)
      BY <2>1 DEF ReadBehind
    <3>3. q \in Readers /\ Body(q.psbt, tx, X)
      BY <1>1, <1>7 DEF Reads
    <3>4. q.psbt.outputs \in Seq(Seq(Fields)) /\ c \in Seq(Fields) /\ IsMap(GlobalPart(p))
      BY <1>5, <3>2, <3>3, ReaderIs DEF Chunk, Items, Body
    <3>5. /\ Len(e.psbt.outputs) = j + 1 /\ \A i : i \in 1..(j + 1) <=> i \in 1..j \/ i = j + 1
          /\ \A i \in 1..j : e.psbt.outputs[i] = q.psbt.outputs[i]
          /\ e.psbt.outputs[j + 1] = c
      <4>1. PICK s \in Seq(Seq(Fields)) : s = q.psbt.outputs
        BY <3>4
      <4>2. PICK a : a = Append(s, c)
        OBVIOUS
      <4>3. /\ Len(a) = Len(s) + 1 /\ \A i : i \in 1..(Len(s) + 1) <=> i \in 1..Len(s) \/ i = Len(s) + 1
            /\ \A i \in 1..Len(s) : a[i] = s[i]
            /\ a[Len(s) + 1] = c
        BY <3>4, <4>2, AppendMaps
      <4>4. Len(s) = j /\ a = e.psbt.outputs
        BY <3>1, <3>2, <4>1, <4>2
      <4> QED BY <4>1, <4>3, <4>4
    <3>6. \A i \in 1..(j + 1) : e.psbt.outputs[i] = OutPart(p, i)
      BY <1>4, <3>2, <3>5
    <3>7. NextStage("outputs", e.psbt) = StageBehind(p, Len(p.inputs), j + 1)
      <4>1. j + 1 \in Nat /\ j + 1 <= Len(p.outputs) /\ Len(p.inputs) <= Len(p.inputs)
        BY <1>2
      <4>2. PICK b : b = e.psbt
        OBVIOUS
      <4>3. b.version = p.version /\ b.fields = GlobalPart(p) /\ Len(b.inputs) = Len(p.inputs) /\ Len(b.outputs) = j + 1
        BY <3>1, <3>2, <3>5, <4>2
      <4>4. NextStage("outputs", b) = StageBehind(p, Len(p.inputs), j + 1)
        BY <1>2, <3>4, <4>1, <4>3, StageIs
      <4> QED BY <4>2, <4>4
    <3> QED BY <3>1, <3>2, <3>5, <3>6, <3>7 DEF ReadBehind
  <2> QED BY <1>1, <2>3, <2>4 DEF ReadTo
<1> QED BY <1>6, <1>7

LEMMA InputsRead ==
    ASSUME NEW p, IsPsbt(p), p.version # 0, NEW q, NEW tx, Reads(q, tx, {0, p.version}), ReadTo(q, p, 0, 0),
           NEW e, e = Folded(ReadItem, q, InItems(p))
    PROVE  Reads(e, tx, {0, p.version}) /\ ReadTo(e, p, Len(p.inputs), 0)
<1>1. PICK ms : ms = MapsWritten(p.version, p.inputs, InputOrder)
  OBVIOUS
<1>2. PICK X : X = {0, p.version}
  OBVIOUS
<1>3. /\ p.inputs \in Seq(Seq(Fields)) /\ \A i \in 1..Len(p.inputs) : IsMap(p.inputs[i])
      /\ Len(p.inputs) \in Nat
  BY PsbtIs
<1>4. /\ ms \in Seq(Seq(Fields)) /\ Len(ms) = Len(p.inputs)
      /\ \A i \in 1..Len(p.inputs) : ms[i] = InPart(p, i) \o <<Separator>>
  <2>1. /\ MapsWritten(p.version, p.inputs, InputOrder) \in Seq(Seq(Fields))
        /\ Len(MapsWritten(p.version, p.inputs, InputOrder)) = Len(p.inputs)
        /\ \A i \in 1..Len(p.inputs) :
             /\ MapsWritten(p.version, p.inputs, InputOrder)[i] = Part(p.version, p.inputs[i], InputOrder) \o <<Separator>>
             /\ Chunk(Part(p.version, p.inputs[i], InputOrder), X)
        /\ Items(FlattenSeq(MapsWritten(p.version, p.inputs, InputOrder)), X)
    BY <1>3, Orders, OrderTypes, MapsWrittenIs
  <2> QED BY <1>1, <2>1 DEF InPart
<1>5. PICK u : FlatRun(u, ms, Len(ms)) /\ FlattenSeq(ms) = u[Len(ms)]
  BY <1>4, Flattened
<1>6. \A m \in 0..Len(ms) : u[m] \in Seq(Fields)
  BY <1>4, <1>5, FlatTypes
<1>7. \A i \in 1..Len(ms) : ms[i] \in Seq(Fields)
  BY <1>4
<1> DEFINE T == {m \in Nat : m <= Len(p.inputs) =>
                    /\ Reads(Folded(ReadItem, q, u[m]), tx, X)
                    /\ ReadTo(Folded(ReadItem, q, u[m]), p, m, 0)}
<1>8. 0 \in T
  <2>1. u[0] = << >> /\ Len(<< >>) = 0
    BY <1>5 DEF FlatRun
  <2>2. PICK v : ReadRun(v, q, << >>, 0) /\ Folded(ReadItem, q, << >>) = v[0]
    BY <2>1, ReadFolded
  <2>3. Folded(ReadItem, q, u[0]) = q
    BY <2>1, <2>2 DEF ReadRun
  <2> QED BY <1>2, <2>3
<1>9. ASSUME NEW m \in Nat, m \in T PROVE m + 1 \in T
  <2>1. CASE m + 1 <= Len(p.inputs)
    <3>1. m + 1 \in 1..Len(ms) /\ (m + 1) - 1 = m /\ m <= Len(p.inputs) /\ m < Len(p.inputs) /\ m \in 0..Len(ms)
      BY <1>3, <1>4, <2>1
    <3>2. u[m + 1] = u[(m + 1) - 1] \o ms[m + 1]
      BY <1>5, <3>1 DEF FlatRun
    <3>3. PICK a : a = Folded(ReadItem, q, u[m])
      OBVIOUS
    <3>4. PICK b : b = Folded(ReadItem, q, u[m + 1])
      OBVIOUS
    <3>5. b = Folded(ReadItem, a, ms[m + 1])
      <4>1. u[m] \in Seq(Fields) /\ ms[m + 1] \in Seq(Fields) /\ u[m + 1] = u[m] \o ms[m + 1]
        BY <1>6, <1>7, <3>1, <3>2
      <4> QED BY <3>3, <3>4, <4>1, ReadConcat
    <3>6. b = Folded(ReadItem, a, InPart(p, m + 1) \o <<Separator>>)
      BY <1>4, <3>1, <3>5
    <3>7. Reads(a, tx, {0, p.version}) /\ ReadTo(a, p, m, 0)
      BY <1>2, <1>9, <3>1, <3>3
    <3>8. Reads(b, tx, {0, p.version}) /\ ReadTo(b, p, m + 1, 0)
      BY <3>1, <3>6, <3>7, InputRead
    <3> QED BY <1>2, <3>4, <3>8
  <2>2. CASE ~(m + 1 <= Len(p.inputs))
    BY <1>3, <2>2
  <2> QED BY <2>1, <2>2
<1> HIDE DEF T
<1>10. Len(p.inputs) \in T
  BY <1>3, <1>8, <1>9, Induction
<1>11. e = Folded(ReadItem, q, u[Len(p.inputs)])
  BY <1>1, <1>4, <1>5 DEF InItems
<1> QED BY <1>2, <1>3, <1>10, <1>11 DEF T

LEMMA OutputsRead ==
    ASSUME NEW p, IsPsbt(p), p.version # 0, NEW q, NEW tx, Reads(q, tx, {0, p.version}),
           ReadTo(q, p, Len(p.inputs), 0), NEW e, e = Folded(ReadItem, q, OutItems(p))
    PROVE  Reads(e, tx, {0, p.version}) /\ ReadTo(e, p, Len(p.inputs), Len(p.outputs))
<1>1. PICK ms : ms = MapsWritten(p.version, p.outputs, OutputOrder)
  OBVIOUS
<1>2. PICK X : X = {0, p.version}
  OBVIOUS
<1>3. /\ p.outputs \in Seq(Seq(Fields)) /\ \A i \in 1..Len(p.outputs) : IsMap(p.outputs[i])
      /\ Len(p.outputs) \in Nat
  BY PsbtIs
<1>4. /\ ms \in Seq(Seq(Fields)) /\ Len(ms) = Len(p.outputs)
      /\ \A i \in 1..Len(p.outputs) : ms[i] = OutPart(p, i) \o <<Separator>>
  <2>1. /\ MapsWritten(p.version, p.outputs, OutputOrder) \in Seq(Seq(Fields))
        /\ Len(MapsWritten(p.version, p.outputs, OutputOrder)) = Len(p.outputs)
        /\ \A i \in 1..Len(p.outputs) :
             /\ MapsWritten(p.version, p.outputs, OutputOrder)[i] = Part(p.version, p.outputs[i], OutputOrder) \o <<Separator>>
             /\ Chunk(Part(p.version, p.outputs[i], OutputOrder), X)
        /\ Items(FlattenSeq(MapsWritten(p.version, p.outputs, OutputOrder)), X)
    BY <1>3, Orders, OrderTypes, MapsWrittenIs
  <2> QED BY <1>1, <2>1 DEF OutPart
<1>5. PICK u : FlatRun(u, ms, Len(ms)) /\ FlattenSeq(ms) = u[Len(ms)]
  BY <1>4, Flattened
<1>6. \A m \in 0..Len(ms) : u[m] \in Seq(Fields)
  BY <1>4, <1>5, FlatTypes
<1>7. \A i \in 1..Len(ms) : ms[i] \in Seq(Fields)
  BY <1>4
<1> DEFINE T == {m \in Nat : m <= Len(p.outputs) =>
                    /\ Reads(Folded(ReadItem, q, u[m]), tx, X)
                    /\ ReadTo(Folded(ReadItem, q, u[m]), p, Len(p.inputs), m)}
<1>8. 0 \in T
  <2>1. u[0] = << >> /\ Len(<< >>) = 0
    BY <1>5 DEF FlatRun
  <2>2. PICK v : ReadRun(v, q, << >>, 0) /\ Folded(ReadItem, q, << >>) = v[0]
    BY <2>1, ReadFolded
  <2>3. Folded(ReadItem, q, u[0]) = q
    BY <2>1, <2>2 DEF ReadRun
  <2> QED BY <1>2, <2>3
<1>9. ASSUME NEW m \in Nat, m \in T PROVE m + 1 \in T
  <2>1. CASE m + 1 <= Len(p.outputs)
    <3>1. m + 1 \in 1..Len(ms) /\ (m + 1) - 1 = m /\ m <= Len(p.outputs) /\ m < Len(p.outputs) /\ m \in 0..Len(ms)
      BY <1>3, <1>4, <2>1
    <3>2. u[m + 1] = u[(m + 1) - 1] \o ms[m + 1]
      BY <1>5, <3>1 DEF FlatRun
    <3>3. PICK a : a = Folded(ReadItem, q, u[m])
      OBVIOUS
    <3>4. PICK b : b = Folded(ReadItem, q, u[m + 1])
      OBVIOUS
    <3>5. b = Folded(ReadItem, a, ms[m + 1])
      <4>1. u[m] \in Seq(Fields) /\ ms[m + 1] \in Seq(Fields) /\ u[m + 1] = u[m] \o ms[m + 1]
        BY <1>6, <1>7, <3>1, <3>2
      <4> QED BY <3>3, <3>4, <4>1, ReadConcat
    <3>6. b = Folded(ReadItem, a, OutPart(p, m + 1) \o <<Separator>>)
      BY <1>4, <3>1, <3>5
    <3>7. Reads(a, tx, {0, p.version}) /\ ReadTo(a, p, Len(p.inputs), m)
      BY <1>2, <1>9, <3>1, <3>3
    <3>8. Reads(b, tx, {0, p.version}) /\ ReadTo(b, p, Len(p.inputs), m + 1)
      BY <3>1, <3>6, <3>7, OutputRead
    <3> QED BY <1>2, <3>4, <3>8
  <2>2. CASE ~(m + 1 <= Len(p.outputs))
    BY <1>3, <2>2
  <2> QED BY <2>1, <2>2
<1> HIDE DEF T
<1>10. Len(p.outputs) \in T
  BY <1>3, <1>8, <1>9, Induction
<1>11. e = Folded(ReadItem, q, u[Len(p.outputs)])
  BY <1>1, <1>4, <1>5 DEF OutItems
<1> QED BY <1>2, <1>3, <1>10, <1>11 DEF T

LEMMA WrittenRead ==
    ASSUME NEW p, IsPsbt(p), p.version # 0, NEW r, r = deserialize(serialize(p)), r.stage # "raised"
    PROVE  /\ r.stage = "done" /\ IsPsbt(r.psbt) /\ ReadBehind(r, p, Len(p.inputs), Len(p.outputs))
<1>1. PICK f : f = serialize(p)
  OBVIOUS
<1>2. PICK tx \in Transactions : tx = f.tx
  BY <1>1, SerializedIs
<1>3. PICK X : X = {0, p.version}
  OBVIOUS
<1>4. X \subseteq Nat /\ 0 \in X /\ p.version \in Nat /\ Len(p.inputs) \in Nat /\ Len(p.outputs) \in Nat
  BY <1>3, PsbtIs
<1>5. PICK g : g = GlobalPart(p) \o <<Separator>>
  OBVIOUS
<1>6. /\ f.items = (g \o InItems(p)) \o OutItems(p)
      /\ InItems(p) \in Seq(Fields) /\ OutItems(p) \in Seq(Fields)
  BY <1>1, <1>5, SerializedIs DEF Items
<1>7. g \in Seq(Fields)
  <2>1. GlobalPart(p) \in Seq(Fields)
    BY GlobalPartIs DEF Chunk, Items
  <2> QED BY <1>5, <2>1, SeparatorIs
<1>8. PICK a : a = Folded(ReadItem, Reader(tx), g)
  OBVIOUS
<1>9. PICK b : b = Folded(ReadItem, a, InItems(p))
  OBVIOUS
<1>10. PICK e : e = Folded(ReadItem, b, OutItems(p))
  OBVIOUS
<1>11. Folded(ReadItem, Reader(tx), f.items) = e
  <2>4. g \o InItems(p) \in Seq(Fields)
    BY <1>6, <1>7, InConcat
  <2>1. PICK h \in Seq(Fields) : h = g \o InItems(p)
    BY <2>4
  <2>2. Folded(ReadItem, Reader(tx), h) = b
    <3>1. Folded(ReadItem, Reader(tx), g \o InItems(p)) = Folded(ReadItem, Folded(ReadItem, Reader(tx), g), InItems(p))
      BY <1>6, <1>7, ReadConcat
    <3> QED BY <1>8, <1>9, <2>1, <3>1
  <2>3. Folded(ReadItem, Reader(tx), h \o OutItems(p)) = Folded(ReadItem, Folded(ReadItem, Reader(tx), h), OutItems(p))
    BY <1>6, ReadConcat
  <2> QED BY <1>6, <1>10, <2>1, <2>2, <2>3
<1>12. Reads(a, tx, {0, p.version}) /\ ReadTo(a, p, 0, 0)
  BY <1>5, <1>8, GlobalRead
<1>13. Reads(b, tx, {0, p.version}) /\ ReadTo(b, p, Len(p.inputs), 0)
  BY <1>9, <1>12, InputsRead
<1>14. Reads(e, tx, {0, p.version}) /\ ReadTo(e, p, Len(p.inputs), Len(p.outputs))
  BY <1>10, <1>13, OutputsRead
<1>15. e.stage \in {"done", "raised"}
  <2>1. StageBehind(p, Len(p.inputs), Len(p.outputs)) = "done"
    BY <1>4 DEF StageBehind
  <2> QED BY <1>14, <2>1 DEF ReadTo, ReadBehind
<1>16. r = IF e.stage # "done" THEN Raise(e)
           ELSE IF e.psbt.version = 0 THEN [e EXCEPT !.psbt = setup_from_tx(@)] ELSE e
  BY <1>1, <1>2, <1>11, <1>15 DEF deserialize
<1>17. e.stage = "done"
  <2>1. e \in Readers
    BY <1>14 DEF Reads
  <2>2. Raise(e).stage = "raised"
    BY <2>1, RaisedIs
  <2> QED BY <1>16, <2>2
<1>18. ReadBehind(e, p, Len(p.inputs), Len(p.outputs))
  BY <1>14, <1>17 DEF ReadTo
<1>19. r = e
  BY <1>16, <1>17, <1>18 DEF ReadBehind
<1>20. IsPsbt(e.psbt)
  BY <1>3, <1>4, <1>14, <1>17, ReadPsbt
<1> QED BY <1>17, <1>18, <1>19, <1>20

LEMMA PartAgrees ==
    ASSUME NEW version \in Nat, version >= 2, NEW m, IsMap(m), NEW S, NEW order \in Seq(S),
           NEW D, D \subseteq V2Fields, D \subseteq ToSet(order), IsMap(Part(version, m, order))
    PROVE  Agree(Part(version, m, order), m, D)
<1>1. PICK c : c = Part(version, m, order)
  OBVIOUS
<1>2. m \in Seq(Fields)
  BY DEF IsMap
<1>3. IsPart(c, version, m, order)
  BY <1>1, <1>2, PartIs
<1>4. ASSUME NEW t \in D PROVE (Has(c, t) <=> Has(m, t)) /\ ValueOf(c, t) = ValueOf(m, t)
  <2>1. t \notin SigningTypes /\ t \notin KeyedTypes
    BY <1>4 DEF V2Fields, SigningTypes, KeyedTypes
  <2>2. Written(version, m, t) /\ t \in ToSet(order)
    BY <2>1 DEF Written
  <2>3. ASSUME NEW f, f.t = t, IsSet(f) PROVE f \in ToSet(c) <=> f \in ToSet(m)
    BY <1>3, <2>2, <2>3 DEF IsPart
  <2> QED BY <1>1, <2>1, <2>3, SameValue
<1> QED BY <1>1, <1>4 DEF Agree

LEMMA GlobalAgrees ==
    ASSUME NEW p, IsPsbt(p), p.version # 0, IsMap(GlobalPart(p))
    PROVE  Agree(GlobalPart(p), p.fields, InGlobals)
<1>1. PICK c : c = GlobalPart(p)
  OBVIOUS
<1>2. IsMap(p.fields) /\ p.version \in Int /\ Len(p.inputs) \in Int /\ Len(p.outputs) \in Int
  BY PsbtIs
<1>3. ASSUME NEW t \in InGlobals PROVE (Has(c, t) <=> Has(p.fields, t)) /\ ValueOf(c, t) = ValueOf(p.fields, t)
  <2>1. t \notin KeyedTypes /\ t \in {"tx_version", "fallback"}
    BY <1>3 DEF InGlobals, KeyedTypes
  <2>2. /\ Field("input_count", NoKey, Len(p.inputs)).t = "input_count"
        /\ Field("output_count", NoKey, Len(p.outputs)).t = "output_count"
        /\ Field("version", NoKey, p.version).t = "version"
    BY <1>2, GlobalFields
  <2>3. ASSUME NEW f, f.t = t, IsSet(f) PROVE f \in ToSet(c) <=> f \in ToSet(p.fields)
    <3>1. \A y : y \in ToSet(c) <=>
             \/ /\ y \in ToSet(p.fields) /\ IsSet(y)
                /\ y.t \in {"tx_version", "fallback", "modifiable", "xpub", "unknown"}
             \/ y = Field("input_count", NoKey, Len(p.inputs))
             \/ y = Field("output_count", NoKey, Len(p.outputs))
             \/ y = Field("version", NoKey, p.version)
      BY <1>1, GlobalPartIs
    <3> QED BY <2>1, <2>2, <2>3, <3>1
  <2> QED BY <1>1, <1>2, <2>1, <2>3, SameValue
<1> QED BY <1>1, <1>3 DEF Agree

\* What was written and read again spells out the same transaction.
LEMMA RoundTrip ==
    ASSUME NEW p, IsPsbt(p), NEW tx, Spells(p, tx), NEW r, r = deserialize(serialize(p)), r.stage # "raised"
    PROVE  r.stage = "done" /\ IsPsbt(r.psbt) /\ Spells(r.psbt, tx)
<1>1. CASE p.version = 0
  <2>1. PICK f : f = serialize(p)
    OBVIOUS
  <2>2. f.tx \in Transactions /\ f.tx = p.tx /\ p.tx = tx
    BY <1>1, <2>1, SerializedIs DEF Spells
  <2>3. PICK X : X = {0, p.version}
    OBVIOUS
  <2>6. Items(f.items, X)
    BY <2>1, <2>3, SerializedIs
  <2>4. Items(f.items, X) /\ X \subseteq Nat /\ 0 \in X /\ \A x \in X : x = 0
    BY <1>1, <2>3, <2>6
  <2>5. Deserialized(r, f.tx, X)
    BY <2>1, <2>2, <2>4, DeserializedIs
  <2> QED BY <2>2, <2>4, <2>5 DEF Deserialized
<1>2. CASE p.version # 0
  <2>1. r.stage = "done" /\ IsPsbt(r.psbt) /\ ReadBehind(r, p, Len(p.inputs), Len(p.outputs))
    BY <1>2, WrittenRead
  <2>2. PICK q : q = r.psbt
    OBVIOUS
  <2>3. /\ q.version = p.version /\ q.fields = GlobalPart(p)
        /\ Len(q.inputs) = Len(p.inputs) /\ \A i \in 1..Len(p.inputs) : q.inputs[i] = InPart(p, i)
        /\ Len(q.outputs) = Len(p.outputs) /\ \A i \in 1..Len(p.outputs) : q.outputs[i] = OutPart(p, i)
    BY <2>1, <2>2 DEF ReadBehind
  <2>4. IsPsbt(q)
    BY <2>1, <2>2
  <2>5. /\ IsMap(q.fields) /\ \A i \in 1..Len(q.inputs) : IsMap(q.inputs[i])
        /\ \A i \in 1..Len(q.outputs) : IsMap(q.outputs[i])
    BY <2>4, PsbtIs
  <2>6. /\ p.version \in Nat /\ p.version >= 2 /\ \A i \in 1..Len(p.inputs) : IsMap(p.inputs[i])
        /\ \A i \in 1..Len(p.outputs) : IsMap(p.outputs[i])
    <3>1. p.version \in Nat /\ p.version # 1
      BY PsbtIs
    <3>2. p.version >= 2
      BY <1>2, <3>1
    <3> QED BY <3>1, <3>2, PsbtIs
  <2>7. Agree(q.fields, p.fields, InGlobals)
    BY <1>2, <2>3, <2>5, GlobalAgrees
  <2>8. InInputs \subseteq V2Fields /\ InOutputs \subseteq V2Fields
    BY DEF InInputs, InOutputs, V2Fields
  <2>9. ASSUME NEW i \in 1..Len(p.inputs) PROVE Agree(q.inputs[i], p.inputs[i], InInputs)
    <3>1. q.inputs[i] = Part(p.version, p.inputs[i], InputOrder) /\ IsMap(q.inputs[i]) /\ IsMap(p.inputs[i])
      BY <2>3, <2>5, <2>6 DEF InPart
    <3> QED BY <2>6, <2>8, <3>1, Orders, OrderTypes, PartAgrees
  <2>10. ASSUME NEW i \in 1..Len(p.outputs) PROVE Agree(q.outputs[i], p.outputs[i], InOutputs)
    <3>1. q.outputs[i] = Part(p.version, p.outputs[i], OutputOrder) /\ IsMap(q.outputs[i]) /\ IsMap(p.outputs[i])
      BY <2>3, <2>5, <2>6 DEF OutPart
    <3> QED BY <2>6, <2>8, <3>1, Orders, OrderTypes, PartAgrees
  <2>11. SamePsbt(q, p)
    BY <2>3, <2>7, <2>9, <2>10 DEF SamePsbt
  <2>12. AssembledTx(q, ReferenceLockTime(q)) = AssembledTx(p, ReferenceLockTime(p))
    BY <2>4, <2>11, SameSpells
  <2>13. Spells(q, tx)
    BY <1>2, <2>3, <2>12 DEF Spells
  <2> QED BY <2>1, <2>2, <2>13
<1> QED BY <1>1, <1>2

----------------------------------------------------------------------------
(* The forms of a PSBT                                                     *)

\* The transaction that a client takes out of a PSBT.
LEMMA TakenOut ==
    ASSUME NEW p, IsPsbt(p), NEW tx, Spells(p, tx)
    PROVE  /\ get_unsigned_tx(p) = tx /\ ReferenceTx(p) = tx
           /\ AssembledTx(p, compute_lock_time(p)) = tx
  BY LockTimeIs DEF get_unsigned_tx, ReferenceTx, Spells

LEMMA KeepsSpells ==
    ASSUME NEW p, IsPsbt(p), NEW tx, Spells(p, tx), NEW q, Keeps(q, p)
    PROVE  IsPsbt(q) /\ Spells(q, tx)
  BY SameSpells DEF Keeps, Spells

LEMMA FirstSpells ==
    ASSUME NEW p, IsPsbt(p), p.version = 0 => Spells(p, p.tx)
    PROVE  Spells(p, ReferenceTx(p))
  BY DEF Spells, ReferenceTx

LEMMA AgreeSelf == \A a, S : Agree(a, a, S)
  BY DEF Agree

LEMMA Converted2 ==
    ASSUME NEW p, IsPsbt(p), NEW tx, Spells(p, tx)
    PROVE  /\ IsPsbt(convert_to_v2(p)) /\ Spells(convert_to_v2(p), tx)
           /\ convert_to_v2(p).version = 2 /\ Len(convert_to_v2(p).inputs) = Len(p.inputs)
<1>1. PICK q : q = convert_to_v2(p)
  OBVIOUS
<1>2. p \in Psbts
  BY DEF IsPsbt
<1>3. /\ q \in Psbts /\ q.version = 2 /\ q.fields = p.fields /\ q.inputs = p.inputs /\ q.outputs = p.outputs
  BY <1>1, <1>2 DEF convert_to_v2, Psbts
<1>4. IsPsbt(q)
  BY <1>3 DEF IsPsbt
<1>5. SamePsbt(q, p)
  BY <1>3, AgreeSelf DEF SamePsbt
<1>6. Spells(q, tx)
  BY <1>3, <1>4, <1>5, SameSpells DEF Spells
<1> QED BY <1>1, <1>3, <1>4, <1>6

LEMMA Converted0 ==
    ASSUME NEW p, IsPsbt(p), NEW tx, Spells(p, tx)
    PROVE  IsPsbt(convert_to_v0(p)) /\ Spells(convert_to_v0(p), tx)
<1>1. PICK q : q = convert_to_v0(p)
  OBVIOUS
<1>2. p \in Psbts
  BY DEF IsPsbt
<1>3. get_unsigned_tx(p) = tx
  BY TakenOut
<1>4. tx \in Transactions /\ Len(tx.vin) = Len(p.inputs) /\ Len(tx.vout) = Len(p.outputs)
  BY AssembledType DEF Spells
<1>5. q = [p EXCEPT !.version = 0, !.explicit = FALSE, !.tx = tx]
  BY <1>1, <1>3 DEF convert_to_v0
<1>6. /\ q.version = 0 /\ q.tx = tx /\ q.fields = p.fields /\ q.inputs = p.inputs /\ q.outputs = p.outputs
  BY <1>2, <1>5 DEF Psbts
<1>7. q \in Psbts
  BY <1>2, <1>4, <1>5 DEF Psbts
<1>8. IsPsbt(q)
  BY <1>4, <1>6, <1>7 DEF IsPsbt
<1>9. SamePsbt(q, p)
  BY <1>6, AgreeSelf DEF SamePsbt
<1>10. Spells(q, tx)
  BY <1>6, <1>8, <1>9, SameSpells DEF Spells
<1> QED BY <1>1, <1>8, <1>10

----------------------------------------------------------------------------
(* The inputs and keys that the devices sign with                          *)

Signers == Nat \X (Nat \ {0})

LEMMA PairsIn ==
    ASSUME NEW s \in Seq(Signers)
    PROVE  Pairs(ToSet(s))
<1>1. IsFiniteSet(ToSet(s)) /\ ToSet(s) \subseteq Signers
  BY FiniteToSet, InSeq
<1> QED BY <1>1 DEF Pairs, Signers

LEMMA FirstIs ==
    ASSUME NEW m, IsMap(m), Waiting(m) # {}
    PROVE  FirstWaiting(m) \in Nat \ {0}
<1>1. PICK o : o = OurKeys(m)
  OBVIOUS
<1>2. o \in Seq(Fields) /\ \A i \in 1..Len(o) : o[i].k \in Nat \ {0}
  BY <1>1, OurKeysIs
<1>3. Len(o) \in Nat /\ DOMAIN o = 1..Len(o)
  BY <1>2
<1> DEFINE T == {n \in 1..Len(o) : o[n].k \in Waiting(m)}
<1>4. T # {} /\ T \subseteq Nat
  <2>1. PICK k : k \in Waiting(m)
    OBVIOUS
  <2>2. PICK f \in ToSet(o) : k = f.k
    BY <1>1, <2>1 DEF Unsigned, Waiting
  <2>3. PICK n \in 1..Len(o) : f = o[n]
    BY <1>2, InSeq
  <2>4. n \in T
    BY <2>1, <2>2, <2>3
  <2> QED BY <1>3, <2>4
<1>5. PICK n \in T : \A y \in T : n <= y
  BY <1>4, Least
<1>6. n \in DOMAIN o /\ o[n].k \in Waiting(m) /\ \A l \in 1..(n - 1) : o[l].k \notin Waiting(m)
  BY <1>3, <1>5
<1> DEFINE c == CHOOSE x \in DOMAIN o : /\ o[x].k \in Waiting(m)
                                       /\ \A l \in 1..(x - 1) : o[l].k \notin Waiting(m)
<1>7. c \in DOMAIN o
  BY <1>6
<1>8. FirstWaiting(m) = o[c].k
  BY <1>1 DEF FirstWaiting
<1> QED BY <1>2, <1>3, <1>7, <1>8

LEMMA ChoiceIs ==
    ASSUME NEW p, IsPsbt(p), NEW S \in DeviceChoice(p)
    PROVE  Pairs(S)
<1> DEFINE open == {i \in DOMAIN p.inputs : Unsigned(p.inputs[i]) # {} /\ ~Final(p.inputs[i])}
           all == UNION {{<<i, k>> : k \in Unsigned(p.inputs[i])} : i \in open}
           F == {g \in [open -> {x[2] : x \in all}] : \A i \in open : g[i] \in Unsigned(p.inputs[i])}
<1>1. PICK n \in Nat : n = Len(p.inputs)
  BY PsbtIs
<1>2. open \subseteq 1..n /\ \A i \in open : IsMap(p.inputs[i])
  BY <1>1, PsbtIs
<1>3. DeviceChoice(p) = IF edge \/ client = "jade" THEN {all} ELSE {{<<i, f[i]>> : i \in open} : f \in F}
  BY DEF DeviceChoice
<1> HIDE DEF open
<1>4. Pairs(all)
  <2>1. all = AllOf(p.inputs, open)
    BY DEF AllOf
  <2> HIDE DEF all
  <2> QED BY <1>1, <1>2, <2>1, AllPairs
<1>5. ASSUME NEW f \in F PROVE Pairs({<<i, f[i]>> : i \in open})
  <2>1. \A i \in open : f[i] \in Unsigned(p.inputs[i])
    BY <1>5
  <2>2. \A i \in open : f[i] \in Nat \ {0}
    BY <1>2, <2>1, UnsignedIs
  <2> HIDE DEF F
  <2>3. open \subseteq 1..n
    BY <1>2
  <2> QED BY <2>2, <2>3, ChosenPairs
<1> HIDE DEF F, all
<1>6. CASE edge \/ client = "jade"
  BY <1>3, <1>4, <1>6
<1>7. CASE ~(edge \/ client = "jade")
  <2>1. PICK f \in F : S = {<<i, f[i]>> : i \in open}
    BY <1>3, <1>7
  <2> QED BY <1>5, <2>1
<1> QED BY <1>6, <1>7

LEMMA PassPairs ==
    ASSUME NEW p, IsPsbt(p)
    PROVE  Pairs({<<i, FirstWaiting(p.inputs[i])>> : i \in {j \in DOMAIN p.inputs : Waiting(p.inputs[j]) # {}}})
<1> DEFINE S == {j \in DOMAIN p.inputs : Waiting(p.inputs[j]) # {}}
           g == [i \in S |-> FirstWaiting(p.inputs[i])]
<1>1. PICK n \in Nat : n = Len(p.inputs)
  BY PsbtIs
<1>2. S \subseteq 1..n /\ \A i \in S : IsMap(p.inputs[i]) /\ Waiting(p.inputs[i]) # {}
  BY <1>1, PsbtIs
<1>3. \A i \in S : FirstWaiting(p.inputs[i]) \in Nat \ {0}
  BY <1>2, FirstIs
<1> HIDE DEF S
<1>4. Pairs({<<i, g[i]>> : i \in S})
  <2>1. \A i \in S : g[i] \in Nat \ {0}
    BY <1>3
  <2> HIDE DEF g
  <2> QED BY <1>1, <1>2, <2>1, ChosenPairs
<1>5. {<<i, g[i]>> : i \in S} = {<<i, FirstWaiting(p.inputs[i])>> : i \in S}
  OBVIOUS
<1> QED BY <1>4, <1>5 DEF S

\* The BitBox02's client finds a key in every input, or refuses.
LEMMA FoundIs ==
    ASSUME NEW m, IsMap(m), NEW policy, ~RefusesInput(m, policy)
    PROVE  find_our_key(m).k \in Nat \ {0}
<1>1. PICK o : o = OurKeys(m)
  OBVIOUS
<1>2. o \in Seq(Fields) /\ \A j \in 1..Len(o) : o[j].k \in Nat \ {0}
  BY <1>1, OurKeysIs
<1>3. CASE o # << >>
  <2>1. 1 \in 1..Len(o)
    BY <1>2, <1>3
  <2>2. find_our_key(m) = o[1]
    BY <1>1, <1>3 DEF find_our_key
  <2> QED BY <1>2, <2>1, <2>2
<1>4. CASE o = << >>
  <2> DEFINE T == OurTapKeys(m)
             c == CHOOSE n \in T : \A l \in T : n <= l
  <2>1. T # {} /\ T \subseteq Nat
    <3>1. DOMAIN m \subseteq Nat /\ T \subseteq DOMAIN m
      BY DEF IsMap, OurTapKeys
    <3> QED BY <1>1, <1>4, <3>1 DEF RefusesInput
  <2>2. c \in T
    BY <2>1, Least
  <2>3. find_our_key(m) = m[c]
    BY <1>1, <1>4 DEF find_our_key
  <2> HIDE DEF c
  <2>4. c \in DOMAIN m /\ m[c].t = "tap_bip32"
    BY <2>2 DEF OurTapKeys
  <2>5. c \in 1..Len(m) /\ m[c] \in Fields
    BY <2>4 DEF IsMap
  <2>6. m[c].k # NoKey
    BY <2>4, <2>5 DEF IsMap, KeyedTypes
  <2> QED BY <2>3, <2>5, <2>6, FieldIs DEF NoKey
<1> QED BY <1>3, <1>4

LEMMA BitBox02Adds ==
    ASSUME NEW p, IsPsbt(p), NEW policy, ~BitBox02Refuses(p, policy)
    PROVE  Keeps([p EXCEPT !.inputs = [i \in DOMAIN @ |-> Put(@[i], BitBox02Signature(i, @[i]))]], p)
<1> DEFINE n == [i \in DOMAIN p.inputs |-> Put(p.inputs[i], BitBox02Signature(i, p.inputs[i]))]
<1>1. DOMAIN p.inputs = 1..Len(p.inputs) /\ \A i \in 1..Len(p.inputs) : IsMap(p.inputs[i])
  BY PsbtIs
<1>2. ASSUME NEW i \in 1..Len(p.inputs) PROVE IsMap(n[i]) /\ Same(n[i], p.inputs[i])
  <2>1. PICK m : m = p.inputs[i]
    OBVIOUS
  <2>2. IsMap(m) /\ ~RefusesInput(m, policy)
    BY <1>1, <2>1 DEF BitBox02Refuses
  <2>3. PICK k : k = find_our_key(m).k
    OBVIOUS
  <2>4. k \in Nat \ {0}
    BY <2>2, <2>3, FoundIs
  <2>5. i \in Int
    BY PsbtIs
  <2>6. Sig(i, k) \in Int
    BY <2>4, <2>5 DEF Sig
  <2>7. "partial_sig" \in FieldTypes /\ "tap_key_sig" \in FieldTypes
    BY Orders DEF FieldTypes, InputTypes
  <2>8. IsSignature(Field("partial_sig", k, Sig(i, k))) /\ IsSignature(Field("tap_key_sig", NoKey, Sig(i, k)))
    BY <2>4, <2>6, <2>7 DEF IsSignature, Field, Fields, NoKey
  <2>9. PICK f : f = BitBox02Signature(i, m)
    OBVIOUS
  <2>10. IsSignature(f)
    BY <2>3, <2>8, <2>9 DEF BitBox02Signature
  <2>11. n[i] = Put(m, f)
    BY <1>1, <2>1, <2>9
  <2> QED BY <2>1, <2>2, <2>10, <2>11, SignaturePut
<1>3. n = [i \in DOMAIN p.inputs |-> n[i]]
  OBVIOUS
<1> HIDE DEF n
<1>4. NewInputs(p, n)
  BY <1>2, <1>3 DEF NewInputs
<1>5. Keeps([p EXCEPT !.inputs = n], p)
  BY <1>4, WithInputs
<1> QED BY <1>5 DEF n

LEMMA SighashesIs ==
    ASSUME NEW p, IsPsbt(p)
    PROVE  FlattenSeq([i \in DOMAIN p.inputs |-> SighashesOf(i, p.inputs[i])]) \in Seq(Signers)
<1> DEFINE ss == [i \in DOMAIN p.inputs |-> SighashesOf(i, p.inputs[i])]
<1>1. PICK n \in Nat : n = Len(p.inputs)
  BY PsbtIs
<1>2. DOMAIN p.inputs = 1..n /\ \A i \in 1..n : IsMap(p.inputs[i])
  BY <1>1, PsbtIs
<1>3. ASSUME NEW i \in 1..n PROVE SighashesOf(i, p.inputs[i]) \in Seq(Signers)
  <2>1. PICK o : o = OurKeys(p.inputs[i])
    OBVIOUS
  <2>2. o \in Seq(Fields) /\ \A j \in 1..Len(o) : o[j].k \in Nat \ {0}
    BY <1>2, <2>1, OurKeysIs
  <2>3. Len(o) \in Nat /\ DOMAIN o = 1..Len(o)
    BY <2>2
  <2> DEFINE x == [j \in 1..Len(o) |-> <<i, o[j].k>>]
  <2>4. x \in Seq(Signers)
    <3>1. \A j \in 1..Len(o) : <<i, o[j].k>> \in Signers
      BY <2>2 DEF Signers
    <3> HIDE DEF Signers
    <3> QED BY <2>3, <3>1
  <2>5. << >> \in Seq(Signers)
    BY InEmpty
  <2>6. SighashesOf(i, p.inputs[i]) = IF PassedOver(p.inputs[i]) THEN << >> ELSE x
    BY <2>1, <2>3 DEF SighashesOf
  <2> HIDE DEF x
  <2> QED BY <2>4, <2>5, <2>6
<1>4. ss \in Seq(Seq(Signers))
  <2>1. PICK Q : Q = Seq(Signers)
    OBVIOUS
  <2>2. ss = [i \in 1..n |-> SighashesOf(i, p.inputs[i])] /\ \A i \in 1..n : SighashesOf(i, p.inputs[i]) \in Q
    BY <1>2, <1>3, <2>1
  <2>3. ss \in Seq(Q)
    BY <2>2
  <2> QED BY <2>1, <2>3
<1> HIDE DEF ss
<1>5. FlattenSeq(ss) \in Seq(Signers)
  BY <1>4, InFlat
<1> QED BY <1>5 DEF ss

----------------------------------------------------------------------------
(* The steps                                                               *)

\* A request to a device, or any other step of a client but those of the Ledger's copy.
LEMMA Asked ==
    ASSUME IInv, UNCHANGED <<file, round, original>>,
           stage' \notin {"start", "wallets", "printed"},
           stage' \notin {"refused", "unreadable"} => IsPsbt(psbt') /\ Spells(psbt', original),
           queue' \in Seq(Signers),
           \A tx \in shown' : tx \in shown \/ tx = original
    PROVE  IInv'
<1>1. IsFile(file') /\ round' \in Nat \ {0}
  BY DEF IInv
<1>2. stage' \notin {"start", "unreadable", "refused"} => IsPsbt(psbt') /\ Spells(psbt', original')
  OBVIOUS
<1>3. \A tx \in shown' : tx = original'
  BY DEF IInv, DeviceSignsTransaction
<1> QED BY <1>1, <1>2, <1>3 DEF IInv, Holds, Signers, DeviceSignsTransaction

\* What the invariant says of the PSBT of a client at work.
LEMMA AtWork ==
    ASSUME IInv, stage \notin {"start", "unreadable", "refused"}
    PROVE  IsPsbt(psbt) /\ Spells(psbt, original) /\ queue \in Seq(Signers)
  BY DEF IInv, Holds, Signers

LEMMA RefuseKeeps ==
    ASSUME IInv, Refuse
    PROVE  IInv'
<1>1. /\ UNCHANGED <<file, round, original>> /\ stage' = "refused" /\ queue' \in Seq(Signers)
      /\ shown' = shown
  BY DEF IInv, Refuse, Signers
<1> QED BY <1>1, Asked

LEMMA ReadFileKeeps ==
    ASSUME IInv, ReadFile
    PROVE  IInv'
<1>1. PICK r : /\ r = deserialize(file)
               /\ IF r.stage = "raised"
                  THEN stage' = "unreadable" /\ UNCHANGED <<psbt, original>>
                  ELSE /\ stage' = "client"
                       /\ psbt' = r.psbt
                       /\ original' = IF round = 1 THEN ReferenceTx(r.psbt) ELSE original
  BY DEF ReadFile
<1>2. /\ stage = "start" /\ UNCHANGED <<file, round, shown>> /\ queue' \in Seq(Signers)
  BY DEF IInv, ReadFile, Signers
<1>3. CASE r.stage = "raised"
  BY <1>1, <1>2, <1>3, Asked
<1>4. CASE r.stage # "raised" /\ round = 1
  <2>1. IsFile(file) /\ shown = {}
    BY <1>2, <1>4 DEF IInv
  <2>2. PICK f : f = file
    OBVIOUS
  <2>3. f.tx \in Transactions /\ Items(f.items, Nat)
    BY <2>1, <2>2, FileItems
  <2>4. PICK X : X = Nat
    OBVIOUS
  <2>5. X \subseteq Nat /\ 0 \in X /\ Items(f.items, X)
    BY <2>3, <2>4
  <2>6. Deserialized(deserialize(f), f.tx, X)
    BY <2>3, <2>5, DeserializedIs
  <2>7. PICK b : b = r.psbt
    OBVIOUS
  <2>8. IsPsbt(b) /\ (b.version = 0 => Spells(b, b.tx))
    BY <1>1, <1>4, <2>2, <2>6, <2>7 DEF Deserialized
  <2>9. Spells(b, ReferenceTx(b))
    BY <2>8, FirstSpells
  <2>10. psbt' = b /\ original' = ReferenceTx(b) /\ stage' = "client"
    BY <1>1, <1>4, <2>7
  <2>11. IsPsbt(psbt') /\ Spells(psbt', original')
    BY <2>8, <2>9, <2>10
  <2>12. \A tx \in shown' : tx = original'
    BY <1>2, <2>1
  <2>13. IsFile(file') /\ round' \in Nat \ {0}
    BY <1>2 DEF IInv
  <2> QED BY <1>2, <2>10, <2>11, <2>12, <2>13 DEF IInv, Holds, Signers, DeviceSignsTransaction
<1>5. CASE r.stage # "raised" /\ round # 1
  <2>1. IsPsbt(psbt) /\ Spells(psbt, original) /\ file = serialize(psbt)
    BY <1>2, <1>5 DEF IInv, Holds
  <2>2. r = deserialize(serialize(psbt))
    BY <1>1, <2>1
  <2>3. IsPsbt(r.psbt) /\ Spells(r.psbt, original)
    BY <1>5, <2>1, <2>2, RoundTrip
  <2> QED BY <1>1, <1>2, <1>5, <2>3, Asked
<1> QED BY <1>3, <1>4, <1>5

LEMMA PrintKeeps ==
    ASSUME IInv, PrintResult
    PROVE  IInv'
<1>1. /\ stage = "returned" /\ stage' = "printed" /\ result' = serialize(psbt)
      /\ UNCHANGED <<file, round, original, psbt, queue, shown>>
  BY DEF PrintResult
<1> QED BY <1>1 DEF IInv, Holds, DeviceSignsTransaction

LEMMA NextDeviceKeeps ==
    ASSUME IInv, NextDevice
    PROVE  IInv'
<1>1. /\ stage = "printed" /\ stage' = "start" /\ file' = result /\ round' = round + 1
      /\ UNCHANGED <<original, psbt, queue, shown>>
  BY DEF NextDevice
<1>2. IsPsbt(psbt) /\ Spells(psbt, original) /\ result = serialize(psbt) /\ round \in Nat \ {0}
  BY <1>1 DEF IInv, Holds
<1>3. IsFile(file') /\ file' = serialize(psbt')
  BY <1>1, <1>2, SerializedIs
<1>4. round' \in Nat \ {0} /\ round' # 1
  BY <1>1, <1>2
<1> QED BY <1>1, <1>2, <1>3, <1>4 DEF IInv, Holds, DeviceSignsTransaction

LEMMA BitBox02Keeps ==
    ASSUME IInv, BitBox02Sign
    PROVE  IInv'
<1> DEFINE tx == AssembledTx(psbt, compute_lock_time(psbt))
           next == [psbt EXCEPT !.inputs = [i \in DOMAIN @ |-> Put(@[i], BitBox02Signature(i, @[i]))]]
<1>1. CASE Refuse
  BY <1>1, RefuseKeeps
<1>2. CASE \E policy \in BOOLEAN :
              /\ ~BitBox02Refuses(psbt, policy)
              /\ stage = "client" /\ stage' = "returned" /\ psbt' = next
              /\ shown' = shown \cup {tx} /\ UNCHANGED <<file, round, original, queue>>
  <2>1. PICK policy \in BOOLEAN :
              /\ ~BitBox02Refuses(psbt, policy)
              /\ stage = "client" /\ stage' = "returned" /\ psbt' = next
              /\ shown' = shown \cup {tx} /\ UNCHANGED <<file, round, original, queue>>
    BY <1>2
  <2>2. IsPsbt(psbt) /\ Spells(psbt, original) /\ queue \in Seq(Signers)
    BY <2>1, AtWork
  <2>3. Keeps(next, psbt)
    BY <2>1, <2>2, BitBox02Adds
  <2>4. tx = original
    BY <2>2, TakenOut
  <2> HIDE DEF tx, next
  <2>5. IsPsbt(psbt') /\ Spells(psbt', original)
    BY <2>1, <2>2, <2>3, KeepsSpells
  <2> QED BY <2>1, <2>2, <2>4, <2>5, Asked
<1> QED BY <1>1, <1>2 DEF BitBox02Sign

LEMMA DigitalBitboxStartKeeps ==
    ASSUME IInv, DigitalBitboxStart
    PROVE  IInv'
<1> DEFINE q == FlattenSeq([i \in DOMAIN psbt.inputs |-> SighashesOf(i, psbt.inputs[i])])
<1>1. CASE Refuse
  BY <1>1, RefuseKeeps
<1>2. CASE /\ stage = "client" /\ stage' \in {"returned", "batches"}
           /\ queue' = q /\ UNCHANGED <<file, round, original, psbt, shown>>
  <2>1. IsPsbt(psbt) /\ Spells(psbt, original)
    BY <1>2, AtWork
  <2>2. q \in Seq(Signers)
    BY <2>1, SighashesIs
  <2> HIDE DEF q
  <2> QED BY <1>2, <2>1, <2>2, Asked
<1> QED BY <1>1, <1>2 DEF DigitalBitboxStart

LEMMA PartOf ==
    ASSUME NEW S, NEW s \in Seq(S), NEW a \in Nat \ {0}, NEW b \in Nat, b <= Len(s)
    PROVE  SubSeq(s, a, b) \in Seq(S)
  OBVIOUS

LEMMA DigitalBitboxBatchKeeps ==
    ASSUME IInv, DigitalBitboxBatch
    PROVE  IInv'
<1> DEFINE most == IF Len(queue) < Batch THEN Len(queue) ELSE Batch
           batch == SubSeq(queue, 1, most)
<1>1. /\ stage = "batches" /\ stage' \in {"returned", "batches"} /\ psbt' = AddSignatures(psbt, ToSet(batch))
      /\ shown' = shown \cup {get_unsigned_tx(psbt)} /\ queue' = SubSeq(queue, Batch + 1, Len(queue))
      /\ UNCHANGED <<file, round, original>>
  BY DEF DigitalBitboxBatch, Behind
<1>2. IsPsbt(psbt) /\ Spells(psbt, original) /\ queue \in Seq(Signers)
  BY <1>1, AtWork
<1>3. /\ Len(queue) \in Nat /\ most \in Nat /\ most <= Len(queue)
      /\ Batch + 1 \in Nat \ {0} /\ Len(queue) <= Len(queue)
  BY <1>2, BatchAssumption
<1>4. queue' \in Seq(Signers)
  BY <1>1, <1>2, <1>3, PartOf
<1>5. batch \in Seq(Signers)
  <2> HIDE DEF most
  <2> QED BY <1>2, <1>3, PartOf
<1>6. Pairs(ToSet(batch))
  BY <1>5, PairsIn
<1>7. get_unsigned_tx(psbt) = original
  BY <1>2, TakenOut
<1> HIDE DEF batch
<1>8. Keeps(psbt', psbt)
  BY <1>1, <1>2, <1>6, AddedIs
<1>9. IsPsbt(psbt') /\ Spells(psbt', original)
  BY <1>2, <1>8, KeepsSpells
<1> QED BY <1>1, <1>4, <1>7, <1>9, Asked

LEMMA JadeStartKeeps ==
    ASSUME IInv, JadeStart
    PROVE  IInv'
<1>1. CASE Refuse
  BY <1>1, RefuseKeeps
<1>2. CASE /\ stage = "client" /\ stage' = "jade"
           /\ UNCHANGED <<file, round, original, psbt, queue, shown>>
  <2>1. IsPsbt(psbt) /\ Spells(psbt, original) /\ queue \in Seq(Signers)
    BY <1>2, AtWork
  <2> QED BY <1>2, <2>1, Asked
<1> QED BY <1>1, <1>2 DEF JadeStart

LEMMA JadePassKeeps ==
    ASSUME IInv, JadePass
    PROVE  IInv'
<1> DEFINE pairs == {<<i, FirstWaiting(psbt.inputs[i])>> :
                       i \in {j \in DOMAIN psbt.inputs : Waiting(psbt.inputs[j]) # {}}}
<1>1. CASE Refuse
  BY <1>1, RefuseKeeps
<1>2. CASE \E given \in SUBSET pairs :
              /\ stage = "jade" /\ stage' \in {"jade", "returned"} /\ psbt' = AddSignatures(psbt, given)
              /\ shown' = shown \cup {get_unsigned_tx(psbt)} /\ UNCHANGED <<file, round, original, queue>>
  <2>1. PICK given \in SUBSET pairs :
              /\ stage = "jade" /\ stage' \in {"jade", "returned"} /\ psbt' = AddSignatures(psbt, given)
              /\ shown' = shown \cup {get_unsigned_tx(psbt)} /\ UNCHANGED <<file, round, original, queue>>
    BY <1>2
  <2>2. IsPsbt(psbt) /\ Spells(psbt, original) /\ queue \in Seq(Signers)
    BY <2>1, AtWork
  <2>3. Pairs(pairs)
    BY <2>2, PassPairs
  <2>4. get_unsigned_tx(psbt) = original
    BY <2>2, TakenOut
  <2> HIDE DEF pairs
  <2>5. Pairs(given)
    BY <2>3, FewerPairs
  <2>6. Keeps(psbt', psbt)
    BY <2>1, <2>2, <2>5, AddedIs
  <2>7. IsPsbt(psbt') /\ Spells(psbt', original)
    BY <2>2, <2>6, KeepsSpells
  <2> QED BY <2>1, <2>2, <2>4, <2>7, Asked
<1> QED BY <1>1, <1>2 DEF JadePass

\* A file that is sent to a device, signed there and read again.
LEMMA SignOnceKeeps ==
    ASSUME IInv, stage \notin {"start", "unreadable", "refused"},
           NEW covered, NEW next \in {"passes", "policies", "unnamed", "returned"}, SignOnce(covered, next)
    PROVE  IInv'
<1>1. CASE ~Packs(psbt) \/ ~Legible(serialize(psbt))
  BY <1>1, RefuseKeeps DEF SignOnce
<1>2. CASE Packs(psbt) /\ Legible(serialize(psbt))
  <2>1. PICK r : r = deserialize(serialize(psbt))
    OBVIOUS
  <2>2. r.stage = "done"
    BY <1>2, <2>1 DEF Legible
  <2>3. IsPsbt(psbt) /\ Spells(psbt, original) /\ queue \in Seq(Signers)
    BY AtWork
  <2>4. PICK seen : seen = r.psbt
    OBVIOUS
  <2>5. IsPsbt(seen) /\ Spells(seen, original)
    BY <2>1, <2>2, <2>3, <2>4, RoundTrip
  <2>6. PICK pairs \in DeviceChoice(seen) :
           /\ psbt' = deserialize(serialize(AddSignatures(seen, {x \in pairs : x[1] \in covered}))).psbt
           /\ shown' = shown \cup {ReferenceTx(seen)}
           /\ stage' = IF deserialize(serialize(AddSignatures(seen, {x \in pairs : x[1] \in covered}))).stage = "raised"
                       THEN "refused" ELSE next
           /\ UNCHANGED <<file, round, original, queue>>
    BY <1>2, <2>1, <2>4 DEF SignOnce
  <2>7. PICK added : added = {x \in pairs : x[1] \in covered}
    OBVIOUS
  <2>8. Pairs(added)
    <3>1. Pairs(pairs) /\ added \subseteq pairs
      BY <2>5, <2>6, <2>7, ChoiceIs
    <3> QED BY <3>1, FewerPairs
  <2>9. PICK back : back = AddSignatures(seen, added)
    OBVIOUS
  <2>10. IsPsbt(back) /\ Spells(back, original)
    <3>1. Keeps(back, seen)
      BY <2>5, <2>8, <2>9, AddedIs
    <3> QED BY <2>5, <3>1, KeepsSpells
  <2>11. PICK answer : answer = deserialize(serialize(back))
    OBVIOUS
  <2>12. answer.stage # "raised" => IsPsbt(psbt') /\ Spells(psbt', original)
    <3> SUFFICES ASSUME answer.stage # "raised" PROVE IsPsbt(answer.psbt) /\ Spells(answer.psbt, original)
      BY <2>6, <2>7, <2>9, <2>11
    <3> QED BY <2>10, <2>11, RoundTrip
  <2>13. ReferenceTx(seen) = original
    BY <2>5, TakenOut
  <2>14. stage' = IF answer.stage = "raised" THEN "refused" ELSE next
    BY <2>6, <2>7, <2>9, <2>11
  <2> QED BY <2>3, <2>6, <2>12, <2>13, <2>14, Asked
<1> QED BY <1>1, <1>2

LEMMA ColdcardStartKeeps ==
    ASSUME IInv, ColdcardStart
    PROVE  IInv'
<1>1. CASE Refuse
  BY <1>1, RefuseKeeps
<1>2. CASE ~Refuse
  <2>1. /\ stage = "client" /\ stage' \in {"policies", "passes"}
        /\ psbt' = convert_to_v0(psbt) \/ psbt' = psbt
        /\ UNCHANGED <<file, round, original, queue, shown>>
    BY <1>2 DEF ColdcardStart
  <2>2. IsPsbt(psbt) /\ Spells(psbt, original) /\ queue \in Seq(Signers)
    BY <2>1, AtWork
  <2>3. IsPsbt(psbt') /\ Spells(psbt', original)
    BY <2>1, <2>2, Converted0
  <2> QED BY <2>1, <2>2, <2>3, Asked
<1> QED BY <1>1, <1>2

LEMMA ColdcardPassKeeps ==
    ASSUME IInv, ColdcardPass
    PROVE  IInv'
  BY SignOnceKeeps DEF ColdcardPass

LEMMA ColdcardPolicyKeeps ==
    ASSUME IInv, ColdcardPolicy
    PROVE  IInv'
  BY SignOnceKeeps DEF ColdcardPolicy

LEMMA ColdcardUnnamedKeeps ==
    ASSUME IInv, ColdcardUnnamed
    PROVE  IInv'
<1>0. stage = "unnamed"
  BY DEF ColdcardUnnamed
<1>1. CASE SignOnce(DOMAIN psbt.inputs, "returned")
  BY <1>0, <1>1, SignOnceKeeps
<1>2. CASE stage' = "returned" /\ UNCHANGED <<file, round, original, psbt, queue, shown>>
  <2>1. IsPsbt(psbt) /\ Spells(psbt, original) /\ queue \in Seq(Signers)
    BY <1>0, AtWork
  <2> QED BY <1>2, <2>1, Asked
<1> QED BY <1>1, <1>2 DEF ColdcardUnnamed

LEMMA JadeSignKeeps ==
    ASSUME IInv, JadeSign
    PROVE  IInv'
  BY SignOnceKeeps DEF JadeSign

\* The Ledger: the copy and the PSBT itself spell out the same transaction.
LEMMA LedgerCopyKeeps ==
    ASSUME IInv, LedgerCopy
    PROVE  IInv'
<1>1. /\ stage = "client" /\ stage' = "wallets"
      /\ copy' = IF psbt.version # 2 THEN convert_to_v2(psbt) ELSE psbt
      /\ UNCHANGED <<file, round, original, psbt, queue, result, shown>>
  BY DEF LedgerCopy
<1>2. IsPsbt(psbt) /\ Spells(psbt, original)
  BY <1>1, AtWork
<1>3. IsPsbt(copy') /\ Spells(copy', original) /\ Len(copy'.inputs) = Len(psbt.inputs)
  BY <1>1, <1>2, Converted2
<1> QED BY <1>1, <1>2, <1>3 DEF IInv, Holds, DeviceSignsTransaction

LEMMA LedgerWalletKeeps ==
    ASSUME IInv, LedgerWallet
    PROVE  IInv'
<1>1. CASE ~Packs(copy) \/ ~Legible(serialize(copy))
  BY <1>1, RefuseKeeps DEF LedgerWallet
<1>2. CASE Packs(copy) /\ Legible(serialize(copy))
  <2>1. PICK r : r = deserialize(serialize(copy))
    OBVIOUS
  <2>2. r.stage = "done"
    BY <1>2, <2>1 DEF Legible
  <2>3. PICK seen : seen = r.psbt
    OBVIOUS
  <2>4. /\ stage = "wallets" /\ stage' = "wallets" /\ shown' = shown \cup {ReferenceTx(seen)}
        /\ \E S \in SUBSET (DOMAIN seen.inputs) : copy' = AddSignatures(copy, AllOf(seen.inputs, S))
        /\ UNCHANGED <<file, round, original, psbt, queue, result>>
    BY <1>2, <2>1, <2>3 DEF LedgerWallet, AllOf
  <2>5. IsPsbt(copy) /\ Spells(copy, original) /\ Len(copy.inputs) = Len(psbt.inputs)
    BY <2>4 DEF IInv, Holds
  <2>6. IsPsbt(seen) /\ Spells(seen, original)
    BY <2>1, <2>2, <2>3, <2>5, RoundTrip
  <2>7. PICK S \in SUBSET (DOMAIN seen.inputs) : copy' = AddSignatures(copy, AllOf(seen.inputs, S))
    BY <2>4
  <2>8. PICK pairs : pairs = AllOf(seen.inputs, S)
    OBVIOUS
  <2>9. Pairs(pairs)
    <3>1. PICK n \in Nat : n = Len(seen.inputs)
      BY <2>6, PsbtIs
    <3>2. S \subseteq 1..n /\ \A i \in S : IsMap(seen.inputs[i])
      BY <2>6, <3>1, PsbtIs
    <3> QED BY <2>8, <3>1, <3>2, AllPairs
  <2>10. Keeps(copy', copy)
    BY <2>5, <2>7, <2>8, <2>9, AddedIs
  <2>11. IsPsbt(copy') /\ Spells(copy', original) /\ Len(copy'.inputs) = Len(psbt.inputs)
    BY <2>5, <2>10, KeepsSpells DEF Keeps
  <2>12. ReferenceTx(seen) = original
    BY <2>6, TakenOut
  <2> QED BY <2>4, <2>11, <2>12 DEF IInv, Holds, DeviceSignsTransaction
<1> QED BY <1>1, <1>2

LEMMA LedgerMergeKeeps ==
    ASSUME IInv, LedgerMerge
    PROVE  IInv'
<1> DEFINE n == [i \in DOMAIN psbt.inputs |-> Merged(psbt.inputs[i], copy.inputs[i])]
<1>1. /\ stage = "wallets" /\ stage' = "returned" /\ psbt' = [psbt EXCEPT !.inputs = n]
      /\ UNCHANGED <<file, round, original, queue, shown>>
  BY DEF LedgerMerge
<1>2. /\ IsPsbt(psbt) /\ Spells(psbt, original) /\ queue \in Seq(Signers)
      /\ IsPsbt(copy) /\ Len(copy.inputs) = Len(psbt.inputs)
  BY <1>1 DEF IInv, Holds, Signers
<1>3. \A i \in 1..Len(psbt.inputs) : IsMap(psbt.inputs[i]) /\ IsMap(copy.inputs[i])
  BY <1>2, PsbtIs
<1>4. DOMAIN psbt.inputs = 1..Len(psbt.inputs)
  BY <1>2, PsbtIs
<1>5. NewInputs(psbt, n)
  <2>1. \A i \in 1..Len(psbt.inputs) : IsMap(n[i]) /\ Same(n[i], psbt.inputs[i])
    BY <1>3, <1>4, MergedIs
  <2> QED BY <2>1 DEF NewInputs
<1> HIDE DEF n
<1>6. Keeps(psbt', psbt)
  BY <1>1, <1>2, <1>5, WithInputs
<1>7. IsPsbt(psbt') /\ Spells(psbt', original)
  BY <1>2, <1>6, KeepsSpells
<1> QED BY <1>1, <1>2, <1>7, Asked

LEMMA NextKeeps ==
    ASSUME IInv, [Next]_vars
    PROVE  IInv'
<1>1. CASE UNCHANGED vars
  BY <1>1 DEF IInv, Holds, DeviceSignsTransaction, vars
<1>2. CASE Finished
  BY <1>1, <1>2 DEF Finished
<1>3. CASE DeviceRefuses
  BY <1>3, RefuseKeeps DEF DeviceRefuses
<1>4. CASE Client
  BY <1>4, BitBox02Keeps, DigitalBitboxStartKeeps, DigitalBitboxBatchKeeps, JadeStartKeeps, JadePassKeeps,
     JadeSignKeeps, LedgerCopyKeeps, LedgerWalletKeeps, LedgerMergeKeeps, ColdcardStartKeeps,
     ColdcardPassKeeps, ColdcardPolicyKeeps, ColdcardUnnamedKeeps DEF Client
<1> QED BY <1>1, <1>2, <1>3, <1>4, ReadFileKeeps, PrintKeeps, NextDeviceKeeps DEF Next

LEMMA InitHolds ==
    ASSUME Init
    PROVE  IInv
<1>1. IsFile(file)
  BY FilesAssumption DEF Init
<1>2. queue \in Seq(Signers)
  BY InEmpty DEF Init
<1> QED BY <1>1, <1>2 DEF Init, IInv, Signers, DeviceSignsTransaction

\* Every client, whether it takes the transaction out of the PSBT (BitBox02, Digital Bitbox,
\* old Jade), signs a copy of version 2 (Ledger), converts to version 0 or sends the file
\* (Coldcard, Jade), and at any place in a chain of devices, asks its device to sign the
\* transaction that the user's file stands for by BIP 174 and BIP 370: compute_lock_time,
\* get_unsigned_tx, convert_to_v0, convert_to_v2, serialize and deserialize lose none of it.
THEOREM DevicesSignTheTransaction == Spec => []DeviceSignsTransaction
<1>1. Init => IInv
  BY InitHolds
<1>2. IInv /\ [Next]_vars => IInv'
  BY NextKeeps
<1>3. IInv => DeviceSignsTransaction
  BY DEF IInv
<1> QED BY <1>1, <1>2, <1>3, PTL DEF Spec
=============================================================================
