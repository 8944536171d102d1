---------------------- MODULE LedgerInterpreterProofs -----------------------
(***************************************************************************)
(* Proofs about LedgerInterpreter, for preimages, trees and proofs of any  *)
(* length.                                                                 *)
(***************************************************************************)
EXTENDS LedgerInterpreter, SequenceTheorems, TLAPS

-----------------------------------------------------------------------------
(* The operators the handlers are built from.                              *)

\* An answer has a natural number of elements.
LEMMA SizeType == ASSUME NEW q \in Questions PROVE Size(q) \in Nat
<1>1. CASE q \in {Preimage(h) : h \in Hashes}
  BY <1>1, PreimageAssumption DEF Preimage, Size
<1>2. ASSUME NEW t \in Trees, NEW i \in Indices, InTree(t, i), q = Proof(t, i)
      PROVE  Size(q) \in Nat
  BY <1>2, ProofAssumption DEF Proof, Size, InTree
<1>. QED BY <1>1, <1>2 DEF Questions

\* The lesser of two positive numbers is within both.
LEMMA LesserType ==
  ASSUME NEW a \in Nat \ {0}, NEW b \in Nat \ {0}
  PROVE  Lesser(a, b) \in 1..a /\ Lesser(a, b) \in 1..b
BY DEF Lesser

\* A question is not the absence of one, and has one of two kinds.
LEMMA QuestionKind ==
  ASSUME NEW q \in Questions
  PROVE  q # Nothing /\ q.kind \in {"preimage", "proof"} /\ Nothing.kind = "nothing"
BY DEF Questions, Preimage, Proof, Nothing

\* Asking for a preimage is a question of the size of that preimage.
LEMMA PreimageQuestion ==
  ASSUME NEW h \in Hashes
  PROVE  /\ Preimage(h) \in Questions /\ Preimage(h).kind = "preimage"
         /\ Size(Preimage(h)) = PreimageLen[h]
BY DEF Questions, Preimage, Size

\* Asking for a leaf of a tree is a question.
LEMMA ProofQuestion ==
  ASSUME NEW t \in Trees, NEW i \in Indices, InTree(t, i)
  PROVE  Proof(t, i) \in Questions /\ Proof(t, i).kind = "proof"
BY DEF Questions, Proof

\* A part of an answer is a sequence of its elements.
LEMMA PartType ==
  ASSUME NEW q \in Questions, NEW from \in Nat \ {0}, NEW count \in Nat
  PROVE  /\ Part(q, from, count) \in Seq(Elements)
         /\ Len(Part(q, from, count)) = count
         /\ \A n \in 1..count : Part(q, from, count)[n] = Element(q, from + n - 1)
<1>1. \A n \in 1..count : Element(q, from + n - 1) \in Elements
  BY DEF Element, Elements
<1>. QED BY <1>1 DEF Part

\* The length of a compact size is between 1 and 9.
LEMMA VarintLenType == ASSUME NEW n \in Nat PROVE VarintLen(n) \in 1..9
BY DEF VarintLen

\* What the first reply to GET_PREIMAGE carries is a part of the preimage, and the reply
\* fits.
LEMMA PayloadFits ==
  ASSUME NEW h \in Hashes
  PROVE  LET size == Lesser(MaxPayload(h), PreimageLen[h])
         IN  /\ size \in Nat /\ size <= PreimageLen[h]
             /\ VarintLen(PreimageLen[h]) + 1 + size \in Nat
             /\ VarintLen(PreimageLen[h]) + 1 + size <= MsgLen
<1>1. PreimageLen[h] \in Nat
  BY PreimageAssumption
<1>2. VarintLen(PreimageLen[h]) \in 1..9
  BY <1>1, VarintLenType
<1>. QED BY <1>1, <1>2 DEF Lesser, MaxPayload, MsgLen

\* A reply with a proof carries at most six of its hashes, and fits.
LEMMA ProofElementsFit ==
  ASSUME NEW n \in Nat
  PROVE  /\ ProofElements(n) \in Nat /\ ProofElements(n) <= n
         /\ HashLen + 1 + 1 + ProofElements(n) * HashLen \in Nat
         /\ HashLen + 1 + 1 + ProofElements(n) * HashLen <= MsgLen
<1>1. (MsgLen - HashLen - 1 - 1) \div HashLen = 6
  BY DEF MsgLen, HashLen
<1>2. ProofElements(n) \in 0..6 /\ ProofElements(n) <= n
  BY <1>1 DEF ProofElements, Lesser
<1>. QED BY <1>2 DEF MsgLen, HashLen

\* A GET_MORE_ELEMENTS reply takes at least one element from the queue, and fits.
LEMMA PoppedFits ==
  ASSUME queue \in Seq(Elements), queue # << >>
  PROVE  LET len == ElementLen(queue[1])
         IN  /\ Popped(len) \in 1..Len(queue)
             /\ 1 + 1 + Popped(len) * len \in Nat
             /\ 1 + 1 + Popped(len) * len <= MsgLen
<1>1. Len(queue) \in Nat \ {0}
  OBVIOUS
<1>2. MoreLen \div 1 = 253 /\ MoreLen \div HashLen = 7
  BY DEF MoreLen, HashLen
<1>3. CASE ElementLen(queue[1]) = 1
  BY <1>1, <1>2, <1>3 DEF Popped, Lesser, MsgLen
<1>4. CASE ElementLen(queue[1]) = HashLen
  <2>1. Popped(HashLen) \in 1..7 /\ Popped(HashLen) \in 1..Len(queue)
    <3>1. Popped(HashLen) = Lesser(Len(queue), 7)
      BY <1>2 DEF Popped
    <3>2. 7 \in Nat \ {0}
      OBVIOUS
    <3>3. Lesser(Len(queue), 7) \in 1..Len(queue) /\ Lesser(Len(queue), 7) \in 1..7
      BY <1>1, <3>2, LesserType, Zenon
    <3>. QED BY <3>1, <3>3, Zenon
  <2>. QED BY <1>4, <2>1 DEF MsgLen, HashLen
<1>. QED BY <1>3, <1>4 DEF ElementLen

-----------------------------------------------------------------------------
(* Type correctness, and the size of replies.                              *)

TypeInv == TypeOK /\ ReplyFits

\* The interpreter starts without a question and without a queue.
LEMMA TypeInitial == Init => TypeInv
BY BoundAssumption DEF Init, TypeInv, TypeOK, ReplyFits, MsgLen

\* Every step keeps the types and fits its reply into one message.
LEMMA TypeInductive ==
  ASSUME TypeInv, [Next]_vars
  PROVE  TypeInv'
<1>. USE DEF TypeInv, TypeOK, ReplyFits
<1>1. ASSUME NEW h \in Hashes, add_known_preimage(h) PROVE TypeInv'
  BY <1>1 DEF add_known_preimage, deviceVars
<1>2. ASSUME NEW t \in Trees PROVE LeafSet(t) \subseteq Hashes
  BY TreeAssumption DEF LeafSet
<1>3. ASSUME NEW t \in Trees, add_known_list(t) PROVE TypeInv'
  BY <1>2, <1>3 DEF add_known_list, deviceVars
<1>4. ASSUME NEW k \in Trees, NEW v \in Trees, add_known_mapping(k, v) PROVE TypeInv'
  BY <1>2, <1>4 DEF add_known_mapping, deviceVars
<1>5. CASE SendCommand
  BY <1>5 DEF SendCommand, deviceVars
<1>6. ASSUME Raise PROVE TypeInv'
  BY <1>6 DEF Raise, deviceVars
<1>7. ASSUME NEW h \in Hashes, GetPreimage(h) PROVE TypeInv'
  <2>1. CASE Raise
    BY <2>1, <1>6
  <2>2. CASE h \in known_preimages
    <3>. DEFINE size == Lesser(MaxPayload(h), PreimageLen[h])
    <3>1. /\ queue' = queue \o PreimageRest(h, size)
          /\ reply_size' = VarintLen(PreimageLen[h]) + 1 + size
          /\ Collect(Preimage(h), size)
          /\ questions < MaxQuestions
          /\ UNCHANGED <<phase, known_preimages, known_trees, yielded>>
      BY <1>7, <2>2 DEF GetPreimage
    <3>2. size \in Nat /\ size <= PreimageLen[h] /\ PreimageLen[h] \in Nat
      BY PayloadFits, PreimageAssumption
    <3>3. reply_size' \in Nat /\ reply_size' <= MsgLen
      BY <3>1, PayloadFits
    <3>. HIDE DEF size
    <3>4. PreimageRest(h, size) \in Seq(Elements)
      BY <3>2, PreimageQuestion, PartType DEF PreimageRest
    <3>5. Part(Preimage(h), 1, size) \in Seq(Elements)
      BY <3>2, PreimageQuestion, PartType
    <3>6. queue' \in Seq(Elements)
      BY <3>1, <3>4
    <3>7. /\ asked' \in Questions /\ got' \in Seq(Elements) /\ clean' \in BOOLEAN
          /\ questions' \in 0..MaxQuestions
      BY <3>1, <3>5, PreimageQuestion, BoundAssumption DEF Collect
    <3>. QED BY <3>1, <3>3, <3>6, <3>7
  <2>. QED BY <2>1, <2>2, <1>7 DEF GetPreimage
<1>8. ASSUME NEW t \in Trees, NEW i \in Indices, NEW size, GetMerkleLeafProof(t, size, i)
      PROVE  TypeInv'
  <2>1. CASE Raise
    BY <2>1, <1>6
  <2>2. CASE t \in known_trees /\ ~NoSuchLeaf(t, size, i) /\ ~QueueBusy
    <3>. DEFINE q == Proof(t, i)
                n == ProofElements(Size(q))
    <3>1. /\ queue' = queue \o Leftover(q, n)
          /\ reply_size' = HashLen + 1 + 1 + n * HashLen
          /\ Collect(q, n)
          /\ questions < MaxQuestions
          /\ UNCHANGED <<phase, known_preimages, known_trees, yielded>>
      BY <1>8, <2>2 DEF GetMerkleLeafProof
    <3>2. InTree(t, i)
      BY <2>2, TreeAssumption, IndexAssumption DEF NoSuchLeaf, InTree
    <3>3. q \in Questions /\ Size(q) \in Nat
      BY <3>2, ProofQuestion, SizeType
    <3>4. n \in Nat /\ n <= Size(q) /\ reply_size' \in Nat /\ reply_size' <= MsgLen
      BY <3>1, <3>3, ProofElementsFit
    <3>. HIDE DEF q, n
    <3>5. Leftover(q, n) \in Seq(Elements) /\ Part(q, 1, n) \in Seq(Elements)
      BY <3>3, <3>4, PartType DEF Leftover
    <3>6. queue' \in Seq(Elements)
      BY <3>1, <3>5
    <3>7. /\ asked' \in Questions /\ got' \in Seq(Elements) /\ clean' \in BOOLEAN
          /\ questions' \in 0..MaxQuestions
      BY <3>1, <3>3, <3>5, BoundAssumption DEF Collect
    <3>. QED BY <3>1, <3>4, <3>6, <3>7
  <2>. QED BY <2>1, <2>2, <1>8 DEF GetMerkleLeafProof
<1>9. ASSUME NEW t \in Trees, NEW h \in Hashes, GetMerkleLeafIndex(t, h) PROVE TypeInv'
  <2>1. CASE Raise
    BY <2>1, <1>6
  <2>2. CASE t \in known_trees
    <3>. DEFINE at == {n \in 0..(Len(LeavesOf[t]) - 1) : LeavesOf[t][n + 1] = h}
                leaf_index == IF at = {} THEN 0
                              ELSE CHOOSE n \in at : \A m \in at : n <= m
    <3>1. reply_size' = 1 + VarintLen(leaf_index)
      BY <1>9, <2>2 DEF GetMerkleLeafIndex
    <3>2. reply_size' \in Nat /\ reply_size' <= MsgLen
      BY <3>1 DEF VarintLen, MsgLen
    <3>. QED BY <1>9, <2>2, <3>2 DEF GetMerkleLeafIndex, deviceVars
  <2>. QED BY <2>1, <2>2, <1>9 DEF GetMerkleLeafIndex
<1>10. CASE GetMoreElements
  <2>1. CASE Raise
    BY <2>1, <1>6
  <2>2. CASE queue # << >> /\ ~Mixed
    <3>. DEFINE n == Popped(ElementLen(queue[1]))
    <3>1. /\ got' = got \o SubSeq(queue, 1, n)
          /\ queue' = SubSeq(queue, n + 1, Len(queue))
          /\ reply_size' = 1 + 1 + n * ElementLen(queue[1])
          /\ UNCHANGED <<phase, known_preimages, known_trees, yielded, asked, clean, questions>>
      BY <1>10, <2>2 DEF GetMoreElements
    <3>2. n \in 1..Len(queue) /\ reply_size' \in Nat /\ reply_size' <= MsgLen
      BY <2>2, <3>1, PoppedFits
    <3>. HIDE DEF n
    <3>3. SubSeq(queue, 1, n) \in Seq(Elements) /\ SubSeq(queue, n + 1, Len(queue)) \in Seq(Elements)
      BY <3>2, SubSeqProperties
    <3>4. got' \in Seq(Elements) /\ queue' \in Seq(Elements)
      BY <3>1, <3>3
    <3>. QED BY <3>1, <3>2, <3>4
  <2>. QED BY <2>1, <2>2, <1>10 DEF GetMoreElements
<1>11. ASSUME NEW len \in YieldLens, Yield(len) PROVE TypeInv'
  BY <1>11 DEF Yield, deviceVars, MsgLen
<1>12. CASE BadCommand
  BY <1>12, <1>6 DEF BadCommand
<1>13. ASSUME NEW ok \in BOOLEAN, CommandEnds(ok) PROVE TypeInv'
  BY <1>13 DEF CommandEnds, deviceVars
<1>14. CASE UNCHANGED vars
  BY <1>14 DEF vars
<1>. QED
  BY <1>1, <1>3, <1>4, <1>5, <1>7, <1>8, <1>9, <1>10, <1>11, <1>12, <1>13, <1>14
  DEF Next, Setup, Finished

\* Every reachable state is well typed, whatever data the host announces and whatever
\* commands the device sends.
THEOREM InterpreterTypeCorrect == Spec => []TypeOK
<1>1. TypeInv => TypeOK
  BY DEF TypeInv
<1>. QED BY <1>1, TypeInitial, TypeInductive, PTL DEF Spec

\* No reply of the interpreter is longer than the 255 bytes an APDU can carry, for
\* preimages of any length and proofs of any depth.
THEOREM EveryReplyFits == Spec => []ReplyFits
<1>1. TypeInv => ReplyFits
  BY DEF TypeInv
<1>. QED BY <1>1, TypeInitial, TypeInductive, PTL DEF Spec

-----------------------------------------------------------------------------
(* What the device collects.                                               *)

\* An answer and its parts: the first ones and the rest make the whole.
LEMMA PartsMakeContent ==
  ASSUME NEW q \in Questions, NEW n \in Nat, n <= Size(q)
  PROVE  Part(q, 1, n) \o Part(q, n + 1, Size(q) - n) = Content(q)
<1>. DEFINE a == Part(q, 1, n)
            b == Part(q, n + 1, Size(q) - n)
<1>1. Size(q) \in Nat
  BY SizeType
<1>2. /\ a \in Seq(Elements) /\ Len(a) = n
      /\ \A k \in 1..n : a[k] = Element(q, k)
  <2>0. 1 \in Nat \ {0}
    OBVIOUS
  <2>1. /\ a \in Seq(Elements) /\ Len(a) = n
        /\ \A k \in 1..n : a[k] = Element(q, 1 + k - 1)
    BY <2>0, PartType, Zenon
  <2>2. \A k \in 1..n : 1 + k - 1 = k
    OBVIOUS
  <2>. QED BY <2>1, <2>2
<1>3. /\ b \in Seq(Elements) /\ Len(b) = Size(q) - n
      /\ \A k \in 1..(Size(q) - n) : b[k] = Element(q, n + k)
  <2>1. n + 1 \in Nat \ {0} /\ Size(q) - n \in Nat
    BY <1>1
  <2>2. /\ b \in Seq(Elements) /\ Len(b) = Size(q) - n
        /\ \A k \in 1..(Size(q) - n) : b[k] = Element(q, (n + 1) + k - 1)
    BY <2>1, PartType
  <2>3. \A k \in 1..(Size(q) - n) : (n + 1) + k - 1 = n + k
    BY <1>1
  <2>. QED BY <2>2, <2>3
<1>. HIDE DEF a, b
<1>4. /\ a \o b \in Seq(Elements) /\ Len(a \o b) = Len(a) + Len(b)
      /\ \A k \in 1..(Len(a) + Len(b)) :
           (a \o b)[k] = IF k <= Len(a) THEN a[k] ELSE b[k - Len(a)]
  BY <1>2, <1>3, ConcatProperties, Zenon
<1>0. Len(a) + Len(b) = Size(q)
  BY <1>1, <1>2, <1>3
<1>5. \A k \in 1..Size(q) : (a \o b)[k] = Element(q, k)
  <2>. TAKE k \in 1..Size(q)
  <2>1. (a \o b)[k] = IF k <= n THEN a[k] ELSE b[k - n]
    BY <1>0, <1>2, <1>4
  <2>2. CASE k <= n
    BY <2>1, <2>2, <1>2
  <2>3. CASE ~(k <= n)
    BY <2>1, <2>3, <1>1, <1>3
  <2>. QED BY <2>2, <2>3
<1>6. DOMAIN (a \o b) = 1..Size(q) /\ a \o b = [k \in DOMAIN (a \o b) |-> (a \o b)[k]]
  <2>1. DOMAIN (a \o b) = 1..Len(a \o b) /\ a \o b \in [1..Len(a \o b) -> Elements]
    BY <1>4, LenProperties, Zenon
  <2>. QED BY <1>0, <1>4, <2>1, Zenon
<1>7. a \o b = [k \in 1..Size(q) |-> Element(q, k)]
  BY <1>5, <1>6, Zenon
<1>. QED BY <1>7 DEF a, b, Content

\* A device collects a Merkle proof from a queue that was empty, and what it has and what
\* is queued make up what it asked for.
CollectInv == /\ TypeInv
              /\ CollectedIsAsked
              /\ asked.kind = "proof" => clean

\* Nothing is asked and nothing is collected at first.
LEMMA CollectInitial == Init => CollectInv
BY TypeInitial DEF Init, CollectInv, CollectedIsAsked, Nothing

\* Taking elements from the front of the queue moves the border between the parts.
LEMMA MoveToGot ==
  ASSUME NEW g \in Seq(Elements), NEW r \in Seq(Elements), NEW n \in 1..Len(r)
  PROVE  (g \o SubSeq(r, 1, n)) \o SubSeq(r, n + 1, Len(r)) = g \o r
<1>. DEFINE x == SubSeq(r, 1, n)
            y == SubSeq(r, n + 1, Len(r))
<1>1. x \o y = r
  <2>1. x \o y = SubSeq(r, 1, Len(r))
    BY ConcatAdjacentSubSeq
  <2>2. SubSeq(r, 1, Len(r)) = r
    BY SubSeqFull
  <2>. QED BY <2>1, <2>2, Zenon
<1>2. x \in Seq(Elements) /\ y \in Seq(Elements)
  BY SubSeqProperties
<1>. HIDE DEF x, y
<1>3. (g \o x) \o y = g \o (x \o y)
  BY <1>2, ConcatAssociative, SMTT(40)
<1>4. (g \o x) \o y = g \o r
  BY <1>1, <1>3, Zenon
<1>. QED BY <1>4 DEF x, y

\* The first reply leaves the rest of the answer in a queue that was empty.
LEMMA FirstReply ==
  ASSUME TypeOK, NEW q \in Questions, NEW n \in Nat, n <= Size(q),
         Collect(q, n), queue' = queue \o Part(q, n + 1, Size(q) - n)
  PROVE  CollectedIsAsked'
<1>1. CASE queue = << >>
  <2>1. Size(q) \in Nat
    BY SizeType
  <2>2. queue' = Part(q, n + 1, Size(q) - n)
    <3>1. Part(q, n + 1, Size(q) - n) \in Seq(Elements)
      BY <2>1, PartType
    <3>. QED BY <1>1, <3>1, ConcatEmptySeq
  <2>3. got' \o queue' = Content(q)
    BY <2>2, PartsMakeContent DEF Collect
  <2>. QED BY <2>3 DEF Collect, CollectedIsAsked, Content, Size
<1>2. CASE queue # << >>
  BY <1>2 DEF Collect, CollectedIsAsked
<1>. QED BY <1>1, <1>2

\* Every step keeps the collected and the queued part in line with the question.
LEMMA CollectInductive ==
  ASSUME CollectInv, [Next]_vars
  PROVE  CollectInv'
<1>. USE DEF CollectInv
<1>0. TypeInv' /\ TypeOK
  BY TypeInductive DEF TypeInv
<1>1. ASSUME UNCHANGED <<queue, deviceVars>> PROVE CollectInv'
  BY <1>0, <1>1 DEF deviceVars, CollectedIsAsked, Content, Size
<1>2. ASSUME Raise PROVE CollectInv'
  BY <1>1, <1>2 DEF Raise
<1>3. ASSUME NEW h \in Hashes, GetPreimage(h) PROVE CollectInv'
  <2>1. CASE Raise
    BY <2>1, <1>2
  <2>2. CASE h \in known_preimages
    <3>. DEFINE size == Lesser(MaxPayload(h), PreimageLen[h])
                q == Preimage(h)
    <3>1. queue' = queue \o PreimageRest(h, size) /\ Collect(q, size)
      BY <1>3, <2>2 DEF GetPreimage
    <3>2. size \in Nat /\ size <= PreimageLen[h]
      BY PayloadFits
    <3>3. q \in Questions /\ q.kind = "preimage" /\ Size(q) = PreimageLen[h]
      BY PreimageQuestion
    <3>4. queue' = queue \o Part(q, size + 1, Size(q) - size)
      BY <3>1, <3>3 DEF PreimageRest
    <3>. HIDE DEF size, q
    <3>5. CollectedIsAsked'
      BY <1>0, <3>1, <3>2, <3>3, <3>4, FirstReply
    <3>6. asked'.kind = "preimage"
      BY <3>1, <3>3 DEF Collect
    <3>. QED BY <1>0, <3>5, <3>6
  <2>. QED BY <2>1, <2>2, <1>3 DEF GetPreimage
<1>4. ASSUME NEW t \in Trees, NEW i \in Indices, NEW size, GetMerkleLeafProof(t, size, i)
      PROVE  CollectInv'
  <2>1. CASE Raise
    BY <2>1, <1>2
  <2>2. CASE t \in known_trees /\ ~NoSuchLeaf(t, size, i) /\ ~QueueBusy
    <3>. DEFINE q == Proof(t, i)
                n == ProofElements(Size(q))
    <3>1. queue' = queue \o Leftover(q, n) /\ Collect(q, n)
      BY <1>4, <2>2 DEF GetMerkleLeafProof
    <3>2. InTree(t, i)
      BY <2>2, TreeAssumption, IndexAssumption DEF NoSuchLeaf, InTree
    <3>3. q \in Questions /\ Size(q) \in Nat
      BY <3>2, ProofQuestion, SizeType
    <3>4. n \in Nat /\ n <= Size(q)
      BY <3>3, ProofElementsFit
    <3>. HIDE DEF q, n
    <3>5. CollectedIsAsked'
      BY <1>0, <3>1, <3>3, <3>4, FirstReply DEF Leftover
    <3>6. clean'
      BY <2>2, <3>1 DEF Collect, QueueBusy
    <3>. QED BY <1>0, <3>5, <3>6
  <2>. QED BY <2>1, <2>2, <1>4 DEF GetMerkleLeafProof
<1>5. CASE GetMoreElements
  <2>1. CASE Raise
    BY <2>1, <1>2
  <2>2. CASE queue # << >> /\ ~Mixed
    <3>. DEFINE n == Popped(ElementLen(queue[1]))
    <3>1. /\ got' = got \o SubSeq(queue, 1, n)
          /\ queue' = SubSeq(queue, n + 1, Len(queue))
          /\ UNCHANGED <<asked, clean>>
      BY <1>5, <2>2 DEF GetMoreElements
    <3>2. n \in 1..Len(queue)
      BY <1>0, <2>2, PoppedFits DEF TypeOK
    <3>. HIDE DEF n
    <3>3. got' \o queue' = got \o queue
      BY <1>0, <3>1, <3>2, MoveToGot DEF TypeOK
    <3>. QED BY <1>0, <3>1, <3>3 DEF CollectedIsAsked, Content, Size
  <2>. QED BY <2>1, <2>2, <1>5 DEF GetMoreElements
<1>6. CASE Setup
  BY <1>1, <1>6 DEF Setup, add_known_preimage, add_known_list, add_known_mapping, SendCommand
<1>7. ASSUME NEW t \in Trees, NEW h \in Hashes, GetMerkleLeafIndex(t, h) PROVE CollectInv'
  BY <1>1, <1>2, <1>7 DEF GetMerkleLeafIndex
<1>8. ASSUME NEW len \in YieldLens, Yield(len) PROVE CollectInv'
  BY <1>1, <1>8 DEF Yield
<1>9. CASE BadCommand
  BY <1>2, <1>9 DEF BadCommand
<1>10. ASSUME NEW ok \in BOOLEAN, CommandEnds(ok) PROVE CollectInv'
  BY <1>1, <1>10 DEF CommandEnds
<1>11. CASE UNCHANGED vars
  BY <1>1, <1>11 DEF vars, deviceVars
<1>. QED
  BY <1>3, <1>4, <1>5, <1>6, <1>7, <1>8, <1>9, <1>10, <1>11 DEF Next, Finished

\* A device whose question met an empty queue collects the answer to that question: what
\* it has and what is still queued make up the answer, in whatever pieces it comes.
THEOREM CollectedIsAlwaysAsked == Spec => []CollectedIsAsked
<1>1. CollectInv => CollectedIsAsked
  BY DEF CollectInv
<1>. QED BY <1>1, CollectInitial, CollectInductive, PTL DEF Spec

\* A Merkle proof is never mixed with anything else, even for a device that drops
\* questions half way.
THEOREM ProofsAreNeverMixed == Spec => []ProofsNeverMixed
<1>1. CollectInv => ProofsNeverMixed
  <2>. SUFFICES ASSUME CollectInv, asked.kind = "proof", NEW n \in DOMAIN got
                PROVE  got[n].q = asked
    BY DEF ProofsNeverMixed
  <2>1. asked # Nothing /\ asked \in Questions /\ got \in Seq(Elements) /\ queue \in Seq(Elements)
    BY DEF CollectInv, TypeInv, TypeOK, Nothing
  <2>2. got \o queue = Content(asked)
    BY <2>1 DEF CollectInv, CollectedIsAsked
  <2>3. n \in 1..Len(got) /\ (got \o queue)[n] = got[n] /\ Len(got \o queue) = Len(got) + Len(queue)
    BY <2>1, ConcatProperties
  <2>4. Len(Content(asked)) = Size(asked) /\ Size(asked) \in Nat
    BY <2>1, SizeType DEF Content
  <2>5. n \in 1..Size(asked)
    BY <2>1, <2>2, <2>3, <2>4
  <2>6. Content(asked)[n] = Element(asked, n)
    BY <2>5 DEF Content
  <2>. QED BY <2>2, <2>3, <2>6 DEF Element
<1>. QED BY <1>1, CollectInitial, CollectInductive, PTL DEF Spec

-----------------------------------------------------------------------------
(* The data the host announces is closed under what a device can ask.      *)

\* Every leaf of an announced tree has a preimage the host can hand out.
THEOREM LeavesAreKnown == Spec => []LeavesKnown
<1>1. Init => LeavesKnown
  BY DEF Init, LeavesKnown
<1>2. ASSUME LeavesKnown, [Next]_vars PROVE LeavesKnown'
  <2>. USE DEF LeavesKnown, LeafSet
  <2>1. ASSUME NEW h \in Hashes, add_known_preimage(h) PROVE LeavesKnown'
    BY <1>2, <2>1 DEF add_known_preimage
  <2>2. ASSUME NEW t \in Trees, add_known_list(t) PROVE LeavesKnown'
    BY <1>2, <2>2 DEF add_known_list
  <2>3. ASSUME NEW k \in Trees, NEW v \in Trees, add_known_mapping(k, v) PROVE LeavesKnown'
    BY <1>2, <2>3 DEF add_known_mapping
  <2>4. ASSUME UNCHANGED <<known_preimages, known_trees>> PROVE LeavesKnown'
    BY <1>2, <2>4
  <2>5. CASE SendCommand \/ BadCommand \/ GetMoreElements \/ UNCHANGED vars
    BY <2>4, <2>5 DEF SendCommand, BadCommand, GetMoreElements, Raise, vars
  <2>6. ASSUME NEW h \in Hashes, GetPreimage(h) PROVE LeavesKnown'
    BY <2>4, <2>6 DEF GetPreimage, Raise
  <2>7. ASSUME NEW t \in Trees, NEW i \in Indices, NEW size, GetMerkleLeafProof(t, size, i)
        PROVE  LeavesKnown'
    BY <2>4, <2>7 DEF GetMerkleLeafProof, Raise
  <2>8. ASSUME NEW t \in Trees, NEW h \in Hashes, GetMerkleLeafIndex(t, h) PROVE LeavesKnown'
    BY <2>4, <2>8 DEF GetMerkleLeafIndex, Raise
  <2>9. ASSUME NEW len \in YieldLens, Yield(len) PROVE LeavesKnown'
    BY <2>4, <2>9 DEF Yield
  <2>10. ASSUME NEW ok \in BOOLEAN, CommandEnds(ok) PROVE LeavesKnown'
    BY <2>4, <2>10 DEF CommandEnds
  <2>. QED
    BY <1>2, <2>1, <2>2, <2>3, <2>5, <2>6, <2>7, <2>8, <2>9, <2>10 DEF Next, Setup, Finished
<1>. QED BY <1>1, <1>2, PTL DEF Spec

-----------------------------------------------------------------------------
(* The refinement of LedgerOracle.                                         *)

Question == IF clean THEN asked ELSE Nothing
Answered == IF clean /\ asked # Nothing /\ queue = << >> THEN got ELSE NoAnswer

\* With nothing left in the queue the device holds the whole answer.
LEMMA WholeAnswer ==
  ASSUME NEW g \in Seq(Elements), NEW r, r = << >>
  PROVE  g \o r = g
BY ConcatEmptySeq, Zenon

\* A question that is asked is Ask for the oracle, or Drop if the queue was not empty.
LEMMA AskStep ==
  ASSUME CollectInv', NEW q \in Questions, NEW n, Collect(q, n)
  PROVE  Oracle!Next
<1>1. asked' = q /\ q # Nothing
  BY QuestionKind DEF Collect
<1>2. CASE clean'
  <2>1. Question' = q
    BY <1>1, <1>2 DEF Question
  <2>2. CASE queue' = << >>
    <3>1. got' = Content(q)
      <4>1. got' \in Seq(Elements)
        BY DEF CollectInv, TypeInv, TypeOK, Elements, Questions, InTree, Preimage, Proof
      <4>2. got' \o queue' = Content(q)
        BY <1>1, <1>2 DEF CollectInv, CollectedIsAsked, Content, Size
      <4>. QED BY <1>1, <2>2, <4>1, <4>2, WholeAnswer, Zenon
    <3>2. Answered' = Content(q)
      BY <1>1, <1>2, <2>2, <3>1 DEF Answered
    <3>. QED BY <2>1, <3>2 DEF Oracle!Next, Oracle!Ask, Question, Answered
  <2>3. CASE queue' # << >>
    <3>1. Answered' = NoAnswer
      BY <2>3 DEF Answered
    <3>. QED BY <2>1, <3>1 DEF Oracle!Next, Oracle!Ask, Question, Answered
  <2>. QED BY <2>2, <2>3
<1>3. CASE ~clean'
  BY <1>3 DEF Oracle!Next, Oracle!Drop, Nothing
<1>. QED BY <1>2, <1>3

\* The pieces that come with GET_MORE_ELEMENTS are stutters until the last one arrives.
LEMMA MoreStep ==
  ASSUME CollectInv, CollectInv', queue # << >>, UNCHANGED <<asked, clean>>
  PROVE  [Oracle!Next]_<<Question, Answered>>
<1>1. Question' = Question /\ Answered = NoAnswer
  BY DEF Question, Answered
<1>2. CASE Answered' = NoAnswer
  BY <1>1, <1>2
<1>3. CASE Answered' # NoAnswer
  <2>1. clean /\ asked # Nothing /\ queue' = << >> /\ Answered' = got'
    BY <1>3 DEF Answered
  <2>2. got' \in Seq(Elements)
    BY DEF CollectInv, TypeInv, TypeOK, Elements, Questions, InTree, Preimage, Proof
  <2>3. got' \o queue' = Content(asked)
    BY <2>1 DEF CollectInv, CollectedIsAsked, Content, Size
  <2>4. got' = Content(asked)
    BY <2>1, <2>2, <2>3, WholeAnswer, Zenon
  <2>5. Oracle!Answer
    BY <1>1, <2>1, <2>4 DEF Oracle!Answer, Question, Answered
  <2>. QED BY <2>5 DEF Oracle!Next
<1>. QED BY <1>2, <1>3

\* Every step of the interpreter is a step of the oracle, or none.
LEMMA StepRefines ==
  ASSUME CollectInv, CollectInv', [Next]_vars
  PROVE  [Oracle!Next]_<<Question, Answered>>
<1>1. ASSUME UNCHANGED <<queue, deviceVars>> PROVE UNCHANGED <<Question, Answered>>
  BY <1>1 DEF deviceVars, Question, Answered
<1>2. ASSUME Raise PROVE UNCHANGED <<Question, Answered>>
  BY <1>1, <1>2 DEF Raise
<1>3. ASSUME NEW h \in Hashes, GetPreimage(h) PROVE Oracle!Next \/ UNCHANGED <<Question, Answered>>
  <2>1. CASE Raise
    BY <2>1, <1>2
  <2>2. CASE h \in known_preimages
    <3>1. Collect(Preimage(h), Lesser(MaxPayload(h), PreimageLen[h]))
      BY <1>3, <2>2 DEF GetPreimage
    <3>. QED BY <3>1, PreimageQuestion, AskStep
  <2>. QED BY <2>1, <2>2, <1>3 DEF GetPreimage
<1>4. ASSUME NEW t \in Trees, NEW i \in Indices, NEW size, GetMerkleLeafProof(t, size, i)
      PROVE  Oracle!Next \/ UNCHANGED <<Question, Answered>>
  <2>1. CASE Raise
    BY <2>1, <1>2
  <2>2. CASE t \in known_trees /\ ~NoSuchLeaf(t, size, i) /\ ~QueueBusy
    <3>1. Collect(Proof(t, i), ProofElements(Size(Proof(t, i))))
      BY <1>4, <2>2 DEF GetMerkleLeafProof
    <3>2. InTree(t, i)
      BY <2>2, TreeAssumption, IndexAssumption DEF NoSuchLeaf, InTree
    <3>. QED BY <3>1, <3>2, ProofQuestion, AskStep
  <2>. QED BY <2>1, <2>2, <1>4 DEF GetMerkleLeafProof
<1>5. CASE GetMoreElements
  <2>1. CASE Raise
    BY <2>1, <1>2
  <2>2. CASE queue # << >> /\ ~Mixed
    <3>1. UNCHANGED <<asked, clean>>
      BY <1>5, <2>2 DEF GetMoreElements
    <3>. QED BY <2>2, <3>1, MoreStep
  <2>. QED BY <2>1, <2>2, <1>5 DEF GetMoreElements
<1>6. CASE Setup
  BY <1>1, <1>6 DEF Setup, add_known_preimage, add_known_list, add_known_mapping, SendCommand
<1>7. ASSUME NEW t \in Trees, NEW h \in Hashes, GetMerkleLeafIndex(t, h)
      PROVE  UNCHANGED <<Question, Answered>>
  BY <1>1, <1>2, <1>7 DEF GetMerkleLeafIndex
<1>8. ASSUME NEW len \in YieldLens, Yield(len) PROVE UNCHANGED <<Question, Answered>>
  BY <1>1, <1>8 DEF Yield
<1>9. CASE BadCommand
  BY <1>2, <1>9 DEF BadCommand
<1>10. ASSUME NEW ok \in BOOLEAN, CommandEnds(ok) PROVE UNCHANGED <<Question, Answered>>
  BY <1>1, <1>10 DEF CommandEnds
<1>11. CASE UNCHANGED vars
  BY <1>1, <1>11 DEF vars, deviceVars
<1>. QED
  BY <1>3, <1>4, <1>5, <1>6, <1>7, <1>8, <1>9, <1>10, <1>11 DEF Next, Finished

\* The exchange in pieces implements the oracle: a question is answered with its own
\* content or not at all, for data of any size.
THEOREM ImplementsOracle == Spec => AnswersWhatIsAsked
<1>1. Init => Oracle!Init
  BY DEF Init, Oracle!Init, Nothing
<1>2. CollectInv /\ CollectInv' /\ [Next]_vars => [Oracle!Next]_<<Question, Answered>>
  BY StepRefines
<1>3. Spec => []CollectInv
  BY CollectInitial, CollectInductive, PTL DEF Spec
<1>. QED BY <1>1, <1>2, <1>3, PTL DEF Spec, AnswersWhatIsAsked, Oracle!Spec, Question, Answered
=============================================================================
