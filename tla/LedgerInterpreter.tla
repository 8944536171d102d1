------------------------- MODULE LedgerInterpreter --------------------------
(***************************************************************************)
(* ClientCommandInterpreter and the loop NewClient._make_request around    *)
(* it.  A Ledger runs a command on data of which it only knows hashes and  *)
(* Merkle roots.  It interrupts the command to ask the host for a preimage *)
(* or for a leaf with its Merkle proof.  A reply has at most 255 bytes;    *)
(* what does not fit waits in a queue for GET_MORE_ELEMENTS.               *)
(*                                                                         *)
(* Each action is one round of the loop: the command the device chose, the *)
(* whole handler, and what the device (external) keeps of the reply.  The  *)
(* device may leave a collection unfinished and ask for something else.    *)
(*                                                                         *)
(* Bytes and hashes are abstracted to elements: the n-th element of a      *)
(* question's answer.                                                      *)
(***************************************************************************)
EXTENDS Integers, Sequences

CONSTANTS
    Hashes,          \* hashes the device may name
    PreimageLen,     \* length in bytes of the preimage of each hash
    Trees,           \* Merkle roots the device may name
    LeavesOf,        \* leaf hashes of each tree, a sequence
    ProofLen(_, _),  \* ProofLen(size, i): length of the Merkle proof of leaf i
    Indices,         \* leaf indices the device may name, counted from 0
    YieldLens,       \* lengths of yielded results
    MaxYields,       \* bound on the number of results
    MaxQuestions     \* bound on the number of questions the device asks

ASSUME PreimageAssumption == PreimageLen \in [Hashes -> Nat]
ASSUME TreeAssumption == LeavesOf \in [Trees -> Seq(Hashes)]
ASSUME IndexAssumption == Indices \subseteq Nat /\ YieldLens \subseteq Nat
ASSUME BoundAssumption == MaxYields \in Nat /\ MaxQuestions \in Nat
ASSUME ProofAssumption ==
    \A t \in Trees : \A i \in 0..(Len(LeavesOf[t]) - 1) : ProofLen(Len(LeavesOf[t]), i) \in Nat

VARIABLES
    phase,            \* "setup", "exchange", "returned" or "failed"
    known_preimages,  \* keys of the dictionary of that name
    known_trees,      \* likewise
    queue,            \* elements that did not fit into a reply
    yielded,          \* lengths of the results of the device
    reply_size,       \* length of the last reply
    asked,            \* device: the question whose answer is being collected
    got,              \* device: the elements collected so far
    clean,            \* history: the queue was empty when the question was asked
    questions         \* history: the number of questions answered

deviceVars == <<asked, got, clean, questions>>
vars == <<phase, known_preimages, known_trees, queue, yielded, reply_size, asked, got, clean,
          questions>>

HashLen  == 32
MsgLen   == 255      \* the data of an APDU
MoreLen  == 253      \* what a GET_MORE_ELEMENTS reply has left for elements

Preimage(h) == [kind |-> "preimage", of |-> h, index |-> 0]
Proof(t, i) == [kind |-> "proof", of |-> t, index |-> i]
Nothing     == [kind |-> "nothing", of |-> "nothing", index |-> 0]
NoAnswer    == <<Nothing>>

InTree(t, i) == i \in 0..(Len(LeavesOf[t]) - 1)

Questions == {Preimage(h) : h \in Hashes} \cup
             UNION {{Proof(t, i) : i \in {j \in Indices : InTree(t, j)}} : t \in Trees}

\* Number of elements of an answer: single bytes, or hashes.
Size(q) == IF q.kind = "preimage" THEN PreimageLen[q.of]
                                  ELSE ProofLen(Len(LeavesOf[q.of]), q.index)

Element(q, n) == [q |-> q, at |-> n]
Elements      == [q : Questions, at : Nat]
ElementLen(e) == IF e.q.kind = "preimage" THEN 1 ELSE HashLen
Content(q)    == [n \in 1..Size(q) |-> Element(q, n)]

\* A part of an answer, from its position `from` on.
Part(q, from, count) == [n \in 1..count |-> Element(q, from + n - 1)]

Lesser(a, b) == IF a <= b THEN a ELSE b

\* Length of ser_compact_size(n).
VarintLen(n) == IF n < 253 THEN 1 ELSE IF n < 65536 THEN 3
                ELSE IF n \div 65536 < 65536 THEN 5 ELSE 9

-----------------------------------------------------------------------------
(* Before the command is sent, the client makes its data known.            *)

Init ==
    /\ phase = "setup"
    /\ known_preimages = {} /\ known_trees = {}
    /\ queue = << >> /\ yielded = << >> /\ reply_size = 0
    /\ asked = Nothing /\ got = << >> /\ clean = TRUE /\ questions = 0

add_known_preimage(h) ==
    /\ phase = "setup"
    /\ known_preimages' = known_preimages \cup {h}
    /\ UNCHANGED <<phase, known_trees, queue, yielded, reply_size, deviceVars>>

\* A leaf of the tree is the hash of its element, and so the key of its preimage.
LeafSet(t) == {LeavesOf[t][n] : n \in 1..Len(LeavesOf[t])}

add_known_list_TreeOnly(t) ==
    /\ phase = "setup"
    /\ known_trees' = known_trees \cup {t}
    /\ UNCHANGED <<phase, known_preimages, queue, yielded, reply_size, deviceVars>>
add_known_list(t) ==
    /\ phase = "setup"
    /\ known_preimages' = known_preimages \cup LeafSet(t)
    /\ known_trees' = known_trees \cup {t}
    /\ UNCHANGED <<phase, queue, yielded, reply_size, deviceVars>>

\* The trees of the keys and of the values of a mapping.
add_known_mapping(k, v) ==
    /\ phase = "setup"
    /\ Len(LeavesOf[k]) = Len(LeavesOf[v])
    /\ known_preimages' = known_preimages \cup LeafSet(k) \cup LeafSet(v)
    /\ known_trees' = known_trees \cup {k, v}
    /\ UNCHANGED <<phase, queue, yielded, reply_size, deviceVars>>

\* _make_request sends the command; a client method sends it once.
SendCommand ==
    /\ phase = "setup"
    /\ phase' = "exchange"
    /\ UNCHANGED <<known_preimages, known_trees, queue, yielded, reply_size, deviceVars>>

-----------------------------------------------------------------------------
(* The rounds of the exchange.                                             *)

\* An exception of the handler leaves the loop; the device is not answered.
Raise == /\ phase' = "failed"
         /\ UNCHANGED <<known_preimages, known_trees, queue, yielded, reply_size, deviceVars>>

\* The device starts to collect the answer to q, with its first elements in hand.
Collect(q, count) ==
    /\ asked' = q
    /\ got' = Part(q, 1, count)
    /\ clean' = (queue = << >>)
    /\ questions' = questions + 1

\* What fits beside the length of the preimage and the length of the payload.
MaxPayload_CountForgotten(h) == MsgLen - VarintLen(PreimageLen[h])
MaxPayload(h) == MsgLen - VarintLen(PreimageLen[h]) - 1

\* The rest of the preimage, byte by byte.
PreimageRest_LastByteTwice(h, size) == Part(Preimage(h), size, PreimageLen[h] - size)
PreimageRest(h, size) == Part(Preimage(h), size + 1, PreimageLen[h] - size)

GetPreimage(h) ==
    /\ phase = "exchange" /\ questions < MaxQuestions
    /\ IF h \notin known_preimages THEN Raise
       ELSE LET len  == PreimageLen[h]
                size == Lesser(MaxPayload(h), len)
            IN  /\ queue' = queue \o PreimageRest(h, size)
                /\ reply_size' = VarintLen(len) + 1 + size
                /\ Collect(Preimage(h), size)
                /\ UNCHANGED <<phase, known_preimages, known_trees, yielded>>

\* Hashes that fit beside the leaf and two counts.
ProofElements(n) == Lesser((MsgLen - HashLen - 1 - 1) \div HashLen, n)

\* The part of the proof that is queued: proof[-n_leftover_elements:].
Leftover_FromSecond(q, n) == Part(q, 2, Size(q) - n)
Leftover(q, n) == Part(q, n + 1, Size(q) - n)

NoSuchLeaf_IndexIsSize(t, size, i) == i > size \/ Len(LeavesOf[t]) # size
NoSuchLeaf(t, size, i) == i >= size \/ Len(LeavesOf[t]) # size

QueueBusy_Ignored == FALSE
QueueBusy == queue # << >>

GetMerkleLeafProof(t, size, i) ==
    /\ phase = "exchange" /\ questions < MaxQuestions
    /\ IF t \notin known_trees \/ NoSuchLeaf(t, size, i) \/ QueueBusy
       THEN Raise
       ELSE LET q == Proof(t, i)
                n == ProofElements(Size(q))
            IN  /\ queue' = queue \o Leftover(q, n)
                /\ reply_size' = HashLen + 1 + 1 + n * HashLen
                /\ Collect(q, n)
                /\ UNCHANGED <<phase, known_preimages, known_trees, yielded>>

\* found and leaf_index: the queue is left alone, and so is the collection.
GetMerkleLeafIndex(t, h) ==
    /\ phase = "exchange"
    /\ IF t \notin known_trees THEN Raise
       ELSE LET at == {n \in 0..(Len(LeavesOf[t]) - 1) : LeavesOf[t][n + 1] = h}
                leaf_index == IF at = {} THEN 0
                              ELSE CHOOSE n \in at : \A m \in at : n <= m
            IN  /\ reply_size' = 1 + VarintLen(leaf_index)
                /\ UNCHANGED <<phase, known_preimages, known_trees, queue, yielded, deviceVars>>

\* How many elements of length len the loop of GET_MORE_ELEMENTS pops.
Popped_FullMessagesOnly(len) ==
    IF Len(queue) >= MoreLen \div len THEN MoreLen \div len ELSE 0
Popped(len) == Lesser(Len(queue), MoreLen \div len)

Mixed == \E n \in 1..Len(queue) : ElementLen(queue[n]) # ElementLen(queue[1])

GetMoreElements ==
    /\ phase = "exchange"
    /\ IF queue = << >> \/ Mixed THEN Raise
       ELSE LET n == Popped(ElementLen(queue[1]))
            IN  /\ got' = got \o SubSeq(queue, 1, n)
                /\ queue' = SubSeq(queue, n + 1, Len(queue))
                /\ reply_size' = 1 + 1 + n * ElementLen(queue[1])
                /\ UNCHANGED <<phase, known_preimages, known_trees, yielded, asked, clean, questions>>

Yield(len) ==
    /\ phase = "exchange"
    /\ Len(yielded) < MaxYields
    /\ yielded' = Append(yielded, len)
    /\ reply_size' = 0
    /\ UNCHANGED <<phase, known_preimages, known_trees, queue, deviceVars>>

\* An empty response, an unknown command code or a malformed request.
BadCommand == phase = "exchange" /\ Raise

\* The status word ends the loop: an error, or success with results of the expected form.
CommandEnds(ok) ==
    /\ phase = "exchange"
    /\ phase' = IF ok /\ \A n \in 1..Len(yielded) : yielded[n] > 1
                THEN "returned" ELSE "failed"
    /\ UNCHANGED <<known_preimages, known_trees, queue, yielded, reply_size, deviceVars>>

Finished == phase \in {"returned", "failed"} /\ UNCHANGED vars

Setup == \/ \E h \in Hashes : add_known_preimage(h)
         \/ \E t \in Trees : add_known_list(t)
         \/ \E k, v \in Trees : add_known_mapping(k, v)
         \/ SendCommand

Next == \/ Setup
        \/ \E h \in Hashes : GetPreimage(h)
        \/ \E t \in Trees, i \in Indices :
              \E size \in Indices \cup {Len(LeavesOf[t])} : GetMerkleLeafProof(t, size, i)
        \/ \E t \in Trees, h \in Hashes : GetMerkleLeafIndex(t, h)
        \/ GetMoreElements
        \/ \E len \in YieldLens : Yield(len)
        \/ BadCommand
        \/ \E ok \in BOOLEAN : CommandEnds(ok)
        \/ Finished

Spec == Init /\ [][Next]_vars

Collecting == phase = "exchange" /\ asked # Nothing /\ Len(got) < Size(asked)

\* Fairness: a device that still waits for elements goes on asking for them, however
\* often it asks for something else in between.  The host always answers.
FairSpec == Spec /\ SF_vars(Collecting /\ GetMoreElements)

-----------------------------------------------------------------------------
(* Properties.                                                             *)

TypeOK ==
    /\ phase \in {"setup", "exchange", "returned", "failed"}
    /\ known_preimages \subseteq Hashes
    /\ known_trees \subseteq Trees
    /\ queue \in Seq(Elements)
    /\ yielded \in Seq(YieldLens)
    /\ reply_size \in Nat
    /\ asked \in Questions \cup {Nothing}
    /\ got \in Seq(Elements)
    /\ clean \in BOOLEAN
    /\ questions \in 0..MaxQuestions

\* Every reply, and so the data of every CONTINUE command, fits the one length byte of an
\* APDU, whatever the lengths of preimages and proofs.
ReplyFits == reply_size <= MsgLen

\* What the device has collected, followed by what is queued, is the answer to its
\* question, if nothing was left in the queue when it asked.
CollectedIsAsked ==
    clean /\ asked # Nothing => got \o queue = Content(asked)

\* A Merkle proof is never mixed with what is left of an answer the device dropped: the
\* handler refuses to start.  (GET_PREIMAGE has no such check.)
ProofsNeverMixed ==
    asked.kind = "proof" => \A n \in DOMAIN got : got[n].q = asked

\* Whatever a device finds by descending from a tree the host has announced, the host can
\* hand out.
LeavesKnown == \A t \in known_trees : LeafSet(t) \subseteq known_preimages

\* Seen from a device that does not drop questions, the host answers each question with
\* the data asked for: the exchange in pieces implements LedgerOracle.
Oracle == INSTANCE LedgerOracle WITH
    question <- IF clean THEN asked ELSE Nothing,
    answer <- IF clean /\ asked # Nothing /\ queue = << >> THEN got ELSE NoAnswer
AnswersWhatIsAsked == Oracle!Spec

\* A collection ends: each GET_MORE_ELEMENTS brings at least one element, so a device that
\* keeps asking has all of them in the end, or the exchange is over.
CollectionEnds == <>[]~Collecting
=============================================================================
