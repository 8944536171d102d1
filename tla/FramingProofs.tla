--------------------------- MODULE FramingProofs ---------------------------
(***************************************************************************)
(* Proofs about Framing: whatever the size of a report, of a request and   *)
(* of an answer, and however many calls are made, an answer that a call    *)
(* returns is whole, and the framings implement the link of Exchange.      *)
(***************************************************************************)
EXTENDS Framing, FiniteSetTheorems, SequenceTheorems, TLAPS

----------------------------------------------------------------------------
(* Cutting a message                                                       *)

\* What the division that counts the frames does.
LEMMA Quotient ==
    ASSUME NEW a \in Nat, NEW b \in Nat, b > 0
    PROVE  /\ a \div b \in Nat
           /\ b * (a \div b) <= a
           /\ a < b * (a \div b) + b
  OBVIOUS

\* Products of counts and sizes.
LEMMA Times ==
    ASSUME NEW a \in Nat, NEW b \in Nat, a > 0
    PROVE  /\ a * b \in Nat
           /\ b <= a * b
           /\ a * b = (a - 1) * b + b
           /\ a * b = b * a
  OBVIOUS

\* Every frame has room for a byte, in each of the protocols.
LEMMA Rooms ==
    ASSUME link \in Links
    PROVE  FirstRoom \in Nat \ {0} /\ NextRoom \in Nat \ {0}
  BY FramingAssumption DEF Links, Trezor, FirstRoom, NextRoom

\* A frame begins where the one before it ends.
LEMMA Starts ==
    ASSUME link \in Links, NEW j \in Nat \ {0}
    PROVE  /\ Start(j) \in Nat
           /\ Room(j) \in Nat \ {0}
           /\ Start(j + 1) = Start(j) + Room(j)
<1>1. FirstRoom \in Nat \ {0} /\ NextRoom \in Nat \ {0}
  BY Rooms
<1>2. CASE j = 1
  BY <1>1, <1>2 DEF Start, Room
<1>3. CASE j > 1
  <2>1. /\ (j - 1) * NextRoom \in Nat
        /\ (j - 1) * NextRoom = ((j - 1) - 1) * NextRoom + NextRoom
    BY <1>1, <1>3, Times
  <2>2. (j - 2) * NextRoom \in Nat
    BY <1>1, <1>3
  <2> QED BY <1>1, <1>3, <2>1, <2>2 DEF Start, Room
<1> QED BY <1>2, <1>3

\* A frame begins behind all the frames before it.
LEMMA StartsGrow ==
    ASSUME link \in Links, NEW i \in Nat \ {0}, NEW j \in Nat \ {0}, i < j
    PROVE  Start(i) + Room(i) <= Start(j)
<1>1. FirstRoom \in Nat \ {0} /\ NextRoom \in Nat \ {0}
  BY Rooms
<1>2. (j - 2) * NextRoom \in Nat
  BY <1>1
<1>3. Start(i + 1) = Start(i) + Room(i)
  BY Starts
<1>4. Start(i + 1) = FirstRoom + (i - 1) * NextRoom
  BY DEF Start
<1>5. Start(j) = FirstRoom + (j - 2) * NextRoom
  BY DEF Start
<1>6. (i - 1) * NextRoom <= (j - 2) * NextRoom
  <2>1. ((j - 2) - (i - 1)) * NextRoom \in Nat
    BY <1>1
  <2>2. (j - 2) * NextRoom = (i - 1) * NextRoom + ((j - 2) - (i - 1)) * NextRoom
    BY <1>1
  <2>3. (i - 1) * NextRoom \in Nat
    BY <1>1
  <2> QED BY <2>1, <2>2, <2>3
<1>7. (i - 1) * NextRoom \in Nat
  BY <1>1
<1> QED BY <1>1, <1>2, <1>3, <1>4, <1>5, <1>6, <1>7

\* The frames that are counted hold the message, and the last one is needed.
LEMMA Counts ==
    ASSUME link \in Links, NEW n \in Nat
    PROVE  /\ Count(n) \in Nat \ {0}
           /\ n <= Start(Count(n)) + Room(Count(n))
           /\ n > 0 => Start(Count(n)) < n
           /\ n = 0 => Count(n) = 1
<1>1. FirstRoom \in Nat \ {0} /\ NextRoom \in Nat \ {0}
  BY Rooms
<1>2. CASE n <= FirstRoom
  BY <1>1, <1>2 DEF Count, Start, Room
<1>3. CASE n > FirstRoom
  <2> DEFINE a == n - FirstRoom + NextRoom - 1
             d == a \div NextRoom
  <2>1. a \in Nat /\ a >= NextRoom
    BY <1>1, <1>3
  <2>2. /\ d \in Nat
        /\ NextRoom * d <= a
        /\ a < NextRoom * d + NextRoom
    <3> HIDE DEF a
    <3> QED BY <1>1, <2>1, Quotient
  <2>3. Count(n) = 1 + d
    BY <1>1, <1>3 DEF Count
  <2>4. d > 0
    <3>1. d = 0 => NextRoom * d = 0
      BY <1>1
    <3> HIDE DEF d, a
    <3> QED BY <1>1, <2>1, <2>2, <3>1
  <2> HIDE DEF d
  <2>5. /\ d * NextRoom \in Nat
        /\ d * NextRoom = (d - 1) * NextRoom + NextRoom
        /\ d * NextRoom = NextRoom * d
    BY <1>1, <2>2, <2>4, Times
  <2>6. (d - 1) * NextRoom \in Nat
    BY <1>1, <2>2, <2>4
  <2>7. Start(1 + d) = FirstRoom + (d - 1) * NextRoom /\ Room(1 + d) = NextRoom
    BY <2>2, <2>4 DEF Start, Room
  <2>8. d * NextRoom <= a /\ a < d * NextRoom + NextRoom
    BY <2>2, <2>5
  <2>9. Start(1 + d) < n /\ n <= Start(1 + d) + Room(1 + d)
    BY <1>1, <1>3, <2>5, <2>6, <2>7, <2>8
  <2> QED BY <1>1, <1>3, <2>2, <2>3, <2>4, <2>9
<1> QED BY <1>1, <1>2, <1>3

\* Where the frames of a message of n bytes lie.
LEMMA Places ==
    ASSUME link \in Links, NEW n \in Nat, NEW j \in 1..Count(n)
    PROVE  /\ Count(n) \in Nat \ {0}
           /\ Start(j) \in Nat
           /\ Room(j) \in Nat \ {0}
           /\ Start(j + 1) = Start(j) + Room(j)
           /\ n > 0 => Start(j) < n
           /\ Start(j) <= n
           /\ j < Count(n) => Start(j) + Room(j) < n
           /\ j = Count(n) => n <= Start(j) + Room(j)
<1>1. /\ Count(n) \in Nat \ {0}
      /\ n <= Start(Count(n)) + Room(Count(n))
      /\ n > 0 => Start(Count(n)) < n
      /\ n = 0 => Count(n) = 1
  BY Counts
<1>2. j \in Nat \ {0} /\ j <= Count(n)
  BY <1>1
<1>3. Start(j) \in Nat /\ Room(j) \in Nat \ {0} /\ Start(j + 1) = Start(j) + Room(j)
  BY <1>2, Starts
<1>4. Start(Count(n)) \in Nat
  BY <1>1, Starts
<1>5. j < Count(n) => Start(j) + Room(j) <= Start(Count(n))
  BY <1>1, <1>2, StartsGrow
<1>6. n = 0 => Start(j) = 0
  BY <1>1, <1>2 DEF Start
<1>7. j = Count(n) => n <= Start(j) + Room(j)
  BY <1>1
<1>8. n > 0 => Start(j) < n
  BY <1>1, <1>2, <1>3, <1>4, <1>5
<1>9. j < Count(n) => Start(j) + Room(j) < n
  BY <1>1, <1>2, <1>3, <1>4, <1>5
<1> QED BY <1>1, <1>3, <1>6, <1>7, <1>8, <1>9

----------------------------------------------------------------------------
(* What the frames hold                                                    *)

\* Functions on an initial piece of the numbers are sequences.
LEMMA Sequence ==
    ASSUME NEW S, NEW n \in Nat, NEW s \in [1..n -> S]
    PROVE  s \in Seq(S) /\ Len(s) = n
  OBVIOUS

Cell == {"q", "a", "pad"} \X Nat \X Nat

\* The payload of a frame: filled up to the end of the report, or not.
Body(m, j) == IF link \in {"ledger", "ckcc"} THEN Exact(m, j) ELSE Padded(m, j)

\* The first n cells of a message.
Begins(buf, m, n) ==
    /\ buf \in Seq(Cell)
    /\ Len(buf) = n
    /\ \A i \in 1..n : buf[i] = m[i]

\* What the payload of the j-th frame is.
Holds(b, m, j) ==
    /\ b \in Seq(Cell)
    /\ j < Count(Len(m)) => Len(b) = Room(j)
    /\ j = Count(Len(m)) => Len(b) >= Len(m) - Start(j)
    /\ \A i \in 1..Len(b) : b[i] = IF Start(j) + i <= Len(m) THEN m[Start(j) + i] ELSE Pad
    /\ link \in {"ledger", "ckcc"} => Start(j) + Len(b) <= Len(m)

\* The j-th frame holds what of the message lies behind the frames before it.
LEMMA Bodies ==
    ASSUME link \in Links, NEW m \in Seq(Cell), NEW j \in 1..Count(Len(m))
    PROVE  Holds(Body(m, j), m, j)
<1> DEFINE n == Len(m)
<1>1. n \in Nat
  OBVIOUS
<1>2. /\ Count(n) \in Nat \ {0}
      /\ Start(j) \in Nat
      /\ Room(j) \in Nat \ {0}
      /\ n > 0 => Start(j) < n
      /\ Start(j) <= n
      /\ j < Count(n) => Start(j) + Room(j) < n
      /\ j = Count(n) => n <= Start(j) + Room(j)
  BY <1>1, Places
<1>3. j \in Nat /\ j <= Count(n)
  BY <1>2
<1>4. CASE link \in {"ledger", "ckcc"}
  <2> DEFINE e == Least(Start(j) + Room(j), n)
             b == SubSeq(m, Start(j) + 1, e)
  <2>1. /\ e \in Nat
        /\ e <= n
        /\ e >= Start(j)
        /\ j < Count(n) => e = Start(j) + Room(j)
        /\ j = Count(n) => e = n
    BY <1>1, <1>2, <1>3 DEF Least
  <2> HIDE DEF e
  <2>2. /\ b \in Seq(Cell)
        /\ Len(b) = e - Start(j)
        /\ \A i \in 1..Len(b) : b[i] = m[Start(j) + i]
    <3>1. Start(j) + 1 \in Int /\ e \in Int /\ \A i \in (Start(j) + 1)..e : m[i] \in Cell
      BY <1>1, <1>2, <2>1
    <3>2. /\ b \in Seq(Cell)
          /\ Len(b) = IF Start(j) + 1 <= e THEN e - (Start(j) + 1) + 1 ELSE 0
          /\ \A i \in 1..(e - (Start(j) + 1) + 1) : b[i] = m[Start(j) + 1 + i - 1]
      BY <3>1, SubSeqProperties
    <3> HIDE DEF b
    <3>3. Len(b) = e - Start(j) /\ e - (Start(j) + 1) + 1 = e - Start(j)
      <4>1. Start(j) \in Nat /\ e \in Nat /\ e >= Start(j)
        BY <1>2, <2>1
      <4>2. Len(b) = IF Start(j) + 1 <= e THEN e - (Start(j) + 1) + 1 ELSE 0
        BY <3>2
      <4> QED BY <4>1, <4>2
    <3>4. \A i \in 1..Len(b) : Start(j) + 1 + i - 1 = Start(j) + i
      BY <1>2, <2>1, <3>3
    <3> QED BY <3>2, <3>3, <3>4
  <2>3. Body(m, j) = b
    BY <1>4 DEF Body, Exact, e
  <2>4. Holds(b, m, j)
    <3> HIDE DEF b
    <3>1. \A i \in 1..Len(b) : Start(j) + i <= n
      BY <1>1, <1>2, <2>1, <2>2
    <3> QED BY <1>1, <1>2, <2>1, <2>2, <3>1 DEF Holds
  <2> QED BY <2>3, <2>4
<1>5. CASE link \notin {"ledger", "ckcc"}
  <2> DEFINE b == Padded(m, j)
  <2>1. \A i \in 1..Room(j) : Start(j) + i <= n => m[Start(j) + i] \in Cell
    BY <1>1, <1>2
  <2>5. Pad \in Cell
    BY DEF Pad, Cell
  <2>2. /\ b \in Seq(Cell)
        /\ Len(b) = Room(j)
        /\ \A i \in 1..Room(j) : b[i] = IF Start(j) + i <= n THEN m[Start(j) + i] ELSE Pad
    <3>1. b \in [1..Room(j) -> Cell]
      BY <1>2, <2>1, <2>5 DEF Padded
    <3>2. \A i \in 1..Room(j) : b[i] = IF Start(j) + i <= n THEN m[Start(j) + i] ELSE Pad
      BY DEF Padded
    <3> HIDE DEF b
    <3> QED BY <1>2, <3>1, <3>2, Sequence
  <2>3. Body(m, j) = b
    BY <1>5 DEF Body
  <2>4. Holds(b, m, j)
    <3> HIDE DEF b
    <3> QED BY <1>1, <1>2, <1>5, <2>2 DEF Holds
  <2> QED BY <2>3, <2>4
<1> QED BY <1>4, <1>5

\* A frame read behind the ones before it: the reader has all of the message
\* exactly when the frame is the last one.
LEMMA Joins ==
    ASSUME link \in Links, NEW m \in Seq(Cell), NEW j \in 1..Count(Len(m)),
           NEW buf, Begins(buf, m, Start(j)), NEW b, Holds(b, m, j)
    PROVE  /\ buf \o b \in Seq(Cell)
           /\ Len(buf \o b) >= Len(m) <=> j = Count(Len(m))
           /\ j < Count(Len(m)) => Begins(buf \o b, m, Start(j + 1))
           /\ j = Count(Len(m)) => SubSeq(buf \o b, 1, Len(m)) = m
           /\ j = Count(Len(m)) /\ link = "ckcc" => buf \o b = m
           /\ \A i \in 1..Len(buf \o b) : (buf \o b)[i] = IF i <= Len(m) THEN m[i] ELSE Pad
<1> DEFINE n == Len(m)
           all == buf \o b
<1>1. n \in Nat
  OBVIOUS
<1>2. /\ Count(n) \in Nat \ {0}
      /\ Start(j) \in Nat
      /\ Room(j) \in Nat \ {0}
      /\ Start(j + 1) = Start(j) + Room(j)
      /\ Start(j) <= n
      /\ j < Count(n) => Start(j) + Room(j) < n
      /\ j = Count(n) => n <= Start(j) + Room(j)
  BY <1>1, Places
<1>3. j \in Nat /\ j <= Count(n)
  BY <1>2
<1>4. buf \in Seq(Cell) /\ Len(buf) = Start(j) /\ \A i \in 1..Start(j) : buf[i] = m[i]
  BY DEF Begins
<1>5. /\ b \in Seq(Cell)
      /\ j < Count(n) => Len(b) = Room(j)
      /\ j = Count(n) => Len(b) >= n - Start(j)
      /\ \A i \in 1..Len(b) : b[i] = IF Start(j) + i <= n THEN m[Start(j) + i] ELSE Pad
      /\ link \in {"ledger", "ckcc"} => Start(j) + Len(b) <= n
  BY DEF Holds
<1>6. all \in Seq(Cell) /\ Len(all) = Start(j) + Len(b) /\ Len(b) \in Nat
  <2>1. all \in Seq(Cell) /\ Len(all) = Len(buf) + Len(b)
    BY <1>4, <1>5, ConcatProperties
  <2> QED BY <1>4, <1>5, <2>1
<1>7. \A i \in 1..Len(all) : all[i] = IF i <= n THEN m[i] ELSE Pad
  <2> SUFFICES ASSUME NEW i \in 1..Len(all)
               PROVE  all[i] = IF i <= n THEN m[i] ELSE Pad
    OBVIOUS
  <2>0. all[i] = IF i <= Len(buf) THEN buf[i] ELSE b[i - Len(buf)]
    BY <1>4, <1>5, ConcatProperties
  <2>1. CASE i <= Start(j)
    BY <1>1, <1>2, <1>4, <1>6, <2>0, <2>1
  <2>2. CASE i > Start(j)
    <3>1. i - Start(j) \in 1..Len(b) /\ all[i] = b[i - Start(j)]
      BY <1>2, <1>4, <1>5, <1>6, <2>0, <2>2
    <3>2. Start(j) + (i - Start(j)) = i
      BY <1>2, <1>6
    <3> QED BY <1>5, <3>1, <3>2
  <2> QED BY <1>2, <1>6, <2>1, <2>2
<1> HIDE DEF all
<1>8. Len(all) >= n <=> j = Count(n)
  BY <1>1, <1>2, <1>3, <1>5, <1>6
<1>9. ASSUME j < Count(n) PROVE Begins(all, m, Start(j + 1))
  BY <1>1, <1>2, <1>5, <1>6, <1>7, <1>9 DEF Begins
<1>10. ASSUME j = Count(n) PROVE SubSeq(all, 1, n) = m
  <2>1. Len(all) >= n
    BY <1>8, <1>10
  <2>2. /\ SubSeq(all, 1, n) \in Seq(Cell)
        /\ Len(SubSeq(all, 1, n)) = n
        /\ \A i \in 1..n : SubSeq(all, 1, n)[i] = all[i]
    BY <1>1, <1>6, <2>1
  <2>3. \A i \in 1..n : SubSeq(all, 1, n)[i] = m[i]
    BY <1>1, <1>6, <1>7, <2>1, <2>2
  <2> QED BY <2>2, <2>3, SeqEqual
<1>11. ASSUME j = Count(n), link = "ckcc" PROVE all = m
  <2>1. Len(all) = n
    BY <1>1, <1>2, <1>5, <1>6, <1>11
  <2> QED BY <1>6, <1>7, <2>1, SeqEqual
<1> QED BY <1>6, <1>7, <1>8, <1>9, <1>10, <1>11 DEF all

\* Stripping the padding behind a message that has none gives the message.
LEMMA Strips ==
    ASSUME NEW m \in Seq(Cell), \A i \in 1..Len(m) : m[i] # Pad,
           NEW s \in Seq(Cell), Len(s) >= Len(m),
           \A i \in 1..Len(s) : s[i] = IF i <= Len(m) THEN m[i] ELSE Pad
    PROVE  Unpadded(s) = m
<1> DEFINE n == Len(m)
           kept == {i \in DOMAIN s : s[i] # Pad}
<1>1. n \in Nat /\ DOMAIN s = 1..Len(s) /\ Len(s) \in Nat
  OBVIOUS
<1>2. kept = 1..n
  BY <1>1
<1> HIDE DEF kept
<1>3. \A k \in Nat : Cardinality(1..k) = k
  <2> SUFFICES ASSUME NEW k \in Nat PROVE Cardinality(1..k) = k
    OBVIOUS
  <2>1. Cardinality(1..k) = IF 1 > k THEN 0 ELSE k - 1 + 1
    BY FS_Interval
  <2> QED BY <2>1
<1>4. \A k \in 1..n : {i \in kept : i <= k} = 1..k
  BY <1>1, <1>2
<1>5. \A k \in kept : Cardinality({i \in kept : i <= k}) = k
  <2> SUFFICES ASSUME NEW k \in kept PROVE Cardinality({i \in kept : i <= k}) = k
    OBVIOUS
  <2>1. k \in 1..n /\ k \in Nat
    BY <1>1, <1>2
  <2>2. {i \in kept : i <= k} = 1..k
    BY <1>4, <2>1
  <2>3. Cardinality(1..k) = k
    BY <1>3, <2>1
  <2> QED BY <2>2, <2>3
<1>6. Cardinality(kept) = n
  BY <1>1, <1>2, <1>3
<1>7. \A i \in 1..n : (CHOOSE k \in kept : Cardinality({l \in kept : l <= k}) = i) = i
  BY <1>2, <1>5
<1>8. Unpadded(s) = [i \in 1..n |-> s[CHOOSE k \in kept : Cardinality({l \in kept : l <= k}) = i]]
  BY <1>6 DEF Unpadded, kept
<1>9. Unpadded(s) = [i \in 1..n |-> m[i]]
  <2>1. \A i \in 1..n : s[i] = m[i]
    BY <1>1
  <2>2. \A i \in 1..n :
           s[CHOOSE k \in kept : Cardinality({l \in kept : l <= k}) = i] = m[i]
    BY <1>7, <2>1
  <2> QED BY <1>8, <2>2
<1>10. m = [i \in 1..n |-> m[i]]
  OBVIOUS
<1> QED BY <1>9, <1>10

----------------------------------------------------------------------------
(* The frames of a message                                                 *)

Commands == {"HWW", "seq", "ERROR"}

Frame ==
    [of : Nat, nr : Nat, cid : Nat, cmd : Commands, len : Nat, data : Seq(Cell)]
    \cup [of : Nat, nr : Nat, cmd : Commands, len : Nat, data : Seq(Cell)]
    \cup [of : Nat, nr : Nat, seq : Nat, len : Nat, data : Seq(Cell)]
    \cup [of : Nat, nr : Nat, marked : BOOLEAN, len : Nat, data : Seq(Cell)]
    \cup [of : Nat, nr : Nat, last : BOOLEAN, data : Seq(Cell)]

\* The fields of the j-th frame of a message of call k.
Fields(f, k, m, j) ==
    /\ f.of = k /\ f.nr = j
    /\ Holds(f.data, m, j)
    /\ link # "ckcc" => f.len = Len(m)
    /\ link \in {"u2f", "dbb"} => f.cmd = IF j = 1 THEN "HWW" ELSE "seq"
    /\ link = "u2f" => f.cid = k
    /\ link = "ledger" => f.seq = j - 1
    /\ link \in Trezor => f.marked = (j = 1)
    /\ link = "ckcc" => f.last = (j = Count(Len(m)))

\* Each library cuts a message into as many frames as are counted, and each
\* frame has the fields of its place.
LEMMA Cuts ==
    ASSUME link \in Links, NEW k \in Nat, NEW m \in Seq(Cell), Sendable(Len(m))
    PROVE  /\ Frames(k, m) \in Seq(Frame)
           /\ Len(Frames(k, m)) = Count(Len(m))
           /\ \A j \in 1..Count(Len(m)) : Fields(Frames(k, m)[j], k, m, j)
<1> DEFINE c == Count(Len(m))
<1>1. c \in Nat \ {0} /\ Len(m) \in Nat
  BY Counts
<1>2. \A j \in 1..c : Holds(Body(m, j), m, j)
  BY Bodies
<1>3. \A j \in 1..c : Body(m, j) \in Seq(Cell)
  BY <1>2 DEF Holds
<1>4. \A j \in 1..c : j \in Nat /\ j - 1 \in Nat
  BY <1>1
<1> DEFINE g == Frames(k, m)
<1> SUFFICES /\ g \in [1..c -> Frame]
             /\ \A j \in 1..c : Fields(g[j], k, m, j)
  BY <1>1, Sequence
<1> HIDE DEF c
<1>5. CASE link = "u2f"
  <2>1. /\ g = [j \in 1..c |-> [of |-> k, nr |-> j, cid |-> k, cmd |-> IF j = 1 THEN "HWW" ELSE "seq",
                                len |-> Len(m), data |-> Body(m, j)]]
        /\ link \notin Trezor
    BY <1>5 DEF Frames, U2fFrames, Body, c, Trezor
  <2>2. g \in [1..c -> Frame]
    BY <1>1, <1>3, <1>4, <2>1 DEF Frame, Commands
  <2> QED BY <1>2, <1>5, <2>1, <2>2 DEF Fields
<1>6. CASE link = "dbb"
  <2>1. m # << >>
    BY <1>6 DEF Sendable, Trezor
  <2>2. /\ g = [j \in 1..c |-> [of |-> k, nr |-> j, cmd |-> IF j = 1 THEN "HWW" ELSE "seq",
                                len |-> Len(m), data |-> Body(m, j)]]
        /\ link \notin Trezor
    BY <1>6, <2>1 DEF Frames, DbbFrames, Body, c, Trezor
  <2>3. g \in [1..c -> Frame]
    BY <1>1, <1>3, <1>4, <2>2 DEF Frame, Commands
  <2> QED BY <1>2, <1>6, <2>2, <2>3 DEF Fields
<1>7. CASE link = "ledger"
  <2>1. /\ g = [j \in 1..c |-> [of |-> k, nr |-> j, seq |-> j - 1, len |-> Len(m), data |-> Body(m, j)]]
        /\ link \notin Trezor
    BY <1>7 DEF Frames, LedgerFrames, Body, c, Trezor
  <2>2. g \in [1..c -> Frame]
    BY <1>1, <1>3, <1>4, <2>1 DEF Frame
  <2> QED BY <1>2, <1>7, <2>1, <2>2 DEF Fields
<1>8. CASE link = "ckcc"
  <2>1. /\ g = [j \in 1..c |-> [of |-> k, nr |-> j, last |-> j = c, data |-> Body(m, j)]]
        /\ link \notin Trezor
    BY <1>8 DEF Frames, CkccFrames, Body, c, Trezor
  <2>2. g \in [1..c -> Frame]
    BY <1>1, <1>3, <1>4, <2>1 DEF Frame
  <2>3. \A j \in 1..c : g[j].last = (j = Count(Len(m)))
    <3> HIDE DEF g
    <3>1. \A j \in 1..c : g[j].last = (j = c)
      BY <2>1
    <3> QED BY <3>1 DEF c
  <2> QED BY <1>2, <1>8, <2>1, <2>2, <2>3 DEF Fields
<1>9. CASE link \in Trezor
  <2>1. g = [j \in 1..c |-> [of |-> k, nr |-> j, marked |-> j = 1, len |-> Len(m), data |-> Body(m, j)]]
    BY <1>9 DEF Frames, TrezorFrames, Body, c, Trezor
  <2>2. g \in [1..c -> Frame]
    BY <1>1, <1>3, <1>4, <2>1 DEF Frame
  <2>3. link \notin {"u2f", "dbb", "ledger", "ckcc"}
    BY <1>9 DEF Trezor
  <2> QED BY <1>2, <1>9, <2>1, <2>2, <2>3 DEF Fields
<1> QED BY <1>5, <1>6, <1>7, <1>8, <1>9 DEF Links, Trezor

----------------------------------------------------------------------------
(* The inductive invariant                                                 *)

\* Requests ("q") and answers ("a").
Sides == {"q", "a"}
Message(d, k) == [i \in 1..calls[k][d] |-> <<d, k, i>>]

\* A frame of a request or of an answer, and the frame of an error.
Piece(d, f) ==
    /\ f.nr \in 1..Count(calls[f.of][d])
    /\ Fields(f, f.of, Message(d, f.of), f.nr)
Error(f) == link = "u2f" /\ f.cmd = "ERROR" /\ f.nr = 1
Ends(d, f) == f.nr = Count(calls[f.of][d]) \/ Error(f)

\* Frames that follow each other: whole messages in the order of the calls,
\* but for the beginning of the first one, which may have been read before.
Line(d, s) ==
    /\ s \in Seq(Frame)
    /\ \A n \in 1..Len(s) :
         /\ s[n].of \in DOMAIN calls
         /\ Piece(d, s[n]) \/ (d = "a" /\ Error(s[n]))
    /\ \A n \in 1..(Len(s) - 1) :
         IF Ends(d, s[n]) THEN s[n + 1].nr = 1
         ELSE s[n + 1].of = s[n].of /\ s[n + 1].nr = s[n].nr + 1 /\ Piece(d, s[n + 1])
    /\ \A n, l \in 1..Len(s) : n < l =>
         /\ s[n].of <= s[l].of
         /\ Ends(d, s[n]) => s[n].of < s[l].of
    /\ Len(s) > 0 => Ends(d, s[Len(s)])

\* What the host will read next, if it stays or when it comes back.
Stream == IF opened THEN wire \o dev.out ELSE dev.out

Typed ==
    /\ link \in Links
    /\ opened \in BOOLEAN
    /\ calls \in Seq([q : Nat, a : Nat])
    /\ \A k \in DOMAIN calls : Sendable(calls[k].q) /\ Sendable(calls[k].a)
    /\ host \in [pc : {"idle", "first", "more"}, call : Nat, cid : Nat, cmd : Commands,
                 want : Nat, buf : Seq(Cell), timed : BOOLEAN]
    /\ result \in [call : Nat, ok : BOOLEAN, data : Seq(Cell)]
    /\ wire \in Seq(Frame)
    /\ dev \in [in : Seq(Frame), out : Seq(Frame), buf : Seq(Cell), alive : BOOLEAN]
    /\ owed \subseteq DOMAIN calls
    /\ given \subseteq DOMAIN calls
    /\ inStep \in BOOLEAN
    /\ faults \in Nat
    /\ host.pc = "idle" => host = Idle
    /\ host.pc # "idle" => opened /\ host.call = Len(calls) /\ host.call > 0
    /\ host.pc = "first" => host.buf = << >>
    /\ result.ok => result.call \in DOMAIN calls

\* The calls that a line of frames is about.
Ofs(s) == {s[n].of : n \in 1..Len(s)}

\* Answers on their way are earlier than the requests that wait, and all of
\* them are owed or the answer to the call under way.
Lined ==
    /\ Line("a", Stream)
    /\ Line("q", dev.in)
    /\ \A k \in Ofs(Stream), l \in Ofs(dev.in) : k < l
    /\ Ofs(Stream) \cup Ofs(dev.in) \subseteq (owed \cup {host.call}) \ given

\* The device has what comes before the next frame of the request.
Gathered ==
    IF dev.in = << >> THEN dev.buf = << >>
    ELSE Begins(dev.buf, Message("q", dev.in[1].of), Start(dev.in[1].nr))

\* A reader that began with a first frame has what comes before the next
\* frame of the answer.
Reads(f) ==
    /\ Piece("a", f)
    /\ host.want = calls[f.of].a
    /\ Begins(host.buf, Message("a", f.of), Start(f.nr))
    /\ link = "u2f" => host.cid = f.of
Reading ==
    host.pc = "more" /\ link # "ckcc" =>
        \/ link \in {"u2f", "dbb"} /\ host.cmd # "HWW"
        \/ Stream # << >> /\ Reads(Stream[1])

FramingInv == Typed /\ Lined /\ Gathered /\ Reading /\ OwnAnswer

----------------------------------------------------------------------------
(* Lines of frames                                                         *)

\* Requests and answers are sequences of cells without padding.
LEMMA Messages ==
    ASSUME Typed, NEW d \in Sides, NEW k \in DOMAIN calls
    PROVE  /\ k \in Nat /\ k > 0 /\ k <= Len(calls)
           /\ calls[k][d] \in Nat
           /\ Sendable(calls[k][d])
           /\ Message(d, k) \in Seq(Cell)
           /\ Len(Message(d, k)) = calls[k][d]
           /\ \A i \in 1..calls[k][d] : Message(d, k)[i] = <<d, k, i>>
           /\ \A i \in 1..calls[k][d] : Message(d, k)[i] # Pad
<1>1. calls \in Seq([q : Nat, a : Nat]) /\ Sendable(calls[k].q) /\ Sendable(calls[k].a)
  BY DEF Typed
<1>2. k \in Nat /\ k > 0 /\ k <= Len(calls) /\ calls[k] \in [q : Nat, a : Nat]
  <2>1. DOMAIN calls = 1..Len(calls) /\ Len(calls) \in Nat
    BY <1>1
  <2>2. k \in 1..Len(calls)
    BY <2>1
  <2>3. calls[k] \in [q : Nat, a : Nat]
    BY <1>1, <2>2, ElementOfSeq
  <2> QED BY <2>1, <2>2, <2>3
<1>3. calls[k][d] \in Nat /\ Sendable(calls[k][d])
  <2>1. calls[k].q \in Nat /\ calls[k].a \in Nat
    BY <1>2
  <2>2. CASE d = "q"
    BY <1>1, <2>1, <2>2
  <2>3. CASE d = "a"
    BY <1>1, <2>1, <2>3
  <2> QED BY <2>2, <2>3 DEF Sides
<1>4. \A i \in 1..calls[k][d] : <<d, k, i>> \in Cell /\ <<d, k, i>> # Pad
  BY <1>2, <1>3 DEF Cell, Sides, Pad
<1>5. Message(d, k) \in [1..calls[k][d] -> Cell]
  BY <1>4 DEF Message
<1>6. \A i \in 1..calls[k][d] : Message(d, k)[i] = <<d, k, i>>
  BY DEF Message
<1> QED BY <1>2, <1>3, <1>4, <1>5, <1>6, Sequence

\* The names of the model for the two sides.
LEMMA SidesNamed ==
    ASSUME Typed, NEW k \in DOMAIN calls
    PROVE  /\ Message("q", k) = Request(k) /\ calls[k]["q"] = calls[k].q
           /\ Message("a", k) = Answer(k) /\ calls[k]["a"] = calls[k].a
  BY DEF Message, Request, Answer

\* Two answers that are the same are answers to the same call, or empty.
LEMMA AnswersDiffer ==
    ASSUME Typed, NEW k \in DOMAIN calls, NEW l \in DOMAIN calls,
           Answer(k) = Answer(l), Answer(k) # << >>
    PROVE  k = l
<1>1. /\ Answer(k) \in Seq(Cell)
      /\ \A i \in 1..Len(Answer(k)) : Answer(k)[i] = <<"a", k, i>>
  BY Messages, SidesNamed DEF Sides
<1>2. \A i \in 1..Len(Answer(l)) : Answer(l)[i] = <<"a", l, i>>
  BY Messages, SidesNamed DEF Sides
<1>3. 1 \in 1..Len(Answer(k))
  BY <1>1
<1> QED BY <1>1, <1>2, <1>3

\* Calls that were made stay as they are, and so does the protocol.
Persists ==
    /\ link' = link
    /\ DOMAIN calls \subseteq DOMAIN calls'
    /\ \A k \in DOMAIN calls : calls'[k] = calls[k]

\* The cutting depends on the protocol only.
LEMMA SameCutting ==
    ASSUME link' = link
    PROVE  /\ \A n : Count(n)' = Count(n)
           /\ \A j : Start(j)' = Start(j)
           /\ \A n : Sendable(n)' <=> Sendable(n)
           /\ \A f, k, m, j : Fields(f, k, m, j)' <=> Fields(f, k, m, j)
           /\ \A f : Error(f)' <=> Error(f)
<1>1. FirstRoom' = FirstRoom /\ NextRoom' = NextRoom
  BY DEF FirstRoom, NextRoom
<1>2. \A n : Count(n)' = Count(n)
  BY <1>1 DEF Count
<1>3. \A j : Start(j)' = Start(j) /\ Room(j)' = Room(j)
  BY <1>1 DEF Start, Room
<1>4. \A b, m, j : Holds(b, m, j)' <=> Holds(b, m, j)
  BY <1>2, <1>3 DEF Holds
<1>5. \A f, k, m, j : Fields(f, k, m, j)' <=> Fields(f, k, m, j)
  BY <1>2, <1>4 DEF Fields
<1>6. \A n : Sendable(n)' <=> Sendable(n)
  BY DEF Sendable
<1>7. \A f : Error(f)' <=> Error(f)
  BY DEF Error
<1> QED BY <1>2, <1>3, <1>5, <1>6, <1>7

\* A line of frames stays one.
LEMMA LinePersists ==
    ASSUME Persists
    PROVE  /\ \A d, k : k \in DOMAIN calls => Message(d, k)' = Message(d, k)
           /\ \A k : k \in DOMAIN calls => Answer(k)' = Answer(k)
           /\ \A d, f : f.of \in DOMAIN calls =>
                (Piece(d, f)' <=> Piece(d, f)) /\ (Ends(d, f)' <=> Ends(d, f))
           /\ \A d, s : Line(d, s) => Line(d, s)'
<1>1. /\ \A n : Count(n)' = Count(n)
      /\ \A f, k, m, j : Fields(f, k, m, j)' <=> Fields(f, k, m, j)
      /\ \A f : Error(f)' <=> Error(f)
  BY SameCutting DEF Persists
<1>2. \A d, k : k \in DOMAIN calls => Message(d, k)' = Message(d, k)
  BY DEF Persists, Message
<1>3. \A k : k \in DOMAIN calls => Answer(k)' = Answer(k)
  BY DEF Persists, Answer
<1>4. ASSUME NEW d, NEW f, f.of \in DOMAIN calls
      PROVE  (Piece(d, f)' <=> Piece(d, f)) /\ (Ends(d, f)' <=> Ends(d, f))
  <2>1. Message(d, f.of)' = Message(d, f.of) /\ calls'[f.of] = calls[f.of]
    BY <1>2, <1>4 DEF Persists
  <2>2. Piece(d, f)' <=> Piece(d, f)
    BY <1>1, <2>1 DEF Piece
  <2>3. Ends(d, f)' <=> Ends(d, f)
    BY <1>1, <2>1 DEF Ends
  <2> QED BY <2>2, <2>3
<1>5. ASSUME NEW d, NEW s, Line(d, s) PROVE Line(d, s)'
  <2>1. \A n \in 1..Len(s) : s[n].of \in DOMAIN calls
    BY <1>5 DEF Line
  <2>2. \A n \in 1..Len(s) : /\ s[n].of \in DOMAIN calls'
                             /\ Piece(d, s[n])' <=> Piece(d, s[n])
                             /\ Ends(d, s[n])' <=> Ends(d, s[n])
                             /\ Error(s[n])' <=> Error(s[n])
    BY <1>1, <1>4, <2>1 DEF Persists
  <2>3. s \in Seq(Frame)
    BY <1>5 DEF Line
  <2>4. \A n \in 1..(Len(s) - 1) : n \in 1..Len(s) /\ n + 1 \in 1..Len(s)
    BY <2>3
  <2>5. Len(s) > 0 => Len(s) \in 1..Len(s)
    BY <2>3
  <2> QED BY <1>5, <2>2, <2>3, <2>4, <2>5 DEF Line
<1> QED BY <1>2, <1>3, <1>4, <1>5

\* What is left of a line when frames at its front are taken away.
LEMMA LineSuffix ==
    ASSUME NEW d, NEW s, Line(d, s), NEW t \in Seq(Frame), NEW o \in Nat,
           Len(t) + o = Len(s), \A i \in 1..Len(t) : t[i] = s[i + o]
    PROVE  Line(d, t)
<1>1. s \in Seq(Frame) /\ Len(s) \in Nat /\ Len(t) \in Nat
  BY DEF Line
<1>2. \A i \in 1..Len(t) : i + o \in 1..Len(s)
  BY <1>1
<1>3. \A n \in 1..Len(t) :
        /\ t[n].of \in DOMAIN calls
        /\ Piece(d, t[n]) \/ (d = "a" /\ Error(t[n]))
  BY <1>2 DEF Line
<1>4. ASSUME NEW n \in 1..(Len(t) - 1)
      PROVE  IF Ends(d, t[n]) THEN t[n + 1].nr = 1
             ELSE t[n + 1].of = t[n].of /\ t[n + 1].nr = t[n].nr + 1 /\ Piece(d, t[n + 1])
  <2>1. n + o \in 1..(Len(s) - 1) /\ n \in 1..Len(t) /\ n + 1 \in 1..Len(t)
    BY <1>1
  <2>2. t[n] = s[n + o] /\ t[n + 1] = s[(n + o) + 1]
    <3>1. (n + 1) + o = (n + o) + 1
      BY <1>1
    <3> QED BY <2>1, <3>1
  <2>3. IF Ends(d, s[n + o]) THEN s[(n + o) + 1].nr = 1
        ELSE /\ s[(n + o) + 1].of = s[n + o].of
             /\ s[(n + o) + 1].nr = s[n + o].nr + 1
             /\ Piece(d, s[(n + o) + 1])
    BY <2>1 DEF Line
  <2> QED BY <2>2, <2>3
<1>5. ASSUME NEW n \in 1..Len(t), NEW l \in 1..Len(t), n < l
      PROVE  t[n].of <= t[l].of /\ (Ends(d, t[n]) => t[n].of < t[l].of)
  <2>1. n + o \in 1..Len(s) /\ l + o \in 1..Len(s) /\ n + o < l + o
    BY <1>1, <1>2, <1>5
  <2>2. s[n + o].of <= s[l + o].of /\ (Ends(d, s[n + o]) => s[n + o].of < s[l + o].of)
    BY <2>1 DEF Line
  <2> QED BY <2>2
<1>6. ASSUME Len(t) > 0 PROVE Ends(d, t[Len(t)])
  <2>1. Len(t) \in 1..Len(t) /\ Len(s) > 0
    BY <1>1, <1>6
  <2>2. t[Len(t)] = s[Len(s)]
    BY <2>1
  <2> QED BY <2>1, <2>2 DEF Line
<1> QED BY <1>3, <1>4, <1>5, <1>6 DEF Line

\* A line without its first frame, and without the frames that one queue held.
LEMMA LineTail ==
    ASSUME NEW d, NEW s, Line(d, s), s # << >>
    PROVE  Line(d, Tail(s)) /\ Tail(s) \in Seq(Frame) /\ Len(Tail(s)) = Len(s) - 1
           /\ \A i \in 1..Len(Tail(s)) : Tail(s)[i] = s[i + 1]
<1>1. s \in Seq(Frame)
  BY DEF Line
<1>2. /\ Tail(s) \in Seq(Frame)
      /\ Len(Tail(s)) = Len(s) - 1
      /\ \A i \in 1..Len(Tail(s)) : Tail(s)[i] = s[i + 1]
  BY <1>1, HeadTailProperties
<1>3. Len(s) \in Nat /\ Len(Tail(s)) + 1 = Len(s)
  BY <1>1, <1>2
<1>4. Line(d, Tail(s))
  BY <1>2, <1>3, LineSuffix
<1> QED BY <1>2, <1>4

\* A line without the frames of the queue in front.
LEMMA LineBack ==
    ASSUME NEW d, NEW s \in Seq(Frame), NEW t \in Seq(Frame), Line(d, s \o t)
    PROVE  Line(d, t)
<1>1. Len(s) \in Nat /\ Len(t) \in Nat /\ Len(t) + Len(s) = Len(s \o t)
  BY ConcatProperties
<1>2. \A i \in 1..Len(t) : t[i] = (s \o t)[i + Len(s)]
  <2> SUFFICES ASSUME NEW i \in 1..Len(t) PROVE t[i] = (s \o t)[i + Len(s)]
    OBVIOUS
  <2>1. i + Len(s) \in 1..(Len(s) + Len(t)) /\ ~(i + Len(s) <= Len(s))
        /\ (i + Len(s)) - Len(s) = i
    BY <1>1
  <2> QED BY <2>1, ConcatProperties
<1> DEFINE u == s \o t
           o == Len(s)
<1>3. Line(d, u) /\ o \in Nat /\ Len(t) + o = Len(u) /\ \A i \in 1..Len(t) : t[i] = u[i + o]
  BY <1>1, <1>2
<1> HIDE DEF u, o
<1> QED BY <1>3, LineSuffix

\* A later line behind a line.
LEMMA LineJoin ==
    ASSUME Typed, NEW d, NEW s, Line(d, s), NEW t, Line(d, t),
           Len(t) > 0 => t[1].nr = 1,
           \A n \in 1..Len(s), l \in 1..Len(t) : s[n].of < t[l].of
    PROVE  Line(d, s \o t)
<1> DEFINE u == s \o t
<1>1. s \in Seq(Frame) /\ t \in Seq(Frame) /\ Len(s) \in Nat /\ Len(t) \in Nat
  BY DEF Line
<1>2. /\ u \in Seq(Frame)
      /\ Len(u) = Len(s) + Len(t)
      /\ \A i \in 1..Len(u) : u[i] = IF i <= Len(s) THEN s[i] ELSE t[i - Len(s)]
  BY <1>1, ConcatProperties
<1> HIDE DEF u
<1>3. \A i \in 1..Len(u) : i > Len(s) => i - Len(s) \in 1..Len(t) /\ u[i] = t[i - Len(s)]
  BY <1>1, <1>2
<1>4. \A i \in 1..Len(u) : i <= Len(s) => i \in 1..Len(s) /\ u[i] = s[i]
  BY <1>1, <1>2
<1>5. ASSUME NEW n \in 1..Len(u)
      PROVE  u[n].of \in DOMAIN calls /\ (Piece(d, u[n]) \/ (d = "a" /\ Error(u[n])))
  <2>1. CASE n <= Len(s)
    BY <1>4, <2>1 DEF Line
  <2>2. CASE n > Len(s)
    BY <1>3, <2>2 DEF Line
  <2> QED BY <1>1, <1>2, <2>1, <2>2
<1>6. ASSUME NEW n \in 1..(Len(u) - 1)
      PROVE  IF Ends(d, u[n]) THEN u[n + 1].nr = 1
             ELSE u[n + 1].of = u[n].of /\ u[n + 1].nr = u[n].nr + 1 /\ Piece(d, u[n + 1])
  <2>1. n \in 1..Len(u) /\ n + 1 \in 1..Len(u) /\ n \in Nat
    BY <1>1, <1>2
  <2>2. CASE n < Len(s)
    <3>1. n \in 1..(Len(s) - 1) /\ n <= Len(s) /\ n + 1 <= Len(s)
      BY <1>1, <2>1, <2>2
    <3>2. u[n] = s[n] /\ u[n + 1] = s[n + 1]
      BY <1>4, <2>1, <3>1
    <3> QED BY <3>1, <3>2 DEF Line
  <2>3. CASE n = Len(s)
    <3>1. u[n] = s[Len(s)] /\ u[n + 1] = t[1] /\ Len(s) > 0 /\ Len(t) > 0
      <4>1. (n + 1) - Len(s) = 1
        BY <1>1, <2>3
      <4> QED BY <1>1, <1>2, <1>3, <1>4, <2>1, <2>3, <4>1
    <3> QED BY <3>1 DEF Line
  <2>4. CASE n > Len(s)
    <3> DEFINE i == n - Len(s)
    <3>1. i \in 1..(Len(t) - 1) /\ u[n] = t[i] /\ u[n + 1] = t[i + 1]
      <4>1. (n + 1) - Len(s) = i + 1
        BY <1>1, <2>1
      <4> QED BY <1>1, <1>2, <1>3, <2>1, <2>4, <4>1
    <3> HIDE DEF i
    <3> QED BY <3>1 DEF Line
  <2> QED BY <1>1, <2>1, <2>2, <2>3, <2>4
<1>7. ASSUME NEW n \in 1..Len(u), NEW l \in 1..Len(u), n < l
      PROVE  u[n].of <= u[l].of /\ (Ends(d, u[n]) => u[n].of < u[l].of)
  <2>1. n \in Nat /\ l \in Nat
    BY <1>1, <1>2
  <2>2. CASE l <= Len(s)
    <3>1. n \in 1..Len(s) /\ l \in 1..Len(s) /\ u[n] = s[n] /\ u[l] = s[l]
      BY <1>1, <1>4, <1>7, <2>1, <2>2
    <3> QED BY <1>7, <3>1 DEF Line
  <2>3. CASE n <= Len(s) /\ l > Len(s)
    <3>1. u[n].of < u[l].of
      BY <1>3, <1>4, <2>3
    <3>2. u[n] \in Frame /\ u[l] \in Frame
      BY <1>2
    <3>3. u[n].of \in Nat /\ u[l].of \in Nat
      BY <3>2 DEF Frame
    <3> QED BY <3>1, <3>3
  <2>4. CASE n > Len(s)
    <3> DEFINE i == n - Len(s)
               j == l - Len(s)
    <3>1. i \in 1..Len(t) /\ j \in 1..Len(t) /\ i < j /\ u[n] = t[i] /\ u[l] = t[j]
      <4>1. l > Len(s) /\ i < j
        BY <1>1, <1>7, <2>1, <2>4
      <4> QED BY <1>3, <2>4, <4>1
    <3> HIDE DEF i, j
    <3> QED BY <3>1 DEF Line
  <2> QED BY <1>1, <2>1, <2>2, <2>3, <2>4
<1>8. ASSUME Len(u) > 0 PROVE Ends(d, u[Len(u)])
  <2>1. CASE Len(t) = 0
    <3>1. u[Len(u)] = s[Len(s)] /\ Len(s) > 0
      BY <1>1, <1>2, <1>4, <1>8, <2>1
    <3> QED BY <3>1 DEF Line
  <2>2. CASE Len(t) > 0
    <3>1. u[Len(u)] = t[Len(t)]
      <4>1. Len(u) - Len(s) = Len(t) /\ Len(u) > Len(s) /\ Len(u) \in 1..Len(u)
        BY <1>1, <1>2, <2>2
      <4> QED BY <1>3, <4>1
    <3> QED BY <2>2, <3>1 DEF Line
  <2> QED BY <1>1, <2>1, <2>2
<1>9. Line(d, u)
  BY <1>2, <1>5, <1>6, <1>7, <1>8 DEF Line
<1> QED BY <1>9 DEF u

\* The frames of one message are a line.
LEMMA LineOfMessage ==
    ASSUME Typed, NEW d \in Sides, NEW k \in DOMAIN calls
    PROVE  /\ Line(d, Frames(k, Message(d, k)))
           /\ Len(Frames(k, Message(d, k))) > 0
           /\ Frames(k, Message(d, k))[1].nr = 1
           /\ \A n \in 1..Len(Frames(k, Message(d, k))) : Frames(k, Message(d, k))[n].of = k
<1> DEFINE m == Message(d, k)
           g == Frames(k, m)
           c == Count(Len(m))
<1>0. link \in Links
  BY DEF Typed
<1>1. /\ k \in Nat /\ m \in Seq(Cell) /\ Len(m) = calls[k][d] /\ Sendable(Len(m))
      /\ link \in Links
  BY <1>0, Messages
<1> HIDE DEF m
<1>2. g \in Seq(Frame) /\ Len(g) = c /\ \A j \in 1..c : Fields(g[j], k, m, j)
  BY <1>1, Cuts
<1>3. c \in Nat \ {0}
  BY <1>1, Counts
<1> HIDE DEF g, c
<1>4. \A j \in 1..c : g[j].of = k /\ g[j].nr = j
  BY <1>2 DEF Fields
<1>5. \A j \in 1..c : Piece(d, g[j])
  BY <1>1, <1>2, <1>4 DEF Piece, m, c
<1>6. \A j \in 1..c : ~Error(g[j])
  BY <1>2 DEF Fields, Error
<1>7. \A j \in 1..c : Ends(d, g[j]) <=> j = c
  BY <1>1, <1>4, <1>6 DEF Ends, c
<1>8. \A n \in 1..(c - 1) : n \in 1..c /\ n + 1 \in 1..c /\ n # c
  BY <1>3
<1>9. \A n, l \in 1..c : n < l => n # c
  BY <1>3
<1>10. \A n \in 1..Len(g) : g[n].of \in DOMAIN calls /\ Piece(d, g[n])
  BY <1>2, <1>4, <1>5
<1>11. \A n \in 1..(Len(g) - 1) :
         IF Ends(d, g[n]) THEN g[n + 1].nr = 1
         ELSE g[n + 1].of = g[n].of /\ g[n + 1].nr = g[n].nr + 1 /\ Piece(d, g[n + 1])
  BY <1>2, <1>4, <1>5, <1>7, <1>8
<1>12. \A n, l \in 1..Len(g) : n < l =>
         g[n].of <= g[l].of /\ (Ends(d, g[n]) => g[n].of < g[l].of)
  BY <1>1, <1>2, <1>4, <1>7, <1>9
<1>13. Len(g) > 0 => Ends(d, g[Len(g)])
  BY <1>2, <1>3, <1>7
<1>14. Line(d, g)
  BY <1>2, <1>10, <1>11, <1>12, <1>13 DEF Line
<1>15. Len(g) > 0 /\ g[1].nr = 1 /\ \A n \in 1..Len(g) : g[n].of = k
  BY <1>2, <1>3, <1>4
<1> QED BY <1>14, <1>15 DEF g, m

\* The frame of an error is a line as well.
LEMMA LineOfError ==
    ASSUME Typed, link = "u2f", NEW k \in DOMAIN calls
    PROVE  Line("a", <<ErrorFrame(k)>>) /\ ErrorFrame(k).nr = 1 /\ ErrorFrame(k).of = k
<1> DEFINE f == ErrorFrame(k)
           s == <<f>>
<1>1. k \in Nat
  BY Messages DEF Sides
<1>2. link \in Links
  BY DEF Typed
<1>3. Padded(<<Pad>>, 1) \in Seq(Cell)
  <2>1. <<Pad>> \in Seq(Cell) /\ Len(<<Pad>>) = 1
    BY DEF Pad, Cell
  <2>2. Room(1) \in Nat
    BY <1>2, Starts
  <2>3. Padded(<<Pad>>, 1) \in [1..Room(1) -> Cell]
    <3>1. \A i \in 1..Room(1) : (IF Start(1) + i <= Len(<<Pad>>) THEN <<Pad>>[Start(1) + i] ELSE Pad) \in Cell
      <4> SUFFICES ASSUME NEW i \in 1..Room(1), Start(1) + i <= 1 PROVE <<Pad>>[Start(1) + i] \in Cell
        BY <2>1 DEF Pad, Cell
      <4>1. Start(1) + i = 1
        BY <2>2 DEF Start
      <4> QED BY <4>1 DEF Pad, Cell
    <3> QED BY <3>1 DEF Padded
  <2> QED BY <2>2, <2>3, Sequence
<1>4. f \in Frame /\ f.of = k /\ f.nr = 1 /\ f.cmd = "ERROR"
  BY <1>1, <1>3 DEF ErrorFrame, Frame, Commands
<1>5. Error(f) /\ Ends("a", f)
  BY <1>4 DEF Error, Ends
<1> HIDE DEF f
<1>6. s \in Seq(Frame) /\ Len(s) = 1 /\ s[1] = f
  BY <1>4
<1> HIDE DEF s
<1>7. Line("a", s)
  <2>1. \A n \in 1..Len(s) : n = 1
    BY <1>6
  <2>2. \A n \in 1..(Len(s) - 1) : FALSE
    BY <1>6
  <2>3. \A n, l \in 1..Len(s) : ~(n < l)
    BY <1>6
  <2> QED BY <1>4, <1>5, <1>6, <2>1, <2>2, <2>3 DEF Line
<1> QED BY <1>4, <1>7 DEF s, f

\* The same facts for the state after a step.
JoinFact ==
    Typed => \A d, s, t :
        /\ Line(d, s) /\ Line(d, t)
        /\ Len(t) > 0 => t[1].nr = 1
        /\ \A n \in 1..Len(s), l \in 1..Len(t) : s[n].of < t[l].of
        => Line(d, s \o t)

\* LineJoin holds in every state, so in the next one.
LEMMA JoinAlways == []JoinFact
<1>1. JoinFact
  BY LineJoin DEF JoinFact
<1> QED BY <1>1, PTL

\* A later line behind a line, after a step.
LEMMA LineJoinNext ==
    ASSUME Typed', NEW d, NEW s, NEW t, Line(d, s)', Line(d, t)',
           Len(t) > 0 => t[1].nr = 1,
           \A n \in 1..Len(s), l \in 1..Len(t) : s[n].of < t[l].of
    PROVE  Line(d, s \o t)'
<1>1. JoinFact'
  BY JoinAlways, PTL
<1> QED BY <1>1 DEF JoinFact

MessageFact ==
    Typed => \A d \in Sides, k \in DOMAIN calls :
        /\ Line(d, Frames(k, Message(d, k)))
        /\ Len(Frames(k, Message(d, k))) > 0
        /\ Frames(k, Message(d, k))[1].nr = 1
        /\ \A n \in 1..Len(Frames(k, Message(d, k))) : Frames(k, Message(d, k))[n].of = k

\* LineOfMessage holds in every state.
LEMMA MessageAlways == []MessageFact
<1>1. MessageFact
  BY LineOfMessage DEF MessageFact
<1> QED BY <1>1, PTL

\* The frames of one message are a line, after a step.
LEMMA LineOfMessageNext ==
    ASSUME Typed', NEW d \in Sides, NEW k \in DOMAIN calls'
    PROVE  /\ Line(d, Frames(k, Message(d, k)))'
           /\ Len(Frames(k, Message(d, k)))' > 0
           /\ (Frames(k, Message(d, k))[1].nr)' = 1
           /\ (\A n \in 1..Len(Frames(k, Message(d, k))) : Frames(k, Message(d, k))[n].of = k)'
<1>1. MessageFact'
  BY MessageAlways, PTL
<1> QED BY <1>1 DEF MessageFact

----------------------------------------------------------------------------
(* The steps outside of the readers                                        *)

\* The calls of the pieces of a line.
LEMMA OfsFacts ==
    /\ Ofs(<< >>) = {}
    /\ \A s \in Seq(Frame), t \in Seq(Frame) : Ofs(s \o t) = Ofs(s) \cup Ofs(t)
    /\ \A s \in Seq(Frame) : s # << >> => Ofs(Tail(s)) \subseteq Ofs(s) /\ s[1].of \in Ofs(s)
    /\ \A d, s : Line(d, s) => Ofs(s) \subseteq DOMAIN calls
<1>1. Ofs(<< >>) = {}
  BY DEF Ofs
<1>2. ASSUME NEW s \in Seq(Frame), NEW t \in Seq(Frame)
      PROVE  Ofs(s \o t) = Ofs(s) \cup Ofs(t)
  <2> DEFINE u == s \o t
  <2>1. /\ Len(u) = Len(s) + Len(t) /\ Len(s) \in Nat /\ Len(t) \in Nat
        /\ \A i \in 1..(Len(s) + Len(t)) : u[i] = IF i <= Len(s) THEN s[i] ELSE t[i - Len(s)]
    BY ConcatProperties
  <2> HIDE DEF u
  <2>2. ASSUME NEW k \in Ofs(u) PROVE k \in Ofs(s) \cup Ofs(t)
    <3>1. PICK i \in 1..Len(u) : k = u[i].of
      BY DEF Ofs
    <3>2. CASE i <= Len(s)
      <4>1. i \in 1..Len(s) /\ u[i] = s[i]
        BY <2>1, <3>2
      <4> QED BY <3>1, <4>1 DEF Ofs
    <3>3. CASE i > Len(s)
      <4>1. i - Len(s) \in 1..Len(t) /\ u[i] = t[i - Len(s)]
        BY <2>1, <3>3
      <4> QED BY <3>1, <4>1 DEF Ofs
    <3> QED BY <2>1, <3>2, <3>3
  <2>3. ASSUME NEW k \in Ofs(s) PROVE k \in Ofs(u)
    <3>1. PICK i \in 1..Len(s) : k = s[i].of
      BY DEF Ofs
    <3>2. i \in 1..Len(u) /\ u[i] = s[i]
      BY <2>1
    <3> QED BY <3>1, <3>2 DEF Ofs
  <2>4. ASSUME NEW k \in Ofs(t) PROVE k \in Ofs(u)
    <3>1. PICK i \in 1..Len(t) : k = t[i].of
      BY DEF Ofs
    <3>2. i + Len(s) \in 1..Len(u) /\ u[i + Len(s)] = t[i]
      <4>1. i + Len(s) \in 1..Len(u) /\ ~(i + Len(s) <= Len(s)) /\ (i + Len(s)) - Len(s) = i
        BY <2>1
      <4> QED BY <2>1, <4>1
    <3> QED BY <3>1, <3>2 DEF Ofs
  <2> QED BY <2>2, <2>3, <2>4 DEF u
<1>3. ASSUME NEW s \in Seq(Frame), s # << >>
      PROVE  Ofs(Tail(s)) \subseteq Ofs(s) /\ s[1].of \in Ofs(s)
  <2>1. /\ Len(Tail(s)) = Len(s) - 1 /\ Len(s) \in Nat /\ Len(s) > 0
        /\ \A i \in 1..Len(Tail(s)) : Tail(s)[i] = s[i + 1]
    BY <1>3, HeadTailProperties
  <2>2. \A i \in 1..Len(Tail(s)) : i + 1 \in 1..Len(s)
    BY <2>1
  <2>3. 1 \in 1..Len(s)
    BY <2>1
  <2> QED BY <2>1, <2>2, <2>3 DEF Ofs
<1>4. \A d, s : Line(d, s) => Ofs(s) \subseteq DOMAIN calls
  BY DEF Line, Ofs
<1> QED BY <1>1, <1>2, <1>3, <1>4

\* The empty line.
LEMMA LineEmpty == \A d : Line(d, << >>)
  BY DEF Line

\* Where a step leaves only calls on their way that were, and forgets none of
\* them, the lines stay in order.
LEMMA LinedShrinks ==
    ASSUME FramingInv, Persists,
           Line("a", Stream'), Line("q", dev'.in),
           Ofs(Stream') \subseteq Ofs(Stream), Ofs(dev'.in) \subseteq Ofs(dev.in),
           \A k \in Ofs(Stream') \cup Ofs(dev'.in) :
               k \in (owed \cup {host.call}) \ given => k \in (owed' \cup {host'.call}) \ given'
    PROVE  Lined'
<1>1. /\ \A k \in Ofs(Stream), l \in Ofs(dev.in) : k < l
      /\ Ofs(Stream) \cup Ofs(dev.in) \subseteq (owed \cup {host.call}) \ given
  BY DEF FramingInv, Lined
<1>2. \A d, s : Line(d, s) => Line(d, s)'
  BY LinePersists
<1>3. Line("a", Stream)' /\ Line("q", dev.in)'
  BY <1>2
<1>4. Ofs(Stream)' = Ofs(Stream') /\ Ofs(dev.in)' = Ofs(dev'.in)
  BY DEF Ofs
<1> QED BY <1>1, <1>3, <1>4 DEF Lined

\* A step that takes nothing from the host's reader keeps what it has read.
LEMMA ReadingKeeps ==
    ASSUME FramingInv, Persists, host' = host,
           Stream # << >> => Stream' # << >> /\ Stream'[1] = Stream[1]
    PROVE  Reading'
<1> SUFFICES ASSUME host.pc = "more", link # "ckcc", Stream # << >>, Reads(Stream[1])
             PROVE  Stream' # << >> /\ Reads(Stream[1])'
  BY DEF FramingInv, Reading, Persists
<1> DEFINE f == Stream[1]
<1>1. f.of \in DOMAIN calls
  <2>1. Line("a", Stream)
    BY DEF FramingInv, Lined
  <2>2. Stream \in Seq(Frame)
    BY <2>1 DEF Line
  <2>3. 1 \in 1..Len(Stream)
    BY <2>2
  <2> QED BY <2>1, <2>3 DEF Line
<1>2. Stream'[1] = f
  OBVIOUS
<1>3. \A g : g.of \in DOMAIN calls /\ Reads(g) => Reads(g)'
  <2> SUFFICES ASSUME NEW g, g.of \in DOMAIN calls, Reads(g) PROVE Reads(g)'
    OBVIOUS
  <2>1. /\ Piece("a", g)' /\ calls'[g.of] = calls[g.of]
        /\ Message("a", g.of)' = Message("a", g.of)
    BY LinePersists DEF Reads, Persists
  <2>2. Start(g.nr)' = Start(g.nr)
    BY SameCutting DEF Persists
  <2>3. Begins(host.buf, Message("a", g.of), Start(g.nr))'
    BY <2>1, <2>2 DEF Reads, Begins
  <2> QED BY <2>1, <2>3 DEF Reads, Persists
<1> QED BY <1>1, <1>2, <1>3

\* What a call has returned stays the answer that it is.
LEMMA OwnAnswerKeeps ==
    ASSUME FramingInv, Persists, result' = result, given \subseteq given'
    PROVE  OwnAnswer'
<1>1. \A k \in DOMAIN calls : Answer(k)' = Answer(k)
  BY LinePersists
<1>2. given \subseteq DOMAIN calls /\ (result.ok => result.call \in DOMAIN calls) /\ OwnAnswer
  BY DEF FramingInv, Typed
<1> QED BY <1>1, <1>2 DEF OwnAnswer, Persists

\* A device that takes nothing keeps what it has collected.
LEMMA GatheredKeeps ==
    ASSUME FramingInv, Persists, dev'.in = dev.in, dev'.buf = dev.buf
    PROVE  Gathered'
<1>1. CASE dev.in = << >>
  BY <1>1 DEF FramingInv, Gathered
<1>2. CASE dev.in # << >>
  <2>1. Line("q", dev.in)
    BY DEF FramingInv, Lined
  <2>2. dev.in \in Seq(Frame)
    BY <2>1 DEF Line
  <2>3. 1 \in 1..Len(dev.in)
    BY <1>2, <2>2
  <2>4. dev.in[1].of \in DOMAIN calls
    BY <2>1, <2>3 DEF Line
  <2>5. Begins(dev.buf, Message("q", dev.in[1].of), Start(dev.in[1].nr))
    BY <1>2 DEF FramingInv, Gathered
  <2>6. \A k \in DOMAIN calls : Message("q", k)' = Message("q", k)
    BY LinePersists
  <2>7. \A j : Start(j)' = Start(j)
    BY SameCutting DEF Persists
  <2> DEFINE f == dev.in[1]
  <2>8. Message("q", f.of)' = Message("q", f.of) /\ Start(f.nr)' = Start(f.nr)
    BY <2>4, <2>6, <2>7
  <2> QED BY <1>2, <2>5, <2>8 DEF Gathered, Begins
<1> QED BY <1>1, <1>2

\* The types of the two queues and of their concatenation.
LEMMA Queues ==
    ASSUME FramingInv
    PROVE  /\ dev.in \in Seq(Frame) /\ dev.out \in Seq(Frame) /\ wire \in Seq(Frame)
           /\ Stream \in Seq(Frame)
           /\ Line("a", Stream) /\ Line("q", dev.in) /\ Line("a", dev.out)
           /\ Ofs(dev.out) \subseteq Ofs(Stream)
           /\ Ofs(Stream) \subseteq DOMAIN calls /\ Ofs(dev.in) \subseteq DOMAIN calls
<1>1. dev.in \in Seq(Frame) /\ dev.out \in Seq(Frame) /\ wire \in Seq(Frame)
  BY DEF FramingInv, Typed
<1>2. Line("a", Stream) /\ Line("q", dev.in)
  BY DEF FramingInv, Lined
<1>3. Stream \in Seq(Frame)
  BY <1>2 DEF Line
<1>4. Line("a", dev.out) /\ Ofs(dev.out) \subseteq Ofs(Stream)
  <2>1. CASE opened
    <3>1. Stream = wire \o dev.out
      BY <2>1 DEF Stream
    <3>2. Line("a", dev.out)
      BY <1>1, <1>2, <3>1, LineBack
    <3> QED BY <1>1, <3>1, <3>2, OfsFacts
  <2>2. CASE ~opened
    BY <1>2, <2>2 DEF Stream
  <2> QED BY <2>1, <2>2
<1>5. Ofs(Stream) \subseteq DOMAIN calls /\ Ofs(dev.in) \subseteq DOMAIN calls
  BY <1>2, OfsFacts
<1> QED BY <1>1, <1>2, <1>3, <1>4, <1>5

\* Calls have numbers from one on.
LEMMA CallNumbers ==
    ASSUME FramingInv
    PROVE  /\ DOMAIN calls = 1..Len(calls) /\ Len(calls) \in Nat
           /\ 0 \notin DOMAIN calls
           /\ host.pc = "idle" <=> host.call = 0
           /\ host.call \in Nat
           /\ host.call # 0 => host.call \in DOMAIN calls
<1>1. DOMAIN calls = 1..Len(calls) /\ Len(calls) \in Nat
  BY DEF FramingInv, Typed
<1>2. 0 \notin DOMAIN calls
  BY <1>1
<1>3. /\ host.pc = "idle" => host = Idle
      /\ host.pc # "idle" => host.call = Len(calls) /\ host.call > 0
      /\ host.call \in Nat
  BY DEF FramingInv, Typed
<1>4. host.pc = "idle" <=> host.call = 0
  BY <1>1, <1>3 DEF Idle
<1> QED BY <1>1, <1>2, <1>3, <1>4

\* Opening: the queue of the handle is lost, and a connection that forgets
\* late answers begins with nothing on its way.
LEMMA OpenStep ==
    ASSUME FramingInv, Open
    PROVE  FramingInv'
<1>1. Typed /\ Lined /\ Gathered
  BY DEF FramingInv
<1>2. host = Idle
  BY <1>1 DEF Typed, Open
<1>3. Persists
  BY DEF Persists, Open
<1>4. Typed'
  <2>1. dev' \in [in : Seq(Frame), out : Seq(Frame), buf : Seq(Cell), alive : BOOLEAN]
    <3>1. dev \in [in : Seq(Frame), out : Seq(Frame), buf : Seq(Cell), alive : BOOLEAN]
      BY <1>1 DEF Typed
    <3>2. << >> \in Seq(Frame) /\ << >> \in Seq(Cell)
      OBVIOUS
    <3>3. [FreshDevice EXCEPT !.alive = dev.alive]
          = [in |-> << >>, out |-> << >>, buf |-> << >>, alive |-> dev.alive]
      BY DEF FreshDevice
    <3>4. dev' = dev \/ dev' = [in |-> << >>, out |-> << >>, buf |-> << >>, alive |-> dev.alive]
      BY <3>3 DEF Open
    <3>5. dev.alive \in BOOLEAN
      BY <3>1
    <3>6. [in |-> << >>, out |-> << >>, buf |-> << >>, alive |-> dev.alive]
          \in [in : Seq(Frame), out : Seq(Frame), buf : Seq(Cell), alive : BOOLEAN]
      BY <3>2, <3>5
    <3> QED BY <3>1, <3>4, <3>6, Zenon
  <2>2. owed' \subseteq DOMAIN calls
    BY <1>1 DEF Typed, Open
  <2>3. \A n : Sendable(n)' <=> Sendable(n)
    BY <1>3, SameCutting DEF Persists
  <2> QED BY <1>1, <1>2, <2>1, <2>2, <2>3 DEF Typed, Open, Idle
<1>5. Stream' = dev'.out
  <2>1. dev'.out \in Seq(Frame)
    BY <1>4 DEF Typed
  <2>2. << >> \o dev'.out = dev'.out
    BY <2>1, ConcatEmptySeq
  <2> QED BY <2>2 DEF Stream, Open
<1>6. Stream = dev.out
  BY DEF Stream, Open
<1>7. CASE ForgetsLate
  <2>1. dev'.in = << >> /\ dev'.out = << >> /\ dev'.buf = << >>
    BY <1>7 DEF Open, FreshDevice
  <2>2. Lined'
    BY <1>3, <1>5, <2>1, LineEmpty, OfsFacts, LinedShrinks
  <2>3. Gathered'
    BY <2>1 DEF Gathered
  <2> QED BY <1>2, <1>3, <1>4, <2>2, <2>3, OwnAnswerKeeps DEF FramingInv, Reading, Idle, Open
<1>8. CASE ~ForgetsLate
  <2>1. dev' = dev /\ owed' = owed /\ host' = host /\ given' = given
    BY <1>8 DEF Open
  <2>2. Stream' = Stream
    BY <1>5, <1>6, <2>1
  <2>3. Lined'
    BY <1>3, <2>1, <2>2, Queues, LinedShrinks
  <2>4. Gathered'
    BY <1>3, <2>1, GatheredKeeps
  <2> QED BY <1>2, <1>3, <1>4, <2>3, <2>4, OwnAnswerKeeps DEF FramingInv, Reading, Idle, Open
<1> QED BY <1>7, <1>8

\* A step that leaves the connection.
LEMMA LeaveStep ==
    ASSUME FramingInv, Close \/ Kill
    PROVE  FramingInv'
<1>1. Typed /\ Lined /\ Gathered
  BY DEF FramingInv
<1>2. /\ opened /\ opened' = FALSE /\ host' = Idle /\ dev' = dev /\ given' = given
      /\ calls' = calls /\ link' = link /\ result' = result /\ wire' = wire /\ inStep' = inStep
      /\ owed' = IF host.pc = "idle" THEN owed ELSE owed \cup {host.call}
      /\ faults' \in Nat
  <2>1. faults \in Nat /\ (host.pc = "idle" => host = Idle)
    BY <1>1 DEF Typed
  <2>2. CASE Close
    BY <2>1, <2>2 DEF Close
  <2>3. CASE Kill
    BY <2>1, <2>3 DEF Kill
  <2> QED BY <2>2, <2>3
<1>3. Persists
  BY <1>2 DEF Persists
<1>4. owed' \subseteq DOMAIN calls
  BY <1>1, <1>2, CallNumbers DEF Typed
<1>5. \A n : Sendable(n)' <=> Sendable(n)
  BY <1>2, SameCutting
<1>6. Typed'
  <2>1. host' \in [pc : {"idle", "first", "more"}, call : Nat, cid : Nat, cmd : Commands,
                   want : Nat, buf : Seq(Cell), timed : BOOLEAN]
    BY <1>2 DEF Idle, Commands
  <2> QED BY <1>1, <1>2, <1>4, <1>5, <2>1 DEF Typed, Idle
<1>7. Stream' = dev.out
  BY <1>2 DEF Stream
<1>8. Lined'
  <2>1. \A k \in DOMAIN calls :
          k \in (owed \cup {host.call}) \ given => k \in (owed' \cup {host'.call}) \ given'
    BY <1>2, CallNumbers
  <2> QED BY <1>2, <1>3, <1>7, <2>1, Queues, LinedShrinks
<1>9. Gathered'
  BY <1>2, <1>3, GatheredKeeps
<1> QED BY <1>2, <1>3, <1>6, <1>8, <1>9, OwnAnswerKeeps DEF FramingInv, Reading, Idle

\* The frames of a message depend on the protocol only.
LEMMA SameFrames ==
    ASSUME link' = link
    PROVE  \A k, m : Frames(k, m)' = Frames(k, m)
<1>1. FirstRoom' = FirstRoom /\ NextRoom' = NextRoom
  BY DEF FirstRoom, NextRoom
<1>2. \A n : Count(n)' = Count(n)
  BY <1>1 DEF Count
<1>3. \A j : Start(j)' = Start(j) /\ Room(j)' = Room(j)
  BY <1>1 DEF Start, Room
<1>4. \A m, j : Padded(m, j)' = Padded(m, j)
  BY <1>3 DEF Padded
<1>5. \A m, j : Exact(m, j)' = Exact(m, j)
  BY <1>3 DEF Exact
<1>6. \A k, m : U2fFrames(k, m)' = U2fFrames(k, m)
  BY <1>2, <1>4 DEF U2fFrames
<1>7. \A k, m : DbbFrames(k, m)' = DbbFrames(k, m)
  BY <1>2, <1>4 DEF DbbFrames
<1>8. \A k, m : LedgerFrames(k, m)' = LedgerFrames(k, m)
  BY <1>2, <1>5 DEF LedgerFrames
<1>9. \A k, m : CkccFrames(k, m)' = CkccFrames(k, m)
  BY <1>2, <1>5 DEF CkccFrames
<1>10. \A k, m : TrezorFrames(k, m)' = TrezorFrames(k, m)
  BY <1>2, <1>4 DEF TrezorFrames
<1> QED BY <1>6, <1>7, <1>8, <1>9, <1>10 DEF Frames

\* Calling: the frames of the request come behind the ones that wait.
LEMMA CallStep ==
    ASSUME FramingInv, NEW q \in Nat, NEW a \in Nat, Call(q, a)
    PROVE  FramingInv'
<1>1. Typed /\ Lined /\ Gathered
  BY DEF FramingInv
<1>2. PICK k : k = Len(calls) + 1
  OBVIOUS
<1>3. /\ opened /\ host.pc = "idle" /\ Sendable(q) /\ Sendable(a)
      /\ calls' = Append(calls, [q |-> q, a |-> a])
      /\ UNCHANGED <<link, opened, result, wire, owed, given, inStep, faults>>
  BY <1>2 DEF Call
<1>20. PICK timed \in BOOLEAN :
         host' = [Idle EXCEPT !.pc = "first", !.call = k, !.cid = k, !.timed = timed]
  BY <1>2 DEF Call, Timed
<1>4. calls \in Seq([q : Nat, a : Nat]) /\ DOMAIN calls = 1..Len(calls) /\ Len(calls) \in Nat
  BY <1>1, CallNumbers DEF Typed
<1>5. /\ calls' \in Seq([q : Nat, a : Nat])
      /\ Len(calls') = k
      /\ DOMAIN calls' = 1..k
      /\ calls'[k] = [q |-> q, a |-> a]
      /\ \A l \in DOMAIN calls : calls'[l] = calls[l]
  <2>1. [q |-> q, a |-> a] \in [q : Nat, a : Nat]
    OBVIOUS
  <2> DEFINE c == [q |-> q, a |-> a]
  <2>2. calls' = Append(calls, c) /\ c \in [q : Nat, a : Nat]
    BY <1>3, <2>1
  <2> HIDE DEF c
  <2>3. /\ Append(calls, c) \in Seq([q : Nat, a : Nat])
        /\ Len(Append(calls, c)) = Len(calls) + 1
        /\ \A i \in 1..(Len(calls) + 1) : Append(calls, c)[i] = IF i <= Len(calls) THEN calls[i] ELSE c
    BY <1>4, <2>2, AppendProperties
  <2>4. calls' \in Seq([q : Nat, a : Nat]) /\ Len(calls') = k /\ DOMAIN calls' = 1..k
    BY <1>2, <2>2, <2>3
  <2>5. calls'[k] = c /\ \A l \in DOMAIN calls : calls'[l] = calls[l]
    BY <1>2, <1>4, <2>2, <2>3
  <2> QED BY <2>4, <2>5 DEF c
<1>6. k \in Nat /\ k > 0 /\ k \in DOMAIN calls' /\ DOMAIN calls' = DOMAIN calls \cup {k}
      /\ \A l \in DOMAIN calls : l < k
  BY <1>2, <1>4, <1>5
<1>7. Persists
  BY <1>3, <1>5, <1>6 DEF Persists
<1>8. PICK m : m = [i \in 1..q |-> <<"q", k, i>>]
  OBVIOUS
<1>9. PICK g : g = Frames(k, m)
  OBVIOUS
<1>10. dev' = [dev EXCEPT !.in = @ \o g]
  BY <1>2, <1>8, <1>9 DEF Call
<1>11. dev'.in = dev.in \o g /\ dev'.out = dev.out /\ dev'.buf = dev.buf /\ dev'.alive = dev.alive
  BY <1>1, <1>10 DEF Typed
<1>12. m \in Seq(Cell) /\ Len(m) = q
  <2>1. m \in [1..q -> Cell]
    BY <1>6, <1>8 DEF Cell
  <2> QED BY <2>1, Sequence
<1>13. g \in Seq(Frame)
  BY <1>1, <1>3, <1>6, <1>9, <1>12, Cuts DEF Typed
<1>14. Typed'
  <2>1. dev' \in [in : Seq(Frame), out : Seq(Frame), buf : Seq(Cell), alive : BOOLEAN]
    <3>1. dev \in [in : Seq(Frame), out : Seq(Frame), buf : Seq(Cell), alive : BOOLEAN]
      BY <1>1 DEF Typed
    <3>2. dev.in \o g \in Seq(Frame)
      BY <1>13, <3>1, ConcatProperties
    <3> QED BY <1>10, <3>1, <3>2
  <2>2. /\ host' \in [pc : {"idle", "first", "more"}, call : Nat, cid : Nat, cmd : Commands,
                      want : Nat, buf : Seq(Cell), timed : BOOLEAN]
        /\ host'.pc = "first" /\ host'.call = k /\ host'.buf = << >>
    <3>1. host' = [pc |-> "first", call |-> k, cid |-> k, cmd |-> "HWW", want |-> 0, buf |-> << >>,
                   timed |-> timed]
      BY <1>20 DEF Idle
    <3> QED BY <1>6, <3>1 DEF Commands
  <2>4. \A l \in DOMAIN calls' : Sendable(calls'[l].q) /\ Sendable(calls'[l].a)
    <3> SUFFICES ASSUME NEW l \in DOMAIN calls' PROVE Sendable(calls'[l].q) /\ Sendable(calls'[l].a)
      OBVIOUS
    <3>1. CASE l = k
      <4>1. calls'[l].q = q /\ calls'[l].a = a
        BY <1>5, <3>1
      <4> QED BY <1>3, <4>1
    <3>2. CASE l \in DOMAIN calls
      <4>1. calls'[l] = calls[l]
        BY <1>5, <3>2
      <4> QED BY <1>1, <3>2, <4>1 DEF Typed
    <3> QED BY <1>6, <3>1, <3>2
  <2>5. (\A l \in DOMAIN calls : Sendable(calls[l].q) /\ Sendable(calls[l].a))'
    BY <1>3, <2>4 DEF Sendable
  <2>6. owed' \subseteq DOMAIN calls' /\ given' \subseteq DOMAIN calls'
        /\ (result'.ok => result'.call \in DOMAIN calls')
    BY <1>1, <1>3, <1>6 DEF Typed
  <2>7. /\ link' \in Links /\ opened' \in BOOLEAN /\ wire' \in Seq(Frame) /\ inStep' \in BOOLEAN
        /\ faults' \in Nat /\ result' \in [call : Nat, ok : BOOLEAN, data : Seq(Cell)]
    BY <1>1, <1>3 DEF Typed
  <2>8. host'.pc # "idle" => opened' /\ host'.call = Len(calls') /\ host'.call > 0
    BY <1>3, <1>5, <1>6, <2>2
  <2>9. calls' \in Seq([q : Nat, a : Nat])
    BY <1>5
  <2> QED BY <2>1, <2>2, <2>5, <2>6, <2>7, <2>8, <2>9 DEF Typed
<1>15. /\ Line("q", g)' /\ Len(g) > 0 /\ g[1].nr = 1 /\ \A n \in 1..Len(g) : g[n].of = k
  <2>1. Message("q", k)' = m
    BY <1>5, <1>8 DEF Message
  <2>2. Frames(k, Message("q", k))' = g
    <3>1. \A l, n : Frames(l, n)' = Frames(l, n)
      BY <1>7, SameFrames DEF Persists
    <3>2. Frames(k, m)' = g
      BY <1>9, <3>1
    <3> QED BY <2>1, <3>2
  <2>3. /\ Line("q", Frames(k, Message("q", k)))'
        /\ Len(Frames(k, Message("q", k)))' > 0
        /\ (Frames(k, Message("q", k))[1].nr)' = 1
        /\ (\A n \in 1..Len(Frames(k, Message("q", k))) : Frames(k, Message("q", k))[n].of = k)'
    BY <1>6, <1>14, LineOfMessageNext DEF Sides
  <2> QED BY <2>2, <2>3
<1>16. Lined'
  <2>1. PICK s : s = dev.in
    OBVIOUS
  <2>2. PICK t : t = Stream
    OBVIOUS
  <2>3. Line("q", s) /\ Line("a", t) /\ s \in Seq(Frame) /\ Ofs(t) \subseteq DOMAIN calls /\ Ofs(s) \subseteq DOMAIN calls
    BY <2>1, <2>2, Queues
  <2>4. Line("q", s)' /\ Line("a", t)'
    BY <1>7, <2>3, LinePersists
  <2>5. Ofs(g) = {k}
    <3>1. 1 \in 1..Len(g)
      BY <1>13, <1>15
    <3> QED BY <1>15, <3>1 DEF Ofs
  <2>6. \A n \in 1..Len(s), l \in 1..Len(g) : s[n].of < g[l].of
    BY <1>6, <1>15, <2>3 DEF Ofs
  <2>7. Line("q", s \o g)'
    BY <1>14, <1>15, <2>4, <2>6, LineJoinNext
  <2>8. dev'.in = s \o g /\ Stream' = t
    BY <1>3, <1>11, <2>1, <2>2 DEF Stream
  <2>9. Ofs(s \o g) = Ofs(s) \cup {k}
    BY <1>13, <2>3, <2>5, OfsFacts
  <2>10. /\ \A l \in Ofs(t), n \in Ofs(s) : l < n
         /\ Ofs(t) \cup Ofs(s) \subseteq (owed \cup {host.call}) \ given
    BY <1>1, <2>1, <2>2 DEF Lined
  <2>11. host.call = 0 /\ 0 \notin DOMAIN calls /\ given \subseteq DOMAIN calls /\ host'.call = k
    BY <1>1, <1>3, <1>20, CallNumbers DEF Typed, Idle
  <2>12. \A l \in Ofs(t), n \in Ofs(s \o g) : l < n
    BY <1>6, <2>3, <2>9, <2>10
  <2>13. k \notin given
    BY <1>6, <2>11
  <2>14. Ofs(t) \cup Ofs(s \o g) \subseteq (owed' \cup {host'.call}) \ given'
    BY <1>3, <2>3, <2>9, <2>10, <2>11, <2>13
  <2>15. Ofs(Stream)' = Ofs(t) /\ Ofs(dev.in)' = Ofs(s \o g)
    BY <2>8 DEF Ofs
  <2>16. Line("a", Stream)' /\ Line("q", dev.in)'
    BY <2>4, <2>7, <2>8
  <2> QED BY <2>12, <2>14, <2>15, <2>16 DEF Lined
<1>17. Gathered'
  <2>1. CASE dev.in = << >>
    <3>1. dev'.in = g
      BY <1>11, <1>13, <2>1, ConcatEmptySeq
    <3>2. dev'.buf = << >>
      BY <1>1, <1>11, <2>1 DEF Gathered
    <3>3. Start(g[1].nr)' = 0
      BY <1>15 DEF Start
    <3>4. \A x : Begins(<< >>, x, 0)
      BY DEF Begins
    <3>5. Begins(dev.buf, Message("q", dev.in[1].of), Start(dev.in[1].nr))'
      BY <3>1, <3>2, <3>3, <3>4
    <3>6. g # << >>
      BY <1>13, <1>15
    <3> QED BY <3>1, <3>5, <3>6 DEF Gathered
  <2>2. CASE dev.in # << >>
    <3>1. PICK f : f = dev.in[1]
      OBVIOUS
    <3>2. dev.in \in Seq(Frame) /\ 1 \in 1..Len(dev.in)
      BY <2>2, Queues
    <3>3. dev'.in # << >> /\ dev'.in[1] = f
      <4>1. /\ Len(dev.in \o g) = Len(dev.in) + Len(g)
            /\ \A i \in 1..(Len(dev.in) + Len(g)) :
                 (dev.in \o g)[i] = IF i <= Len(dev.in) THEN dev.in[i] ELSE g[i - Len(dev.in)]
        BY <1>13, <3>2, ConcatProperties
      <4>2. Len(dev.in) \in Nat /\ Len(g) \in Nat
        BY <1>13, <3>2
      <4>3. 1 \in 1..(Len(dev.in) + Len(g)) /\ 1 <= Len(dev.in)
        BY <3>2, <4>2
      <4>4. (dev.in \o g)[1] = f /\ Len(dev.in \o g) > 0
        BY <3>1, <4>1, <4>2, <4>3
      <4>5. dev.in \o g # << >>
        BY <4>4
      <4> QED BY <1>11, <4>4, <4>5
    <3>4. f.of \in DOMAIN calls /\ Begins(dev.buf, Message("q", f.of), Start(f.nr))
      BY <1>1, <2>2, <3>1, <3>2, Queues DEF Gathered, Line
    <3>5. Message("q", f.of)' = Message("q", f.of) /\ Start(f.nr)' = Start(f.nr)
      BY <1>7, <3>4, LinePersists, SameCutting DEF Persists
    <3>6. Begins(dev.buf, Message("q", f.of), Start(f.nr))'
      BY <1>11, <3>4, <3>5 DEF Begins
    <3> QED BY <3>3, <3>6 DEF Gathered
  <2> QED BY <2>1, <2>2
<1>18. OwnAnswer'
  BY <1>3, <1>7, OwnAnswerKeeps
<1>19. Reading'
  BY <1>20 DEF Reading, Idle
<1> QED BY <1>14, <1>16, <1>17, <1>18, <1>19 DEF FramingInv

\* The device, which reads the first frame that waits for it, knows a whole
\* request by the last frame.
LEMMA DeviceHead ==
    ASSUME FramingInv, dev.in # << >>, NEW f, f = Head(dev.in)
    PROVE  /\ f = dev.in[1] /\ f.of \in DOMAIN calls /\ f.nr \in Nat /\ f.data \in Seq(Cell)
           /\ Complete(f) <=> Ends("q", f)
           /\ Collected(f) \in Seq(Cell)
           /\ ~Complete(f) => Begins(Collected(f), Message("q", f.of), Start(f.nr + 1))
           /\ Complete(f) =>
                (IF link = "ckcc" THEN Collected(f) ELSE SubSeq(Collected(f), 1, f.len)) = Request(f.of)
<1>1. Typed /\ Gathered /\ Line("q", dev.in) /\ dev.in \in Seq(Frame)
  BY Queues DEF FramingInv
<1>2. f = dev.in[1] /\ 1 \in 1..Len(dev.in)
  BY <1>1
<1>3. f.of \in DOMAIN calls /\ Piece("q", f)
  BY <1>1, <1>2 DEF Line
<1> DEFINE m == Message("q", f.of)
<1>4. m \in Seq(Cell) /\ Len(m) = calls[f.of]["q"] /\ Len(m) \in Nat
  BY <1>1, <1>3, Messages DEF Sides
<1>5. m = Request(f.of)
  BY <1>1, <1>3, SidesNamed
<1>6. f.nr \in 1..Count(Len(m)) /\ Fields(f, f.of, m, f.nr)
  BY <1>3, <1>4 DEF Piece
<1>7. Begins(dev.buf, m, Start(f.nr))
  BY <1>1, <1>2 DEF Gathered
<1>8. link \in Links
  BY <1>1 DEF Typed
<1> HIDE DEF m
<1>9. /\ Holds(f.data, m, f.nr)
      /\ link # "ckcc" => f.len = Len(m)
      /\ link = "ckcc" => f.last = (f.nr = Count(Len(m)))
      /\ ~Error(f)
  BY <1>6 DEF Fields, Error
<1> DEFINE n == f.nr
           b == f.data
           buf == dev.buf
<1>10. n \in 1..Count(Len(m)) /\ Begins(buf, m, Start(n)) /\ Holds(b, m, n)
  BY <1>6, <1>7, <1>9
<1>11. /\ buf \o b \in Seq(Cell)
       /\ Len(buf \o b) >= Len(m) <=> n = Count(Len(m))
       /\ n < Count(Len(m)) => Begins(buf \o b, m, Start(n + 1))
       /\ n = Count(Len(m)) => SubSeq(buf \o b, 1, Len(m)) = m
       /\ n = Count(Len(m)) /\ link = "ckcc" => buf \o b = m
       /\ \A i \in 1..Len(buf \o b) : (buf \o b)[i] = IF i <= Len(m) THEN m[i] ELSE Pad
  <2> HIDE DEF n, b, buf
  <2>1. m \in Seq(Cell)
    BY <1>4
  <2> QED BY ONLY <1>8, <1>10, <2>1, Joins, ZenonT(60)
<1>12. Count(Len(m)) \in Nat
  BY <1>4, <1>8, Counts
<1>13. Ends("q", f) <=> n = Count(Len(m))
  BY <1>4, <1>9 DEF Ends
<1>14. Collected(f) = buf \o b
  BY DEF Collected
<1>15. Complete(f) <=> n = Count(Len(m))
  BY <1>9, <1>11, <1>14 DEF Complete
<1>16. n \in Nat /\ (n < Count(Len(m)) \/ n = Count(Len(m)))
  BY <1>10, <1>12
<1>17. f.data \in Seq(Cell)
  BY <1>9 DEF Holds
<1>18. Complete(f) =>
         (IF link = "ckcc" THEN Collected(f) ELSE SubSeq(Collected(f), 1, f.len)) = Request(f.of)
  BY <1>5, <1>9, <1>11, <1>14, <1>15
<1>19. ~Complete(f) => Begins(Collected(f), m, Start(f.nr + 1))
  BY <1>11, <1>14, <1>15, <1>16
<1> QED BY <1>2, <1>3, <1>11, <1>13, <1>14, <1>15, <1>16, <1>17, <1>18, <1>19 DEF m

\* The record of the device.
LEMMA DeviceRecord ==
    ASSUME NEW d \in [in : Seq(Frame), out : Seq(Frame), buf : Seq(Cell), alive : BOOLEAN],
           NEW i \in Seq(Frame), NEW o \in Seq(Frame), NEW b \in Seq(Cell)
    PROVE  LET e == [d EXCEPT !.in = i, !.buf = b, !.out = o]
           IN  /\ e \in [in : Seq(Frame), out : Seq(Frame), buf : Seq(Cell), alive : BOOLEAN]
               /\ e.in = i /\ e.out = o /\ e.buf = b /\ e.alive = d.alive
  OBVIOUS

\* What a step that takes the first waiting frame does to the device, when its
\* answer, if any, is a line of its own.
LEMMA TakesStep ==
    ASSUME FramingInv, dev.in # << >>, NEW f, f = Head(dev.in), Complete(f),
           NEW r, Line("a", r), Len(r) > 0 => r[1].nr = 1, Ofs(r) \subseteq {f.of},
           dev' = [dev EXCEPT !.in = Tail(@), !.buf = << >>, !.out = @ \o r],
           UNCHANGED <<link, opened, calls, host, result, wire, owed, given, inStep, faults>>
    PROVE  FramingInv'
<1>1. Typed /\ Lined /\ Gathered /\ Line("q", dev.in) /\ Line("a", Stream) /\ dev.in \in Seq(Frame)
      /\ Stream \in Seq(Frame) /\ dev.out \in Seq(Frame) /\ wire \in Seq(Frame)
  BY Queues DEF FramingInv
<1>2. f = dev.in[1] /\ f.of \in DOMAIN calls /\ Ends("q", f)
  BY DeviceHead
<1>3. Persists
  BY DEF Persists
<1>4. r \in Seq(Frame)
  BY DEF Line
<1>5. /\ Line("q", Tail(dev.in)) /\ Tail(dev.in) \in Seq(Frame)
      /\ Len(Tail(dev.in)) = Len(dev.in) - 1
      /\ \A i \in 1..Len(Tail(dev.in)) : Tail(dev.in)[i] = dev.in[i + 1]
  BY <1>1, LineTail
<1>6. dev \in [in : Seq(Frame), out : Seq(Frame), buf : Seq(Cell), alive : BOOLEAN]
  BY <1>1 DEF Typed
<1>7. /\ dev' \in [in : Seq(Frame), out : Seq(Frame), buf : Seq(Cell), alive : BOOLEAN]
      /\ dev'.in = Tail(dev.in) /\ dev'.buf = << >> /\ dev'.out = dev.out \o r
  <2>1. dev.out \o r \in Seq(Frame)
    BY <1>1, <1>4, ConcatProperties
  <2>2. << >> \in Seq(Cell)
    OBVIOUS
  <2> QED BY <1>5, <1>6, <2>1, <2>2, DeviceRecord
<1>8. Typed'
  <2>1. \A n : Sendable(n)' <=> Sendable(n)
    BY SameCutting
  <2> QED BY <1>1, <1>7, <2>1 DEF Typed
<1>9. Stream' = Stream \o r
  <2>1. CASE opened
    <3>1. Stream' = wire \o (dev.out \o r)
      BY <1>7, <2>1 DEF Stream
    <3>2. (wire \o dev.out) \o r = wire \o (dev.out \o r)
      <4>1. wire \in Seq(Frame) /\ dev.out \in Seq(Frame)
        BY <1>1
      <4>2. \A s, t, u \in Seq(Frame) : (s \o t) \o u = s \o (t \o u)
        BY ConcatAssociative
      <4> QED BY <1>4, <4>1, <4>2
    <3> QED BY <2>1, <3>1, <3>2 DEF Stream
  <2>2. CASE ~opened
    BY <1>7, <2>2 DEF Stream
  <2> QED BY <2>1, <2>2
<1>10. Len(dev.in) \in Nat /\ Len(dev.in) > 0 /\ 1 \in 1..Len(dev.in)
  BY <1>1
<1>11. \A k \in Ofs(Tail(dev.in)) : f.of < k
  <2> SUFFICES ASSUME NEW n \in 1..Len(Tail(dev.in)) PROVE f.of < Tail(dev.in)[n].of
    BY DEF Ofs
  <2>1. n + 1 \in 1..Len(dev.in) /\ 1 < n + 1 /\ Tail(dev.in)[n] = dev.in[n + 1]
    BY <1>5, <1>10
  <2> QED BY <1>1, <1>2, <1>10, <2>1 DEF Line
<1>12. f.of \in Ofs(dev.in) /\ Ofs(Tail(dev.in)) \subseteq Ofs(dev.in)
  BY <1>1, <1>2, OfsFacts
<1>13. /\ \A k \in Ofs(Stream), l \in Ofs(dev.in) : k < l
       /\ Ofs(Stream) \cup Ofs(dev.in) \subseteq (owed \cup {host.call}) \ given
  BY <1>1 DEF Lined
<1>14. Ofs(Stream') = Ofs(Stream) \cup Ofs(r)
  BY <1>1, <1>4, <1>9, OfsFacts
<1>15. Line("a", Stream \o r)
  <2>1. \A n \in 1..Len(Stream), l \in 1..Len(r) : Stream[n].of < r[l].of
    BY <1>12, <1>13 DEF Ofs
  <2>2. PICK s : s = Stream
    OBVIOUS
  <2>3. Line("a", s \o r)
    BY <1>1, <2>1, <2>2, LineJoin
  <2> QED BY <2>2, <2>3
<1>16. Lined'
  <2>1. PICK s : s = Stream'
    OBVIOUS
  <2>2. PICK t : t = Tail(dev.in)
    OBVIOUS
  <2>3. Line("a", s)' /\ Line("q", t)'
    BY <1>3, <1>5, <1>9, <1>15, <2>1, <2>2, LinePersists
  <2>4. Line("a", Stream)' /\ Line("q", dev.in)'
    BY <1>7, <2>1, <2>2, <2>3
  <2>5. \A k \in Ofs(Stream'), l \in Ofs(Tail(dev.in)) : k < l
    BY <1>11, <1>12, <1>13, <1>14
  <2>6. Ofs(Stream') \cup Ofs(Tail(dev.in)) \subseteq (owed \cup {host.call}) \ given
    BY <1>12, <1>13, <1>14
  <2>7. Ofs(Stream)' = Ofs(Stream') /\ Ofs(dev.in)' = Ofs(Tail(dev.in))
    BY <1>7 DEF Ofs
  <2> QED BY <2>4, <2>5, <2>6, <2>7 DEF Lined
<1>17. Gathered'
  <2>1. CASE Tail(dev.in) = << >>
    BY <1>7, <2>1 DEF Gathered
  <2>2. CASE Tail(dev.in) # << >>
    <3>1. 1 \in 1..Len(Tail(dev.in)) /\ 1 \in 1..(Len(dev.in) - 1)
      BY <1>5, <1>10, <2>2
    <3>2. Tail(dev.in)[1].nr = 1
      <4>1. Tail(dev.in)[1] = dev.in[1 + 1]
        BY <1>5, <3>1
      <4> QED BY <1>1, <1>2, <3>1, <4>1 DEF Line
    <3>3. Start(dev.in[1].nr)' = 0
      BY <1>7, <3>2 DEF Start
    <3>4. \A x : Begins(<< >>, x, 0)
      BY DEF Begins
    <3> QED BY <1>7, <2>2, <3>3, <3>4 DEF Gathered
  <2> QED BY <2>1, <2>2
<1>18. OwnAnswer'
  BY <1>3, OwnAnswerKeeps
<1>19. Reading'
  <2>1. Stream # << >> => Stream' # << >> /\ Stream'[1] = Stream[1]
    <3> SUFFICES ASSUME Stream # << >> PROVE Stream' # << >> /\ Stream'[1] = Stream[1]
      OBVIOUS
    <3> DEFINE s == Stream
               u == s \o r
    <3>1. Len(s) \in Nat /\ Len(s) > 0 /\ Len(r) \in Nat
      BY <1>1, <1>4
    <3>2. u \in Seq(Frame) /\ Len(u) = Len(s) + Len(r)
          /\ \A i \in 1..(Len(s) + Len(r)) : u[i] = IF i <= Len(s) THEN s[i] ELSE r[i - Len(s)]
      BY <1>1, <1>4, ConcatProperties
    <3> HIDE DEF u, s
    <3>3. u[1] = s[1] /\ u # << >>
      BY <3>1, <3>2
    <3> QED BY <1>9, <3>3 DEF u, s
  <2> QED BY <1>3, <2>1, ReadingKeeps
<1> QED BY <1>8, <1>16, <1>17, <1>18, <1>19 DEF FramingInv

\* The device takes a frame and, with the last one, has its answer ready.
LEMMA DeviceTakesStep ==
    ASSUME FramingInv, DeviceTakes
    PROVE  FramingInv'
<1>1. PICK f : f = Head(dev.in)
  OBVIOUS
<1>2. /\ dev.in # << >>
      /\ UNCHANGED <<link, opened, calls, host, result, wire, owed, given, inStep, faults>>
  BY DEF DeviceTakes
<1>3. /\ f = dev.in[1] /\ f.of \in DOMAIN calls /\ f.nr \in Nat
      /\ Complete(f) <=> Ends("q", f)
      /\ Collected(f) \in Seq(Cell)
      /\ ~Complete(f) => Begins(Collected(f), Message("q", f.of), Start(f.nr + 1))
      /\ Complete(f) =>
           (IF link = "ckcc" THEN Collected(f) ELSE SubSeq(Collected(f), 1, f.len)) = Request(f.of)
  BY <1>1, <1>2, DeviceHead
<1>4. Typed /\ Lined
  BY DEF FramingInv
<1>5. Persists
  BY <1>2 DEF Persists
<1>6. CASE Complete(f)
  <2>1. PICK r : r = Frames(f.of, Answer(f.of))
    OBVIOUS
  <2>2. dev' = [dev EXCEPT !.in = Tail(@), !.buf = << >>, !.out = @ \o r]
    BY <1>1, <1>3, <1>6, <2>1 DEF DeviceTakes
  <2>3. Answer(f.of) = Message("a", f.of)
    BY <1>3, <1>4, SidesNamed
  <2>4. /\ Line("a", r) /\ Len(r) > 0 /\ r[1].nr = 1 /\ \A n \in 1..Len(r) : r[n].of = f.of
    BY <1>3, <1>4, <2>1, <2>3, LineOfMessage DEF Sides
  <2>5. Ofs(r) \subseteq {f.of}
    BY <2>4 DEF Ofs
  <2> QED BY <1>1, <1>2, <1>6, <2>2, <2>4, <2>5, TakesStep
<1>7. CASE ~Complete(f)
  <2>1. dev' = [dev EXCEPT !.in = Tail(@), !.buf = Collected(f)]
    BY <1>1, <1>7 DEF DeviceTakes
  <2>2. dev \in [in : Seq(Frame), out : Seq(Frame), buf : Seq(Cell), alive : BOOLEAN]
    BY <1>4 DEF Typed
  <2>3. /\ Line("q", dev.in) /\ Line("a", Stream)
        /\ Line("q", Tail(dev.in)) /\ Tail(dev.in) \in Seq(Frame) /\ dev.in \in Seq(Frame)
        /\ Len(Tail(dev.in)) = Len(dev.in) - 1
        /\ \A i \in 1..Len(Tail(dev.in)) : Tail(dev.in)[i] = dev.in[i + 1]
        /\ Ofs(Tail(dev.in)) \subseteq Ofs(dev.in)
    BY <1>2, Queues, LineTail, OfsFacts
  <2>4. /\ dev' \in [in : Seq(Frame), out : Seq(Frame), buf : Seq(Cell), alive : BOOLEAN]
        /\ dev'.in = Tail(dev.in) /\ dev'.buf = Collected(f) /\ dev'.out = dev.out
    <3>1. [dev EXCEPT !.in = Tail(@), !.buf = Collected(f)]
          = [dev EXCEPT !.in = Tail(dev.in), !.buf = Collected(f), !.out = dev.out]
      BY <2>2
    <3> QED BY <1>3, <2>1, <2>2, <2>3, <3>1, DeviceRecord
  <2>5. Typed'
    <3>1. \A n : Sendable(n)' <=> Sendable(n)
      BY <1>2, SameCutting
    <3> QED BY <1>2, <1>4, <2>4, <3>1 DEF Typed
  <2>6. Stream' = Stream
    BY <1>2, <2>4 DEF Stream
  <2>7. Lined'
    BY <1>2, <1>5, <2>3, <2>4, <2>6, LinedShrinks
  <2>8. ~Ends("q", f)
    BY <1>3, <1>7
  <2>9. Len(dev.in) \in Nat /\ Len(dev.in) > 0
    BY <1>2, <2>3
  <2>10. Len(dev.in) > 1
    <3>1. Ends("q", dev.in[Len(dev.in)])
      BY <2>3, <2>9 DEF Line
    <3>2. Len(dev.in) # 1
      BY <1>3, <2>8, <3>1
    <3>3. \A n \in Nat : n > 0 /\ n # 1 => n > 1
      OBVIOUS
    <3> QED BY <2>9, <3>2, <3>3
  <2>11. Tail(dev.in)[1].of = f.of /\ Tail(dev.in)[1].nr = f.nr + 1
    <3>1. 1 \in 1..(Len(dev.in) - 1) /\ 1 \in 1..Len(Tail(dev.in))
      BY <2>3, <2>9, <2>10
    <3>2. Tail(dev.in)[1] = dev.in[1 + 1]
      BY <2>3, <3>1
    <3>3. IF Ends("q", dev.in[1]) THEN dev.in[1 + 1].nr = 1
          ELSE dev.in[1 + 1].of = dev.in[1].of /\ dev.in[1 + 1].nr = dev.in[1].nr + 1
      BY <2>3, <3>1 DEF Line
    <3> QED BY <1>3, <2>8, <3>2, <3>3
  <2>12. Gathered'
    <3>1. Tail(dev.in) # << >>
      <4>1. Len(Tail(dev.in)) > 0
        BY <2>3, <2>9, <2>10
      <4> QED BY <4>1
    <3>2. PICK k : k = f.of
      OBVIOUS
    <3>3. PICK j : j = f.nr + 1
      OBVIOUS
    <3>4. Message("q", k)' = Message("q", k) /\ Start(j)' = Start(j)
      BY <1>2, <1>3, <1>5, <3>2, LinePersists, SameCutting
    <3>5. Begins(dev.buf, Message("q", k), Start(j))'
      BY <1>3, <1>7, <2>4, <3>2, <3>3, <3>4 DEF Begins
    <3>6. dev'.in[1].of = k /\ dev'.in[1].nr = j
      BY <2>4, <2>11, <3>2, <3>3
    <3> QED BY <2>4, <3>1, <3>5, <3>6 DEF Gathered
  <2>13. OwnAnswer'
    BY <1>2, <1>5, OwnAnswerKeeps
  <2>14. Reading'
    BY <1>2, <1>5, <2>6, ReadingKeeps
  <2> QED BY <2>5, <2>7, <2>12, <2>13, <2>14 DEF FramingInv
<1> QED BY <1>6, <1>7

\* The device answers with an error.
LEMMA DeviceRefusesStep ==
    ASSUME FramingInv, DeviceRefuses
    PROVE  FramingInv'
<1>1. PICK f : f = Head(dev.in)
  OBVIOUS
<1>2. /\ dev.in # << >> /\ Complete(f) /\ link = "u2f"
      /\ UNCHANGED <<link, opened, calls, host, result, wire, owed, given, inStep, faults>>
      /\ dev' = [dev EXCEPT !.in = Tail(@), !.buf = << >>, !.out = Append(@, ErrorFrame(f.of))]
  BY <1>1 DEF DeviceRefuses
<1>3. f.of \in DOMAIN calls
  BY <1>1, <1>2, DeviceHead
<1>4. Typed
  BY DEF FramingInv
<1>5. PICK r : r = <<ErrorFrame(f.of)>>
  OBVIOUS
<1>6. Line("a", r) /\ ErrorFrame(f.of).nr = 1 /\ ErrorFrame(f.of).of = f.of
  BY <1>2, <1>3, <1>4, <1>5, LineOfError
<1>7. Len(r) = 1 /\ r[1] = ErrorFrame(f.of) /\ r \in Seq(Frame)
  BY <1>5, <1>6 DEF Line
<1>8. Append(dev.out, ErrorFrame(f.of)) = dev.out \o r
  <2>1. dev.out \in Seq(Frame)
    BY Queues
  <2>2. ErrorFrame(f.of) \in Frame
    BY <1>7
  <2> QED BY <1>5, <2>1, <2>2, AppendIsConcat
<1>9. Ofs(r) \subseteq {f.of}
  BY <1>6, <1>7 DEF Ofs
<1> QED BY <1>1, <1>2, <1>6, <1>7, <1>8, <1>9, TakesStep

\* A frame that goes from the front of one queue to the back of the queue
\* before it stays in its place.
LEMMA MovesOver ==
    ASSUME NEW w \in Seq(Frame), NEW o \in Seq(Frame), o # << >>
    PROVE  Append(w, Head(o)) \o Tail(o) = w \o o
<1> DEFINE h == Head(o)
           t == Tail(o)
           u == <<h>> \o t
<1>1. /\ h \in Frame /\ h = o[1] /\ t \in Seq(Frame) /\ Len(t) = Len(o) - 1
      /\ \A i \in 1..Len(t) : t[i] = o[i + 1]
  BY HeadTailProperties
<1>2. Len(o) \in Nat /\ Len(o) > 0
  OBVIOUS
<1> HIDE DEF h, t
<1>3. <<h>> \in Seq(Frame) /\ Len(<<h>>) = 1 /\ <<h>>[1] = h
  BY <1>1
<1>4. /\ u \in Seq(Frame)
      /\ Len(u) = 1 + Len(t)
      /\ \A i \in 1..(1 + Len(t)) : u[i] = IF i <= 1 THEN <<h>>[i] ELSE t[i - 1]
  BY <1>1, <1>3, ConcatProperties
<1> HIDE DEF u
<1>5. u = o
  <2>1. Len(u) = Len(o)
    BY <1>1, <1>2, <1>4
  <2>2. \A i \in 1..Len(u) : u[i] = o[i]
    <3> SUFFICES ASSUME NEW i \in 1..Len(u) PROVE u[i] = o[i]
      OBVIOUS
    <3>1. CASE i = 1
      BY <1>1, <1>2, <1>3, <1>4, <2>1, <3>1
    <3>2. CASE i > 1
      <4>1. i - 1 \in 1..Len(t) /\ (i - 1) + 1 = i /\ i \in 1..(1 + Len(t)) /\ ~(i <= 1)
        BY <1>1, <1>2, <2>1, <3>2
      <4> QED BY <1>1, <1>4, <4>1
    <3> QED BY <1>2, <2>1, <3>1, <3>2
  <2> QED BY <1>4, <2>1, <2>2, SeqEqual
<1>6. Append(w, h) = w \o <<h>>
  BY <1>1, AppendIsConcat
<1>7. \A r, s, v \in Seq(Frame) : (r \o s) \o v = r \o (s \o v)
  BY ConcatAssociative, SMTT(40)
<1>8. (w \o <<h>>) \o t = w \o (<<h>> \o t)
  BY <1>1, <1>3, <1>7
<1> QED BY <1>5, <1>6, <1>8 DEF h, t, u

\* A report moves from the device to the queue of the handle.
LEMMA DeviceSendsStep ==
    ASSUME FramingInv, DeviceSends
    PROVE  FramingInv'
<1>1. Typed /\ Lined
  BY DEF FramingInv
<1>2. /\ opened /\ dev.out # << >> /\ wire' = Append(wire, Head(dev.out))
      /\ dev' = [dev EXCEPT !.out = Tail(@)]
      /\ UNCHANGED <<link, opened, calls, host, result, owed, given, inStep, faults>>
  BY DEF DeviceSends
<1>3. Persists
  BY <1>2 DEF Persists
<1>4. wire \in Seq(Frame) /\ dev.out \in Seq(Frame)
      /\ dev \in [in : Seq(Frame), out : Seq(Frame), buf : Seq(Cell), alive : BOOLEAN]
  BY <1>1 DEF Typed
<1>5. Head(dev.out) \in Frame /\ Tail(dev.out) \in Seq(Frame)
  BY <1>2, <1>4
<1>6. wire' \in Seq(Frame)
  BY <1>2, <1>4, <1>5
<1>7. /\ dev' \in [in : Seq(Frame), out : Seq(Frame), buf : Seq(Cell), alive : BOOLEAN]
      /\ dev'.in = dev.in /\ dev'.buf = dev.buf /\ dev'.out = Tail(dev.out)
  <2>1. [dev EXCEPT !.out = Tail(@)]
        = [dev EXCEPT !.in = dev.in, !.buf = dev.buf, !.out = Tail(dev.out)]
    BY <1>4
  <2>2. dev.in \in Seq(Frame) /\ dev.buf \in Seq(Cell)
    BY <1>4
  <2> QED BY <1>2, <1>4, <1>5, <2>1, <2>2, DeviceRecord
<1>8. Typed'
  <2>1. \A n : Sendable(n)' <=> Sendable(n)
    BY <1>2, SameCutting
  <2> QED BY <1>1, <1>2, <1>6, <1>7, <2>1 DEF Typed
<1>9. Stream' = Stream
  <2>1. Append(wire, Head(dev.out)) \o Tail(dev.out) = wire \o dev.out
    BY <1>2, <1>4, MovesOver
  <2> QED BY <1>2, <1>7, <2>1 DEF Stream
<1>10. Lined'
  BY <1>2, <1>3, <1>7, <1>9, Queues, LinedShrinks
<1>11. Gathered'
  BY <1>3, <1>7, GatheredKeeps
<1>12. OwnAnswer'
  BY <1>2, <1>3, OwnAnswerKeeps
<1>13. Reading'
  BY <1>2, <1>3, <1>9, ReadingKeeps
<1> QED BY <1>8, <1>10, <1>11, <1>12, <1>13 DEF FramingInv

\* The device stops.
LEMMA DeviceStopsStep ==
    ASSUME FramingInv, DeviceStops
    PROVE  FramingInv'
<1>1. Typed /\ Lined
  BY DEF FramingInv
<1>2. /\ dev' = [dev EXCEPT !.alive = FALSE] /\ faults' = faults + 1
      /\ UNCHANGED <<link, opened, calls, host, result, wire, owed, given, inStep>>
  BY DEF DeviceStops
<1>3. Persists
  BY <1>2 DEF Persists
<1>4. dev \in [in : Seq(Frame), out : Seq(Frame), buf : Seq(Cell), alive : BOOLEAN]
  BY <1>1 DEF Typed
<1>5. /\ dev' \in [in : Seq(Frame), out : Seq(Frame), buf : Seq(Cell), alive : BOOLEAN]
      /\ dev'.in = dev.in /\ dev'.buf = dev.buf /\ dev'.out = dev.out
  BY <1>2, <1>4
<1>6. Typed'
  <2>1. \A n : Sendable(n)' <=> Sendable(n)
    BY <1>2, SameCutting
  <2>2. faults' \in Nat
    BY <1>1, <1>2 DEF Typed
  <2> QED BY <1>1, <1>2, <1>5, <2>1, <2>2 DEF Typed
<1>7. Stream' = Stream
  BY <1>2, <1>5 DEF Stream
<1>8. Lined'
  BY <1>2, <1>3, <1>5, <1>7, Queues, LinedShrinks
<1>9. Gathered'
  BY <1>3, <1>5, GatheredKeeps
<1>10. OwnAnswer'
  BY <1>2, <1>3, OwnAnswerKeeps
<1>11. Reading'
  BY <1>2, <1>3, <1>7, ReadingKeeps
<1> QED BY <1>6, <1>8, <1>9, <1>10, <1>11 DEF FramingInv

\* The device comes back and has forgotten everything.
LEMMA ReplugStep ==
    ASSUME FramingInv, Replug
    PROVE  FramingInv'
<1>1. Typed /\ Lined
  BY DEF FramingInv
<1>2. /\ ~opened /\ dev' = FreshDevice
      /\ UNCHANGED <<link, opened, calls, host, result, wire, owed, given, inStep, faults>>
  BY DEF Replug
<1>3. Persists
  BY <1>2 DEF Persists
<1>4. /\ dev' \in [in : Seq(Frame), out : Seq(Frame), buf : Seq(Cell), alive : BOOLEAN]
      /\ dev'.in = << >> /\ dev'.buf = << >> /\ dev'.out = << >>
  BY <1>2 DEF FreshDevice
<1>5. host = Idle
  BY <1>1, <1>2 DEF Typed
<1>6. Typed'
  <2>1. \A n : Sendable(n)' <=> Sendable(n)
    BY <1>2, SameCutting
  <2> QED BY <1>1, <1>2, <1>4, <2>1 DEF Typed
<1>7. Stream' = << >>
  BY <1>2, <1>4 DEF Stream
<1>8. Lined'
  BY <1>3, <1>4, <1>7, LineEmpty, OfsFacts, LinedShrinks
<1>9. Gathered'
  BY <1>4 DEF Gathered
<1>10. OwnAnswer'
  BY <1>2, <1>3, OwnAnswerKeeps
<1>11. Reading'
  BY <1>2, <1>5 DEF Reading, Idle
<1> QED BY <1>6, <1>8, <1>9, <1>10, <1>11 DEF FramingInv

----------------------------------------------------------------------------
(* The readers                                                             *)

\* Reading takes the first frame of what is on its way.
LEMMA ReadHead ==
    ASSUME FramingInv, host.pc # "idle", NEW f, Take(f)
    PROVE  /\ f = Stream[1] /\ Stream # << >> /\ Stream' = Tail(Stream)
           /\ f \in Frame /\ f.of \in DOMAIN calls /\ f.of \in (owed \cup {host.call}) \ given
           /\ f.nr \in Nat /\ f.data \in Seq(Cell)
           /\ Piece("a", f) \/ Error(f)
           /\ wire' \in Seq(Frame)
           /\ Persists /\ UNCHANGED <<link, opened, calls, dev, faults>>
<1>1. Typed /\ Lined /\ Line("a", Stream) /\ Stream \in Seq(Frame)
      /\ wire \in Seq(Frame) /\ dev.out \in Seq(Frame)
  BY Queues DEF FramingInv
<1>2. opened /\ Stream = wire \o dev.out
  BY <1>1 DEF Typed, Stream
<1>3. wire # << >> /\ f = Head(wire) /\ wire' = Tail(wire)
      /\ UNCHANGED <<link, opened, calls, dev, faults>>
  BY DEF Take
<1>4. Len(wire) \in Nat /\ Len(wire) > 0 /\ Len(dev.out) \in Nat /\ f = wire[1]
  BY <1>1, <1>3
<1> DEFINE s == Stream
<1>5. /\ Len(s) = Len(wire) + Len(dev.out)
      /\ \A i \in 1..(Len(wire) + Len(dev.out)) :
            s[i] = IF i <= Len(wire) THEN wire[i] ELSE dev.out[i - Len(wire)]
  BY <1>1, <1>2, ConcatProperties
<1>6. 1 \in 1..Len(s) /\ s # << >> /\ s[1] = f
  BY <1>1, <1>4, <1>5
<1>7. Tail(wire) \o dev.out = Tail(s)
  <2> DEFINE t == Tail(wire)
             u == t \o dev.out
  <2>1. /\ t \in Seq(Frame) /\ Len(t) = Len(wire) - 1
        /\ \A i \in 1..Len(t) : t[i] = wire[i + 1]
    BY <1>1, <1>3, HeadTailProperties
  <2>2. /\ Tail(s) \in Seq(Frame) /\ Len(Tail(s)) = Len(s) - 1
        /\ \A i \in 1..Len(Tail(s)) : Tail(s)[i] = s[i + 1]
    BY <1>1, <1>6, HeadTailProperties
  <2> HIDE DEF t
  <2>3. /\ u \in Seq(Frame) /\ Len(u) = Len(t) + Len(dev.out)
        /\ \A i \in 1..(Len(t) + Len(dev.out)) : u[i] = IF i <= Len(t) THEN t[i] ELSE dev.out[i - Len(t)]
    BY <1>1, <2>1, ConcatProperties
  <2> HIDE DEF u, s
  <2>4. Len(u) = Len(Tail(s)) /\ Len(t) \in Nat
    BY <1>4, <1>5, <2>1, <2>2, <2>3
  <2>5. ASSUME NEW i \in 1..Len(u) PROVE u[i] = Tail(s)[i]
    <3>1. Tail(s)[i] = s[i + 1] /\ i + 1 \in 1..(Len(wire) + Len(dev.out)) /\ i \in Nat
      BY <1>4, <1>5, <2>1, <2>2, <2>3, <2>4
    <3>2. CASE i <= Len(t)
      <4>1. i \in 1..Len(t) /\ i + 1 <= Len(wire)
        BY <1>4, <2>1, <3>1, <3>2
      <4>2. u[i] = t[i]
        BY <2>3, <2>4, <3>2
      <4> QED BY <1>5, <2>1, <3>1, <4>1, <4>2
    <3>3. CASE i > Len(t)
      <4>1. ~(i <= Len(t)) /\ ~(i + 1 <= Len(wire)) /\ (i + 1) - Len(wire) = i - Len(t)
        BY <1>4, <2>1, <2>4, <3>1, <3>3
      <4>2. u[i] = dev.out[i - Len(t)]
        BY <2>3, <4>1
      <4> QED BY <1>5, <3>1, <4>1, <4>2
    <3> QED BY <2>4, <3>1, <3>2, <3>3
  <2>6. u = Tail(s)
    BY <2>2, <2>3, <2>4, <2>5, SeqEqual
  <2> QED BY <2>6 DEF u, t
<1>8. Stream' = Tail(Stream)
  BY <1>2, <1>3, <1>7 DEF Stream
<1>9. f \in Frame /\ f.of \in DOMAIN calls /\ (Piece("a", f) \/ Error(f))
  BY <1>1, <1>6 DEF Line
<1>10. f.nr \in Nat /\ f.data \in Seq(Cell)
  BY <1>9 DEF Frame
<1>11. f.of \in (owed \cup {host.call}) \ given
  <2>1. f.of \in Ofs(Stream)
    BY <1>6 DEF Ofs
  <2> QED BY <1>1, <2>1 DEF Lined
<1>12. Persists
  BY <1>3 DEF Persists
<1>13. wire' \in Seq(Frame)
  BY <1>1, <1>3
<1> QED BY <1>3, <1>6, <1>8, <1>9, <1>10, <1>11, <1>12, <1>13

\* The frame of an answer behind what comes before it.
LEMMA ReadPiece ==
    ASSUME Typed, NEW f, f.of \in DOMAIN calls, Piece("a", f),
           NEW buf, Begins(buf, Message("a", f.of), Start(f.nr))
    PROVE  /\ buf \o f.data \in Seq(Cell)
           /\ link # "ckcc" => f.len = calls[f.of].a
           /\ Len(buf \o f.data) >= calls[f.of].a <=> Ends("a", f)
           /\ ~Ends("a", f) => Begins(buf \o f.data, Message("a", f.of), Start(f.nr + 1))
           /\ Ends("a", f) => SubSeq(buf \o f.data, 1, calls[f.of].a) = Answer(f.of)
           /\ Ends("a", f) => Unpadded(buf \o f.data) = Answer(f.of)
           /\ ~Error(f)
<1> DEFINE m == Message("a", f.of)
           j == f.nr
           b == f.data
           all == buf \o b
<1>1. /\ m \in Seq(Cell) /\ Len(m) = calls[f.of].a /\ Len(m) = calls[f.of]["a"]
      /\ Len(m) \in Nat /\ m = Answer(f.of)
      /\ \A i \in 1..Len(m) : m[i] # Pad
  BY Messages, SidesNamed DEF Sides
<1>2. link \in Links
  BY DEF Typed
<1>3. j \in 1..Count(Len(m)) /\ Fields(f, f.of, m, j)
  BY <1>1 DEF Piece
<1>4. Begins(buf, m, Start(j))
  OBVIOUS
<1> HIDE DEF m
<1>5. Holds(b, m, j) /\ (link # "ckcc" => f.len = Len(m)) /\ ~Error(f)
  BY <1>3 DEF Fields, Error
<1>6. Ends("a", f) <=> j = Count(Len(m))
  BY <1>1, <1>5 DEF Ends
<1>7. Count(Len(m)) \in Nat
  BY <1>1, <1>2, Counts
<1> HIDE DEF j, b
<1>8. /\ all \in Seq(Cell)
      /\ Len(all) >= Len(m) <=> j = Count(Len(m))
      /\ j < Count(Len(m)) => Begins(all, m, Start(j + 1))
      /\ j = Count(Len(m)) => SubSeq(all, 1, Len(m)) = m
      /\ \A i \in 1..Len(all) : all[i] = IF i <= Len(m) THEN m[i] ELSE Pad
  <2>1. m \in Seq(Cell) /\ j \in 1..Count(Len(m)) /\ Begins(buf, m, Start(j)) /\ Holds(b, m, j)
    BY <1>1, <1>3, <1>4, <1>5
  <2> QED BY <1>2, <2>1, Joins
<1>9. j \in Nat /\ (j < Count(Len(m)) \/ j = Count(Len(m)))
  BY <1>3, <1>7
<1> HIDE DEF all
<1>10. j = Count(Len(m)) => Unpadded(all) = m
  BY <1>1, <1>8, Strips
<1>11. /\ all \in Seq(Cell)
       /\ link # "ckcc" => f.len = calls[f.of].a
       /\ Len(all) >= calls[f.of].a <=> Ends("a", f)
       /\ ~Ends("a", f) => Begins(all, m, Start(j + 1))
       /\ Ends("a", f) => SubSeq(all, 1, calls[f.of].a) = Answer(f.of)
       /\ Ends("a", f) => Unpadded(all) = Answer(f.of)
  BY <1>1, <1>5, <1>6, <1>8, <1>9, <1>10
<1> QED BY <1>5, <1>11 DEF all, b, j, m

\* A first frame is read without anything before it.
LEMMA ReadFirstPiece ==
    ASSUME Typed, NEW f, f.of \in DOMAIN calls, Piece("a", f), f.nr = 1, f.data \in Seq(Cell)
    PROVE  /\ link # "ckcc" => f.len = calls[f.of].a
           /\ Len(f.data) >= calls[f.of].a <=> Ends("a", f)
           /\ ~Ends("a", f) => Begins(f.data, Message("a", f.of), Start(f.nr + 1))
           /\ Ends("a", f) => SubSeq(f.data, 1, calls[f.of].a) = Answer(f.of)
           /\ Ends("a", f) => Unpadded(f.data) = Answer(f.of)
           /\ ~Error(f)
<1>1. Begins(<< >>, Message("a", f.of), Start(f.nr))
  BY DEF Begins, Start
<1>2. << >> \o f.data = f.data
  BY ConcatEmptySeq
<1> DEFINE all == << >> \o f.data
<1>3. /\ link # "ckcc" => f.len = calls[f.of].a
      /\ Len(all) >= calls[f.of].a <=> Ends("a", f)
      /\ ~Ends("a", f) => Begins(all, Message("a", f.of), Start(f.nr + 1))
      /\ Ends("a", f) => SubSeq(all, 1, calls[f.of].a) = Answer(f.of)
      /\ Ends("a", f) => Unpadded(all) = Answer(f.of)
      /\ ~Error(f)
  BY <1>1, ReadPiece
<1>4. all = f.data
  BY <1>2
<1> HIDE DEF all
<1> QED BY <1>3, <1>4

\* The call that an answer is found to be of.
LEMMA AnswerInOwn ==
    ASSUME Typed, NEW k \in DOMAIN calls
    PROVE  AnswerIn(Answer(k), k) = k
<1> DEFINE P(l) == Answer(k) = Answer(l) /\ (Answer(k) = << >> => l = k)
<1>1. P(k)
  OBVIOUS
<1>2. \A l \in DOMAIN calls : P(l) => l = k
  BY AnswersDiffer
<1>3. (CHOOSE l \in DOMAIN calls : P(l)) = k
  BY <1>1, <1>2
<1> QED BY <1>1, <1>3 DEF AnswerIn

\* The Coldcard's reader decodes what is an answer, which is then the answer
\* that the last frame belongs to.
LEMMA DecodesOwn ==
    ASSUME Typed, link = "ckcc", NEW f, f.of \in DOMAIN calls, Piece("a", f), f.last,
           NEW buf \in Seq(Cell), f.data \in Seq(Cell), AnswerIn(buf \o f.data, f.of) # 0
    PROVE  buf \o f.data = Answer(f.of) /\ Ends("a", f)
<1> DEFINE m == Message("a", f.of)
           b == f.data
           all == buf \o b
           j == f.nr
<1>1. /\ m \in Seq(Cell) /\ Len(m) = calls[f.of]["a"] /\ Len(m) \in Nat /\ Sendable(Len(m))
      /\ \A i \in 1..Len(m) : m[i] = <<"a", f.of, i>>
  BY Messages DEF Sides
<1>2. link \in Links
  BY DEF Typed
<1>3. Len(m) > 0
  BY <1>1 DEF Sendable, Trezor
<1>4. j \in 1..Count(Len(m)) /\ Fields(f, f.of, m, j)
  BY <1>1 DEF Piece
<1> HIDE DEF m
<1>5. Holds(b, m, j) /\ j = Count(Len(m))
  BY <1>4 DEF Fields
<1>6. Ends("a", f)
  BY <1>1, <1>5 DEF Ends
<1> HIDE DEF j, b
<1>7. Start(j) \in Nat /\ Start(j) < Len(m)
  BY <1>1, <1>2, <1>3, <1>4, Places
<1>8. /\ b \in Seq(Cell) /\ Len(b) >= Len(m) - Start(j) /\ Start(j) + Len(b) <= Len(m)
      /\ \A i \in 1..Len(b) : b[i] = IF Start(j) + i <= Len(m) THEN m[Start(j) + i] ELSE Pad
  BY <1>5 DEF Holds
<1>9. Len(b) \in Nat /\ Len(b) > 0 /\ Start(j) + Len(b) = Len(m) /\ Len(b) \in 1..Len(b)
  <2>1. Len(b) \in Nat /\ Len(m) \in Nat
    BY <1>1, <1>8
  <2>2. Len(b) >= Len(m) - Start(j) /\ Start(j) + Len(b) <= Len(m)
    BY <1>8
  <2> QED BY <1>7, <2>1, <2>2
<1>10. b[Len(b)] = <<"a", f.of, Len(m)>>
  <2>1. Start(j) + Len(b) <= Len(m) /\ Len(m) \in 1..Len(m)
    BY <1>1, <1>3, <1>9
  <2>2. b[Len(b)] = m[Start(j) + Len(b)]
    BY <1>8, <1>9, <2>1
  <2> QED BY <1>1, <1>9, <2>1, <2>2
<1>11. PICK k \in DOMAIN calls : all = Answer(k)
  BY DEF AnswerIn, b
<1>12. Len(all) = Len(buf) + Len(b) /\ all[Len(all)] = b[Len(b)] /\ Len(buf) \in Nat
  <2>1. Len(all) = Len(buf) + Len(b) /\ Len(buf) \in Nat
    BY <1>8, ConcatProperties
  <2>2. Len(all) \in 1..(Len(buf) + Len(b)) /\ ~(Len(all) <= Len(buf)) /\ Len(all) - Len(buf) = Len(b)
    BY <1>9, <2>1
  <2>3. all[Len(all)] = b[Len(all) - Len(buf)]
    BY <1>8, <2>2, ConcatProperties
  <2> QED BY <2>1, <2>2, <2>3
<1> HIDE DEF all
<1>13. /\ Answer(k) \in Seq(Cell)
       /\ \A i \in 1..Len(Answer(k)) : Answer(k)[i] = <<"a", k, i>>
  BY <1>11, Messages, SidesNamed DEF Sides
<1>14. Len(all) \in 1..Len(all)
  BY <1>9, <1>12
<1>15. <<"a", k, Len(all)>> = <<"a", f.of, Len(m)>>
  BY <1>10, <1>11, <1>12, <1>13, <1>14
<1>16. k = f.of
  BY <1>15
<1> QED BY <1>6, <1>11, <1>16 DEF all, b

\* The frame that is read next.
AtHead(f) ==
    /\ f = Stream[1] /\ Stream # << >>
    /\ f.of \in DOMAIN calls /\ f.nr \in Nat /\ f.data \in Seq(Cell)
    /\ Piece("a", f) \/ Error(f)

\* The frame does not complete the answer, and the reader has all of it so far.
HasSoFar(f, want, buf, cid) ==
    /\ Piece("a", f) /\ ~Ends("a", f)
    /\ want = calls[f.of].a
    /\ Begins(buf, Message("a", f.of), Start(f.nr + 1))
    /\ link = "u2f" => cid = f.of

\* What a reader does with a frame: it raises, it returns the whole answer
\* that the frame completes, or it reads on.
Continues(f, want, buf, cid, cmd) ==
    /\ ReadsOn(want, buf, cid, cmd)
    /\ want \in Nat /\ buf \in Seq(Cell) /\ cid \in Nat /\ cmd \in Commands
    /\ \/ link = "ckcc"
       \/ link \in {"u2f", "dbb"} /\ cmd # "HWW"
       \/ HasSoFar(f, want, buf, cid)
Finishes(f) ==
    /\ Returns(Answer(f.of), f.of)
    /\ Ends("a", f)
    /\ link = "u2f" => f.of = host.call
Outcome(f) ==
    \/ Raises
    \/ Finishes(f)
    \/ \E want, buf, cid, cmd : Continues(f, want, buf, cid, cmd)

\* Concatenated data are data, and the types of what the reader has.
LEMMA ReaderTypes ==
    ASSUME FramingInv, NEW f, AtHead(f)
    PROVE  /\ host.want \in Nat /\ host.buf \in Seq(Cell) /\ host.cid \in Nat /\ host.cmd \in Commands
           /\ host.buf \o f.data \in Seq(Cell)
           /\ f.of \in Nat /\ calls[f.of].a \in Nat
           /\ Report * 4 \in Nat
<1>1. host.want \in Nat /\ host.buf \in Seq(Cell) /\ host.cid \in Nat /\ host.cmd \in Commands
  BY DEF FramingInv, Typed
<1>2. host.buf \o f.data \in Seq(Cell)
  BY <1>1, ConcatProperties DEF AtHead
<1>3. Typed
  BY DEF FramingInv
<1>4. f.of \in Nat /\ calls[f.of]["a"] \in Nat
  BY <1>3, Messages DEF AtHead, Sides
<1>5. Report * 4 \in Nat
  BY FramingAssumption
<1> QED BY <1>1, <1>2, <1>4, <1>5

\* The reader of U2F HID with a first frame, a continuation or an error.
LEMMA U2fOutcome ==
    ASSUME FramingInv, link = "u2f", NEW f, AtHead(f),
           \/ host.pc = "first" /\ U2fFirst(f)
           \/ host.pc = "more" /\ U2fNext(f)
    PROVE  Outcome(f)
<1>1. Typed
  BY DEF FramingInv
<1>2. /\ host.want \in Nat /\ host.buf \in Seq(Cell) /\ host.cid \in Nat /\ host.cmd \in Commands
      /\ host.buf \o f.data \in Seq(Cell)
      /\ f.of \in Nat /\ calls[f.of].a \in Nat
      /\ Report * 4 \in Nat
  BY ReaderTypes
<1>3. CASE host.pc = "first" /\ U2fFirst(f)
  <2>1. CASE Error(f)
    BY <1>3, <2>1 DEF U2fFirst, Error, Outcome
  <2>2. CASE Piece("a", f)
    <3>1. f.cmd = (IF f.nr = 1 THEN "HWW" ELSE "seq") /\ f.cid = f.of
      BY <2>2 DEF Piece, Fields
    <3>2. PICK want \in Announced(f) :
             IF Len(f.data) >= want THEN U2fDone(f, f.data, f.cid, f.cmd, want)
             ELSE ReadsOn(want, f.data, f.cid, f.cmd)
      BY <1>3, <3>1 DEF U2fFirst
    <3>3. CASE f.nr # 1
      <4>1. f.cmd = "seq" /\ want \in {0, Report * 4}
        BY <3>1, <3>2, <3>3 DEF Announced
      <4>2. want \in Nat
        BY <1>2, <4>1
      <4>3. CASE Len(f.data) >= want
        BY <3>2, <4>1, <4>3 DEF U2fDone, Outcome
      <4>4. CASE ~(Len(f.data) >= want)
        <5>1. Continues(f, want, f.data, f.cid, f.cmd)
          BY <1>2, <3>1, <3>2, <4>1, <4>2, <4>4 DEF Continues, AtHead, Commands
        <5> QED BY <5>1 DEF Outcome
      <4> QED BY <4>3, <4>4
    <3>4. CASE f.nr = 1
      <4>1. f.cmd = "HWW" /\ want = f.len
        BY <3>1, <3>2, <3>4 DEF Announced
      <4>2. /\ f.len = calls[f.of].a
            /\ Len(f.data) >= calls[f.of].a <=> Ends("a", f)
            /\ ~Ends("a", f) => Begins(f.data, Message("a", f.of), Start(f.nr + 1))
            /\ Ends("a", f) => SubSeq(f.data, 1, calls[f.of].a) = Answer(f.of)
        BY <1>1, <2>2, <3>4, ReadFirstPiece DEF AtHead
      <4>3. CASE Ends("a", f)
        <5>1. U2fDone(f, f.data, f.cid, f.cmd, want)
          BY <3>2, <4>1, <4>2, <4>3
        <5>2. CASE f.cid # host.call
          BY <5>1, <5>2 DEF U2fDone, Outcome
        <5>3. CASE f.cid = host.call
          <6>1. Returns(SubSeq(f.data, 1, want), f.of)
            BY <4>1, <5>1, <5>3 DEF U2fDone
          <6>2. SubSeq(f.data, 1, want) = Answer(f.of)
            BY <4>1, <4>2, <4>3
          <6>3. Returns(Answer(f.of), f.of)
            BY <6>1, <6>2
          <6> QED BY <3>1, <4>3, <5>3, <6>3 DEF Outcome, Finishes
        <5> QED BY <5>2, <5>3
      <4>4. CASE ~Ends("a", f)
        <5>1. ReadsOn(want, f.data, f.cid, f.cmd)
          BY <3>2, <4>1, <4>2, <4>4
        <5>2. HasSoFar(f, want, f.data, f.cid)
          BY <2>2, <3>1, <4>1, <4>2, <4>4 DEF HasSoFar
        <5>3. Continues(f, want, f.data, f.cid, f.cmd)
          BY <1>2, <3>1, <4>1, <4>2, <5>1, <5>2 DEF Continues, AtHead, Commands
        <5> QED BY <5>3 DEF Outcome
      <4> QED BY <4>3, <4>4
    <3> QED BY <3>3, <3>4
  <2> QED BY <2>1, <2>2 DEF AtHead
<1>4. CASE host.pc = "more" /\ U2fNext(f)
  <2> DEFINE data == host.buf \o f.data
  <2>1. IF Len(data) >= host.want THEN U2fDone(f, data, host.cid, host.cmd, host.want)
        ELSE ReadsOn(host.want, data, host.cid, host.cmd)
    BY <1>4 DEF U2fNext
  <2>2. CASE host.cmd # "HWW"
    <3>1. CASE Len(data) >= host.want
      BY <2>1, <2>2, <3>1 DEF U2fDone, Outcome
    <3>2. CASE ~(Len(data) >= host.want)
      <4>1. Continues(f, host.want, data, host.cid, host.cmd)
        BY <1>2, <2>1, <2>2, <3>2 DEF Continues
      <4> QED BY <4>1 DEF Outcome
    <3> QED BY <3>1, <3>2
  <2>3. CASE host.cmd = "HWW"
    <3>1. Reads(f)
      BY <1>4, <2>3 DEF FramingInv, Reading, AtHead
    <3>2. /\ Piece("a", f) /\ host.want = calls[f.of].a /\ host.cid = f.of
          /\ Begins(host.buf, Message("a", f.of), Start(f.nr))
      BY <3>1 DEF Reads
    <3>3. /\ Len(data) >= calls[f.of].a <=> Ends("a", f)
          /\ ~Ends("a", f) => Begins(data, Message("a", f.of), Start(f.nr + 1))
          /\ Ends("a", f) => SubSeq(data, 1, calls[f.of].a) = Answer(f.of)
      BY <1>1, <3>2, ReadPiece DEF AtHead
    <3> HIDE DEF data
    <3>4. CASE Ends("a", f)
      <4>1. U2fDone(f, data, host.cid, host.cmd, host.want)
        BY <2>1, <3>2, <3>3, <3>4
      <4>2. CASE host.cid # host.call
        BY <4>1, <4>2 DEF U2fDone, Outcome
      <4>3. CASE host.cid = host.call
        <5>1. Returns(SubSeq(data, 1, host.want), f.of)
          BY <2>3, <4>1, <4>3 DEF U2fDone
        <5>2. SubSeq(data, 1, host.want) = Answer(f.of)
          BY <3>2, <3>3, <3>4
        <5>3. Returns(Answer(f.of), f.of)
          BY <5>1, <5>2
        <5> QED BY <3>2, <3>4, <4>3, <5>3 DEF Outcome, Finishes
      <4> QED BY <4>2, <4>3
    <3>5. CASE ~Ends("a", f)
      <4>1. ReadsOn(host.want, data, host.cid, host.cmd)
        BY <2>1, <3>2, <3>3, <3>5
      <4>2. HasSoFar(f, host.want, data, host.cid)
        BY <3>2, <3>3, <3>5 DEF HasSoFar
      <4>3. Continues(f, host.want, data, host.cid, host.cmd)
        BY <1>2, <4>1, <4>2 DEF Continues, data
      <4> QED BY <4>3 DEF Outcome
    <3> QED BY <3>4, <3>5
  <2> QED BY <2>2, <2>3
<1> QED BY <1>3, <1>4

\* The reader of the Digital Bitbox.
LEMMA DbbOutcome ==
    ASSUME FramingInv, link = "dbb", NEW f, AtHead(f),
           \/ host.pc = "first" /\ DbbFirst(f)
           \/ host.pc = "more" /\ DbbNext(f)
    PROVE  Outcome(f)
<1>1. Typed
  BY DEF FramingInv
<1>2. /\ host.want \in Nat /\ host.buf \in Seq(Cell) /\ host.cmd \in Commands
      /\ host.buf \o f.data \in Seq(Cell)
      /\ f.of \in Nat /\ calls[f.of].a \in Nat
      /\ Report * 4 \in Nat
  BY ReaderTypes
<1>3. CASE host.pc = "first" /\ DbbFirst(f)
  <2>1. Piece("a", f)
    BY DEF AtHead, Error
  <2>2. f.cmd = IF f.nr = 1 THEN "HWW" ELSE "seq"
    BY <2>1 DEF Piece, Fields
  <2>3. PICK want \in Announced(f) :
           IF Len(f.data) >= want THEN DbbDone(f, f.data, f.cmd) ELSE ReadsOn(want, f.data, 0, f.cmd)
    BY <1>3 DEF DbbFirst
  <2>4. CASE f.nr # 1
    <3>1. f.cmd = "seq" /\ want \in {0, Report * 4}
      BY <2>2, <2>3, <2>4 DEF Announced
    <3>2. want \in Nat
      BY <1>2, <3>1
    <3>3. CASE Len(f.data) >= want
      BY <2>3, <3>1, <3>3 DEF DbbDone, Outcome
    <3>4. CASE ~(Len(f.data) >= want)
      <4>1. Continues(f, want, f.data, 0, f.cmd)
        BY <2>3, <3>1, <3>2, <3>4 DEF Continues, AtHead, Commands
      <4> QED BY <4>1 DEF Outcome
    <3> QED BY <3>3, <3>4
  <2>5. CASE f.nr = 1
    <3>1. f.cmd = "HWW" /\ want = f.len
      BY <2>2, <2>3, <2>5 DEF Announced
    <3>2. /\ f.len = calls[f.of].a
          /\ Len(f.data) >= calls[f.of].a <=> Ends("a", f)
          /\ ~Ends("a", f) => Begins(f.data, Message("a", f.of), Start(f.nr + 1))
          /\ Ends("a", f) => Unpadded(f.data) = Answer(f.of)
      BY <1>1, <2>1, <2>5, ReadFirstPiece DEF AtHead
    <3>3. CASE Ends("a", f)
      <4>1. DbbDone(f, f.data, f.cmd)
        BY <2>3, <3>1, <3>2, <3>3
      <4>2. Returns(Unpadded(f.data), f.of)
        BY <3>1, <4>1 DEF DbbDone
      <4>3. Returns(Answer(f.of), f.of)
        BY <3>2, <3>3, <4>2
      <4> QED BY <3>3, <4>3 DEF Outcome, Finishes
    <3>4. CASE ~Ends("a", f)
      <4>1. ReadsOn(want, f.data, 0, f.cmd)
        BY <2>3, <3>1, <3>2, <3>4
      <4>2. HasSoFar(f, want, f.data, 0)
        BY <2>1, <3>1, <3>2, <3>4 DEF HasSoFar
      <4>3. Continues(f, want, f.data, 0, f.cmd)
        BY <1>2, <3>1, <3>2, <4>1, <4>2 DEF Continues, AtHead, Commands
      <4> QED BY <4>3 DEF Outcome
    <3> QED BY <3>3, <3>4
  <2> QED BY <2>4, <2>5
<1>4. CASE host.pc = "more" /\ DbbNext(f)
  <2> DEFINE data == host.buf \o f.data
  <2>1. IF Len(data) >= host.want THEN DbbDone(f, data, host.cmd)
        ELSE ReadsOn(host.want, data, 0, host.cmd)
    BY <1>4 DEF DbbNext
  <2>2. CASE host.cmd # "HWW"
    <3>1. CASE Len(data) >= host.want
      BY <2>1, <2>2, <3>1 DEF DbbDone, Outcome
    <3>2. CASE ~(Len(data) >= host.want)
      <4>1. Continues(f, host.want, data, 0, host.cmd)
        BY <1>2, <2>1, <2>2, <3>2 DEF Continues
      <4> QED BY <4>1 DEF Outcome
    <3> QED BY <3>1, <3>2
  <2>3. CASE host.cmd = "HWW"
    <3>1. Reads(f)
      BY <1>4, <2>3 DEF FramingInv, Reading, AtHead
    <3>2. /\ Piece("a", f) /\ host.want = calls[f.of].a
          /\ Begins(host.buf, Message("a", f.of), Start(f.nr))
      BY <3>1 DEF Reads
    <3>3. /\ Len(data) >= calls[f.of].a <=> Ends("a", f)
          /\ ~Ends("a", f) => Begins(data, Message("a", f.of), Start(f.nr + 1))
          /\ Ends("a", f) => Unpadded(data) = Answer(f.of)
      BY <1>1, <3>2, ReadPiece DEF AtHead
    <3> HIDE DEF data
    <3>4. CASE Ends("a", f)
      <4>1. DbbDone(f, data, host.cmd)
        BY <2>1, <3>2, <3>3, <3>4
      <4>2. Returns(Unpadded(data), f.of)
        BY <2>3, <4>1 DEF DbbDone
      <4>3. Returns(Answer(f.of), f.of)
        BY <3>3, <3>4, <4>2
      <4> QED BY <3>4, <4>3 DEF Outcome, Finishes
    <3>5. CASE ~Ends("a", f)
      <4>1. ReadsOn(host.want, data, 0, host.cmd)
        BY <2>1, <3>2, <3>3, <3>5
      <4>2. HasSoFar(f, host.want, data, 0)
        BY <3>2, <3>3, <3>5 DEF HasSoFar
      <4>3. Continues(f, host.want, data, 0, host.cmd)
        BY <1>2, <4>1, <4>2 DEF Continues, data
      <4> QED BY <4>3 DEF Outcome
    <3> QED BY <3>4, <3>5
  <2> QED BY <2>2, <2>3
<1> QED BY <1>3, <1>4

\* The readers of the Ledger and of Trezor, which refuse a frame that is not a
\* first one and go on alike.
HeaderFirst(f) ==
    IF Len(f.data) >= f.len THEN Returns(SubSeq(f.data, 1, f.len), f.of)
    ELSE ReadsOn(f.len, f.data, 0, "HWW")
HeaderNext(f) ==
    IF Len(host.buf \o f.data) >= host.want
    THEN Returns(SubSeq(host.buf \o f.data, 1, host.want), f.of)
    ELSE ReadsOn(host.want, host.buf \o f.data, 0, "HWW")

\* Their common part.
LEMMA HeaderOutcome ==
    ASSUME FramingInv, link \in {"ledger"} \cup Trezor, NEW f, AtHead(f),
           \/ host.pc = "first" /\ f.nr = 1 /\ HeaderFirst(f)
           \/ host.pc = "more" /\ HeaderNext(f)
    PROVE  Outcome(f)
<1>1. Typed /\ link \notin {"u2f", "dbb", "ckcc"}
  BY DEF FramingInv, Trezor
<1>2. /\ host.want \in Nat /\ host.buf \in Seq(Cell)
      /\ host.buf \o f.data \in Seq(Cell)
      /\ f.of \in Nat /\ calls[f.of].a \in Nat
  BY ReaderTypes
<1>3. Piece("a", f)
  BY <1>1 DEF AtHead, Error
<1>4. CASE host.pc = "first" /\ f.nr = 1 /\ HeaderFirst(f)
  <2>1. /\ f.len = calls[f.of].a
        /\ Len(f.data) >= calls[f.of].a <=> Ends("a", f)
        /\ ~Ends("a", f) => Begins(f.data, Message("a", f.of), Start(f.nr + 1))
        /\ Ends("a", f) => SubSeq(f.data, 1, calls[f.of].a) = Answer(f.of)
    BY <1>1, <1>3, <1>4, ReadFirstPiece DEF AtHead
  <2>2. CASE Ends("a", f)
    <3>1. Returns(SubSeq(f.data, 1, f.len), f.of)
      BY <1>4, <2>1, <2>2 DEF HeaderFirst
    <3>2. SubSeq(f.data, 1, f.len) = Answer(f.of)
      BY <2>1, <2>2
    <3>3. Returns(Answer(f.of), f.of)
      BY <3>1, <3>2
    <3> QED BY <1>1, <2>2, <3>3 DEF Outcome, Finishes
  <2>3. CASE ~Ends("a", f)
    <3>1. ReadsOn(f.len, f.data, 0, "HWW")
      BY <1>4, <2>1, <2>3 DEF HeaderFirst
    <3>2. HasSoFar(f, f.len, f.data, 0)
      BY <1>1, <1>3, <2>1, <2>3 DEF HasSoFar
    <3>3. Continues(f, f.len, f.data, 0, "HWW")
      BY <1>2, <2>1, <3>1, <3>2 DEF Continues, AtHead, Commands
    <3> QED BY <3>3 DEF Outcome
  <2> QED BY <2>2, <2>3
<1>5. CASE host.pc = "more" /\ HeaderNext(f)
  <2> DEFINE data == host.buf \o f.data
  <2>1. IF Len(data) >= host.want THEN Returns(SubSeq(data, 1, host.want), f.of)
        ELSE ReadsOn(host.want, data, 0, "HWW")
    BY <1>5 DEF HeaderNext
  <2>2. Reads(f)
    BY <1>1, <1>5 DEF FramingInv, Reading, AtHead
  <2>3. host.want = calls[f.of].a /\ Begins(host.buf, Message("a", f.of), Start(f.nr))
    BY <2>2 DEF Reads
  <2>4. /\ Len(data) >= calls[f.of].a <=> Ends("a", f)
        /\ ~Ends("a", f) => Begins(data, Message("a", f.of), Start(f.nr + 1))
        /\ Ends("a", f) => SubSeq(data, 1, calls[f.of].a) = Answer(f.of)
    BY <1>1, <1>3, <2>3, ReadPiece DEF AtHead
  <2> HIDE DEF data
  <2>5. CASE Ends("a", f)
    <3>1. Returns(SubSeq(data, 1, host.want), f.of)
      BY <2>1, <2>3, <2>4, <2>5
    <3>2. SubSeq(data, 1, host.want) = Answer(f.of)
      BY <2>3, <2>4, <2>5
    <3>3. Returns(Answer(f.of), f.of)
      BY <3>1, <3>2
    <3> QED BY <1>1, <2>5, <3>3 DEF Outcome, Finishes
  <2>6. CASE ~Ends("a", f)
    <3>1. ReadsOn(host.want, data, 0, "HWW")
      BY <2>1, <2>3, <2>4, <2>6
    <3>2. HasSoFar(f, host.want, data, 0)
      BY <1>1, <1>3, <2>3, <2>4, <2>6 DEF HasSoFar
    <3>3. Continues(f, host.want, data, 0, "HWW")
      BY <1>2, <3>1, <3>2 DEF Continues, data, Commands
    <3> QED BY <3>3 DEF Outcome
  <2> QED BY <2>5, <2>6
<1> QED BY <1>4, <1>5

\* HID.recv asserts the sequence number of the first frame.
LEMMA LedgerOutcome ==
    ASSUME FramingInv, link = "ledger", NEW f, AtHead(f),
           \/ host.pc = "first" /\ LedgerFirst(f)
           \/ host.pc = "more" /\ LedgerNext(f)
    PROVE  Outcome(f)
<1>1. Piece("a", f)
  BY DEF AtHead, Error
<1>2. f.seq = f.nr - 1 /\ f.nr \in Nat
  BY <1>1 DEF Piece, Fields, AtHead
<1>3. CASE host.pc = "first" /\ LedgerFirst(f)
  <2>1. CASE f.seq # 0
    BY <1>3, <2>1 DEF LedgerFirst, Outcome
  <2>2. CASE f.seq = 0
    <3>1. f.nr = 1 /\ HeaderFirst(f)
      BY <1>2, <1>3, <2>2 DEF LedgerFirst, HeaderFirst
    <3> QED BY <1>3, <3>1, HeaderOutcome
  <2> QED BY <2>1, <2>2
<1>4. CASE host.pc = "more" /\ LedgerNext(f)
  <2>1. HeaderNext(f)
    BY <1>4 DEF LedgerNext, HeaderNext
  <2> QED BY <1>4, <2>1, HeaderOutcome
<1> QED BY <1>3, <1>4

\* ProtocolV1.read_first wants the marks.
LEMMA TrezorOutcome ==
    ASSUME FramingInv, link \in Trezor, NEW f, AtHead(f),
           \/ host.pc = "first" /\ TrezorFirst(f)
           \/ host.pc = "more" /\ TrezorNext(f)
    PROVE  Outcome(f)
<1>1. Piece("a", f)
  BY DEF AtHead, Error, Trezor
<1>2. f.marked = (f.nr = 1)
  BY <1>1 DEF Piece, Fields
<1>3. CASE host.pc = "first" /\ TrezorFirst(f)
  <2>1. CASE ~f.marked
    BY <1>3, <2>1 DEF TrezorFirst, Outcome
  <2>2. CASE f.marked
    <3>1. f.nr = 1 /\ HeaderFirst(f)
      BY <1>2, <1>3, <2>2 DEF TrezorFirst, HeaderFirst
    <3> QED BY <1>3, <3>1, HeaderOutcome
  <2> QED BY <2>1, <2>2
<1>4. CASE host.pc = "more" /\ TrezorNext(f)
  <2>1. HeaderNext(f)
    BY <1>4 DEF TrezorNext, HeaderNext
  <2> QED BY <1>4, <2>1, HeaderOutcome
<1> QED BY <1>3, <1>4

\* The reader of the Coldcard.
LEMMA CkccOutcome ==
    ASSUME FramingInv, link = "ckcc", NEW f, AtHead(f), CkccRead(f)
    PROVE  Outcome(f) /\ inStep' \in BOOLEAN
<1>1. Typed /\ inStep \in BOOLEAN
  BY DEF FramingInv, Typed
<1>2. host.buf \in Seq(Cell) /\ host.buf \o f.data \in Seq(Cell)
  BY ReaderTypes
<1>3. Piece("a", f)
  BY DEF AtHead, Error
<1> DEFINE data == host.buf \o f.data
<1>4. CASE ~f.last
  <2>1. ReadsOn(0, data, 0, "HWW") /\ inStep' = inStep
    BY <1>4 DEF CkccRead
  <2>2. Continues(f, 0, data, 0, "HWW")
    BY <1>2, <2>1 DEF Continues, Commands
  <2> QED BY <1>1, <2>1, <2>2 DEF Outcome
<1>5. CASE f.last /\ inStep /\ AnswerIn(data, f.of) # 0
  <2>1. Returns(data, f.of) /\ inStep' = inStep
    BY <1>5 DEF CkccRead
  <2>2. data = Answer(f.of) /\ Ends("a", f)
    BY <1>1, <1>2, <1>3, <1>5, DecodesOwn DEF AtHead
  <2> HIDE DEF data
  <2>3. Finishes(f)
    BY <2>1, <2>2 DEF Finishes
  <2> QED BY <1>1, <2>1, <2>3 DEF Outcome
<1>6. CASE f.last /\ ~(inStep /\ AnswerIn(data, f.of) # 0)
  BY <1>6 DEF CkccRead, Outcome
<1> QED BY <1>4, <1>5, <1>6

----------------------------------------------------------------------------
(* The steps of the readers                                                *)

\* Reading takes the frame at the head and has one of the three outcomes.
LEMMA ReadOutcome ==
    ASSUME FramingInv, ReadFirst \/ ReadNext
    PROVE  \E f : Take(f) /\ AtHead(f) /\ Outcome(f) /\ host.pc # "idle" /\ inStep' \in BOOLEAN
<1> DEFINE f == Head(wire)
<1>1. host.pc # "idle" /\ Take(f) /\ inStep \in BOOLEAN
  BY DEF ReadFirst, ReadNext, FramingInv, Typed
<1> HIDE DEF f
<1>2. AtHead(f)
  BY <1>1, ReadHead DEF AtHead
<1>3. Outcome(f) /\ inStep' \in BOOLEAN
  <2>1. CASE link = "u2f"
    <3>1. /\ \/ host.pc = "first" /\ U2fFirst(f)
             \/ host.pc = "more" /\ U2fNext(f)
          /\ inStep' = inStep
      BY <2>1 DEF ReadFirst, ReadNext, Trezor, f
    <3> QED BY <1>1, <1>2, <2>1, <3>1, U2fOutcome
  <2>2. CASE link = "dbb"
    <3>1. /\ \/ host.pc = "first" /\ DbbFirst(f)
             \/ host.pc = "more" /\ DbbNext(f)
          /\ inStep' = inStep
      BY <2>2 DEF ReadFirst, ReadNext, Trezor, f
    <3> QED BY <1>1, <1>2, <2>2, <3>1, DbbOutcome
  <2>3. CASE link = "ledger"
    <3>1. /\ \/ host.pc = "first" /\ LedgerFirst(f)
             \/ host.pc = "more" /\ LedgerNext(f)
          /\ inStep' = inStep
      BY <2>3 DEF ReadFirst, ReadNext, Trezor, f
    <3> QED BY <1>1, <1>2, <2>3, <3>1, LedgerOutcome
  <2>4. CASE link \in Trezor
    <3>1. /\ \/ host.pc = "first" /\ TrezorFirst(f)
             \/ host.pc = "more" /\ TrezorNext(f)
          /\ inStep' = inStep
      BY <2>4 DEF ReadFirst, ReadNext, Trezor, f
    <3> QED BY <1>1, <1>2, <2>4, <3>1, TrezorOutcome
  <2>5. CASE link = "ckcc"
    <3>1. CkccRead(f)
      BY <2>5 DEF ReadFirst, ReadNext, Trezor, f
    <3> QED BY <1>2, <2>5, <3>1, CkccOutcome
  <2>6. link \in Links
    BY DEF FramingInv, Typed
  <2> QED BY <2>1, <2>2, <2>3, <2>4, <2>5, <2>6 DEF Links, Trezor
<1> QED BY <1>1, <1>2, <1>3

\* What the steps of the readers have in common.
ReaderStep ==
    /\ host.pc # "idle"
    /\ UNCHANGED <<link, opened, calls, dev, faults>>
    /\ wire' \in Seq(Frame)
    /\ inStep' \in BOOLEAN
    /\ Line("a", Stream') /\ Ofs(Stream') \subseteq Ofs(Stream)

\* Taking a frame leaves a line.
LEMMA TakeIsReaderStep ==
    ASSUME FramingInv, NEW f, Take(f), host.pc # "idle", inStep' \in BOOLEAN
    PROVE  ReaderStep
<1>1. /\ Stream # << >> /\ Stream' = Tail(Stream) /\ wire' \in Seq(Frame)
      /\ UNCHANGED <<link, opened, calls, dev, faults>>
  BY ReadHead
<1>2. Line("a", Stream) /\ Stream \in Seq(Frame)
  BY Queues
<1>3. Line("a", Tail(Stream))
  BY <1>1, <1>2, LineTail
<1>4. Ofs(Tail(Stream)) \subseteq Ofs(Stream)
  BY <1>1, <1>2, OfsFacts
<1>5. Line("a", Stream') /\ Ofs(Stream') \subseteq Ofs(Stream)
  BY <1>1, <1>3, <1>4
<1> QED BY <1>1, <1>5 DEF ReaderStep

\* A call that fails.
LEMMA RaisesStep ==
    ASSUME FramingInv, ReaderStep, Raises
    PROVE  FramingInv'
<1>1. Typed
  BY DEF FramingInv
<1>2. /\ host.pc # "idle" /\ UNCHANGED <<link, opened, calls, dev, faults>>
      /\ wire' \in Seq(Frame) /\ inStep' \in BOOLEAN
      /\ Line("a", Stream') /\ Ofs(Stream') \subseteq Ofs(Stream)
  BY DEF ReaderStep
<1>3. /\ result' = [call |-> host.call, ok |-> FALSE, data |-> << >>]
      /\ owed' = owed \cup {host.call} /\ host' = Idle /\ given' = given
  BY DEF Raises
<1>4. Persists
  BY <1>2 DEF Persists
<1>5. host.call \in DOMAIN calls /\ host.call \in Nat
  BY <1>2, CallNumbers
<1>6. Typed'
  <2>1. \A n : Sendable(n)' <=> Sendable(n)
    BY <1>2, SameCutting
  <2>2. \A k \in DOMAIN calls' : Sendable(calls[k].q)' /\ Sendable(calls[k].a)'
    BY <1>1, <1>2, <2>1 DEF Typed
  <2>3. host' \in [pc : {"idle", "first", "more"}, call : Nat, cid : Nat, cmd : Commands,
                   want : Nat, buf : Seq(Cell), timed : BOOLEAN]
    BY <1>3 DEF Idle, Commands
  <2>4. result' \in [call : Nat, ok : BOOLEAN, data : Seq(Cell)] /\ ~result'.ok
    BY <1>3, <1>5
  <2>5. host'.pc = "idle" /\ host' = Idle
    BY <1>3 DEF Idle
  <2>6. owed' \subseteq DOMAIN calls' /\ given' \subseteq DOMAIN calls'
    BY <1>1, <1>2, <1>3, <1>5 DEF Typed
  <2> QED BY <1>1, <1>2, <2>2, <2>3, <2>4, <2>5, <2>6 DEF Typed
<1>7. Lined'
  <2>1. Line("q", dev'.in) /\ Ofs(dev'.in) \subseteq Ofs(dev.in)
    BY <1>2, Queues
  <2> QED BY <1>2, <1>3, <1>4, <2>1, LinedShrinks
<1>8. Gathered'
  BY <1>2, <1>4, GatheredKeeps
<1>9. Reading' /\ OwnAnswer'
  BY <1>3 DEF Reading, OwnAnswer, Idle
<1> QED BY <1>6, <1>7, <1>8, <1>9 DEF FramingInv

\* What follows the frame at the head: frames of later calls behind the last
\* frame of an answer, the next frame of the answer behind another.
LEMMA AfterHead ==
    ASSUME FramingInv, NEW f, AtHead(f)
    PROVE  /\ Ends("a", f) => \A k \in Ofs(Tail(Stream)) : f.of < k
           /\ \A l \in Ofs(dev.in) : f.of < l
           /\ ~Ends("a", f) => /\ Tail(Stream) # << >>
                               /\ Tail(Stream)[1].of = f.of
                               /\ Tail(Stream)[1].nr = f.nr + 1
                               /\ Piece("a", Tail(Stream)[1])
<1> DEFINE s == Stream
<1>1. f = s[1] /\ s # << >> /\ Line("a", s) /\ s \in Seq(Frame)
  BY Queues DEF AtHead
<1>2. f.of \in Ofs(s)
  BY <1>1, OfsFacts
<1>3. \A l \in Ofs(dev.in) : f.of < l
  BY <1>2 DEF FramingInv, Lined
<1> HIDE DEF s
<1>4. /\ Len(Tail(s)) = Len(s) - 1 /\ Len(s) \in Nat /\ Len(s) > 0 /\ Tail(s) \in Seq(Frame)
      /\ \A i \in 1..Len(Tail(s)) : Tail(s)[i] = s[i + 1]
  BY <1>1, LineTail
<1>5. ASSUME Ends("a", f), NEW k \in Ofs(Tail(s)) PROVE f.of < k
  <2>1. PICK i \in 1..Len(Tail(s)) : k = Tail(s)[i].of
    BY DEF Ofs
  <2>2. i + 1 \in 1..Len(s) /\ 1 \in 1..Len(s) /\ 1 < i + 1 /\ k = s[i + 1].of
    BY <1>4, <2>1
  <2>3. \A n, l \in 1..Len(s) : n < l => (Ends("a", s[n]) => s[n].of < s[l].of)
    BY <1>1 DEF Line
  <2> QED BY <1>1, <1>5, <2>2, <2>3
<1>6. ASSUME ~Ends("a", f)
      PROVE  /\ Tail(s) # << >> /\ Tail(s)[1].of = f.of /\ Tail(s)[1].nr = f.nr + 1
             /\ Piece("a", Tail(s)[1])
  <2>1. Len(s) # 1
    BY <1>1, <1>4, <1>6 DEF Line
  <2>2. 1 \in 1..(Len(s) - 1) /\ 1 \in 1..Len(Tail(s)) /\ 1 + 1 = 2
    BY <1>4, <2>1
  <2>3. /\ s[1 + 1].of = s[1].of /\ s[1 + 1].nr = s[1].nr + 1 /\ Piece("a", s[1 + 1])
    BY <1>1, <1>6, <2>2 DEF Line
  <2>4. Tail(s)[1] = s[1 + 1]
    BY <1>4, <2>2
  <2>5. Tail(s) # << >>
    <3> DEFINE t == Tail(s)
    <3>1. t \in Seq(Frame) /\ 1 \in 1..Len(t)
      BY <1>4, <2>2
    <3> HIDE DEF t
    <3>2. t # << >>
      BY <3>1
    <3> QED BY <3>2 DEF t
  <2> QED BY <1>1, <2>3, <2>4, <2>5
<1> QED BY <1>3, <1>5, <1>6 DEF s

\* A call that returns the answer which the frame completes.
LEMMA FinishesStep ==
    ASSUME FramingInv, NEW f, Take(f), AtHead(f), ReaderStep, Finishes(f)
    PROVE  FramingInv'
<1>1. Typed
  BY DEF FramingInv
<1>2. /\ host.pc # "idle" /\ UNCHANGED <<link, opened, calls, dev, faults>>
      /\ wire' \in Seq(Frame) /\ inStep' \in BOOLEAN
      /\ Line("a", Stream') /\ Ofs(Stream') \subseteq Ofs(Stream)
  BY DEF ReaderStep
<1>3. f.of \in DOMAIN calls /\ f.of \in (owed \cup {host.call}) \ given /\ Stream' = Tail(Stream)
  BY <1>2, ReadHead
<1>4. AnswerIn(Answer(f.of), f.of) = f.of
  BY <1>1, <1>3, AnswerInOwn
<1>5. /\ result' = [call |-> host.call, ok |-> TRUE, data |-> Answer(f.of)]
      /\ given' = given \cup {f.of}
      /\ owed' = (owed \cup {host.call}) \ {f.of}
      /\ host' = Idle
      /\ Ends("a", f) /\ (link = "u2f" => f.of = host.call)
  BY <1>4 DEF Finishes, Returns
<1>6. Persists
  BY <1>2 DEF Persists
<1>7. /\ host.call \in DOMAIN calls /\ host.call \in Nat /\ host.call = Len(calls)
      /\ f.of \in Nat /\ f.of <= host.call
  <2>1. DOMAIN calls = 1..Len(calls) /\ Len(calls) \in Nat
    BY CallNumbers
  <2>2. host.call \in DOMAIN calls /\ host.call \in Nat
    BY <1>2, CallNumbers
  <2>3. host.call = Len(calls)
    BY <1>1, <1>2 DEF Typed
  <2> QED BY <1>3, <2>1, <2>2, <2>3
<1>8. Answer(f.of) \in Seq(Cell)
  BY <1>1, <1>3, Messages, SidesNamed DEF Sides
<1>9. Typed'
  <2>1. \A n : Sendable(n)' <=> Sendable(n)
    BY <1>2, SameCutting
  <2>2. \A k \in DOMAIN calls' : Sendable(calls[k].q)' /\ Sendable(calls[k].a)'
    BY <1>1, <1>2, <2>1 DEF Typed
  <2>3. host' \in [pc : {"idle", "first", "more"}, call : Nat, cid : Nat, cmd : Commands,
                   want : Nat, buf : Seq(Cell), timed : BOOLEAN]
    BY <1>5 DEF Idle, Commands
  <2>4. result' \in [call : Nat, ok : BOOLEAN, data : Seq(Cell)] /\ result'.call \in DOMAIN calls'
    BY <1>2, <1>5, <1>7, <1>8
  <2>5. host'.pc = "idle" /\ host' = Idle
    BY <1>5 DEF Idle
  <2>6. owed' \subseteq DOMAIN calls' /\ given' \subseteq DOMAIN calls'
    BY <1>1, <1>2, <1>3, <1>5, <1>7 DEF Typed
  <2> QED BY <1>1, <1>2, <2>2, <2>3, <2>4, <2>5, <2>6 DEF Typed
<1>10. Lined'
  <2>1. Line("q", dev'.in) /\ Ofs(dev'.in) \subseteq Ofs(dev.in)
    BY <1>2, Queues
  <2>2. \A k \in Ofs(Stream') \cup Ofs(dev'.in) : f.of < k
    BY <1>2, <1>3, <1>5, AfterHead
  <2>3. f.of \notin Ofs(Stream') \cup Ofs(dev'.in)
    BY <1>7, <2>2
  <2>4. \A k \in Ofs(Stream') \cup Ofs(dev'.in) :
           k \in (owed \cup {host.call}) \ given => k \in (owed' \cup {host'.call}) \ given'
    BY <1>5, <2>3
  <2> QED BY <1>2, <1>6, <2>1, <2>4, LinedShrinks
<1>11. Gathered'
  BY <1>2, <1>6, GatheredKeeps
<1>12. Reading'
  BY <1>5 DEF Reading, Idle
<1>13. OwnAnswer'
  <2>1. \A k \in DOMAIN calls : Answer(k)' = Answer(k)
    BY <1>6, LinePersists
  <2>2. result'.call = host.call /\ result'.data = Answer(f.of)
    BY <1>5
  <2>3. CASE f.of = host.call
    BY <1>3, <2>1, <2>2, <2>3 DEF OwnAnswer
  <2>4. CASE f.of # host.call
    <3>1. f.of < host.call /\ link' # "u2f" /\ f.of \in given'
      BY <1>2, <1>5, <1>7, <2>4
    <3> QED BY <1>3, <2>1, <2>2, <3>1 DEF OwnAnswer
  <2> QED BY <2>3, <2>4
<1> QED BY <1>9, <1>10, <1>11, <1>12, <1>13 DEF FramingInv

\* A reader that goes on.
LEMMA ContinuesStep ==
    ASSUME FramingInv, NEW f, Take(f), AtHead(f), ReaderStep,
           NEW want, NEW buf, NEW cid, NEW cmd, Continues(f, want, buf, cid, cmd)
    PROVE  FramingInv'
<1>1. Typed
  BY DEF FramingInv
<1>2. /\ host.pc # "idle" /\ UNCHANGED <<link, opened, calls, dev, faults>>
      /\ wire' \in Seq(Frame) /\ inStep' \in BOOLEAN
      /\ Line("a", Stream') /\ Ofs(Stream') \subseteq Ofs(Stream)
  BY DEF ReaderStep
<1>3. f.of \in DOMAIN calls /\ Stream' = Tail(Stream)
  BY <1>2, ReadHead
<1>4. /\ host' = [host EXCEPT !.pc = "more", !.want = want, !.buf = buf, !.cid = cid, !.cmd = cmd]
      /\ UNCHANGED <<result, owed, given>>
      /\ want \in Nat /\ buf \in Seq(Cell) /\ cid \in Nat /\ cmd \in Commands
  BY DEF Continues, ReadsOn
<1>5. /\ host \in [pc : {"idle", "first", "more"}, call : Nat, cid : Nat, cmd : Commands,
                   want : Nat, buf : Seq(Cell), timed : BOOLEAN]
      /\ opened /\ host.call = Len(calls) /\ host.call > 0
  BY <1>1, <1>2 DEF Typed
<1>6. /\ host' \in [pc : {"idle", "first", "more"}, call : Nat, cid : Nat, cmd : Commands,
                    want : Nat, buf : Seq(Cell), timed : BOOLEAN]
      /\ host'.pc = "more" /\ host'.call = host.call /\ host'.want = want /\ host'.buf = buf
      /\ host'.cid = cid /\ host'.cmd = cmd
  BY <1>4, <1>5
<1>7. Persists
  BY <1>2 DEF Persists
<1>8. Typed'
  <2>1. \A n : Sendable(n)' <=> Sendable(n)
    BY <1>2, SameCutting
  <2>2. \A k \in DOMAIN calls' : Sendable(calls[k].q)' /\ Sendable(calls[k].a)'
    BY <1>1, <1>2, <2>1 DEF Typed
  <2>3. opened' /\ host'.call = Len(calls') /\ host'.call > 0
    BY <1>2, <1>5, <1>6
  <2>4. /\ host'.pc # "idle" /\ host'.pc # "first"
    BY <1>6
  <2> QED BY <1>1, <1>2, <1>4, <1>6, <2>2, <2>3, <2>4 DEF Typed
<1>9. Lined'
  <2>1. Line("q", dev'.in) /\ Ofs(dev'.in) \subseteq Ofs(dev.in)
    BY <1>2, Queues
  <2>2. (owed \cup {host.call}) \ given = (owed' \cup {host'.call}) \ given'
    BY <1>4, <1>6
  <2> QED BY <1>2, <1>7, <2>1, <2>2, LinedShrinks
<1>10. Gathered'
  BY <1>2, <1>7, GatheredKeeps
<1>11. OwnAnswer'
  BY <1>4, <1>7, OwnAnswerKeeps
<1>12. Reading'
  <2>1. CASE link = "ckcc"
    BY <1>2, <2>1 DEF Reading
  <2>2. CASE link \in {"u2f", "dbb"} /\ cmd # "HWW"
    BY <1>2, <1>6, <2>2 DEF Reading
  <2>3. CASE HasSoFar(f, want, buf, cid)
    <3>1. /\ ~Ends("a", f) /\ want = calls[f.of].a
          /\ Begins(buf, Message("a", f.of), Start(f.nr + 1))
          /\ link = "u2f" => cid = f.of
      BY <2>3 DEF HasSoFar
    <3>2. PICK g : g = Tail(Stream)[1]
      OBVIOUS
    <3>3. /\ Stream' # << >> /\ Stream'[1] = g
          /\ g.of = f.of /\ g.nr = f.nr + 1 /\ Piece("a", g)
      BY <1>3, <3>1, <3>2, AfterHead
    <3>4. Piece("a", g)' /\ Message("a", g.of)' = Message("a", g.of)
      BY <1>3, <1>7, <3>3, LinePersists
    <3>5. \A j : Start(j)' = Start(j)
      BY <1>2, SameCutting
    <3>6. Begins(buf, Message("a", g.of), Start(g.nr))
      BY <3>1, <3>3
    <3>7. Begins(host.buf, Message("a", g.of), Start(g.nr))'
      BY <1>6, <3>4, <3>5, <3>6 DEF Begins
    <3>8. host'.want = calls'[g.of].a /\ (link' = "u2f" => host'.cid = g.of)
      BY <1>2, <1>6, <3>1, <3>3
    <3>9. Reads(g)'
      BY <3>4, <3>7, <3>8 DEF Reads
    <3> QED BY <3>3, <3>9 DEF Reading
  <2> QED BY <2>1, <2>2, <2>3 DEF Continues
<1> QED BY <1>8, <1>9, <1>10, <1>11, <1>12 DEF FramingInv

\* Reading, and giving up.
LEMMA ReaderKeeps ==
    ASSUME FramingInv, Reader
    PROVE  FramingInv'
<1>1. CASE ReadFirst \/ ReadNext
  <2>1. PICK f : Take(f) /\ AtHead(f) /\ Outcome(f) /\ host.pc # "idle" /\ inStep' \in BOOLEAN
    BY <1>1, ReadOutcome
  <2>2. ReaderStep
    BY <2>1, TakeIsReaderStep
  <2>3. CASE Raises
    BY <2>2, <2>3, RaisesStep
  <2>4. CASE Finishes(f)
    BY <2>1, <2>2, <2>4, FinishesStep
  <2>5. CASE \E want, buf, cid, cmd : Continues(f, want, buf, cid, cmd)
    BY <2>1, <2>2, <2>5, ContinuesStep
  <2> QED BY <2>1, <2>3, <2>4, <2>5 DEF Outcome
<1>2. CASE Timeout
  <2>1. Raises /\ host.pc # "idle" /\ UNCHANGED <<link, opened, calls, wire, dev, faults>>
    BY <1>2 DEF Timeout
  <2>2. inStep' \in BOOLEAN
    BY <1>2 DEF Timeout
  <2>3. Stream' = Stream
    BY <2>1 DEF Stream
  <2>4. wire \in Seq(Frame) /\ Line("a", Stream)
    BY Queues
  <2>5. ReaderStep
    BY <2>1, <2>2, <2>3, <2>4 DEF ReaderStep
  <2> QED BY <2>1, <2>5, RaisesStep
<1> QED BY <1>1, <1>2 DEF Reader

----------------------------------------------------------------------------
(* The theorems                                                            *)

\* Before the first call nothing is on its way.
LEMMA InitInv == Init => FramingInv
<1> SUFFICES ASSUME Init PROVE FramingInv
  OBVIOUS
<1>1. /\ link \in Links /\ opened = FALSE /\ calls = << >> /\ host = Idle /\ result = NoResult
      /\ wire = << >> /\ dev = FreshDevice /\ owed = {} /\ given = {} /\ inStep = TRUE /\ faults = 0
  BY DEF Init
<1>2. dev.in = << >> /\ dev.out = << >> /\ dev.buf = << >> /\ dev.alive = TRUE
  BY <1>1 DEF FreshDevice
<1>3. Stream = << >>
  BY <1>1, <1>2 DEF Stream
<1>4. Typed
  <2>1. calls \in Seq([q : Nat, a : Nat]) /\ DOMAIN calls = {}
    BY <1>1
  <2>2. host \in [pc : {"idle", "first", "more"}, call : Nat, cid : Nat, cmd : Commands,
                  want : Nat, buf : Seq(Cell), timed : BOOLEAN] /\ host.pc = "idle"
    BY <1>1 DEF Idle, Commands
  <2>3. result \in [call : Nat, ok : BOOLEAN, data : Seq(Cell)] /\ ~result.ok
    BY <1>1 DEF NoResult
  <2>4. dev \in [in : Seq(Frame), out : Seq(Frame), buf : Seq(Cell), alive : BOOLEAN]
    BY <1>1 DEF FreshDevice
  <2>5. wire \in Seq(Frame) /\ opened \in BOOLEAN /\ inStep \in BOOLEAN /\ faults \in Nat
    <3>1. wire \in Seq(Frame)
      BY <1>1
    <3>2. opened \in BOOLEAN /\ inStep \in BOOLEAN
      BY <1>1, Zenon
    <3>3. faults \in Nat
      BY <1>1
    <3> QED BY <3>1, <3>2, <3>3
  <2>6. \A k \in DOMAIN calls : Sendable(calls[k].q) /\ Sendable(calls[k].a)
    BY <2>1
  <2>7. owed \subseteq DOMAIN calls /\ given \subseteq DOMAIN calls /\ host = Idle /\ link \in Links
    BY <1>1
  <2> QED BY <2>1, <2>2, <2>3, <2>4, <2>5, <2>6, <2>7 DEF Typed
<1>5. Lined
  BY <1>2, <1>3, LineEmpty, OfsFacts DEF Lined
<1>6. Gathered
  BY <1>2 DEF Gathered
<1>7. Reading /\ OwnAnswer
  BY <1>1 DEF Reading, OwnAnswer, Idle, NoResult
<1> QED BY <1>4, <1>5, <1>6, <1>7 DEF FramingInv

\* Every step keeps the invariant.
LEMMA NextInv == FramingInv /\ [Next]_vars => FramingInv'
<1> SUFFICES ASSUME FramingInv, [Next]_vars PROVE FramingInv'
  OBVIOUS
<1>1. CASE Open
  BY <1>1, OpenStep
<1>2. CASE Close \/ Kill
  BY <1>2, LeaveStep
<1>3. CASE \E size \in Sizes : Call(size[1], size[2])
  <2>1. PICK size \in Sizes : Call(size[1], size[2])
    BY <1>3
  <2>2. size[1] \in Nat /\ size[2] \in Nat
    BY FramingAssumption
  <2> QED BY <2>1, <2>2, CallStep
<1>4. CASE DeviceTakes
  BY <1>4, DeviceTakesStep
<1>5. CASE DeviceSends
  BY <1>5, DeviceSendsStep
<1>6. CASE DeviceRefuses
  BY <1>6, DeviceRefusesStep
<1>7. CASE DeviceStops
  BY <1>7, DeviceStopsStep
<1>8. CASE Replug
  BY <1>8, ReplugStep
<1>9. CASE Reader
  BY <1>9, ReaderKeeps
<1>10. CASE UNCHANGED vars
  <2>1. UNCHANGED <<link, opened, calls, host, result, wire, dev, owed, given, inStep, faults>>
    BY <1>10 DEF vars
  <2>2. Persists /\ Stream' = Stream
    BY <2>1 DEF Persists, Stream
  <2>3. Typed'
    <3>1. \A n : Sendable(n)' <=> Sendable(n)
      BY <2>1, SameCutting
    <3>2. Typed
      BY DEF FramingInv
    <3>3. \A k \in DOMAIN calls' : Sendable(calls[k].q)' /\ Sendable(calls[k].a)'
      BY <2>1, <3>1, <3>2 DEF Typed
    <3> QED BY <2>1, <3>2, <3>3 DEF Typed
  <2>4. Line("a", Stream') /\ Line("q", dev'.in)
    BY <2>1, <2>2, Queues
  <2>5. Lined'
    BY <2>1, <2>2, <2>4, LinedShrinks
  <2>6. Gathered' /\ Reading' /\ OwnAnswer'
    BY <2>1, <2>2, GatheredKeeps, ReadingKeeps, OwnAnswerKeeps
  <2> QED BY <2>3, <2>5, <2>6 DEF FramingInv
<1> QED BY <1>1, <1>2, <1>3, <1>4, <1>5, <1>6, <1>7, <1>8, <1>9, <1>10 DEF Next, Device

\* The invariant holds in every state of every behaviour.
LEMMA Invariant == Spec => []FramingInv
  BY InitInv, NextInv, PTL DEF Spec

\* For every size of a report above nine bytes, all sizes of messages and any
\* number of calls and faults: what a call returns is one whole answer, its
\* own or, but for U2F, the answer to an earlier call that failed (the readers
\* of u2fhid.py, digitalbitbox.py, hid_device.py, protocol.py and
\* ckcc/client.py).
THEOREM AnswersAreOwn == Spec => []OwnAnswer
<1>1. FramingInv => OwnAnswer
  BY DEF FramingInv
<1> QED BY <1>1, Invariant, PTL

\* The steps of the readers are steps of the link: a frame that completes an
\* answer gives it, a call that fails may be owed its answer.
LEMMA ReaderLink ==
    ASSUME FramingInv, Reader
    PROVE  [Link!Next]_Link!vars
<1>1. host.call # 0
  <2>1. host.pc # "idle"
    BY DEF Reader, ReadFirst, ReadNext, Timeout
  <2> QED BY <2>1, CallNumbers
<1>2. CASE Raises
  BY <1>1, <1>2 DEF Raises, Idle, Link!Next, Link!Fail
<1>3. CASE ReadFirst \/ ReadNext
  <2>1. PICK f : Take(f) /\ AtHead(f) /\ Outcome(f) /\ host.pc # "idle"
    BY <1>3, ReadOutcome
  <2>2. CASE Finishes(f)
    <3>1. f.of \in DOMAIN calls /\ f.of \in (owed \cup {host.call}) \ given
      BY <2>1, ReadHead
    <3>2. AnswerIn(Answer(f.of), f.of) = f.of
      BY <3>1, AnswerInOwn DEF FramingInv
    <3>3. /\ given' = given \cup {f.of}
          /\ owed' \subseteq (owed \cup {host.call}) \ {f.of}
          /\ host'.call = 0
      BY <2>2, <3>2 DEF Finishes, Returns, Idle
    <3>4. Link!Return
      BY <1>1, <3>1, <3>3 DEF Link!Return
    <3> QED BY <3>4 DEF Link!Next
  <2>3. CASE \E want, buf, cid, cmd : Continues(f, want, buf, cid, cmd)
    <3>1. host'.call = host.call /\ UNCHANGED <<owed, given>>
      <4>1. PICK want, buf, cid, cmd : ReadsOn(want, buf, cid, cmd)
        BY <2>3 DEF Continues
      <4>2. host \in [pc : {"idle", "first", "more"}, call : Nat, cid : Nat, cmd : Commands,
                      want : Nat, buf : Seq(Cell), timed : BOOLEAN]
        BY DEF FramingInv, Typed
      <4> QED BY <4>1, <4>2 DEF ReadsOn
    <3> QED BY <3>1 DEF Link!vars
  <2> QED BY <1>2, <2>1, <2>2, <2>3 DEF Outcome
<1>4. CASE Timeout
  BY <1>2, <1>4 DEF Timeout
<1> QED BY <1>3, <1>4 DEF Reader

\* Every step is a step of the link or leaves it as it is.
LEMMA NextLink == FramingInv /\ [Next]_vars => [Link!Next]_Link!vars
<1> SUFFICES ASSUME FramingInv, [Next]_vars PROVE [Link!Next]_Link!vars
  OBVIOUS
<1>0. /\ host.pc = "idle" <=> host.call = 0
      /\ 0 \notin DOMAIN calls /\ DOMAIN calls = 1..Len(calls) /\ Len(calls) \in Nat
  BY CallNumbers
<1>00. Typed
  BY DEF FramingInv
<1>1. CASE Open
  <2>1. host.pc = "idle"
    BY <1>1, <1>00 DEF Open, Typed
  <2>2. Link!Reconnect
    BY <1>0, <1>1, <2>1 DEF Open, Link!Reconnect
  <2> QED BY <2>2 DEF Link!Next
<1>2. CASE Kill
  <2>1. CASE host.pc = "idle"
    BY <1>0, <1>2, <2>1 DEF Kill, Idle, Link!vars
  <2>2. CASE host.pc # "idle"
    <3>1. Link!Fail
      BY <1>0, <1>2, <2>2 DEF Kill, Idle, Link!Fail
    <3> QED BY <3>1 DEF Link!Next
  <2> QED BY <2>1, <2>2
<1>3. CASE \E size \in Sizes : Call(size[1], size[2])
  <2>1. PICK q, a : Call(q, a)
    BY <1>3
  <2>2. host.pc = "idle" /\ host'.call = Len(calls) + 1 /\ UNCHANGED <<owed, given>>
    BY <2>1 DEF Call, Idle
  <2>3. owed \subseteq DOMAIN calls /\ given \subseteq DOMAIN calls
    BY <1>00 DEF Typed
  <2>4. Len(calls) + 1 \in Nat \ {0} /\ Len(calls) + 1 \notin DOMAIN calls
    BY <1>0
  <2>5. Link!Ask
    BY <1>0, <2>2, <2>3, <2>4 DEF Link!Ask
  <2> QED BY <2>5 DEF Link!Next
<1>4. CASE Reader
  BY <1>4, ReaderLink
<1>5. CASE UNCHANGED <<host, owed, given>>
  BY <1>5 DEF Link!vars
<1>6. CASE Close \/ Device \/ DeviceRefuses \/ DeviceStops \/ Replug \/ UNCHANGED vars
  <2>1. UNCHANGED <<host, owed, given>>
    BY <1>6 DEF Close, Device, DeviceTakes, DeviceSends, DeviceRefuses, DeviceStops, Replug, vars
  <2> QED BY <1>5, <2>1
<1> QED BY <1>1, <1>2, <1>3, <1>4, <1>6 DEF Next

\* For every value of the constants the framings implement the link that
\* Exchange describes: an answer is given once, in whole, to its own call or
\* in place of the answer to a later one.
THEOREM FramingImplementsExchange == Spec => ImplementsExchange
<1>1. Init => Link!Init
  BY DEF Init, Link!Init, Idle
<1> QED BY <1>1, Invariant, NextLink, PTL DEF Spec, ImplementsExchange, Link!Spec

=============================================================================
