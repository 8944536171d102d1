--------------------------- MODULE HwiPromptProofs ---------------------------
(***************************************************************************)
(* The PIN prompt, the interface and the output of any number of command   *)
(* line processes next to the graphical interface.  The inductive          *)
(* invariant follows a process through its steps: how often its client is  *)
(* open, what it has answered, and that nobody else refers to the client.  *)
(***************************************************************************)
EXTENDS HwiProcessesProofs, WellFoundedInduction, SequenceTheorems

----------------------------------------------------------------------------
(* Where a process is                                                      *)

Words ==
    Blocks \cup Calls \cup
    {"open", "prompt", "ack", "new", "close", "fingerprint", "devices", "command", "matchModel", "lookup", "compare",
     "notFound", "print", "list", "xpub", "closeSelf", "fill", "reselect", "showDialog", "closeDialog"}

Plain == Words \ Blocks

\* What follows the command, its close() and a failure.
CommandEnd == <<"resultErrors", "try", "close", "resultErrors", "print">>
Closing == <<"close", "resultErrors", "print">>
Printing == <<"print">>

\* What is left of prompt_pin, send_pin and the command that reads a key.
Prompting ==
    {<<"open", "refresh", "initLocked", "prompt">>, <<"refresh", "initLocked", "prompt">>, <<"initLocked", "prompt">>,
     <<"prompt">>}
Sending == {<<"open", "ack">>, <<"ack">>}
Reading ==
    {<<"refresh", "initUnlocked", "pubkey", "xpub">>, <<"initUnlocked", "pubkey", "xpub">>, <<"pubkey", "xpub">>,
     <<"xpub">>}

Commanding(s) == \E u \in Prompting \cup Sending \cup Reading : s = u \o CommandEnd

\* Steps that neither open a client for good nor talk about the PIN; when a
\* dialog is shown, nothing else is left to do.
Loose(s) ==
    /\ s \in Seq(Words)
    /\ \A i \in 1..Len(s) :
          /\ s[i] \notin {"open", "initLocked", "prompt", "ack"}
          /\ s[i] = "showDialog" => Len(s) = 1

Quiet(s) == Loose(s) /\ \A i \in 1..Len(s) : s[i] # "showDialog"

\* Before the command: a result or an error is the last thing before the
\* output.
Early(s) ==
    /\ Quiet(s)
    /\ \A i \in 1..Len(s) :
          /\ s[i] \notin {"xpub", "resultErrors"}
          /\ s[i] = "print" => i > 1 /\ s[i - 1] \in {"list", "notFound"}
          /\ s[i] \in {"list", "notFound"} => i + 1 = Len(s) /\ s[i + 1] = "print"

CliPoint(s) == s \in {<<>>, Closing, Printing} \/ Early(s) \/ Commanding(s)

\* The slots of the GUI that open the client for good.
PromptSlot == {u \o <<"messageBox", "showDialog">> : u \in Prompting}
SendSlot(s) == \E u \in Sending : \E r : Quiet(r) /\ s = u \o (<<"messageBox", "closeDialog">> \o r)

GuiPoint(s) == s \in PromptSlot \/ SendSlot(s) \/ Loose(s)

\* The process has opened its client by hand.
Inside(s) ==
    /\ s # <<>>
    /\ \/ Head(s) \in {"initLocked", "prompt", "ack"}
       \/ Head(s) = "refresh" /\ Len(s) > 1 /\ s[2] = "initLocked"

----------------------------------------------------------------------------
(* The invariant                                                           *)

Control ==
    /\ dev \in {"locked", "prompting", "unlocked"}
    /\ todo \in [Proc -> Seq(Words)]
    /\ entered \in [Proc -> BOOLEAN]
    /\ answer \in [Proc -> {"none", "prompted", "accepted", "refused", "xpub", "list"}]
    /\ report \in [Proc -> [status : {"idle", "running", "printed", "crashed"}, error : BOOLEAN]]

\* A call that is under way has its client open, and so has what follows an
\* open().
Sessions(p) ==
    /\ entered[p] =>
          /\ todo[p] # <<>> /\ Head(todo[p]) \in Calls
          /\ cur[p] # NoClient /\ counter[cur[p]] >= 1
    /\ Inside(todo[p]) => cur[p] # NoClient /\ counter[cur[p]] >= IF entered[p] THEN 2 ELSE 1

\* At most one open() of a command is without a close(), and only until the
\* command's own.
Bounded(p) ==
    cur[p] # NoClient =>
        counter[cur[p]] <= (IF entered[p] THEN 1 ELSE 0)
                             + (IF Inside(todo[p]) \/ todo[p] = Closing THEN 1 ELSE 0)

Answers(p) ==
    /\ CliPoint(todo[p])
    /\ IF todo[p] \in {Closing, Printing}
       THEN /\ answer[p] = "none" => report[p].error
            /\ answer[p] # "none" /\ report[p].error => ~plugged /\ todo[p] = Printing
       ELSE todo[p] = <<>> \/ (answer[p] = "none" /\ ~report[p].error)
    /\ todo[p] # <<>> => cur[p] # NoClient \/ Head(todo[p]) = "new"
    /\ At(p, "xpub") \/ (todo[p] = Closing /\ answer[p] # "none") =>
          cur[p] # NoClient /\ handle[cur[p]] # "opened"
    /\ report[p].status \in {"idle", "printed"} => todo[p] = <<>>
    /\ report[p].status = "idle" => cur[p] = NoClient /\ answer[p] = "none" /\ ~report[p].error

\* The device waits for the PIN, or will when it is asked for it.
Pins(p) ==
    /\ At(p, "prompt") => dev # "unlocked"
    /\ todo[p] = Closing /\ answer[p] = "prompted" => ~plugged \/ (dev = "prompting" /\ claim = cur[p])

\* No other process refers to the client of a command line process.
Own(p) ==
    cur[p] # NoClient =>
        /\ \A q \in Cli \ {p} : cur[q] # cur[p]
        /\ cur[p] \notin {gui.client, gui.dialog}
        /\ todo[Gui] # <<>> => cur[Gui] # cur[p]

GuiShape ==
    /\ GuiPoint(todo[Gui])
    /\ gui.asking => todo[Gui] = <<>>
    /\ At(Gui, "prompt") => dev # "unlocked"
    /\ todo[Gui] \in PromptSlot => cur[Gui] = gui.client
    /\ answer[Gui] = "prompted" =>
          /\ todo[Gui] \in {<<>>, <<"showDialog">>} /\ cur[Gui] = gui.client /\ cur[Gui] # NoClient
          /\ ~plugged \/ (dev = "prompting" /\ claim = cur[Gui])

----------------------------------------------------------------------------
(* Sequences of steps                                                      *)

Less == {pair \in Nat \X Nat : pair[1] < pair[2]}

\* A nonempty set of natural numbers has a least element.
LEMMA LeastPosition ==
    ASSUME NEW T \in SUBSET Nat, T # {}
    PROVE  \E n \in T : \A m \in T : n <= m
<1>1. Less = OpToRel(<, Nat)
  BY DEF Less, OpToRel
<1>2. IsWellFoundedOn(Less, Nat)
  BY <1>1, NatLessThanWellFounded, Zenon
<1>3. PICK n \in T : \A m \in T : ~(<<m, n>> \in Less)
  BY <1>2, WFMin, Zenon
<1>4. ASSUME NEW m \in T PROVE n <= m
  <2>1. m \in Nat /\ n \in Nat
    OBVIOUS
  <2>2. <<m, n>> \in Less <=> m < n
    BY <2>1 DEF Less
  <2> QED
    BY <1>3, <2>1, <2>2
<1> QED
  BY <1>4

\* t is what is left of s without its first k steps.
Drops(s, t, k) ==
    /\ k \in 0..Len(s)
    /\ t \in Seq(Words)
    /\ Len(t) = Len(s) - k
    /\ \A i \in 1..Len(t) : t[i] = s[i + k]

\* Two sequences with the same steps are the same.
LEMMA SameSteps ==
    ASSUME NEW s \in Seq(Words), NEW t \in Seq(Words), Len(s) = Len(t), \A i \in 1..Len(s) : s[i] = t[i]
    PROVE  s = t
OBVIOUS

\* What is left of s is determined by how much is dropped.
LEMMA DropsOnce ==
    ASSUME NEW s \in Seq(Words), NEW k, NEW t, NEW r, Drops(s, t, k), Drops(s, r, k)
    PROVE  t = r
<1>1. t \in Seq(Words) /\ r \in Seq(Words) /\ Len(t) = Len(r) /\ \A i \in 1..Len(t) : t[i] = r[i]
  BY DEF Drops
<1> QED
  BY <1>1, SameSteps

\* Dropping steps and then more steps.
LEMMA DropsTwice ==
    ASSUME NEW s \in Seq(Words), NEW t, NEW r, NEW k, NEW m, Drops(s, t, k), Drops(t, r, m)
    PROVE  Drops(s, r, k + m)
<1>1. k \in 0..Len(s) /\ m \in 0..(Len(s) - k) /\ Len(s) \in Nat /\ Len(t) = Len(s) - k
  BY DEF Drops
<1>2. k + m \in 0..Len(s) /\ r \in Seq(Words) /\ Len(r) = Len(s) - (k + m)
  BY <1>1 DEF Drops
<1>3. ASSUME NEW i \in 1..Len(r) PROVE r[i] = s[i + (k + m)]
  <2>1. r[i] = t[i + m]
    BY DEF Drops
  <2>2. i + m \in 1..Len(t) /\ (i + m) + k = i + (k + m)
    BY <1>1, <1>2
  <2>3. t[i + m] = s[(i + m) + k]
    BY <2>2 DEF Drops
  <2> QED
    BY <2>1, <2>2, <2>3
<1> QED
  BY <1>2, <1>3 DEF Drops

\* The tail drops one step.
LEMMA TailDrops ==
    ASSUME NEW s \in Seq(Words), Len(s) > 0
    PROVE  Drops(s, Tail(s), 1)
BY DEF Drops

\* A sequence from position n on.
LEMMA SubSeqDrops ==
    ASSUME NEW s \in Seq(Words), NEW n \in 1..(Len(s) + 1)
    PROVE  Drops(s, SubSeq(s, n, Len(s)), n - 1)
<1>0. Len(s) \in Nat /\ n \in Nat /\ n - 1 \in 0..Len(s)
  OBVIOUS
<1>1. CASE n <= Len(s)
  <2> DEFINE t == SubSeq(s, n, Len(s))
  <2>1. t \in Seq(Words) /\ Len(t) = Len(s) - (n - 1)
    BY <1>0, <1>1
  <2>2. \A i \in 1..Len(t) : t[i] = s[i + (n - 1)]
    BY <1>0, <1>1, <2>1
  <2> QED
    BY <1>0, <2>1, <2>2 DEF Drops
<1>2. CASE n > Len(s)
  <2>1. SubSeq(s, n, Len(s)) = <<>>
    BY <1>0, <1>2, SubSeqEmpty
  <2>2. Drops(s, <<>>, n - 1)
    BY <1>0, <1>2 DEF Drops
  <2> QED
    BY <2>1, <2>2
<1> QED
  BY <1>0, <1>1, <1>2

\* Trim drops the blocks at the front, and nothing else.
LEMMA TrimDrops ==
    ASSUME NEW s \in Seq(Words)
    PROVE  \E k \in 0..Len(s) :
              /\ Drops(s, Trim(s), k)
              /\ \A j \in 1..k : s[j] \in Blocks
              /\ k = Len(s) \/ s[k + 1] \notin Blocks
<1> DEFINE steps == {i \in DOMAIN s : s[i] \notin Blocks}
<1>0. DOMAIN s = 1..Len(s) /\ Len(s) \in Nat
  OBVIOUS
<1>1. CASE steps = {}
  <2>1. Trim(s) = <<>>
    BY <1>1 DEF Trim
  <2>2. \A j \in 1..Len(s) : s[j] \in Blocks
    BY <1>0, <1>1
  <2>3. Drops(s, <<>>, Len(s))
    BY <1>0 DEF Drops
  <2>4. Len(s) \in 0..Len(s)
    BY <1>0
  <2> QED
    BY <2>1, <2>2, <2>3, <2>4
<1>2. CASE steps # {}
  <2> DEFINE first == CHOOSE i \in steps : \A j \in steps : i <= j
  <2>1. steps \in SUBSET Nat
    BY <1>0
  <2>2. \E i \in steps : \A j \in steps : i <= j
    BY <1>2, <2>1, LeastPosition
  <2>3. first \in steps /\ \A j \in steps : first <= j
    BY <2>2
  <2>4. Trim(s) = SubSeq(s, first, Len(s))
    BY <1>2 DEF Trim
  <2>5. first \in 1..Len(s) /\ s[first] \notin Blocks
    BY <1>0, <2>3
  <2>6. \A j \in 1..(first - 1) : s[j] \in Blocks
    BY <1>0, <2>3, <2>5
  <2> HIDE DEF first, steps
  <2>7. Drops(s, SubSeq(s, first, Len(s)), first - 1)
    <3>1. first \in 1..(Len(s) + 1)
      BY <1>0, <2>5
    <3> QED
      BY <3>1, SubSeqDrops
  <2>8. first - 1 \in 0..Len(s) /\ (first - 1) + 1 = first
    BY <1>0, <2>5
  <2> QED
    BY <2>4, <2>5, <2>6, <2>7, <2>8
<1> QED
  BY <1>1, <1>2

\* Trim where the first step that is no block is known.
LEMMA TrimAt ==
    ASSUME NEW s \in Seq(Words), NEW k \in 0..Len(s), \A j \in 1..k : s[j] \in Blocks,
           k = Len(s) \/ s[k + 1] \notin Blocks
    PROVE  Drops(s, Trim(s), k)
<1>1. PICK n \in 0..Len(s) : /\ Drops(s, Trim(s), n)
                             /\ \A j \in 1..n : s[j] \in Blocks
                             /\ n = Len(s) \/ s[n + 1] \notin Blocks
  BY TrimDrops
<1>2. Len(s) \in Nat
  OBVIOUS
<1>3. ~(k < n)
  <2> SUFFICES ASSUME k < n PROVE FALSE
    OBVIOUS
  <2>1. k + 1 \in 1..n /\ k # Len(s)
    BY <1>2
  <2> QED
    BY <1>1, <2>1
<1>4. ~(n < k)
  <2> SUFFICES ASSUME n < k PROVE FALSE
    OBVIOUS
  <2>1. n + 1 \in 1..k /\ n # Len(s)
    BY <1>2
  <2> QED
    BY <1>1, <2>1
<1>5. n = k
  BY <1>2, <1>3, <1>4
<1> QED
  BY <1>1, <1>5

\* Going on: the step is dropped, and the blocks after it.
LEMMA ContinueDrops ==
    ASSUME NEW s \in Seq(Words), Len(s) > 0
    PROVE  \E k \in 1..Len(s) :
              /\ Drops(s, Trim(Tail(s)), k)
              /\ \A j \in 2..k : s[j] \in Blocks
              /\ k = Len(s) \/ s[k + 1] \notin Blocks
<1>1. Drops(s, Tail(s), 1)
  BY TailDrops
<1>2. Tail(s) \in Seq(Words) /\ Len(Tail(s)) = Len(s) - 1 /\ Len(s) \in Nat
  BY <1>1 DEF Drops
<1>3. PICK n \in 0..Len(Tail(s)) : /\ Drops(Tail(s), Trim(Tail(s)), n)
                                   /\ \A j \in 1..n : Tail(s)[j] \in Blocks
                                   /\ n = Len(Tail(s)) \/ Tail(s)[n + 1] \notin Blocks
  BY <1>2, TrimDrops
<1>4. Drops(s, Trim(Tail(s)), 1 + n)
  BY <1>1, <1>3, DropsTwice
<1>5. \A i \in 1..Len(Tail(s)) : Tail(s)[i] = s[i + 1]
  BY <1>1 DEF Drops
<1>6. 1 + n \in 1..Len(s)
  BY <1>2
<1>7. ASSUME NEW j \in 2..(1 + n) PROVE s[j] \in Blocks
  <2>1. j - 1 \in 1..n /\ j - 1 \in 1..Len(Tail(s)) /\ (j - 1) + 1 = j
    BY <1>2
  <2> QED
    BY <1>3, <1>5, <2>1
<1>8. 1 + n = Len(s) \/ s[(1 + n) + 1] \notin Blocks
  <2>1. CASE n = Len(Tail(s))
    BY <2>1, <1>2
  <2>2. CASE n # Len(Tail(s))
    <3>1. n + 1 \in 1..Len(Tail(s)) /\ (n + 1) + 1 = (1 + n) + 1
      <4>1. Len(Tail(s)) \in Nat /\ n \in 0..Len(Tail(s))
        BY <1>2
      <4> HIDE <1>2
      <4> QED
        BY <4>1, <2>2
    <3> QED
      BY <1>3, <1>5, <2>2, <3>1
  <2> QED
    BY <2>1, <2>2
<1> QED
  BY <1>4, <1>6, <1>7, <1>8

\* Raising outside of every block.
Dies(s) == CaughtBy(s) = "try" /\ AfterRaise(s) = <<>>

\* Raising inside of find_device.
Unfound(s) == CaughtBy(s) = "except" /\ AfterRaise(s) = <<"close", "notFound", "print">>

\* Raising inside of a block with the marker at m; k steps are dropped.
Caught(s, m, k) ==
    /\ CaughtBy(s) = s[m]
    /\ s[m] \in {"entryErrors", "resultErrors", "messageBox"}
    /\ \A j \in 1..(m - 1) : s[j] \notin Blocks
    /\ AfterRaise(s) = Trim(SubSeq(s, m + 1, Len(s)))
    /\ Drops(s, AfterRaise(s), k)
    /\ \A j \in (m + 1)..k : s[j] \in Blocks
    /\ k = Len(s) \/ s[k + 1] \notin Blocks

\* Raising where the first block is known.
LEMMA RaiseAt ==
    ASSUME NEW s \in Seq(Words), NEW m \in 1..Len(s), s[m] \in Blocks, \A j \in 1..(m - 1) : s[j] \notin Blocks
    PROVE  \/ Dies(s) /\ s[m] = "try"
           \/ Unfound(s) /\ s[m] = "except"
           \/ \E k \in m..Len(s) : Caught(s, m, k)
<1>0. DOMAIN s = 1..Len(s) /\ Len(s) \in Nat /\ m \in Nat
  OBVIOUS
<1>1. CaughtBy(s) = s[m]
  <2> DEFINE ends == {i \in DOMAIN s : s[i] \in Blocks}
             first == CHOOSE i \in ends : \A j \in ends : i <= j
  <2>1. m \in ends /\ \A j \in ends : m <= j
    BY <1>0
  <2>2. first \in ends /\ \A j \in ends : first <= j
    BY <2>1
  <2>3. first \in Nat /\ first <= m /\ m <= first
    BY <1>0, <2>1, <2>2
  <2>4. first = m
    BY <1>0, <2>3
  <2>5. ends # {}
    BY <2>1
  <2>6. CaughtBy(s) = s[first]
    BY <2>5 DEF CaughtBy
  <2> QED
    BY <2>4, <2>6
<1>2. CASE s[m] = "try"
  BY <1>1, <1>2 DEF Dies, AfterRaise
<1>3. CASE s[m] = "except"
  BY <1>1, <1>3 DEF Unfound, AfterRaise
<1>4. CASE s[m] \in {"entryErrors", "resultErrors", "messageBox"}
  <2> DEFINE ends == {i \in DOMAIN s : s[i] \in Catches}
             first == CHOOSE i \in ends : \A j \in ends : i <= j
             t == SubSeq(s, m + 1, Len(s))
  <2>1. m \in ends /\ \A j \in ends : m <= j
    BY <1>0, <1>4 DEF Catches, Blocks
  <2>2. first \in ends /\ \A j \in ends : first <= j
    BY <2>1
  <2>3. first \in Nat /\ first <= m /\ m <= first
    BY <1>0, <2>1, <2>2
  <2>4. first = m
    BY <1>0, <2>3
  <2>5. CaughtBy(s) # "try" /\ CaughtBy(s) # "except"
    BY <1>1, <1>4
  <2>6. AfterRaise(s) = Trim(SubSeq(s, first + 1, Len(s)))
    BY <2>5 DEF AfterRaise
  <2>7. AfterRaise(s) = Trim(t)
    BY <2>4, <2>6
  <2>8. Drops(s, t, m)
    <3>1. m + 1 \in 1..(Len(s) + 1) /\ (m + 1) - 1 = m
      BY <1>0
    <3> QED
      BY <3>1, SubSeqDrops
  <2> HIDE DEF t, first, ends
  <2>9. t \in Seq(Words) /\ Len(t) = Len(s) - m /\ \A i \in 1..Len(t) : t[i] = s[i + m]
    BY <2>8 DEF Drops
  <2>10. PICK n \in 0..Len(t) : /\ Drops(t, Trim(t), n)
                                /\ \A j \in 1..n : t[j] \in Blocks
                                /\ n = Len(t) \/ t[n + 1] \notin Blocks
    BY <2>9, TrimDrops
  <2>11. Drops(s, AfterRaise(s), m + n)
    BY <2>7, <2>8, <2>10, DropsTwice
  <2>12. m + n \in m..Len(s)
    BY <1>0, <2>9
  <2>13. ASSUME NEW j \in (m + 1)..(m + n) PROVE s[j] \in Blocks
    <3>1. j - m \in 1..n /\ j - m \in 1..Len(t) /\ (j - m) + m = j
      BY <1>0, <2>9
    <3> QED
      BY <2>9, <2>10, <3>1
  <2>14. m + n = Len(s) \/ s[(m + n) + 1] \notin Blocks
    <3>1. CASE n = Len(t)
      BY <1>0, <3>1, <2>9
    <3>2. CASE n # Len(t)
      <4>1. Len(t) \in Nat /\ n \in 0..Len(t) /\ m \in Nat
        BY <1>0, <2>9
      <4>2. n + 1 \in 1..Len(t) /\ (n + 1) + m = (m + n) + 1
        BY <4>1, <3>2
      <4> QED
        BY <2>9, <2>10, <3>2, <4>2
    <3> QED
      BY <3>1, <3>2
  <2>15. Caught(s, m, m + n)
    BY <1>1, <1>4, <2>7, <2>11, <2>13, <2>14 DEF Caught, t
  <2> QED
    BY <2>12, <2>15
<1> QED
  BY <1>2, <1>3, <1>4 DEF Blocks, Catches

\* Raising anywhere.
LEMMA RaiseDrops ==
    ASSUME NEW s \in Seq(Words)
    PROVE  Dies(s) \/ Unfound(s) \/ \E m \in 1..Len(s) : \E k \in m..Len(s) : Caught(s, m, k)
<1> DEFINE ends == {i \in DOMAIN s : s[i] \in Blocks}
<1>0. DOMAIN s = 1..Len(s) /\ Len(s) \in Nat
  OBVIOUS
<1>1. CASE ends = {}
  BY <1>1 DEF Dies, AfterRaise, CaughtBy
<1>2. CASE ends # {}
  <2>1. ends \in SUBSET Nat
    BY <1>0
  <2>2. PICK m \in ends : \A j \in ends : m <= j
    BY <1>2, <2>1, LeastPosition
  <2>3. m \in 1..Len(s) /\ s[m] \in Blocks
    BY <1>0
  <2>4. \A j \in 1..(m - 1) : s[j] \notin Blocks
    BY <1>0, <2>2, <2>3
  <2> QED
    BY <2>3, <2>4, RaiseAt
<1> QED
  BY <1>1, <1>2

----------------------------------------------------------------------------
(* Blocks of steps                                                         *)

\* Steps one after the other.
LEMMA Joins ==
    ASSUME NEW u \in Seq(Words), NEW K \in Seq(Words)
    PROVE  /\ u \o K \in Seq(Words)
           /\ Len(u \o K) = Len(u) + Len(K)
           /\ \A i \in 1..Len(u) : (u \o K)[i] = u[i]
           /\ \A i \in 1..Len(K) : (u \o K)[i + Len(u)] = K[i]
<1>0. Len(u) \in Nat /\ Len(K) \in Nat
  OBVIOUS
<1>1. /\ u \o K \in Seq(Words)
      /\ Len(u \o K) = Len(u) + Len(K)
      /\ \A i \in 1..(Len(u) + Len(K)) : (u \o K)[i] = IF i <= Len(u) THEN u[i] ELSE K[i - Len(u)]
  BY ConcatProperties
<1>2. ASSUME NEW i \in 1..Len(u) PROVE (u \o K)[i] = u[i]
  <2>1. i \in 1..(Len(u) + Len(K)) /\ i <= Len(u)
    BY <1>0
  <2> QED
    BY <1>1, <2>1
<1>3. ASSUME NEW i \in 1..Len(K) PROVE (u \o K)[i + Len(u)] = K[i]
  <2>1. i + Len(u) \in 1..(Len(u) + Len(K)) /\ ~(i + Len(u) <= Len(u)) /\ (i + Len(u)) - Len(u) = i
    BY <1>0
  <2> QED
    BY <1>1, <2>1
<1> QED
  BY <1>1, <1>2, <1>3

\* The steps before K are dropped.
LEMMA JoinDrops ==
    ASSUME NEW u \in Seq(Words), NEW K \in Seq(Words)
    PROVE  Drops(u \o K, K, Len(u))
<1>1. Len(u) \in Nat /\ Len(K) \in Nat
  OBVIOUS
<1>2. Len(u \o K) = Len(u) + Len(K) /\ \A i \in 1..Len(K) : (u \o K)[i + Len(u)] = K[i]
  BY Joins
<1>3. Len(u) \in 0..Len(u \o K) /\ Len(K) = Len(u \o K) - Len(u)
  BY <1>1, <1>2
<1> QED
  BY <1>2, <1>3 DEF Drops

\* Steps of a command are words, and none of them is a block.
LEMMA PlainIsWords ==
    ASSUME NEW u \in Seq(Plain)
    PROVE  u \in Seq(Words) /\ \A i \in 1..Len(u) : u[i] \notin Blocks
<1>1. Plain \subseteq Words
  BY DEF Plain
<1>2. \A i \in 1..Len(u) : u[i] \in Plain
  OBVIOUS
<1>3. u \in Seq(Words)
  BY <1>1, SeqMonotonic
<1> QED
  BY <1>2, <1>3 DEF Plain

\* Going on inside of a block.
LEMMA Inner ==
    ASSUME NEW u \in Seq(Plain), NEW K \in Seq(Words), Len(u) > 1
    PROVE  Trim(Tail(u \o K)) = Tail(u) \o K
<1> DEFINE s == u \o K
<1>u. u \in Seq(Words) /\ Len(u) \in Nat /\ Len(K) \in Nat /\ \A i \in 1..Len(u) : u[i] \notin Blocks
  BY PlainIsWords
<1>s. /\ s \in Seq(Words) /\ Len(s) = Len(u) + Len(K) /\ Len(s) > 0
      /\ \A i \in 1..Len(u) : s[i] = u[i]
      /\ \A i \in 1..Len(K) : s[i + Len(u)] = K[i]
  BY <1>u, Joins
<1>t. Drops(u, Tail(u), 1)
  BY <1>u, TailDrops
<1> HIDE DEF s
<1>1. PICK k \in 1..Len(s) : Drops(s, Trim(Tail(s)), k) /\ \A j \in 2..k : s[j] \in Blocks
  BY <1>s, ContinueDrops
<1>2. k = 1
  <2>1. s[2] \notin Blocks
    <3>1. 2 \in 1..Len(u)
      BY <1>u
    <3> QED
      BY <3>1, <1>u, <1>s
  <2>2. ~(2 \in 2..k)
    BY <1>1, <2>1
  <2>3. Len(s) \in Nat /\ k \in Nat
    BY <1>s
  <2> QED
    BY <2>2, <2>3
<1>3. Tail(u) \in Seq(Words) /\ Len(Tail(u)) = Len(u) - 1 /\ \A i \in 1..Len(Tail(u)) : Tail(u)[i] = u[i + 1]
  BY <1>t DEF Drops
<1>4. Drops(s, Tail(u) \o K, 1)
  <2> DEFINE v == Tail(u)
             t == v \o K
  <2>1. v \in Seq(Words) /\ Len(v) = Len(u) - 1 /\ \A i \in 1..Len(v) : v[i] = u[i + 1]
    BY <1>3
  <2> HIDE DEF v
  <2>2. /\ t \in Seq(Words) /\ Len(t) = Len(v) + Len(K)
        /\ \A i \in 1..Len(v) : t[i] = v[i]
        /\ \A i \in 1..Len(K) : t[i + Len(v)] = K[i]
    BY <2>1, Joins
  <2> HIDE DEF t
  <2>3. ASSUME NEW i \in 1..Len(t) PROVE t[i] = s[i + 1]
    <3>1. CASE i <= Len(v)
      <4>1. i \in 1..Len(v) /\ i + 1 \in 1..Len(u)
        BY <1>u, <2>1, <3>1
      <4> QED
        BY <4>1, <2>1, <2>2, <1>s
    <3>2. CASE i > Len(v)
      <4> DEFINE j == i - Len(v)
      <4>1. j \in 1..Len(K) /\ j + Len(v) = i /\ j + Len(u) = i + 1
        BY <1>u, <2>1, <2>2, <3>2
      <4> HIDE DEF j
      <4> QED
        BY <4>1, <2>2, <1>s
    <3> QED
      BY <1>u, <2>1, <2>2, <3>1, <3>2
  <2>4. 1 \in 0..Len(s) /\ Len(t) = Len(s) - 1
    BY <1>u, <1>s, <2>1, <2>2
  <2>5. Drops(s, t, 1)
    BY <2>2, <2>3, <2>4 DEF Drops
  <2> QED
    BY <2>5 DEF t, v
<1>5. Trim(Tail(s)) = Tail(u) \o K
  BY <1>s, <1>1, <1>2, <1>4, DropsOnce
<1> QED
  BY <1>5 DEF s

\* Going on at the end of a block.
LEMMA Last ==
    ASSUME NEW u \in Seq(Plain), NEW K \in Seq(Words), Len(u) = 1
    PROVE  Trim(Tail(u \o K)) = Trim(K)
<1> DEFINE s == u \o K
<1>1. u \in Seq(Words) /\ Len(K) \in Nat
  BY PlainIsWords
<1>2. s \in Seq(Words) /\ Len(s) = Len(u) + Len(K)
  BY <1>1, Joins, Zenon
<1>3. Drops(s, K, Len(u))
  BY <1>1, JoinDrops, Zenon
<1> HIDE DEF s
<1>4. Len(s) > 0 /\ Drops(s, K, 1)
  BY <1>1, <1>2, <1>3
<1>5. Drops(s, Tail(s), 1)
  BY <1>2, <1>4, TailDrops
<1>6. Tail(s) = K
  BY <1>2, <1>4, <1>5, DropsOnce
<1> QED
  BY <1>6 DEF s

\* Raising inside of a block.
LEMMA Raised ==
    ASSUME NEW u \in Seq(Plain), NEW K \in Seq(Words), Len(K) > 0,
           K[1] \in {"entryErrors", "resultErrors", "messageBox"}
    PROVE  CaughtBy(u \o K) = K[1] /\ AfterRaise(u \o K) = Trim(Tail(K))
<1> DEFINE s == u \o K
           m == Len(u) + 1
<1>u. u \in Seq(Words) /\ Len(u) \in Nat /\ Len(K) \in Nat /\ \A i \in 1..Len(u) : u[i] \notin Blocks
  BY PlainIsWords
<1>s. /\ s \in Seq(Words) /\ Len(s) = Len(u) + Len(K)
      /\ \A i \in 1..Len(u) : s[i] = u[i]
      /\ \A i \in 1..Len(K) : s[i + Len(u)] = K[i]
  BY <1>u, Joins
<1>k. Drops(s, K, Len(u))
  BY <1>u, JoinDrops
<1> HIDE DEF s
<1>m. m \in 1..Len(s) /\ 1 \in 1..Len(K) /\ 1 + Len(u) = m /\ m - 1 = Len(u)
  BY <1>u, <1>s
<1>1. s[m] = K[1]
  BY <1>s, <1>m
<1>2. \A j \in 1..(m - 1) : s[j] \notin Blocks
  BY <1>u, <1>s, <1>m
<1>3. s[m] \in Blocks /\ s[m] \notin {"try", "except"}
  BY <1>1 DEF Blocks, Catches
<1> HIDE DEF m
<1>4. PICK k \in m..Len(s) : Caught(s, m, k)
  BY <1>s, <1>m, <1>2, <1>3, RaiseAt
<1>5. CaughtBy(s) = K[1] /\ AfterRaise(s) = Trim(SubSeq(s, m + 1, Len(s)))
  BY <1>1, <1>4 DEF Caught
<1>6. Drops(s, SubSeq(s, m + 1, Len(s)), m)
  <2>1. m + 1 \in 1..(Len(s) + 1) /\ (m + 1) - 1 = m
    BY <1>s, <1>u, <1>m
  <2> QED
    BY <1>s, <2>1, SubSeqDrops
<1>7. Drops(s, Tail(K), Len(u) + 1)
  <2>1. Drops(K, Tail(K), 1)
    BY TailDrops
  <2> QED
    BY <1>s, <1>k, <2>1, DropsTwice
<1>8. SubSeq(s, m + 1, Len(s)) = Tail(K)
  BY <1>s, <1>6, <1>7, DropsOnce DEF m
<1> QED
  BY <1>5, <1>8 DEF s

\* The ends of a command are sequences of steps.
LEMMA EndTypes ==
    /\ CommandEnd \in Seq(Words) /\ Len(CommandEnd) = 5
    /\ Closing \in Seq(Words) /\ Len(Closing) = 3
    /\ Printing \in Seq(Words) /\ Len(Printing) = 1
<1> USE DEF CommandEnd, Closing, Printing
<1>1. \A x \in {"resultErrors", "try", "close", "print"} : x \in Words
  BY DEF Words, Blocks, Catches
<1>2. CommandEnd \in Seq({"resultErrors", "try", "close", "print"})
  OBVIOUS
<1> QED
  BY <1>1

\* What follows the command when it returns and when it raises is the same.
LEMMA CommandEnds ==
    Trim(CommandEnd) = Closing /\ Trim(Tail(CommandEnd)) = Closing
<1> DEFINE s == CommandEnd
<1>1. /\ s \in Seq(Words) /\ Len(s) = 5
      /\ s[1] \in Blocks /\ s[2] \in Blocks /\ s[3] \notin Blocks
  BY EndTypes DEF CommandEnd, Blocks, Catches
<1>2. Drops(s, Closing, 2)
  <2>1. \A i \in 1..3 : Closing[i] = CommandEnd[i + 2]
    <3>1. \A i \in 1..3 : i = 1 \/ i = 2 \/ i = 3
      OBVIOUS
    <3>2. Closing[1] = CommandEnd[3] /\ Closing[2] = CommandEnd[4] /\ Closing[3] = CommandEnd[5]
      BY DEF Closing, CommandEnd
    <3> QED
      BY <3>1, <3>2
  <2> QED
    BY <2>1, EndTypes DEF Drops
<1> HIDE DEF s
<1>3. Drops(s, Trim(s), 2)
  <2>1. \A j \in 1..2 : j = 1 \/ j = 2
    OBVIOUS
  <2>2. 2 \in 0..Len(s) /\ s[2 + 1] \notin Blocks
    BY <1>1
  <2> QED
    BY <1>1, <2>1, <2>2, TrimAt
<1>4. PICK k \in 1..Len(s) : /\ Drops(s, Trim(Tail(s)), k)
                             /\ \A j \in 2..k : s[j] \in Blocks
                             /\ k = Len(s) \/ s[k + 1] \notin Blocks
  <2>1. Len(s) > 0
    BY <1>1
  <2> QED
    BY <1>1, <2>1, ContinueDrops
<1>5. k = 2
  <2>1. k # 1
    BY <1>1, <1>4
  <2>2. ~(3 \in 2..k)
    BY <1>1, <1>4
  <2> QED
    BY <1>1, <2>1, <2>2
<1>6. Trim(s) = Closing
  BY <1>1, <1>2, <1>3, DropsOnce
<1>7. Trim(Tail(s)) = Closing
  BY <1>1, <1>2, <1>4, <1>5, DropsOnce
<1> QED
  BY <1>6, <1>7 DEF s

\* After the close() the output, whether it raises or not.
LEMMA ClosingEnds ==
    /\ Trim(Tail(Closing)) = Printing
    /\ AfterRaise(Closing) = Printing
    /\ CaughtBy(Closing) = "resultErrors"
<1> DEFINE s == Closing
<1>1. /\ s \in Seq(Words) /\ Len(s) = 3
      /\ s[1] \notin Blocks /\ s[2] \in Blocks /\ s[2] = "resultErrors" /\ s[3] \notin Blocks
  BY EndTypes DEF Closing, Blocks, Catches
<1>2. Drops(s, Printing, 2)
  <2>1. \A i \in 1..1 : Printing[i] = Closing[i + 2]
    BY DEF Closing, Printing
  <2> QED
    BY <2>1, EndTypes DEF Drops
<1> HIDE DEF s
<1>3. PICK k \in 1..Len(s) : /\ Drops(s, Trim(Tail(s)), k)
                             /\ \A j \in 2..k : s[j] \in Blocks
                             /\ k = Len(s) \/ s[k + 1] \notin Blocks
  <2>1. Len(s) > 0
    BY <1>1
  <2> QED
    BY <1>1, <2>1, ContinueDrops
<1>4. k = 2
  <2>1. k # 1
    BY <1>1, <1>3
  <2>2. ~(3 \in 2..k)
    BY <1>1, <1>3
  <2> QED
    BY <1>1, <2>1, <2>2
<1>5. PICK n \in 2..Len(s) : Caught(s, 2, n)
  <2>1. 2 \in 1..Len(s) /\ \A j \in 1..(2 - 1) : s[j] \notin Blocks
    BY <1>1
  <2>2. s[2] # "try" /\ s[2] # "except"
    BY <1>1
  <2> QED
    BY <1>1, <2>1, <2>2, RaiseAt
<1>6. n = 2
  <2>1. ~(3 \in (2 + 1)..n)
    BY <1>1, <1>5 DEF Caught
  <2> QED
    BY <1>1, <2>1
<1>7. Drops(s, AfterRaise(s), 2) /\ CaughtBy(s) = "resultErrors"
  BY <1>1, <1>5, <1>6 DEF Caught
<1>8. Trim(Tail(s)) = Printing /\ AfterRaise(s) = Printing
  BY <1>1, <1>2, <1>3, <1>4, <1>7, DropsOnce
<1> QED
  BY <1>7, <1>8 DEF s

\* Nothing comes after the output.
LEMMA PrintingEnds == Trim(Tail(Printing)) = <<>>
<1>1. Printing \in Seq(Words) /\ Len(Printing) = 1
  BY EndTypes
<1>2. Tail(Printing) \in Seq(Words) /\ Len(Tail(Printing)) = 0
  BY <1>1
<1>3. PICK k : Drops(Tail(Printing), Trim(Tail(Printing)), k)
  BY <1>2, TrimDrops
<1>4. Trim(Tail(Printing)) \in Seq(Words) /\ Len(Trim(Tail(Printing))) = 0
  BY <1>2, <1>3 DEF Drops
<1> QED
  BY <1>4

\* What is left of a command when a step of it is done.
LEMMA CommandTails ==
    /\ Tail(<<"open", "refresh", "initLocked", "prompt">>) = <<"refresh", "initLocked", "prompt">>
    /\ Tail(<<"refresh", "initLocked", "prompt">>) = <<"initLocked", "prompt">>
    /\ Tail(<<"initLocked", "prompt">>) = <<"prompt">>
    /\ Tail(<<"open", "ack">>) = <<"ack">>
    /\ Tail(<<"refresh", "initUnlocked", "pubkey", "xpub">>) = <<"initUnlocked", "pubkey", "xpub">>
    /\ Tail(<<"initUnlocked", "pubkey", "xpub">>) = <<"pubkey", "xpub">>
    /\ Tail(<<"pubkey", "xpub">>) = <<"xpub">>
OBVIOUS

\* The commands' own steps are no blocks.
LEMMA CommandTypes ==
    ASSUME NEW u \in Prompting \cup Sending \cup Reading
    PROVE  u \in Seq(Plain) /\ Len(u) > 0
<1> DEFINE S == {"open", "refresh", "initLocked", "prompt", "ack", "initUnlocked", "pubkey", "xpub"}
<1>1. S \subseteq Plain
  BY DEF Plain, Words, Blocks, Catches, Calls
<1>2. /\ <<"open", "refresh", "initLocked", "prompt">> \in Seq(S)
      /\ <<"refresh", "initLocked", "prompt">> \in Seq(S)
      /\ <<"initLocked", "prompt">> \in Seq(S)
      /\ <<"prompt">> \in Seq(S)
  OBVIOUS
<1>3. /\ <<"open", "ack">> \in Seq(S)
      /\ <<"ack">> \in Seq(S)
  OBVIOUS
<1>4. /\ <<"refresh", "initUnlocked", "pubkey", "xpub">> \in Seq(S)
      /\ <<"initUnlocked", "pubkey", "xpub">> \in Seq(S)
      /\ <<"pubkey", "xpub">> \in Seq(S)
      /\ <<"xpub">> \in Seq(S)
  OBVIOUS
<1>5. u \in Seq(S)
  BY <1>2, <1>3, <1>4, Zenon DEF Prompting, Sending, Reading
<1>6. u # <<>>
  BY DEF Prompting, Sending, Reading
<1>7. u \in Seq(Plain)
  BY <1>1, <1>5, SeqMonotonic
<1> QED
  BY <1>6, <1>7

\* A command's own steps after its open().
Opened(u) ==
    \/ u[1] \in {"initLocked", "prompt", "ack"}
    \/ u[1] = "refresh" /\ Len(u) > 1 /\ u[2] = "initLocked"

\* How a command goes on: from u to the rest of it.
GoesOn(u) ==
    /\ u[1] \in {"open", "refresh", "initLocked", "prompt", "ack", "initUnlocked", "pubkey", "xpub"}
    /\ (Len(u) = 1) = (u[1] \in {"prompt", "ack", "xpub"})
    /\ Len(u) > 1 =>
          /\ u[1] = "open" => ~Opened(u) /\ Opened(Tail(u))
          /\ Opened(u) => Opened(Tail(u))
          /\ ~Opened(u) /\ u[1] # "open" => ~Opened(Tail(u))
          /\ Tail(u)[1] = "prompt" => u[1] = "initLocked"
          /\ Tail(u)[1] = "xpub" => u[1] = "pubkey"

\* prompt_pin goes on with prompt_pin.
LEMMA PromptingGoesOn ==
    ASSUME NEW u \in Prompting
    PROVE  GoesOn(u) /\ (Len(u) > 1 => Tail(u) \in Prompting) /\ u[1] \notin {"ack", "xpub", "pubkey", "initUnlocked"}
<1>1. CASE u = <<"open", "refresh", "initLocked", "prompt">>
  BY <1>1, CommandTails DEF GoesOn, Opened, Prompting
<1>2. CASE u = <<"refresh", "initLocked", "prompt">>
  BY <1>2, CommandTails DEF GoesOn, Opened, Prompting
<1>3. CASE u = <<"initLocked", "prompt">>
  BY <1>3, CommandTails DEF GoesOn, Opened, Prompting
<1>4. CASE u = <<"prompt">>
  BY <1>4 DEF GoesOn, Opened
<1> QED
  BY <1>1, <1>2, <1>3, <1>4 DEF Prompting

\* send_pin goes on with send_pin.
LEMMA SendingGoesOn ==
    ASSUME NEW u \in Sending
    PROVE  GoesOn(u) /\ (Len(u) > 1 => Tail(u) \in Sending) /\ u[1] \in {"open", "ack"}
<1>1. CASE u = <<"open", "ack">>
  BY <1>1, CommandTails DEF GoesOn, Opened, Sending
<1>2. CASE u = <<"ack">>
  BY <1>2 DEF GoesOn, Opened
<1> QED
  BY <1>1, <1>2 DEF Sending

\* Reading a key goes on with reading it.
LEMMA ReadingGoesOn ==
    ASSUME NEW u \in Reading
    PROVE  GoesOn(u) /\ (Len(u) > 1 => Tail(u) \in Reading)
<1>1. CASE u = <<"refresh", "initUnlocked", "pubkey", "xpub">>
  BY <1>1, CommandTails DEF GoesOn, Opened, Reading
<1>2. CASE u = <<"initUnlocked", "pubkey", "xpub">>
  BY <1>2, CommandTails DEF GoesOn, Opened, Reading
<1>3. CASE u = <<"pubkey", "xpub">>
  BY <1>3, CommandTails DEF GoesOn, Opened, Reading
<1>4. CASE u = <<"xpub">>
  BY <1>4 DEF GoesOn, Opened
<1> QED
  BY <1>1, <1>2, <1>3, <1>4 DEF Reading

\* The first steps of a block.
LEMMA BlockStarts ==
    ASSUME NEW u \in Seq(Plain), Len(u) > 0, NEW K \in Seq(Words), Len(K) > 0, K[1] \in Blocks
    PROVE  /\ u \o K \in Seq(Words) /\ Len(u \o K) > 1
           /\ (u \o K)[1] = u[1] /\ Head(u \o K) = u[1]
           /\ Inside(u \o K) = Opened(u)
<1> DEFINE s == u \o K
<1>u. u \in Seq(Words) /\ Len(u) \in Nat /\ Len(K) \in Nat
  BY PlainIsWords
<1>s. /\ s \in Seq(Words) /\ Len(s) = Len(u) + Len(K)
      /\ \A i \in 1..Len(u) : s[i] = u[i]
      /\ \A i \in 1..Len(K) : s[i + Len(u)] = K[i]
  BY <1>u, Joins
<1> HIDE DEF s
<1>1. Len(s) > 1 /\ 1 \in 1..Len(u) /\ 1 \in 1..Len(K)
  BY <1>u, <1>s
<1>2. s[1] = u[1] /\ Head(s) = s[1] /\ s # <<>>
  BY <1>s, <1>1
<1>3. s[2] = "initLocked" <=> Len(u) > 1 /\ u[2] = "initLocked"
  <2>1. CASE Len(u) > 1
    <3>1. 2 \in 1..Len(u)
      BY <1>u, <2>1
    <3> QED
      BY <1>s, <2>1, <3>1
  <2>2. CASE ~(Len(u) > 1)
    <3>1. 1 + Len(u) = 2
      BY <1>u, <2>2
    <3>2. s[2] = K[1]
      BY <1>s, <1>1, <3>1
    <3> QED
      BY <2>2, <3>2 DEF Blocks, Catches
  <2> QED
    BY <2>1, <2>2
<1>4. Inside(s) = Opened(u)
  BY <1>1, <1>2, <1>3 DEF Inside, Opened
<1> QED
  BY <1>s, <1>1, <1>2, <1>4 DEF s

\* How a process goes on from s to next inside of a block.
Within(s, next) ==
    /\ next # <<>>
    /\ Head(s) = "open" => ~Inside(s) /\ Inside(next)
    /\ Inside(s) => Inside(next)
    /\ ~Inside(s) /\ Head(s) # "open" => ~Inside(next)
    /\ Head(next) = "prompt" => Head(s) = "initLocked"
    /\ Head(next) = "xpub" => Head(s) = "pubkey"

\* A command's own steps u in a block that ends with K.
BlockStep(u, K, s) ==
    /\ s \in Seq(Words) /\ Len(s) > 0
    /\ Head(s) = u[1] /\ s[1] = u[1]
    /\ u[1] \in {"open", "refresh", "initLocked", "prompt", "ack", "initUnlocked", "pubkey", "xpub"}
    /\ CaughtBy(s) = K[1] /\ AfterRaise(s) = Trim(Tail(K))
    /\ u[1] \in {"prompt", "ack", "xpub"} => Trim(Tail(s)) = Trim(K)
    /\ u[1] \notin {"prompt", "ack", "xpub"} =>
          Len(u) > 1 /\ Trim(Tail(s)) = Tail(u) \o K /\ Within(s, Trim(Tail(s)))

\* How a command goes on and where it raises, in whichever block it runs.
LEMMA BlockGoesOn ==
    ASSUME NEW u \in Prompting \cup Sending \cup Reading,
           NEW K \in Seq(Words), Len(K) > 0, K[1] \in {"resultErrors", "messageBox"},
           NEW s, s = u \o K
    PROVE  BlockStep(u, K, s)
<1>2. u \in Seq(Plain) /\ Len(u) > 0
  BY CommandTypes
<1>3. GoesOn(u) /\ (Len(u) > 1 => Tail(u) \in Prompting \cup Sending \cup Reading)
  BY PromptingGoesOn, SendingGoesOn, ReadingGoesOn
<1>5. K[1] \in Blocks /\ K[1] \in {"entryErrors", "resultErrors", "messageBox"}
  BY DEF Blocks, Catches
<1>6. /\ s \in Seq(Words) /\ Len(s) > 1 /\ Head(s) = u[1] /\ s[1] = u[1]
      /\ Inside(s) = Opened(u)
  BY <1>2, <1>5, BlockStarts
<1>0. Len(s) > 0
  BY <1>6
<1>7. CaughtBy(s) = K[1] /\ AfterRaise(s) = Trim(Tail(K))
  BY <1>2, <1>5, Raised
<1>8. ASSUME u[1] \in {"prompt", "ack", "xpub"}
      PROVE  Trim(Tail(s)) = Trim(K)
  <2>1. Len(u) = 1
    BY <1>3, <1>8 DEF GoesOn
  <2> QED
    BY <1>2, <2>1, Last
<1>9. ASSUME u[1] \notin {"prompt", "ack", "xpub"}
      PROVE  Len(u) > 1 /\ Trim(Tail(s)) = Tail(u) \o K /\ Within(s, Trim(Tail(s)))
  <2> DEFINE v == Tail(u)
             r == Trim(Tail(s))
  <2>1. Len(u) > 1
    <3>1. Len(u) # 1
      BY <1>3, <1>9 DEF GoesOn
    <3>2. Len(u) \in Nat
      BY <1>2, LenProperties, Zenon
    <3>3. \A n \in Nat : n > 0 /\ n # 1 => n > 1
      OBVIOUS
    <3> QED
      BY <1>2, <3>1, <3>2, <3>3, Zenon
  <2>2. r = v \o K
    BY <1>2, <2>1, Inner
  <2>3. v \in Prompting \cup Sending \cup Reading
    BY <1>3, <2>1
  <2>g. /\ u[1] = "open" => ~Opened(u) /\ Opened(v)
        /\ Opened(u) => Opened(v)
        /\ ~Opened(u) /\ u[1] # "open" => ~Opened(v)
        /\ v[1] = "prompt" => u[1] = "initLocked"
        /\ v[1] = "xpub" => u[1] = "pubkey"
    BY <1>3, <2>1 DEF GoesOn
  <2> HIDE DEF v
  <2>4. v \in Seq(Plain) /\ Len(v) > 0
    BY <2>3, CommandTypes
  <2>6. r \in Seq(Words) /\ Len(r) > 1 /\ Head(r) = v[1] /\ Inside(r) = Opened(v)
    BY <1>5, <2>2, <2>4, BlockStarts
  <2>7. r # <<>>
    BY <2>6
  <2> HIDE DEF r
  <2>8. Within(s, r)
    BY <1>6, <2>g, <2>6, <2>7 DEF Within
  <2> QED
    BY <2>1, <2>2, <2>8 DEF r, v
<1>10. u[1] \in {"open", "refresh", "initLocked", "prompt", "ack", "initUnlocked", "pubkey", "xpub"}
  BY <1>3 DEF GoesOn
<1> QED
  BY <1>0, <1>6, <1>7, <1>8, <1>9, <1>10, Zenon DEF BlockStep

\* How a command line process goes on inside of its command.
CommandStep(s) ==
    LET next == Trim(Tail(s))
    IN /\ s \in Seq(Words) /\ Len(s) > 0
       /\ Head(s) \in {"open", "refresh", "initLocked", "prompt", "ack", "initUnlocked", "pubkey", "xpub"}
       /\ CaughtBy(s) = "resultErrors" /\ AfterRaise(s) = Closing
       /\ Head(s) \in {"prompt", "ack", "xpub"} => next = Closing
       /\ Head(s) \notin {"prompt", "ack", "xpub"} => Commanding(next) /\ Within(s, next)

\* A command goes on, ends with its close(), or raises into its close().
LEMMA CommandGoesOn ==
    ASSUME NEW s, Commanding(s)
    PROVE  CommandStep(s)
<1>1. PICK u \in Prompting \cup Sending \cup Reading : s = u \o CommandEnd
  BY DEF Commanding
<1>2. CommandEnd \in Seq(Words) /\ Len(CommandEnd) > 0 /\ CommandEnd[1] = "resultErrors"
  BY EndTypes DEF CommandEnd
<1>3. CommandEnd[1] \in {"resultErrors", "messageBox"}
  BY <1>2
<1>4. /\ s \in Seq(Words) /\ Len(s) > 0
      /\ Head(s) = u[1]
      /\ u[1] \in {"open", "refresh", "initLocked", "prompt", "ack", "initUnlocked", "pubkey", "xpub"}
      /\ CaughtBy(s) = CommandEnd[1] /\ AfterRaise(s) = Trim(Tail(CommandEnd))
      /\ u[1] \in {"prompt", "ack", "xpub"} => Trim(Tail(s)) = Trim(CommandEnd)
      /\ u[1] \notin {"prompt", "ack", "xpub"} =>
            Len(u) > 1 /\ Trim(Tail(s)) = Tail(u) \o CommandEnd /\ Within(s, Trim(Tail(s)))
  <2>1. BlockStep(u, CommandEnd, s)
    BY <1>1, <1>2, <1>3, BlockGoesOn
  <2> QED
    BY <2>1, Zenon DEF BlockStep
<1>5. CaughtBy(s) = "resultErrors" /\ AfterRaise(s) = Closing
  BY <1>2, <1>4, CommandEnds
<1>6. Head(s) \in {"prompt", "ack", "xpub"} => Trim(Tail(s)) = Closing
  BY <1>4, CommandEnds
<1>7. ASSUME Head(s) \notin {"prompt", "ack", "xpub"} PROVE Commanding(Trim(Tail(s)))
  <2>1. Tail(u) \in Prompting \cup Sending \cup Reading
    BY <1>4, <1>7, PromptingGoesOn, SendingGoesOn, ReadingGoesOn
  <2> QED
    BY <1>4, <1>7, <2>1 DEF Commanding
<1> QED
  BY <1>4, <1>5, <1>6, <1>7, Zenon DEF CommandStep

----------------------------------------------------------------------------
(* Steps before the command, and of the GUI's refresh                      *)

\* What is left of loose steps is loose.
LEMMA LooseSuffix ==
    ASSUME NEW s, NEW t, NEW k, Loose(s), Drops(s, t, k)
    PROVE  Loose(t) /\ (Quiet(s) => Quiet(t))
<1>1. s \in Seq(Words) /\ t \in Seq(Words) /\ Len(s) \in Nat /\ k \in 0..Len(s) /\ Len(t) = Len(s) - k
  BY DEF Loose, Drops
<1>2. ASSUME NEW i \in 1..Len(t)
      PROVE  /\ t[i] \notin {"open", "initLocked", "prompt", "ack"}
             /\ t[i] = "showDialog" => Len(t) = 1
             /\ Quiet(s) => t[i] # "showDialog"
  <2>0. i + k \in 1..Len(s) /\ (Len(s) = 1 => Len(t) = 1)
    BY <1>1
  <2>1. i + k \in 1..Len(s) /\ t[i] = s[i + k] /\ (Len(s) = 1 => Len(t) = 1)
    BY <2>0 DEF Drops
  <2>2. s[i + k] \notin {"open", "initLocked", "prompt", "ack"} /\ (s[i + k] = "showDialog" => Len(s) = 1)
    BY <2>1 DEF Loose
  <2>3. Quiet(s) => s[i + k] # "showDialog"
    BY <2>1 DEF Quiet
  <2> QED
    BY <2>1, <2>2, <2>3
<1> QED
  BY <1>1, <1>2 DEF Loose, Quiet

\* Loose steps are never inside of an open() of their own.
LEMMA LooseIsOutside ==
    ASSUME NEW s, Loose(s)
    PROVE  s \in Seq(Words) /\ ~Inside(s)
<1>1. s \in Seq(Words) /\ Len(s) \in Nat
  BY DEF Loose
<1>2. ASSUME s # <<>> PROVE Head(s) \notin {"initLocked", "prompt", "ack"}
  <2>1. 1 \in 1..Len(s) /\ Head(s) = s[1]
    BY <1>1, <1>2
  <2> QED
    BY <2>1 DEF Loose
<1>3. ASSUME Len(s) > 1 PROVE s[2] # "initLocked"
  <2>1. 2 \in 1..Len(s)
    BY <1>1, <1>3
  <2> QED
    BY <2>1 DEF Loose
<1> QED
  BY <1>1, <1>2, <1>3 DEF Inside

\* What find_device leaves behind comes before any command.
LEMMA NotFoundIsEarly == Early(<<"close", "notFound", "print">>) /\ Early(<<>>)
<1> DEFINE s == <<"close", "notFound", "print">>
<1>1. \A x \in {"close", "notFound", "print"} : x \in Words
  BY DEF Words
<1>2. s \in Seq({"close", "notFound", "print"}) /\ Len(s) = 3
  OBVIOUS
<1>3. s[1] = "close" /\ s[2] = "notFound" /\ s[3] = "print"
  OBVIOUS
<1>4. s \in Seq(Words)
  BY <1>1, <1>2
<1> HIDE DEF s
<1>5. \A i \in 1..3 : i = 1 \/ i = 2 \/ i = 3
  OBVIOUS
<1>6. Quiet(s)
  BY <1>2, <1>3, <1>4, <1>5 DEF Quiet, Loose
<1>7. Early(s)
  BY <1>2, <1>3, <1>5, <1>6 DEF Early
<1>8. Early(<<>>)
  BY DEF Early, Quiet, Loose
<1> QED
  BY <1>7, <1>8 DEF s

\* Going on with loose steps, and raising.
LEMMA LooseGoesOn ==
    ASSUME NEW s, Loose(s)
    PROVE  /\ Len(s) > 0 => Loose(Trim(Tail(s)))
           /\ Loose(AfterRaise(s))
<1>1. s \in Seq(Words)
  BY DEF Loose
<1>2. ASSUME Len(s) > 0 PROVE Loose(Trim(Tail(s)))
  <2>1. PICK k : Drops(s, Trim(Tail(s)), k)
    BY <1>1, <1>2, ContinueDrops
  <2> QED
    BY <2>1, LooseSuffix
<1>3. Loose(AfterRaise(s))
  <2>1. CASE Dies(s) \/ Unfound(s)
    BY <2>1, NotFoundIsEarly DEF Dies, Unfound, Early, Quiet
  <2>2. CASE \E m \in 1..Len(s) : \E k \in m..Len(s) : Caught(s, m, k)
    BY <2>2, LooseSuffix DEF Caught
  <2> QED
    BY <1>1, <2>1, <2>2, RaiseDrops
<1> QED
  BY <1>2, <1>3

\* What is left of early steps is early, unless only the output is left.
LEMMA EarlySuffix ==
    ASSUME NEW s, NEW t, NEW k, Early(s), Drops(s, t, k), k > 0, s[k] \notin {"list", "notFound"}
    PROVE  Early(t)
<1>1. s \in Seq(Words) /\ t \in Seq(Words) /\ Len(s) \in Nat /\ k \in 1..Len(s) /\ Len(t) = Len(s) - k
  BY DEF Early, Quiet, Loose, Drops
<1>2. Quiet(t)
  BY LooseSuffix DEF Early, Quiet
<1>3. ASSUME NEW i \in 1..Len(t)
      PROVE  /\ t[i] \notin {"xpub", "resultErrors"}
             /\ t[i] = "print" => i > 1 /\ t[i - 1] \in {"list", "notFound"}
             /\ t[i] \in {"list", "notFound"} => i + 1 = Len(t) /\ t[i + 1] = "print"
  <2>1. i + k \in 1..Len(s) /\ t[i] = s[i + k]
    BY <1>1 DEF Drops
  <2>2. /\ s[i + k] \notin {"xpub", "resultErrors"}
        /\ s[i + k] = "print" => s[(i + k) - 1] \in {"list", "notFound"}
        /\ s[i + k] \in {"list", "notFound"} => (i + k) + 1 = Len(s) /\ s[(i + k) + 1] = "print"
    BY <2>1 DEF Early
  <2>3. ASSUME t[i] = "print" PROVE i > 1 /\ t[i - 1] \in {"list", "notFound"}
    <3>1. s[(i + k) - 1] \in {"list", "notFound"}
      BY <2>1, <2>2, <2>3
    <3>2. i # 1
      <4> SUFFICES ASSUME i = 1 PROVE FALSE
        OBVIOUS
      <4>1. (i + k) - 1 = k
        BY <1>1
      <4> QED
        BY <3>1, <4>1
    <3>3. i > 1 /\ i - 1 \in 1..Len(t) /\ (i - 1) + k = (i + k) - 1
      BY <1>1, <3>2
    <3>4. t[i - 1] = s[(i - 1) + k]
      BY <3>3 DEF Drops
    <3> QED
      BY <3>1, <3>3, <3>4
  <2>4. ASSUME t[i] \in {"list", "notFound"} PROVE i + 1 = Len(t) /\ t[i + 1] = "print"
    <3>1. (i + k) + 1 = Len(s) /\ s[(i + k) + 1] = "print"
      BY <2>1, <2>2, <2>4
    <3>2. i + 1 = Len(t) /\ i + 1 \in 1..Len(t) /\ (i + 1) + k = (i + k) + 1
      BY <1>1, <3>1
    <3>3. t[i + 1] = s[(i + 1) + k]
      BY <3>2 DEF Drops
    <3> QED
      BY <3>1, <3>2, <3>3
  <2> QED
    BY <2>1, <2>2, <2>3, <2>4
<1> QED
  BY <1>1, <1>2, <1>3 DEF Early

\* Early steps are not those of a command or of what follows it.
LEMMA EarlyIsOutside ==
    ASSUME NEW s, Early(s)
    PROVE  /\ s \in Seq(Words) /\ ~Inside(s) /\ s \notin {Closing, Printing}
           /\ s # <<>> => Head(s) \notin {"print", "xpub", "open", "prompt", "ack", "initLocked"}
<1>1. s \in Seq(Words) /\ ~Inside(s)
  BY LooseIsOutside DEF Early, Quiet
<1>2. s # Closing
  <2> SUFFICES ASSUME s = Closing PROVE FALSE
    OBVIOUS
  <2>1. Len(s) = 3 /\ s[2] = "resultErrors" /\ 2 \in 1..3
    BY DEF Closing
  <2> QED
    BY <2>1 DEF Early
<1>3. ASSUME s # <<>>
      PROVE  Head(s) \notin {"print", "xpub", "open", "prompt", "ack", "initLocked"}
  <2>1. 1 \in 1..Len(s) /\ Head(s) = s[1]
    BY <1>1, <1>3
  <2> QED
    BY <2>1 DEF Early, Quiet, Loose
<1>4. s # Printing
  <2> SUFFICES ASSUME s = Printing PROVE FALSE
    OBVIOUS
  <2>1. s # <<>> /\ Head(s) = "print"
    BY DEF Printing
  <2> QED
    BY <1>3, <2>1
<1> QED
  BY <1>1, <1>2, <1>3, <1>4

\* Going on before the command.
LEMMA EarlyGoesOn ==
    ASSUME NEW s, Early(s), Len(s) > 0
    PROVE  /\ Head(s) \notin {"list", "notFound"} => Early(Trim(Tail(s)))
           /\ Head(s) \in {"list", "notFound"} => Trim(Tail(s)) = Printing
<1>1. s \in Seq(Words) /\ Len(s) \in Nat /\ 1 \in 1..Len(s) /\ Head(s) = s[1]
  BY EarlyIsOutside
<1>2. PICK k \in 1..Len(s) : /\ Drops(s, Trim(Tail(s)), k)
                             /\ \A j \in 2..k : s[j] \in Blocks
                             /\ k = Len(s) \/ s[k + 1] \notin Blocks
  BY <1>1, ContinueDrops
<1>3. ASSUME Head(s) \notin {"list", "notFound"} PROVE Early(Trim(Tail(s)))
  <2>1. s[k] \notin {"list", "notFound"}
    <3>1. CASE k = 1
      BY <1>1, <1>3, <3>1
    <3>2. CASE k # 1
      <4>1. k \in 2..k
        BY <1>1, <3>2
      <4>2. s[k] \in Blocks
        BY <1>2, <4>1
      <4> QED
        BY <4>2 DEF Blocks, Catches
    <3> QED
      BY <3>1, <3>2
  <2>2. k > 0
    BY <1>1
  <2> QED
    BY <1>2, <2>1, <2>2, EarlySuffix
<1>4. ASSUME Head(s) \in {"list", "notFound"} PROVE Trim(Tail(s)) = Printing
  <2>1. 1 + 1 = Len(s) /\ s[1 + 1] = "print"
    BY <1>1, <1>4 DEF Early
  <2>2. Len(s) = 2 /\ s[2] = "print"
    BY <2>1
  <2>3. k = 1
    <3>1. "print" \notin Blocks
      BY DEF Blocks, Catches
    <3>2. ~(2 \in 2..k)
      BY <1>2, <2>2, <3>1
    <3> QED
      BY <2>2, <3>2
  <2>4. Drops(s, Printing, 1)
    <3>1. Printing[1] = s[1 + 1] /\ Len(Printing) = 1 /\ Printing \in Seq(Words)
      BY <2>1, EndTypes DEF Printing
    <3>2. \A i \in 1..1 : Printing[i] = s[i + 1]
      BY <3>1
    <3> QED
      BY <2>2, <3>1, <3>2 DEF Drops
  <2> QED
    BY <1>1, <1>2, <2>3, <2>4, DropsOnce
<1> QED
  BY <1>3, <1>4

\* Raising before the command.
LEMMA EarlyRaises ==
    ASSUME NEW s, Early(s)
    PROVE  Early(AfterRaise(s)) /\ CaughtBy(s) # "resultErrors"
<1>1. s \in Seq(Words) /\ Len(s) \in Nat
  BY EarlyIsOutside
<1>2. CASE Dies(s) \/ Unfound(s)
  BY <1>2, NotFoundIsEarly DEF Dies, Unfound
<1>3. CASE \E m \in 1..Len(s) : \E k \in m..Len(s) : Caught(s, m, k)
  <2>1. PICK m \in 1..Len(s) : \E k \in m..Len(s) : Caught(s, m, k)
    BY <1>3
  <2>2. PICK k \in m..Len(s) : Caught(s, m, k)
    BY <2>1
  <2>3. s[m] # "resultErrors"
    BY DEF Early
  <2>4. s[k] \in Blocks
    <3>1. CASE k = m
      BY <2>2, <3>1 DEF Caught, Blocks, Catches
    <3>2. CASE k # m
      <4>1. k \in (m + 1)..k
        BY <1>1, <3>2
      <4> QED
        BY <2>2, <4>1 DEF Caught
    <3> QED
      BY <3>1, <3>2
  <2>5. s[k] \notin {"list", "notFound"} /\ k > 0
    BY <1>1, <2>4 DEF Blocks, Catches
  <2> QED
    BY <2>2, <2>3, <2>5, EarlySuffix DEF Caught
<1> QED
  BY <1>1, <1>2, <1>3, RaiseDrops

----------------------------------------------------------------------------
(* The GUI's slots                                                         *)

Shown == <<"messageBox", "showDialog">>
Acked == <<"messageBox", "closeDialog">>

\* What follows prompt_pin and send_pin in the slots of the GUI.
LEMMA SlotEnds ==
    /\ Shown \in Seq(Words) /\ Len(Shown) > 0 /\ Shown[1] = "messageBox"
    /\ Trim(Shown) = <<"showDialog">> /\ Trim(Tail(Shown)) = <<"showDialog">>
    /\ Loose(<<"showDialog">>) /\ Quiet(Acked) /\ Acked[1] = "messageBox"
<1>1. \A x \in {"messageBox", "showDialog", "closeDialog"} : x \in Words
  BY DEF Words, Blocks, Catches
<1>2. Shown \in Seq({"messageBox", "showDialog", "closeDialog"}) /\ Len(Shown) = 2
  BY DEF Shown
<1>3. Shown \in Seq(Words) /\ Shown[1] = "messageBox" /\ Shown[2] = "showDialog"
  BY <1>1, <1>2 DEF Shown
<1>4. <<"showDialog">> \in Seq(Words) /\ Len(<<"showDialog">>) = 1
  BY <1>1
<1>5. Shown[1] \in Blocks /\ Shown[2] \notin Blocks
  BY <1>3 DEF Blocks, Catches
<1>6. Drops(Shown, <<"showDialog">>, 1)
  <2>1. \A i \in 1..1 : <<"showDialog">>[i] = Shown[i + 1]
    BY <1>3
  <2> QED
    BY <1>2, <1>4, <2>1 DEF Drops
<1>7. Drops(Shown, Trim(Shown), 1)
  <2>1. 1 \in 0..Len(Shown) /\ Shown[1 + 1] \notin Blocks /\ \A j \in 1..1 : Shown[j] \in Blocks
    BY <1>2, <1>5
  <2> QED
    BY <1>3, <2>1, TrimAt
<1>8. Trim(Shown) = <<"showDialog">>
  BY <1>3, <1>6, <1>7, DropsOnce
<1>9. Trim(Tail(Shown)) = <<"showDialog">>
  <2>1. Len(Shown) > 0
    BY <1>2
  <2>2. PICK k \in 1..Len(Shown) : /\ Drops(Shown, Trim(Tail(Shown)), k)
                                   /\ \A j \in 2..k : Shown[j] \in Blocks
    BY <1>3, <2>1, ContinueDrops
  <2>3. ~(2 \in 2..k)
    BY <1>5, <2>2
  <2>4. k = 1
    BY <1>2, <2>3
  <2> QED
    BY <1>3, <1>6, <2>2, <2>4, DropsOnce
<1>10. Loose(<<"showDialog">>)
  <2>1. \A i \in 1..1 : <<"showDialog">>[i] = "showDialog" /\ i = 1
    OBVIOUS
  <2> QED
    BY <1>4, <2>1 DEF Loose
<1>11. Acked \in Seq(Words) /\ Len(Acked) = 2 /\ Acked[1] = "messageBox" /\ Acked[2] = "closeDialog"
  <2>1. Acked \in Seq({"messageBox", "showDialog", "closeDialog"})
    BY DEF Acked
  <2> QED
    BY <1>1, <2>1 DEF Acked
<1>12. Quiet(Acked)
  <2>1. \A i \in 1..2 : i = 1 \/ i = 2
    OBVIOUS
  <2>2. \A i \in 1..2 : Acked[i] \in {"messageBox", "closeDialog"}
    BY <1>11, <2>1
  <2> QED
    BY <1>11, <2>2 DEF Quiet, Loose
<1>13. Len(Shown) > 0
  BY <1>2
<1> QED
  BY <1>3, <1>8, <1>9, <1>10, <1>11, <1>12, <1>13

\* Loose steps after each other are loose.
LEMMA QuietJoins ==
    ASSUME NEW s, NEW t, Quiet(s), Quiet(t)
    PROVE  Quiet(s \o t)
<1> DEFINE r == s \o t
<1>1. s \in Seq(Words) /\ t \in Seq(Words) /\ Len(s) \in Nat /\ Len(t) \in Nat
  BY DEF Quiet, Loose
<1>2. /\ r \in Seq(Words) /\ Len(r) = Len(s) + Len(t)
      /\ \A i \in 1..Len(s) : r[i] = s[i]
      /\ \A i \in 1..Len(t) : r[i + Len(s)] = t[i]
  BY <1>1, Joins
<1> HIDE DEF r
<1>3. ASSUME NEW i \in 1..Len(r)
      PROVE  r[i] \notin {"open", "initLocked", "prompt", "ack", "showDialog"}
  <2>1. CASE i <= Len(s)
    <3>1. i \in 1..Len(s) /\ r[i] = s[i]
      BY <1>1, <1>2, <2>1
    <3> QED
      BY <3>1 DEF Quiet, Loose
  <2>2. CASE i > Len(s)
    <3> DEFINE j == i - Len(s)
    <3>1. j \in 1..Len(t) /\ j + Len(s) = i
      BY <1>1, <1>2, <2>2
    <3> HIDE DEF j
    <3>2. r[i] = t[j]
      BY <1>2, <3>1
    <3> QED
      BY <3>1, <3>2 DEF Quiet, Loose
  <2> QED
    BY <1>1, <1>2, <2>1, <2>2
<1>4. Quiet(r)
  BY <1>2, <1>3 DEF Quiet, Loose
<1> QED
  BY <1>4 DEF r

\* How the GUI goes on inside of prompt_pin.
PromptStep(s) ==
    LET next == Trim(Tail(s))
    IN /\ s \in Seq(Words) /\ Len(s) > 0
       /\ Head(s) \in {"open", "refresh", "initLocked", "prompt"}
       /\ CaughtBy(s) = "messageBox" /\ AfterRaise(s) = <<"showDialog">>
       /\ Head(s) = "prompt" => next = <<"showDialog">>
       /\ Head(s) # "prompt" => next \in PromptSlot /\ Within(s, next)

\* The slot that prompts goes on, or raises into showing the dialog.
LEMMA PromptGoesOn ==
    ASSUME NEW s, s \in PromptSlot
    PROVE  PromptStep(s)
<1>1. PICK u \in Prompting : s = u \o Shown
  BY DEF PromptSlot, Shown
<1>2. Shown[1] \in {"resultErrors", "messageBox"} /\ u \in Prompting \cup Sending \cup Reading
  BY SlotEnds
<1>3. BlockStep(u, Shown, s)
  BY <1>1, <1>2, SlotEnds, BlockGoesOn
<1>4. /\ s \in Seq(Words) /\ Len(s) > 0 /\ Head(s) = u[1]
      /\ u[1] \in {"open", "refresh", "initLocked", "prompt", "ack", "initUnlocked", "pubkey", "xpub"}
      /\ CaughtBy(s) = Shown[1] /\ AfterRaise(s) = Trim(Tail(Shown))
      /\ u[1] \in {"prompt", "ack", "xpub"} => Trim(Tail(s)) = Trim(Shown)
      /\ u[1] \notin {"prompt", "ack", "xpub"} =>
            Len(u) > 1 /\ Trim(Tail(s)) = Tail(u) \o Shown /\ Within(s, Trim(Tail(s)))
  BY <1>3, Zenon DEF BlockStep
<1>5. u[1] \notin {"ack", "xpub", "pubkey", "initUnlocked"} /\ (Len(u) > 1 => Tail(u) \in Prompting)
  BY PromptingGoesOn
<1>6. Head(s) \in {"open", "refresh", "initLocked", "prompt"}
  BY <1>4, <1>5
<1>7. CaughtBy(s) = "messageBox" /\ AfterRaise(s) = <<"showDialog">>
  BY <1>4, SlotEnds
<1>8. Head(s) = "prompt" => Trim(Tail(s)) = <<"showDialog">>
  BY <1>4, SlotEnds
<1>9. ASSUME Head(s) # "prompt" PROVE Trim(Tail(s)) \in PromptSlot /\ Within(s, Trim(Tail(s)))
  <2>1. Tail(u) \in Prompting /\ Trim(Tail(s)) = Tail(u) \o Shown /\ Within(s, Trim(Tail(s)))
    BY <1>4, <1>5, <1>9
  <2> QED
    BY <2>1 DEF PromptSlot, Shown
<1> QED
  BY <1>4, <1>6, <1>7, <1>8, <1>9, Zenon DEF PromptStep

\* How the GUI goes on inside of send_pin.
SendStep(s) ==
    LET next == Trim(Tail(s))
    IN /\ s \in Seq(Words) /\ Len(s) > 0
       /\ Head(s) \in {"open", "ack"}
       /\ CaughtBy(s) = "messageBox" /\ Loose(AfterRaise(s))
       /\ Head(s) = "ack" => Loose(next)
       /\ Head(s) # "ack" => SendSlot(next) /\ Within(s, next)

\* The slot that sends the PIN goes on, or leaves only loose steps.
LEMMA SendGoesOn ==
    ASSUME NEW s, SendSlot(s)
    PROVE  SendStep(s)
<1>0. PICK u \in Sending : \E r : Quiet(r) /\ s = u \o (Acked \o r)
  BY DEF SendSlot, Acked
<1>1. PICK r : Quiet(r) /\ s = u \o (Acked \o r)
  BY <1>0
<1> DEFINE K == Acked \o r
<1>2. Loose(K)
  <2>1. Quiet(K)
    BY <1>1, SlotEnds, QuietJoins
  <2> QED
    BY <2>1 DEF Quiet
<1>3. K \in Seq(Words) /\ Len(K) > 0 /\ K[1] = "messageBox"
  <2>1. Acked \in Seq(Words) /\ r \in Seq(Words) /\ Len(r) \in Nat
    BY <1>1, SlotEnds DEF Quiet, Loose
  <2>2. Len(Acked) = 2 /\ 1 \in 1..2
    BY DEF Acked
  <2>3. K \in Seq(Words) /\ Len(K) = Len(Acked) + Len(r) /\ \A i \in 1..Len(Acked) : K[i] = Acked[i]
    BY <2>1, Joins
  <2> HIDE DEF K
  <2>4. K[1] = Acked[1] /\ Len(K) > 0
    BY <2>1, <2>2, <2>3
  <2> QED
    BY <2>3, <2>4, SlotEnds
<1>4. s = u \o K /\ K[1] \in {"resultErrors", "messageBox"} /\ u \in Prompting \cup Sending \cup Reading
  BY <1>1, <1>3
<1> HIDE DEF K
<1>5. BlockStep(u, K, s)
  BY <1>3, <1>4, BlockGoesOn
<1>6. /\ s \in Seq(Words) /\ Len(s) > 0 /\ Head(s) = u[1]
      /\ CaughtBy(s) = K[1] /\ AfterRaise(s) = Trim(Tail(K))
      /\ u[1] \in {"prompt", "ack", "xpub"} => Trim(Tail(s)) = Trim(K)
      /\ u[1] \notin {"prompt", "ack", "xpub"} =>
            Len(u) > 1 /\ Trim(Tail(s)) = Tail(u) \o K /\ Within(s, Trim(Tail(s)))
  BY <1>5, Zenon DEF BlockStep
<1>7. u[1] \in {"open", "ack"} /\ (Len(u) > 1 => Tail(u) \in Sending)
  BY SendingGoesOn
<1>8. CaughtBy(s) = "messageBox" /\ Loose(AfterRaise(s))
  <2>1. Loose(Trim(Tail(K)))
    BY <1>2, <1>3, LooseGoesOn
  <2> QED
    BY <1>3, <1>6, <2>1
<1>9. ASSUME Head(s) = "ack" PROVE Loose(Trim(Tail(s)))
  <2>1. Trim(Tail(s)) = Trim(K)
    BY <1>6, <1>9
  <2>2. PICK k : Drops(K, Trim(K), k)
    BY <1>3, TrimDrops
  <2> QED
    BY <1>2, <2>1, <2>2, LooseSuffix
<1>10. ASSUME Head(s) # "ack" PROVE SendSlot(Trim(Tail(s))) /\ Within(s, Trim(Tail(s)))
  <2>1. Tail(u) \in Sending /\ Trim(Tail(s)) = Tail(u) \o K /\ Within(s, Trim(Tail(s)))
    BY <1>6, <1>7, <1>10
  <2>2. SendSlot(Trim(Tail(s)))
    BY <1>1, <2>1 DEF SendSlot, Acked, K
  <2> QED
    BY <2>1, <2>2
<1>11. Head(s) \in {"open", "ack"}
  BY <1>6, <1>7
<1> QED
  BY <1>6, <1>8, <1>9, <1>10, <1>11, Zenon DEF SendStep

----------------------------------------------------------------------------
(* Programs                                                                *)

Calm == Words \ {"open", "initLocked", "prompt", "ack", "showDialog"}
Before == Calm \ {"xpub", "resultErrors", "print", "list", "notFound"}

\* Steps from which the PIN, open() and the dialog are absent are quiet.
LEMMA QuietFrom ==
    ASSUME NEW s \in Seq(Calm)
    PROVE  Quiet(s)
<1>1. Calm \subseteq Words
  BY DEF Calm
<1>2. s \in Seq(Words)
  BY <1>1, SeqMonotonic
<1>3. \A i \in 1..Len(s) : s[i] \in Calm
  OBVIOUS
<1> QED
  BY <1>2, <1>3 DEF Quiet, Loose, Calm

\* Steps without results and output come before the command.
LEMMA EarlyFrom ==
    ASSUME NEW s \in Seq(Before)
    PROVE  Early(s)
<1>1. Before \subseteq Calm
  BY DEF Before
<1>2. s \in Seq(Calm)
  BY <1>1, SeqMonotonic
<1>3. Quiet(s)
  BY <1>2, QuietFrom
<1>4. \A i \in 1..Len(s) : s[i] \in Before
  OBVIOUS
<1> QED
  BY <1>3, <1>4 DEF Early, Before

\* Early steps before early steps.
LEMMA EarlyJoins ==
    ASSUME NEW u \in Seq(Before), NEW t, Early(t)
    PROVE  Early(u \o t)
<1> DEFINE r == u \o t
<1>u. Early(u)
  BY EarlyFrom
<1>q. Quiet(r)
  BY <1>u, QuietJoins DEF Early
<1>1. u \in Seq(Words) /\ t \in Seq(Words) /\ Len(u) \in Nat /\ Len(t) \in Nat
  BY <1>u DEF Early, Quiet, Loose
<1>2. /\ r \in Seq(Words) /\ Len(r) = Len(u) + Len(t)
      /\ \A i \in 1..Len(u) : r[i] = u[i]
      /\ \A i \in 1..Len(t) : r[i + Len(u)] = t[i]
  BY <1>1, Joins
<1>b. \A i \in 1..Len(u) : u[i] \notin {"xpub", "resultErrors", "print", "list", "notFound"}
  <2>1. \A i \in 1..Len(u) : u[i] \in Before
    OBVIOUS
  <2> QED
    BY <2>1 DEF Before
<1> HIDE DEF r
<1>3. ASSUME NEW i \in 1..Len(r)
      PROVE  /\ r[i] \notin {"xpub", "resultErrors"}
             /\ r[i] = "print" => i > 1 /\ r[i - 1] \in {"list", "notFound"}
             /\ r[i] \in {"list", "notFound"} => i + 1 = Len(r) /\ r[i + 1] = "print"
  <2>1. CASE i <= Len(u)
    <3>1. i \in 1..Len(u) /\ r[i] = u[i]
      BY <1>1, <1>2, <2>1
    <3> QED
      BY <3>1, <1>b
  <2>2. CASE i > Len(u)
    <3> DEFINE j == i - Len(u)
    <3>1. j \in 1..Len(t) /\ j + Len(u) = i
      BY <1>1, <1>2, <2>2
    <3> HIDE DEF j
    <3>2. r[i] = t[j]
      BY <1>2, <3>1
    <3>3. /\ t[j] \notin {"xpub", "resultErrors"}
          /\ t[j] = "print" => j > 1 /\ t[j - 1] \in {"list", "notFound"}
          /\ t[j] \in {"list", "notFound"} => j + 1 = Len(t) /\ t[j + 1] = "print"
      BY <3>1 DEF Early
    <3>4. ASSUME r[i] = "print" PROVE i > 1 /\ r[i - 1] \in {"list", "notFound"}
      <4>1. j > 1 /\ t[j - 1] \in {"list", "notFound"}
        BY <3>2, <3>3, <3>4
      <4>2. j - 1 \in 1..Len(t) /\ (j - 1) + Len(u) = i - 1 /\ i > 1
        BY <1>1, <3>1, <4>1
      <4> QED
        BY <1>2, <4>1, <4>2
    <3>5. ASSUME r[i] \in {"list", "notFound"} PROVE i + 1 = Len(r) /\ r[i + 1] = "print"
      <4>1. j + 1 = Len(t) /\ t[j + 1] = "print"
        BY <3>2, <3>3, <3>5
      <4>2. j + 1 \in 1..Len(t) /\ (j + 1) + Len(u) = i + 1
        BY <1>1, <3>1, <4>1
      <4>3. i + 1 = Len(r)
        <5>1. Len(r) = Len(u) + Len(t) /\ Len(u) \in Nat /\ Len(t) \in Nat /\ j \in Nat
          BY <1>1, <1>2, <3>1
        <5>2. j + 1 = Len(t) /\ j + Len(u) = i
          BY <3>1, <4>1
        <5> QED
          BY <5>1, <5>2
      <4> QED
        BY <1>2, <4>1, <4>2, <4>3
    <3> QED
      BY <3>2, <3>3, <3>4, <3>5
  <2> QED
    BY <1>1, <1>2, <2>1, <2>2
<1>4. Early(r)
  BY <1>q, <1>3 DEF Early
<1> QED
  BY <1>4 DEF r

\* Entering blocks.
LEMMA EarlyTrims ==
    ASSUME NEW s, Early(s)
    PROVE  Early(Trim(s))
<1>1. s \in Seq(Words) /\ Len(s) \in Nat
  BY EarlyIsOutside
<1>2. PICK k \in 0..Len(s) : Drops(s, Trim(s), k) /\ \A j \in 1..k : s[j] \in Blocks
  BY <1>1, TrimDrops
<1>3. CASE k = 0
  <2>1. Drops(s, s, 0)
    BY <1>1 DEF Drops
  <2> QED
    BY <1>1, <1>2, <1>3, <2>1, DropsOnce
<1>4. CASE k # 0
  <2>1. k > 0 /\ k \in 1..k
    BY <1>1, <1>4
  <2>2. s[k] \notin {"list", "notFound"}
    BY <1>2, <2>1 DEF Blocks, Catches
  <2> QED
    BY <1>2, <2>1, <2>2, EarlySuffix
<1> QED
  BY <1>3, <1>4

\* Leaving blocks keeps a sequence of steps quiet.
LEMMA QuietTrims ==
    ASSUME NEW s, Quiet(s)
    PROVE  Quiet(Trim(s)) /\ Loose(Trim(s))
<1>1. s \in Seq(Words) /\ Loose(s)
  BY DEF Quiet, Loose
<1>2. PICK k \in 0..Len(s) : Drops(s, Trim(s), k)
  BY <1>1, TrimDrops
<1> QED
  BY <1>1, <1>2, LooseSuffix

\* A block is entered.
LEMMA TryTrims ==
    ASSUME NEW s \in Seq(Words), Len(s) > 1, s[1] = "try", s[2] \notin Blocks
    PROVE  Drops(s, Trim(s), 1) /\ Trim(s) # <<>> /\ Head(Trim(s)) = s[2]
<1>1. Len(s) \in Nat /\ 1 \in 0..Len(s) /\ s[1 + 1] \notin Blocks
  OBVIOUS
<1>2. \A j \in 1..1 : s[j] \in Blocks
  BY DEF Blocks
<1>3. Drops(s, Trim(s), 1)
  BY <1>1, <1>2, TrimAt
<1> DEFINE t == Trim(s)
<1>4. t \in Seq(Words) /\ Len(t) = Len(s) - 1 /\ \A i \in 1..Len(t) : t[i] = s[i + 1]
  BY <1>3 DEF Drops
<1> HIDE DEF t
<1>5. t # <<>> /\ Head(t) = s[2]
  <2>1. 1 \in 1..Len(t) /\ Len(t) > 0
    BY <1>1, <1>4
  <2>2. t[1] = s[1 + 1]
    BY <1>4, <2>1
  <2> QED
    BY <1>4, <2>1, <2>2
<1> QED
  BY <1>3, <1>5 DEF t

\* The steps of enumerate, find_device and the refresh of the GUI.
LEMMA BeforeWords ==
    {"try", "new", "refresh", "initModel", "initUnlocked", "pubkey", "fingerprint", "entryErrors", "close",
     "devices", "command", "matchModel", "lookup", "compare", "except", "closeSelf", "fill", "reselect",
     "messageBox", "closeDialog"} \subseteq Before
BY DEF Before, Calm, Words, Blocks, Catches, Calls

\* The steps of get_pubkey_at_path come before the command.
LEMMA GetXpubType == GetXpub \in Seq(Before) /\ Len(GetXpub) = 3
<1> DEFINE S == {"refresh", "initUnlocked", "pubkey"}
<1>1. GetXpub \in Seq(S) /\ Len(GetXpub) = 3
  BY DEF GetXpub
<1>2. S \subseteq Before
  BY BeforeWords
<1> QED
  BY <1>1, <1>2, SeqMonotonic

\* enumerate begins with a new client.
LEMMA EnumerateType ==
    Enumerate \in Seq(Before) /\ Len(Enumerate) > 1 /\ Enumerate[1] = "try" /\ Enumerate[2] = "new"
<1> DEFINE S == {"try", "new", "refresh", "initModel", "fingerprint", "entryErrors", "close"}
           a == <<"try", "new", "refresh", "initModel">>
           b == GetXpub
           c == <<"fingerprint", "entryErrors", "close">>
<1>s. S \subseteq Before
  BY BeforeWords
<1>1. a \in Seq(S) /\ c \in Seq(S) /\ Len(a) = 4 /\ Len(c) = 3 /\ a[1] = "try" /\ a[2] = "new"
  OBVIOUS
<1>2. a \in Seq(Before) /\ c \in Seq(Before) /\ b \in Seq(Before) /\ Len(b) = 3
  BY <1>s, <1>1, SeqMonotonic, GetXpubType
<1>e. Enumerate = (a \o b) \o c
  BY DEF Enumerate
<1> HIDE DEF a, b, c
<1>3. /\ a \o b \in Seq(Before) /\ Len(a \o b) = Len(a) + Len(b)
      /\ \A i \in 1..(Len(a) + Len(b)) : (a \o b)[i] = IF i <= Len(a) THEN a[i] ELSE b[i - Len(a)]
  BY <1>2, ConcatProperties
<1> DEFINE d == a \o b
<1>4. d \in Seq(Before) /\ Len(d) = 7 /\ d[1] = "try" /\ d[2] = "new"
  BY <1>1, <1>2, <1>3
<1>5. Enumerate = d \o c
  BY <1>e
<1> HIDE DEF d
<1>6. /\ d \o c \in Seq(Before) /\ Len(d \o c) = Len(d) + Len(c)
      /\ \A i \in 1..(Len(d) + Len(c)) : (d \o c)[i] = IF i <= Len(d) THEN d[i] ELSE c[i - Len(d)]
  BY <1>2, <1>4, ConcatProperties
<1> DEFINE e == d \o c
<1>7. /\ e \in Seq(Before) /\ Len(e) = Len(d) + Len(c)
      /\ \A i \in 1..(Len(d) + Len(c)) : e[i] = IF i <= Len(d) THEN d[i] ELSE c[i - Len(d)]
  BY <1>6
<1>8. Enumerate = e
  BY <1>5
<1> HIDE DEF e
<1>9. Len(e) > 1 /\ e[1] = "try" /\ e[2] = "new"
  BY <1>1, <1>4, <1>7
<1> QED
  BY <1>7, <1>8, <1>9

\* The programs of a command line process.
LEMMA StartPrograms ==
    ASSUME NEW program \in {<<"new", "command">>, Enumerate \o <<"devices">>}
    PROVE  Early(Trim(program)) /\ Trim(program) # <<>> /\ Head(Trim(program)) = "new"
<1>1. CASE program = <<"new", "command">>
  <2> DEFINE s == <<"new", "command">>
             S == {"new", "command"}
  <2>1. s \in Seq(S) /\ Len(s) = 2 /\ s[1] = "new"
    OBVIOUS
  <2>2. S \subseteq Before
    BY BeforeWords
  <2>3. s \in Seq(Before)
    BY <2>1, <2>2, SeqMonotonic
  <2>4. Early(s) /\ s \in Seq(Words)
    BY <2>3, EarlyFrom, EarlyIsOutside
  <2> HIDE DEF s
  <2>5. Drops(s, Trim(s), 0)
    <3>1. 0 \in 0..Len(s) /\ s[0 + 1] \notin Blocks /\ \A j \in 1..0 : s[j] \in Blocks
      BY <2>1 DEF Blocks, Catches
    <3> QED
      BY <2>4, <3>1, TrimAt
  <2>6. Drops(s, s, 0)
    BY <2>4 DEF Drops
  <2>7. Trim(s) = s
    BY <2>4, <2>5, <2>6, DropsOnce
  <2>8. s # <<>> /\ Head(s) = "new"
    BY <2>1, <2>4
  <2> QED
    BY <1>1, <2>4, <2>7, <2>8 DEF s
<1>2. CASE program = Enumerate \o <<"devices">>
  <2> DEFINE a == Enumerate
             b == <<"devices">>
             s == a \o b
  <2>1. b \in Seq(Before) /\ Len(b) = 1
    <3>1. "devices" \in Before
      BY BeforeWords
    <3> QED
      BY <3>1
  <2>2. a \in Seq(Before) /\ Len(a) > 1 /\ a[1] = "try" /\ a[2] = "new" /\ Len(a) \in Nat
    BY EnumerateType
  <2> HIDE DEF a, b
  <2>3. /\ s \in Seq(Before) /\ Len(s) = Len(a) + Len(b)
        /\ \A i \in 1..(Len(a) + Len(b)) : s[i] = IF i <= Len(a) THEN a[i] ELSE b[i - Len(a)]
    BY <2>1, <2>2, ConcatProperties
  <2>4. program = s
    BY <1>2 DEF a, b
  <2> HIDE DEF s
  <2>5. Len(s) > 1 /\ s[1] = "try" /\ s[2] = "new"
    BY <2>1, <2>2, <2>3
  <2>6. Early(s) /\ s \in Seq(Words)
    BY <2>3, EarlyFrom, EarlyIsOutside
  <2>7. "new" \notin Blocks
    BY DEF Blocks, Catches
  <2> QED
    BY <2>4, <2>5, <2>6, <2>7, TryTrims, EarlyTrims
<1> QED
  BY <1>1, <1>2

\* What process_commands does with the list.
LEMMA DevicePrograms ==
    ASSUME NEW steps \in WithDevices
    PROVE  Early(Trim(steps))
<1> DEFINE S == {"matchModel", "new", "command", "try", "lookup", "compare", "except"}
<1>1. S \subseteq Before
  BY BeforeWords
<1>2. FindByModel \in Seq(S)
  BY DEF FindByModel
<1>3. FindByFingerprint \in Seq(S)
  BY DEF FindByFingerprint
<1>4. FindByModel \in Seq(Before) /\ FindByFingerprint \in Seq(Before)
  BY <1>1, <1>2, <1>3, SeqMonotonic
<1>5. Early(<<"list", "print">>)
  <2> DEFINE s == <<"list", "print">>
             C == {"list", "print"}
  <2>1. s \in Seq(C) /\ Len(s) = 2 /\ s[1] = "list" /\ s[2] = "print"
    OBVIOUS
  <2>2. C \subseteq Calm
    BY DEF Calm, Words
  <2>3. Quiet(s)
    BY <2>1, <2>2, SeqMonotonic, QuietFrom
  <2>4. \A i \in 1..2 : i = 1 \/ i = 2
    OBVIOUS
  <2> HIDE DEF s
  <2>5. Early(s)
    BY <2>1, <2>3, <2>4 DEF Early
  <2> QED
    BY <2>5 DEF s
<1>6. Early(steps)
  BY <1>4, <1>5, EarlyFrom DEF WithDevices
<1> QED
  BY <1>6, EarlyTrims

\* A client that is not the one looked for is closed before the error.
LEMMA ComparePrograms == Early(Trim(<<"close", "except", "notFound", "print">>))
<1> DEFINE s == <<"close", "except", "notFound", "print">>
           C == {"close", "except", "notFound", "print"}
<1>1. s \in Seq(C) /\ Len(s) = 4 /\ s[1] = "close" /\ s[2] = "except" /\ s[3] = "notFound" /\ s[4] = "print"
  OBVIOUS
<1>2. C \subseteq Calm
  BY DEF Calm, Words, Blocks, Catches
<1> HIDE DEF s
<1>3. Quiet(s)
  <2>1. s \in Seq(Calm)
    BY <1>1, <1>2, SeqMonotonic
  <2> QED
    BY <2>1, QuietFrom
<1>4. \A i \in 1..4 : i = 1 \/ i = 2 \/ i = 3 \/ i = 4
  OBVIOUS
<1>c. \A i \in 1..4 :
          /\ s[i] \notin {"xpub", "resultErrors"}
          /\ s[i] = "print" => i > 1 /\ s[i - 1] \in {"list", "notFound"}
          /\ s[i] \in {"list", "notFound"} => i + 1 = 4 /\ s[i + 1] = "print"
  <2>1. s[4 - 1] = "notFound" /\ s[3 + 1] = "print" /\ 4 > 1
    BY <1>1
  <2>2. s[1] \notin {"print", "list"} /\ s[2] \notin {"print", "list", "notFound"} /\ s[3] # "print"
    BY <1>1
  <2> QED
    BY <1>1, <1>4, <2>1, <2>2
<1>5. Early(s)
  BY <1>1, <1>3, <1>c DEF Early
<1>6. Early(Trim(s))
  BY <1>5, EarlyTrims
<1> QED
  BY <1>6 DEF s

\* Asking for the fingerprint comes before the command.
LEMMA LookupPrograms ==
    ASSUME NEW s, Early(s), Len(s) > 0, Head(s) = "lookup", NEW u \in {<<>>, GetXpub}
    PROVE  Early(Trim(u \o Tail(s)))
<1>1. s \in Seq(Words) /\ Head(s) = s[1]
  BY EarlyIsOutside
<1>2. Drops(s, Tail(s), 1)
  BY <1>1, TailDrops
<1>3. Early(Tail(s))
  <2>1. s[1] \notin {"list", "notFound"} /\ 1 > 0
    BY <1>1
  <2> QED
    BY <1>2, <2>1, EarlySuffix
<1>4. u \in Seq(Before)
  <2>1. <<>> \in Seq(Before)
    OBVIOUS
  <2> QED
    BY <2>1, GetXpubType
<1>5. Early(u \o Tail(s))
  BY <1>3, <1>4, EarlyJoins
<1> QED
  BY <1>5, EarlyTrims

\* Sequences put together in two ways.
LEMMA Brackets ==
    ASSUME NEW a \in Seq(Words), NEW b \in Seq(Words), NEW c \in Seq(Words)
    PROVE  (a \o b) \o c = a \o (b \o c)
BY ConcatAssociative

\* A block with the steps u in it, that ends with K.
LEMMA BlockBegins ==
    ASSUME NEW u \in Seq(Plain), Len(u) > 0, NEW K \in Seq(Words)
    PROVE  Trim((<<"try">> \o u) \o K) = u \o K
<1> DEFINE a == <<"try">>
           v == u \o K
           s == a \o v
<1>1. a \in Seq(Words) /\ Len(a) = 1 /\ a[1] = "try"
  BY DEF Words, Blocks
<1>u. u \in Seq(Words) /\ Len(u) \in Nat /\ Len(K) \in Nat /\ \A i \in 1..Len(u) : u[i] \notin Blocks
  BY PlainIsWords
<1>2. (a \o u) \o K = s
  BY <1>1, <1>u, Brackets
<1>3. v \in Seq(Words) /\ Len(v) = Len(u) + Len(K) /\ \A i \in 1..Len(u) : v[i] = u[i]
  BY <1>u, Joins
<1> HIDE DEF a, v
<1>4. /\ s \in Seq(Words) /\ Len(s) = Len(a) + Len(v)
      /\ \A i \in 1..Len(a) : s[i] = a[i]
      /\ \A i \in 1..Len(v) : s[i + Len(a)] = v[i]
  BY <1>1, <1>3, Joins
<1>5. Drops(s, v, Len(a))
  BY <1>1, <1>3, JoinDrops
<1> HIDE DEF s
<1>6. 1 \in 1..Len(a) /\ 1 \in 1..Len(u) /\ 1 \in 1..Len(v) /\ 1 + Len(a) = 2
  BY <1>1, <1>u, <1>3
<1>7. s[1] = "try" /\ s[2] = u[1] /\ u[1] \notin Blocks
  BY <1>1, <1>u, <1>3, <1>4, <1>6
<1>8. Len(s) > 1
  BY <1>1, <1>u, <1>3, <1>4
<1>9. Drops(s, Trim(s), 1)
  BY <1>4, <1>7, <1>8, TryTrims
<1>10. Drops(s, v, 1)
  BY <1>1, <1>5
<1>11. Trim(s) = v
  BY <1>4, <1>9, <1>10, DropsOnce
<1> QED
  BY <1>2, <1>11 DEF a, v

\* The command of a command line process.
LEMMA CommandPrograms ==
    ASSUME NEW body \in Bodies
    PROVE  /\ Commanding(Trim(DoCommand(body)))
           /\ ~Inside(Trim(DoCommand(body)))
           /\ Trim(DoCommand(body)) # <<>>
           /\ Head(Trim(DoCommand(body))) \in {"open", "refresh"}
<1>1. PICK u \in Prompting \cup Sending \cup Reading : body = u /\ u[1] \in {"open", "refresh"} /\ ~Opened(u)
  <2>1. CASE body = PromptPin
    BY <2>1 DEF PromptPin, Prompting, Opened
  <2>2. CASE body = SendPin
    BY <2>2 DEF SendPin, Sending, Opened
  <2>3. CASE body = GetXpub \o <<"xpub">>
    <3> DEFINE u == <<"refresh", "initUnlocked", "pubkey", "xpub">>
               S == {"refresh", "initUnlocked", "pubkey", "xpub"}
               a == GetXpub
               b == <<"xpub">>
               v == a \o b
    <3>1. u \in Seq(S) /\ Len(u) = 4 /\ u[1] = "refresh" /\ u[2] = "initUnlocked" /\ u[3] = "pubkey" /\ u[4] = "xpub"
      OBVIOUS
    <3>2. a \in Seq(S) /\ Len(a) = 3 /\ a[1] = "refresh" /\ a[2] = "initUnlocked" /\ a[3] = "pubkey"
      BY DEF GetXpub
    <3>3. b \in Seq(S) /\ Len(b) = 1 /\ b[1] = "xpub"
      OBVIOUS
    <3>u. u \in Reading
      BY DEF Reading
    <3> HIDE DEF a, b, u
    <3>4. /\ v \in Seq(S) /\ Len(v) = Len(a) + Len(b)
          /\ \A i \in 1..(Len(a) + Len(b)) : v[i] = IF i <= Len(a) THEN a[i] ELSE b[i - Len(a)]
      BY <3>2, <3>3, ConcatProperties
    <3> HIDE DEF v
    <3>5. Len(v) = 4 /\ v[1] = u[1] /\ v[2] = u[2] /\ v[3] = u[3] /\ v[4] = u[4]
      BY <3>1, <3>2, <3>3, <3>4
    <3>6. \A i \in 1..4 : i = 1 \/ i = 2 \/ i = 3 \/ i = 4
      OBVIOUS
    <3>7. \A i \in 1..4 : v[i] = u[i]
      BY <3>5, <3>6
    <3>8. v = u
      BY <3>1, <3>4, <3>5, <3>7, SeqEqual
    <3>9. body = u
      BY <2>3, <3>8 DEF v, a, b
    <3>10. u[1] \in {"open", "refresh"} /\ ~Opened(u)
      BY <3>1 DEF Opened
    <3> QED
      BY <3>u, <3>9, <3>10
  <2> QED
    BY <2>1, <2>2, <2>3 DEF Bodies
<1>2. u \in Seq(Plain) /\ Len(u) > 0
  BY CommandTypes
<1>3. CommandEnd \in Seq(Words) /\ Len(CommandEnd) > 0 /\ CommandEnd[1] \in Blocks
  BY EndTypes DEF CommandEnd, Blocks, Catches
<1>4. DoCommand(body) = (<<"try">> \o u) \o CommandEnd
  BY <1>1 DEF DoCommand, CommandEnd
<1>5. Trim(DoCommand(body)) = u \o CommandEnd
  BY <1>2, <1>3, <1>4, BlockBegins
<1> DEFINE s == u \o CommandEnd
<1>6. s \in Seq(Words) /\ Len(s) > 1 /\ Head(s) = u[1] /\ Inside(s) = Opened(u)
  BY <1>2, <1>3, BlockStarts
<1>7. Commanding(s)
  BY DEF Commanding
<1> HIDE DEF s
<1>8. s # <<>> /\ ~Inside(s) /\ Head(s) \in {"open", "refresh"}
  BY <1>1, <1>6
<1> QED
  BY <1>5, <1>7, <1>8 DEF s

\* A key is read in a block of its own.
LEMMA BoxedGetXpub == Quiet(Boxed(GetXpub))
<1> DEFINE a == <<"try">>
           b == GetXpub
           c == <<"messageBox">>
<1>1. "try" \in Before /\ "messageBox" \in Before
  BY BeforeWords
<1>2. a \in Seq(Before) /\ c \in Seq(Before)
  BY <1>1
<1>3. b \in Seq(Before)
  BY GetXpubType
<1>4. Boxed(GetXpub) = (a \o b) \o c
  BY DEF Boxed
<1> HIDE DEF a, b, c
<1>5. a \o b \in Seq(Before)
  BY <1>2, <1>3, ConcatProperties
<1>6. (a \o b) \o c \in Seq(Before)
  BY <1>2, <1>5, ConcatProperties
<1> QED
  BY <1>4, <1>6, EarlyFrom DEF Early

\* refresh_clicked
LEMMA RefreshPrograms == Quiet(RefreshSteps)
<1> DEFINE a == IF gui.client = NoClient THEN <<>> ELSE <<"closeSelf">>
           b == Enumerate
           c == <<"fill">>
<1>1. "closeSelf" \in Before /\ "fill" \in Before
  BY BeforeWords
<1>2. c \in Seq(Before)
  BY <1>1
<1>3. a \in Seq(Before)
  <2>1. <<>> \in Seq(Before) /\ <<"closeSelf">> \in Seq(Before)
    BY <1>1
  <2> QED
    BY <2>1
<1>4. b \in Seq(Before)
  BY EnumerateType
<1>5. RefreshSteps = (a \o b) \o c
  BY DEF RefreshSteps
<1> HIDE DEF a, b, c
<1>6. a \o b \in Seq(Before)
  BY <1>3, <1>4, ConcatProperties
<1>7. (a \o b) \o c \in Seq(Before)
  BY <1>2, <1>6, ConcatProperties
<1> QED
  BY <1>5, <1>7, EarlyFrom DEF Early

\* get_client_and_device_info
LEMMA InfoPrograms ==
    ASSUME NEW s, Quiet(s), NEW more \in {<<>>, Boxed(GetXpub) \o Boxed(GetXpub)}
    PROVE  Loose(Trim(s \o more))
<1>1. Quiet(<<>>)
  BY NotFoundIsEarly DEF Early
<1>2. Quiet(Boxed(GetXpub) \o Boxed(GetXpub))
  BY BoxedGetXpub, QuietJoins
<1>3. Quiet(more)
  BY <1>1, <1>2
<1>4. Quiet(s \o more)
  BY <1>3, QuietJoins
<1> QED
  BY <1>4, QuietTrims

\* show_sendpindialog
LEMMA PromptPrograms ==
    LET s == Trim(Boxed(PromptPin) \o <<"showDialog">>)
    IN s \in PromptSlot /\ s # <<>> /\ ~Inside(s) /\ Head(s) = "open"
<1> DEFINE u == PromptPin
           m == <<"messageBox">>
           d == <<"showDialog">>
           a == <<"try">>
<1>1. u \in Prompting /\ u[1] = "open" /\ ~Opened(u)
  BY DEF PromptPin, Prompting, Opened
<1>2. u \in Seq(Plain) /\ Len(u) > 0
  BY <1>1, CommandTypes
<1>3. u \in Seq(Words)
  BY <1>2, PlainIsWords
<1>4. m \in Seq(Words) /\ d \in Seq(Words) /\ a \in Seq(Words)
  BY DEF Words, Blocks, Catches
<1>5. m \o d = Shown
  <2>1. Len(m) = 1 /\ Len(d) = 1 /\ m[1] = "messageBox" /\ d[1] = "showDialog"
    OBVIOUS
  <2> DEFINE v == m \o d
  <2>2. v \in Seq(Words) /\ Len(v) = Len(m) + Len(d) /\ (\A i \in 1..Len(m) : v[i] = m[i]) /\ \A i \in 1..Len(d) : v[i + Len(m)] = d[i]
    BY <1>4, Joins
  <2> HIDE DEF v, m, d
  <2>3. Len(v) = 2 /\ v[1] = "messageBox" /\ v[2] = "showDialog"
    BY <2>1, <2>2
  <2>4. Shown \in Seq(Words) /\ Len(Shown) = 2 /\ Shown[1] = "messageBox" /\ Shown[2] = "showDialog"
    BY SlotEnds DEF Shown
  <2>5. \A i \in 1..2 : i = 1 \/ i = 2
    OBVIOUS
  <2>6. v = Shown
    BY <2>2, <2>3, <2>4, <2>5, SameSteps
  <2> QED
    BY <2>6 DEF v
<1>6. Boxed(PromptPin) \o <<"showDialog">> = ((a \o u) \o m) \o d
  BY DEF Boxed
<1>7. ((a \o u) \o m) \o d = (a \o u) \o Shown
  <2> HIDE DEF a, u, m, d
  <2>1. a \o u \in Seq(Words)
    BY <1>3, <1>4, Joins
  <2> QED
    BY <1>4, <1>5, <2>1, Brackets
<1>8. Trim((a \o u) \o Shown) = u \o Shown
  BY <1>2, SlotEnds, BlockBegins
<1> DEFINE s == u \o Shown
<1>9. Shown[1] \in Blocks
  BY SlotEnds DEF Blocks, Catches
<1>10. s \in Seq(Words) /\ Len(s) > 1 /\ Head(s) = u[1] /\ Inside(s) = Opened(u)
  BY <1>2, <1>9, SlotEnds, BlockStarts
<1>11. s \in PromptSlot
  BY <1>1 DEF PromptSlot, Shown
<1> HIDE DEF s, u
<1>12. s # <<>> /\ ~Inside(s) /\ Head(s) = "open"
  BY <1>1, <1>10
<1>13. Trim(Boxed(PromptPin) \o <<"showDialog">>) = s
  BY <1>6, <1>7, <1>8 DEF s
<1> HIDE DEF a, m, d
<1> QED
  BY <1>11, <1>12, <1>13

\* A slot that prompts is neither loose nor one that sends the PIN.
LEMMA PromptSlotIsAlone ==
    ASSUME NEW s, s \in PromptSlot
    PROVE  ~Loose(s) /\ s[2] # "ack"
<1>1. PICK u \in Prompting : s = u \o Shown
  BY DEF PromptSlot, Shown
<1>2. u \in Seq(Plain) /\ Len(u) > 0
  BY CommandTypes
<1>3. u \in Seq(Words) /\ Shown \in Seq(Words) /\ Len(Shown) \in Nat /\ Len(u) \in Nat
  <2>1. u \in Seq(Words) /\ Shown \in Seq(Words)
    BY <1>2, PlainIsWords, SlotEnds
  <2> QED
    BY <2>1, LenProperties, Zenon
<1>4. u[Len(u)] = "prompt" /\ (Len(u) > 1 => u[2] # "ack")
  <2>1. CASE u = <<"open", "refresh", "initLocked", "prompt">>
    BY <2>1
  <2>2. CASE u = <<"refresh", "initLocked", "prompt">>
    BY <2>2
  <2>3. CASE u = <<"initLocked", "prompt">>
    BY <2>3
  <2>4. CASE u = <<"prompt">>
    BY <2>4
  <2> QED
    BY <2>1, <2>2, <2>3, <2>4 DEF Prompting
<1>5. /\ s \in Seq(Words) /\ Len(s) = Len(u) + Len(Shown)
      /\ \A i \in 1..Len(u) : s[i] = u[i]
      /\ \A i \in 1..Len(Shown) : s[i + Len(u)] = Shown[i]
  BY <1>1, <1>3, Joins
<1>l. \E n \in Nat : n = Len(u)
  BY <1>3
<1>6. PICK n \in Nat : n = Len(u)
  BY <1>l
<1>7. n \in 1..n /\ n > 0
  BY <1>2, <1>6
<1>8. s[n] = "prompt" /\ n \in 1..Len(s)
  <2>1. s[n] = "prompt"
    BY <1>4, <1>5, <1>6, <1>7
  <2>2. n \in 1..Len(s)
    BY <1>3, <1>5, <1>6, <1>7
  <2> QED
    BY <2>1, <2>2
<1>9. ~Loose(s)
  BY <1>8 DEF Loose
<1>10. s[2] # "ack"
  <2>1. CASE n > 1
    <3>1. 2 \in 1..n
      BY <1>6, <2>1
    <3> QED
      BY <1>4, <1>5, <1>6, <2>1, <3>1
  <2>2. CASE ~(n > 1)
    <3>1. n = 1 /\ 1 \in 1..Len(Shown) /\ 1 + Len(u) = 2
      BY <1>3, <1>6, <1>7, <2>2, SlotEnds
    <3>2. s[2] = Shown[1]
      BY <1>5, <3>1
    <3> QED
      BY <3>2, SlotEnds
  <2> QED
    BY <2>1, <2>2
<1> QED
  BY <1>9, <1>10

\* Both sendpindialog_accepted slots: r is the refresh, x what follows it.
LEMMA SendPrograms ==
    ASSUME NEW r, NEW x, Quiet(r), Quiet(x)
    PROVE  LET s == Trim(((Boxed(SendPin) \o <<"closeDialog">>) \o r) \o x)
           IN SendSlot(s) /\ s # <<>> /\ ~Inside(s) /\ Head(s) = "open" /\ s \notin PromptSlot
<1> DEFINE u == SendPin
           m == <<"messageBox">>
           d == <<"closeDialog">>
           a == <<"try">>
           t == r \o x
           K == Acked \o t
<1>1. u \in Sending /\ u[1] = "open" /\ u[2] = "ack" /\ Len(u) = 2 /\ ~Opened(u)
  BY DEF SendPin, Sending, Opened
<1>2. u \in Seq(Plain)
  BY <1>1, CommandTypes
<1>3. u \in Seq(Words)
  BY <1>2, PlainIsWords
<1>4. m \in Seq(Words) /\ d \in Seq(Words) /\ a \in Seq(Words)
  BY DEF Words, Blocks, Catches
<1>r. r \in Seq(Words) /\ x \in Seq(Words)
  BY DEF Quiet, Loose
<1>5. m \o d = Acked
  <2>1. Len(m) = 1 /\ Len(d) = 1 /\ m[1] = "messageBox" /\ d[1] = "closeDialog"
    OBVIOUS
  <2> DEFINE v == m \o d
  <2>2. v \in Seq(Words) /\ Len(v) = Len(m) + Len(d) /\ (\A i \in 1..Len(m) : v[i] = m[i]) /\ \A i \in 1..Len(d) : v[i + Len(m)] = d[i]
    BY <1>4, Joins
  <2> HIDE DEF v, m, d
  <2>3. Len(v) = 2 /\ v[1] = "messageBox" /\ v[2] = "closeDialog"
    BY <2>1, <2>2
  <2>4. Acked \in Seq(Words)
    BY SlotEnds DEF Quiet, Loose
  <2>5. Len(Acked) = 2 /\ Acked[1] = "messageBox" /\ Acked[2] = "closeDialog"
    BY DEF Acked
  <2>6. \A i \in 1..2 : i = 1 \/ i = 2
    OBVIOUS
  <2>7. v = Acked
    BY <2>2, <2>3, <2>4, <2>5, <2>6, SameSteps
  <2> QED
    BY <2>7 DEF v
<1>6. Boxed(SendPin) \o <<"closeDialog">> = ((a \o u) \o m) \o d
  BY DEF Boxed
<1>q. Quiet(t)
  BY QuietJoins
<1>k. Quiet(K)
  BY <1>q, SlotEnds, QuietJoins
<1>t. t \in Seq(Words) /\ K \in Seq(Words) /\ Acked \in Seq(Words)
  BY <1>q, <1>k, SlotEnds DEF Quiet, Loose
<1>7. ((((a \o u) \o m) \o d) \o r) \o x = (a \o u) \o K
  <2> HIDE DEF a, u, m, d
  <2>1. a \o u \in Seq(Words)
    BY <1>3, <1>4, Joins
  <2>2. ((a \o u) \o m) \o d = (a \o u) \o Acked
    BY <1>4, <1>5, <2>1, Brackets
  <2> DEFINE w == a \o u
  <2>3. w \in Seq(Words) /\ ((a \o u) \o m) \o d = w \o Acked
    BY <2>1, <2>2
  <2> HIDE DEF w
  <2>4. w \o Acked \in Seq(Words)
    BY <1>t, <2>3, Joins
  <2>5. ((w \o Acked) \o r) \o x = (w \o Acked) \o t
    BY <1>r, <2>4, Brackets
  <2> HIDE DEF t
  <2>6. (w \o Acked) \o t = w \o (Acked \o t)
    BY <1>t, <2>3, Brackets
  <2>7. ((((a \o u) \o m) \o d) \o r) \o x = w \o (Acked \o t)
    BY <2>3, <2>5, <2>6
  <2> QED
    BY <2>7 DEF w
<1>8. Len(u) > 0
  BY <1>1
<1>9. Trim((a \o u) \o K) = u \o K
  <2> HIDE DEF K, u
  <2> QED
    BY <1>2, <1>8, <1>t, BlockBegins
<1> DEFINE s == u \o K
<1>10. Len(K) > 0 /\ K[1] = "messageBox"
  <2>1. Len(Acked) = 2 /\ Acked[1] = "messageBox" /\ Len(t) \in Nat
    BY <1>t DEF Acked
  <2> HIDE DEF t
  <2>2. Len(K) = Len(Acked) + Len(t) /\ \A i \in 1..Len(Acked) : K[i] = Acked[i]
    BY <1>t, Joins
  <2> HIDE DEF K
  <2> QED
    BY <2>1, <2>2
<1>11. K[1] \in Blocks
  BY <1>10 DEF Blocks, Catches
<1>12. SendSlot(s)
  <2> HIDE DEF u
  <2> QED
    BY <1>1, <1>q DEF SendSlot, Acked
<1> HIDE DEF K, u
<1>13. s \in Seq(Words) /\ Len(s) > 1 /\ Head(s) = u[1] /\ Inside(s) = Opened(u)
  BY <1>2, <1>8, <1>10, <1>11, <1>t, BlockStarts
<1>14. s[2] = "ack"
  <2>1. \A i \in 1..Len(u) : s[i] = u[i]
    BY <1>3, <1>t, Joins
  <2>2. 2 \in 1..Len(u)
    BY <1>1
  <2> HIDE DEF s
  <2> QED
    BY <1>1, <2>1, <2>2
<1> HIDE DEF s
<1>15. s # <<>> /\ ~Inside(s) /\ Head(s) = "open"
  BY <1>1, <1>13
<1>16. s \notin PromptSlot
  BY <1>14, PromptSlotIsAlone
<1>17. Trim(((Boxed(SendPin) \o <<"closeDialog">>) \o r) \o x) = s
  BY <1>6, <1>7, <1>9 DEF s
<1> HIDE DEF a, m, d, t
<1> QED
  BY <1>12, <1>15, <1>16, <1>17

----------------------------------------------------------------------------
(* Where the processes can be                                              *)

Point(p, s) == IF p = Gui THEN GuiPoint(s) ELSE CliPoint(s)

\* A command line process stays on the known points.
LEMMA CliGoes ==
    ASSUME NEW s, CliPoint(s)
    PROVE  /\ s \in Seq(Words)
           /\ Len(s) > 0 => CliPoint(Trim(Tail(s))) /\ CliPoint(AfterRaise(s))
<1>1. CASE s = <<>>
  BY <1>1
<1>2. CASE s = Closing
  BY <1>2, ClosingEnds, EndTypes DEF CliPoint
<1>3. CASE s = Printing
  <2>1. AfterRaise(Printing) = <<>>
    <3>1. \A i \in DOMAIN Printing : Printing[i] \notin Blocks
      BY DEF Printing, Blocks, Catches
    <3>2. CaughtBy(Printing) = "try"
      BY <3>1 DEF CaughtBy
    <3> QED
      BY <3>2 DEF AfterRaise
  <2> QED
    BY <1>3, <2>1, PrintingEnds, EndTypes DEF CliPoint
<1>4. CASE Early(s)
  <2>1. s \in Seq(Words) /\ CliPoint(AfterRaise(s))
    BY <1>4, EarlyIsOutside, EarlyRaises DEF CliPoint
  <2>2. ASSUME Len(s) > 0 PROVE CliPoint(Trim(Tail(s)))
    BY <1>4, <2>2, EarlyGoesOn DEF CliPoint
  <2> QED
    BY <2>1, <2>2
<1>5. CASE Commanding(s)
  <2>1. CommandStep(s)
    BY <1>5, CommandGoesOn
  <2> QED
    BY <2>1 DEF CommandStep, CliPoint
<1> QED
  BY <1>1, <1>2, <1>3, <1>4, <1>5 DEF CliPoint

\* So does the graphical interface.
LEMMA GuiGoes ==
    ASSUME NEW s, GuiPoint(s)
    PROVE  /\ s \in Seq(Words)
           /\ Len(s) > 0 => GuiPoint(Trim(Tail(s))) /\ GuiPoint(AfterRaise(s))
<1>1. CASE Loose(s)
  BY <1>1, LooseGoesOn, LooseIsOutside DEF GuiPoint
<1>2. CASE s \in PromptSlot
  <2>1. PromptStep(s)
    BY <1>2, PromptGoesOn
  <2>2. /\ s \in Seq(Words)
        /\ AfterRaise(s) = <<"showDialog">>
        /\ Head(s) = "prompt" => Trim(Tail(s)) = <<"showDialog">>
        /\ Head(s) # "prompt" => Trim(Tail(s)) \in PromptSlot
    BY <2>1 DEF PromptStep
  <2> QED
    BY <2>2, SlotEnds DEF GuiPoint
<1>3. CASE SendSlot(s)
  <2>1. SendStep(s)
    BY <1>3, SendGoesOn
  <2> QED
    BY <2>1 DEF SendStep, GuiPoint
<1> QED
  BY <1>1, <1>2, <1>3 DEF GuiPoint

\* Every process stays on its points, whether a step succeeds or raises.
LEMMA PointGoes ==
    ASSUME NEW p, NEW s, Point(p, s)
    PROVE  /\ s \in Seq(Words)
           /\ Len(s) > 0 => Point(p, Trim(Tail(s))) /\ Point(p, AfterRaise(s))
BY CliGoes, GuiGoes DEF Point

\* A process that has nothing to do is on a point.
LEMMA PointEnds ==
    ASSUME NEW p
    PROVE  Point(p, <<>>)
<1>1. Loose(<<>>)
  BY NotFoundIsEarly DEF Early, Quiet
<1> QED
  BY <1>1 DEF Point, CliPoint, GuiPoint

Points == Control /\ \A p \in Proc : Point(p, todo[p])

\* A process moves to another point.
Moves(p, t) == todo' = [todo EXCEPT ![p] = t]

\* One process moves to another point, and the others stay.
LEMMA PointsMove ==
    ASSUME Points, NEW p \in Proc, NEW t, Point(p, t), Moves(p, t)
    PROVE  /\ todo' \in [Proc -> Seq(Words)]
           /\ \A q \in Proc : Point(q, todo'[q])
           /\ todo'[p] = t /\ \A q \in Proc \ {p} : todo'[q] = todo[q]
<1>1. todo \in [Proc -> Seq(Words)] /\ \A q \in Proc : Point(q, todo[q])
  BY DEF Points, Control
<1>2. t \in Seq(Words)
  BY PointGoes
<1>3. todo'[p] = t /\ \A q \in Proc \ {p} : todo'[q] = todo[q]
  BY <1>1 DEF Moves
<1>4. todo' \in [Proc -> Seq(Words)]
  BY <1>1, <1>2 DEF Moves
<1> QED
  BY <1>1, <1>3, <1>4

\* The step a process is at.
LEMMA AtStep ==
    ASSUME Points, NEW p \in Proc, NEW step, At(p, step)
    PROVE  /\ todo[p] \in Seq(Words) /\ Len(todo[p]) > 0
           /\ Head(todo[p]) = step /\ todo[p][1] = step /\ todo[p] # <<>>
<1>1. todo[p] \in Seq(Words)
  BY DEF Points, Control
<1>2. todo[p] # <<>> /\ Head(todo[p]) = step
  BY DEF At
<1> HIDE DEF At
<1> QED
  BY <1>1, <1>2

\* Going on with the steps s, and raising.
LEMMA ReplaceMoves ==
    ASSUME Points, NEW p \in Proc, NEW s, Point(p, Trim(s)), Replace(p, s)
    PROVE  /\ Moves(p, Trim(s)) /\ UNCHANGED <<entry, report>>
           /\ todo' \in [Proc -> Seq(Words)] /\ \A q \in Proc : Point(q, todo'[q])
<1>1. Moves(p, Trim(s)) /\ UNCHANGED <<entry, report>>
  BY DEF Replace, Moves
<1> QED
  BY <1>1, PointsMove

\* Going on with the rest of the steps.
LEMMA ContinueMoves ==
    ASSUME Points, NEW p \in Proc, todo[p] # <<>>, Continue(p)
    PROVE  /\ Moves(p, Trim(Tail(todo[p]))) /\ UNCHANGED <<entry, report>>
           /\ todo' \in [Proc -> Seq(Words)] /\ \A q \in Proc : Point(q, todo'[q])
<1>1. Point(p, todo[p]) /\ todo[p] \in Seq(Words)
  BY DEF Points, Control
<1>2. Len(todo[p]) > 0
  BY <1>1
<1>3. Point(p, Trim(Tail(todo[p])))
  BY <1>1, <1>2, PointGoes
<1> QED
  BY <1>3, ReplaceMoves DEF Continue

\* Raising moves the process behind the block, and reports for it only.
LEMMA RaiseMoves ==
    ASSUME Points, NEW p \in Proc, todo[p] # <<>>, Raise(p)
    PROVE  /\ Moves(p, AfterRaise(todo[p]))
           /\ todo' \in [Proc -> Seq(Words)] /\ \A q \in Proc : Point(q, todo'[q])
           /\ report' \in [Proc -> [status : {"idle", "running", "printed", "crashed"}, error : BOOLEAN]]
           /\ \A q \in Proc \ {p} : report'[q] = report[q]
<1>1. Point(p, todo[p]) /\ todo[p] \in Seq(Words)
  BY DEF Points, Control
<1>2. Len(todo[p]) > 0
  BY <1>1
<1>3. Point(p, AfterRaise(todo[p]))
  BY <1>1, <1>2, PointGoes
<1>4. Moves(p, AfterRaise(todo[p]))
  BY DEF Raise, Moves
<1>5. report \in [Proc -> [status : {"idle", "running", "printed", "crashed"}, error : BOOLEAN]]
  BY DEF Points, Control
<1>6. \/ report' = [report EXCEPT ![p].error = TRUE]
      \/ report' = [report EXCEPT ![p].status = "crashed"]
      \/ report' = report
  BY DEF Raise
<1>7. /\ report' \in [Proc -> [status : {"idle", "running", "printed", "crashed"}, error : BOOLEAN]]
      /\ \A q \in Proc \ {p} : report'[q] = report[q]
  BY <1>5, <1>6
<1> QED
  BY <1>3, <1>4, <1>7, PointsMove

\* Only a loose point can be at a step that no command has.
LEMMA LoosePoint ==
    ASSUME NEW p, NEW s, Point(p, s), Len(s) > 0,
           Head(s) \notin {"open", "refresh", "initLocked", "prompt", "ack", "initUnlocked", "pubkey", "xpub",
                           "close", "print"}
    PROVE  Loose(s) /\ (p # Gui => Early(s))
<1>1. CASE p = Gui
  <2>1. CASE s \in PromptSlot
    BY <2>1, PromptGoesOn DEF PromptStep
  <2>2. CASE SendSlot(s)
    BY <2>2, SendGoesOn DEF SendStep
  <2> QED
    BY <1>1, <2>1, <2>2 DEF Point, GuiPoint
<1>2. CASE p # Gui
  <2>1. s # Closing /\ s # Printing /\ s # <<>>
    BY DEF Closing, Printing
  <2>2. ~Commanding(s)
    BY CommandGoesOn DEF CommandStep
  <2>3. Early(s)
    BY <1>2, <2>1, <2>2 DEF Point, CliPoint
  <2> QED
    BY <1>2, <2>3 DEF Early, Quiet
<1> QED
  BY <1>1, <1>2

\* The types of the variables that a step of p leaves or changes for p only.
LEMMA ControlTypes ==
    ASSUME Points
    PROVE  /\ dev \in {"locked", "prompting", "unlocked"}
           /\ entered \in [Proc -> BOOLEAN]
           /\ answer \in [Proc -> {"none", "prompted", "accepted", "refused", "xpub", "list"}]
           /\ report \in [Proc -> [status : {"idle", "running", "printed", "crashed"}, error : BOOLEAN]]
BY DEF Points, Control

\* The steps of a client keep every process on its points.
LEMMA ClientStepPoints ==
    ASSUME Points, NEW p \in Proc, ClientStep(p)
    PROVE  Points'
<1>t. /\ dev \in {"locked", "prompting", "unlocked"}
      /\ entered \in [Proc -> BOOLEAN]
      /\ answer \in [Proc -> {"none", "prompted", "accepted", "refused", "xpub", "list"}]
      /\ report \in [Proc -> [status : {"idle", "running", "printed", "crashed"}, error : BOOLEAN]]
  BY ControlTypes
<1>s. \A step : At(p, step) => todo[p] # <<>>
  BY DEF At
<1> SUFFICES /\ todo' \in [Proc -> Seq(Words)] /\ \A q \in Proc : Point(q, todo'[q])
             /\ dev' \in {"locked", "prompting", "unlocked"}
             /\ entered' \in [Proc -> BOOLEAN]
             /\ answer' \in [Proc -> {"none", "prompted", "accepted", "refused", "xpub", "list"}]
             /\ report' \in [Proc -> [status : {"idle", "running", "printed", "crashed"}, error : BOOLEAN]]
  BY DEF Points, Control
<1>c. ASSUME todo[p] # <<>>, Continue(p) \/ Raise(p)
      PROVE  /\ todo' \in [Proc -> Seq(Words)] /\ \A q \in Proc : Point(q, todo'[q])
             /\ report' \in [Proc -> [status : {"idle", "running", "printed", "crashed"}, error : BOOLEAN]]
  BY <1>c, <1>t, ContinueMoves, RaiseMoves
<1>1. CASE New(p)
  <2>1. todo[p] # <<>> /\ Continue(p) /\ UNCHANGED <<dev, entered, answer>>
    BY <1>1, <1>s DEF New
  <2> QED
    BY <2>1, <1>c, <1>t
<1>2. CASE OpenClient(p)
  <2>1. todo[p] # <<>> /\ UNCHANGED <<dev, answer>>
    BY <1>2, <1>s DEF OpenClient
  <2>2. entered' \in [Proc -> BOOLEAN]
    BY <1>2, <1>t DEF OpenClient
  <2>3. (Continue(p) \/ Raise(p)) \/ UNCHANGED <<todo, report>>
    BY <1>2 DEF OpenClient
  <2>4. CASE UNCHANGED <<todo, report>>
    BY <2>1, <2>2, <2>4, <1>t DEF Points, Control
  <2> QED
    BY <2>1, <2>2, <2>3, <2>4, <1>c, <1>t
<1>3. CASE RefreshFeatures(p) \/ CheckUnlocked(p) \/ CheckLocked(p) \/ GetPublicNode(p)
  <2>1. todo[p] # <<>> /\ (Continue(p) \/ Raise(p)) /\ UNCHANGED answer /\ entered' = [entered EXCEPT ![p] = FALSE]
    BY <1>3, <1>s DEF RefreshFeatures, CheckUnlocked, CheckLocked, InitDevice, GetPublicNode, Calling
  <2>2. dev' \in {"locked", "prompting", "unlocked"}
    BY <1>3, <1>t DEF RefreshFeatures, CheckUnlocked, CheckLocked, InitDevice, GetPublicNode
  <2>3. entered' \in [Proc -> BOOLEAN]
    BY <2>1, <1>t
  <2> QED
    BY <2>1, <2>2, <2>3, <1>c, <1>t
<1>4. CASE Describe(p)
  <2>1. At(p, "initModel") /\ UNCHANGED <<answer, report>> /\ entered' = [entered EXCEPT ![p] = FALSE]
    BY <1>4 DEF Describe, Calling
  <2>2. dev' \in {"locked", "prompting", "unlocked"} /\ entered' \in [Proc -> BOOLEAN]
    BY <1>4, <1>t, <2>1 DEF Describe
  <2>3. todo[p] \in Seq(Words) /\ Len(todo[p]) > 0 /\ Head(todo[p]) = "initModel" /\ todo[p][1] = "initModel" /\ Point(p, todo[p])
    BY <2>1, AtStep DEF Points
  <2>4. Moves(p, Tail(todo[p])) \/ Moves(p, AfterRaise(todo[p]))
    BY <1>4 DEF Describe, Moves
  <2>5. Point(p, AfterRaise(todo[p]))
    BY <2>3, PointGoes
  <2>6. Point(p, Tail(todo[p]))
    <3>1. Loose(todo[p]) /\ (p # Gui => Early(todo[p]))
      BY <2>3, LoosePoint
    <3>2. Drops(todo[p], Tail(todo[p]), 1)
      BY <2>3, TailDrops
    <3>3. Loose(Tail(todo[p]))
      BY <3>1, <3>2, LooseSuffix
    <3>4. p # Gui => Early(Tail(todo[p]))
      <4>1. todo[p][1] \notin {"list", "notFound"} /\ 1 > 0
        BY <2>3
      <4> QED
        BY <3>1, <3>2, <4>1, EarlySuffix
    <3> QED
      BY <3>3, <3>4 DEF Point, GuiPoint, CliPoint
  <2> QED
    BY <2>1, <2>2, <2>4, <2>5, <2>6, <1>t, PointsMove
<1>5. CASE Prompt(p)
  <2>1. todo[p] # <<>> /\ Continue(p) /\ UNCHANGED entered
    BY <1>5, <1>s DEF Prompt
  <2>2. dev' \in {"locked", "prompting", "unlocked"} /\ answer' \in [Proc -> {"none", "prompted", "accepted", "refused", "xpub", "list"}]
    BY <1>5, <1>t DEF Prompt
  <2> QED
    BY <2>1, <2>2, <1>c, <1>t
<1>6. CASE Ack(p)
  <2>1. todo[p] # <<>> /\ (Continue(p) \/ Raise(p)) /\ UNCHANGED entered
    BY <1>6, <1>s DEF Ack
  <2>2. dev' \in {"locked", "prompting", "unlocked"}
    BY <1>6, <1>t DEF Ack
  <2>3. answer' \in [Proc -> {"none", "prompted", "accepted", "refused", "xpub", "list"}]
    BY <1>6, <1>t DEF Ack
  <2> QED
    BY <2>1, <2>2, <2>3, <1>c, <1>t
<1>7. CASE Fingerprint(p)
  <2>1. todo[p] # <<>> /\ UNCHANGED <<dev, entered, answer, report>> /\ Moves(p, Trim(Tail(todo[p])))
    BY <1>7, <1>s DEF Fingerprint, Moves
  <2>2. Point(p, todo[p]) /\ todo[p] \in Seq(Words)
    BY DEF Points, Control
  <2>3. Len(todo[p]) > 0
    BY <2>1, <2>2
  <2>4. Point(p, Trim(Tail(todo[p])))
    BY <2>2, <2>3, PointGoes
  <2> QED
    BY <2>1, <2>4, <1>t, PointsMove
<1>8. CASE CloseClient(p)
  <2>1. todo[p] # <<>> /\ (Continue(p) \/ Raise(p)) /\ UNCHANGED <<dev, entered, answer>>
    BY <1>8, <1>s DEF CloseClient
  <2> QED
    BY <2>1, <1>c, <1>t
<1>9. CASE Disconnected(p)
  <2>1. todo[p] # <<>> /\ Raise(p) /\ UNCHANGED <<dev, answer>> /\ entered' = [entered EXCEPT ![p] = FALSE]
    BY <1>9, <1>s DEF Disconnected
  <2>2. entered' \in [Proc -> BOOLEAN]
    BY <2>1, <1>t
  <2> QED
    BY <2>1, <2>2, <1>c, <1>t
<1> QED
  BY <1>1, <1>2, <1>3, <1>4, <1>5, <1>6, <1>7, <1>8, <1>9 DEF ClientStep

\* So do the steps of a command line process alone.
LEMMA CliStepPoints ==
    ASSUME Points, NEW p \in Cli,
           Choose(p) \/ MatchModel(p) \/ Lookup(p) \/ Compare(p) \/ Report(p) \/ Start(p) \/ Exit(p)
    PROVE  Points'
<1>p. p \in Proc /\ p # Gui
  BY ProcAssumption DEF Proc
<1>t. /\ dev \in {"locked", "prompting", "unlocked"}
      /\ entered \in [Proc -> BOOLEAN]
      /\ answer \in [Proc -> {"none", "prompted", "accepted", "refused", "xpub", "list"}]
      /\ report \in [Proc -> [status : {"idle", "running", "printed", "crashed"}, error : BOOLEAN]]
  BY ControlTypes
<1>w. Point(p, todo[p]) /\ todo[p] \in Seq(Words)
  BY <1>p DEF Points, Control
<1>e. \A s : Early(s) \/ Commanding(s) => Point(p, s)
  BY <1>p DEF Point, CliPoint
<1> SUFFICES /\ todo' \in [Proc -> Seq(Words)] /\ \A q \in Proc : Point(q, todo'[q])
             /\ dev' \in {"locked", "prompting", "unlocked"}
             /\ entered' \in [Proc -> BOOLEAN]
             /\ answer' \in [Proc -> {"none", "prompted", "accepted", "refused", "xpub", "list"}]
             /\ report' \in [Proc -> [status : {"idle", "running", "printed", "crashed"}, error : BOOLEAN]]
  BY DEF Points, Control
<1>1. CASE Choose(p)
  <2>1. PICK s : Point(p, Trim(s)) /\ Replace(p, s)
    <3>1. CASE At(p, "devices") /\ \E steps \in WithDevices : Replace(p, steps)
      BY <3>1, <1>e, DevicePrograms
    <3>2. CASE At(p, "command") /\ \E body \in Bodies : Replace(p, DoCommand(body))
      BY <3>2, <1>e, CommandPrograms
    <3> QED
      BY <1>1, <3>1, <3>2 DEF Choose
  <2>2. UNCHANGED <<dev, entered, answer>>
    BY <1>1 DEF Choose
  <2> QED
    BY <2>1, <2>2, <1>p, <1>t, ReplaceMoves
<1>2. CASE MatchModel(p)
  <2>1. todo[p] # <<>> /\ (Continue(p) \/ Raise(p)) /\ UNCHANGED <<dev, entered, answer>>
    BY <1>2 DEF MatchModel, At
  <2> QED
    BY <2>1, <1>p, <1>t, ContinueMoves, RaiseMoves
<1>3. CASE Lookup(p)
  <2>1. At(p, "lookup") /\ UNCHANGED <<dev, entered, answer>>
    BY <1>3 DEF Lookup
  <2>2. Len(todo[p]) > 0 /\ Head(todo[p]) = "lookup"
    BY <2>1, <1>p, AtStep
  <2>3. Early(todo[p])
    BY <1>p, <1>w, <2>2, LoosePoint
  <2>4. PICK u \in {<<>>, GetXpub} : Replace(p, u \o Tail(todo[p]))
    BY <1>3 DEF Lookup
  <2>5. Point(p, Trim(u \o Tail(todo[p])))
    BY <1>e, <2>2, <2>3, LookupPrograms
  <2> QED
    BY <2>1, <2>4, <2>5, <1>p, <1>t, ReplaceMoves
<1>4. CASE Compare(p)
  <2>1. todo[p] # <<>> /\ UNCHANGED <<dev, entered, answer>>
    BY <1>4 DEF Compare, At
  <2>2. CASE Continue(p)
    BY <2>1, <2>2, <1>p, <1>t, ContinueMoves
  <2>3. CASE Replace(p, <<"close", "except", "notFound", "print">>)
    <3>1. Point(p, Trim(<<"close", "except", "notFound", "print">>))
      BY <1>e, ComparePrograms
    <3> QED
      BY <2>1, <2>3, <3>1, <1>p, <1>t, ReplaceMoves
  <2> QED
    BY <1>4, <2>2, <2>3 DEF Compare
<1>5. CASE Report(p)
  <2>1. todo[p] # <<>> /\ UNCHANGED <<dev, entered>> /\ Moves(p, Trim(Tail(todo[p])))
    BY <1>5 DEF Report, At, Moves
  <2>2. Len(todo[p]) > 0
    BY <2>1, <1>w
  <2>3. Point(p, Trim(Tail(todo[p])))
    BY <1>w, <2>2, PointGoes
  <2>4. answer' \in [Proc -> {"none", "prompted", "accepted", "refused", "xpub", "list"}]
    <3>1. UNCHANGED answer \/ (answer' = [answer EXCEPT ![p] = Head(todo[p])] /\ (At(p, "xpub") \/ At(p, "list")))
      BY <1>5 DEF Report
    <3>2. At(p, "xpub") \/ At(p, "list") => Head(todo[p]) \in {"xpub", "list"}
      BY DEF At
    <3> QED
      BY <3>1, <3>2, <1>t
  <2>5. report' \in [Proc -> [status : {"idle", "running", "printed", "crashed"}, error : BOOLEAN]]
    <3>1. \/ report' = report
          \/ report' = [report EXCEPT ![p].error = TRUE]
          \/ report' = [report EXCEPT ![p].status = "printed"]
      BY <1>5 DEF Report
    <3>2. CASE report' = report
      BY <3>2, <1>t
    <3>3. CASE report' = [report EXCEPT ![p].error = TRUE]
      BY <3>3, <1>t
    <3>4. CASE report' = [report EXCEPT ![p].status = "printed"]
      BY <3>4, <1>t
    <3> QED
      BY <3>1, <3>2, <3>3, <3>4
  <2> QED
    BY <2>1, <2>3, <2>4, <2>5, <1>p, <1>t, PointsMove
<1>6. CASE Start(p)
  <2>1. PICK program \in {<<"new", "command">>, Enumerate \o <<"devices">>} : Moves(p, Trim(program))
    BY <1>6 DEF Start, Moves
  <2>2. Point(p, Trim(program))
    BY <1>e, StartPrograms
  <2>3. UNCHANGED <<dev, entered, answer>> /\ report' = [report EXCEPT ![p].status = "running"]
    BY <1>6 DEF Start
  <2>4. report' \in [Proc -> [status : {"idle", "running", "printed", "crashed"}, error : BOOLEAN]]
    BY <2>3, <1>t
  <2> QED
    BY <2>1, <2>2, <2>3, <2>4, <1>p, <1>t, PointsMove
<1>7. CASE Exit(p)
  <2>1. Moves(p, <<>>) /\ UNCHANGED dev
    BY <1>7 DEF Exit, Moves
  <2>2. entered' \in [Proc -> BOOLEAN]
    BY <1>7, <1>t DEF Exit
  <2>3. answer' \in [Proc -> {"none", "prompted", "accepted", "refused", "xpub", "list"}]
    BY <1>7, <1>t DEF Exit
  <2>4. report' \in [Proc -> [status : {"idle", "running", "printed", "crashed"}, error : BOOLEAN]]
    BY <1>7, <1>t DEF Exit
  <2> QED
    BY <2>1, <2>2, <2>3, <2>4, <1>p, <1>t, PointsMove, PointEnds
<1> QED
  BY <1>1, <1>2, <1>3, <1>4, <1>5, <1>6, <1>7

\* A slot of the GUI starts.
LEMMA SlotPoints ==
    ASSUME Points, NEW c, NEW steps, GuiPoint(Trim(steps)), Slot(c, steps)
    PROVE  Points' /\ Moves(Gui, Trim(steps))
<1>t. /\ dev \in {"locked", "prompting", "unlocked"}
      /\ entered \in [Proc -> BOOLEAN]
      /\ answer \in [Proc -> {"none", "prompted", "accepted", "refused", "xpub", "list"}]
      /\ report \in [Proc -> [status : {"idle", "running", "printed", "crashed"}, error : BOOLEAN]]
  BY ControlTypes
<1>1. Point(Gui, Trim(steps))
  BY DEF Point
<1>2. Replace(Gui, steps) /\ UNCHANGED <<dev, entered>> /\ answer' = [answer EXCEPT ![Gui] = "none"]
  BY DEF Slot
<1>3. answer' \in [Proc -> {"none", "prompted", "accepted", "refused", "xpub", "list"}]
  BY <1>2, <1>t
<1>4. /\ Moves(Gui, Trim(steps)) /\ UNCHANGED report
      /\ todo' \in [Proc -> Seq(Words)] /\ \A q \in Proc : Point(q, todo'[q])
  BY <1>1, <1>2, GuiIsProc, ReplaceMoves
<1> QED
  BY <1>2, <1>3, <1>4, <1>t DEF Points, Control

\* The slots' steps.
LEMMA SlotSteps ==
    /\ RefreshClicked => \E steps : Loose(Trim(steps)) /\ Slot(NoClient, steps)
    /\ SendPinClicked =>
          \E steps : Trim(steps) \in PromptSlot /\ ~Inside(Trim(steps)) /\ Trim(steps) # <<>> /\ Slot(gui.client, steps)
    /\ DialogAccepted =>
          \E steps : /\ SendSlot(Trim(steps)) /\ ~Inside(Trim(steps)) /\ Trim(steps) # <<>>
                     /\ Trim(steps) \notin PromptSlot
                     /\ Slot(gui.dialog, steps)
    /\ CommandClicked => \E steps : Loose(Trim(steps)) /\ Slot(gui.client, steps)
<1>1. ASSUME RefreshClicked PROVE \E steps : Loose(Trim(steps)) /\ Slot(NoClient, steps)
  BY <1>1, RefreshPrograms, QuietTrims DEF RefreshClicked
<1>2. ASSUME SendPinClicked
      PROVE  \E steps : Trim(steps) \in PromptSlot /\ ~Inside(Trim(steps)) /\ Trim(steps) # <<>> /\ Slot(gui.client, steps)
  <2>1. Slot(gui.client, Boxed(PromptPin) \o <<"showDialog">>)
    BY <1>2 DEF SendPinClicked
  <2> QED
    BY <2>1, PromptPrograms
<1>3. ASSUME DialogAccepted
      PROVE  \E steps : /\ SendSlot(Trim(steps)) /\ ~Inside(Trim(steps)) /\ Trim(steps) # <<>>
                        /\ Trim(steps) \notin PromptSlot
                        /\ Slot(gui.dialog, steps)
  <2> DEFINE x == IF gui.index = 1 THEN <<"reselect">> ELSE <<>>
             r == RefreshSteps
             steps == ((Boxed(SendPin) \o <<"closeDialog">>) \o r) \o x
  <2>1. Slot(gui.dialog, steps)
    BY <1>3 DEF DialogAccepted
  <2>2. Quiet(<<>>) /\ Quiet(<<"reselect">>)
    <3>1. "reselect" \in Before
      BY BeforeWords
    <3>2. <<"reselect">> \in Seq(Before)
      BY <3>1
    <3> QED
      BY <3>2, EarlyFrom, NotFoundIsEarly DEF Early
  <2>3. Quiet(x) /\ Quiet(r)
    BY <2>2, RefreshPrograms
  <2> HIDE DEF x, r
  <2>4. SendSlot(Trim(steps)) /\ Trim(steps) # <<>> /\ ~Inside(Trim(steps)) /\ Trim(steps) \notin PromptSlot
    BY <2>3, SendPrograms
  <2> HIDE DEF steps
  <2> QED
    BY <2>1, <2>4
<1>4. ASSUME CommandClicked PROVE \E steps : Loose(Trim(steps)) /\ Slot(gui.client, steps)
  BY <1>4, BoxedGetXpub, QuietTrims DEF CommandClicked
<1> QED
  BY <1>1, <1>2, <1>3, <1>4

\* A device is selected: the new client's slot is loose.
LEMMA InfoSteps ==
    ASSUME Points, Reselect \/ SelectDevice
    PROVE  \E c \in Unused : \E steps :
              /\ Loose(Trim(steps))
              /\ Slot(c, steps)
              /\ Reset(Unused)
              /\ gui' = [gui EXCEPT !.index = 1, !.client = c, !.sendpin = gui.device.pin,
                                    !.commands = ~gui.device.pin]
<1> DEFINE more == IF gui.device.pin THEN <<>> ELSE Boxed(GetXpub) \o Boxed(GetXpub)
<1>1. PICK s : Quiet(s) /\ GetClientAndDeviceInfo(s)
  <2>1. CASE SelectDevice
    BY <2>1, NotFoundIsEarly DEF SelectDevice, Early
  <2>2. CASE Reselect
    <3> DEFINE s == todo[Gui]
    <3>1. At(Gui, "reselect") /\ GetClientAndDeviceInfo(Tail(s))
      BY <2>2 DEF Reselect
    <3>2. s \in Seq(Words) /\ Len(s) > 0 /\ Head(s) = "reselect" /\ s[1] = "reselect" /\ Point(Gui, s)
      BY <3>1, GuiIsProc, AtStep DEF Points
    <3>3. Loose(s)
      BY <3>2, LoosePoint
    <3> HIDE DEF s
    <3>4. Quiet(s)
      <4>1. ASSUME NEW i \in 1..Len(s), s[i] = "showDialog" PROVE FALSE
        <5>1. Len(s) = 1
          BY <3>3, <4>1 DEF Loose
        <5>2. i = 1
          BY <5>1
        <5> QED
          BY <3>2, <4>1, <5>2
      <4> QED
        BY <3>3, <4>1 DEF Quiet
    <3>5. Quiet(Tail(s))
      <4>1. Drops(s, Tail(s), 1)
        BY <3>2, TailDrops
      <4> QED
        BY <3>3, <3>4, <4>1, LooseSuffix
    <3> QED
      BY <3>1, <3>5
  <2> QED
    BY <2>1, <2>2
<1>2. more \in {<<>>, Boxed(GetXpub) \o Boxed(GetXpub)}
  OBVIOUS
<1>3. PICK c \in Unused : /\ Reset(Unused)
                          /\ gui' = [gui EXCEPT !.index = 1, !.client = c, !.sendpin = gui.device.pin,
                                                !.commands = ~gui.device.pin]
                          /\ Slot(c, s \o more)
  BY <1>1 DEF GetClientAndDeviceInfo
<1> HIDE DEF more
<1>4. Loose(Trim(s \o more))
  BY <1>1, <1>2, InfoPrograms
<1> QED
  BY <1>3, <1>4

\* So do the steps of the GUI and the events it handles.
LEMMA GuiStepPoints ==
    ASSUME Points, CloseSelf \/ Fill \/ Reselect \/ ShowDialog \/ CloseDialog \/ GuiEvent
    PROVE  Points'
<1>t. /\ dev \in {"locked", "prompting", "unlocked"}
      /\ entered \in [Proc -> BOOLEAN]
      /\ answer \in [Proc -> {"none", "prompted", "accepted", "refused", "xpub", "list"}]
      /\ report \in [Proc -> [status : {"idle", "running", "printed", "crashed"}, error : BOOLEAN]]
  BY ControlTypes
<1>1. CASE CloseSelf \/ ShowDialog \/ CloseDialog
  <2>1. todo[Gui] # <<>> /\ (Continue(Gui) \/ Raise(Gui)) /\ UNCHANGED <<dev, entered>>
    BY <1>1 DEF CloseSelf, ShowDialog, CloseDialog, At
  <2>2. answer' \in [Proc -> {"none", "prompted", "accepted", "refused", "xpub", "list"}]
    BY <1>1, <1>t DEF CloseSelf, ShowDialog, CloseDialog
  <2>3. /\ todo' \in [Proc -> Seq(Words)] /\ \A q \in Proc : Point(q, todo'[q])
        /\ report' \in [Proc -> [status : {"idle", "running", "printed", "crashed"}, error : BOOLEAN]]
    BY <2>1, <1>t, GuiIsProc, ContinueMoves, RaiseMoves
  <2> QED
    BY <2>1, <2>2, <2>3, <1>t DEF Points, Control
<1>2. CASE Fill
  <2>1. todo[Gui] # <<>> /\ UNCHANGED <<dev, entered, answer, report>>
    BY <1>2 DEF Fill, At
  <2>2. Point(Gui, todo[Gui]) /\ todo[Gui] \in Seq(Words)
    BY GuiIsProc DEF Points, Control
  <2>3. Len(todo[Gui]) > 0
    BY <2>1, <2>2
  <2>4. PICK t : Point(Gui, t) /\ Moves(Gui, t)
    BY <1>2, <2>2, <2>3, PointGoes, PointEnds DEF Fill, Moves
  <2>5. todo' \in [Proc -> Seq(Words)] /\ \A q \in Proc : Point(q, todo'[q])
    BY <2>4, GuiIsProc, PointsMove
  <2> QED
    BY <2>1, <2>5, <1>t DEF Points, Control
<1>3. CASE Reselect \/ SelectDevice
  BY <1>3, InfoSteps, SlotPoints DEF GuiPoint
<1>4. CASE RefreshClicked \/ SendPinClicked \/ DialogAccepted \/ CommandClicked
  <2>1. PICK c, steps : GuiPoint(Trim(steps)) /\ Slot(c, steps)
    BY <1>4, SlotSteps DEF GuiPoint
  <2> QED
    BY <2>1, SlotPoints
<1>5. CASE SelectNone \/ DialogRejected
  BY <1>5 DEF SelectNone, DialogRejected, procVars, Points, Control
<1> QED
  BY <1>1, <1>2, <1>3, <1>4, <1>5 DEF GuiEvent

\* Nobody has anything to do at first.
LEMMA InitPoints == Init => Points
<1> SUFFICES ASSUME Init PROVE Points
  OBVIOUS
<1>1. Control
  BY DEF Init, Control
<1>2. ASSUME NEW p \in Proc PROVE Point(p, todo[p])
  <2>1. todo[p] = <<>>
    BY DEF Init
  <2> QED
    BY <2>1, PointEnds
<1> QED
  BY <1>1, <1>2 DEF Points

\* Every step keeps every process on its points.
LEMMA NextPoints == Points /\ [Next]_vars => Points'
<1> SUFFICES ASSUME Points, [Next]_vars PROVE Points'
  OBVIOUS
<1>1. CASE \E p \in Cli : CliStep(p) \/ Start(p) \/ Exit(p)
  BY <1>1, ClientStepPoints, CliStepPoints DEF CliStep, Proc
<1>2. CASE GuiStep \/ GuiEvent
  BY <1>2, ClientStepPoints, GuiStepPoints, GuiIsProc DEF GuiStep
<1>3. CASE Collect \/ UNCHANGED vars
  BY <1>3 DEF Collect, vars, procVars, Points, Control
<1>4. CASE AutoLock \/ Unplug
  BY <1>4 DEF AutoLock, Unplug, procVars, Points, Control
<1> QED
  BY <1>1, <1>2, <1>3, <1>4 DEF Next

----------------------------------------------------------------------------
(* Who refers to which client                                              *)

GuiRefs == {gui.client, gui.dialog} \cup {c \in {cur[Gui]} : todo[Gui] # <<>>}

Owned ==
    /\ \A p \in Cli : Own(p)
    /\ gui.asking => todo[Gui] = <<>>

\* Owning a client, in terms of the references of the GUI.
LEMMA OwnRefs ==
    ASSUME NEW p \in Cli
    PROVE  Own(p) <=> (cur[p] # NoClient => cur[p] \notin GuiRefs /\ \A q \in Cli \ {p} : cur[q] # cur[p])
BY DEF Own, GuiRefs

\* The same after a step.
LEMMA OwnRefsNext ==
    ASSUME NEW p \in Cli
    PROVE  Own(p)' <=> (cur'[p] # NoClient => cur'[p] \notin GuiRefs' /\ \A q \in Cli \ {p} : cur'[q] # cur'[p])
BY DEF Own, GuiRefs

\* A client that is not in use is nobody's.
LEMMA UnusedIsFree ==
    ASSUME NEW c \in Unused
    PROVE  c \in Client /\ c # NoClient /\ c \notin GuiRefs /\ claim # c /\ \A q \in Cli : cur[q] # c
BY ClientAssumption DEF Unused, Referenced, GuiRefs

\* Dropping references, and the GUI's taking a client that is not in use.
LEMMA OwnKept ==
    ASSUME Owned, \A p \in Cli : cur'[p] = cur[p] \/ cur'[p] = NoClient,
           GuiRefs' \subseteq GuiRefs \cup Unused \cup {NoClient}
    PROVE  \A p \in Cli : Own(p)'
<1> SUFFICES ASSUME NEW p \in Cli, cur'[p] # NoClient
             PROVE  cur'[p] \notin GuiRefs' /\ \A q \in Cli \ {p} : cur'[q] # cur'[p]
  BY OwnRefsNext
<1>1. cur'[p] = cur[p] /\ cur[p] # NoClient
  OBVIOUS
<1>2. cur[p] \notin GuiRefs /\ \A q \in Cli \ {p} : cur[q] # cur[p]
  BY <1>1, OwnRefs DEF Owned
<1>3. cur[p] \notin Unused
  BY UnusedIsFree
<1>4. cur[p] \notin GuiRefs'
  BY <1>1, <1>2, <1>3
<1> QED
  BY <1>1, <1>2, <1>4

\* A command line process takes a client that is not in use.
LEMMA OwnTaken ==
    ASSUME Owned, References, NEW p \in Cli, NEW c \in Unused, cur' = [cur EXCEPT ![p] = c], GuiRefs' \subseteq GuiRefs
    PROVE  \A q \in Cli : Own(q)'
<1>1. p \in Proc /\ Cli \subseteq Proc /\ cur \in [Proc -> Client \cup {NoClient}]
  BY DEF Proc, References
<1>2. cur'[p] = c /\ \A q \in Cli \ {p} : cur'[q] = cur[q]
  BY <1>1
<1> SUFFICES ASSUME NEW q \in Cli, cur'[q] # NoClient
             PROVE  cur'[q] \notin GuiRefs' /\ \A r \in Cli \ {q} : cur'[r] # cur'[q]
  BY OwnRefsNext
<1>3. c \notin GuiRefs /\ \A r \in Cli : cur[r] # c
  BY UnusedIsFree
<1>4. CASE q = p
  BY <1>2, <1>3, <1>4
<1>5. CASE q # p
  <2>1. cur'[q] = cur[q]
    BY <1>2, <1>5
  <2>2. cur[q] \notin GuiRefs /\ \A r \in Cli \ {q} : cur[r] # cur[q]
    BY <2>1, OwnRefs DEF Owned
  <2> QED
    BY <1>2, <1>3, <2>1, <2>2
<1> QED
  BY <1>4, <1>5

\* The steps that leave the references alone.
LEMMA SameRefs ==
    ASSUME Owned, UNCHANGED <<cur, gui>>, todo[Gui] = <<>> => todo'[Gui] = <<>>
    PROVE  Owned'
<1>1. GuiRefs' \subseteq GuiRefs
  BY DEF GuiRefs
<1>2. \A p \in Cli : Own(p)'
  BY <1>1, OwnKept
<1> QED
  BY <1>2 DEF Owned

\* A step moves its own process only.
LEMMA OthersStay ==
    ASSUME Points, NEW p \in Cli, \E t : Moves(p, t)
    PROVE  todo'[Gui] = todo[Gui]
<1>1. p # Gui /\ p \in Proc /\ Gui \in Proc
  BY ProcAssumption, GuiIsProc DEF Proc
<1> QED
  BY <1>1 DEF Moves, Points, Control

\* A step of a client moves its process, or leaves it inside a call.
LEMMA ClientStepMoves ==
    ASSUME NEW p, ClientStep(p)
    PROVE  todo[p] # <<>> /\ ((\E t : Moves(p, t)) \/ UNCHANGED todo)
<1>1. Continue(p) \/ Raise(p) => \E t : Moves(p, t)
  BY DEF Continue, Replace, Raise, Moves
<1>2. CASE New(p)
  BY <1>1, <1>2 DEF New, At
<1>3. CASE OpenClient(p)
  BY <1>1, <1>3 DEF OpenClient, At
<1>4. CASE RefreshFeatures(p) \/ CheckUnlocked(p) \/ CheckLocked(p) \/ GetPublicNode(p)
  BY <1>1, <1>4 DEF RefreshFeatures, CheckUnlocked, CheckLocked, InitDevice, GetPublicNode, Calling, At
<1>5. CASE Describe(p)
  BY <1>5 DEF Describe, Calling, At, Moves
<1>6. CASE Prompt(p) \/ Ack(p)
  BY <1>1, <1>6 DEF Prompt, Ack, At
<1>7. CASE Fingerprint(p)
  BY <1>7 DEF Fingerprint, At, Moves
<1>8. CASE CloseClient(p)
  BY <1>1, <1>8 DEF CloseClient, At
<1>9. CASE Disconnected(p)
  BY <1>1, <1>9 DEF Disconnected, At
<1> QED
  BY <1>2, <1>3, <1>4, <1>5, <1>6, <1>7, <1>8, <1>9 DEF ClientStep

\* The steps of a client leave each client to its owner.
LEMMA ClientStepOwned ==
    ASSUME Owned, Points, References, NEW p \in Proc, ClientStep(p)
    PROVE  Owned'
<1>m. todo[p] # <<>> /\ ((\E t : Moves(p, t)) \/ UNCHANGED todo)
  BY ClientStepMoves
<1>g. todo[Gui] = <<>> => todo'[Gui] = <<>>
  <2>1. CASE p = Gui
    BY <2>1, <1>m
  <2>2. CASE p # Gui
    BY <2>2, <1>m, OthersStay DEF Proc
  <2> QED
    BY <2>1, <2>2
<1>1. CASE UNCHANGED <<cur, gui>>
  BY <1>1, <1>g, SameRefs
<1>2. CASE New(p)
  <2>1. PICK c \in Unused : cur' = [cur EXCEPT ![p] = c]
    BY <1>2 DEF New
  <2>2. UNCHANGED gui
    BY <1>2 DEF New
  <2>3. cur \in [Proc -> Client \cup {NoClient}] /\ Gui \in Proc /\ Cli \subseteq Proc
    BY GuiIsProc DEF References, Proc
  <2>4. CASE p = Gui
    <3>1. \A q \in Cli : cur'[q] = cur[q]
      BY <2>1, <2>3, <2>4, ProcAssumption
    <3>2. GuiRefs' \subseteq GuiRefs \cup Unused \cup {NoClient}
      BY <2>1, <2>2, <2>3, <2>4 DEF GuiRefs
    <3>3. \A q \in Cli : Own(q)'
      BY <3>1, <3>2, OwnKept
    <3> QED
      BY <3>3, <1>m, <2>2, <2>4 DEF Owned
  <2>5. CASE p # Gui
    <3>1. p \in Cli
      BY <2>5 DEF Proc
    <3>2. cur'[Gui] = cur[Gui]
      BY <2>1, <2>3, <2>5
    <3>3. GuiRefs' \subseteq GuiRefs
      BY <1>g, <2>2, <3>2 DEF GuiRefs
    <3>4. \A q \in Cli : Own(q)'
      BY <2>1, <3>1, <3>3, OwnTaken
    <3> QED
      BY <3>4, <1>g, <2>2 DEF Owned
  <2> QED
    BY <2>4, <2>5
<1>3. New(p) \/ UNCHANGED <<cur, gui>>
  BY DEF ClientStep, OpenClient, RefreshFeatures, CheckUnlocked, CheckLocked, InitDevice, GetPublicNode, Describe,
         Calling, Prompt, Ack, Disconnected, Fingerprint, CloseClient
<1> QED
  BY <1>1, <1>2, <1>3

\* The steps that only a command line process takes.
LEMMA CliStepOwned ==
    ASSUME Owned, Points, References, NEW p \in Cli,
           Choose(p) \/ MatchModel(p) \/ Lookup(p) \/ Compare(p) \/ Report(p) \/ Start(p) \/ Exit(p)
    PROVE  Owned'
<1>1. \E t : Moves(p, t)
  BY DEF Choose, MatchModel, Lookup, Compare, Report, Start, Exit, Continue, Replace, Raise, Moves
<1>2. todo'[Gui] = todo[Gui]
  BY <1>1, OthersStay
<1>3. CASE UNCHANGED <<cur, gui>>
  BY <1>2, <1>3, SameRefs
<1>4. CASE Exit(p)
  <2>1. cur' = [cur EXCEPT ![p] = NoClient] /\ UNCHANGED gui
    BY <1>4 DEF Exit
  <2>2. cur \in [Proc -> Client \cup {NoClient}] /\ Gui \in Proc /\ Cli \subseteq Proc /\ p # Gui
    BY GuiIsProc, ProcAssumption DEF References, Proc
  <2>3. \A q \in Cli : cur'[q] = cur[q] \/ cur'[q] = NoClient
    BY <2>1, <2>2
  <2>4. cur'[Gui] = cur[Gui]
    BY <2>1, <2>2
  <2>5. GuiRefs' \subseteq GuiRefs
    BY <1>2, <2>1, <2>4 DEF GuiRefs
  <2>6. \A q \in Cli : Own(q)'
    BY <2>3, <2>5, OwnKept
  <2> QED
    BY <1>2, <2>1, <2>6 DEF Owned
<1>5. Exit(p) \/ UNCHANGED <<cur, gui>>
  BY DEF Choose, MatchModel, Lookup, Compare, Report, Start
<1> QED
  BY <1>3, <1>4, <1>5

\* A slot starts on nobody's client, the GUI's or one that is not in use.
LEMMA SlotOwned ==
    ASSUME Owned, References, NEW c \in GuiRefs \cup Unused \cup {NoClient}, NEW steps, Slot(c, steps),
           gui'.client \in GuiRefs \cup Unused, gui'.dialog \in GuiRefs, ~gui'.asking
    PROVE  Owned'
<1>1. cur' = [cur EXCEPT ![Gui] = c]
  BY DEF Slot
<1>2. cur \in [Proc -> Client \cup {NoClient}] /\ Gui \in Proc /\ Cli \subseteq Proc /\ Gui \notin Cli
  BY GuiIsProc, ProcAssumption DEF References, Proc
<1>3. cur'[Gui] = c /\ \A q \in Cli : cur'[q] = cur[q]
  BY <1>1, <1>2
<1>4. GuiRefs' \subseteq GuiRefs \cup Unused \cup {NoClient}
  BY <1>3 DEF GuiRefs
<1>5. \A q \in Cli : Own(q)'
  BY <1>3, <1>4, OwnKept
<1> QED
  BY <1>5 DEF Owned

\* When the dialog is shown, the slot is over.
LEMMA DialogIsLast ==
    ASSUME Points, ShowDialog
    PROVE  Trim(Tail(todo[Gui])) = <<>> /\ Moves(Gui, <<>>)
<1> DEFINE s == todo[Gui]
<1>1. At(Gui, "showDialog") /\ Continue(Gui)
  BY DEF ShowDialog
<1>2. s \in Seq(Words) /\ Len(s) > 0 /\ Head(s) = "showDialog" /\ s[1] = "showDialog" /\ Point(Gui, s)
  BY <1>1, GuiIsProc, AtStep DEF Points
<1>3. Loose(s)
  BY <1>2, LoosePoint
<1>5. Moves(Gui, Trim(Tail(s)))
  BY <1>1 DEF Continue, Replace, Moves
<1> HIDE DEF s
<1>4. Len(s) = 1
  BY <1>2, <1>3 DEF Loose
<1>6. Tail(s) = <<>>
  <2>1. Tail(s) \in Seq(Words) /\ Len(Tail(s)) = 0
    BY <1>2, <1>4
  <2> QED
    BY <2>1, EmptySeq
<1>7. Trim(<<>>) = <<>>
  BY DEF Trim
<1> QED
  BY <1>5, <1>6, <1>7 DEF s

\* The steps and the events of the GUI.
LEMMA GuiStepOwned ==
    ASSUME Owned, Points, References, CloseSelf \/ Fill \/ Reselect \/ ShowDialog \/ CloseDialog \/ GuiEvent
    PROVE  Owned'
<1>g. gui \in GuiStates
  BY DEF References
<1>r. /\ cur \in [Proc -> Client \cup {NoClient}] /\ Gui \in Proc /\ Cli \subseteq Proc /\ Gui \notin Cli
      /\ gui.client \in GuiRefs /\ gui.dialog \in GuiRefs
  BY GuiIsProc, ProcAssumption DEF References, Proc, GuiRefs
<1>1. CASE CloseSelf \/ CloseDialog
  <2>1. UNCHANGED cur /\ todo[Gui] # <<>>
    BY <1>1 DEF CloseSelf, CloseDialog, At
  <2>2. gui'.client \in {gui.client, NoClient} /\ gui'.dialog \in {gui.dialog, NoClient} /\ gui'.asking = gui.asking
    BY <1>1, <1>g DEF CloseSelf, CloseDialog, GuiStates
  <2>3. GuiRefs' \subseteq GuiRefs \cup Unused \cup {NoClient}
    BY <2>1, <2>2 DEF GuiRefs
  <2>4. \A q \in Cli : Own(q)'
    BY <2>1, <2>3, OwnKept
  <2> QED
    BY <2>1, <2>2, <2>4 DEF Owned
<1>2. CASE Fill
  <2>1. cur' = [cur EXCEPT ![Gui] = NoClient] /\ todo[Gui] # <<>>
    BY <1>2 DEF Fill, At
  <2>2. gui'.client = gui.client /\ gui'.dialog = gui.dialog /\ gui'.asking = gui.asking
    BY <1>2, <1>g DEF Fill, GuiStates
  <2>3. cur'[Gui] = NoClient /\ \A q \in Cli : cur'[q] = cur[q]
    BY <1>r, <2>1
  <2>4. GuiRefs' \subseteq GuiRefs \cup Unused \cup {NoClient}
    BY <2>2, <2>3 DEF GuiRefs
  <2>5. \A q \in Cli : Own(q)'
    BY <2>3, <2>4, OwnKept
  <2> QED
    BY <2>1, <2>2, <2>5 DEF Owned
<1>3. CASE Reselect \/ SelectDevice
  <2>1. PICK c \in Unused : \E steps :
              /\ Loose(Trim(steps))
              /\ Slot(c, steps)
              /\ Reset(Unused)
              /\ gui' = [gui EXCEPT !.index = 1, !.client = c, !.sendpin = gui.device.pin,
                                    !.commands = ~gui.device.pin]
    BY <1>3, InfoSteps
  <2>2. PICK steps : Slot(c, steps)
    BY <2>1
  <2>3. gui'.client = c /\ gui'.dialog = gui.dialog /\ gui'.asking = gui.asking
    BY <2>1, <1>g DEF GuiStates
  <2>4. ~gui.asking
    BY <1>3 DEF Reselect, SelectDevice, Idle, At, Owned
  <2> QED
    BY <1>r, <2>2, <2>3, <2>4, SlotOwned
<1>4. CASE ShowDialog
  <2>1. gui' = [gui EXCEPT !.asking = TRUE, !.dialog = gui.client] /\ UNCHANGED cur /\ todo[Gui] # <<>>
    BY <1>4 DEF ShowDialog, At
  <2>2. gui'.client = gui.client /\ gui'.dialog = gui.client
    BY <2>1, <1>g DEF GuiStates
  <2>3. todo'[Gui] = <<>>
    BY <1>4, <1>r, DialogIsLast DEF Moves, Points, Control
  <2>4. GuiRefs' \subseteq GuiRefs
    BY <2>1, <2>2 DEF GuiRefs
  <2>5. \A q \in Cli : Own(q)'
    BY <2>1, <2>4, OwnKept
  <2> QED
    BY <2>3, <2>5 DEF Owned
<1>5. CASE RefreshClicked \/ SendPinClicked
  <2>1. PICK c \in {NoClient, gui.client} : \E steps : Slot(c, steps)
    BY <1>5, SlotSteps
  <2>2. UNCHANGED gui /\ ~gui.asking
    BY <1>5 DEF RefreshClicked, SendPinClicked, Idle
  <2> QED
    BY <1>r, <2>1, <2>2, SlotOwned
<1>6. CASE DialogAccepted
  <2>1. PICK steps : Slot(gui.dialog, steps)
    BY <1>6, SlotSteps
  <2>2. gui'.client = gui.client /\ gui'.dialog = gui.dialog /\ ~gui'.asking
    BY <1>6, <1>g DEF DialogAccepted, GuiStates
  <2> QED
    BY <1>r, <2>1, <2>2, SlotOwned
<1>7. CASE CommandClicked
  <2>1. PICK steps : Slot(gui.client, steps)
    BY <1>7, SlotSteps
  <2>2. gui'.client = gui.client /\ gui'.dialog = gui.client /\ ~gui'.asking
    BY <1>7, <1>g DEF CommandClicked, GuiStates, Idle
  <2> QED
    BY <1>r, <2>1, <2>2, SlotOwned
<1>8. CASE SelectNone \/ DialogRejected
  <2>1. UNCHANGED <<cur, todo>>
    BY <1>8 DEF SelectNone, DialogRejected, procVars
  <2>2. gui'.client = gui.client /\ gui'.dialog = gui.dialog
    BY <1>8, <1>g DEF SelectNone, DialogRejected, GuiStates
  <2>3. gui'.asking => gui.asking
    BY <1>8, <1>g DEF SelectNone, DialogRejected, GuiStates
  <2>4. GuiRefs' \subseteq GuiRefs
    BY <2>1, <2>2 DEF GuiRefs
  <2>5. \A q \in Cli : Own(q)'
    BY <2>1, <2>4, OwnKept
  <2> QED
    BY <2>1, <2>3, <2>5 DEF Owned
<1> QED
  BY <1>1, <1>2, <1>3, <1>4, <1>5, <1>6, <1>7, <1>8 DEF GuiEvent

\* Nobody refers to a client when the processes start.
LEMMA InitOwned == Init => Owned
BY DEF Init, Owned, Own, Proc

\* Every step leaves each client of a command line process to that process.
LEMMA NextOwned == Owned /\ Points /\ References /\ [Next]_vars => Owned'
<1> SUFFICES ASSUME Owned, Points, References, [Next]_vars PROVE Owned'
  OBVIOUS
<1>1. CASE \E p \in Cli : CliStep(p) \/ Start(p) \/ Exit(p)
  BY <1>1, ClientStepOwned, CliStepOwned DEF CliStep, Proc
<1>2. CASE GuiStep \/ GuiEvent
  BY <1>2, ClientStepOwned, GuiStepOwned, GuiIsProc DEF GuiStep
<1>3. CASE Collect \/ AutoLock \/ Unplug \/ UNCHANGED vars
  <2>1. UNCHANGED <<cur, gui, todo>>
    BY <1>3 DEF Collect, AutoLock, Unplug, vars, procVars
  <2> QED
    BY <2>1, SameRefs
<1> QED
  BY <1>1, <1>2, <1>3 DEF Next

----------------------------------------------------------------------------
(* A step disturbs nobody else's client                                    *)

\* What the state of a process says about its own client still holds, as far
\* as the device is there.
Undisturbed(d) ==
    /\ counter'[d] = counter[d]
    /\ handle'[d] = handle[d]
    /\ plugged' => /\ plugged
                   /\ (claim' = d) <=> (claim = d)
                   /\ claim = d => dev' = dev \/ (dev = "unlocked" /\ dev' = "locked")
    /\ ~plugged' => dev' = dev \/ dev' = "locked"

\* What a command line process knows about itself, its client and the device.
Holding(p) == Sessions(p) /\ Bounded(p) /\ Answers(p) /\ Pins(p)

\* What the graphical interface knows.
Guiding == Sessions(Gui) /\ GuiShape

\* A client inside a session holds the interface of a device that is there.
LEMMA OpenClaims ==
    ASSUME Balanced, NEW c \in Client, counter[c] >= 1
    PROVE  handle[c] = "claimed" /\ (plugged => claim = c)
BY DEF Balanced, SessionType, SessionsBalance

\* open() and close() concern one client, and so does dropping clients.
LEMMA OpenApart ==
    ASSUME Balanced, NEW c \in Client, Open(c) \/ OpenRaises(c), UNCHANGED dev, NEW d \in Client, d # c
    PROVE  Undisturbed(d)
BY ClientAssumption DEF Balanced, SessionType, SessionsBalance, Open, OpenRaises, OpensHandle, Undisturbed

\* close() concerns one client; whoever holds the interface may change the
\* device.
LEMMA CloseApart ==
    ASSUME Balanced, NEW c \in Client, Close(c) \/ CloseRaises(c), NEW d \in Client, d # c,
           UNCHANGED dev \/ (plugged /\ claim = c)
    PROVE  Undisturbed(d)
<1>1. /\ counter \in [Client -> Nat] /\ handle \in [Client -> {"none", "opened", "claimed"}]
      /\ claim \in Client \cup {NoClient} /\ (plugged => ((handle[c] = "claimed") <=> (claim = c)))
  BY DEF Balanced, SessionType, SessionsBalance
<1>2. counter'[d] = counter[d]
  BY <1>1 DEF Close, CloseRaises, CountClose
<1>3. handle'[d] = handle[d]
  BY <1>1 DEF Close, CloseRaises
<1>4. plugged => ((claim' = d) <=> (claim = d))
  BY <1>1, ClientAssumption DEF Close, CloseRaises
<1>5. plugged' = plugged
  BY DEF Close, CloseRaises
<1> QED
  BY <1>2, <1>3, <1>4, <1>5 DEF Undisturbed

\* Dropping clients leaves the others alone.
LEMMA ResetApart ==
    ASSUME Balanced, NEW S, Reset(S), UNCHANGED dev, NEW d \in Client, d \notin S
    PROVE  Undisturbed(d)
BY ClientAssumption DEF Balanced, SessionType, Reset, Undisturbed

\* So does everything but the holder of the interface and the lock.
LEMMA SameApart ==
    ASSUME UNCHANGED sessionVars, NEW d \in Client,
           dev' = dev \/ (dev = "unlocked" /\ dev' = "locked") \/ (plugged /\ claim # d)
    PROVE  Undisturbed(d)
BY DEF sessionVars, Undisturbed

\* A process that takes no part in the step and whose client is left alone
\* knows what it knew.
LEMMA CliKept ==
    ASSUME Balanced, References, NEW q \in Cli, Holding(q),
           todo'[q] = todo[q], cur'[q] = cur[q], entered'[q] = entered[q], answer'[q] = answer[q],
           report'[q] = report[q],
           cur[q] # NoClient => Undisturbed(cur[q])
    PROVE  Holding(q)'
<1>c. cur[q] \in Client \cup {NoClient}
  BY DEF References, Proc
<1>1. Sessions(q)'
  BY DEF Holding, Sessions, Undisturbed
<1>2. Bounded(q)'
  BY DEF Holding, Bounded, Undisturbed
<1>3. Answers(q)'
  <2>1. Answers(q)
    BY DEF Holding
  <2>2. ASSUME answer[q] # "none", report[q].error, todo[q] \in {Closing, Printing}
        PROVE  ~plugged' /\ todo[q] = Printing
    <3>1. ~plugged /\ todo[q] = Printing
      BY <2>1, <2>2 DEF Answers
    <3>2. Printing # <<>> /\ Head(Printing) # "new"
      BY DEF Printing
    <3>3. cur[q] # NoClient
      BY <2>1, <3>1, <3>2 DEF Answers
    <3> QED
      BY <3>1, <3>3 DEF Undisturbed
  <2>3. ASSUME cur[q] # NoClient PROVE handle'[cur[q]] = handle[cur[q]]
    BY <2>3 DEF Undisturbed
  <2> QED
    BY <2>1, <2>2, <2>3 DEF Answers, At
<1>4. Pins(q)'
  <2>1. ASSUME todo[q] # <<>>, Head(todo[q]) = "prompt" PROVE dev' # "unlocked"
    <3>1. Inside(todo[q]) /\ dev # "unlocked"
      BY <2>1 DEF Inside, Holding, Pins, At
    <3>2. cur[q] # NoClient /\ counter[cur[q]] >= 1
      BY <3>1, <1>c DEF Holding, Sessions, Balanced, SessionType
    <3>3. plugged => claim = cur[q]
      BY <3>2, <1>c, OpenClaims
    <3> QED
      BY <3>1, <3>2, <3>3 DEF Undisturbed
  <2>2. ASSUME todo[q] = Closing, answer[q] = "prompted" PROVE ~plugged' \/ (dev' = "prompting" /\ claim' = cur[q])
    <3>1. (~plugged \/ (dev = "prompting" /\ claim = cur[q])) /\ cur[q] # NoClient
      BY <2>2 DEF Holding, Pins, Answers
    <3> QED
      BY <3>1 DEF Undisturbed
  <2> QED
    BY <2>1, <2>2 DEF Pins, At
<1> QED
  BY <1>1, <1>2, <1>3, <1>4 DEF Holding

\* The same for the graphical interface.
LEMMA GuiKept ==
    ASSUME Balanced, References, Guiding, GuiPoint(todo'[Gui]), gui'.asking => todo'[Gui] = <<>>,
           todo'[Gui] = todo[Gui], cur'[Gui] = cur[Gui], entered'[Gui] = entered[Gui],
           answer'[Gui] = answer[Gui], gui'.client = gui.client,
           todo[Gui] # <<>> /\ cur[Gui] # NoClient => Undisturbed(cur[Gui]),
           gui.client # NoClient => Undisturbed(gui.client)
    PROVE  Guiding'
<1>c. cur[Gui] \in Client \cup {NoClient}
  BY GuiIsProc DEF References
<1>i. Inside(todo[Gui]) => todo[Gui] # <<>>
  BY DEF Inside
<1>1. Sessions(Gui)'
  BY <1>i DEF Guiding, Sessions, Undisturbed
<1>2. ASSUME todo[Gui] # <<>>, Head(todo[Gui]) = "prompt" PROVE dev' # "unlocked"
  <2>1. Inside(todo[Gui]) /\ dev # "unlocked"
    BY <1>2 DEF Inside, Guiding, GuiShape, At
  <2>2. cur[Gui] # NoClient /\ counter[cur[Gui]] >= 1
    BY <2>1, <1>c DEF Guiding, Sessions, Balanced, SessionType
  <2>3. plugged => claim = cur[Gui]
    BY <2>2, <1>c, OpenClaims
  <2> QED
    BY <1>2, <2>1, <2>2, <2>3 DEF Undisturbed
<1>3. ASSUME answer[Gui] = "prompted" PROVE ~plugged' \/ (dev' = "prompting" /\ claim' = cur[Gui])
  <2>1. (~plugged \/ (dev = "prompting" /\ claim = cur[Gui])) /\ cur[Gui] # NoClient /\ cur[Gui] = gui.client
    BY <1>3 DEF Guiding, GuiShape
  <2> QED
    BY <2>1 DEF Undisturbed
<1>4. GuiShape'
  BY <1>2, <1>3 DEF Guiding, GuiShape, At
<1> QED
  BY <1>1, <1>4 DEF Guiding

\* A step of a client touches that client and those that are not in use; the
\* device only listens to the process that holds the interface.
LEMMA ClientStepApart ==
    ASSUME Balanced, References, NEW p \in Proc, Sessions(p), ClientStep(p),
           NEW d \in Client, d # cur[p], d \notin Unused
    PROVE  Undisturbed(d)
<1>c. cur[p] \in Client \cup {NoClient}
  BY DEF References
<1>n. counter \in [Client -> Nat]
  BY DEF Balanced, SessionType
<1>1. CASE New(p)
  BY <1>1, ResetApart DEF New
<1>2. CASE OpenClient(p)
  <2>1. UNCHANGED dev /\ (UNCHANGED sessionVars \/ (cur[p] # NoClient /\ (Open(cur[p]) \/ OpenRaises(cur[p]))))
    BY <1>2 DEF OpenClient
  <2> QED
    BY <2>1, <1>c, OpenApart, SameApart
<1>3. ASSUME NEW call, Calling(p, call) PROVE Undisturbed(d)
  <2>1. cur[p] \in Client /\ entered[p] /\ plugged /\ Close(cur[p])
    BY <1>3, <1>c DEF Calling
  <2>2. counter[cur[p]] >= 1
    BY <2>1 DEF Sessions
  <2>3. claim = cur[p]
    BY <2>1, <2>2, OpenClaims
  <2> QED
    BY <2>1, <2>3, CloseApart
<1>4. CASE Prompt(p) \/ Ack(p)
  <2>1. UNCHANGED sessionVars /\ Inside(todo[p]) /\ plugged
    BY <1>4 DEF Prompt, Ack, At, Inside
  <2>2. cur[p] # NoClient /\ counter[cur[p]] >= 1
    BY <2>1, <1>c, <1>n DEF Sessions
  <2>3. claim = cur[p]
    BY <2>1, <2>2, <1>c, OpenClaims
  <2> QED
    BY <2>1, <2>3, SameApart
<1>5. CASE Fingerprint(p)
  BY <1>5, SameApart DEF Fingerprint
<1>6. CASE CloseClient(p)
  <2>1. cur[p] # NoClient /\ UNCHANGED dev /\ (Close(cur[p]) \/ CloseRaises(cur[p]))
    BY <1>6 DEF CloseClient
  <2> QED
    BY <2>1, <1>c, CloseApart
<1>7. CASE Disconnected(p)
  <2>1. UNCHANGED dev /\ (UNCHANGED sessionVars \/ (cur[p] # NoClient /\ (Close(cur[p]) \/ CloseRaises(cur[p]))))
    BY <1>7 DEF Disconnected
  <2> QED
    BY <2>1, <1>c, CloseApart, SameApart
<1> QED
  BY <1>1, <1>2, <1>3, <1>4, <1>5, <1>6, <1>7
  DEF ClientStep, RefreshFeatures, CheckUnlocked, CheckLocked, InitDevice, GetPublicNode, Describe

\* The other variables of a client step belong to its process.
LEMMA ClientStepOthers ==
    ASSUME Points, References, NEW p \in Proc, ClientStep(p), NEW q \in Proc, q # p
    PROVE  /\ todo'[q] = todo[q] /\ cur'[q] = cur[q] /\ entered'[q] = entered[q]
           /\ answer'[q] = answer[q] /\ report'[q] = report[q]
           /\ UNCHANGED gui
<1>t. /\ todo \in [Proc -> Seq(Words)]
      /\ entered \in [Proc -> BOOLEAN]
      /\ answer \in [Proc -> {"none", "prompted", "accepted", "refused", "xpub", "list"}]
      /\ report \in [Proc -> [status : {"idle", "running", "printed", "crashed"}, error : BOOLEAN]]
      /\ cur \in [Proc -> Client \cup {NoClient}]
  BY DEF Points, Control, References
<1>m. todo[p] # <<>> /\ ((\E t : Moves(p, t)) \/ UNCHANGED todo)
  BY ClientStepMoves
<1>1. todo'[q] = todo[q]
  BY <1>t, <1>m DEF Moves
<1>2. UNCHANGED gui /\ (UNCHANGED cur \/ \E c : cur' = [cur EXCEPT ![p] = c])
  BY DEF ClientStep, New, OpenClient, RefreshFeatures, CheckUnlocked, CheckLocked, InitDevice, GetPublicNode, Describe,
         Calling, Prompt, Ack, Disconnected, Fingerprint, CloseClient
<1>3. UNCHANGED entered \/ \E b : entered' = [entered EXCEPT ![p] = b]
  BY DEF ClientStep, New, OpenClient, RefreshFeatures, CheckUnlocked, CheckLocked, InitDevice, GetPublicNode, Describe,
         Calling, Prompt, Ack, Disconnected, Fingerprint, CloseClient
<1>4. UNCHANGED answer \/ \E a : answer' = [answer EXCEPT ![p] = a]
  <2>1. CASE Ack(p)
    BY <2>1 DEF Ack
  <2>2. CASE Prompt(p)
    BY <2>2 DEF Prompt
  <2> QED
    BY <2>1, <2>2
    DEF ClientStep, New, OpenClient, RefreshFeatures, CheckUnlocked, CheckLocked, InitDevice, GetPublicNode, Describe,
        Calling, Disconnected, Fingerprint, CloseClient
<1>5. Raise(p) \/ UNCHANGED report
  BY DEF ClientStep, New, OpenClient, RefreshFeatures, CheckUnlocked, CheckLocked, InitDevice, GetPublicNode, Describe,
         Calling, Prompt, Ack, Disconnected, Fingerprint, CloseClient, Continue, Replace
<1>6. report'[q] = report[q]
  BY <1>5, <1>m, RaiseMoves
<1> QED
  BY <1>t, <1>1, <1>2, <1>3, <1>4, <1>6

\* A client step of p leaves every other process what it knows.
LEMMA ClientStepSpares ==
    ASSUME BalanceInv, Points, Owned, NEW p \in Proc, Sessions(p), ClientStep(p)
    PROVE  /\ \A q \in Cli \ {p} : Holding(q) => Holding(q)'
           /\ p # Gui /\ Guiding => Guiding'
<1>i. Balanced /\ References
  BY DEF BalanceInv
<1>s. todo[p] # <<>>
  BY ClientStepMoves
<1>1. ASSUME NEW q \in Cli \ {p}, Holding(q) PROVE Holding(q)'
  <2>1. q \in Proc /\ q # p /\ q \in Cli
    BY DEF Proc
  <2>2. ASSUME cur[q] # NoClient PROVE Undisturbed(cur[q])
    <3>1. cur[q] \in Client
      BY <1>i, <2>1, <2>2 DEF References
    <3>2. cur[q] # cur[p]
      <4>1. CASE p = Gui
        BY <4>1, <1>s, <2>1, <2>2 DEF Owned, Own
      <4>2. CASE p # Gui
        BY <4>2, <2>1, <2>2 DEF Owned, Own, Proc
      <4> QED
        BY <4>1, <4>2
    <3>3. cur[q] \notin Unused
      BY <2>1, UnusedIsFree
    <3> QED
      BY <1>i, <3>1, <3>2, <3>3, ClientStepApart
  <2>3. /\ todo'[q] = todo[q] /\ cur'[q] = cur[q] /\ entered'[q] = entered[q]
        /\ answer'[q] = answer[q] /\ report'[q] = report[q]
    BY <1>i, <2>1, ClientStepOthers
  <2> QED
    BY <1>1, <1>i, <2>1, <2>2, <2>3, CliKept
<1>2. ASSUME p # Gui, Guiding PROVE Guiding'
  <2>1. p \in Cli /\ Gui \in Proc
    BY <1>2, GuiIsProc DEF Proc
  <2>2. /\ todo'[Gui] = todo[Gui] /\ cur'[Gui] = cur[Gui] /\ entered'[Gui] = entered[Gui]
        /\ answer'[Gui] = answer[Gui] /\ UNCHANGED gui
    BY <1>i, <1>2, <2>1, ClientStepOthers
  <2>3. ASSUME NEW d \in GuiRefs, d # NoClient PROVE Undisturbed(d)
    <3>1. d \in Client
      BY <1>i, <2>1, <2>3, GuiFields DEF GuiRefs, References
    <3>2. d # cur[p]
      BY <2>1, <2>3, OwnRefs DEF Owned
    <3>3. d \notin Unused
      BY <2>3, UnusedIsFree
    <3> QED
      BY <1>i, <3>1, <3>2, <3>3, ClientStepApart
  <2>4. /\ todo[Gui] # <<>> /\ cur[Gui] # NoClient => Undisturbed(cur[Gui])
        /\ gui.client # NoClient => Undisturbed(gui.client)
    BY <2>3 DEF GuiRefs
  <2>5. GuiPoint(todo[Gui]) /\ (gui.asking => todo[Gui] = <<>>)
    BY <1>2 DEF Guiding, GuiShape
  <2> QED
    BY <1>2, <1>i, <2>2, <2>4, <2>5, GuiKept
<1> QED
  BY <1>1, <1>2

----------------------------------------------------------------------------
(* What a command line process knows after its own step                    *)

\* The process is at t and will report an answer or an error; it is neither
\* idle nor done.
Arrives(p, t) ==
    /\ todo'[p] = t
    /\ ~entered'[p]
    /\ cur'[p] \in Client
    /\ report'[p].status \notin {"idle", "printed"}

\* Before the command a process has no session.
LEMMA EarlyHolds ==
    ASSUME NEW p \in Cli, NEW t, Early(t), Arrives(p, t), counter'[cur'[p]] = 0,
           answer'[p] = "none", ~report'[p].error
    PROVE  Holding(p)'
<1>1. ~Inside(t) /\ t # Closing /\ t # Printing /\ (t # <<>> => Head(t) \notin {"print", "xpub", "prompt"})
  BY EarlyIsOutside
<1>2. todo'[p] = t /\ ~entered'[p] /\ cur'[p] # NoClient /\ report'[p].status \notin {"idle", "printed"}
  BY ClientAssumption DEF Arrives
<1>3. Sessions(p)'
  BY <1>1, <1>2 DEF Sessions
<1>4. Bounded(p)'
  BY <1>1, <1>2 DEF Bounded
<1>5. Answers(p)'
  BY <1>1, <1>2 DEF Answers, At, CliPoint
<1>6. Pins(p)'
  BY <1>1, <1>2 DEF Pins, At
<1> QED
  BY <1>3, <1>4, <1>5, <1>6 DEF Holding

\* While a command runs its client is open exactly when prompt_pin or
\* send_pin has opened it.
LEMMA CommandHolds ==
    ASSUME NEW p \in Cli, NEW t, Commanding(t), Arrives(p, t),
           counter'[cur'[p]] = (IF Inside(t) THEN 1 ELSE 0),
           answer'[p] = "none", ~report'[p].error,
           Head(t) = "xpub" => handle'[cur'[p]] # "opened",
           Head(t) = "prompt" => dev' # "unlocked"
    PROVE  Holding(p)'
<1>1. t # <<>> /\ t # Closing /\ t # Printing
  <2>1. t \in Seq(Words) /\ Len(t) > 0 /\ Head(t) \notin {"close", "print"}
    BY CommandGoesOn DEF CommandStep
  <2> QED
    BY <2>1 DEF Closing, Printing
<1>2. todo'[p] = t /\ ~entered'[p] /\ cur'[p] # NoClient /\ report'[p].status \notin {"idle", "printed"}
  BY ClientAssumption DEF Arrives
<1>3. Sessions(p)'
  BY <1>1, <1>2 DEF Sessions
<1>4. Bounded(p)'
  BY <1>1, <1>2 DEF Bounded
<1>5. Answers(p)'
  BY <1>1, <1>2 DEF Answers, At, CliPoint
<1>6. Pins(p)'
  BY <1>1, <1>2 DEF Pins, At
<1> QED
  BY <1>3, <1>4, <1>5, <1>6 DEF Holding

\* The command is over and its close() is to come.
LEMMA ClosingHolds ==
    ASSUME NEW p \in Cli, Arrives(p, Closing), counter'[cur'[p]] \in {0, 1},
           (answer'[p] = "none") = report'[p].error,
           answer'[p] # "none" => handle'[cur'[p]] # "opened",
           answer'[p] = "prompted" => dev' = "prompting" /\ claim' = cur'[p]
    PROVE  Holding(p)'
<1>1. ~Inside(Closing) /\ Closing # <<>> /\ Head(Closing) = "close"
  BY DEF Closing, Inside
<1>2. todo'[p] = Closing /\ ~entered'[p] /\ cur'[p] # NoClient /\ report'[p].status \notin {"idle", "printed"}
  BY ClientAssumption DEF Arrives
<1>3. Sessions(p)'
  BY <1>1, <1>2 DEF Sessions
<1>4. Bounded(p)'
  BY <1>1, <1>2 DEF Bounded
<1>5. Answers(p)'
  BY <1>1, <1>2 DEF Answers, At, CliPoint
<1>6. Pins(p)'
  BY <1>1, <1>2 DEF Pins, At
<1> QED
  BY <1>3, <1>4, <1>5, <1>6 DEF Holding

\* Only the output is to come.
LEMMA PrintingHolds ==
    ASSUME NEW p \in Cli, Arrives(p, Printing), counter'[cur'[p]] = 0,
           answer'[p] = "none" => report'[p].error, answer'[p] # "none" /\ report'[p].error => ~plugged'
    PROVE  Holding(p)'
<1>1. ~Inside(Printing) /\ Printing # <<>> /\ Head(Printing) = "print" /\ Printing # Closing
  <2>1. Len(Printing) # Len(Closing)
    BY EndTypes
  <2> QED
    BY <2>1 DEF Printing, Inside
<1>2. todo'[p] = Printing /\ ~entered'[p] /\ cur'[p] # NoClient /\ report'[p].status \notin {"idle", "printed"}
  BY ClientAssumption DEF Arrives
<1>3. Sessions(p)'
  BY <1>1, <1>2 DEF Sessions
<1>4. Bounded(p)'
  BY <1>1, <1>2 DEF Bounded
<1>5. Answers(p)'
  BY <1>1, <1>2 DEF Answers, At, CliPoint
<1>6. Pins(p)'
  BY <1>1, <1>2 DEF Pins, At
<1> QED
  BY <1>3, <1>4, <1>5, <1>6 DEF Holding

\* What a process knows at a step: it is running, and before its command and
\* in it there is neither an answer nor an error.
LEMMA Running ==
    ASSUME Points, References, NEW p \in Cli, Holding(p), todo[p] # <<>>, Head(todo[p]) # "new"
    PROVE  /\ p \in Proc /\ p # Gui /\ cur[p] \in Client
           /\ todo[p] \in Seq(Words) /\ Len(todo[p]) > 0
           /\ report[p].status \notin {"idle", "printed"}
           /\ todo[p] \in {Closing, Printing} \/ Early(todo[p]) \/ Commanding(todo[p])
           /\ todo[p] \notin {Closing, Printing} => answer[p] = "none" /\ ~report[p].error
           /\ Head(todo[p]) \notin Calls => ~entered[p]
<1>1. p \in Proc /\ p # Gui
  BY ProcAssumption DEF Proc
<1>2. todo[p] \in Seq(Words) /\ Point(p, todo[p]) /\ cur[p] \in Client \cup {NoClient}
  BY <1>1 DEF Points, Control, References
<1>3. Len(todo[p]) > 0
  BY <1>2
<1>4. cur[p] \in Client
  BY <1>2 DEF Holding, Answers
<1>5. report[p].status \notin {"idle", "printed"}
  BY DEF Holding, Answers
<1>6. todo[p] \in {Closing, Printing} \/ Early(todo[p]) \/ Commanding(todo[p])
  BY <1>1, <1>2 DEF Point, CliPoint
<1>7. todo[p] \notin {Closing, Printing} => answer[p] = "none" /\ ~report[p].error
  BY DEF Holding, Answers
<1>8. Head(todo[p]) \notin Calls => ~entered[p]
  BY DEF Holding, Sessions
<1> QED
  BY <1>1, <1>2, <1>3, <1>4, <1>5, <1>6, <1>7, <1>8

\* Going on and raising, for a command line process.
LEMMA CliContinues ==
    ASSUME Points, NEW p \in Cli, todo[p] # <<>>, Continue(p)
    PROVE  todo'[p] = Trim(Tail(todo[p])) /\ report'[p] = report[p]
<1>1. p \in Proc
  BY DEF Proc
<1>2. Moves(p, Trim(Tail(todo[p]))) /\ UNCHANGED report
  BY <1>1, ContinueMoves
<1> QED
  BY <1>1, <1>2 DEF Moves, Points, Control

\* Raising, for a command line process: where it goes on and what it reports.
LEMMA CliRaises ==
    ASSUME Points, NEW p \in Cli, todo[p] # <<>>, Raise(p)
    PROVE  /\ todo'[p] = AfterRaise(todo[p])
           /\ report'[p].status \in {report[p].status, "crashed"}
           /\ CaughtBy(todo[p]) = "resultErrors" => report'[p].error
           /\ CaughtBy(todo[p]) # "resultErrors" => report'[p].error = report[p].error
<1>1. p \in Proc
  BY DEF Proc
<1>2. Moves(p, AfterRaise(todo[p]))
  BY <1>1, RaiseMoves
<1>3. todo'[p] = AfterRaise(todo[p])
  BY <1>1, <1>2 DEF Moves, Points, Control
<1>4. report \in [Proc -> [status : {"idle", "running", "printed", "crashed"}, error : BOOLEAN]]
  BY DEF Points, Control
<1>5. CASE CaughtBy(todo[p]) = "resultErrors"
  <2>1. report' = [report EXCEPT ![p].error = TRUE]
    BY <1>5 DEF Raise
  <2>2. report'[p].error /\ report'[p].status = report[p].status
    BY <1>1, <1>4, <2>1
  <2> QED
    BY <1>3, <1>5, <2>2
<1>6. CASE CaughtBy(todo[p]) # "resultErrors"
  <2>1. report' = [report EXCEPT ![p].status = "crashed"] \/ report' = report
    BY <1>6 DEF Raise
  <2>2. report'[p].error = report[p].error /\ report'[p].status \in {report[p].status, "crashed"}
    BY <1>1, <1>4, <2>1
  <2> QED
    BY <1>3, <1>6, <2>2
<1> QED
  BY <1>5, <1>6

\* A step before the command, failed or not.
LEMMA EarlyStep ==
    ASSUME Points, References, NEW p \in Cli, Holding(p), todo[p] # <<>>, Early(todo[p]),
           Head(todo[p]) \notin {"new", "list", "notFound"}, Continue(p) \/ Raise(p),
           ~entered'[p], cur'[p] = cur[p], counter'[cur[p]] = 0, answer'[p] = answer[p]
    PROVE  Holding(p)'
<1>1. /\ cur[p] \in Client /\ Len(todo[p]) > 0
      /\ report[p].status \notin {"idle", "printed"}
      /\ todo[p] \notin {Closing, Printing} => answer[p] = "none" /\ ~report[p].error
  BY Running
<1>2. answer[p] = "none" /\ ~report[p].error
  BY <1>1, EarlyIsOutside
<1>3. CASE Continue(p)
  <2> DEFINE t == Trim(Tail(todo[p]))
  <2>1. todo'[p] = t /\ report'[p] = report[p]
    BY <1>3, CliContinues
  <2>2. Early(t)
    BY <1>1, EarlyGoesOn
  <2> HIDE DEF t
  <2>3. Arrives(p, t)
    BY <1>1, <2>1 DEF Arrives
  <2> QED
    BY <1>2, <2>1, <2>2, <2>3, EarlyHolds
<1>4. CASE Raise(p)
  <2> DEFINE t == AfterRaise(todo[p])
  <2>1. CaughtBy(todo[p]) # "resultErrors" /\ Early(t)
    BY EarlyRaises
  <2>2. todo'[p] = t /\ report'[p].status \in {report[p].status, "crashed"} /\ report'[p].error = report[p].error
    BY <1>4, <2>1, CliRaises
  <2> HIDE DEF t
  <2>3. Arrives(p, t)
    BY <1>1, <2>2 DEF Arrives
  <2> QED
    BY <1>2, <2>1, <2>2, <2>3, EarlyHolds
<1> QED
  BY <1>3, <1>4

\* The command fails.
LEMMA CommandFails ==
    ASSUME Points, References, NEW p \in Cli, Holding(p), todo[p] # <<>>, Commanding(todo[p]), Raise(p),
           ~entered'[p], cur'[p] = cur[p], counter'[cur[p]] \in {0, 1}, answer'[p] = answer[p]
    PROVE  Holding(p)'
<1>1. CommandStep(todo[p])
  BY CommandGoesOn
<1>2. /\ Head(todo[p]) \notin {"new", "close", "print"} /\ Len(todo[p]) > 0
      /\ CaughtBy(todo[p]) = "resultErrors" /\ AfterRaise(todo[p]) = Closing
  BY <1>1 DEF CommandStep
<1>3. todo[p] \notin {Closing, Printing}
  BY <1>2 DEF Closing, Printing
<1>4. /\ cur[p] \in Client
      /\ report[p].status \notin {"idle", "printed"}
      /\ todo[p] \notin {Closing, Printing} => answer[p] = "none" /\ ~report[p].error
  BY <1>2, Running
<1>5. todo'[p] = Closing /\ report'[p].status \in {report[p].status, "crashed"} /\ report'[p].error
  BY <1>2, CliRaises
<1>6. Arrives(p, Closing)
  BY <1>4, <1>5 DEF Arrives
<1>7. answer'[p] = "none"
  BY <1>3, <1>4
<1>8. (answer'[p] = "none") = report'[p].error
  <2>1. report'[p].error \in BOOLEAN
    <3>1. p \in Proc
      BY DEF Proc
    <3>2. report'[p] \in [status : {"idle", "running", "printed", "crashed"}, error : BOOLEAN]
      BY <3>1, RaiseMoves
    <3> QED
      BY <3>2
  <2> QED
    BY <1>5, <1>7, <2>1
<1> QED
  BY <1>6, <1>7, <1>8, ClosingHolds

\* A call is over: its close() has been tried.
CallEnds(p, call) ==
    /\ At(p, call)
    /\ entered[p]
    /\ Close(cur[p]) \/ CloseRaises(cur[p])
    /\ entered' = [entered EXCEPT ![p] = FALSE]
    /\ UNCHANGED <<cur, answer>>

\* A call of a command line process closes its session: what is left is the
\* session that prompt_pin opened by hand.
LEMMA CliCalls ==
    ASSUME BalanceInv, Points, NEW p \in Cli, Holding(p), NEW call \in Calls, CallEnds(p, call)
    PROVE  /\ todo[p] # <<>> /\ Head(todo[p]) = call /\ cur[p] \in Client
           /\ ~entered'[p] /\ cur'[p] = cur[p] /\ answer'[p] = answer[p]
           /\ counter'[cur[p]] = (IF Inside(todo[p]) THEN 1 ELSE 0)
           /\ handle'[cur[p]] # "opened"
           /\ Early(todo[p]) \/ Commanding(todo[p])
<1>i. Balanced /\ References
  BY DEF BalanceInv
<1>1. todo[p] # <<>> /\ Head(todo[p]) = call /\ entered[p] /\ (Close(cur[p]) \/ CloseRaises(cur[p]))
      /\ UNCHANGED <<cur, answer>> /\ entered' = [entered EXCEPT ![p] = FALSE]
  BY DEF CallEnds, At
<1>2. call \notin {"new", "close", "print"}
  BY DEF Calls
<1>3. p \in Proc /\ cur[p] \in Client /\ (todo[p] \in {Closing, Printing} \/ Early(todo[p]) \/ Commanding(todo[p]))
  BY <1>i, <1>1, <1>2, Running
<1>4. todo[p] # Closing /\ todo[p] # Printing
  BY <1>1, <1>2 DEF Closing, Printing
<1>5. ~entered'[p]
  BY <1>1, <1>3 DEF Points, Control
<1>6. counter[cur[p]] = (IF Inside(todo[p]) THEN 2 ELSE 1)
  <2>1. counter[cur[p]] \in Nat
    BY <1>i, <1>3 DEF Balanced, SessionType
  <2>2. counter[cur[p]] >= 1 /\ (Inside(todo[p]) => counter[cur[p]] >= 2)
    BY <1>1 DEF Holding, Sessions
  <2>3. cur[p] # NoClient
    BY <1>3, ClientAssumption
  <2>4. counter[cur[p]] <= 1 + (IF Inside(todo[p]) THEN 1 ELSE 0)
    BY <1>1, <1>4, <2>3 DEF Holding, Bounded
  <2> QED
    BY <2>1, <2>2, <2>4
<1>7. counter'[cur[p]] = counter[cur[p]] - 1
  BY <1>i, <1>1, <1>3, <1>6 DEF Close, CloseRaises, CountClose, Decrement, Balanced, SessionType
<1>8. counter'[cur[p]] = (IF Inside(todo[p]) THEN 1 ELSE 0)
  BY <1>6, <1>7
<1>9. handle'[cur[p]] # "opened"
  <2>1. handle[cur[p]] = "claimed"
    BY <1>i, <1>3, <1>6, OpenClaims
  <2> QED
    BY <1>i, <1>1, <1>3, <2>1 DEF Close, CloseRaises, Balanced, SessionType
<1> QED
  BY <1>1, <1>3, <1>4, <1>5, <1>8, <1>9

\* A call of the command succeeds.
LEMMA CommandCalls ==
    ASSUME BalanceInv, Points, NEW p \in Cli, Holding(p), NEW call \in Calls, Calling(p, call), Continue(p),
           call = "initLocked" => dev' # "unlocked"
    PROVE  Holding(p)'
<1>i. Balanced /\ References
  BY DEF BalanceInv
<1>c. call \notin {"new", "list", "notFound", "open", "prompt", "ack", "xpub", "close", "print"}
  BY DEF Calls
<1>1. /\ todo[p] # <<>> /\ Head(todo[p]) = call /\ cur[p] \in Client
      /\ ~entered'[p] /\ cur'[p] = cur[p] /\ answer'[p] = answer[p]
      /\ counter'[cur[p]] = (IF Inside(todo[p]) THEN 1 ELSE 0)
      /\ handle'[cur[p]] # "opened"
      /\ Early(todo[p]) \/ Commanding(todo[p])
  BY CliCalls DEF CallEnds, Calling
<1>2. CASE Early(todo[p])
  <2>1. ~Inside(todo[p])
    BY <1>2, EarlyIsOutside
  <2>2. counter'[cur[p]] = 0
    BY <1>1, <2>1
  <2> QED
    BY <1>i, <1>c, <1>1, <1>2, <2>2, EarlyStep
<1>3. CASE Commanding(todo[p])
  <2> DEFINE t == Trim(Tail(todo[p]))
  <2>1. CommandStep(todo[p])
    BY <1>3, CommandGoesOn
  <2>2. Commanding(t) /\ Within(todo[p], t) /\ Head(todo[p]) = call
    BY <1>c, <1>1, <2>1 DEF CommandStep
  <2>3. todo'[p] = t /\ report'[p] = report[p]
    BY <1>1, CliContinues
  <2>4. todo[p] \notin {Closing, Printing}
    BY <1>c, <1>1 DEF Closing, Printing
  <2>5. report[p].status \notin {"idle", "printed"} /\ answer[p] = "none" /\ ~report[p].error
    BY <1>i, <1>c, <1>1, <2>4, Running
  <2> HIDE DEF t
  <2>6. Arrives(p, t)
    BY <1>1, <2>3, <2>5 DEF Arrives
  <2>7. /\ Inside(t) = Inside(todo[p])
        /\ Head(t) = "prompt" => call = "initLocked"
    BY <1>c, <2>2 DEF Within, Inside
  <2>8. counter'[cur'[p]] = (IF Inside(t) THEN 1 ELSE 0)
    BY <1>1, <2>7
  <2> QED
    BY <1>1, <2>2, <2>3, <2>5, <2>6, <2>7, <2>8, CommandHolds
<1> QED
  BY <1>1, <1>2, <1>3

\* A call fails, before the command or in it.
LEMMA CallFails ==
    ASSUME BalanceInv, Points, NEW p \in Cli, Holding(p), NEW call \in Calls, CallEnds(p, call), Raise(p)
    PROVE  Holding(p)'
<1>i. Balanced /\ References
  BY DEF BalanceInv
<1>c. call \notin {"new", "list", "notFound"}
  BY DEF Calls
<1>1. /\ todo[p] # <<>> /\ Head(todo[p]) = call /\ cur[p] \in Client
      /\ ~entered'[p] /\ cur'[p] = cur[p] /\ answer'[p] = answer[p]
      /\ counter'[cur[p]] = (IF Inside(todo[p]) THEN 1 ELSE 0)
      /\ Early(todo[p]) \/ Commanding(todo[p])
  BY CliCalls
<1>2. CASE Early(todo[p])
  <2>1. counter'[cur[p]] = 0
    BY <1>1, <1>2, EarlyIsOutside
  <2> QED
    BY <1>i, <1>c, <1>1, <1>2, <2>1, EarlyStep
<1>3. CASE Commanding(todo[p])
  <2>1. counter'[cur[p]] \in {0, 1}
    BY <1>1
  <2> QED
    BY <1>i, <1>1, <1>3, <2>1, CommandFails
<1> QED
  BY <1>1, <1>2, <1>3

\* A new client has no session.
LEMMA NewHolds ==
    ASSUME BalanceInv, Points, NEW p \in Cli, Holding(p), New(p)
    PROVE  Holding(p)'
<1>i. References /\ p \in Proc /\ p # Gui
  BY ProcAssumption DEF BalanceInv, Proc
<1>1. At(p, "new") /\ Reset(Unused) /\ Continue(p) /\ UNCHANGED <<entered, answer>>
  BY DEF New
<1>2. PICK c \in Unused : cur' = [cur EXCEPT ![p] = c]
  BY DEF New
<1>3. /\ todo[p] \in Seq(Words) /\ Len(todo[p]) > 0
      /\ Head(todo[p]) = "new" /\ todo[p] # <<>>
  BY <1>i, <1>1, AtStep
<1>4. Point(p, todo[p])
  BY <1>i DEF Points
<1>5. Early(todo[p])
  BY <1>i, <1>3, <1>4, LoosePoint
<1> DEFINE t == Trim(Tail(todo[p]))
<1>6. Early(t)
  BY <1>3, <1>5, EarlyGoesOn
<1>7. todo'[p] = t /\ report'[p] = report[p]
  BY <1>1, <1>3, CliContinues
<1> HIDE DEF t
<1>8. cur'[p] = c /\ c \in Client
  BY <1>i, <1>2, UnusedIsFree DEF References
<1>9. counter'[c] = 0
  BY <1>1, <1>8 DEF Reset
<1>10. ~entered[p] /\ report[p].status \notin {"idle", "printed"}
  BY <1>3 DEF Holding, Sessions, Answers, Calls
<1>11. answer[p] = "none" /\ ~report[p].error
  <2>1. todo[p] \notin {Closing, Printing}
    BY <1>5, EarlyIsOutside
  <2> QED
    BY <1>3, <2>1 DEF Holding, Answers
<1>12. Arrives(p, t)
  BY <1>1, <1>7, <1>8, <1>10 DEF Arrives
<1> QED
  BY <1>1, <1>6, <1>7, <1>8, <1>9, <1>11, <1>12, EarlyHolds

\* open() by hand, open() on the way into a call, and an open() that finds the
\* interface taken.
LEMMA OpenHolds ==
    ASSUME BalanceInv, Points, NEW p \in Cli, Holding(p), OpenClient(p)
    PROVE  Holding(p)'
<1>i. Balanced /\ References /\ p \in Proc
  BY DEF BalanceInv, Proc
<1>a. \/ At(p, "open")
      \/ \E call \in Calls : At(p, call) /\ ~entered[p]
  BY DEF OpenClient
<1>1. todo[p] # <<>> /\ (Head(todo[p]) = "open" \/ (Head(todo[p]) \in Calls /\ ~entered[p]))
  BY <1>a DEF At
<1>2. Head(todo[p]) \notin {"new", "list", "notFound", "close", "print"}
  BY <1>1 DEF Calls
<1>3. /\ cur[p] \in Client
      /\ todo[p] \in Seq(Words) /\ Len(todo[p]) > 0
      /\ report[p].status \notin {"idle", "printed"}
      /\ todo[p] \in {Closing, Printing} \/ Early(todo[p]) \/ Commanding(todo[p])
      /\ todo[p] \notin {Closing, Printing} => answer[p] = "none" /\ ~report[p].error
      /\ Head(todo[p]) \notin Calls => ~entered[p]
  BY <1>i, <1>1, <1>2, Running
<1>4. todo[p] # Closing /\ todo[p] # Printing
  BY <1>2 DEF Closing, Printing
<1>5. ~entered[p]
  BY <1>1, <1>3 DEF Calls
<1>6. UNCHANGED <<dev, cur, answer>> /\ cur[p] # NoClient
  BY <1>3, ClientAssumption DEF OpenClient
<1>n. counter \in [Client -> Nat] /\ counter[cur[p]] \in Nat
  BY <1>i, <1>3 DEF Balanced, SessionType
<1>7. CASE OpenRaises(cur[p]) /\ Raise(p) /\ UNCHANGED entered
  <2>1. counter'[cur[p]] = 0
    BY <1>7 DEF OpenRaises, OpensHandle
  <2>2. CASE Early(todo[p])
    BY <1>i, <1>1, <1>2, <1>5, <1>6, <1>7, <2>1, <2>2, EarlyStep
  <2>3. CASE Commanding(todo[p])
    BY <1>i, <1>1, <1>5, <1>6, <1>7, <2>1, <2>3, CommandFails
  <2> QED
    BY <1>3, <1>4, <2>2, <2>3
<1>8. CASE Open(cur[p]) /\ At(p, "open") /\ Continue(p) /\ UNCHANGED entered
  <2> DEFINE t == Trim(Tail(todo[p]))
  <2>1. Head(todo[p]) = "open"
    BY <1>8 DEF At
  <2>2. Commanding(todo[p])
    BY <1>1, <1>3, <1>4, <2>1, EarlyIsOutside
  <2>3. CommandStep(todo[p])
    BY <2>2, CommandGoesOn
  <2>4. Commanding(t) /\ Within(todo[p], t)
    BY <2>1, <2>3 DEF CommandStep
  <2>5. todo'[p] = t /\ report'[p] = report[p]
    BY <1>1, <1>8, CliContinues
  <2> HIDE DEF t
  <2>6. ~Inside(todo[p]) /\ Inside(t) /\ Head(t) # "prompt" /\ Head(t) # "xpub"
    BY <2>1, <2>4 DEF Within
  <2>7. counter[cur[p]] = 0
    <3>1. counter[cur[p]] <= 0
      BY <1>4, <1>5, <1>6, <2>6 DEF Holding, Bounded
    <3> QED
      BY <1>n, <3>1
  <2>8. counter'[cur[p]] = 1
    BY <1>n, <1>3, <1>8, <2>7 DEF Open
  <2>9. Arrives(p, t)
    BY <1>3, <1>5, <1>6, <1>8, <2>5 DEF Arrives
  <2>10. counter'[cur'[p]] = (IF Inside(t) THEN 1 ELSE 0)
    BY <1>6, <2>6, <2>8
  <2> QED
    BY <1>3, <1>4, <1>6, <2>4, <2>5, <2>6, <2>9, <2>10, CommandHolds
<1>9. CASE Open(cur[p]) /\ ~At(p, "open") /\ entered' = [entered EXCEPT ![p] = TRUE] /\ UNCHANGED <<todo, report>>
  <2>1. Head(todo[p]) \in Calls
    BY <1>1, <1>9 DEF At
  <2>2. Head(todo[p]) \notin {"xpub", "prompt"}
    BY <2>1 DEF Calls
  <2>3. counter'[cur[p]] = counter[cur[p]] + 1
    BY <1>n, <1>3, <1>9 DEF Open
  <2>4. entered'[p]
    BY <1>i, <1>9 DEF Points, Control
  <2>5. Inside(todo[p]) => counter[cur[p]] >= 1
    BY <1>5 DEF Holding, Sessions
  <2>6. counter[cur[p]] <= (IF Inside(todo[p]) THEN 1 ELSE 0)
    BY <1>4, <1>5, <1>6 DEF Holding, Bounded
  <2>7. UNCHANGED <<todo, cur, report, answer>>
    BY <1>6, <1>9
  <2>8. Sessions(p)'
    <3>1. counter'[cur[p]] >= 1 /\ (Inside(todo[p]) => counter'[cur[p]] >= 2)
      BY <1>n, <2>3, <2>5
    <3> QED
      BY <1>1, <1>6, <2>1, <2>4, <2>7, <3>1 DEF Sessions
  <2>9. Bounded(p)'
    <3>1. counter'[cur[p]] <= 1 + (IF Inside(todo[p]) THEN 1 ELSE 0)
      BY <1>n, <2>3, <2>6
    <3> QED
      BY <1>4, <2>4, <2>7, <3>1 DEF Bounded
  <2>10. Answers(p)'
    BY <1>4, <2>2, <2>7 DEF Holding, Answers, At
  <2>11. Pins(p)'
    BY <1>4, <2>2, <2>7 DEF Pins, At
  <2> QED
    BY <2>8, <2>9, <2>10, <2>11 DEF Holding
<1>10. \/ OpenRaises(cur[p]) /\ Raise(p) /\ UNCHANGED entered
       \/ Open(cur[p]) /\ At(p, "open") /\ Continue(p) /\ UNCHANGED entered
       \/ Open(cur[p]) /\ ~At(p, "open") /\ entered' = [entered EXCEPT ![p] = TRUE] /\ UNCHANGED <<todo, report>>
  BY <1>6 DEF OpenClient
<1> QED
  BY <1>7, <1>8, <1>9, <1>10

\* prompt_pin and send_pin talk to the device through the session they opened.
LEMMA PinHolds ==
    ASSUME BalanceInv, Points, NEW p \in Cli, Holding(p),
           Prompt(p) \/ Ack(p) \/ (Disconnected(p) /\ (At(p, "prompt") \/ At(p, "ack")))
    PROVE  Holding(p)'
<1>i. Balanced /\ References /\ p \in Proc
  BY DEF BalanceInv, Proc
<1>d. ASSUME Disconnected(p), At(p, "prompt") \/ At(p, "ack")
      PROVE  /\ UNCHANGED <<sessionVars, cur, answer>> /\ Raise(p)
             /\ entered' = [entered EXCEPT ![p] = FALSE]
  <2>1. ~\E call \in Calls : At(p, call)
    BY <1>d DEF At, Calls
  <2> QED
    BY <1>d, <2>1 DEF Disconnected
<1>1. /\ todo[p] # <<>> /\ Head(todo[p]) \in {"prompt", "ack"} /\ UNCHANGED <<sessionVars, cur>>
      /\ UNCHANGED entered \/ entered' = [entered EXCEPT ![p] = FALSE]
  BY <1>d DEF Prompt, Ack, At
<1>2. /\ cur[p] \in Client
      /\ report[p].status \notin {"idle", "printed"}
      /\ todo[p] \in {Closing, Printing} \/ Early(todo[p]) \/ Commanding(todo[p])
      /\ todo[p] \notin {Closing, Printing} => answer[p] = "none" /\ ~report[p].error
      /\ Head(todo[p]) \notin Calls => ~entered[p]
  BY <1>i, <1>1, Running
<1>3. todo[p] # Closing /\ todo[p] # Printing
  BY <1>1 DEF Closing, Printing
<1>4. ~entered[p] /\ ~entered'[p] /\ answer[p] = "none" /\ ~report[p].error
  BY <1>i, <1>1, <1>2, <1>3 DEF Calls, Points, Control
<1>5. Commanding(todo[p])
  BY <1>1, <1>2, <1>3, EarlyIsOutside
<1>6. CommandStep(todo[p])
  BY <1>5, CommandGoesOn
<1>7. Inside(todo[p])
  BY <1>1 DEF Inside
<1>8. counter[cur[p]] = 1
  <2>1. counter[cur[p]] \in Nat /\ cur[p] # NoClient
    BY <1>i, <1>2, ClientAssumption DEF Balanced, SessionType
  <2>2. counter[cur[p]] >= 1
    BY <1>4, <1>7 DEF Holding, Sessions
  <2>3. counter[cur[p]] <= 1
    BY <1>3, <1>4, <1>7, <2>1 DEF Holding, Bounded
  <2> QED
    BY <2>1, <2>2, <2>3
<1>9. handle[cur[p]] = "claimed" /\ (plugged => claim = cur[p])
  BY <1>i, <1>2, <1>8, OpenClaims
<1>10. counter'[cur[p]] = 1 /\ (plugged => claim' = cur[p]) /\ handle'[cur[p]] = "claimed" /\ cur'[p] = cur[p]
  BY <1>1, <1>8, <1>9 DEF sessionVars
<1>11. ASSUME plugged, Continue(p), answer'[p] # "none", answer'[p] = "prompted" => dev' = "prompting" PROVE Holding(p)'
  <2>1. todo'[p] = Closing /\ report'[p] = report[p]
    BY <1>1, <1>6, <1>11, CliContinues DEF CommandStep
  <2>2. Arrives(p, Closing)
    BY <1>2, <1>4, <1>10, <2>1 DEF Arrives
  <2>3. (answer'[p] = "none") = report'[p].error
    BY <1>i, <1>4, <1>11, <2>1 DEF Points, Control
  <2> QED
    BY <1>10, <1>11, <2>2, <2>3, ClosingHolds
<1>12. ASSUME Raise(p), UNCHANGED answer PROVE Holding(p)'
  BY <1>i, <1>1, <1>4, <1>5, <1>10, <1>12, CommandFails
<1>13. CASE Prompt(p)
  <2>1. plugged /\ Continue(p) /\ answer' = [answer EXCEPT ![p] = "prompted"] /\ At(p, "prompt")
    BY <1>13 DEF Prompt
  <2>2. answer'[p] = "prompted"
    BY <1>i, <2>1 DEF Points, Control
  <2>3. dev # "unlocked" /\ dev \in {"locked", "prompting", "unlocked"}
    BY <2>1 DEF Holding, Pins, Points, Control
  <2>4. dev' = "prompting"
    BY <1>13, <2>3 DEF Prompt
  <2> QED
    BY <1>11, <2>1, <2>2, <2>4
<1>14. CASE Ack(p)
  <2>1. (Raise(p) /\ UNCHANGED answer) \/ (Continue(p) /\ \E a \in {"accepted", "refused"} : answer' = [answer EXCEPT ![p] = a])
    BY <1>14 DEF Ack
  <2>2. CASE Continue(p) /\ \E a \in {"accepted", "refused"} : answer' = [answer EXCEPT ![p] = a]
    <3>1. plugged /\ answer'[p] \in {"accepted", "refused"}
      BY <1>i, <1>14, <2>2 DEF Ack, Points, Control
    <3> QED
      BY <1>11, <2>2, <3>1
  <2> QED
    BY <1>12, <2>1, <2>2
<1> QED
  BY <1>d, <1>12, <1>13, <1>14

\* enumerate notes the model or the fingerprint.
LEMMA NotesHold ==
    ASSUME BalanceInv, Points, NEW p \in Cli, Holding(p), Describe(p) \/ Fingerprint(p)
    PROVE  Holding(p)'
<1>i. Balanced /\ References /\ p \in Proc /\ p # Gui
  BY ProcAssumption DEF BalanceInv, Proc
<1>1. PICK step \in {"initModel", "fingerprint"} : At(p, step)
  BY DEF Describe, Calling, Fingerprint
<1>2. /\ todo[p] \in Seq(Words) /\ Len(todo[p]) > 0
      /\ Head(todo[p]) = step /\ todo[p][1] = step /\ todo[p] # <<>>
  BY <1>i, <1>1, AtStep
<1>3. Early(todo[p])
  <2>1. Point(p, todo[p])
    BY <1>i DEF Points
  <2> QED
    BY <1>i, <1>2, <2>1, LoosePoint
<1>4. /\ cur[p] \in Client
      /\ report[p].status \notin {"idle", "printed"}
      /\ todo[p] \notin {Closing, Printing} => answer[p] = "none" /\ ~report[p].error
      /\ Head(todo[p]) \notin Calls => ~entered[p]
  BY <1>i, <1>2, Running
<1>5. ~Inside(todo[p]) /\ answer[p] = "none" /\ ~report[p].error /\ todo[p] # Closing
  BY <1>3, <1>4, EarlyIsOutside
<1>6. UNCHANGED <<cur, answer, report>>
  BY DEF Describe, Calling, Fingerprint
<1>7. ~entered'[p] /\ counter'[cur[p]] = 0
  <2>1. CASE Describe(p)
    <3>1. CallEnds(p, "initModel") /\ "initModel" \in Calls
      BY <2>1 DEF Describe, Calling, CallEnds, Calls
    <3> QED
      BY <1>5, <3>1, CliCalls
  <2>2. CASE Fingerprint(p)
    <3>1. Head(todo[p]) = "fingerprint" /\ UNCHANGED <<entered, sessionVars>>
      BY <2>2 DEF Fingerprint, At
    <3>2. ~entered[p]
      BY <1>4, <3>1 DEF Calls
    <3>3. counter[cur[p]] <= 0
      BY <1>4, <1>5, <3>2, ClientAssumption DEF Holding, Bounded
    <3>4. counter[cur[p]] \in Nat
      BY <1>i, <1>4 DEF Balanced, SessionType
    <3>5. counter[cur[p]] = 0
      BY <3>3, <3>4
    <3> QED
      BY <3>1, <3>2, <3>5 DEF sessionVars
  <2> QED
    BY <2>1, <2>2
<1>8. PICK t : Early(t) /\ todo'[p] = t
  <2>1. Early(AfterRaise(todo[p]))
    BY <1>3, EarlyRaises
  <2>2. Early(Trim(Tail(todo[p])))
    BY <1>2, <1>3, EarlyGoesOn
  <2>3. Early(Tail(todo[p]))
    <3>1. Drops(todo[p], Tail(todo[p]), 1)
      BY <1>2, TailDrops
    <3>2. todo[p][1] \notin {"list", "notFound"} /\ 1 > 0
      BY <1>2
    <3> QED
      BY <1>3, <3>1, <3>2, EarlySuffix
  <2>4. todo'[p] \in {AfterRaise(todo[p]), Trim(Tail(todo[p])), Tail(todo[p])}
    BY <1>i DEF Describe, Fingerprint, Points, Control
  <2> QED
    BY <2>1, <2>2, <2>3, <2>4
<1>9. Arrives(p, t)
  BY <1>4, <1>6, <1>7, <1>8 DEF Arrives
<1> QED
  BY <1>5, <1>6, <1>7, <1>8, <1>9, EarlyHolds

\* close() after the command, and after the device was listed.
LEMMA CloseHolds ==
    ASSUME BalanceInv, Points, NEW p \in Cli, Holding(p), CloseClient(p)
    PROVE  Holding(p)'
<1>i. Balanced /\ References /\ p \in Proc
  BY DEF BalanceInv, Proc
<1>1. todo[p] # <<>> /\ Head(todo[p]) = "close" /\ UNCHANGED <<cur, entered, answer>>
  BY DEF CloseClient, At
<1>2. /\ cur[p] \in Client
      /\ report[p].status \notin {"idle", "printed"}
      /\ todo[p] \in {Closing, Printing} \/ Early(todo[p]) \/ Commanding(todo[p])
      /\ Head(todo[p]) \notin Calls => ~entered[p]
  BY <1>i, <1>1, Running
<1>3. ~entered[p] /\ ~entered'[p] /\ cur'[p] = cur[p] /\ answer'[p] = answer[p]
  BY <1>1, <1>2 DEF Calls
<1>4. todo[p] # Printing /\ ~Commanding(todo[p])
  BY <1>1, CommandGoesOn DEF Printing, CommandStep
<1>5. counter[cur[p]] \in {0, 1}
  <2>1. counter[cur[p]] \in Nat /\ cur[p] # NoClient
    BY <1>i, <1>2, ClientAssumption DEF Balanced, SessionType
  <2>2. counter[cur[p]] <= 1
    <3>1. counter[cur[p]] <= (IF Inside(todo[p]) \/ todo[p] = Closing THEN 1 ELSE 0)
      BY <1>3, <2>1 DEF Holding, Bounded
    <3> QED
      BY <2>1, <3>1
  <2> QED
    BY <2>1, <2>2
<1>6. counter'[cur[p]] = 0
  <2>1. CountClose(cur[p]) /\ counter \in [Client -> Nat]
    BY <1>i DEF CloseClient, Close, CloseRaises, Balanced, SessionType
  <2> QED
    BY <1>2, <1>5, <2>1 DEF CountClose, Decrement
<1>7. UNCHANGED plugged /\ (Continue(p) \/ (Raise(p) /\ ReleaseRaises(cur[p])))
  BY DEF CloseClient, Close, CloseRaises
<1>8. CASE Early(todo[p])
  BY <1>i, <1>1, <1>3, <1>6, <1>7, <1>8, EarlyStep
<1>9. CASE todo[p] = Closing
  <2>e. report \in [Proc -> [status : {"idle", "running", "printed", "crashed"}, error : BOOLEAN]]
    BY DEF Points, Control
  <2>1. answer[p] = "none" => report[p].error
    BY <1>9 DEF Holding, Answers
  <2>4. answer[p] # "none" /\ report[p].error => ~plugged
    BY <1>9 DEF Holding, Answers
  <2>2. CASE Continue(p)
    <3>1. todo'[p] = Printing /\ report'[p] = report[p]
      BY <1>1, <1>9, <2>2, ClosingEnds, CliContinues
    <3>2. Arrives(p, Printing)
      BY <1>2, <1>3, <3>1 DEF Arrives
    <3> QED
      BY <1>3, <1>6, <1>7, <2>1, <2>4, <3>1, <3>2, PrintingHolds
  <2>3. CASE Raise(p) /\ ReleaseRaises(cur[p])
    <3>1. answer[p] = "none" \/ ~plugged
      BY <1>9, <2>3 DEF Holding, Answers, ReleaseRaises
    <3>2. CaughtBy(todo[p]) = "resultErrors" /\ AfterRaise(todo[p]) = Printing
      BY <1>9, ClosingEnds
    <3>3. todo'[p] = Printing /\ report'[p].status \in {report[p].status, "crashed"} /\ report'[p].error
      BY <1>1, <2>3, <3>2, CliRaises
    <3>4. Arrives(p, Printing)
      BY <1>2, <1>3, <3>3 DEF Arrives
    <3> QED
      BY <1>3, <1>6, <1>7, <3>1, <3>3, <3>4, PrintingHolds
  <2> QED
    BY <1>7, <2>2, <2>3
<1> QED
  BY <1>2, <1>4, <1>8, <1>9

\* The steps of a client in a command line process.
LEMMA ClientStepHolds ==
    ASSUME BalanceInv, Points, NEW p \in Cli, Holding(p), ClientStep(p)
    PROVE  Holding(p)'
<1>c. {"refresh", "initUnlocked", "initLocked", "pubkey"} \subseteq Calls
  BY DEF Calls
<1>f. ASSUME NEW call \in Calls, Calling(p, call), Raise(p) PROVE Holding(p)'
  BY <1>f, CallFails DEF Calling, CallEnds
<1>1. CASE RefreshFeatures(p)
  <2>1. Calling(p, "refresh") /\ (Continue(p) \/ Raise(p))
    BY <1>1 DEF RefreshFeatures
  <2> QED
    BY <1>c, <1>f, <2>1, CommandCalls
<1>2. CASE CheckUnlocked(p)
  <2>1. Calling(p, "initUnlocked") /\ (Continue(p) \/ Raise(p))
    BY <1>2 DEF CheckUnlocked, InitDevice
  <2> QED
    BY <1>c, <1>f, <2>1, CommandCalls
<1>3. CASE CheckLocked(p)
  <2>1. Calling(p, "initLocked") /\ ((Continue(p) /\ dev # "unlocked") \/ Raise(p))
    BY <1>3 DEF CheckLocked, InitDevice
  <2>2. dev # "unlocked" => dev' # "unlocked"
    BY <1>3 DEF CheckLocked, InitDevice
  <2> QED
    BY <1>c, <1>f, <2>1, <2>2, CommandCalls
<1>4. CASE GetPublicNode(p)
  <2>1. Calling(p, "pubkey") /\ (Continue(p) \/ Raise(p))
    BY <1>4 DEF GetPublicNode
  <2> QED
    BY <1>c, <1>f, <2>1, CommandCalls
<1>5. CASE Disconnected(p)
  <2>1. \/ \E call \in Calls : CallEnds(p, call) /\ Raise(p)
        \/ At(p, "prompt") \/ At(p, "ack")
    BY <1>5 DEF Disconnected, CallEnds
  <2> QED
    BY <1>5, <2>1, CallFails, PinHolds
<1> QED
  BY <1>1, <1>2, <1>3, <1>4, <1>5, NewHolds, OpenHolds, PinHolds, NotesHold, CloseHolds DEF ClientStep

\* find_device and the choice of the command.
LEMMA FindHolds ==
    ASSUME BalanceInv, Points, NEW p \in Cli, Holding(p), Choose(p) \/ MatchModel(p) \/ Lookup(p) \/ Compare(p)
    PROVE  Holding(p)'
<1>i. Balanced /\ References /\ p \in Proc /\ p # Gui
  BY ProcAssumption DEF BalanceInv, Proc
<1>1. PICK step \in {"devices", "command", "matchModel", "lookup", "compare"} : At(p, step)
  BY DEF Choose, MatchModel, Lookup, Compare
<1>2. /\ todo[p] \in Seq(Words) /\ Len(todo[p]) > 0
      /\ Head(todo[p]) = step /\ todo[p] # <<>>
  BY <1>i, <1>1, AtStep
<1>3. Early(todo[p])
  <2>1. Point(p, todo[p])
    BY <1>i DEF Points
  <2> QED
    BY <1>i, <1>2, <2>1, LoosePoint
<1>4. /\ cur[p] \in Client
      /\ report[p].status \notin {"idle", "printed"}
      /\ todo[p] \notin {Closing, Printing} => answer[p] = "none" /\ ~report[p].error
      /\ Head(todo[p]) \notin Calls => ~entered[p]
  BY <1>i, <1>2, Running
<1>5. ~Inside(todo[p]) /\ answer[p] = "none" /\ ~report[p].error /\ todo[p] # Closing /\ ~entered[p]
  BY <1>2, <1>3, <1>4, EarlyIsOutside DEF Calls
<1>6. UNCHANGED <<sessionVars, cur, entered, answer>>
  BY DEF Choose, MatchModel, Lookup, Compare
<1>7. counter'[cur[p]] = 0
  <2>1. counter[cur[p]] \in Nat /\ cur[p] # NoClient
    BY <1>i, <1>4, ClientAssumption DEF Balanced, SessionType
  <2>2. counter[cur[p]] <= 0
    BY <1>5, <2>1 DEF Holding, Bounded
  <2>3. counter[cur[p]] = 0
    BY <2>1, <2>2
  <2> QED
    BY <1>6, <2>3 DEF sessionVars
<1>8. ASSUME NEW s, Replace(p, s)
      PROVE  todo'[p] = Trim(s) /\ report'[p] = report[p] /\ Arrives(p, Trim(s))
  <2>1. todo'[p] = Trim(s) /\ report'[p] = report[p]
    BY <1>i, <1>8 DEF Replace, Points, Control
  <2> QED
    BY <1>4, <1>5, <1>6, <2>1 DEF Arrives
<1>9. ASSUME NEW s, Replace(p, s), Early(Trim(s)) PROVE Holding(p)'
  <2>1. Arrives(p, Trim(s)) /\ report'[p] = report[p]
    BY <1>8, <1>9
  <2> QED
    BY <1>5, <1>6, <1>7, <1>9, <2>1, EarlyHolds
<1>10. ASSUME NEW s, Replace(p, s), Commanding(Trim(s)), ~Inside(Trim(s)), Head(Trim(s)) \in {"open", "refresh"}
       PROVE  Holding(p)'
  <2>1. Arrives(p, Trim(s)) /\ report'[p] = report[p]
    BY <1>8, <1>10
  <2> QED
    BY <1>5, <1>6, <1>7, <1>10, <2>1, CommandHolds
<1>11. CASE Choose(p)
  <2>1. CASE \E steps \in WithDevices : Replace(p, steps)
    BY <2>1, <1>9, DevicePrograms
  <2>2. CASE \E body \in Bodies : Replace(p, DoCommand(body))
    BY <2>2, <1>10, CommandPrograms
  <2> QED
    BY <1>11, <2>1, <2>2 DEF Choose
<1>12. CASE MatchModel(p)
  <2>1. Continue(p) \/ Raise(p)
    BY <1>12 DEF MatchModel
  <2> QED
    BY <1>i, <1>2, <1>3, <1>5, <1>6, <1>7, <2>1, EarlyStep
<1>13. CASE Lookup(p)
  <2>1. PICK u \in {<<>>, GetXpub} : Replace(p, u \o Tail(todo[p]))
    BY <1>13 DEF Lookup
  <2>2. Head(todo[p]) = "lookup"
    BY <1>13 DEF Lookup, At
  <2>3. Early(Trim(u \o Tail(todo[p])))
    BY <1>2, <1>3, <2>2, LookupPrograms
  <2> QED
    BY <1>9, <2>1, <2>3
<1>14. CASE Compare(p)
  <2>1. CASE Continue(p)
    BY <1>i, <1>2, <1>3, <1>5, <1>6, <1>7, <2>1, EarlyStep
  <2>2. CASE Replace(p, <<"close", "except", "notFound", "print">>)
    BY <1>9, <2>2, ComparePrograms
  <2> QED
    BY <1>14, <2>1, <2>2 DEF Compare
<1> QED
  BY <1>11, <1>12, <1>13, <1>14

\* The result and the output.
LEMMA ReportHolds ==
    ASSUME BalanceInv, Points, NEW p \in Cli, Holding(p), Report(p)
    PROVE  Holding(p)'
<1>i. Balanced /\ References /\ p \in Proc
  BY DEF BalanceInv, Proc
<1>1. todo[p] # <<>> /\ Head(todo[p]) \in {"xpub", "list", "notFound", "print"}
  BY DEF Report, At
<1>2. UNCHANGED <<sessionVars, cur, entered>> /\ todo'[p] = Trim(Tail(todo[p]))
  BY <1>i DEF Report, Points, Control
<1>3. /\ cur[p] \in Client /\ Len(todo[p]) > 0
      /\ report[p].status \notin {"idle", "printed"}
      /\ todo[p] \in {Closing, Printing} \/ Early(todo[p]) \/ Commanding(todo[p])
      /\ todo[p] \notin {Closing, Printing} => answer[p] = "none" /\ ~report[p].error
      /\ Head(todo[p]) \notin Calls => ~entered[p]
  BY <1>i, <1>1, Running
<1>4. ~entered[p] /\ todo[p] # Closing /\ ~Inside(todo[p])
  BY <1>1, <1>3 DEF Calls, Closing, Inside
<1>5. counter'[cur[p]] = 0 /\ ~entered'[p] /\ cur'[p] = cur[p] /\ handle'[cur[p]] = handle[cur[p]]
  <2>1. counter[cur[p]] \in Nat /\ cur[p] # NoClient
    BY <1>i, <1>3, ClientAssumption DEF Balanced, SessionType
  <2>2. counter[cur[p]] <= 0
    BY <1>4, <2>1 DEF Holding, Bounded
  <2>3. counter[cur[p]] = 0
    BY <2>1, <2>2
  <2> QED
    BY <1>2, <1>4, <2>3 DEF sessionVars
<1>t. /\ answer \in [Proc -> {"none", "prompted", "accepted", "refused", "xpub", "list"}]
      /\ report \in [Proc -> [status : {"idle", "running", "printed", "crashed"}, error : BOOLEAN]]
  BY ControlTypes
<1>6. CASE Head(todo[p]) = "xpub"
  <2>1. answer' = [answer EXCEPT ![p] = "xpub"] /\ UNCHANGED report
    BY <1>6 DEF Report, At
  <2>2. answer'[p] = "xpub" /\ report'[p] = report[p]
    BY <1>i, <1>t, <2>1
  <2>3. todo[p] # Printing /\ Commanding(todo[p])
    BY <1>1, <1>3, <1>4, <1>6, EarlyIsOutside DEF Printing
  <2>4. todo'[p] = Closing
    BY <1>2, <1>6, <2>3, CommandGoesOn DEF CommandStep
  <2>5. Arrives(p, Closing)
    BY <1>3, <1>5, <2>2, <2>4 DEF Arrives
  <2>6. handle[cur[p]] # "opened"
    BY <1>1, <1>6 DEF Holding, Answers, At
  <2>7. (answer'[p] = "none") = report'[p].error
    BY <1>i, <1>t, <1>3, <1>4, <2>2, <2>3
  <2> QED
    BY <1>5, <2>2, <2>5, <2>6, <2>7, ClosingHolds
<1>7. CASE Head(todo[p]) \in {"list", "notFound"}
  <2>1. Early(todo[p])
    BY <1>3, <1>4, <1>7, CommandGoesOn DEF Printing, CommandStep
  <2>2. todo'[p] = Printing /\ answer[p] = "none" /\ ~report[p].error
    BY <1>2, <1>3, <1>7, <2>1, EarlyGoesOn, EarlyIsOutside
  <2>3. CASE Head(todo[p]) = "list"
    <3>1. answer' = [answer EXCEPT ![p] = "list"] /\ UNCHANGED report
      BY <2>3 DEF Report, At
    <3>2. answer'[p] = "list" /\ report'[p] = report[p] /\ report[p].error \in BOOLEAN
      BY <1>i, <1>t, <3>1
    <3>3. Arrives(p, Printing)
      BY <1>3, <1>5, <2>2, <3>2 DEF Arrives
    <3> QED
      BY <1>5, <2>2, <3>2, <3>3, PrintingHolds
  <2>4. CASE Head(todo[p]) = "notFound"
    <3>1. report' = [report EXCEPT ![p].error = TRUE] /\ UNCHANGED answer
      BY <2>4 DEF Report, At
    <3>2. report'[p].error = TRUE /\ report'[p].status = report[p].status /\ answer'[p] = "none"
      BY <1>i, <1>t, <2>2, <3>1
    <3>3. Arrives(p, Printing)
      BY <1>3, <1>5, <2>2, <3>2 DEF Arrives
    <3> QED
      BY <1>5, <3>2, <3>3, PrintingHolds
  <2> QED
    BY <1>7, <2>3, <2>4
<1>8. CASE Head(todo[p]) = "print"
  <2>1. todo[p] = Printing
    BY <1>1, <1>3, <1>4, <1>8, EarlyIsOutside, CommandGoesOn DEF CommandStep
  <2>2. todo'[p] = <<>>
    BY <1>2, <2>1, PrintingEnds
  <2>3. report' = [report EXCEPT ![p].status = "printed"]
    BY <1>8 DEF Report, At
  <2>4. report'[p].status = "printed"
    BY <1>i, <1>t, <2>3
  <2>5. ~Inside(<<>>) /\ <<>> # Closing /\ <<>> # Printing
    BY DEF Inside, Closing, Printing
  <2>6. Sessions(p)'
    BY <1>5, <2>2, <2>5 DEF Sessions
  <2>7. Bounded(p)'
    BY <1>5, <2>2, <2>5 DEF Bounded
  <2>8. Answers(p)'
    BY <2>2, <2>4, <2>5 DEF Answers, At, CliPoint
  <2>9. Pins(p)'
    BY <2>2, <2>5 DEF Pins, At
  <2> QED
    BY <2>6, <2>7, <2>8, <2>9 DEF Holding
<1> QED
  BY <1>1, <1>6, <1>7, <1>8

\* A process starts and ends.
LEMMA LifeHolds ==
    ASSUME BalanceInv, Points, NEW p \in Cli, Holding(p), Start(p) \/ Exit(p)
    PROVE  Holding(p)'
<1>i. References /\ p \in Proc
  BY DEF BalanceInv, Proc
<1>t. /\ answer \in [Proc -> {"none", "prompted", "accepted", "refused", "xpub", "list"}]
      /\ report \in [Proc -> [status : {"idle", "running", "printed", "crashed"}, error : BOOLEAN]]
      /\ entered \in [Proc -> BOOLEAN] /\ cur \in [Proc -> Client \cup {NoClient}]
      /\ todo \in [Proc -> Seq(Words)]
  BY <1>i DEF Points, Control, References
<1>e. ~Inside(<<>>) /\ <<>> # Closing /\ <<>> # Printing
  BY DEF Inside, Closing, Printing
<1>1. CASE Start(p)
  <2>1. PICK program \in {<<"new", "command">>, Enumerate \o <<"devices">>} : todo' = [todo EXCEPT ![p] = Trim(program)]
    BY <1>1 DEF Start
  <2> DEFINE t == Trim(program)
  <2>2. Early(t) /\ t # <<>> /\ Head(t) = "new"
    BY StartPrograms
  <2>3. todo'[p] = t
    BY <1>i, <1>t, <2>1
  <2> HIDE DEF t
  <2>4. report[p].status = "idle" /\ report' = [report EXCEPT ![p].status = "running"] /\ UNCHANGED <<cur, entered, answer>>
    BY <1>1 DEF Start
  <2>5. report'[p].status = "running" /\ report'[p].error = report[p].error
    BY <1>i, <1>t, <2>4
  <2>6. cur[p] = NoClient /\ answer[p] = "none" /\ ~report[p].error /\ todo[p] = <<>>
    BY <2>4 DEF Holding, Answers
  <2>7. ~entered[p]
    BY <2>6 DEF Holding, Sessions
  <2>8. ~Inside(t) /\ t # Closing /\ t # Printing
    BY <2>2, EarlyIsOutside
  <2>9. Sessions(p)'
    BY <2>3, <2>4, <2>7, <2>8 DEF Sessions
  <2>10. Bounded(p)'
    BY <2>4, <2>6 DEF Bounded
  <2>11. Answers(p)'
    BY <2>2, <2>3, <2>4, <2>5, <2>6, <2>8 DEF Answers, At, CliPoint
  <2>12. Pins(p)'
    BY <2>2, <2>3, <2>8 DEF Pins, At
  <2> QED
    BY <2>9, <2>10, <2>11, <2>12 DEF Holding
<1>2. CASE Exit(p)
  <2>1. todo'[p] = <<>> /\ cur'[p] = NoClient /\ ~entered'[p]
    BY <1>i, <1>t, <1>2 DEF Exit
  <2>2. answer'[p] = "none" /\ report'[p] = [status |-> "idle", error |-> FALSE]
    BY <1>i, <1>t, <1>2 DEF Exit
  <2>3. Sessions(p)'
    BY <1>e, <2>1 DEF Sessions
  <2>4. Bounded(p)'
    BY <2>1 DEF Bounded
  <2>5. Answers(p)'
    <3>1. report'[p].status = "idle" /\ ~report'[p].error
      BY <2>2
    <3> QED
      BY <1>e, <2>1, <2>2, <3>1 DEF Answers, At, CliPoint
  <2>6. Pins(p)'
    BY <1>e, <2>1 DEF Pins, At
  <2> QED
    BY <2>3, <2>4, <2>5, <2>6 DEF Holding
<1> QED
  BY <1>1, <1>2

\* The steps of a command line process alone leave the others what they know.
LEMMA CliStepSpares ==
    ASSUME BalanceInv, Points, Owned, NEW p \in Cli,
           Choose(p) \/ MatchModel(p) \/ Lookup(p) \/ Compare(p) \/ Report(p) \/ Start(p) \/ Exit(p)
    PROVE  /\ \A q \in Cli \ {p} : Holding(q) => Holding(q)'
           /\ Guiding => Guiding'
<1>i. Balanced /\ References /\ p \in Proc /\ p # Gui /\ Gui \in Proc
  BY ProcAssumption, GuiIsProc DEF BalanceInv, Proc
<1>t. /\ todo \in [Proc -> Seq(Words)]
      /\ entered \in [Proc -> BOOLEAN]
      /\ answer \in [Proc -> {"none", "prompted", "accepted", "refused", "xpub", "list"}]
      /\ report \in [Proc -> [status : {"idle", "running", "printed", "crashed"}, error : BOOLEAN]]
      /\ cur \in [Proc -> Client \cup {NoClient}]
  BY <1>i DEF Points, Control, References
<1>1. UNCHANGED <<dev, gui>> /\ (UNCHANGED sessionVars \/ Reset({cur[p]}))
  BY DEF Choose, MatchModel, Lookup, Compare, Report, Start, Exit
<1>2. ASSUME NEW d \in Client, d # cur[p] PROVE Undisturbed(d)
  BY <1>i, <1>1, <1>2, ResetApart, SameApart
<1>3. ASSUME NEW q \in Proc, q # p
      PROVE  /\ todo'[q] = todo[q] /\ cur'[q] = cur[q] /\ entered'[q] = entered[q]
             /\ answer'[q] = answer[q] /\ report'[q] = report[q]
  <2>1. \E t : Moves(p, t)
    BY DEF Choose, MatchModel, Lookup, Compare, Report, Start, Exit, Continue, Replace, Raise, Moves
  <2>2. todo'[q] = todo[q]
    BY <1>t, <1>3, <2>1 DEF Moves
  <2>3. UNCHANGED cur \/ cur' = [cur EXCEPT ![p] = NoClient]
    BY DEF Choose, MatchModel, Lookup, Compare, Report, Start, Exit
  <2>4. UNCHANGED entered \/ entered' = [entered EXCEPT ![p] = FALSE]
    BY DEF Choose, MatchModel, Lookup, Compare, Report, Start, Exit
  <2>5. UNCHANGED answer \/ \E a : answer' = [answer EXCEPT ![p] = a]
    BY DEF Choose, MatchModel, Lookup, Compare, Report, Start, Exit
  <2>6. report'[q] = report[q]
    <3>1. CASE Raise(p)
      <4>1. \/ report' = [report EXCEPT ![p].error = TRUE]
            \/ report' = [report EXCEPT ![p].status = "crashed"]
            \/ report' = report
        BY <3>1 DEF Raise
      <4> QED
        BY <1>t, <1>3, <4>1
    <3>2. CASE ~Raise(p)
      <4>1. \/ UNCHANGED report
            \/ report' = [report EXCEPT ![p].error = TRUE]
            \/ \E s : report' = [report EXCEPT ![p].status = s]
            \/ report' = [report EXCEPT ![p] = [status |-> "idle", error |-> FALSE]]
        <5>1. CASE Choose(p) \/ MatchModel(p) \/ Lookup(p) \/ Compare(p)
          BY <3>2, <5>1 DEF Choose, MatchModel, Lookup, Compare, Continue, Replace
        <5>2. CASE Report(p)
          BY <5>2 DEF Report
        <5>3. CASE Start(p) \/ Exit(p)
          BY <5>3 DEF Start, Exit
        <5> QED
          BY <5>1, <5>2, <5>3
      <4> QED
        BY <1>t, <1>3, <4>1
    <3> QED
      BY <3>1, <3>2
  <2> QED
    BY <1>t, <1>3, <2>2, <2>3, <2>4, <2>5, <2>6
<1>4. ASSUME NEW q \in Cli \ {p}, Holding(q) PROVE Holding(q)'
  <2>1. q \in Proc /\ q # p /\ q \in Cli
    BY DEF Proc
  <2>2. ASSUME cur[q] # NoClient PROVE Undisturbed(cur[q])
    <3>1. cur[q] \in Client /\ cur[q] # cur[p]
      BY <1>t, <2>1, <2>2 DEF Owned, Own
    <3> QED
      BY <1>2, <3>1
  <2> QED
    BY <1>i, <1>3, <1>4, <2>1, <2>2, CliKept
<1>5. ASSUME Guiding PROVE Guiding'
  <2>1. ASSUME NEW d \in GuiRefs, d # NoClient PROVE Undisturbed(d)
    <3>1. d \in Client
      BY <1>i, <2>1, GuiFields DEF GuiRefs, References
    <3>2. d # cur[p]
      BY <2>1, OwnRefs DEF Owned
    <3> QED
      BY <1>2, <3>1, <3>2
  <2>2. /\ todo[Gui] # <<>> /\ cur[Gui] # NoClient => Undisturbed(cur[Gui])
        /\ gui.client # NoClient => Undisturbed(gui.client)
    BY <2>1 DEF GuiRefs
  <2>3. GuiPoint(todo[Gui]) /\ (gui.asking => todo[Gui] = <<>>)
    BY <1>5 DEF Guiding, GuiShape
  <2>4. /\ todo'[Gui] = todo[Gui] /\ cur'[Gui] = cur[Gui] /\ entered'[Gui] = entered[Gui]
        /\ answer'[Gui] = answer[Gui]
    BY <1>i, <1>3
  <2> QED
    BY <1>i, <1>1, <1>5, <2>2, <2>3, <2>4, GuiKept
<1> QED
  BY <1>4, <1>5

----------------------------------------------------------------------------
(* What the graphical interface knows after its own step                   *)

\* A slot that neither prompts nor sends a PIN.
LEMMA LooseHolds ==
    ASSUME NEW t, Loose(t), todo'[Gui] = t, ~entered'[Gui], answer'[Gui] # "prompted", gui'.asking => t = <<>>
    PROVE  Guiding'
<1>1. ~Inside(t) /\ t \notin PromptSlot
  BY LooseIsOutside, PromptSlotIsAlone
<1>2. t # <<>> => Head(t) # "prompt"
  BY <1>1 DEF Inside
<1>3. Sessions(Gui)'
  BY <1>1 DEF Sessions
<1>4. GuiShape'
  BY <1>1, <1>2 DEF GuiShape, GuiPoint, At
<1> QED
  BY <1>3, <1>4 DEF Guiding

\* A slot that prompts or sends a PIN has opened its client before it talks to
\* the device.
LEMMA SlotHolds ==
    ASSUME NEW t, GuiPoint(t), todo'[Gui] = t, ~entered'[Gui], answer'[Gui] # "prompted", gui'.asking => t = <<>>,
           Inside(t) => cur'[Gui] # NoClient /\ counter'[cur'[Gui]] >= 1,
           t # <<>> /\ Head(t) = "prompt" => dev' # "unlocked",
           t \in PromptSlot => cur'[Gui] = gui'.client
    PROVE  Guiding'
<1>1. Sessions(Gui)'
  BY DEF Sessions
<1>2. GuiShape'
  BY DEF GuiShape, At
<1> QED
  BY <1>1, <1>2 DEF Guiding

\* Where the GUI can be at a step of a client.
LEMMA GuiAt ==
    ASSUME Points, References, Guiding, todo[Gui] # <<>>, Head(todo[Gui]) # "showDialog"
    PROVE  /\ todo[Gui] \in Seq(Words) /\ Len(todo[Gui]) > 0
           /\ todo[Gui] \in PromptSlot \/ SendSlot(todo[Gui]) \/ Loose(todo[Gui])
           /\ answer[Gui] # "prompted" /\ ~gui.asking
           /\ Head(todo[Gui]) \notin Calls => ~entered[Gui]
           /\ cur[Gui] \in Client \cup {NoClient}
<1>1. todo[Gui] \in Seq(Words) /\ cur[Gui] \in Client \cup {NoClient}
  BY GuiIsProc DEF Points, Control, References
<1>2. Len(todo[Gui]) > 0
  BY <1>1
<1>3. todo[Gui] \in PromptSlot \/ SendSlot(todo[Gui]) \/ Loose(todo[Gui])
  BY DEF Guiding, GuiShape, GuiPoint
<1>4. answer[Gui] # "prompted" /\ ~gui.asking
  <2>1. Head(<<"showDialog">>) = "showDialog"
    OBVIOUS
  <2> QED
    BY <2>1 DEF Guiding, GuiShape
<1>5. Head(todo[Gui]) \notin Calls => ~entered[Gui]
  BY DEF Guiding, Sessions
<1> QED
  BY <1>1, <1>2, <1>3, <1>4, <1>5

\* Raising anywhere ends prompting and sending.
LEMMA GuiRaises ==
    ASSUME Points, References, Guiding, todo[Gui] # <<>>, Head(todo[Gui]) # "showDialog", Raise(Gui),
           ~entered'[Gui], answer'[Gui] # "prompted", gui'.asking = gui.asking
    PROVE  Guiding'
<1> DEFINE s == todo[Gui]
           t == AfterRaise(todo[Gui])
<1>1. /\ s \in Seq(Words) /\ Len(s) > 0
      /\ s \in PromptSlot \/ SendSlot(s) \/ Loose(s)
      /\ ~gui.asking
  BY GuiAt
<1>2. todo'[Gui] = t
  BY GuiIsProc, RaiseMoves DEF Moves, Points, Control
<1>3. Loose(t)
  <2>1. CASE s \in PromptSlot
    BY <2>1, PromptGoesOn, SlotEnds DEF PromptStep
  <2>2. CASE SendSlot(s)
    BY <2>2, SendGoesOn DEF SendStep
  <2>3. CASE Loose(s)
    BY <2>3, LooseGoesOn
  <2> QED
    BY <1>1, <2>1, <2>2, <2>3
<1> QED
  BY <1>1, <1>2, <1>3, LooseHolds

\* open() in the GUI.
LEMMA GuiOpens ==
    ASSUME BalanceInv, Points, Guiding, OpenClient(Gui)
    PROVE  Guiding'
<1> DEFINE s == todo[Gui]
           t == Trim(Tail(todo[Gui]))
<1>i. Balanced /\ References /\ Gui \in Proc
  BY GuiIsProc DEF BalanceInv
<1>a. \/ At(Gui, "open")
      \/ \E call \in Calls : At(Gui, call) /\ ~entered[Gui]
  BY DEF OpenClient
<1>1. s # <<>> /\ (Head(s) = "open" \/ (Head(s) \in Calls /\ ~entered[Gui]))
  BY <1>a DEF At
<1>2. Head(s) \notin {"showDialog", "prompt"}
  BY <1>1 DEF Calls
<1>3. /\ s \in Seq(Words) /\ Len(s) > 0
      /\ s \in PromptSlot \/ SendSlot(s) \/ Loose(s)
      /\ answer[Gui] # "prompted" /\ ~gui.asking
      /\ Head(s) \notin Calls => ~entered[Gui]
      /\ cur[Gui] \in Client \cup {NoClient}
  BY <1>i, <1>1, <1>2, GuiAt
<1>4. UNCHANGED <<dev, cur, answer, gui>> /\ ~entered[Gui]
  BY <1>1, <1>3 DEF OpenClient, Calls
<1>n. counter \in [Client -> Nat]
  BY <1>i DEF Balanced, SessionType
<1>5. CASE Raise(Gui) /\ UNCHANGED entered
  BY <1>i, <1>1, <1>2, <1>3, <1>4, <1>5, GuiRaises
<1>6. CASE cur[Gui] # NoClient /\ Open(cur[Gui]) /\ At(Gui, "open") /\ Continue(Gui) /\ UNCHANGED entered
  <2>1. Head(s) = "open" /\ todo'[Gui] = t
    BY <1>i, <1>6 DEF At, Continue, Replace, Points, Control
  <2>2. counter'[cur[Gui]] >= 1
    <3>1. cur[Gui] \in Client /\ counter[cur[Gui]] \in Nat
      BY <1>n, <1>3, <1>6
    <3>2. counter'[cur[Gui]] = counter[cur[Gui]] + 1
      BY <1>n, <1>6, <3>1 DEF Open
    <3> QED
      BY <3>1, <3>2
  <2>3. ~Loose(s)
    BY <1>3, <2>1 DEF Loose
  <2>4. GuiPoint(t) /\ Within(s, t) /\ (t \in PromptSlot => s \in PromptSlot)
    <3>1. CASE s \in PromptSlot
      BY <2>1, <3>1, PromptGoesOn DEF PromptStep, GuiPoint
    <3>2. CASE SendSlot(s)
      <4>1. SendSlot(t) /\ Within(s, t)
        BY <2>1, <3>2, SendGoesOn DEF SendStep
      <4>2. Head(t) = "ack"
        <5>1. Head(t) \in {"open", "ack"}
          BY <4>1, SendGoesOn DEF SendStep
        <5>2. Inside(t)
          BY <2>1, <4>1 DEF Within
        <5> QED
          BY <5>1, <5>2 DEF Inside
      <4>3. t \notin PromptSlot
        BY <4>2, PromptGoesOn DEF PromptStep
      <4> QED
        BY <4>1, <4>3 DEF GuiPoint
    <3> QED
      BY <1>3, <2>3, <3>1, <3>2
  <2>5. s \in PromptSlot => cur[Gui] = gui.client
    BY DEF Guiding, GuiShape
  <2> HIDE DEF t
  <2>6. Head(t) # "prompt"
    BY <2>1, <2>4 DEF Within
  <2>7. cur'[Gui] = cur[Gui] /\ gui' = gui /\ answer'[Gui] = answer[Gui] /\ ~entered'[Gui]
    BY <1>4, <1>6
  <2> QED
    BY <1>3, <1>6, <2>1, <2>2, <2>4, <2>5, <2>6, <2>7, SlotHolds
<1>7. CASE /\ cur[Gui] # NoClient /\ Open(cur[Gui]) /\ ~At(Gui, "open")
           /\ entered' = [entered EXCEPT ![Gui] = TRUE] /\ UNCHANGED <<todo, report>>
  <2>1. Head(s) \in Calls
    BY <1>1, <1>7 DEF At
  <2>2. cur[Gui] \in Client /\ counter[cur[Gui]] \in Nat
    BY <1>n, <1>3, <1>7
  <2>3. counter'[cur[Gui]] = counter[cur[Gui]] + 1
    BY <1>n, <1>7, <2>2 DEF Open
  <2>4. Inside(s) => counter[cur[Gui]] >= 1
    BY <1>4 DEF Guiding, Sessions
  <2>5. counter'[cur[Gui]] >= 1 /\ (Inside(s) => counter'[cur[Gui]] >= 2)
    BY <2>2, <2>3, <2>4
  <2>6. entered'[Gui]
    BY <1>i, <1>7 DEF Points, Control
  <2>7. UNCHANGED <<todo, cur, answer, gui>>
    BY <1>4, <1>7
  <2>8. Sessions(Gui)'
    BY <1>1, <1>7, <2>1, <2>5, <2>6, <2>7 DEF Sessions
  <2>9. GuiShape'
    BY <1>2, <1>3, <2>7 DEF Guiding, GuiShape, At
  <2> QED
    BY <2>8, <2>9 DEF Guiding
<1>8. \/ Raise(Gui) /\ UNCHANGED entered
      \/ cur[Gui] # NoClient /\ Open(cur[Gui]) /\ At(Gui, "open") /\ Continue(Gui) /\ UNCHANGED entered
      \/ /\ cur[Gui] # NoClient /\ Open(cur[Gui]) /\ ~At(Gui, "open")
         /\ entered' = [entered EXCEPT ![Gui] = TRUE] /\ UNCHANGED <<todo, report>>
  BY DEF OpenClient
<1> QED
  BY <1>5, <1>6, <1>7, <1>8

\* A call of the GUI succeeds or fails; what prompt_pin opened by hand stays
\* open.
LEMMA GuiCalls ==
    ASSUME BalanceInv, Points, Guiding, NEW call \in Calls, Calling(Gui, call),
           (Continue(Gui) /\ (call = "initLocked" => dev' # "unlocked")) \/ Raise(Gui)
    PROVE  Guiding'
<1> DEFINE s == todo[Gui]
           t == Trim(Tail(todo[Gui]))
<1>i. Balanced /\ References /\ Gui \in Proc
  BY GuiIsProc DEF BalanceInv
<1>c. call \notin {"open", "showDialog", "prompt", "ack"}
  BY DEF Calls
<1>1. /\ s # <<>> /\ Head(s) = call /\ entered[Gui] /\ cur[Gui] # NoClient /\ Close(cur[Gui])
      /\ UNCHANGED <<cur, answer, gui>> /\ entered' = [entered EXCEPT ![Gui] = FALSE]
  BY DEF Calling, At
<1>2. /\ s \in Seq(Words) /\ Len(s) > 0
      /\ s \in PromptSlot \/ SendSlot(s) \/ Loose(s)
      /\ answer[Gui] # "prompted" /\ ~gui.asking
      /\ cur[Gui] \in Client \cup {NoClient}
  BY <1>i, <1>c, <1>1, GuiAt
<1>3. ~entered'[Gui]
  BY <1>i, <1>1 DEF Points, Control
<1>4. CASE Raise(Gui)
  BY <1>i, <1>c, <1>1, <1>2, <1>3, <1>4, GuiRaises
<1>5. CASE Continue(Gui) /\ (call = "initLocked" => dev' # "unlocked")
  <2>1. todo'[Gui] = t
    BY <1>i, <1>5 DEF Continue, Replace, Points, Control
  <2>2. CASE Loose(s)
    <3>1. Loose(t)
      BY <1>2, <2>2, LooseGoesOn
    <3> QED
      BY <1>1, <1>2, <1>3, <2>1, <3>1, LooseHolds
  <2>3. CASE s \in PromptSlot
    <3>1. t \in PromptSlot /\ Within(s, t)
      BY <1>c, <1>1, <2>3, PromptGoesOn DEF PromptStep
    <3>2. cur[Gui] = gui.client
      BY <2>3 DEF Guiding, GuiShape
    <3>3. Inside(t) => Inside(s)
      BY <1>c, <1>1, <3>1 DEF Within
    <3>4. Head(t) = "prompt" => call = "initLocked"
      BY <1>1, <3>1 DEF Within
    <3>5. Inside(s) => counter'[cur[Gui]] >= 1
      <4>1. cur[Gui] \in Client /\ counter \in [Client -> Nat] /\ counter[cur[Gui]] \in Nat
        BY <1>i, <1>1, <1>2 DEF Balanced, SessionType
      <4>2. Inside(s) => counter[cur[Gui]] >= 2
        BY <1>1 DEF Guiding, Sessions
      <4>3. counter'[cur[Gui]] = Decrement(counter[cur[Gui]])
        BY <1>1, <4>1 DEF Close, CountClose
      <4> QED
        BY <4>1, <4>2, <4>3 DEF Decrement
    <3>6. GuiPoint(t)
      BY <3>1 DEF GuiPoint
    <3> HIDE DEF t
    <3> QED
      BY <1>1, <1>2, <1>3, <1>5, <2>1, <3>2, <3>3, <3>4, <3>5, <3>6, SlotHolds
  <2>4. ~SendSlot(s)
    BY <1>c, <1>1, SendGoesOn DEF SendStep
  <2> QED
    BY <1>2, <2>2, <2>3, <2>4
<1> QED
  BY <1>4, <1>5

\* The GUI asks for the PIN and sends it.
LEMMA GuiPins ==
    ASSUME BalanceInv, Points, Guiding, Prompt(Gui) \/ Ack(Gui)
    PROVE  Guiding'
<1> DEFINE s == todo[Gui]
           t == Trim(Tail(todo[Gui]))
<1>i. Balanced /\ References /\ Gui \in Proc
  BY GuiIsProc DEF BalanceInv
<1>t. answer \in [Proc -> {"none", "prompted", "accepted", "refused", "xpub", "list"}]
  BY ControlTypes
<1>1. s # <<>> /\ Head(s) \in {"prompt", "ack"} /\ UNCHANGED <<sessionVars, cur, entered, gui>>
  BY DEF Prompt, Ack, At
<1>2. /\ s \in Seq(Words) /\ Len(s) > 0
      /\ s \in PromptSlot \/ SendSlot(s) \/ Loose(s)
      /\ answer[Gui] # "prompted" /\ ~gui.asking
      /\ Head(s) \notin Calls => ~entered[Gui]
      /\ cur[Gui] \in Client \cup {NoClient}
  BY <1>i, <1>1, GuiAt
<1>3. ~entered[Gui] /\ ~entered'[Gui]
  BY <1>1, <1>2 DEF Calls
<1>4. Inside(s) /\ ~Loose(s)
  BY <1>1, LooseIsOutside DEF Inside
<1>5. CASE Prompt(Gui)
  <2>1. Head(s) = "prompt" /\ todo'[Gui] = t /\ answer'[Gui] = "prompted"
    BY <1>i, <1>t, <1>5 DEF Prompt, At, Continue, Replace, Points, Control
  <2>2. s \in PromptSlot
    BY <1>2, <1>4, <2>1, SendGoesOn DEF SendStep
  <2>3. t = <<"showDialog">>
    BY <2>1, <2>2, PromptGoesOn DEF PromptStep
  <2>4. cur[Gui] = gui.client /\ dev # "unlocked"
    BY <1>1, <2>1, <2>2 DEF Guiding, GuiShape, At
  <2>5. dev' = "prompting"
    BY <1>5, <2>4, ControlTypes DEF Prompt
  <2>6. cur[Gui] \in Client /\ counter[cur[Gui]] >= 1
    BY <1>2, <1>3, <1>4 DEF Guiding, Sessions
  <2>7. claim = cur[Gui] /\ cur[Gui] # NoClient
    <3>1. plugged
      BY <1>5 DEF Prompt
    <3> QED
      BY <1>i, <2>6, <3>1, OpenClaims, ClientAssumption
  <2>8. ~Inside(<<"showDialog">>) /\ <<"showDialog">> \notin PromptSlot /\ GuiPoint(<<"showDialog">>)
        /\ Head(<<"showDialog">>) = "showDialog"
    BY SlotEnds, LooseIsOutside, PromptSlotIsAlone DEF GuiPoint
  <2> DEFINE u == <<"showDialog">>
  <2>9. todo'[Gui] = u /\ cur'[Gui] = cur[Gui] /\ gui' = gui /\ claim' = claim /\ ~gui.asking
    BY <1>1, <1>2, <2>1, <2>3 DEF sessionVars
  <2>10. Sessions(Gui)'
    <3>1. ~Inside(u)
      BY <2>8
    <3> HIDE DEF u
    <3> QED
      BY <1>3, <2>9, <3>1 DEF Sessions
  <2>11. GuiShape'
    <3>1. u \in {<<>>, <<"showDialog">>} /\ Head(u) # "prompt" /\ u \notin PromptSlot /\ GuiPoint(u)
      BY <2>8
    <3>2. gui'.client = cur'[Gui] /\ ~gui'.asking /\ claim' = cur'[Gui] /\ cur'[Gui] # NoClient
      BY <2>4, <2>7, <2>9
    <3> HIDE DEF u
    <3> QED
      BY <2>1, <2>5, <2>9, <3>1, <3>2, Zenon DEF GuiShape, At
  <2> QED
    BY <2>10, <2>11 DEF Guiding
<1>6. CASE Ack(Gui)
  <2>1. \/ Raise(Gui) /\ UNCHANGED answer
        \/ Continue(Gui) /\ \E a \in {"accepted", "refused"} : answer' = [answer EXCEPT ![Gui] = a]
    BY <1>6 DEF Ack
  <2>2. CASE Raise(Gui) /\ UNCHANGED answer
    BY <1>i, <1>1, <1>2, <1>3, <2>2, GuiRaises
  <2>3. CASE Continue(Gui) /\ \E a \in {"accepted", "refused"} : answer' = [answer EXCEPT ![Gui] = a]
    <3>1. Head(s) = "ack" /\ todo'[Gui] = t /\ answer'[Gui] # "prompted"
      BY <1>i, <1>t, <1>6, <2>3 DEF Ack, At, Continue, Replace, Points, Control
    <3>2. SendSlot(s)
      BY <1>2, <1>4, <3>1, PromptGoesOn DEF PromptStep
    <3>3. Loose(t)
      BY <3>1, <3>2, SendGoesOn DEF SendStep
    <3> QED
      BY <1>1, <1>2, <1>3, <3>1, <3>3, LooseHolds
  <2> QED
    BY <2>1, <2>2, <2>3
<1> QED
  BY <1>5, <1>6

\* The steps of a slot that neither prompts nor sends a PIN.
LEMMA GuiLoosely ==
    ASSUME BalanceInv, Points, Guiding, todo[Gui] # <<>>,
           Head(todo[Gui]) \notin {"showDialog", "open", "refresh", "initLocked", "prompt", "ack"},
           \E t \in {Trim(Tail(todo[Gui])), Tail(todo[Gui]), AfterRaise(todo[Gui]), <<>>} : todo'[Gui] = t,
           ~entered'[Gui], answer'[Gui] \in {answer[Gui], "none"}, gui'.asking = gui.asking
    PROVE  Guiding'
<1> DEFINE s == todo[Gui]
<1>i. References
  BY DEF BalanceInv
<1>1. /\ s \in Seq(Words) /\ Len(s) > 0
      /\ s \in PromptSlot \/ SendSlot(s) \/ Loose(s)
      /\ answer[Gui] # "prompted" /\ ~gui.asking
  BY <1>i, GuiAt
<1>2. Loose(s)
  BY <1>1, PromptGoesOn, SendGoesOn DEF PromptStep, SendStep
<1>3. Loose(Trim(Tail(s))) /\ Loose(AfterRaise(s))
  BY <1>1, <1>2, LooseGoesOn
<1>4. Loose(Tail(s))
  BY <1>1, <1>2, TailDrops, LooseSuffix
<1>5. Loose(<<>>)
  BY NotFoundIsEarly DEF Early, Quiet
<1>6. PICK t \in {Trim(Tail(s)), Tail(s), AfterRaise(s), <<>>} : todo'[Gui] = t
  OBVIOUS
<1>7. Loose(t)
  BY <1>3, <1>4, <1>5
<1> QED
  BY <1>1, <1>6, <1>7, LooseHolds

\* The steps of a client in the GUI.
LEMMA GuiClientHolds ==
    ASSUME BalanceInv, Points, Guiding, ClientStep(Gui)
    PROVE  Guiding'
<1>t. todo \in [Proc -> Seq(Words)] /\ Gui \in Proc /\ entered \in [Proc -> BOOLEAN]
  BY GuiIsProc DEF Points, Control
<1>c. {"refresh", "initUnlocked", "initLocked", "pubkey"} \subseteq Calls
  BY DEF Calls
<1>1. CASE RefreshFeatures(Gui)
  <2>1. Calling(Gui, "refresh") /\ (Continue(Gui) \/ Raise(Gui))
    BY <1>1 DEF RefreshFeatures
  <2> QED
    BY <1>c, <2>1, GuiCalls
<1>2. CASE CheckUnlocked(Gui)
  <2>1. Calling(Gui, "initUnlocked") /\ (Continue(Gui) \/ Raise(Gui))
    BY <1>2 DEF CheckUnlocked, InitDevice
  <2> QED
    BY <1>c, <2>1, GuiCalls
<1>3. CASE CheckLocked(Gui)
  <2>1. Calling(Gui, "initLocked") /\ ((Continue(Gui) /\ dev # "unlocked") \/ Raise(Gui))
    BY <1>3 DEF CheckLocked, InitDevice
  <2>2. dev # "unlocked" => dev' # "unlocked"
    BY <1>3 DEF CheckLocked, InitDevice
  <2> QED
    BY <1>c, <2>1, <2>2, GuiCalls
<1>4. CASE GetPublicNode(Gui)
  <2>1. Calling(Gui, "pubkey") /\ (Continue(Gui) \/ Raise(Gui))
    BY <1>4 DEF GetPublicNode
  <2> QED
    BY <1>c, <2>1, GuiCalls
<1>5. CASE New(Gui) \/ Describe(Gui) \/ Fingerprint(Gui) \/ CloseClient(Gui)
  <2>1. /\ todo[Gui] # <<>> /\ Head(todo[Gui]) \in {"new", "initModel", "fingerprint", "close"}
        /\ UNCHANGED <<answer, gui>>
    BY <1>5 DEF New, Describe, Calling, Fingerprint, CloseClient, At
  <2>2. \E t \in {Trim(Tail(todo[Gui])), Tail(todo[Gui]), AfterRaise(todo[Gui]), <<>>} : todo'[Gui] = t
    BY <1>5, <1>t DEF New, Describe, Fingerprint, CloseClient, Continue, Replace, Raise
  <2>3. ~entered'[Gui]
    <3>1. CASE Describe(Gui)
      BY <1>t, <3>1 DEF Describe, Calling
    <3>2. CASE New(Gui) \/ Fingerprint(Gui) \/ CloseClient(Gui)
      <4>1. UNCHANGED entered /\ Head(todo[Gui]) \notin Calls
        BY <3>2 DEF New, Fingerprint, CloseClient, At, Calls
      <4> QED
        BY <4>1 DEF Guiding, Sessions
    <3> QED
      BY <1>5, <3>1, <3>2
  <2> QED
    BY <2>1, <2>2, <2>3, GuiLoosely
<1>6. CASE Disconnected(Gui)
  <2>1. /\ todo[Gui] # <<>> /\ Head(todo[Gui]) # "showDialog" /\ Raise(Gui)
        /\ UNCHANGED <<answer, gui>> /\ entered' = [entered EXCEPT ![Gui] = FALSE]
    BY <1>6 DEF Disconnected, At, Calls
  <2>2. ~entered'[Gui] /\ References
    BY <1>t, <2>1 DEF BalanceInv
  <2>3. answer[Gui] # "prompted"
    BY <2>1, <2>2, GuiAt
  <2> QED
    BY <2>1, <2>2, <2>3, GuiRaises
<1> QED
  BY <1>1, <1>2, <1>3, <1>4, <1>5, <1>6, GuiOpens, GuiPins DEF ClientStep

\* A slot starts: the GUI is in no call, and has no answer yet.
LEMMA SlotStarts ==
    ASSUME Points, References, NEW c, NEW steps, Slot(c, steps), ~entered[Gui]
    PROVE  /\ todo'[Gui] = Trim(steps) /\ cur'[Gui] = c /\ ~entered'[Gui] /\ answer'[Gui] # "prompted"
           /\ UNCHANGED report
<1>1. /\ todo \in [Proc -> Seq(Words)] /\ Gui \in Proc /\ cur \in [Proc -> Client \cup {NoClient}]
      /\ answer \in [Proc -> {"none", "prompted", "accepted", "refused", "xpub", "list"}]
  BY GuiIsProc DEF Points, Control, References
<1>2. todo' = [todo EXCEPT ![Gui] = Trim(steps)] /\ UNCHANGED <<report, entered>>
  BY DEF Slot, Replace
<1>3. cur' = [cur EXCEPT ![Gui] = c] /\ answer' = [answer EXCEPT ![Gui] = "none"]
  BY DEF Slot
<1> QED
  BY <1>1, <1>2, <1>3

\* The GUI's own steps and the events it handles.
LEMMA GuiStepHolds ==
    ASSUME BalanceInv, Points, Owned, Guiding, CloseSelf \/ Fill \/ Reselect \/ ShowDialog \/ CloseDialog \/ GuiEvent
    PROVE  Guiding'
<1>i. References /\ Gui \in Proc
  BY GuiIsProc DEF BalanceInv
<1>g. gui \in GuiStates
  BY <1>i DEF References
<1>t. /\ todo \in [Proc -> Seq(Words)] /\ entered \in [Proc -> BOOLEAN]
      /\ answer \in [Proc -> {"none", "prompted", "accepted", "refused", "xpub", "list"}]
  BY DEF Points, Control
<1>n. todo[Gui] = <<>> => ~entered[Gui]
  BY DEF Guiding, Sessions
<1>1. CASE CloseSelf \/ Fill \/ CloseDialog
  <2>1. todo[Gui] # <<>> /\ Head(todo[Gui]) \in {"closeSelf", "fill", "closeDialog"} /\ UNCHANGED entered
    BY <1>1 DEF CloseSelf, Fill, CloseDialog, At
  <2>2. ~entered[Gui]
    BY <2>1 DEF Guiding, Sessions, Calls
  <2>3. answer'[Gui] \in {answer[Gui], "none"}
    BY <1>1, <1>i, <1>t DEF CloseSelf, Fill, CloseDialog
  <2>4. gui'.asking = gui.asking
    BY <1>1, <1>g DEF CloseSelf, Fill, CloseDialog, GuiStates
  <2>5. \E t \in {Trim(Tail(todo[Gui])), Tail(todo[Gui]), AfterRaise(todo[Gui]), <<>>} : todo'[Gui] = t
    BY <1>1, <1>i, <1>t DEF CloseSelf, Fill, CloseDialog, Continue, Replace, Raise
  <2> QED
    BY <2>1, <2>2, <2>3, <2>4, <2>5, GuiLoosely
<1>2. CASE Reselect \/ SelectDevice
  <2>1. PICK c \in Unused : \E steps :
              /\ Loose(Trim(steps))
              /\ Slot(c, steps)
              /\ Reset(Unused)
              /\ gui' = [gui EXCEPT !.index = 1, !.client = c, !.sendpin = gui.device.pin,
                                    !.commands = ~gui.device.pin]
    BY <1>2, InfoSteps
  <2>2. PICK steps : Loose(Trim(steps)) /\ Slot(c, steps)
    BY <2>1
  <2>3. gui'.asking = gui.asking
    BY <2>1, <1>g DEF GuiStates
  <2>4. ~gui.asking /\ ~entered[Gui]
    BY <1>2, <1>n DEF Reselect, SelectDevice, Idle, At, Owned, Guiding, Sessions, Calls
  <2> DEFINE t == Trim(steps)
  <2>5. todo'[Gui] = t /\ ~entered'[Gui] /\ answer'[Gui] # "prompted" /\ Loose(t)
    BY <1>i, <2>2, <2>4, SlotStarts
  <2> HIDE DEF t
  <2> QED
    BY <2>3, <2>4, <2>5, LooseHolds
<1>3. CASE ShowDialog
  <2>1. todo'[Gui] = <<>>
    BY <1>3, <1>i, <1>t, DialogIsLast DEF Moves
  <2>2. /\ gui' = [gui EXCEPT !.asking = TRUE, !.dialog = gui.client] /\ UNCHANGED <<sessionVars, dev, cur, entered, answer>>
        /\ todo[Gui] # <<>> /\ Head(todo[Gui]) = "showDialog"
    BY <1>3 DEF ShowDialog, At
  <2>3. gui'.client = gui.client
    BY <2>2, <1>g DEF GuiStates
  <2>4. ~entered[Gui]
    BY <2>2 DEF Guiding, Sessions, Calls
  <2>5. ~Inside(<<>>) /\ <<>> \notin PromptSlot /\ Loose(<<>>)
    BY NotFoundIsEarly, LooseIsOutside, PromptSlotIsAlone DEF Early, Quiet
  <2>6. Sessions(Gui)'
    BY <2>1, <2>2, <2>4, <2>5 DEF Sessions
  <2>7. GuiShape'
    BY <2>1, <2>2, <2>3, <2>5 DEF Guiding, GuiShape, GuiPoint, At, sessionVars
  <2> QED
    BY <2>6, <2>7 DEF Guiding
<1>4. CASE RefreshClicked \/ CommandClicked
  <2>1. PICK c \in {NoClient, gui.client} : \E steps : Loose(Trim(steps)) /\ Slot(c, steps)
    BY <1>4, SlotSteps
  <2>2. PICK steps : Loose(Trim(steps)) /\ Slot(c, steps)
    BY <2>1
  <2>3. ~gui'.asking /\ ~entered[Gui]
    BY <1>4, <1>n, <1>g DEF RefreshClicked, CommandClicked, Idle, GuiStates
  <2> DEFINE t == Trim(steps)
  <2>4. todo'[Gui] = t /\ ~entered'[Gui] /\ answer'[Gui] # "prompted" /\ Loose(t)
    BY <1>i, <2>2, <2>3, SlotStarts
  <2> HIDE DEF t
  <2> QED
    BY <2>3, <2>4, LooseHolds
<1>5. CASE SendPinClicked
  <2>1. PICK steps : Trim(steps) \in PromptSlot /\ ~Inside(Trim(steps)) /\ Trim(steps) # <<>> /\ Slot(gui.client, steps)
    BY <1>5, SlotSteps
  <2>2. UNCHANGED gui /\ ~gui.asking /\ ~entered[Gui]
    BY <1>5, <1>n DEF SendPinClicked, Idle
  <2> DEFINE t == Trim(steps)
  <2>3. /\ todo'[Gui] = t /\ cur'[Gui] = gui.client /\ ~entered'[Gui] /\ answer'[Gui] # "prompted"
        /\ GuiPoint(t) /\ ~Inside(t) /\ t # <<>>
    BY <1>i, <2>1, <2>2, SlotStarts DEF GuiPoint
  <2> HIDE DEF t
  <2>4. Head(t) # "prompt"
    BY <2>3 DEF Inside
  <2> QED
    BY <2>2, <2>3, <2>4, SlotHolds
<1>6. CASE DialogAccepted
  <2>1. PICK steps : /\ SendSlot(Trim(steps)) /\ ~Inside(Trim(steps)) /\ Trim(steps) # <<>>
                     /\ Trim(steps) \notin PromptSlot
                     /\ Slot(gui.dialog, steps)
    BY <1>6, SlotSteps
  <2>2. gui.asking /\ ~gui'.asking
    BY <1>6, <1>g DEF DialogAccepted, GuiStates
  <2>3. ~entered[Gui]
    BY <1>n, <2>2 DEF Owned
  <2> DEFINE t == Trim(steps)
  <2>4. /\ todo'[Gui] = t /\ ~entered'[Gui] /\ answer'[Gui] # "prompted"
        /\ GuiPoint(t) /\ ~Inside(t) /\ t # <<>> /\ t \notin PromptSlot
    BY <1>i, <2>1, <2>3, SlotStarts DEF GuiPoint
  <2> HIDE DEF t
  <2>5. Head(t) # "prompt"
    BY <2>4 DEF Inside
  <2> QED
    BY <2>2, <2>4, <2>5, SlotHolds
<1>7. CASE SelectNone \/ DialogRejected
  <2>1. UNCHANGED <<sessionVars, dev, procVars>>
    BY <1>7 DEF SelectNone, DialogRejected
  <2>2. gui'.client = gui.client
    BY <1>7, <1>g DEF SelectNone, DialogRejected, GuiStates
  <2>3. gui'.asking => gui.asking
    BY <1>7, <1>g DEF SelectNone, DialogRejected, GuiStates
  <2>4. Sessions(Gui)'
    BY <2>1 DEF Guiding, Sessions, sessionVars, procVars
  <2>5. GuiShape'
    BY <2>1, <2>2, <2>3 DEF Guiding, GuiShape, At, sessionVars, procVars
  <2> QED
    BY <2>4, <2>5 DEF Guiding
<1> QED
  BY <1>1, <1>2, <1>3, <1>4, <1>5, <1>6, <1>7 DEF GuiEvent

\* They leave the command line processes what they know.
LEMMA GuiStepSpares ==
    ASSUME BalanceInv, Points, Owned, CloseSelf \/ Fill \/ Reselect \/ ShowDialog \/ CloseDialog \/ GuiEvent,
           NEW q \in Cli, Holding(q)
    PROVE  Holding(q)'
<1>i. Balanced /\ References /\ Gui \in Proc /\ q \in Proc /\ q # Gui
  BY GuiIsProc, ProcAssumption DEF BalanceInv, Proc
<1>g. gui.client \in Client \cup {NoClient} /\ gui.dialog \in Client \cup {NoClient}
  BY <1>i, GuiFields
<1>t. /\ todo \in [Proc -> Seq(Words)]
      /\ entered \in [Proc -> BOOLEAN]
      /\ answer \in [Proc -> {"none", "prompted", "accepted", "refused", "xpub", "list"}]
      /\ report \in [Proc -> [status : {"idle", "running", "printed", "crashed"}, error : BOOLEAN]]
      /\ cur \in [Proc -> Client \cup {NoClient}]
  BY <1>i DEF Points, Control, References
<1>1. ASSUME cur[q] # NoClient PROVE Undisturbed(cur[q])
  <2>1. cur[q] \in Client /\ cur[q] # gui.client /\ cur[q] # gui.dialog
    BY <1>t, <1>i, <1>1 DEF Owned, Own
  <2>2. cur[q] \notin Unused
    BY UnusedIsFree
  <2>3. UNCHANGED dev
    BY DEF CloseSelf, Fill, Reselect, ShowDialog, CloseDialog, GuiEvent, RefreshClicked, SelectDevice, SelectNone,
           SendPinClicked, DialogAccepted, DialogRejected, CommandClicked, GetClientAndDeviceInfo, Slot
  <2>4. CASE CloseSelf
    BY <1>i, <1>g, <2>1, <2>3, <2>4, CloseApart DEF CloseSelf
  <2>5. CASE CloseDialog
    <3>1. UNCHANGED sessionVars \/ (gui.dialog # NoClient /\ (Close(gui.dialog) \/ CloseRaises(gui.dialog)))
      BY <2>5 DEF CloseDialog
    <3> QED
      BY <1>i, <1>g, <2>1, <2>3, <3>1, CloseApart, SameApart
  <2>6. CASE Reselect \/ SelectDevice
    <3>1. Reset(Unused)
      BY <2>6 DEF Reselect, SelectDevice, GetClientAndDeviceInfo
    <3> QED
      BY <1>i, <2>1, <2>2, <2>3, <3>1, ResetApart
  <2> QED
    BY <2>1, <2>3, <2>4, <2>5, <2>6, SameApart
    DEF Fill, ShowDialog, GuiEvent, RefreshClicked, SelectNone, SendPinClicked, DialogAccepted, DialogRejected,
        CommandClicked
<1>2. todo'[q] = todo[q]
  <2>1. (\E t : Moves(Gui, t)) \/ UNCHANGED todo
    BY DEF CloseSelf, Fill, Reselect, ShowDialog, CloseDialog, GuiEvent, RefreshClicked, SelectDevice, SelectNone,
           SendPinClicked, DialogAccepted, DialogRejected, CommandClicked, GetClientAndDeviceInfo, Slot, Continue,
           Replace, Raise, Moves, procVars
  <2> QED
    BY <1>i, <1>t, <2>1 DEF Moves
<1>3. cur'[q] = cur[q] /\ entered'[q] = entered[q] /\ answer'[q] = answer[q]
  <2>1. UNCHANGED cur \/ \E c : cur' = [cur EXCEPT ![Gui] = c]
    BY DEF CloseSelf, Fill, Reselect, ShowDialog, CloseDialog, GuiEvent, RefreshClicked, SelectDevice, SelectNone,
           SendPinClicked, DialogAccepted, DialogRejected, CommandClicked, GetClientAndDeviceInfo, Slot, procVars
  <2>2. UNCHANGED entered
    BY DEF CloseSelf, Fill, Reselect, ShowDialog, CloseDialog, GuiEvent, RefreshClicked, SelectDevice, SelectNone,
           SendPinClicked, DialogAccepted, DialogRejected, CommandClicked, GetClientAndDeviceInfo, Slot, procVars
  <2>3. UNCHANGED answer \/ answer' = [answer EXCEPT ![Gui] = "none"]
    BY DEF CloseSelf, Fill, Reselect, ShowDialog, CloseDialog, GuiEvent, RefreshClicked, SelectDevice, SelectNone,
           SendPinClicked, DialogAccepted, DialogRejected, CommandClicked, GetClientAndDeviceInfo, Slot, procVars
  <2> QED
    BY <1>i, <1>t, <2>1, <2>2, <2>3
<1>4. report'[q] = report[q]
  <2>1. CASE Raise(Gui)
    <3>1. \/ report' = [report EXCEPT ![Gui].error = TRUE]
          \/ report' = [report EXCEPT ![Gui].status = "crashed"]
          \/ report' = report
      BY <2>1 DEF Raise
    <3> QED
      BY <1>i, <1>t, <3>1
  <2>2. Raise(Gui) \/ UNCHANGED report
    BY DEF CloseSelf, Fill, Reselect, ShowDialog, CloseDialog, GuiEvent, RefreshClicked, SelectDevice, SelectNone,
           SendPinClicked, DialogAccepted, DialogRejected, CommandClicked, GetClientAndDeviceInfo, Slot, Continue,
           Replace, procVars
  <2> QED
    BY <2>1, <2>2
<1> QED
  BY <1>i, <1>1, <1>2, <1>3, <1>4, CliKept

\* A client is dropped, or the device locks itself or is pulled out.
LEMMA RestSpares ==
    ASSUME BalanceInv, Points, Owned, Collect \/ AutoLock \/ Unplug \/ UNCHANGED vars
    PROVE  /\ \A q \in Cli : Holding(q) => Holding(q)'
           /\ Guiding => Guiding'
<1>i. Balanced /\ References /\ Gui \in Proc
  BY GuiIsProc DEF BalanceInv
<1>1. UNCHANGED procVars /\ UNCHANGED gui
  BY DEF Collect, AutoLock, Unplug, vars
<1>2. UNCHANGED <<todo, cur, entered, answer, report>>
  BY <1>1 DEF procVars
<1>3. ASSUME NEW d \in Client, Referenced(d) PROVE Undisturbed(d)
  <2>1. CASE Collect
    <3>1. Reset({claim}) /\ UNCHANGED dev /\ d # claim
      BY <1>3, <2>1 DEF Collect
    <3> QED
      BY <1>i, <3>1, ResetApart
  <2>2. CASE AutoLock \/ UNCHANGED vars
    BY <2>2, SameApart DEF AutoLock, vars
  <2>3. CASE Unplug
    BY <2>3 DEF Unplug, PullOut, Undisturbed
  <2> QED
    BY <2>1, <2>2, <2>3
<1>4. ASSUME NEW q \in Cli, Holding(q) PROVE Holding(q)'
  <2>1. ASSUME cur[q] # NoClient PROVE Undisturbed(cur[q])
    <3>1. cur[q] \in Client
      BY <1>i, <2>1 DEF References, Proc
    <3> QED
      BY <1>3, <3>1 DEF Referenced
  <2> QED
    BY <1>i, <1>2, <1>4, <2>1, CliKept
<1>5. ASSUME Guiding PROVE Guiding'
  <2>1. cur[Gui] \in Client \cup {NoClient} /\ gui.client \in Client \cup {NoClient}
    BY <1>i, GuiFields DEF References
  <2>2. todo[Gui] # <<>> /\ cur[Gui] # NoClient => Undisturbed(cur[Gui])
    BY <1>3, <2>1 DEF Referenced
  <2>3. gui.client # NoClient => Undisturbed(gui.client)
    BY <1>3, <2>1 DEF Referenced
  <2>4. GuiPoint(todo[Gui]) /\ (gui.asking => todo[Gui] = <<>>)
    BY <1>5 DEF Guiding, GuiShape
  <2> QED
    BY <1>i, <1>1, <1>2, <1>5, <2>2, <2>3, <2>4, GuiKept
<1> QED
  BY <1>4, <1>5

----------------------------------------------------------------------------
(* The invariant as a whole, and what follows from it                      *)

Knowing == Guiding /\ \A p \in Cli : Holding(p)

PromptInv == BalanceInv /\ Points /\ Owned /\ Knowing

\* No process has begun.
LEMMA InitKnowing == Init => Knowing
<1> SUFFICES ASSUME Init PROVE Knowing
  OBVIOUS
<1>1. ~Inside(<<>>) /\ <<>> # Closing /\ <<>> # Printing /\ <<>> \notin PromptSlot /\ Loose(<<>>)
  <2>1. ~Inside(<<>>) /\ <<>> \notin PromptSlot /\ Loose(<<>>)
    BY NotFoundIsEarly, LooseIsOutside, PromptSlotIsAlone DEF Early, Quiet
  <2> QED
    BY <2>1 DEF Closing, Printing
<1>2. ASSUME NEW p \in Proc
      PROVE  /\ todo[p] = <<>> /\ cur[p] = NoClient /\ entered[p] = FALSE /\ answer[p] = "none"
             /\ report[p].status = "idle" /\ report[p].error = FALSE
  BY DEF Init
<1>3. ASSUME NEW p \in Proc PROVE Sessions(p)
  BY <1>1, <1>2 DEF Sessions
<1>4. ASSUME NEW p \in Cli PROVE Holding(p)
  <2>1. p \in Proc
    BY DEF Proc
  <2>2. Bounded(p)
    BY <1>2, <2>1 DEF Bounded
  <2>3. Answers(p)
    BY <1>1, <1>2, <2>1 DEF Answers, At, CliPoint
  <2>4. Pins(p)
    BY <1>1, <1>2, <2>1 DEF Pins, At
  <2> QED
    BY <1>3, <2>1, <2>2, <2>3, <2>4 DEF Holding
<1>5. Guiding
  <2>1. ~gui.asking
    BY DEF Init
  <2>2. GuiShape
    BY <1>1, <1>2, <2>1, GuiIsProc DEF GuiShape, GuiPoint, At
  <2> QED
    BY <1>3, <2>2, GuiIsProc DEF Guiding
<1> QED
  BY <1>4, <1>5 DEF Knowing

\* Every step of every process keeps what all processes know.
LEMMA NextKnowing == PromptInv /\ [Next]_vars => Knowing'
<1> SUFFICES ASSUME PromptInv, [Next]_vars PROVE Knowing'
  OBVIOUS
<1>i. BalanceInv /\ Points /\ Owned /\ Guiding /\ \A p \in Cli : Holding(p)
  BY DEF PromptInv, Knowing
<1>1. ASSUME NEW p \in Cli, ClientStep(p) PROVE Knowing'
  <2>1. p \in Proc /\ p # Gui /\ Sessions(p)
    BY <1>i, ProcAssumption DEF Proc, Holding
  <2>2. (\A q \in Cli \ {p} : Holding(q) => Holding(q)') /\ Guiding'
    BY <1>i, <1>1, <2>1, ClientStepSpares
  <2>3. Holding(p)'
    BY <1>i, <1>1, ClientStepHolds
  <2> QED
    BY <1>i, <2>2, <2>3 DEF Knowing
<1>2. ASSUME NEW p \in Cli,
             Choose(p) \/ MatchModel(p) \/ Lookup(p) \/ Compare(p) \/ Report(p) \/ Start(p) \/ Exit(p)
      PROVE  Knowing'
  <2>1. (\A q \in Cli \ {p} : Holding(q) => Holding(q)') /\ Guiding'
    BY <1>i, <1>2, CliStepSpares
  <2>2. Holding(p)'
    BY <1>i, <1>2, FindHolds, ReportHolds, LifeHolds
  <2> QED
    BY <1>i, <2>1, <2>2 DEF Knowing
<1>3. CASE ClientStep(Gui)
  <2>1. Gui \in Proc /\ Sessions(Gui) /\ Gui \notin Cli
    BY <1>i, GuiIsProc, ProcAssumption DEF Guiding
  <2>2. \A q \in Cli : Holding(q)'
    BY <1>i, <1>3, <2>1, ClientStepSpares
  <2> QED
    BY <1>i, <1>3, <2>2, GuiClientHolds DEF Knowing
<1>4. CASE CloseSelf \/ Fill \/ Reselect \/ ShowDialog \/ CloseDialog \/ GuiEvent
  BY <1>i, <1>4, GuiStepHolds, GuiStepSpares DEF Knowing
<1>5. CASE Collect \/ AutoLock \/ Unplug \/ UNCHANGED vars
  BY <1>i, <1>5, RestSpares DEF Knowing
<1> QED
  BY <1>1, <1>2, <1>3, <1>4, <1>5 DEF Next, CliStep, GuiStep

\* The invariant holds in every behaviour.
LEMMA PromptInvariant == Spec => []PromptInv
<1>1. Init => PromptInv
  BY InitBalance, InitPoints, InitOwned, InitKnowing DEF PromptInv
<1>2. PromptInv /\ [Next]_vars => PromptInv'
  <2>1. PromptInv => BalanceInv /\ Points /\ Owned /\ References
    BY DEF PromptInv, BalanceInv
  <2>2. PromptInv /\ [Next]_vars => BalanceInv' /\ Points' /\ Owned' /\ Knowing'
    BY <2>1, NextBalance, NextPoints, NextOwned, NextKnowing
  <2> QED
    BY <2>2 DEF PromptInv
<1> QED
  BY <1>1, <1>2, PTL DEF Spec

(***************************************************************************)
(* For any number of command line processes and clients: once prompt_pin   *)
(* has returned True, the device shows the PIN prompt and its client holds *)
(* the interface until the command's close(), in the GUI for as long as    *)
(* the answer stands, unless the device is pulled out.  No step of another *)
(* process takes the prompt away.                                          *)
(***************************************************************************)
THEOREM PromptIsHeld == Spec => []PromptHeld
<1>1. PromptInv => PromptHeld
  <2> SUFFICES ASSUME PromptInv, NEW p \in Proc, answer[p] = "prompted", p = Gui \/ WillClose(p)
               PROVE  ~plugged \/ (dev = "prompting" /\ claim = cur[p])
    BY DEF PromptHeld
  <2>1. CASE p = Gui
    BY <2>1 DEF PromptInv, Knowing, Guiding, GuiShape
  <2>2. CASE p # Gui
    <3>1. p \in Cli /\ WillClose(p)
      BY <2>2 DEF Proc
    <3>2. Holding(p)
      BY <3>1 DEF PromptInv, Knowing
    <3>3. todo[p] \in {Closing, Printing, <<>>}
      BY <3>2 DEF Holding, Answers
    <3>4. todo[p] # <<>>
      BY <3>1 DEF WillClose
    <3>5. todo[p] # Printing
      <4>1. \A i \in DOMAIN Printing : Printing[i] # "close"
        BY DEF Printing
      <4> QED
        BY <3>1, <4>1 DEF WillClose
    <3> QED
      BY <3>2, <3>3, <3>4, <3>5 DEF Holding, Pins
  <2> QED
    BY <2>1, <2>2
<1> QED
  BY <1>1, PromptInvariant, PTL

(***************************************************************************)
(* A command line process that has printed its result does not hold the    *)
(* interface, whatever its command opened and however it failed.           *)
(***************************************************************************)
THEOREM PrintedIsReleased == Spec => []ReleasedWhenPrinted
<1>1. PromptInv => ReleasedWhenPrinted
  <2> SUFFICES ASSUME PromptInv, NEW p \in Cli, report[p].status = "printed", cur[p] # NoClient
               PROVE  claim # cur[p]
    BY DEF ReleasedWhenPrinted
  <2>1. Holding(p) /\ Balanced /\ cur[p] \in Client
    BY DEF PromptInv, Knowing, BalanceInv, References, Proc
  <2>2. todo[p] = <<>>
    BY <2>1 DEF Holding, Answers
  <2>3. ~entered[p] /\ ~Inside(<<>>) /\ <<>> # Closing
    BY <2>1, <2>2 DEF Holding, Sessions, Inside, Closing
  <2>4. counter[cur[p]] <= 0
    BY <2>1, <2>2, <2>3 DEF Holding, Bounded
  <2>5. ~(counter[cur[p]] > 0)
    BY <2>1, <2>4 DEF Balanced, SessionType
  <2> QED
    BY <2>1, <2>5 DEF Balanced, SessionsBalance
<1> QED
  BY <1>1, PromptInvariant, PTL

(***************************************************************************)
(* What a command line process prints is an answer or an error.  It prints *)
(* both only when the device was pulled out: any other failure of the      *)
(* close() behind the command follows a failure of the command.            *)
(***************************************************************************)
THEOREM AnswersOrErrors == Spec => []AnswerOrError
<1>1. PromptInv => AnswerOrError
  <2> SUFFICES ASSUME PromptInv, NEW p \in Cli, At(p, "print")
               PROVE  /\ answer[p] = "none" => report[p].error
                      /\ answer[p] # "none" /\ report[p].error => ~plugged
    BY DEF AnswerOrError
  <2>1. Holding(p) /\ todo[p] # <<>> /\ Head(todo[p]) = "print"
    BY DEF PromptInv, Knowing, At
  <2>2. ~Early(todo[p]) /\ ~Commanding(todo[p])
    BY <2>1, EarlyIsOutside, CommandGoesOn DEF CommandStep
  <2>3. todo[p] \in {Closing, Printing}
    BY <2>1, <2>2 DEF Holding, Answers, CliPoint
  <2> QED
    BY <2>1, <2>3 DEF Holding, Answers
<1> QED
  BY <1>1, PromptInvariant, PTL
=============================================================================
