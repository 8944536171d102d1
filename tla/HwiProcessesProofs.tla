------------------------ MODULE HwiProcessesProofs ------------------------
(***************************************************************************)
(* The counters, handles and claims of any number of clients of any number *)
(* of processes stay in balance.  SessionsBalance is inductive together    *)
(* with the types of the variables that refer to clients: a step opens or  *)
(* closes whatever cur or gui refers to.                                   *)
(***************************************************************************)
EXTENDS HwiProcesses, TLAPS

Entries == [model : BOOLEAN, pin : BOOLEAN, fingerprint : BOOLEAN]

GuiStates ==
    [client : Client \cup {NoClient}, dialog : Client \cup {NoClient},
     asking : BOOLEAN, sendpin : BOOLEAN, commands : BOOLEAN,
     connected : BOOLEAN, device : Entries, index : {0, 1}]

Balanced == SessionType /\ SessionsBalance

References ==
    /\ cur \in [Proc -> Client \cup {NoClient}]
    /\ entry \in [Proc -> Entries]
    /\ gui \in GuiStates

BalanceInv == Balanced /\ References

----------------------------------------------------------------------------
(* Operations of a client                                                  *)

\* open() that succeeds keeps the balance.
LEMMA OpenBalances ==
    ASSUME Balanced, NEW c \in Client, Open(c)
    PROVE  Balanced'
BY ClientAssumption DEF Balanced, SessionType, SessionsBalance, Open, OpensHandle

\* open() that finds the interface taken keeps the balance.
LEMMA OpenRaisesBalances ==
    ASSUME Balanced, NEW c \in Client, OpenRaises(c)
    PROVE  Balanced'
BY ClientAssumption DEF Balanced, SessionType, SessionsBalance, OpenRaises, OpensHandle

\* close() keeps the balance, surplus ones included.
LEMMA CloseBalances ==
    ASSUME Balanced, NEW c \in Client, Close(c)
    PROVE  Balanced'
BY ClientAssumption
DEF Balanced, SessionType, SessionsBalance, Close, CountClose, ClosesHandle, EndsSession, Decrement

\* close() that raises keeps the balance.
LEMMA CloseRaisesBalances ==
    ASSUME Balanced, NEW c \in Client, CloseRaises(c)
    PROVE  Balanced'
<1>0. counter[c] \in Nat /\ transport[c] = IF counter[c] > 0 THEN 1 ELSE 0
  BY DEF Balanced, SessionType, SessionsBalance
<1>1. counter[c] \in {0, 1} /\ transport[c] = counter[c]
  <2>1. Decrement(counter[c]) = 0
    BY DEF CloseRaises, ClosesHandle, EndsSession
  <2> QED
    BY <1>0, <2>1 DEF Decrement
<1>2. /\ counter' = [counter EXCEPT ![c] = 0] /\ transport' = [transport EXCEPT ![c] = 0]
      /\ UNCHANGED <<handle, claim, plugged>>
  <2>1. Decrement(counter[c]) = 0 /\ Decrement(transport[c]) = 0
    BY <1>1 DEF Decrement
  <2> QED
    BY <2>1 DEF CloseRaises, CountClose, EndsSession
<1>3. plugged => counter[c] = 0 /\ transport[c] = 0
  BY DEF Balanced, SessionType, SessionsBalance, CloseRaises, ReleaseRaises
<1> QED
  BY <1>1, <1>2, <1>3, ClientAssumption DEF Balanced, SessionType, SessionsBalance

\* Dropping clients keeps the balance, whichever they are.
LEMMA ResetBalances ==
    ASSUME Balanced, NEW S, Reset(S)
    PROVE  Balanced'
BY ClientAssumption DEF Balanced, SessionType, SessionsBalance, Reset

\* A device that is pulled out takes the claim with it, and no session.
LEMMA PullOutBalances ==
    ASSUME Balanced, PullOut
    PROVE  Balanced'
BY ClientAssumption DEF Balanced, SessionType, SessionsBalance, PullOut

\* The balance is about the sessions' variables only.
LEMMA UnchangedBalances ==
    ASSUME Balanced, UNCHANGED sessionVars
    PROVE  Balanced'
BY DEF Balanced, SessionType, SessionsBalance, sessionVars

----------------------------------------------------------------------------
(* What the steps do to the references                                     *)

\* The empty entry is an entry.
LEMMA NoEntryType == NoEntry \in Entries
BY DEF NoEntry, Entries

\* The graphical interface is a process.
LEMMA GuiIsProc == Gui \in Proc
BY DEF Proc

\* Going on with other steps or raising leaves the list entries well formed.
LEMMA ControlKeepsEntry ==
    ASSUME References, NEW p \in Proc,
           (\E s : Replace(p, s)) \/ Raise(p)
    PROVE  entry' \in [Proc -> Entries]
BY NoEntryType DEF References, Replace, Raise

\* A GUI slot that starts on a client or on None leaves the references well
\* formed.
LEMMA SlotKeepsReferences ==
    ASSUME References, NEW c \in Client \cup {NoClient}, NEW steps, Slot(c, steps)
    PROVE  /\ cur' \in [Proc -> Client \cup {NoClient}]
           /\ entry' \in [Proc -> Entries]
BY GuiIsProc DEF References, Slot, Replace

\* Each part of the GUI's state has its type.
LEMMA GuiFields ==
    ASSUME References
    PROVE  /\ gui.client \in Client \cup {NoClient}
           /\ gui.dialog \in Client \cup {NoClient}
           /\ gui.device \in Entries
           /\ gui.device.pin \in BOOLEAN
BY DEF References, GuiStates, Entries

----------------------------------------------------------------------------
(* One lemma for each group of steps                                       *)

\* The steps of a client, in whichever process.
LEMMA ClientStepKeeps ==
    ASSUME BalanceInv, NEW p \in Proc, ClientStep(p)
    PROVE  BalanceInv'
<1> USE DEF BalanceInv
<1>c. cur[p] \in Client \cup {NoClient}
  BY DEF References
<1>call. ASSUME NEW call, Calling(p, call)
         PROVE  Balanced' /\ UNCHANGED <<cur, gui>>
  BY <1>call, <1>c, CloseBalances DEF Calling
<1>1. CASE New(p)
  <2>1. Balanced'
    BY <1>1, ResetBalances DEF New
  <2>2. cur' \in [Proc -> Client \cup {NoClient}]
    BY <1>1 DEF New, Unused, References
  <2>3. entry' \in [Proc -> Entries]
    BY <1>1, ControlKeepsEntry DEF New, Continue
  <2> QED
    BY <1>1, <2>1, <2>2, <2>3 DEF New, References
<1>2. CASE OpenClient(p)
  <2>1. Balanced'
    BY <1>2, <1>c, OpenBalances, OpenRaisesBalances, UnchangedBalances DEF OpenClient
  <2>2. entry' \in [Proc -> Entries]
    <3>1. CASE UNCHANGED entry
      BY <3>1 DEF References
    <3>2. CASE Continue(p) \/ Raise(p)
      BY <3>2, ControlKeepsEntry DEF Continue
    <3> QED
      BY <1>2, <3>1, <3>2 DEF OpenClient
  <2> QED
    BY <1>2, <2>1, <2>2 DEF OpenClient, References
<1>3. CASE RefreshFeatures(p) \/ CheckUnlocked(p) \/ CheckLocked(p) \/ GetPublicNode(p)
  <2>1. Balanced' /\ UNCHANGED <<cur, gui>>
    BY <1>3, <1>call DEF RefreshFeatures, CheckUnlocked, CheckLocked, InitDevice, GetPublicNode
  <2>2. Continue(p) \/ Raise(p)
    BY <1>3 DEF RefreshFeatures, CheckUnlocked, CheckLocked, InitDevice, GetPublicNode
  <2> QED
    BY <2>1, <2>2, ControlKeepsEntry DEF References, Continue
<1>4. CASE Describe(p)
  <2>1. Balanced' /\ UNCHANGED <<cur, gui>>
    BY <1>4, <1>call DEF Describe
  <2>2. entry' \in [Proc -> Entries]
    BY <1>4 DEF Describe, References, Entries
  <2> QED
    BY <2>1, <2>2 DEF References
<1>5. CASE Prompt(p) \/ Ack(p)
  <2>1. Balanced'
    BY <1>5, UnchangedBalances DEF Prompt, Ack
  <2>2. UNCHANGED <<cur, gui>> /\ (Continue(p) \/ Raise(p))
    BY <1>5 DEF Prompt, Ack
  <2> QED
    BY <2>1, <2>2, ControlKeepsEntry DEF References, Continue
<1>6. CASE Fingerprint(p)
  <2>1. Balanced'
    BY <1>6, UnchangedBalances DEF Fingerprint
  <2>2. entry' \in [Proc -> Entries]
    BY <1>6 DEF Fingerprint, References, Entries
  <2> QED
    BY <1>6, <2>1, <2>2 DEF Fingerprint, References
<1>7. CASE CloseClient(p)
  <2>1. Balanced'
    BY <1>7, <1>c, CloseBalances, CloseRaisesBalances DEF CloseClient
  <2>2. UNCHANGED <<cur, gui>> /\ (Continue(p) \/ Raise(p))
    BY <1>7 DEF CloseClient
  <2> QED
    BY <2>1, <2>2, ControlKeepsEntry DEF References, Continue
<1>8. CASE Disconnected(p)
  <2>1. Balanced'
    BY <1>8, <1>c, CloseBalances, CloseRaisesBalances, UnchangedBalances DEF Disconnected
  <2>2. UNCHANGED <<cur, gui>> /\ Raise(p)
    BY <1>8 DEF Disconnected
  <2> QED
    BY <2>1, <2>2, ControlKeepsEntry DEF References
<1> QED
  BY <1>1, <1>2, <1>3, <1>4, <1>5, <1>6, <1>7, <1>8 DEF ClientStep

\* The steps that only a command line process takes.
LEMMA CliKeeps ==
    ASSUME BalanceInv, NEW p \in Cli,
           Choose(p) \/ MatchModel(p) \/ Lookup(p) \/ Compare(p) \/ Report(p)
             \/ Start(p) \/ Exit(p)
    PROVE  BalanceInv'
<1> USE DEF BalanceInv
<1>p. p \in Proc
  BY DEF Proc
<1>1. CASE Choose(p) \/ MatchModel(p) \/ Lookup(p) \/ Compare(p)
  <2>1. UNCHANGED <<sessionVars, cur, gui>>
    BY <1>1 DEF Choose, MatchModel, Lookup, Compare
  <2>2. (\E s : Replace(p, s)) \/ Raise(p)
    BY <1>1 DEF Choose, MatchModel, Lookup, Compare, Continue
  <2> QED
    BY <1>p, <2>1, <2>2, UnchangedBalances, ControlKeepsEntry DEF References
<1>2. CASE Report(p) \/ Start(p)
  <2>1. UNCHANGED <<sessionVars, cur, entry, gui>>
    BY <1>2 DEF Report, Start
  <2> QED
    BY <2>1, UnchangedBalances DEF References
<1>3. CASE Exit(p)
  <2>1. Balanced'
    BY <1>3, ResetBalances DEF Exit
  <2> QED
    BY <1>3, <1>p, <2>1, NoEntryType DEF Exit, References
<1> QED
  BY <1>1, <1>2, <1>3

\* The steps and the events of the GUI.
LEMMA GuiKeeps ==
    ASSUME BalanceInv,
           \/ CloseSelf \/ Fill \/ Reselect \/ ShowDialog \/ CloseDialog
           \/ GuiEvent
    PROVE  BalanceInv'
<1> USE DEF BalanceInv
<1>g. /\ gui.client \in Client \cup {NoClient}
      /\ gui.dialog \in Client \cup {NoClient}
      /\ gui.device.pin \in BOOLEAN
  BY GuiFields
<1>1. CASE CloseSelf
  <2>1. Balanced'
    BY <1>1, <1>g, CloseBalances, CloseRaisesBalances DEF CloseSelf
  <2>2. entry' \in [Proc -> Entries]
    BY <1>1, GuiIsProc, ControlKeepsEntry DEF CloseSelf, Continue
  <2>3. gui' \in GuiStates
    BY <1>1 DEF CloseSelf, References, GuiStates
  <2> QED
    BY <1>1, <2>1, <2>2, <2>3 DEF CloseSelf, References
<1>2. CASE Fill
  <2>1. entry[Gui] \in Entries
    BY GuiIsProc DEF References
  <2>2. gui' \in GuiStates
    BY <1>2, <2>1 DEF Fill, References, GuiStates
  <2>3. entry' \in [Proc -> Entries] /\ cur' \in [Proc -> Client \cup {NoClient}]
    BY <1>2, GuiIsProc, NoEntryType DEF Fill, References
  <2> QED
    BY <1>2, <2>2, <2>3, UnchangedBalances DEF Fill, References
<1>3. CASE Reselect \/ SelectDevice
  <2>1. PICK c, steps :
          /\ c \in Unused
          /\ Reset(Unused)
          /\ gui' = [gui EXCEPT !.index = 1, !.client = c, !.sendpin = gui.device.pin,
                                !.commands = ~gui.device.pin]
          /\ Slot(c, steps)
    BY <1>3 DEF Reselect, SelectDevice, GetClientAndDeviceInfo
  <2>2. c \in Client
    BY <2>1 DEF Unused
  <2>3. Balanced'
    BY <2>1, ResetBalances
  <2>4. gui' \in GuiStates
    BY <2>1, <2>2, <1>g DEF References, GuiStates
  <2> QED
    BY <2>1, <2>2, <2>3, <2>4, SlotKeepsReferences DEF References
<1>4. CASE ShowDialog
  <2>1. gui' \in GuiStates
    BY <1>4, <1>g DEF ShowDialog, References, GuiStates
  <2>2. entry' \in [Proc -> Entries]
    BY <1>4, GuiIsProc, ControlKeepsEntry DEF ShowDialog, Continue
  <2> QED
    BY <1>4, <2>1, <2>2, UnchangedBalances DEF ShowDialog, References
<1>5. CASE CloseDialog
  <2>1. Balanced'
    BY <1>5, <1>g, CloseBalances, CloseRaisesBalances, UnchangedBalances DEF CloseDialog
  <2>2. entry' \in [Proc -> Entries]
    BY <1>5, GuiIsProc, ControlKeepsEntry DEF CloseDialog, Continue
  <2>3. gui' \in GuiStates
    BY <1>5 DEF CloseDialog, References, GuiStates
  <2> QED
    BY <1>5, <2>1, <2>2, <2>3 DEF CloseDialog, References
<1>6. CASE RefreshClicked \/ SendPinClicked \/ DialogAccepted \/ CommandClicked
  <2>1. PICK c, steps : c \in Client \cup {NoClient} /\ Slot(c, steps)
    BY <1>6, <1>g DEF RefreshClicked, SendPinClicked, DialogAccepted, CommandClicked
  <2>2. gui' \in GuiStates
    BY <1>6, <1>g
    DEF RefreshClicked, SendPinClicked, DialogAccepted, CommandClicked, References, GuiStates
  <2>3. UNCHANGED sessionVars
    BY <1>6 DEF RefreshClicked, SendPinClicked, DialogAccepted, CommandClicked
  <2> QED
    BY <2>1, <2>2, <2>3, UnchangedBalances, SlotKeepsReferences DEF References
<1>7. CASE SelectNone \/ DialogRejected
  <2>1. gui' \in GuiStates
    BY <1>7 DEF SelectNone, DialogRejected, References, GuiStates
  <2> QED
    BY <1>7, <2>1, UnchangedBalances DEF SelectNone, DialogRejected, References, procVars
<1> QED
  BY <1>1, <1>2, <1>3, <1>4, <1>5, <1>6, <1>7 DEF GuiEvent

----------------------------------------------------------------------------
\* No session has begun when the processes start.
LEMMA InitBalance == Init => BalanceInv
<1> SUFFICES ASSUME Init PROVE BalanceInv
  OBVIOUS
<1>1. Balanced
  BY ClientAssumption DEF Init, SessionInit, Balanced, SessionType, SessionsBalance
<1>2. gui \in GuiStates
  BY NoEntryType DEF Init, GuiStates
<1>3. cur \in [Proc -> Client \cup {NoClient}] /\ entry \in [Proc -> Entries]
  BY NoEntryType DEF Init
<1> QED
  BY <1>1, <1>2, <1>3 DEF BalanceInv, References

\* Every step keeps the balance.
LEMMA NextBalance == BalanceInv /\ [Next]_vars => BalanceInv'
<1> SUFFICES ASSUME BalanceInv, [Next]_vars PROVE BalanceInv'
  OBVIOUS
<1>1. CASE \E p \in Cli : CliStep(p) \/ Start(p) \/ Exit(p)
  BY <1>1, ClientStepKeeps, CliKeeps DEF CliStep, Proc
<1>2. CASE GuiStep \/ GuiEvent
  BY <1>2, ClientStepKeeps, GuiKeeps, GuiIsProc DEF GuiStep
<1>3. CASE Collect
  BY <1>3, ResetBalances DEF Collect, procVars, BalanceInv, References
<1>4. CASE AutoLock \/ UNCHANGED vars
  BY <1>4, UnchangedBalances DEF AutoLock, vars, procVars, BalanceInv, References
<1>5. CASE Unplug
  BY <1>5, PullOutBalances DEF Unplug, procVars, BalanceInv, References
<1> QED
  BY <1>1, <1>2, <1>3, <1>4, <1>5 DEF Next

(***************************************************************************)
(* In every behaviour of any number of processes and clients a client is   *)
(* inside a session exactly when its handle holds the interface, for as    *)
(* long as the device is there, and the transport counts one session then. *)
(***************************************************************************)
THEOREM SessionsAlwaysBalance == Spec => []SessionsBalance
<1>1. BalanceInv => SessionsBalance
  BY DEF BalanceInv, Balanced
<1> QED
  BY InitBalance, NextBalance, <1>1, PTL DEF Spec
=============================================================================
