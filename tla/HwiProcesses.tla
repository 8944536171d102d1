---------------------------- MODULE HwiProcesses ----------------------------
(***************************************************************************)
(* HWI processes that share one PIN-protected Trezor One: command line     *)
(* processes (_cli.py, commands.py, devices/trezor.py), each of which runs *)
(* one command and exits, and the graphical interface (_gui.py), which     *)
(* keeps a client between user events.  The PIN is entered in two          *)
(* commands, promptpin and sendpin, and between them the prompt is state   *)
(* of the device that every other process can disturb.                     *)
(*                                                                         *)
(* What a process still has to do is a sequence of steps.  A block that    *)
(* catches exceptions starts with "try" and ends with a marker in Catches; *)
(* raising drops the rest of the block, and outside of every block the CLI *)
(* dies with a traceback and a GUI slot is abandoned.                      *)
(***************************************************************************)
EXTENDS ClientSession, Sequences, FiniteSets

CONSTANTS
    Cli,  \* command line processes
    Gui,  \* the graphical interface's process
    MaxPrompts  \* bound: prompts on one client of the GUI that nothing closed

Proc == Cli \cup {Gui}

ASSUME ProcAssumption == Gui \notin Cli /\ MaxPrompts \in Nat

VARIABLES
    dev,      \* the device: locked, prompting for the PIN, unlocked
    todo,     \* remaining steps of each process
    cur,      \* the client the running steps work on
    entered,  \* whether the process is inside a session-wrapped call
    entry,    \* the device's entry in the list enumerate() is building
    answer,   \* what the command's function returned
    report,   \* a CLI process: idle, running, printed, crashed; with an error?
    gui       \* attributes and widgets of HWIQt

procVars == <<todo, cur, entered, entry, answer, report>>
vars == <<sessionVars, dev, procVars, gui>>

----------------------------------------------------------------------------
(* Programs                                                                *)

Catches == {"entryErrors", "resultErrors", "messageBox", "except"}
Calls == {"refresh", "initUnlocked", "initLocked", "initModel", "pubkey"}

\* _prepare_device on a Trezor One is refresh_features and then init_device;
\* what is read of the features is checked at once.  get_pubkey_at_path goes
\* through _check_unlocked, prompt_pin refuses a device that is unlocked, and
\* enumerate notes the model and refuses a locked device.
GetXpub == <<"refresh", "initUnlocked", "pubkey">>

\* Mutant: prompt_pin leaves opening to the calls it makes.
PromptPin_NoOpen == <<"refresh", "initLocked", "prompt">>

PromptPin == <<"open", "refresh", "initLocked", "prompt">>

SendPin == <<"open", "ack">>

\* trezor.enumerate for the one device, inside commands.enumerate
Enumerate ==
    <<"try", "new", "refresh", "initModel">> \o GetXpub
        \o <<"fingerprint", "entryErrors", "close">>

\* Mutant: process_commands leaves closing to the command.
DoCommand_NoClose(body) == <<"try">> \o body \o <<"resultErrors", "print">>

\* process_commands once it has a client
DoCommand(body) ==
    <<"try">> \o body \o <<"resultErrors", "try", "close", "resultErrors", "print">>

\* the GUI's do_command, which shows an error in a message box
Boxed(body) == <<"try">> \o body \o <<"messageBox">>

\* what process_commands does with the list: print it, or find_device by the
\* model or by the fingerprint and then run a command on the client
FindByModel == <<"matchModel", "new", "command">>
FindByFingerprint == <<"try", "new", "lookup", "compare", "except", "command">>
WithDevices == {<<"list", "print">>, FindByModel, FindByFingerprint}

Bodies == {PromptPin, SendPin, GetXpub \o <<"xpub">>}

NoEntry == [model |-> FALSE, pin |-> FALSE, fingerprint |-> FALSE]

At(p, step) == todo[p] # <<>> /\ Head(todo[p]) = step

\* Blocks are entered and left on the way to the next step.
Blocks == Catches \cup {"try"}
Trim(s) ==
    LET steps == {i \in DOMAIN s : s[i] \notin Blocks}
    IN IF steps = {} THEN <<>>
       ELSE SubSeq(s, CHOOSE i \in steps : \A j \in steps : i <= j, Len(s))

\* The step is done, and others come before what was left.
Replace(p, s) ==
    /\ todo' = [todo EXCEPT ![p] = Trim(s)]
    /\ UNCHANGED <<entry, report>>

Continue(p) == Replace(p, Tail(todo[p]))

\* An exception: which block of s catches it ("try" if none), and what s
\* goes on with.
CaughtBy(s) ==
    LET ends == {i \in DOMAIN s : s[i] \in Blocks}
    IN IF ends = {} THEN "try" ELSE s[CHOOSE i \in ends : \A j \in ends : i <= j]

AfterRaise(s) ==
    LET ends == {i \in DOMAIN s : s[i] \in Catches}
        first == CHOOSE i \in ends : \A j \in ends : i <= j
    IN CASE CaughtBy(s) = "try" -> <<>>
         [] CaughtBy(s) = "except" -> <<"close", "notFound", "print">>
         [] OTHER -> Trim(SubSeq(s, first + 1, Len(s)))

Raise(p) ==
    LET block == CaughtBy(todo[p])
    IN /\ todo' = [todo EXCEPT ![p] = AfterRaise(@)]
       /\ entry' = IF block = "try" THEN [entry EXCEPT ![p] = NoEntry] ELSE entry
       /\ report' = CASE block = "resultErrors" -> [report EXCEPT ![p].error = TRUE]
                      [] block = "try" /\ p # Gui -> [report EXCEPT ![p].status = "crashed"]
                      [] OTHER -> report

Init ==
    /\ SessionInit
    /\ dev \in {"locked", "unlocked"}
    /\ todo = [p \in Proc |-> <<>>]
    /\ cur = [p \in Proc |-> NoClient]
    /\ entered = [p \in Proc |-> FALSE]
    /\ entry = [p \in Proc |-> NoEntry]
    /\ answer = [p \in Proc |-> "none"]
    /\ report = [p \in Proc |-> [status |-> "idle", error |-> FALSE]]
    /\ gui = [client |-> NoClient, dialog |-> NoClient, asking |-> FALSE,
              sendpin |-> FALSE, commands |-> FALSE, connected |-> TRUE,
              device |-> NoEntry, index |-> 0]

----------------------------------------------------------------------------
(* Steps of a client                                                       *)

\* Clients some process still refers to; the GUI's dialog is one reference.
Referenced(c) ==
    \/ c \in {gui.client, gui.dialog}
    \/ c = cur[Gui] /\ todo[Gui] # <<>>
    \/ \E p \in Cli : c = cur[p]

Unused == {c \in Client : ~Referenced(c) /\ claim # c}

\* commands.get_client: a new TrezorClient, which does not talk to the device.
\* The model does not follow what is started when the device is gone.
New(p) ==
    /\ At(p, "new") /\ plugged
    /\ Reset(Unused)
    /\ \E c \in Unused : cur' = [cur EXCEPT ![p] = c]
    /\ Continue(p)
    /\ UNCHANGED <<dev, entered, answer, gui>>

\* open(), either as a step of prompt_pin and send_pin or on the way into a
\* call; a client that is None raises as well.
OpenClient(p) ==
    /\ \/ At(p, "open")
       \/ \E call \in Calls : At(p, call) /\ ~entered[p]
    /\ \/ /\ cur[p] # NoClient
          /\ Open(cur[p])
          /\ IF At(p, "open")
             THEN Continue(p) /\ UNCHANGED entered
             ELSE entered' = [entered EXCEPT ![p] = TRUE] /\ UNCHANGED <<todo, entry, report>>
       \/ /\ cur[p] # NoClient
          /\ OpenRaises(cur[p])
          /\ Raise(p)
          /\ UNCHANGED entered
       \/ /\ cur[p] = NoClient
          /\ Raise(p)
          /\ UNCHANGED <<sessionVars, entered>>
    /\ UNCHANGED <<dev, cur, answer, gui>>

\* A call's exchange with the device and the close() that ends its session.
Calling(p, call) ==
    /\ At(p, call)
    /\ entered[p] /\ plugged
    /\ cur[p] # NoClient
    /\ Close(cur[p])
    /\ entered' = [entered EXCEPT ![p] = FALSE]
    /\ UNCHANGED <<cur, answer, gui>>

\* An exchange with a device that is gone raises, whatever becomes of the
\* close() behind it.
Disconnected(p) ==
    /\ ~plugged
    /\ \/ /\ \E call \in Calls : At(p, call)
          /\ entered[p]
          /\ cur[p] # NoClient
          /\ Close(cur[p]) \/ CloseRaises(cur[p])
       \/ /\ At(p, "prompt") \/ At(p, "ack")
          /\ UNCHANGED sessionVars
    /\ Raise(p)
    /\ entered' = [entered EXCEPT ![p] = FALSE]
    /\ UNCHANGED <<dev, cur, answer, gui>>

\* refresh_features, for the model's sake; a device that waits for a PIN may
\* refuse GetFeatures.
RefreshFeatures(p) ==
    /\ Calling(p, "refresh")
    /\ \/ Continue(p)
       \/ dev = "prompting" /\ Raise(p)
    /\ UNCHANGED dev

\* init_device and the check of the features it read: Initialize takes a
\* pending PIN prompt off the screen.
InitDevice(p, call, wanted) ==
    /\ Calling(p, call)
    /\ IF wanted = (dev = "unlocked") THEN Continue(p) ELSE Raise(p)
    /\ dev' = IF dev = "prompting" THEN "locked" ELSE dev

CheckUnlocked(p) == InitDevice(p, "initUnlocked", TRUE)

CheckLocked(p) == InitDevice(p, "initLocked", FALSE)

\* enumerate's model and needs_pin_sent survive the exception for a locked device.
Describe(p) ==
    /\ Calling(p, "initModel")
    /\ entry' = [entry EXCEPT ![p].model = TRUE, ![p].pin = dev # "unlocked"]
    /\ todo' = [todo EXCEPT ![p] = IF dev = "unlocked" THEN Tail(@) ELSE AfterRaise(@)]
    /\ dev' = IF dev = "prompting" THEN "locked" ELSE dev
    /\ UNCHANGED report

\* get_public_node; a locked device asks for the PIN, and PassphraseUI.get_pin
\* raises without cancelling the request.
GetPublicNode(p) ==
    /\ Calling(p, "pubkey")
    /\ IF dev = "unlocked" THEN Continue(p) ELSE Raise(p)
    /\ dev' = IF dev = "locked" THEN "prompting" ELSE dev

\* prompt_pin's raw GetPublicKey: whatever the device replies, it returns True.
Prompt(p) ==
    /\ At(p, "prompt") /\ plugged
    /\ dev' = IF dev = "locked" THEN "prompting" ELSE dev
    /\ answer' = [answer EXCEPT ![p] = "prompted"]
    /\ Continue(p)
    /\ UNCHANGED <<sessionVars, cur, entered, gui>>

\* send_pin after its open(): a malformed PIN raises; a refused one is told
\* from a superfluous one by reading the features again.
Ack(p) ==
    /\ At(p, "ack") /\ plugged
    /\ \E pin \in {"right", "wrong", "malformed"} :
        LET accepted == pin = "right" /\ dev = "prompting"
        IN /\ dev' = CASE pin = "malformed" \/ dev # "prompting" -> dev
                       [] accepted -> "unlocked"
                       [] OTHER -> "locked"
           /\ IF pin = "malformed" \/ dev = "unlocked"
              THEN Raise(p) /\ UNCHANGED answer
              ELSE /\ answer' = [answer EXCEPT ![p] = IF accepted THEN "accepted" ELSE "refused"]
                   /\ Continue(p)
    /\ UNCHANGED <<sessionVars, cur, entered, gui>>

CloseClient(p) ==
    /\ At(p, "close")
    /\ cur[p] # NoClient
    /\ \/ Close(cur[p]) /\ Continue(p)
       \/ CloseRaises(cur[p]) /\ Raise(p)
    /\ UNCHANGED <<dev, cur, entered, answer, gui>>

----------------------------------------------------------------------------
(* Steps of enumerate, find_device and process_commands                    *)

\* enumerate has got the fingerprint.
Fingerprint(p) ==
    /\ At(p, "fingerprint")
    /\ entry' = [entry EXCEPT ![p].fingerprint = TRUE]
    /\ todo' = [todo EXCEPT ![p] = Trim(Tail(@))]
    /\ UNCHANGED <<sessionVars, dev, cur, entered, answer, report, gui>>

\* find_device reads d['model'] of an entry that may not have one.
MatchModel(p) ==
    /\ At(p, "matchModel")
    /\ IF entry[p].model THEN Continue(p) ELSE Raise(p)
    /\ UNCHANGED <<sessionVars, dev, cur, entered, answer, gui>>

\* find_device asks the device for the fingerprint the list does not have.
Lookup(p) ==
    /\ At(p, "lookup")
    /\ Replace(p, (IF entry[p].fingerprint THEN <<>> ELSE GetXpub) \o Tail(todo[p]))
    /\ UNCHANGED <<sessionVars, dev, cur, entered, answer, gui>>

\* find_device keeps the client, or closes it and finds no other device.
Compare(p) ==
    /\ At(p, "compare")
    /\ \/ Continue(p)
       \/ Replace(p, <<"close", "except", "notFound", "print">>)
    /\ UNCHANGED <<sessionVars, dev, cur, entered, answer, gui>>

\* The arguments of the command line are only read here: what to do with the
\* list, and which command to run.
Choose(p) ==
    /\ \/ At(p, "devices") /\ \E steps \in WithDevices : Replace(p, steps)
       \/ At(p, "command") /\ \E body \in Bodies : Replace(p, DoCommand(body))
    /\ UNCHANGED <<sessionVars, dev, cur, entered, answer, gui>>

\* The command's result: a key or the list, "could not find device", and the
\* output.
Report(p) ==
    /\ \/ /\ \/ At(p, "xpub")
             \/ At(p, "list")
          /\ answer' = [answer EXCEPT ![p] = Head(todo[p])]
          /\ UNCHANGED report
       \/ /\ At(p, "notFound")
          /\ report' = [report EXCEPT ![p].error = TRUE]
          /\ UNCHANGED answer
       \/ /\ At(p, "print")
          /\ report' = [report EXCEPT ![p].status = "printed"]
          /\ UNCHANGED answer
    /\ todo' = [todo EXCEPT ![p] = Trim(Tail(@))]
    /\ UNCHANGED <<sessionVars, dev, cur, entered, entry, gui>>

Start(p) ==
    /\ report[p].status = "idle"
    /\ \E program \in {<<"new", "command">>, Enumerate \o <<"devices">>} :
          todo' = [todo EXCEPT ![p] = Trim(program)]
    /\ report' = [report EXCEPT ![p].status = "running"]
    /\ UNCHANGED <<sessionVars, dev, cur, entered, entry, answer, gui>>

\* The process ends, after its output, a traceback or the user's interrupt;
\* the operating system releases what it held.
Exit(p) ==
    /\ report[p].status # "idle"
    /\ Reset({cur[p]})
    /\ todo' = [todo EXCEPT ![p] = <<>>]
    /\ cur' = [cur EXCEPT ![p] = NoClient]
    /\ entered' = [entered EXCEPT ![p] = FALSE]
    /\ entry' = [entry EXCEPT ![p] = NoEntry]
    /\ answer' = [answer EXCEPT ![p] = "none"]
    /\ report' = [report EXCEPT ![p] = [status |-> "idle", error |-> FALSE]]
    /\ UNCHANGED <<dev, gui>>

----------------------------------------------------------------------------
(* The graphical interface                                                 *)

\* The GUI handles an event when no slot runs; a modal dialog takes them all.
Idle == todo[Gui] = <<>> /\ ~gui.asking

\* A slot starts: its steps, on client c.
Slot(c, steps) ==
    /\ Replace(Gui, steps)
    /\ cur' = [cur EXCEPT ![Gui] = c]
    /\ answer' = [answer EXCEPT ![Gui] = "none"]
    /\ UNCHANGED <<dev, entered>>

RefreshSteps ==
    (IF gui.client = NoClient THEN <<>> ELSE <<"closeSelf">>) \o Enumerate \o <<"fill">>

RefreshClicked ==
    /\ Idle
    /\ Slot(NoClient, RefreshSteps)
    /\ UNCHANGED <<sessionVars, gui>>

CloseSelf ==
    /\ At(Gui, "closeSelf")
    /\ gui.client # NoClient
    /\ \/ /\ Close(gui.client)
          /\ Continue(Gui)
          /\ gui' = [gui EXCEPT !.client = NoClient]
       \/ CloseRaises(gui.client) /\ Raise(Gui) /\ UNCHANGED gui
    /\ UNCHANGED <<dev, cur, entered, answer>>

\* The list is shown.  disconnect() raises on a signal that an earlier failure
\* left disconnected, and dev['model'] raises between disconnect and connect.
Fill ==
    LET shown == [gui EXCEPT !.device = entry[Gui]]
    IN /\ At(Gui, "fill")
       /\ gui' = CASE ~gui.connected -> shown
                   [] gui.connected /\ ~entry[Gui].model ->
                        [shown EXCEPT !.index = 0, !.connected = FALSE]
                   [] OTHER -> [shown EXCEPT !.index = 0, !.commands = FALSE]
       /\ IF gui.connected /\ entry[Gui].model
          THEN todo' = [todo EXCEPT ![Gui] = Trim(Tail(@))]
          ELSE todo' = [todo EXCEPT ![Gui] = <<>>]
       /\ entry' = [entry EXCEPT ![Gui] = NoEntry]
       /\ cur' = [cur EXCEPT ![Gui] = NoClient]
       /\ UNCHANGED <<sessionVars, dev, entered, answer, report>>

\* get_client_and_device_info(1) and get_device_info: a client replaces the
\* one before it; the buttons follow the enumerated needs_pin_sent.
GetClientAndDeviceInfo(steps) ==
    \E c \in Unused :
        /\ plugged
        /\ Reset(Unused)
        /\ gui' = [gui EXCEPT !.index = 1, !.client = c, !.sendpin = gui.device.pin,
                              !.commands = ~gui.device.pin]
        /\ Slot(c, steps \o IF gui.device.pin THEN <<>>
                            ELSE Boxed(GetXpub) \o Boxed(GetXpub))

SelectDevice ==
    /\ Idle
    /\ gui.index = 0
    /\ gui.connected /\ gui.device.model
    /\ GetClientAndDeviceInfo(<<>>)

\* sendpindialog_accepted puts the index back after its refresh.
Reselect ==
    /\ At(Gui, "reselect")
    /\ GetClientAndDeviceInfo(Tail(todo[Gui]))

\* get_client_and_device_info(0); the client stays.
SelectNone ==
    /\ Idle
    /\ gui.index = 1
    /\ gui' = [gui EXCEPT !.index = 0, !.sendpin = FALSE, !.commands = FALSE]
    /\ UNCHANGED <<sessionVars, dev, procVars>>

\* show_sendpindialog: SendPinDialog's constructor prompts, then it is shown.
SendPinClicked ==
    /\ Idle
    /\ gui.sendpin
    /\ gui.client # NoClient => counter[gui.client] < MaxPrompts
    /\ Slot(gui.client, Boxed(PromptPin) \o <<"showDialog">>)
    /\ UNCHANGED <<sessionVars, gui>>

ShowDialog ==
    /\ At(Gui, "showDialog")
    /\ gui' = [gui EXCEPT !.asking = TRUE, !.dialog = gui.client]
    /\ Continue(Gui)
    /\ UNCHANGED <<sessionVars, dev, cur, entered, answer>>

\* Both sendpindialog_accepted slots, the dialog's and HWIQt's.
DialogAccepted ==
    /\ gui.asking
    /\ Slot(gui.dialog, Boxed(SendPin) \o <<"closeDialog">> \o RefreshSteps
                          \o IF gui.index = 1 THEN <<"reselect">> ELSE <<>>)
    /\ gui' = [gui EXCEPT !.asking = FALSE]
    /\ UNCHANGED sessionVars

CloseDialog ==
    /\ At(Gui, "closeDialog")
    /\ \/ /\ gui.dialog # NoClient
          /\ Close(gui.dialog)
          /\ Continue(Gui)
          /\ gui' = [gui EXCEPT !.dialog = NoClient]
       \/ /\ gui.dialog # NoClient
          /\ CloseRaises(gui.dialog)
          /\ Raise(Gui)
          /\ UNCHANGED gui
       \/ /\ gui.dialog = NoClient
          /\ Raise(Gui)
          /\ UNCHANGED <<sessionVars, gui>>
    /\ answer' = [answer EXCEPT ![Gui] = "none"]
    /\ UNCHANGED <<dev, cur, entered>>

\* The dialog is dismissed; current_dialog goes on referring to it.
DialogRejected ==
    /\ gui.asking
    /\ gui' = [gui EXCEPT !.asking = FALSE]
    /\ UNCHANGED <<sessionVars, dev, procVars>>

\* A command button opens a dialog on self.client, which runs its command.
CommandClicked ==
    /\ Idle
    /\ gui.commands
    /\ Slot(gui.client, Boxed(GetXpub))
    /\ gui' = [gui EXCEPT !.dialog = gui.client]
    /\ UNCHANGED sessionVars

\* The interpreter may drop a client nobody refers to, at any time or never.
Collect ==
    /\ claim # NoClient
    /\ ~Referenced(claim)
    /\ Reset({claim})
    /\ UNCHANGED <<dev, procVars, gui>>

\* The device locks itself after a time without use.
AutoLock ==
    /\ dev = "unlocked"
    /\ dev' = "locked"
    /\ UNCHANGED <<sessionVars, procVars, gui>>

\* The device is pulled out, and loses its power.
Unplug ==
    /\ PullOut
    /\ dev' = "locked"
    /\ UNCHANGED <<procVars, gui>>

----------------------------------------------------------------------------
ClientStep(p) ==
    \/ New(p) \/ OpenClient(p) \/ RefreshFeatures(p) \/ CheckUnlocked(p)
    \/ CheckLocked(p) \/ Describe(p) \/ GetPublicNode(p) \/ Prompt(p)
    \/ Ack(p) \/ Disconnected(p) \/ Fingerprint(p) \/ CloseClient(p)

CliStep(p) ==
    \/ ClientStep(p) \/ Choose(p) \/ MatchModel(p) \/ Lookup(p) \/ Compare(p) \/ Report(p)

GuiStep ==
    \/ ClientStep(Gui) \/ CloseSelf \/ Fill \/ Reselect \/ ShowDialog \/ CloseDialog

GuiEvent ==
    \/ RefreshClicked \/ SelectDevice \/ SelectNone \/ SendPinClicked
    \/ DialogAccepted \/ DialogRejected \/ CommandClicked

Next ==
    \/ \E p \in Cli : CliStep(p) \/ Start(p) \/ Exit(p)
    \/ GuiStep \/ GuiEvent
    \/ Collect \/ AutoLock \/ Unplug

Spec == Init /\ [][Next]_vars
----------------------------------------------------------------------------
(* Properties                                                              *)

\* A step of p that closes its client is still to come.
WillClose(p) == \E i \in DOMAIN todo[p] : todo[p][i] = "close"

(***************************************************************************)
(* Once prompt_pin has returned True the device shows the PIN prompt, and  *)
(* nothing takes it away before the process lets go of its client: for     *)
(* promptpin until its close(), in the GUI for as long as the dialog waits *)
(* for the user and beyond.  prompt_pin ignores the device's reply, and    *)
(* any enumerate of another process would cancel the prompt; it is the     *)
(* open() that prompt_pin does not match with a close() that keeps others  *)
(* out.  Only pulling the device out ends the prompt.                      *)
(***************************************************************************)
PromptHeld ==
    \A p \in Proc :
        answer[p] = "prompted" /\ (p = Gui \/ WillClose(p))
            => ~plugged \/ (dev = "prompting" /\ claim = cur[p])

(***************************************************************************)
(* A command line process that has printed its result no longer holds the  *)
(* interface, although prompt_pin and send_pin open the client without     *)
(* closing it: process_commands' one close() makes up for it on every path *)
(* that prints, the failing ones included.                                 *)
(***************************************************************************)
ReleasedWhenPrinted ==
    \A p \in Cli : report[p].status = "printed" => claim # cur[p] \/ cur[p] = NoClient

(***************************************************************************)
(* What is printed is an answer or an error, never neither.  The error of  *)
(* a failing close() is written into the same dictionary as the command's  *)
(* result (_cli.py:328), so that both are printed when the device was      *)
(* pulled out behind the command; a close() that fails for the other       *)
(* reason, an interface that another process holds, never follows a        *)
(* success.                                                                *)
(***************************************************************************)
AnswerOrError ==
    \A p \in Cli : At(p, "print") =>
        /\ answer[p] = "none" => report[p].error
        /\ answer[p] # "none" /\ report[p].error => ~plugged

(***************************************************************************)
(* "Responses are in JSON format" (_cli.py, get_parser): a command line    *)
(* process never ends with a traceback instead of a result.                *)
(***************************************************************************)
RespondsInJson == \A p \in Cli : report[p].status # "crashed"
=============================================================================
