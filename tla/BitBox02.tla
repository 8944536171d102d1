------------------------------ MODULE BitBox02 ------------------------------
(***************************************************************************)
(* The client of the BitBox02: the requests of bitbox_api_protocol.py with *)
(* their polling, the pairing and the encrypted channel, the methods of    *)
(* BitBox02Api and the dialogue of btc_sign.  One query of the transport   *)
(* and its answer are one step (Framing has the frames).  The device, its  *)
(* user and another application that uses the device are external.         *)
(*                                                                         *)
(* A request is known by its channel id, drawn anew for every request.     *)
(* The encrypted channel counts its messages in both directions; here one  *)
(* number for the requests and one for the answers.                        *)
(***************************************************************************)
EXTENDS BitBox02Api

CONSTANTS
    Versions,     \* firmware versions
    Keys,         \* static keys of devices
    Inputs,       \* inputs of the transaction: [schnorr, prev]
    Outputs,      \* number of its outputs
    MaxCommands,  \* bound: commands
    MaxFaults,    \* bound: broken transports, killed processes, cancels
    MaxAsks,      \* bound: further chunks or values the device asks for
    Commands,     \* the commands called
    Alone         \* bound: the commands that are called once, and no other after them

ASSUME BitBox02Assumption ==
    /\ Versions \subseteq Nat
    /\ Inputs \in Seq([schnorr : BOOLEAN, prev : BOOLEAN]) /\ Inputs # <<>>
    /\ Outputs \in Nat
    /\ MaxCommands \in Nat /\ MaxFaults \in Nat /\ MaxAsks \in Nat
    /\ Commands \subseteq
          {"setup_device", "restore_device", "wipe_device", "backup_device", "toggle_passphrase", "sign_tx",
           "sign_tx_multisig", "sign_message", "sign_message_test", "get_pubkey_at_path",
           "display_singlesig_address", "display_bip388_policy_address", "display_multisig_address",
           "register_descriptor", "enumerate", "sdcard", "names", "bip85", "scripts", "eth", "eth_new",
           "cardano", "bluetooth", "reboot"}

VARIABLES
    known,      \* device keys in the configuration file
    confirmed,  \* device keys whose pairing code the user compared on both sides
    host,       \* the client
    sign,       \* btc_sign: what it asked last, second pass, signatures
    dev,        \* the device
    job,        \* the request the device works on
    used        \* how much of each bound is used

vars == <<known, confirmed, host, sign, dev, job, used>>

n == Len(Inputs)
AllTaproot == \A i \in 1..n : Inputs[i].schnorr

\* enumerate asks for the device's information after init, also when init
\* failed, and outside handle_errors.
InfoAgain == <<Step("raw", "info_again")>>

Program(c, ver) ==
    CASE c = "setup_device" -> setup_device(TRUE)
      [] c = "restore_device" -> restore_device(TRUE)
      [] c = "wipe_device" -> wipe_device
      [] c = "backup_device" -> backup_device
      [] c = "toggle_passphrase" -> toggle_passphrase
      [] c = "sign_tx" -> sign_tx(FALSE, FALSE, \E i \in 1..n : Inputs[i].schnorr)
      [] c = "sign_tx_multisig" -> sign_tx(TRUE, TRUE, \E i \in 1..n : Inputs[i].schnorr)
      [] c = "sign_message" -> sign_message(ver, FALSE)
      [] c = "sign_message_test" -> sign_message(ver, TRUE)
      [] c = "get_pubkey_at_path" -> get_pubkey_at_path
      [] c = "display_singlesig_address" -> display_singlesig_address
      [] c = "display_bip388_policy_address" -> display_bip388_policy_address
      [] c = "display_multisig_address" -> display_multisig_address
      [] c = "register_descriptor" -> register_descriptor
      [] c = "enumerate" -> InfoAgain \o device_info \o root_fingerprint
      [] c = "sdcard" -> check_sdcard \o list_backups \o check_backup \o restore_backup
      [] c = "names" -> set_device_name \o electrum_encryption_key \o set_password(16)
      [] c = "bip85" -> bip85_ln \o bip85_bip39
      [] c = "scripts" -> btc_is_script_config_registered \o btc_register_script_config(FALSE)
      [] c = "eth" -> eth_pub \o eth_sign(ver, FALSE) \o eth_sign_msg(ver)
      [] c = "eth_new" -> eth_sign(ver, TRUE) \o eth_sign_typed_msg
      [] c = "cardano" -> cardano_xpubs \o cardano_address \o cardano_sign_transaction(TRUE)
      [] c = "bluetooth" -> bluetooth_toggle_enabled \o bluetooth_upgrade
      [] c = "reboot" -> reboot

\* What init requires of the device before the command goes on.
Expected(c) ==
    CASE c \in {"setup_device", "restore_device"} -> {FALSE}
      [] c = "enumerate" -> BOOLEAN
      [] OTHER -> {TRUE}

----------------------------------------------------------------------------
(* States                                                                  *)

NoHost == [open |-> FALSE, link |-> FALSE, silent |-> FALSE, bb02 |-> FALSE, cmd |-> "none", last |-> "none", todo |-> <<>>,
           q |-> "none", id |-> 0, chan |-> 0, key |-> 0, sent |-> 0, lost |-> FALSE, cancel |-> FALSE,
           seen |-> FALSE, outcome |-> "none"]
NoSign == [pass2 |-> FALSE, sigs |-> <<>>]
Fresh(ver, key) ==
    [ver |-> ver, key |-> key, works |-> TRUE, trusts |-> FALSE, initialized |-> FALSE, backup |-> FALSE,
     passphrase |-> FALSE, registered |-> FALSE, stage |-> 0, chan |-> 0, rcvd |-> 0, k |-> 0]
NoJob == [id |-> 0, st |-> "none", step |-> Step("query", "none"), chan |-> 0, no |-> 0, ans |-> [kind |-> "none"]]

Init ==
    /\ known = {}
    /\ confirmed = {}
    /\ host = NoHost
    /\ sign = NoSign
    /\ \E ver \in Versions, key \in Keys, ready \in BOOLEAN :
          dev = [Fresh(ver, key) EXCEPT !.initialized = ready]
    /\ job = NoJob
    /\ used = [commands |-> 0, faults |-> 0, asks |-> 0, ids |-> 0]

----------------------------------------------------------------------------
(* Ends of a command                                                       *)

Ended(h, how) == [h EXCEPT !.cmd = "none", !.todo = <<>>, !.q = "none", !.outcome = how]

\* enumerate turns failures into an entry of its list, except those of the
\* query for the device's information.
Failed(h, how) ==
    IF h.cmd # "enumerate" THEN Ended(h, how)
    ELSE IF Head(h.todo).m = "info_again" THEN Ended(h, "raised")
    ELSE IF Head(h.todo).m \in {"device_info", "fingerprint"} THEN Ended(h, "entry")
    ELSE [h EXCEPT !.todo = InfoAgain, !.q = "none"]

\* What bitbox02_exception makes of an error of the device.
bitbox02_exception(error) ==
    CASE error = "abort" -> "canceled"
      [] error = "generic" -> "deviceFailure"
      [] OTHER -> "raw"

Open ==
    /\ ~host.open
    /\ dev.works
    /\ used.commands < MaxCommands
    /\ \E silent \in BOOLEAN : host' = [NoHost EXCEPT !.open = TRUE, !.link = TRUE, !.silent = silent]
    /\ UNCHANGED <<known, confirmed, sign, dev, job, used>>

Close ==
    /\ host.open
    /\ host.cmd = "none"
    /\ host' = NoHost
    /\ UNCHANGED <<known, confirmed, sign, dev, job, used>>

\* A client that is connected keeps its connection and is not asked again
\* whether it is initialized.
Begin(c) ==
    /\ host.open
    /\ host.cmd = "none"
    /\ used.commands < (IF c \in Alone THEN 1 ELSE MaxCommands)
    /\ c = "enumerate" => host.silent
    /\ used' = [used EXCEPT !.commands = IF c \in Alone THEN MaxCommands ELSE @ + 1]
    /\ host' = [host EXCEPT !.cmd = c, !.last = c, !.outcome = "none",
                            !.todo = IF host.bb02 THEN Program(c, dev.ver) ELSE <<Step("raw", "info")>>]
    /\ sign' = NoSign
    /\ UNCHANGED <<known, confirmed, dev, job>>

Return ==
    /\ host.cmd # "none"
    /\ host.todo = <<>>
    /\ host' = Ended(host, "ok")
    /\ UNCHANGED <<known, confirmed, sign, dev, job, used>>

----------------------------------------------------------------------------
(* Requests                                                                *)

Now == Head(host.todo)

\* _require_atleast
Require ==
    /\ host.q = "none" /\ host.todo # <<>>
    /\ Now.op = "need" \/ Now.v > dev.ver
    /\ host' = IF Now.v > dev.ver THEN Failed(host, "unsupported") ELSE [host EXCEPT !.todo = Tail(@)]
    /\ UNCHANGED <<known, confirmed, sign, dev, job, used>>

\* REQ_INFO is answered whatever the device does.
Connecting(ver) ==
    When(ver >= V(2, 0), <<Step("raw", "attestation"), Step("raw", "unlock")>>)
        \o <<Step("raw", "start"), Step("raw", "handshake1"), Step("raw", "handshake2")>>

GetInfo ==
    /\ host.q = "none" /\ host.todo # <<>>
    /\ Now.m \in {"info", "info_again"}
    /\ host' = IF ~(host.link /\ dev.works) THEN Failed(host, "raw")
               ELSE IF Now.m = "info_again" THEN [host EXCEPT !.todo = Tail(@)]
               ELSE IF dev.ver >= V(10, 0) THEN Failed(host, "outdatedLibrary")
               ELSE [host EXCEPT !.todo = Connecting(dev.ver)]
    /\ UNCHANGED <<known, confirmed, sign, dev, job, used>>

Ask ==
    /\ host.q = "none" /\ host.todo # <<>>
    /\ Now.op \in {"raw", "query", "loop", "unless", "toggle", "sign"}
    /\ Now.m \notin {"info", "info_again"} /\ Now.v <= dev.ver
    /\ used' = [used EXCEPT !.ids = @ + 1]
    /\ host' = IF ~host.link THEN Failed(host, "raw")
               ELSE [host EXCEPT !.q = "new", !.id = used.ids + 1,
                                 !.sent = IF Now.op = "raw" THEN @ ELSE @ + 1]
    /\ UNCHANGED <<known, confirmed, sign, dev, job>>

\* REQ_NEW, sent again while the device is busy; firmware before 7.0 knows
\* no outstanding requests.  A cancel asked for until here is forgotten.
NewRequest ==
    /\ host.q = "new"
    /\ dev.works
    /\ job.st = "none" \/ dev.ver < V(7, 0)
    /\ job' = [NoJob EXCEPT !.id = host.id, !.st = "working", !.step = Now, !.chan = host.chan, !.no = host.sent]
    /\ host' = [host EXCEPT !.q = "poll", !.cancel = FALSE]
    /\ UNCHANGED <<known, confirmed, sign, dev, used>>

\* Mutant: the polling ignores cancel_requested.
ToSend_Retry == "retry"

\* What the polling sends while the answer is not ready.
ToSend == IF host.cancel /\ dev.ver >= V(7, 0) THEN "cancel" ELSE "retry"

cancel_outstanding_request ==
    /\ host.q # "none"
    /\ ~host.cancel
    /\ used.faults < MaxFaults
    /\ used' = [used EXCEPT !.faults = @ + 1]
    /\ host' = [host EXCEPT !.cancel = TRUE]
    /\ UNCHANGED <<known, confirmed, sign, dev, job>>

----------------------------------------------------------------------------
(* Answers outside the encrypted channel                                   *)

Proceed(h) == [h EXCEPT !.todo = Tail(@), !.q = "none"]
Closed(h, how) == Failed([h EXCEPT !.link = FALSE, !.q = "none"], how)

\* Mutant: the key is stored before the user's answer is looked at.
Remembers_Always(ok) == TRUE

\* _create_noise_channel stores the key when both sides have confirmed.
Remembers(ok) == ok

\* init: the version, then device_info, which is a query of its own.
AfterPairing(h) ==
    IF dev.ver < V(9, 0) THEN Failed([h EXCEPT !.bb02 = FALSE, !.q = "none"], "notReady")
    ELSE [h EXCEPT !.todo = <<Step("query", "init_info")>>, !.q = "none", !.bb02 = TRUE]

RawAnswer(a) ==
    CASE Now.m = "attestation" -> Proceed(host)
      [] Now.m = "unlock" /\ dev.ver < V(3, 0) -> Proceed(host)
      [] Now.m \in {"start", "handshake1"} \/ (Now.m = "unlock" /\ ~(dev.ver < V(3, 0))) ->
            IF a.ok THEN Proceed(host) ELSE Closed(host, "raw")
      [] Now.m = "handshake2" ->
            IF ~a.ok THEN Closed(host, "raw")
            ELSE LET h == [host EXCEPT !.chan = a.chan, !.key = a.key, !.sent = 0, !.lost = FALSE] IN
                 IF a.key \in known /\ ~a.verify THEN AfterPairing(h)
                 ELSE IF host.silent THEN Failed([h EXCEPT !.chan = 0], "notReady")
                 ELSE [h EXCEPT !.todo = <<Step("raw", "verify")>>, !.q = "none"]
      [] Now.m = "verify" ->
            IF a.ok THEN [host EXCEPT !.todo = <<Step("ask", "confirm")>>, !.q = "none"]
            ELSE Closed([host EXCEPT !.chan = 0], "raw")

\* The user's answer at the terminal.
Confirm ==
    /\ host.todo # <<>> /\ Now.m = "confirm"
    /\ \E ok \in BOOLEAN :
          /\ host' = IF ok THEN AfterPairing(host) ELSE Closed([host EXCEPT !.chan = 0], "raw")
          /\ known' = known \cup (IF Remembers(ok) THEN {host.key} ELSE {})
          /\ confirmed' = confirmed \cup (IF ok THEN {host.key} ELSE {})
    /\ UNCHANGED <<sign, dev, job, used>>

----------------------------------------------------------------------------
(* Answers of methods                                                      *)

\* Mutant: the passphrase is enabled when it is enabled already.
Toggled_Same(enabled) == IF enabled THEN enable_mnemonic_passphrase ELSE disable_mnemonic_passphrase

Toggled(enabled) == IF enabled THEN disable_mnemonic_passphrase ELSE enable_mnemonic_passphrase

\* device_info in init, then the command itself.
InitInfo(a) ==
    IF a.initialized \in Expected(host.cmd)
    THEN [host EXCEPT !.todo = Program(host.cmd, dev.ver), !.q = "none"]
    ELSE Failed(host, "badState")

MethodAnswer(a) ==
    CASE a.kind = "error" ->
            IF a.code \in Now.on THEN Ended(host, "false") ELSE Failed(host, bitbox02_exception(a.code))
      [] a.kind = "again" -> [host EXCEPT !.q = "none"]
      [] a.kind = "info" /\ Now.m = "init_info" -> InitInfo(a)
      [] a.kind = "info" /\ Now.m = "device_info" /\ Now.op = "query" ->
            IF a.initialized THEN Proceed(host) ELSE Failed(host, "badState")
      [] a.kind = "info" /\ Now.op = "toggle" ->
            [host EXCEPT !.todo = Toggled(a.passphrase), !.q = "none", !.seen = a.passphrase]
      [] a.kind = "registered" ->
            [host EXCEPT !.q = "none",
                         !.todo = IF Now.op = "unless" /\ a.yes THEN Tail(Tail(@)) ELSE Tail(@)]
      \* antiklepto_verify
      [] a.kind = "signature" -> IF a.honest THEN Proceed(host) ELSE Failed(host, "raw")
      [] OTHER -> Proceed(host)

----------------------------------------------------------------------------
(* btc_sign                                                                *)

needsPrev == ~AllTaproot
SupportsAntiklepto == dev.ver >= V(9, 4)

perform_antiklepto(g, i) == SupportsAntiklepto /\ g.pass2 /\ ~Inputs[i].schnorr

\* Mutant: one input too far.
EndsPass_Late(i) == i = n + 1

EndsPass(i) == i = n

\* The query for what the device asks next.  `g' is the state of the loop.
NextQuery(g, a) ==
    CASE a.type = "INPUT" ->
            [Step("sign", "btc_sign_input") EXCEPT !.i = a.index, !.commit = perform_antiklepto(g, a.index)]
      [] a.type = "OUTPUT" -> [Step("sign", "btc_sign_output") EXCEPT !.i = a.index]
      [] OTHER -> [Step("sign", "prevtx") EXCEPT !.i = a.index]

Turn(g, a) ==
    IF a.type = "DONE" THEN Proceed(host)
    ELSE IF a.type = "PREVTX" /\ ~Inputs[a.index].prev THEN Failed(host, "raw")
    ELSE IF a.type = "HOST_NONCE" THEN Failed(host, "raw")
    ELSE [host EXCEPT !.todo = <<NextQuery(g, a)>> \o Tail(@), !.q = "none"]

\* Mutant: the device's contribution is taken on trust.
antiklepto_verify_Not(a) == TRUE

antiklepto_verify(a) == a.honest

\* The assertions on the answer to an input: in the second pass it has a
\* signature, which is checked when the host contributed to the nonce.
Accepted(a) == sign.pass2 => a.sig /\ (Now.nonce => antiklepto_verify(a))

AfterInput(a, i) ==
    LET g == [sign EXCEPT !.pass2 = @ \/ EndsPass(i),
                          !.sigs = IF sign.pass2 THEN Append(@, [index |-> i, of |-> a.of, honest |-> a.honest]) ELSE @]
    IN /\ sign' = g
       /\ host' = Turn(g, a)

SignAnswer(a) ==
    \/ /\ a.kind = "error"
       /\ host' = Failed(host, bitbox02_exception(a.code))
       /\ UNCHANGED sign
    \/ /\ a.kind = "next" /\ Now.m = "btc_sign_input" /\ Now.commit
       /\ host' = IF a.type # "HOST_NONCE" THEN Failed(host, "raw")
                  ELSE [host EXCEPT !.q = "none",
                          !.todo = <<[Step("sign", "nonce") EXCEPT !.i = Now.i, !.nonce = TRUE]>> \o Tail(@)]
       /\ UNCHANGED sign
    \/ /\ a.kind = "next" /\ Now.m \in {"btc_sign_input", "nonce"} /\ ~Now.commit
       /\ IF Accepted(a) THEN AfterInput(a, Now.i)
          ELSE host' = Failed(host, "raw") /\ UNCHANGED sign
    \/ /\ a.kind = "next" /\ Now.m \in {"btc_sign_init", "btc_sign_output", "prevtx"}
       /\ host' = Turn(sign, a)
       /\ UNCHANGED sign

\* The answer is fetched; when it is no longer there, or does not decrypt
\* because an earlier one was lost, the query raises.
Receive ==
    /\ host.q = "poll"
    /\ dev.works
    /\ job.id = host.id => job.st = "done"
    /\ job' = IF job.id = host.id THEN NoJob ELSE job
    /\ LET a == job.ans IN
       \/ /\ job.id # host.id \/ a.kind = "noise" \/ (Now.op # "raw" /\ host.lost)
          /\ host' = Failed(host, "raw")
          /\ UNCHANGED sign
       \/ /\ job.id = host.id /\ Now.op = "raw"
          /\ host' = RawAnswer(a)
          /\ UNCHANGED sign
       \/ /\ job.id = host.id /\ Now.op \notin {"raw", "sign"} /\ a.kind # "noise" /\ ~host.lost
          /\ host' = MethodAnswer(a)
          /\ UNCHANGED sign
       \/ /\ job.id = host.id /\ Now.op = "sign" /\ a.kind # "noise" /\ ~host.lost
          /\ SignAnswer(a)
    /\ UNCHANGED <<known, confirmed, dev, used>>

----------------------------------------------------------------------------
(* Faults                                                                  *)

\* A query fails: the device is pulled out, which is an OSError, or it raises
\* and leaves the device at work.
Break(gone) ==
    /\ host.q # "none"
    /\ used.faults < MaxFaults
    /\ used' = [used EXCEPT !.faults = @ + 1]
    /\ host' = LET h == [host EXCEPT !.lost = @ \/ (Now.op # "raw" /\ host.q = "poll")] IN
               IF gone /\ "gone" \in Now.on THEN Ended(h, "ok") ELSE Failed(h, "raw")
    /\ dev' = IF gone THEN [dev EXCEPT !.works = FALSE, !.chan = 0, !.stage = 0] ELSE dev
    /\ job' = IF gone THEN NoJob ELSE job
    /\ UNCHANGED <<known, confirmed, sign>>

Kill ==
    /\ host.cmd # "none"
    /\ used.faults < MaxFaults
    /\ used' = [used EXCEPT !.faults = @ + 1]
    /\ host' = NoHost
    /\ UNCHANGED <<known, confirmed, sign, dev, job>>

\* The device is plugged in again, or another one is.
Replug ==
    /\ ~dev.works
    /\ ~host.open
    /\ dev' \in {[dev EXCEPT !.works = TRUE]} \cup {Fresh(dev.ver, key) : key \in Keys \ {dev.key}}
    /\ UNCHANGED <<known, confirmed, host, sign, job, used>>

\* Another application takes the device, with a channel of its own.
OtherTakes ==
    /\ dev.works
    /\ job.st = "none"
    /\ used.faults < MaxFaults
    /\ used' = [used EXCEPT !.faults = @ + 1]
    /\ job' = [NoJob EXCEPT !.st = "other"]
    /\ dev' = [dev EXCEPT !.chan = 0, !.stage = 0]
    /\ UNCHANGED <<known, confirmed, host, sign>>

----------------------------------------------------------------------------
(* The device, external                                                    *)

Does(a, d) ==
    /\ job' = [job EXCEPT !.st = "done", !.ans = a]
    /\ dev' = d

Raw(ok) == [kind |-> "raw", ok |-> ok, chan |-> 0, key |-> 0, verify |-> FALSE]

DeviceRaw(m) ==
    \/ m = "attestation" /\ \E ok \in BOOLEAN : Does(Raw(ok), dev)
    \/ m = "unlock" /\ \E ok \in BOOLEAN : Does(Raw(ok), dev)
    \/ m = "start" /\ Does(Raw(TRUE), [dev EXCEPT !.stage = 1, !.chan = 0])
    \/ m = "handshake1" /\ Does(Raw(dev.stage = 1), [dev EXCEPT !.stage = IF @ = 1 THEN 2 ELSE 0])
    \/ m = "handshake2" /\ Does([Raw(dev.stage = 2) EXCEPT !.chan = job.id, !.key = dev.key, !.verify = ~dev.trusts],
                                [dev EXCEPT !.stage = 0, !.chan = IF dev.stage = 2 THEN job.id ELSE 0, !.rcvd = 0])
    \/ m = "verify" /\ \E ok \in BOOLEAN :
          Does(Raw(ok), [dev EXCEPT !.trusts = @ \/ ok, !.chan = IF ok THEN @ ELSE 0])

\* What the device asks for while it signs: every input, after each the
\* transaction it spends unless all are taproot, the outputs, every input
\* again.
Script ==
    LET All(type, k) == [i \in 1..k |-> [type |-> type, index |-> i]]
        WithPrev == [j \in 1..(2 * n) |->
                        [type |-> IF j % 2 = 1 THEN "INPUT" ELSE "PREVTX", index |-> (j + 1) \div 2]]
    IN (IF needsPrev THEN WithPrev ELSE All("INPUT", n)) \o All("OUTPUT", Outputs)
           \o All("INPUT", n) \o <<[type |-> "DONE", index |-> 0]>>

SecondPass(k) == k > Len(Script) - 1 - n

\* The device has asked for something and has not said that it is done.
Signing(d) == d.k \in 1..(Len(Script) - 1)

NextAsk(k, sig, of, honest) ==
    [kind |-> "next", type |-> Script[k].type, index |-> Script[k].index, sig |-> sig, of |-> of, honest |-> honest]

DeviceSigns(d, s) ==
    \/ s.m = "btc_sign_init" /\ Does(NextAsk(1, FALSE, 0, FALSE), [d EXCEPT !.k = 1])
    \/ /\ s.m \in {"btc_sign_output", "prevtx", "btc_sign_input"} /\ Signing(d)
       /\ ~(SecondPass(d.k) /\ s.m = "btc_sign_input")
       /\ Does(NextAsk(d.k + 1, FALSE, 0, FALSE), [d EXCEPT !.k = @ + 1])
    \/ /\ s.m = "btc_sign_input" /\ Signing(d) /\ SecondPass(d.k)
       /\ IF s.commit THEN Does([NextAsk(d.k, FALSE, 0, FALSE) EXCEPT !.type = "HOST_NONCE"], d)
          ELSE \E sig \in BOOLEAN : Does(NextAsk(d.k + 1, sig, s.i, FALSE), [d EXCEPT !.k = @ + 1])
    \* the signature need not hold the host's contribution
    \/ /\ s.m = "nonce" /\ Signing(d)
       /\ \E honest \in BOOLEAN : Does(NextAsk(d.k + 1, TRUE, s.i, honest), [d EXCEPT !.k = @ + 1])

\* How the state of the device changes with a method that succeeds.
Effect(d, m) ==
    CASE m \in {"set_password", "restore_from_mnemonic", "restore_backup"} -> [d EXCEPT !.initialized = TRUE]
      [] m = "create_backup" -> [d EXCEPT !.backup = TRUE]
      [] m = "enable_passphrase" -> [d EXCEPT !.passphrase = TRUE]
      [] m = "disable_passphrase" -> [d EXCEPT !.passphrase = FALSE]
      [] m = "register_script_config" -> [d EXCEPT !.registered = TRUE]
      [] m = "reset" -> Fresh(d.ver, d.key)
      [] m = "reboot" -> [d EXCEPT !.chan = 0]
      [] OTHER -> d

Possible(d, m) ==
    /\ m \in {"set_password", "restore_from_mnemonic", "restore_backup"} => ~d.initialized
    /\ m = "create_backup" => d.initialized

DeviceMethod(d, s) ==
    \/ s.op = "sign" /\ DeviceSigns(d, s)
    \/ /\ s.m \in {"device_info", "init_info"}
       /\ Does([kind |-> "info", initialized |-> d.initialized, passphrase |-> d.passphrase], d)
    \/ s.m = "is_script_config_registered" /\ Does([kind |-> "registered", yes |-> d.registered], d)
    \/ s.op = "query" /\ s.nonce /\ \E honest \in BOOLEAN : Does([kind |-> "signature", honest |-> honest], d)
    \/ s.op = "loop" /\ used.asks < MaxAsks /\ Does([kind |-> "again"], d)
    \/ /\ s.op \in {"query", "loop"} /\ ~s.nonce
       /\ s.m \notin {"device_info", "init_info", "is_script_config_registered"}
       /\ Possible(d, s.m)
       /\ Does([kind |-> "done"], Effect(d, s.m))
    \/ /\ s.m \notin {"device_info", "init_info"}
       /\ \E code \in {"abort", "generic", "other"} : Does([kind |-> "error", code |-> code], [d EXCEPT !.k = 0])

DeviceWorks ==
    /\ dev.works
    /\ job.st = "working"
    /\ IF job.step.op = "raw" THEN DeviceRaw(job.step.m)
       ELSE IF job.chan # dev.chan \/ job.chan = 0 \/ job.no # dev.rcvd + 1 THEN Does([kind |-> "noise"], dev)
       ELSE DeviceMethod([dev EXCEPT !.rcvd = @ + 1], job.step)
    /\ used' = [used EXCEPT !.asks = IF job'.ans.kind = "again" THEN @ + 1 ELSE @]
    /\ UNCHANGED <<known, confirmed, host, sign>>

\* REQ_CANCEL ends what the device asks its user, as the user could have.
PollCancel ==
    /\ host.q = "poll"
    /\ dev.works
    /\ job.id = host.id /\ job.st = "working"
    /\ ToSend = "cancel"
    /\ IF job.step.op = "raw" THEN Does(Raw(FALSE), [dev EXCEPT !.chan = 0, !.stage = 0])
       ELSE Does([kind |-> "error", code |-> "abort"], [dev EXCEPT !.rcvd = @ + 1, !.k = 0])
    /\ UNCHANGED <<known, confirmed, host, sign, used>>

\* A request nobody fetches, or the other application's, comes to its end.
DeviceDrops ==
    /\ job.st # "none"
    /\ job.id # host.id \/ host.q = "none"
    /\ job' = NoJob
    /\ UNCHANGED <<known, confirmed, host, sign, dev, used>>

Next ==
    \/ Open \/ Close \/ \E c \in Commands : Begin(c)
    \/ Return \/ Require \/ GetInfo \/ Ask \/ NewRequest \/ PollCancel \/ cancel_outstanding_request
    \/ Confirm \/ Receive \/ \E gone \in BOOLEAN : Break(gone)
    \/ Kill \/ Replug \/ OtherTakes \/ DeviceWorks \/ DeviceDrops

\* The host runs; nothing is assumed of the device's user.
Fairness == WF_vars(Return \/ Require \/ GetInfo \/ Ask \/ NewRequest \/ PollCancel \/ Receive)

Spec == Init /\ [][Next]_vars /\ Fairness

----------------------------------------------------------------------------
(* Properties                                                              *)

\* ChannelVerified: a client sends no encrypted query to a device whose
\* pairing code the user has not compared on both sides, now or in an earlier
\* process, whatever was killed, refused or exchanged in between
\* (_create_noise_channel).
ChannelVerified == host.bb02 => host.key \in confirmed

\* SignaturesVerified: with firmware that has the anti-klepto protocol no
\* ECDSA signature without the host's nonce is kept (btc_sign).
SignaturesVerified ==
    \A k \in 1..Len(sign.sigs) :
        dev.ver >= V(9, 4) /\ ~Inputs[sign.sigs[k].index].schnorr => sign.sigs[k].honest

\* SignaturesAligned: sign_tx returns only when there is one signature of
\* the second pass for every input, in the order of the inputs, which is how
\* sign_tx pairs them with keys (btc_sign, sign_tx).
SignaturesAligned ==
    host.outcome = "ok" /\ host.last \in {"sign_tx", "sign_tx_multisig"} =>
        /\ Len(sign.sigs) = n
        /\ \A k \in 1..n : sign.sigs[k].index = k /\ sign.sigs[k].of = k

\* CommandEffect: setup_device, restore_device and toggle_passphrase return
\* True only when the device is in the state they promise.
CommandEffect ==
    host.outcome = "ok" /\ dev.works =>
        CASE host.last = "setup_device" -> dev.initialized /\ dev.backup
          [] host.last = "restore_device" -> dev.initialized
          [] host.last = "toggle_passphrase" -> dev.passphrase # host.seen
          [] OTHER -> TRUE

\* CancelTaken: a request that is cancelled while the device works on it
\* ends, whether or not the user touches the device (_raw_query).
CancelTaken == host.cancel /\ host.q = "poll" /\ dev.ver >= V(7, 0) ~> host.q = "none"
=============================================================================
