------------------------------ MODULE JadeRpc ------------------------------
(***************************************************************************)
(* The remote procedure calls of jadepy (jade.py over jade_serial.py, or   *)
(* over jade_tcp.py to an emulator): requests and replies are CBOR         *)
(* messages on a line, a reply is known by the identifier of its request.  *)
(* The methods of JadeApi are run one after the other, against a device    *)
(* that answers, refuses, logs, asks for the pin server, is slow, stops,   *)
(* or closes its socket.                                                   *)
(*                                                                         *)
(* Identifiers are drawn from large sets in the code; here they are fresh, *)
(* so that two calls with equal ones are left out.  0 stands for "00", the *)
(* identifier of an error about a message the device could not read.       *)
(***************************************************************************)
EXTENDS JadeApi

CONSTANTS
    TxInputs,     \* inputs of the transaction
    MaxParts,     \* bound: parts of a signed PSBT
    MaxCommands,  \* bound: methods called and further rounds of signing
    MaxFaults,    \* bound: timeouts of slow replies, stops, processes killed
    MaxTalk,      \* bound: log messages, pin server requests, users refused
    Commands,     \* the methods called
    Codes         \* the error codes the device uses

ErrorCodes == {"userCancelled", "badParameters", "internal", "hwLocked", "networkMismatch",
               "protocol", "other"}

ASSUME JadeRpcAssumption ==
    /\ TxInputs \in Nat \ {0} /\ MaxParts \in Nat \ {0}
    /\ MaxCommands \in Nat /\ MaxFaults \in Nat /\ MaxTalk \in Nat
    /\ Codes \subseteq ErrorCodes

VARIABLES
    open,     \* the port or the socket is open
    cmd,      \* the method that runs, "none" between methods
    todo,     \* the exchanges it still has to make
    wait,     \* the request whose reply is awaited, 0 when none is
    posted,   \* requests written whose replies have not been read
    got,      \* the results it has read
    outcome,  \* how the last method or round of signing ended
    down,     \* requests the device has not read
    up,       \* messages the host has not read
    dev,      \* the device: its session, whether it works, whether it is reached over a
              \* socket, and whether its end of that is closed
    ids,      \* requests made so far
    used      \* how much of each bound is used

vars == <<open, cmd, todo, wait, posted, got, outcome, down, up, dev, ids, used>>

\* All methods of one call.
Calls ==
    [ping |-> ping, get_version_info |-> get_version_info, add_entropy |->
     add_entropy, set_epoch |-> set_epoch, logout |-> logout,
     run_remote_selfcheck |-> run_remote_selfcheck, run_remote_gcov_dump |->
     run_remote_gcov_dump, capture_image_data |-> capture_image_data, scan_qr
     |-> scan_qr, clean_reset |-> clean_reset, set_mnemonic |-> set_mnemonic,
     set_seed |-> set_seed, get_bip85_bip39_entropy |->
     get_bip85_bip39_entropy, get_bip85_rsa_entropy |->
     get_bip85_rsa_entropy, set_pinserver |-> set_pinserver, reset_pinserver
     |-> reset_pinserver, auth_user |-> auth_user, register_otp |->
     register_otp, get_otp_code |-> get_otp_code, get_xpub |-> get_xpub,
     get_registered_multisigs |-> get_registered_multisigs,
     get_registered_multisig |-> get_registered_multisig, register_multisig
     |-> register_multisig, register_multisig_file |->
     register_multisig_file, get_registered_descriptors |->
     get_registered_descriptors, get_registered_descriptor |->
     get_registered_descriptor, register_descriptor |-> register_descriptor,
     get_receive_address |-> get_receive_address, sign_message_file |->
     sign_message_file, get_bip85_pubkey |-> get_bip85_pubkey,
     sign_bip85_digests |-> sign_bip85_digests, get_identity_pubkey |->
     get_identity_pubkey, get_identity_shared_key |->
     get_identity_shared_key, sign_identity |-> sign_identity,
     sign_attestation |-> sign_attestation, get_master_blinding_key |->
     get_master_blinding_key, get_blinding_key |-> get_blinding_key,
     get_shared_nonce |-> get_shared_nonce, get_blinding_factor |->
     get_blinding_factor, get_commitments |-> get_commitments]

\* The methods of several calls, and the client's.
Programs ==
    [ota_update |-> ota_update(2, TRUE), sign_message |-> sign_message(FALSE),
     sign_message_ae |-> sign_message(TRUE),
     sign_tx |-> sign_tx(TxInputs, FALSE), sign_tx_ae |-> sign_tx(TxInputs, TRUE),
     sign_liquid_tx |-> sign_liquid_tx(TxInputs, TRUE), sign_psbt |-> sign_psbt,
     Client |-> Client, display_multisig_address |-> display_multisig_address,
     legacy_sign_tx |-> legacy_sign_tx(TxInputs, TRUE),
     legacy_sign_tx_skips |-> legacy_sign_tx(TxInputs - 1, FALSE)]

Program(c) == IF c \in DOMAIN Calls THEN Calls[c] ELSE Programs[c]

ASSUME CommandsAssumption == Commands \subseteq DOMAIN Calls \cup DOMAIN Programs

----------------------------------------------------------------------------
(* Messages                                                                *)

build_request(id, s) == [id |-> id, m |-> s.m, arg |-> s.arg, entropy |-> s.entropy, ae |-> s.ae]

\* `of' is the request a message answers, and is read by nobody.
Reply(r, kind, value) ==
    [kind |-> kind, id |-> r.id, of |-> r.id, value |-> value, code |-> "none", part |-> 0, last |-> 0]
ErrorReply(r, code) == [Reply(r, "error", 0) EXCEPT !.code = code]
Noise(kind) == [kind |-> kind, id |-> 0, of |-> 0, value |-> 0, code |-> "none", part |-> 0, last |-> 0]

NoSession == [kind |-> "none", n |-> 0, ae |-> FALSE, in |-> <<>>, sigs |-> 0, id |-> 0]

Init ==
    /\ open = FALSE
    /\ cmd = "none"
    /\ todo = <<>>
    /\ wait = 0
    /\ posted = <<>>
    /\ got = <<>>
    /\ outcome = "none"
    /\ down = <<>>
    /\ up = <<>>
    /\ \E tcp \in BOOLEAN : dev = [works |-> TRUE, tcp |-> tcp, closed |-> FALSE, session |-> NoSession]
    /\ ids = 0
    /\ used = [commands |-> 0, faults |-> 0, talk |-> 0]

----------------------------------------------------------------------------
(* The connection                                                          *)

\* Opening the port may discard what arrived before.
Connect ==
    /\ ~open
    /\ dev.works
    /\ used.commands < MaxCommands
    /\ open' = TRUE
    /\ up' \in {up, <<>>}
    /\ UNCHANGED <<cmd, todo, wait, posted, got, outcome, down, dev, ids, used>>

\* disconnect(drain): with drain, what is there is read first.
Disconnect(drain) ==
    /\ open
    /\ cmd = "none"
    /\ open' = FALSE
    /\ up' = IF drain THEN <<>> ELSE up
    /\ UNCHANGED <<cmd, todo, wait, posted, got, outcome, down, dev, ids, used>>

Begin(c) ==
    /\ open
    /\ cmd = "none"
    /\ used.commands < MaxCommands
    /\ used' = [used EXCEPT !.commands = @ + 1]
    /\ cmd' = c
    /\ todo' = Program(c)
    /\ posted' = <<>>
    /\ got' = <<>>
    /\ outcome' = "none"
    /\ UNCHANGED <<open, wait, down, up, dev, ids>>

End(how) ==
    /\ cmd' = "none"
    /\ todo' = <<>>
    /\ wait' = 0
    /\ posted' = <<>>
    /\ outcome' = how

Return ==
    /\ cmd # "none"
    /\ todo = <<>>
    /\ End("ok")
    /\ UNCHANGED <<open, got, down, up, dev, ids, used>>

\* The rounds of the programs that sign with an older firmware: multisigs
\* that were seen and are registered are looked up again.
Rounds(c) ==
    CASE c = "legacy_sign_tx" -> {legacy_round(TxInputs, TRUE), legacy_round(TxInputs, FALSE)}
      [] c = "legacy_sign_tx_skips" -> {legacy_round(TxInputs - 1, FALSE)}
      [] OTHER -> {}

\* legacy_sign_tx goes on while an input had a second key of ours without a
\* signature (need_to_sign), which is left open here; the results of the
\* round are in the PSBT by then.
SignAgain ==
    /\ todo = <<>>
    /\ todo' \in Rounds(cmd)
    /\ used.commands < MaxCommands
    /\ used' = [used EXCEPT !.commands = @ + 1]
    /\ got' = <<>>
    /\ outcome' = "again"
    /\ UNCHANGED <<open, cmd, wait, posted, down, up, dev, ids>>

\* The client refuses a multisig without key origins before its first call,
\* and a transaction without the outputs it spends after get_xpub.
Reject ==
    /\ wait = 0 /\ outcome = "none"
    /\ \/ cmd = "display_multisig_address" /\ got = <<>>
       \/ cmd \in {"legacy_sign_tx", "legacy_sign_tx_skips"} /\ Len(got) = 1
    /\ End("badArgument")
    /\ UNCHANGED <<open, got, down, up, dev, ids, used>>

----------------------------------------------------------------------------
(* Requests                                                                *)

\* make_rpc_call: one request, then the wait for its reply.
Ask ==
    /\ wait = 0
    /\ todo # <<>>
    /\ Head(todo).op \in {"rpc", "until", "parts"}
    /\ ids' = ids + 1
    /\ down' = Append(down, build_request(ids', Head(todo)))
    /\ wait' = ids'
    /\ UNCHANGED <<open, cmd, todo, posted, got, outcome, up, dev, used>>

\* The older protocol of _send_tx_inputs writes all its requests first.
Post ==
    /\ todo # <<>>
    /\ Head(todo).op = "post"
    /\ ids' = ids + 1
    /\ down' = Append(down, build_request(ids', Head(todo)))
    /\ posted' = Append(posted, ids')
    /\ todo' = Tail(todo)
    /\ UNCHANGED <<open, cmd, wait, got, outcome, up, dev, used>>

Collect ==
    /\ wait = 0
    /\ todo # <<>>
    /\ Head(todo).op = "collect"
    /\ wait' = Head(posted)
    /\ posted' = Tail(posted)
    /\ UNCHANGED <<open, cmd, todo, got, outcome, down, up, dev, ids, used>>

----------------------------------------------------------------------------
(* Replies                                                                 *)

\* Mutant: the identifier of the reply is not compared.
validate_reply_AnyId(r) == TRUE

validate_reply(r) == r.id = wait \/ (r.id = 0 /\ r.kind = "error")

\* What the client makes of an error of the device; its constructor is not
\* wrapped and lets the error through.
jade_exception(code) ==
    IF cmd = "Client" THEN "raw"
    ELSE CASE code = "userCancelled" -> "canceled"
           [] code = "badParameters" -> "badArgument"
           [] code = "internal" -> "deviceFailure"
           [] code \in {"hwLocked", "networkMismatch", "protocol"} -> "connection"
           [] OTHER -> "raw"

\* read_cbor_message leaves out log messages and what it does not know; what
\* is left of a torn message may also make the CBOR reader raise.
SkipMessage ==
    /\ wait # 0
    /\ up # <<>>
    /\ Head(up).kind \in {"log", "torn"}
    /\ up' = Tail(up)
    /\ \/ UNCHANGED <<cmd, todo, wait, posted, outcome>>
       \/ Head(up).kind = "torn" /\ End("raw")
    /\ UNCHANGED <<open, got, down, dev, ids, used>>

\* Mutant: the parts are counted from zero.
LastPart_Early(r) == r.part + 1 >= r.last

LastPart(r) == r.part = r.last

\* A result that asks for the pin server is answered with the server's reply
\* and a new call; a part that is not the last one, with a request for the next.
Continues(r) == r.kind = "http" \/ (Head(todo).op = "parts" /\ ~LastPart(r))

\* The pin server cannot be reached; or the client finds the firmware too
\* old, or the wallet locked and no way to unlock it.
MayRaise(r) == r.kind = "http" \/ (cmd = "Client" /\ Head(todo).m = "get_version_info")

GoOn(r) ==
    /\ ids' = ids + 1
    /\ wait' = ids'
    /\ down' = Append(down, build_request(ids',
                  IF r.kind = "http" THEN Step("rpc", "pin")
                  ELSE [Step("parts", "get_extended_data") EXCEPT !.arg = r.part + 1]))

Result(r) == [want |-> wait, of |-> r.of, m |-> Head(todo).m, arg |-> Head(todo).arg,
              value |-> r.value, part |-> r.part, last |-> r.last]

ReadReply ==
    /\ wait # 0
    /\ up # <<>>
    /\ Head(up).kind \in {"result", "http", "error"}
    /\ up' = Tail(up)
    /\ LET r == Head(up) IN
       \/ /\ ~validate_reply(r)
          /\ End("assertion")
          /\ UNCHANGED <<got, down, ids>>
       \/ /\ validate_reply(r) /\ r.kind = "error"
          /\ End(jade_exception(r.code))
          /\ UNCHANGED <<got, down, ids>>
       \/ /\ validate_reply(r) /\ r.kind # "error" /\ Continues(r)
          /\ got' = IF r.kind = "http" THEN got ELSE Append(got, Result(r))
          /\ GoOn(r)
          /\ UNCHANGED <<cmd, todo, posted, outcome>>
       \/ /\ validate_reply(r) /\ r.kind # "error" /\ MayRaise(r)
          /\ End("raw")
          /\ UNCHANGED <<got, down, ids>>
       \/ /\ validate_reply(r) /\ r.kind = "result" /\ ~Continues(r)
          /\ got' = Append(got, Result(r))
          /\ todo' = IF Head(todo).op = "until" /\ r.value = 0 THEN todo ELSE Tail(todo)
          /\ wait' = 0
          /\ UNCHANGED <<cmd, posted, outcome, down, ids>>
    /\ UNCHANGED <<open, dev, used>>

\* Mutant: every call is made with the long timeout.
Patient_Always == TRUE

Patient == Head(todo).long

\* With a long timeout read_response reads again after an EOFError, which is
\* what the timeout of the serial port comes to; that of a socket is another
\* exception, and ends every call.
ReadsAgain == Patient /\ ~dev.tcp

\* JadeTCPImpl.read goes on for ever when the other end has closed the socket,
\* whatever the timeout: recv returns nothing at once.
ReadsNothing == dev.closed

\* The reply is not complete when the line's timeout ends the read: either
\* nothing of it has come, or its first bytes are lost to the reader.
Timeout ==
    /\ wait # 0
    /\ ~ReadsNothing
    /\ IF dev.works THEN used.faults < MaxFaults ELSE ~ReadsAgain
    /\ used' = [used EXCEPT !.faults = IF dev.works THEN @ + 1 ELSE @]
    /\ \/ UNCHANGED up
       \/ up # <<>> /\ up' = <<Noise("torn")>> \o Tail(up)
    /\ IF ReadsAgain THEN UNCHANGED <<cmd, todo, wait, posted, outcome>> ELSE End("timeout")
    /\ UNCHANGED <<open, got, down, dev, ids>>

Kill ==
    /\ cmd # "none"
    /\ used.faults < MaxFaults
    /\ used' = [used EXCEPT !.faults = @ + 1]
    /\ End("killed")
    /\ open' = FALSE
    /\ UNCHANGED <<got, down, up, dev, ids>>

----------------------------------------------------------------------------
(* The device, external                                                    *)

Sess == dev.session

\* The device is done with the request; `talk' is how much of its bound that
\* takes.
Answers(session, replies, talk) ==
    /\ used.talk + talk <= MaxTalk
    /\ used' = [used EXCEPT !.talk = @ + talk]
    /\ dev' = [dev EXCEPT !.session = session]
    /\ up' = up \o replies

\* A new transaction must announce as many inputs as it has.
Starts(r) ==
    /\ r.m \in {"sign_tx", "sign_liquid_tx"}
    /\ Sess.kind = "none"
    /\ r.arg = TxInputs
    /\ Answers([NoSession EXCEPT !.kind = "tx", !.n = r.arg, !.ae = r.ae], <<Reply(r, "result", 1)>>, 0)

\* With anti-exfil each input is answered with a commitment, in the older
\* protocol all together once the last one is there, with signatures.
TakesInput(r) ==
    /\ r.m = "tx_input"
    /\ Sess.kind = "tx" /\ Len(Sess.in) < Sess.n
    /\ LET s == [Sess EXCEPT !.in = Append(@, r)] IN
       IF s.ae THEN Answers(s, <<Reply(r, "result", Len(s.in))>>, 0)
       ELSE IF Len(s.in) < s.n THEN Answers(s, <<>>, 0)
       ELSE Answers(NoSession, [i \in 1..s.n |-> Reply(s.in[i], "result", i)], 0)

GivesSignature(r) ==
    /\ r.m = "get_signature"
    /\ Sess.kind \in {"tx", "message"} /\ Sess.ae /\ Len(Sess.in) = Sess.n
    /\ LET k == Sess.sigs + 1 IN
       Answers(IF k < Sess.n THEN [Sess EXCEPT !.sigs = k] ELSE NoSession, <<Reply(r, "result", k)>>, 0)

CommitsToMessage(r) ==
    /\ r.m = "sign_message" /\ r.ae
    /\ Sess.kind = "none"
    /\ Answers([NoSession EXCEPT !.kind = "message", !.ae = TRUE], <<Reply(r, "result", 1)>>, 0)

\* A signed PSBT is named after the request that asked for it.
SendsPart(r) ==
    \/ /\ r.m = "sign_psbt"
       /\ Sess.kind = "none"
       /\ \E n \in 1..MaxParts :
             Answers(IF n = 1 THEN NoSession ELSE [NoSession EXCEPT !.kind = "psbt", !.n = n, !.id = r.id],
                     <<[Reply(r, "result", r.id) EXCEPT !.part = 1, !.last = n]>>, 0)
    \/ /\ r.m = "get_extended_data"
       /\ Sess.kind = "psbt"
       /\ r.arg \in 1..Sess.n
       /\ Answers(IF r.arg = Sess.n THEN NoSession ELSE Sess,
                  <<[Reply(r, "result", Sess.id) EXCEPT !.part = r.arg, !.last = Sess.n]>>, 0)

\* auth_user and the calls that bring the pin server's answers end with
\* whether the user is authenticated, or ask for the pin server.
Authenticates(r) ==
    /\ r.m \in {"auth_user", "pin"}
    /\ Sess.kind = "none"
    /\ \/ Answers(NoSession, <<Reply(r, "result", 1)>>, 0)
       \/ Answers(NoSession, <<Reply(r, "result", 0)>>, 1)
       \/ Answers(NoSession, <<Reply(r, "http", 0)>>, 1)

AnswersPlainly(r) ==
    /\ r.m \notin {"sign_tx", "sign_liquid_tx", "tx_input", "get_signature", "sign_psbt",
                   "get_extended_data", "auth_user", "pin"}
    /\ ~r.ae
    /\ Sess.kind = "none"
    /\ Answers(NoSession, <<Reply(r, "result", 1)>>, 0)

\* Refused by the device or its user, or out of place; an error about a
\* message that it could not read names no request.
Refuses(r) ==
    \/ \E c \in Codes : Answers(NoSession, <<ErrorReply(r, c)>>, 0)
    \/ Answers(NoSession, <<[ErrorReply(r, "protocol") EXCEPT !.id = 0]>>, 1)

DeviceAnswers ==
    /\ dev.works
    /\ down # <<>>
    /\ down' = Tail(down)
    /\ LET r == Head(down) IN
       \/ Starts(r) \/ TakesInput(r) \/ GivesSignature(r) \/ CommitsToMessage(r) \/ SendsPart(r)
       \/ Authenticates(r) \/ AnswersPlainly(r) \/ Refuses(r)
    /\ UNCHANGED <<open, cmd, todo, wait, posted, got, outcome, ids>>

DeviceLogs ==
    /\ dev.works
    /\ used.talk < MaxTalk
    /\ used' = [used EXCEPT !.talk = @ + 1]
    /\ up' = Append(up, Noise("log"))
    /\ UNCHANGED <<open, cmd, todo, wait, posted, got, outcome, down, dev, ids>>

\* The device hangs, or the emulator ends and its socket is closed.
DeviceStops ==
    /\ dev.works
    /\ used.faults < MaxFaults
    /\ used' = [used EXCEPT !.faults = @ + 1]
    /\ \E closed \in {FALSE, dev.tcp} :
          dev' = [dev EXCEPT !.works = FALSE, !.closed = closed, !.session = NoSession]
    /\ UNCHANGED <<open, cmd, todo, wait, posted, got, outcome, down, up, ids>>

DeviceRestarts ==
    /\ ~dev.works
    /\ ~open
    /\ dev' = [dev EXCEPT !.works = TRUE, !.closed = FALSE]
    /\ down' = <<>>
    /\ up' = <<>>
    /\ UNCHANGED <<open, cmd, todo, wait, posted, got, outcome, ids, used>>

Next ==
    \/ Connect \/ \E drain \in BOOLEAN : Disconnect(drain)
    \/ \E c \in Commands : Begin(c)
    \/ Return \/ SignAgain \/ Reject \/ Ask \/ Post \/ Collect \/ SkipMessage \/ ReadReply \/ Timeout \/ Kill
    \/ DeviceAnswers \/ DeviceLogs \/ DeviceStops \/ DeviceRestarts

Host == Return \/ Ask \/ Post \/ Collect \/ SkipMessage \/ ReadReply

\* The process runs, the port's timeout expires when nothing more will come,
\* and a device that works answers what it has been asked.
Fairness ==
    /\ WF_vars(Host)
    /\ WF_vars(Timeout /\ ~dev.works)
    /\ WF_vars(DeviceAnswers)

Spec == Init /\ [][Next]_vars /\ Fairness

----------------------------------------------------------------------------
(* Properties                                                              *)

\* ResultsFit: whatever was left on the line by calls that timed out, were
\* refused or were killed, each result that a method reads is the device's
\* answer to the request it has just made, and those of tx_input and
\* get_signature are about the input in whose place legacy_sign_tx puts them
\* (validate_reply, _send_tx_inputs).
ResultsFit ==
    \A i \in 1..Len(got) :
        /\ got[i].of = got[i].want
        /\ got[i].m \in {"tx_input", "get_signature"} => got[i].value = got[i].arg

\* EntropyAfterCommitments: the host's entropy for the nonces reaches the
\* device only when it has committed itself on every input, also when a
\* transaction was broken off and another one begun (_send_tx_inputs).
EntropyAfterCommitments ==
    down # <<>> /\ Head(down).entropy /\ Sess.kind = "tx" => Len(Sess.in) = Sess.n

\* PsbtWhole: what sign_psbt returns is every part of one signed PSBT, in
\* order, once (sign_psbt).
PsbtWhole ==
    outcome = "ok" /\ got # <<>> /\ got[1].m = "sign_psbt" =>
        /\ Len(got) = got[1].last
        /\ \A i \in 1..Len(got) : got[i].part = i /\ got[i].value = got[1].value

\* CommandEnds: a method, and every round of legacy_sign_tx, ends or is in one
\* of the calls that wait for ever on a serial port (read_response with
\* long_timeout); over TCP it waits for ever only on a socket whose other end
\* is closed (jade_tcp.py:63).  That the rounds of legacy_sign_tx come to an
\* end is not said here: a device that keeps back a signature is asked again
\* and again (LoopsProgress of SignTx).
CommandEnds ==
    cmd # "none" ~>
        \/ cmd = "none"
        \/ ~dev.tcp /\ todo # <<>> /\ Head(todo).long
        \/ dev.closed
=============================================================================
