------------------------------ MODULE Framing ------------------------------
(***************************************************************************)
(* How the libraries of the devices cut a message into reports of `Report' *)
(* bytes and put the answer together again: U2F HID (u2fhid.py, BitBox02), *)
(* its older variant in digitalbitbox.py, the Ledger's frames              *)
(* (hid_device.py), Trezor's protocol version 1 (protocol.py over hid.py,  *)
(* webusb.py and udp.py) and the Coldcard's (ckcc/client.py).              *)
(*                                                                         *)
(* A message is a sequence of cells <<direction, call, position>>, so that *)
(* cells that change places or messages can be told apart.  The frame      *)
(* record holds, for every protocol, the header fields which that protocol *)
(* has; `of' and `nr', the call a frame belongs to and its place in the    *)
(* message, are read by no protocol.                                       *)
(***************************************************************************)
EXTENDS Naturals, Sequences, FiniteSets

CONSTANTS
    Report,    \* bytes of a report; 64 in all the libraries
    Sizes,     \* lengths of a request and of its answer
    MaxCalls,  \* bound: calls
    MaxFaults  \* bound: processes killed and devices that stop

Links == {"u2f", "dbb", "ledger", "trezorHid", "trezorUsb", "trezorUdp", "ckcc"}

\* The largest header is Trezor's, nine bytes of the first report.
ASSUME FramingAssumption ==
    /\ Report \in Nat /\ Report > 9
    /\ Sizes \subseteq Nat \X Nat
    /\ MaxCalls \in Nat /\ MaxFaults \in Nat

VARIABLES
    link,    \* the protocol of this behaviour
    opened,  \* the process holds an open handle
    calls,   \* per call: length of the request and of the answer
    host,    \* the reader: where it is, bytes it wants and has, its timeout
    result,  \* what the last call returned or raised
    wire,    \* frames the host has not read yet
    dev,     \* the device: frames received, frames to send, request collected
    owed,    \* failed calls whose answers may still come
    given,   \* calls whose answers have been returned
    inStep,  \* ckcc: the cipher stream of the answers is where it should be
    faults

vars == <<link, opened, calls, host, result, wire, dev, owed, given, inStep, faults>>

Trezor == {"trezorHid", "trezorUsb", "trezorUdp"}
Pad == <<"pad", 0, 0>>
Request(k) == [i \in 1..calls[k].q |-> <<"q", k, i>>]
Answer(k) == [i \in 1..calls[k].a |-> <<"a", k, i>>]

Least(a, b) == IF a < b THEN a ELSE b

----------------------------------------------------------------------------
(* Cutting a message into frames                                           *)

FirstRoom == IF link \in Trezor THEN Report - 9 ELSE IF link = "ckcc" THEN Report - 1 ELSE Report - 7

NextRoom == IF link \in Trezor \cup {"ckcc"} THEN Report - 1 ELSE Report - 5

\* Frames of a message of n bytes; the last one may be full.
Count(n) ==
    IF n <= FirstRoom THEN 1
    ELSE 1 + ((n - FirstRoom + NextRoom - 1) \div NextRoom)

Start(j) == IF j = 1 THEN 0 ELSE FirstRoom + (j - 2) * NextRoom

Room(j) == IF j = 1 THEN FirstRoom ELSE NextRoom

Padded(m, j) ==
    [i \in 1..Room(j) |-> IF Start(j) + i <= Len(m) THEN m[Start(j) + i] ELSE Pad]

Exact(m, j) == SubSeq(m, Start(j) + 1, Least(Start(j) + Room(j), Len(m)))

\* U2FHid.write.  In a continuation frame the sequence number stands where
\* the first frame has its command.  An empty message is one empty frame.
U2fFrames(k, m) ==
    [j \in 1..Count(Len(m)) |->
        [of |-> k, nr |-> j, cid |-> k, cmd |-> IF j = 1 THEN "HWW" ELSE "seq",
         len |-> Len(m), data |-> Padded(m, j)]]

\* send_frame: one channel for everyone, and nothing is sent for an empty
\* message.
DbbFrames(k, m) ==
    [j \in 1..(IF m = <<>> THEN 0 ELSE Count(Len(m))) |->
        [of |-> k, nr |-> j, cmd |-> IF j = 1 THEN "HWW" ELSE "seq",
         len |-> Len(m), data |-> Padded(m, j)]]

\* HID.send: the two bytes of length are the beginning of the first frame's
\* payload, and every frame has a sequence number.
LedgerFrames(k, m) ==
    [j \in 1..Count(Len(m)) |->
        [of |-> k, nr |-> j, seq |-> j - 1, len |-> Len(m), data |-> Exact(m, j)]]

\* ProtocolV1.write: only the first frame has the marks "##" and a header.
TrezorFrames(k, m) ==
    [j \in 1..Count(Len(m)) |->
        [of |-> k, nr |-> j, marked |-> j = 1, len |-> Len(m), data |-> Padded(m, j)]]

\* ColdcardDevice.send_recv: each frame says how many of its bytes count and
\* whether it is the last one.
CkccFrames(k, m) ==
    [j \in 1..Count(Len(m)) |->
        [of |-> k, nr |-> j, last |-> j = Count(Len(m)), data |-> Exact(m, j)]]

Frames(k, m) ==
    CASE link = "u2f" -> U2fFrames(k, m)
      [] link = "dbb" -> DbbFrames(k, m)
      [] link = "ledger" -> LedgerFrames(k, m)
      [] link = "ckcc" -> CkccFrames(k, m)
      [] OTHER -> TrezorFrames(k, m)

\* HID.send refuses an empty message, send_recv one shorter than four bytes
\* (here: empty), and so does read_frame's caller, whose messages are JSON.
Sendable(n) == link \in {"u2f"} \cup Trezor \/ n > 0

----------------------------------------------------------------------------
Idle == [pc |-> "idle", call |-> 0, cid |-> 0, cmd |-> "HWW", want |-> 0, buf |-> <<>>,
         timed |-> FALSE]
NoResult == [call |-> 0, ok |-> FALSE, data |-> <<>>]
FreshDevice == [in |-> <<>>, out |-> <<>>, buf |-> <<>>, alive |-> TRUE]

Init ==
    /\ link \in Links
    /\ opened = FALSE
    /\ calls = <<>>
    /\ host = Idle
    /\ result = NoResult
    /\ wire = <<>>
    /\ dev = FreshDevice
    /\ owed = {}
    /\ given = {}
    /\ inStep = TRUE
    /\ faults = 0

\* ColdcardDevice.resync empties the queue, tells the device to start over
\* and empties the queue again; a new socket has a port of its own, so that
\* late datagrams do not reach it.
ForgetsLate == link \in {"ckcc", "trezorUdp"}

\* Mutant: the connection is used without resync.
Open_NoResync ==
    /\ ~opened
    /\ opened' = TRUE
    /\ wire' = <<>>
    /\ inStep' = TRUE
    /\ owed' = IF ForgetsLate THEN {} ELSE owed
    /\ UNCHANGED <<link, calls, host, result, dev, given, faults>>

\* Opening the handle.  A handle starts with an empty queue, and a device
\* that still has reports to send delivers them to whoever opens it next.
\* The Coldcard agrees on new cipher streams.
Open ==
    /\ ~opened
    /\ opened' = TRUE
    /\ wire' = <<>>
    /\ inStep' = TRUE
    /\ dev' = IF ForgetsLate THEN [FreshDevice EXCEPT !.alive = dev.alive] ELSE dev
    /\ owed' = IF ForgetsLate THEN {} ELSE owed
    /\ UNCHANGED <<link, calls, host, result, given, faults>>

Close ==
    /\ opened /\ host.pc = "idle"
    /\ opened' = FALSE
    /\ UNCHANGED <<link, calls, host, result, wire, dev, owed, given, inStep, faults>>

\* Mutant: every read waits for ever.
Timed_Never == {FALSE}

\* Whether the reads of a call have a timeout.  Those of U2FHid.read do, and
\* a call of the Coldcard has one unless send_recv is given timeout=None, as
\* coldcard.py gives it for whatever waits for the user (get_signed_txn,
\* show_address) or for a key (get_xpub); hidapi then waits for ever.
Timed ==
    CASE link = "u2f" -> {TRUE}
      [] link = "ckcc" -> BOOLEAN
      [] OTHER -> {FALSE}

\* The request goes out in one call of the library.  BitBoxProtocol draws a
\* new channel for each query; drawing one twice is left out.
Call(q, a) ==
    LET k == Len(calls) + 1 IN
    /\ opened /\ host.pc = "idle"
    /\ k <= MaxCalls
    /\ Sendable(q)
    /\ Sendable(a)
    /\ calls' = Append(calls, [q |-> q, a |-> a])
    /\ dev' = [dev EXCEPT !.in = @ \o Frames(k, [i \in 1..q |-> <<"q", k, i>>])]
    /\ \E timed \in Timed :
          host' = [Idle EXCEPT !.pc = "first", !.call = k, !.cid = k, !.timed = timed]
    /\ UNCHANGED <<link, opened, result, wire, owed, given, inStep, faults>>

----------------------------------------------------------------------------
(* The device: it collects the frames of a request and, once it has the    *)
(* whole request, has its answer ready.  It may answer U2F with an error.  *)

Collected(f) == dev.buf \o f.data

Complete(f) ==
    IF link = "ckcc" THEN f.last ELSE Len(Collected(f)) >= f.len

DeviceTakes ==
    /\ dev.alive /\ dev.in # <<>>
    /\ LET f == Head(dev.in) IN
       IF ~Complete(f)
       THEN dev' = [dev EXCEPT !.in = Tail(@), !.buf = Collected(f)]
       ELSE LET message == IF link = "ckcc" THEN Collected(f) ELSE SubSeq(Collected(f), 1, f.len)
                reply == IF message = Request(f.of) THEN Frames(f.of, Answer(f.of)) ELSE <<>>
            IN dev' = [dev EXCEPT !.in = Tail(@), !.buf = <<>>, !.out = @ \o reply]
    /\ UNCHANGED <<link, opened, calls, host, result, wire, owed, given, inStep, faults>>

ErrorFrame(k) ==
    [of |-> k, nr |-> 1, cid |-> k, cmd |-> "ERROR", len |-> 1, data |-> Padded(<<Pad>>, 1)]

DeviceRefuses ==
    /\ link = "u2f" /\ dev.alive /\ dev.in # <<>>
    /\ Complete(Head(dev.in))
    /\ dev' = [dev EXCEPT !.in = Tail(@), !.buf = <<>>,
                          !.out = Append(@, ErrorFrame(Head(dev.in).of))]
    /\ UNCHANGED <<link, opened, calls, host, result, wire, owed, given, inStep, faults>>

DeviceSends ==
    /\ dev.alive /\ opened /\ dev.out # <<>>
    /\ wire' = Append(wire, Head(dev.out))
    /\ dev' = [dev EXCEPT !.out = Tail(@)]
    /\ UNCHANGED <<link, opened, calls, host, result, owed, given, inStep, faults>>

\* The device stops or is pulled out, and is plugged in again afresh.
DeviceStops ==
    /\ dev.alive /\ faults < MaxFaults
    /\ dev' = [dev EXCEPT !.alive = FALSE]
    /\ faults' = faults + 1
    /\ UNCHANGED <<link, opened, calls, host, result, wire, owed, given, inStep>>

Replug ==
    /\ ~dev.alive /\ ~opened
    /\ dev' = FreshDevice
    /\ UNCHANGED <<link, opened, calls, host, result, wire, owed, given, inStep, faults>>

----------------------------------------------------------------------------
(* Reading the answer                                                      *)

\* The bytes that are not padding, in their order.
Unpadded(s) ==
    LET kept == {n \in DOMAIN s : s[n] # Pad}
        rank(n) == Cardinality({m \in kept : m <= n})
    IN [i \in 1..Cardinality(kept) |-> s[CHOOSE n \in kept : rank(n) = i]]

\* The call whose answer the data is, 0 when it is not one whole answer.  An
\* empty answer is told by its frame.
AnswerIn(data, of) ==
    IF \E k \in DOMAIN calls : data = Answer(k) /\ (data = <<>> => k = of)
    THEN CHOOSE k \in DOMAIN calls : data = Answer(k) /\ (data = <<>> => k = of)
    ELSE 0

Returns(data, of) ==
    /\ result' = [call |-> host.call, ok |-> TRUE, data |-> data]
    /\ given' = given \cup {AnswerIn(data, of)}
    /\ owed' = (owed \cup {host.call}) \ {AnswerIn(data, of)}
    /\ host' = Idle

Raises ==
    /\ result' = [call |-> host.call, ok |-> FALSE, data |-> <<>>]
    /\ owed' = owed \cup {host.call}
    /\ host' = Idle
    /\ UNCHANGED given

ReadsOn(want, buf, cid, cmd) ==
    /\ host' = [host EXCEPT !.pc = "more", !.want = want, !.buf = buf, !.cid = cid, !.cmd = cmd]
    /\ UNCHANGED <<result, owed, given>>

\* Mutant: the channel of the answer is not compared.
U2fDone_AnyChannel(f, data, cid, cmd, want) ==
    IF cmd # "HWW" THEN Raises ELSE Returns(SubSeq(data, 1, want), f.of)

\* The end of U2FHid.read: channel and command are compared only when the
\* announced number of bytes has been read.
U2fDone(f, data, cid, cmd, want) ==
    IF cid # host.call \/ cmd # "HWW" THEN Raises ELSE Returns(SubSeq(data, 1, want), f.of)

\* What stands in the place of the length when the first frame read is a
\* continuation frame: two bytes of payload.
Announced(f) == IF f.cmd = "seq" THEN {0, Report * 4} ELSE {f.len}

U2fFirst(f) ==
    IF f.cmd = "ERROR" THEN Raises
    ELSE \E want \in Announced(f) :
            IF Len(f.data) >= want THEN U2fDone(f, f.data, f.cid, f.cmd, want)
            ELSE ReadsOn(want, f.data, f.cid, f.cmd)

U2fNext(f) ==
    LET data == host.buf \o f.data IN
    IF Len(data) >= host.want THEN U2fDone(f, data, host.cid, host.cmd, host.want)
    ELSE ReadsOn(host.want, data, host.cid, host.cmd)

\* read_frame returns what it read with its padding; send_plain strips the
\* padding before it parses the text.
DbbDone(f, data, cmd) == IF cmd # "HWW" THEN Raises ELSE Returns(Unpadded(data), f.of)

DbbFirst(f) ==
    \E want \in Announced(f) :
        IF Len(f.data) >= want THEN DbbDone(f, f.data, f.cmd)
        ELSE ReadsOn(want, f.data, 0, f.cmd)

DbbNext(f) ==
    LET data == host.buf \o f.data IN
    IF Len(data) >= host.want THEN DbbDone(f, data, host.cmd)
    ELSE ReadsOn(host.want, data, 0, host.cmd)

\* HID.recv asserts the sequence number of the first frame and of no other.
LedgerFirst(f) ==
    IF f.seq # 0 THEN Raises
    ELSE IF Len(f.data) >= f.len THEN Returns(SubSeq(f.data, 1, f.len), f.of)
    ELSE ReadsOn(f.len, f.data, 0, "HWW")

LedgerNext(f) ==
    LET data == host.buf \o f.data IN
    IF Len(data) >= host.want THEN Returns(SubSeq(data, 1, host.want), f.of)
    ELSE ReadsOn(host.want, data, 0, "HWW")

\* ProtocolV1.read_first wants the marks, read_next only the report's "?",
\* which a first frame begins with as well.
TrezorFirst(f) ==
    IF ~f.marked THEN Raises
    ELSE IF Len(f.data) >= f.len THEN Returns(SubSeq(f.data, 1, f.len), f.of)
    ELSE ReadsOn(f.len, f.data, 0, "HWW")

TrezorNext(f) ==
    LET data == host.buf \o f.data IN
    IF Len(data) >= host.want THEN Returns(SubSeq(data, 1, host.want), f.of)
    ELSE ReadsOn(host.want, data, 0, "HWW")

\* The second half of send_recv.  A message that does not begin where an
\* answer begins, or that is deciphered with the wrong part of the stream,
\* is not one that CCProtocolUnpacker.decode knows.
CkccRead(f) ==
    LET data == host.buf \o f.data IN
    IF ~f.last THEN ReadsOn(0, data, 0, "HWW") /\ UNCHANGED inStep
    ELSE IF inStep /\ AnswerIn(data, f.of) # 0 THEN Returns(data, f.of) /\ UNCHANGED inStep
    ELSE Raises /\ inStep' = FALSE

Take(f) ==
    /\ wire # <<>> /\ f = Head(wire)
    /\ wire' = Tail(wire)
    /\ UNCHANGED <<link, opened, calls, dev, faults>>

ReadFirst ==
    /\ host.pc = "first" /\ wire # <<>>
    /\ \E f \in {Head(wire)} :
          /\ Take(f)
          /\ \/ link = "u2f" /\ U2fFirst(f) /\ UNCHANGED inStep
             \/ link = "dbb" /\ DbbFirst(f) /\ UNCHANGED inStep
             \/ link = "ledger" /\ LedgerFirst(f) /\ UNCHANGED inStep
             \/ link \in Trezor /\ TrezorFirst(f) /\ UNCHANGED inStep
             \/ link = "ckcc" /\ CkccRead(f)

ReadNext ==
    /\ host.pc = "more" /\ wire # <<>>
    /\ \E f \in {Head(wire)} :
          /\ Take(f)
          /\ \/ link = "u2f" /\ U2fNext(f) /\ UNCHANGED inStep
             \/ link = "dbb" /\ DbbNext(f) /\ UNCHANGED inStep
             \/ link = "ledger" /\ LedgerNext(f) /\ UNCHANGED inStep
             \/ link \in Trezor /\ TrezorNext(f) /\ UNCHANGED inStep
             \/ link = "ckcc" /\ CkccRead(f)

\* A read with a timeout gives up; send_recv tries once more before it does.
Timeout ==
    /\ host.timed
    /\ host.pc # "idle" /\ wire = <<>>
    /\ Raises
    /\ inStep' = (inStep /\ host.buf = <<>>)
    /\ UNCHANGED <<link, opened, calls, wire, dev, faults>>

\* The process is killed, with or without a call under way.
Kill ==
    /\ opened /\ faults < MaxFaults
    /\ opened' = FALSE
    /\ faults' = faults + 1
    /\ host' = Idle
    /\ owed' = IF host.pc = "idle" THEN owed ELSE owed \cup {host.call}
    /\ UNCHANGED <<link, calls, result, wire, dev, given, inStep>>

Device == DeviceTakes \/ DeviceSends
Reader == ReadFirst \/ ReadNext \/ Timeout

Next ==
    \/ Open \/ Close \/ Kill
    \/ \E size \in Sizes : Call(size[1], size[2])
    \/ Device \/ DeviceRefuses \/ DeviceStops \/ Replug
    \/ Reader

\* The device does its part as long as it is there, and so does the reader.
Spec == Init /\ [][Next]_vars /\ WF_vars(Device) /\ WF_vars(Reader)

----------------------------------------------------------------------------
\* Every answer a call returns is whole: the bytes of one answer of the
\* device, in their order, without padding and without bytes of another
\* message, wherever earlier readers stopped.  It is the answer to the call,
\* unless an earlier call failed with its answer still to come; with U2F's
\* channel numbers it is always the answer to the call (u2fhid.py:140-157).
OwnAnswer ==
    result.ok =>
        \/ result.data = Answer(result.call)
        \/ /\ link # "u2f"
           /\ \E k \in given : k < result.call /\ result.data = Answer(k)

\* A call returns or raises.  Only a call without a timeout waits for ever,
\* when the device stops in the middle: every call over the Ledger's,
\* Trezor's and the Digital Bitbox's links (hid_device.py:149,
\* digitalbitbox.py:283) and the Coldcard's calls with timeout=None
\* (ckcc/client.py:145), never one over U2F.  The Digital Bitbox's reader
\* does so also when it takes a continuation frame for a first one.
CallReturns ==
    host.pc # "idle" ~>
        \/ host.pc = "idle"
        \/ link # "u2f" /\ ~host.timed /\ ~dev.alive
        \/ link = "dbb" /\ host.cmd = "seq"

Link == INSTANCE Exchange WITH current <- host.call

\* The framings implement the link of Exchange: answers come once, in whole,
\* for the call itself or for one that failed before it on a connection that
\* was not made anew.
ImplementsExchange == Link!Spec
=============================================================================
