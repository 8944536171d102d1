--------------------------- MODULE ClientSession ---------------------------
(***************************************************************************)
(* Sessions of the Trezor clients of all HWI processes on one device that  *)
(* is reached over WebUSB (trezorlib/client.py, transport/protocol.py,     *)
(* transport/webusb.py).  A client counts its open() calls, its transport  *)
(* counts begin_session() calls, and the WebUSB handle claims the USB      *)
(* interface, which the operating system grants to one handle at a time.   *)
(* Sessions nest: prompt_pin and send_pin call open() by hand and then     *)
(* make calls that are wrapped in sessions of their own.  Once the device  *)
(* is pulled out, the operating system refuses to open it, to exchange     *)
(* packets with it and to release its interface.                           *)
(***************************************************************************)
EXTENDS Integers

CONSTANTS
    Client,   \* client objects of all processes (trezorlib TrezorClient)
    NoClient  \* "nobody", for the claim and for references that are None

ASSUME ClientAssumption == NoClient \notin Client

VARIABLES
    counter,   \* client.session_counter of each client
    transport, \* session_counter of the client's transport protocol
    handle,    \* WebUsbHandle.handle: none, opened but not claimed, claimed
    claim,     \* the client whose handle holds the interface (the OS's view)
    plugged    \* the device is plugged in

sessionVars == <<counter, transport, handle, claim, plugged>>

SessionType ==
    /\ counter \in [Client -> Nat]
    /\ transport \in [Client -> Nat]
    /\ handle \in [Client -> {"none", "opened", "claimed"}]
    /\ claim \in Client \cup {NoClient}
    /\ plugged \in BOOLEAN

SessionInit ==
    /\ counter = [c \in Client |-> 0]
    /\ transport = [c \in Client |-> 0]
    /\ handle = [c \in Client |-> "none"]
    /\ claim = NoClient
    /\ plugged = TRUE

\* session_counter = max(session_counter - 1, 0)
Decrement(n) == IF n > 0 THEN n - 1 ELSE 0

\* open() reaches WebUsbHandle.open() only from a client without a session.
OpensHandle(c) == counter[c] = 0 /\ transport[c] = 0

\* open() succeeds: the outermost one begins the transport's session and
\* claims the interface, an inner one only counts.
Open(c) ==
    /\ OpensHandle(c) => plugged /\ claim = NoClient
    /\ counter' = [counter EXCEPT ![c] = @ + 1]
    /\ transport' = [transport EXCEPT ![c] = IF counter[c] = 0 THEN @ + 1 ELSE @]
    /\ handle' = [handle EXCEPT ![c] = IF OpensHandle(c) THEN "claimed" ELSE @]
    /\ claim' = IF OpensHandle(c) THEN c ELSE claim
    /\ UNCHANGED plugged

\* Mutant: open() counts before it begins the session.
OpenRaises_CountsFirst(c) ==
    /\ OpensHandle(c)
    /\ plugged => claim # NoClient
    /\ counter' = [counter EXCEPT ![c] = @ + 1]
    /\ handle' = [handle EXCEPT ![c] = IF plugged THEN "opened" ELSE @]
    /\ UNCHANGED <<transport, claim, plugged>>

\* open() raises, and both counters keep their value: the device cannot be
\* opened because it is gone, or it is opened and claimInterface finds the
\* interface taken.
OpenRaises(c) ==
    /\ OpensHandle(c)
    /\ plugged => claim # NoClient
    /\ handle' = [handle EXCEPT ![c] = IF plugged THEN "opened" ELSE @]
    /\ UNCHANGED <<counter, transport, claim, plugged>>

\* close() ends the transport's session whenever the client's counter is 0
\* afterwards, also when it was 0 before.
EndsSession(c) == Decrement(counter[c]) = 0

ClosesHandle(c) == EndsSession(c) /\ Decrement(transport[c]) = 0

CountClose(c) ==
    /\ counter' = [counter EXCEPT ![c] = Decrement(@)]
    /\ transport' = [transport EXCEPT ![c] = IF EndsSession(c) THEN Decrement(@) ELSE @]

\* releaseInterface raises on an interface that was never claimed, and on a
\* claimed one of a device that is gone.
ReleaseRaises(c) == handle[c] = "opened" \/ (handle[c] = "claimed" /\ ~plugged)

\* close() succeeds: a handle that is None is left alone.
Close(c) ==
    /\ ClosesHandle(c) => ~ReleaseRaises(c)
    /\ CountClose(c)
    /\ handle' = [handle EXCEPT ![c] = IF ClosesHandle(c) THEN "none" ELSE @]
    /\ claim' = IF ClosesHandle(c) /\ handle[c] = "claimed" THEN NoClient ELSE claim
    /\ UNCHANGED plugged

\* Mutant: close() does not ask whether the handle is None.
CloseRaises_NoneToo(c) ==
    /\ ClosesHandle(c)
    /\ handle[c] # "claimed"
    /\ CountClose(c)
    /\ UNCHANGED <<handle, claim, plugged>>

\* close() raises: both counters are down by then, and the exception leaves
\* the handle in place.
CloseRaises(c) ==
    /\ ClosesHandle(c)
    /\ ReleaseRaises(c)
    /\ CountClose(c)
    /\ UNCHANGED <<handle, claim, plugged>>

\* The objects in S are gone (dropped by the interpreter, or their process
\* exited), or are created anew: no session, and what they held is released.
Reset(S) ==
    /\ counter' = [c \in Client |-> IF c \in S THEN 0 ELSE counter[c]]
    /\ transport' = [c \in Client |-> IF c \in S THEN 0 ELSE transport[c]]
    /\ handle' = [c \in Client |-> IF c \in S THEN "none" ELSE handle[c]]
    /\ claim' = IF claim \in S THEN NoClient ELSE claim
    /\ UNCHANGED plugged

\* The device is pulled out.  The processes notice when they use it next.
PullOut ==
    /\ plugged
    /\ plugged' = FALSE
    /\ claim' = NoClient
    /\ UNCHANGED <<counter, transport, handle>>

(***************************************************************************)
(* The two counters and the handle of a client agree with each other and   *)
(* with the operating system, whatever mixture of nested, failed and       *)
(* surplus open() and close() calls came before: a client inside a session *)
(* holds the interface, the transport is in exactly one session of its     *)
(* own then, and the interface is claimed by nobody else.  The counters    *)
(* still agree when the device is gone; the interface went with it.        *)
(***************************************************************************)
SessionsBalance ==
    \A c \in Client :
        /\ transport[c] = IF counter[c] > 0 THEN 1 ELSE 0
        /\ counter[c] > 0 => handle[c] = "claimed"
        /\ plugged => /\ (counter[c] > 0) <=> (claim = c)
                      /\ (handle[c] = "claimed") <=> (claim = c)
        /\ ~plugged => claim = NoClient
=============================================================================
