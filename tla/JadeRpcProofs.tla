--------------------------- MODULE JadeRpcProofs ---------------------------
(***************************************************************************)
(* Proofs about JadeRpc, for any number of inputs, parts, methods, faults  *)
(* and any error codes: the results a method reads are the answers to its  *)
(* requests and about the inputs it files them under, the host's entropy   *)
(* leaves after the device's commitments, a signed PSBT is whole.          *)
(*                                                                         *)
(* The argument: a method other than the older sign_tx has at most one     *)
(* request under way, and from its second request on nothing else is on    *)
(* the way to the device, so that the device's session is where the method *)
(* is (Synchronous).  The older sign_tx writes its requests one after the  *)
(* other, and what is on the way, in the device's session and among the    *)
(* replies is told apart by the distance of the identifier to that of the  *)
(* call which began it (Posting).                                          *)
(***************************************************************************)
EXTENDS JadeRpc, TLAPS

\* The elements of a queue.
Elements(s) == {s[i] : i \in 1..Len(s)}

\* The methods whose session with the device the results depend on.
AeTransactions == {"sign_tx_ae", "sign_liquid_tx", "legacy_sign_tx", "legacy_sign_tx_skips"}
Sessions == AeTransactions \cup {"sign_tx", "sign_message_ae", "sign_psbt"}
SessionCalls == {"tx_input", "get_signature", "sign_psbt", "get_extended_data"}

\* The other calls of one exchange, and all names of calls.
PlainCalls == {"add_entropy", "auth_user", "debug_capture_image_data", "debug_clean_reset",
               "debug_gcov_dump", "debug_scan_qr", "debug_selfcheck", "debug_set_mnemonic",
               "get_bip85_bip39_entropy", "get_bip85_pubkey", "get_bip85_rsa_entropy",
               "get_blinding_factor", "get_blinding_key", "get_commitments",
               "get_identity_pubkey", "get_identity_shared_key", "get_master_blinding_key",
               "get_otp_code", "get_receive_address", "get_registered_descriptor",
               "get_registered_descriptors", "get_registered_multisig",
               "get_registered_multisigs", "get_shared_nonce", "get_version_info", "get_xpub",
               "logout", "ota", "ota_complete", "ota_data", "ping", "register_descriptor",
               "register_multisig", "register_otp", "set_epoch", "sign_attestation",
               "sign_bip85_digests", "sign_identity", "sign_message", "update_pinserver"}
CallNames == PlainCalls \cup SessionCalls \cup {"sign_tx", "sign_liquid_tx", "pin"}

\* The calls of an anti-exfil method before its transaction, and its inputs.
Before(c) == IF c = "legacy_sign_tx" THEN 2 ELSE IF c = "legacy_sign_tx_skips" THEN 1 ELSE 0
Inputs(c) == IF c = "legacy_sign_tx_skips" THEN TxInputs - 1 ELSE TxInputs

\* The exchanges made of the method that runs.
Done == Len(Program(cmd)) - Len(todo)

----------------------------------------------------------------------------
(* Types                                                                   *)

Steps == [op : {"rpc", "until", "parts", "post", "collect"}, m : CallNames, long : BOOLEAN, arg : Nat,
          entropy : BOOLEAN, ae : BOOLEAN]
Requests == [id : Nat \ {0}, m : CallNames, arg : Nat, entropy : BOOLEAN, ae : BOOLEAN]
Messages == [kind : {"result", "http", "error", "log", "torn"}, id : Nat, of : Nat, value : Nat,
             code : ErrorCodes \cup {"none"}, part : Nat, last : Nat]
Session == [kind : {"none", "tx", "message", "psbt"}, n : Nat, ae : BOOLEAN, in : Seq(Requests),
            sigs : Nat, id : Nat]
Results == [want : Nat, of : Nat, m : CallNames, arg : Nat, value : Nat, part : Nat, last : Nat]

Types ==
    /\ cmd \in {"none"} \cup Commands
    /\ todo \in Seq(Steps)
    /\ wait \in Nat
    /\ posted \in Seq(Nat)
    /\ got \in Seq(Results)
    /\ down \in Seq(Requests)
    /\ up \in Seq(Messages)
    /\ dev \in [works : BOOLEAN, tcp : BOOLEAN, closed : BOOLEAN, session : Session]
    /\ ids \in Nat

----------------------------------------------------------------------------
(* The inductive invariant                                                 *)

\* The method that runs is at some place of its program, and waits only for
\* the reply to a call.
Running ==
    /\ cmd = "none" => wait = 0 /\ todo = <<>>
    /\ cmd # "none" => open /\ outcome \in {"none", "again"}
    /\ cmd # "none" => /\ Done \in Nat
                       /\ \A j \in 1..Len(todo) : todo[j] = Program(cmd)[Done + j]
    /\ wait # 0 => todo # <<>> /\ Head(todo).op # "post"

\* Identifiers: requests are read in the order in which they were made, and
\* what has been answered was made before.
Ordered ==
    /\ \A i, j \in 1..Len(down) : i < j => down[i].id < down[j].id
    /\ \A d \in Elements(down) : d.id <= ids
    /\ \A r \in Elements(up) : r.of <= ids /\ \A d \in Elements(down) : r.of < d.id
    /\ \A x \in Elements(Sess.in) : x.id <= ids /\ \A d \in Elements(down) : x.id < d.id
    /\ \A r \in Elements(up) : r.kind \in {"result", "http"} => r.id = r.of

\* The session with the device after k exchanges of the method that runs.
Matches(k) ==
    /\ cmd \in AeTransactions /\ k > Before(cmd) =>
          LET i == k - Before(cmd) - 1
              n == Inputs(cmd)
          IN i < 2 * n => /\ Sess.kind = "tx" /\ Sess.ae = TRUE /\ Sess.n = n
                          /\ Len(Sess.in) = IF i < n THEN i ELSE n
                          /\ Sess.sigs = IF i < n THEN 0 ELSE i - n
    /\ cmd = "sign_message_ae" /\ k = 1 =>
          Sess.kind = "message" /\ Sess.ae = TRUE /\ Sess.n = 0 /\ Len(Sess.in) = 0 /\ Sess.sigs = 0
    /\ cmd = "sign_tx" /\ k = 1 =>
          Sess.kind = "tx" /\ Sess.ae = FALSE /\ Sess.n = TxInputs /\ Len(Sess.in) = 0

PsbtSession(n, id) == Sess.kind = "psbt" /\ Sess.n = n /\ Sess.id = id

\* The request of the step that is being made: itself, one that brings the
\* pin server's answer, or one for the next part.
Carries(d) ==
    \/ d = build_request(d.id, Head(todo)) /\ (Head(todo).op = "parts" => got = <<>>)
    \/ Head(todo).m = "auth_user" /\ d = build_request(d.id, Step("rpc", "pin"))
    \/ /\ Head(todo).op = "parts" /\ got # <<>>
       /\ d = build_request(d.id, [Step("parts", "get_extended_data") EXCEPT !.arg = Len(got) + 1])

\* The device has not answered it yet, and is where the method is.
Pending ==
    /\ down # <<>>
    /\ down[Len(down)].id = wait
    /\ Carries(down[Len(down)])
    /\ Done > 0 => Len(down) = 1 /\ (dev.works => Matches(Done))
    /\ Head(todo).op = "parts" /\ got # <<>> =>
          /\ Len(down) = 1
          /\ dev.works => PsbtSession(got[1].last, got[1].value)

\* An answer fits the step and leaves the session where its end puts it.
Fits(r) ==
    /\ r.kind = "http" => Head(todo).m = "auth_user"
    /\ Head(todo).m \in {"tx_input", "get_signature"} => r.value = Head(todo).arg
    /\ dev.works /\ r.kind = "result" => Matches(Done + 1)
    /\ Head(todo).op = "parts" =>
          /\ r.part = Len(got) + 1 /\ r.part <= r.last
          /\ got # <<>> => r.last = got[1].last /\ r.value = got[1].value
          /\ dev.works /\ r.part # r.last => PsbtSession(r.last, r.value)

Answered ==
    /\ down = <<>>
    /\ \A r \in Elements(up) : r.kind \in {"result", "http"} /\ r.of = wait => Fits(r)

Posts == cmd = "sign_tx" /\ Done > 0

Synchronous ==
    cmd # "none" /\ ~Posts =>
        /\ wait = 0 /\ Done > 0 => down = <<>> /\ (dev.works => Matches(Done))
        /\ wait = 0 /\ todo # <<>> /\ Head(todo).op = "parts" => got = <<>>
        /\ wait # 0 => wait = ids /\ (Pending \/ Answered)

\* The older sign_tx: requests written and replies read or awaited so far,
\* and the identifier of the call that began it.
Written == IF Done - 1 <= TxInputs THEN Done - 1 ELSE TxInputs
Taken == (IF Done - 1 <= TxInputs THEN 0 ELSE Done - 1 - TxInputs) + (IF wait = 0 THEN 0 ELSE 1)
Base == ids - Written

Posting ==
    /\ ~Posts => posted = <<>>
    /\ Posts =>
           /\ Base \in Nat
           /\ Len(down) <= Written
           /\ \A j \in 1..Len(down) : down[j].m = "tx_input" /\ down[j].id = ids - Len(down) + j
           /\ dev.works /\ Sess.kind = "tx" =>
                 /\ Sess.ae = FALSE /\ Sess.n = TxInputs
                 /\ Len(Sess.in) = Written - Len(down)
                 /\ \A j \in 1..Len(Sess.in) : Sess.in[j].id = Base + j
           /\ \A r \in Elements(up) : r.kind \in {"result", "http"} /\ r.of > Base =>
                 r.kind = "result" /\ r.value = r.of - Base
           /\ Len(posted) = Written - Taken
           /\ \A j \in 1..Len(posted) : posted[j] = Base + Taken + j
           /\ wait # 0 => wait = Base + Taken

\* The host's entropy is ahead of anything else, and the device committed; a
\* device that stopped has forgotten its transaction.
Entropy ==
    /\ \A j \in 1..Len(down) :
          down[j].entropy = TRUE => j = 1 /\ (Sess.kind = "tx" => Len(Sess.in) = Sess.n)
    /\ ~dev.works => Sess.kind = "none"

\* The parts read of a signed PSBT.
Parts ==
    /\ \A i \in 1..Len(got) : got[i].m = "sign_psbt" => got[1].m = "sign_psbt"
    /\ got # <<>> /\ got[1].m = "sign_psbt" =>
          /\ \A i \in 1..Len(got) : got[i].part = i /\ got[i].value = got[1].value
          /\ cmd # "none" => cmd = "sign_psbt"
          /\ cmd # "none" /\ todo # <<>> => Len(got) < got[1].last
          /\ cmd # "none" /\ todo = <<>> => Len(got) = got[1].last
    /\ cmd = "sign_psbt" /\ got # <<>> => got[1].m = "sign_psbt"

IInv == Running /\ Ordered /\ Synchronous /\ Posting /\ Entropy /\ ResultsFit /\ Parts /\ PsbtWhole

----------------------------------------------------------------------------
(* Queues                                                                  *)

LEMMA ElementsAppend ==
    ASSUME NEW S, NEW s \in Seq(S), NEW x \in S
    PROVE  /\ Append(s, x) \in Seq(S)
           /\ Elements(Append(s, x)) = Elements(s) \cup {x}
<1>1. Append(s, x) \in Seq(S) /\ Len(Append(s, x)) = Len(s) + 1 /\ Len(s) \in Nat
  OBVIOUS
<1>2. \A i \in 1..Len(s) : Append(s, x)[i] = s[i]
  OBVIOUS
<1>3. Append(s, x)[Len(s) + 1] = x
  OBVIOUS
<1>4. 1..(Len(s) + 1) = (1..Len(s)) \cup {Len(s) + 1}
  BY <1>1
<1> HIDE DEF Elements
<1>5. Elements(Append(s, x)) = {Append(s, x)[i] : i \in (1..Len(s)) \cup {Len(s) + 1}}
  BY <1>1, <1>4 DEF Elements
<1> QED BY <1>1, <1>2, <1>3, <1>5 DEF Elements

LEMMA ElementsTail ==
    ASSUME NEW S, NEW s \in Seq(S), s # <<>>
    PROVE  /\ Head(s) \in S /\ Tail(s) \in Seq(S) /\ Len(Tail(s)) = Len(s) - 1 /\ Len(s) \in Nat \ {0}
           /\ Head(s) = s[1]
           /\ \A i \in 1..Len(Tail(s)) : Tail(s)[i] = s[i + 1]
           /\ Head(s) \in Elements(s)
           /\ Elements(Tail(s)) \subseteq Elements(s)
<1>1. /\ Head(s) \in S /\ Tail(s) \in Seq(S) /\ Len(Tail(s)) = Len(s) - 1 /\ Len(s) \in Nat \ {0}
      /\ Head(s) = s[1]
      /\ \A i \in 1..Len(Tail(s)) : Tail(s)[i] = s[i + 1]
  OBVIOUS
<1>2. Head(s) \in Elements(s)
  BY <1>1 DEF Elements
<1>3. ASSUME NEW i \in 1..Len(Tail(s)) PROVE Tail(s)[i] \in Elements(s)
  <2>1. i + 1 \in 1..Len(s) /\ Tail(s)[i] = s[i + 1]
    BY <1>1
  <2> QED BY <2>1 DEF Elements
<1> QED BY <1>1, <1>2, <1>3 DEF Elements

LEMMA ElementsConcat ==
    ASSUME NEW S, NEW s \in Seq(S), NEW t \in Seq(S)
    PROVE  /\ s \o t \in Seq(S)
           /\ \A x \in Elements(s \o t) : x \in Elements(s) \/ x \in Elements(t)
<1>1. /\ s \o t \in Seq(S) /\ Len(s \o t) = Len(s) + Len(t) /\ Len(s) \in Nat /\ Len(t) \in Nat
      /\ \A i \in 1..(Len(s) + Len(t)) : (s \o t)[i] = IF i <= Len(s) THEN s[i] ELSE t[i - Len(s)]
  OBVIOUS
<1>2. ASSUME NEW i \in 1..(Len(s) + Len(t)) PROVE (s \o t)[i] \in Elements(s) \/ (s \o t)[i] \in Elements(t)
  <2>1. CASE i <= Len(s)
    BY <1>1, <2>1 DEF Elements
  <2>2. CASE ~(i <= Len(s))
    <3>1. i - Len(s) \in 1..Len(t) /\ (s \o t)[i] = t[i - Len(s)]
      BY <1>1, <2>2
    <3> QED BY <3>1 DEF Elements
  <2> QED BY <2>1, <2>2
<1> QED BY <1>1, <1>2 DEF Elements

LEMMA ElementsMember ==
    ASSUME NEW S, NEW s \in Seq(S), NEW x \in Elements(s)
    PROVE  x \in S /\ \E i \in 1..Len(s) : x = s[i]
BY DEF Elements

LEMMA ElementsNone ==
    ASSUME NEW S, NEW s \in Seq(S), s = <<>>
    PROVE  Len(s) = 0 /\ Elements(s) = {}
BY DEF Elements

----------------------------------------------------------------------------
(* The programs                                                            *)

LEMMA StepTypes ==
    ASSUME NEW op \in {"rpc", "until", "parts", "post", "collect"}, NEW m \in CallNames
    PROVE  /\ Step(op, m) \in Steps
           /\ Step(op, m).op = op /\ Step(op, m).m = m /\ Step(op, m).arg = 0
           /\ Step(op, m).entropy = FALSE /\ Step(op, m).ae = FALSE
BY DEF Step, Steps

\* A step of a method that keeps no session with the device.
PlainStep(s) ==
    s \in Steps /\ s.op \in {"rpc", "until"} /\ s.m \in PlainCalls /\ s.entropy = FALSE

LEMMA PlainRpc ==
    ASSUME NEW m \in PlainCalls
    PROVE  /\ Rpc(m) \in Seq(Steps) /\ Len(Rpc(m)) = 1 /\ PlainStep(Rpc(m)[1])
           /\ LongRpc(m) \in Seq(Steps) /\ Len(LongRpc(m)) = 1 /\ PlainStep(LongRpc(m)[1])
           /\ Rpc(m)[1].m = m /\ LongRpc(m)[1].m = m
<1>0. m \in CallNames
  BY DEF CallNames
<1>1. Step("rpc", m) \in Steps /\ PlainStep(Step("rpc", m)) /\ Step("rpc", m).m = m
  BY <1>0 DEF Step, Steps, PlainStep
<1>2. /\ [Step("rpc", m) EXCEPT !.long = TRUE] \in Steps
      /\ PlainStep([Step("rpc", m) EXCEPT !.long = TRUE])
      /\ [Step("rpc", m) EXCEPT !.long = TRUE].m = m
  BY <1>0 DEF Step, Steps, PlainStep
<1> DEFINE a == Step("rpc", m)
           b == [Step("rpc", m) EXCEPT !.long = TRUE]
<1>3. a \in Steps /\ PlainStep(a) /\ a.m = m /\ b \in Steps /\ PlainStep(b) /\ b.m = m
  BY <1>1, <1>2
<1>4. Rpc(m) = <<a>> /\ LongRpc(m) = <<b>>
  BY DEF Rpc, LongRpc
<1> HIDE DEF a, b
<1>5. /\ <<a>> \in Seq(Steps) /\ Len(<<a>>) = 1 /\ <<a>>[1] = a
      /\ <<b>> \in Seq(Steps) /\ Len(<<b>>) = 1 /\ <<b>>[1] = b
  BY <1>3
<1> QED BY <1>3, <1>4, <1>5

PlainProgram(P) == P \in Seq(Steps) /\ Len(P) > 0 /\ \A j \in 1..Len(P) : PlainStep(P[j])

LEMMA PlainOne ==
    ASSUME NEW m \in PlainCalls
    PROVE  PlainProgram(Rpc(m)) /\ PlainProgram(LongRpc(m))
BY PlainRpc DEF PlainProgram

LEMMA ConcatAgain ==
    ASSUME NEW p \in Seq(Steps), NEW q \in Seq(Steps), NEW t \in Seq(Steps)
    PROVE  p \o (q \o t) = (p \o q) \o t
OBVIOUS

LEMMA ConcatNone ==
    ASSUME NEW t \in Seq(Steps)
    PROVE  <<>> \o t = t
OBVIOUS

LEMMA OneCallPrograms ==
    ASSUME NEW c \in DOMAIN Calls
    PROVE  PlainProgram(Calls[c])
<1>1. c \in {"ping", "get_version_info", "add_entropy", "set_epoch", "logout",
      "run_remote_selfcheck", "run_remote_gcov_dump", "capture_image_data", "scan_qr",
      "clean_reset", "set_mnemonic", "set_seed", "get_bip85_bip39_entropy",
      "get_bip85_rsa_entropy", "set_pinserver", "reset_pinserver", "auth_user", "register_otp",
      "get_otp_code", "get_xpub", "get_registered_multisigs", "get_registered_multisig",
      "register_multisig", "register_multisig_file", "get_registered_descriptors",
      "get_registered_descriptor", "register_descriptor", "get_receive_address",
      "sign_message_file", "get_bip85_pubkey", "sign_bip85_digests", "get_identity_pubkey",
      "get_identity_shared_key", "sign_identity", "sign_attestation", "get_master_blinding_key",
      "get_blinding_key", "get_shared_nonce", "get_blinding_factor", "get_commitments"}
  BY DEF Calls
<1>2. CASE c \in {"ping", "get_version_info", "add_entropy", "set_epoch", "logout",
      "run_remote_selfcheck", "run_remote_gcov_dump", "capture_image_data", "scan_qr",
      "clean_reset"}
  <2>1. /\ Calls["ping"] = Rpc("ping")
        /\ Calls["get_version_info"] = Rpc("get_version_info")
        /\ Calls["add_entropy"] = Rpc("add_entropy")
        /\ Calls["set_epoch"] = Rpc("set_epoch")
        /\ Calls["logout"] = Rpc("logout")
        /\ Calls["run_remote_selfcheck"] = LongRpc("debug_selfcheck")
        /\ Calls["run_remote_gcov_dump"] = LongRpc("debug_gcov_dump")
        /\ Calls["capture_image_data"] = Rpc("debug_capture_image_data")
        /\ Calls["scan_qr"] = Rpc("debug_scan_qr")
        /\ Calls["clean_reset"] = Rpc("debug_clean_reset")
    BY DEF Calls, ping, get_version_info, add_entropy, set_epoch, logout, run_remote_selfcheck,
          run_remote_gcov_dump, capture_image_data, scan_qr, clean_reset
  <2>2. ASSUME NEW m \in {"add_entropy", "debug_capture_image_data", "debug_clean_reset",
                  "debug_gcov_dump", "debug_scan_qr", "debug_selfcheck",
                  "get_version_info", "logout", "ping",
                  "set_epoch"}
        PROVE  PlainProgram(Rpc(m)) /\ PlainProgram(LongRpc(m))
    <3>1. m \in PlainCalls
      BY DEF PlainCalls
    <3> QED BY <3>1, PlainOne
  <2> QED BY <1>2, <2>1, <2>2
<1>3. CASE c \in {"set_mnemonic", "set_seed", "get_bip85_bip39_entropy",
      "get_bip85_rsa_entropy", "set_pinserver", "reset_pinserver", "auth_user", "register_otp",
      "get_otp_code", "get_xpub"}
  <2>1. /\ Calls["set_mnemonic"] = Rpc("debug_set_mnemonic")
        /\ Calls["set_seed"] = Rpc("debug_set_mnemonic")
        /\ Calls["get_bip85_bip39_entropy"] = Rpc("get_bip85_bip39_entropy")
        /\ Calls["get_bip85_rsa_entropy"] = Rpc("get_bip85_rsa_entropy")
        /\ Calls["set_pinserver"] = Rpc("update_pinserver")
        /\ Calls["reset_pinserver"] = Rpc("update_pinserver")
        /\ Calls["auth_user"] = LongRpc("auth_user")
        /\ Calls["register_otp"] = Rpc("register_otp")
        /\ Calls["get_otp_code"] = Rpc("get_otp_code")
        /\ Calls["get_xpub"] = Rpc("get_xpub")
    BY DEF Calls, set_mnemonic, set_seed, get_bip85_bip39_entropy, get_bip85_rsa_entropy,
          set_pinserver, reset_pinserver, auth_user, register_otp, get_otp_code, get_xpub
  <2>2. ASSUME NEW m \in {"auth_user", "debug_set_mnemonic", "get_bip85_bip39_entropy",
                  "get_bip85_rsa_entropy", "get_otp_code", "get_xpub",
                  "register_otp", "update_pinserver"}
        PROVE  PlainProgram(Rpc(m)) /\ PlainProgram(LongRpc(m))
    <3>1. m \in PlainCalls
      BY DEF PlainCalls
    <3> QED BY <3>1, PlainOne
  <2> QED BY <1>3, <2>1, <2>2
<1>4. CASE c \in {"get_registered_multisigs", "get_registered_multisig", "register_multisig",
      "register_multisig_file", "get_registered_descriptors", "get_registered_descriptor",
      "register_descriptor", "get_receive_address", "sign_message_file", "get_bip85_pubkey"}
  <2>1. /\ Calls["get_registered_multisigs"] = Rpc("get_registered_multisigs")
        /\ Calls["get_registered_multisig"] = Rpc("get_registered_multisig")
        /\ Calls["register_multisig"] = Rpc("register_multisig")
        /\ Calls["register_multisig_file"] = Rpc("register_multisig")
        /\ Calls["get_registered_descriptors"] = Rpc("get_registered_descriptors")
        /\ Calls["get_registered_descriptor"] = Rpc("get_registered_descriptor")
        /\ Calls["register_descriptor"] = Rpc("register_descriptor")
        /\ Calls["get_receive_address"] = Rpc("get_receive_address")
        /\ Calls["sign_message_file"] = Rpc("sign_message")
        /\ Calls["get_bip85_pubkey"] = Rpc("get_bip85_pubkey")
    BY DEF Calls, get_registered_multisigs, get_registered_multisig, register_multisig,
          register_multisig_file, get_registered_descriptors, get_registered_descriptor,
          register_descriptor, get_receive_address, sign_message_file, get_bip85_pubkey
  <2>2. ASSUME NEW m \in {"get_bip85_pubkey", "get_receive_address", "get_registered_descriptor",
                  "get_registered_descriptors", "get_registered_multisig", "get_registered_multisigs",
                  "register_descriptor", "register_multisig", "sign_message"}
        PROVE  PlainProgram(Rpc(m)) /\ PlainProgram(LongRpc(m))
    <3>1. m \in PlainCalls
      BY DEF PlainCalls
    <3> QED BY <3>1, PlainOne
  <2> QED BY <1>4, <2>1, <2>2
<1>5. CASE c \in {"sign_bip85_digests", "get_identity_pubkey", "get_identity_shared_key",
      "sign_identity", "sign_attestation", "get_master_blinding_key", "get_blinding_key",
      "get_shared_nonce", "get_blinding_factor", "get_commitments"}
  <2>1. /\ Calls["sign_bip85_digests"] = Rpc("sign_bip85_digests")
        /\ Calls["get_identity_pubkey"] = Rpc("get_identity_pubkey")
        /\ Calls["get_identity_shared_key"] = Rpc("get_identity_shared_key")
        /\ Calls["sign_identity"] = Rpc("sign_identity")
        /\ Calls["sign_attestation"] = Rpc("sign_attestation")
        /\ Calls["get_master_blinding_key"] = Rpc("get_master_blinding_key")
        /\ Calls["get_blinding_key"] = Rpc("get_blinding_key")
        /\ Calls["get_shared_nonce"] = Rpc("get_shared_nonce")
        /\ Calls["get_blinding_factor"] = Rpc("get_blinding_factor")
        /\ Calls["get_commitments"] = Rpc("get_commitments")
    BY DEF Calls, sign_bip85_digests, get_identity_pubkey, get_identity_shared_key,
          sign_identity, sign_attestation, get_master_blinding_key, get_blinding_key,
          get_shared_nonce, get_blinding_factor, get_commitments
  <2>2. ASSUME NEW m \in {"get_blinding_factor", "get_blinding_key", "get_commitments",
                  "get_identity_pubkey", "get_identity_shared_key", "get_master_blinding_key",
                  "get_shared_nonce", "sign_attestation", "sign_bip85_digests",
                  "sign_identity"}
        PROVE  PlainProgram(Rpc(m)) /\ PlainProgram(LongRpc(m))
    <3>1. m \in PlainCalls
      BY DEF PlainCalls
    <3> QED BY <3>1, PlainOne
  <2> QED BY <1>5, <2>1, <2>2
<1> QED BY <1>1, <1>2, <1>3, <1>4, <1>5, ZenonT(30)

LEMMA PlainConcat ==
    ASSUME NEW P, NEW Q, PlainProgram(P), PlainProgram(Q)
    PROVE  PlainProgram(P \o Q)
<1>1. /\ P \in Seq(Steps) /\ Q \in Seq(Steps) /\ Len(P) \in Nat /\ Len(Q) \in Nat
      /\ Len(P) > 0 /\ Len(Q) > 0
  BY DEF PlainProgram
<1>2. /\ P \o Q \in Seq(Steps) /\ Len(P \o Q) = Len(P) + Len(Q)
      /\ \A i \in 1..(Len(P) + Len(Q)) : (P \o Q)[i] = IF i <= Len(P) THEN P[i] ELSE Q[i - Len(P)]
  BY <1>1
<1>3. ASSUME NEW j \in 1..(Len(P) + Len(Q)) PROVE PlainStep((P \o Q)[j])
  <2>1. CASE j <= Len(P)
    <3>1. j \in 1..Len(P) /\ (P \o Q)[j] = P[j]
      BY <1>1, <1>2, <2>1
    <3> QED BY <3>1 DEF PlainProgram
  <2>2. CASE ~(j <= Len(P))
    <3>1. j - Len(P) \in 1..Len(Q) /\ (P \o Q)[j] = Q[j - Len(P)]
      BY <1>1, <1>2, <2>2
    <3> QED BY <3>1 DEF PlainProgram
  <2> QED BY <2>1, <2>2
<1> QED BY <1>1, <1>2, <1>3 DEF PlainProgram

\* The methods of several calls that keep no session.
LEMMA PlainPrograms ==
    ASSUME NEW c \in DOMAIN Calls \cup DOMAIN Programs, c \notin Sessions
    PROVE  PlainProgram(Program(c))
<1>1. CASE c \in DOMAIN Calls
  BY <1>1, OneCallPrograms DEF Program
<1>2. CASE c \notin DOMAIN Calls
  <2>1. c \in DOMAIN Programs /\ Program(c) = Programs[c]
    BY <1>2 DEF Program
  <2>2. c \in {"ota_update", "sign_message", "Client", "display_multisig_address"}
    <3>1. c \in {"ota_update", "sign_message", "sign_message_ae", "sign_tx", "sign_tx_ae",
                 "sign_liquid_tx", "sign_psbt", "Client", "display_multisig_address",
                 "legacy_sign_tx", "legacy_sign_tx_skips"}
      BY <2>1 DEF Programs
    <3> QED BY <3>1 DEF Sessions, AeTransactions
  <2>3. /\ Programs["ota_update"] = ota_update(2, TRUE)
        /\ Programs["sign_message"] = sign_message(FALSE)
        /\ Programs["Client"] = Client
        /\ Programs["display_multisig_address"] = display_multisig_address
    BY DEF Programs
  <2>4. \A m \in PlainCalls : PlainProgram(Rpc(m)) /\ PlainProgram(LongRpc(m))
    BY PlainOne
  <2>5. /\ PlainProgram(Rpc("ota")) /\ PlainProgram(Rpc("ota_data")) /\ PlainProgram(Rpc("ota_complete"))
        /\ PlainProgram(LongRpc("debug_gcov_dump")) /\ PlainProgram(Rpc("sign_message"))
        /\ PlainProgram(Rpc("get_version_info")) /\ PlainProgram(Rpc("add_entropy"))
        /\ PlainProgram(Rpc("register_multisig")) /\ PlainProgram(Rpc("get_receive_address"))
    BY <2>4 DEF PlainCalls
  <2>6. CASE c = "ota_update"
    <3> DEFINE data == Loop(2, LAMBDA i : Step("rpc", "ota_data"))
    <3>1. PlainStep(Step("rpc", "ota_data"))
      <4>1. Rpc("ota_data")[1] = Step("rpc", "ota_data") /\ Len(Rpc("ota_data")) = 1
        BY DEF Rpc
      <4> QED BY <4>1, <2>5 DEF PlainProgram
    <3>2. data = [i \in 1..2 |-> Step("rpc", "ota_data")]
      BY DEF Loop
    <3>3. Step("rpc", "ota_data") \in Steps
      BY <3>1 DEF PlainStep
    <3>4. data \in Seq(Steps) /\ Len(data) = 2 /\ \A j \in 1..2 : data[j] = Step("rpc", "ota_data")
      <4> HIDE DEF data
      <4> DEFINE st == Step("rpc", "ota_data")
      <4>1. data = [i \in 1..2 |-> st] /\ st \in Steps
        BY <3>2, <3>3
      <4> HIDE DEF st
      <4>2. data \in Seq(Steps) /\ Len(data) = 2 /\ \A j \in 1..2 : data[j] = st
        BY <4>1
      <4> QED BY <4>2 DEF st
    <3>5. PlainProgram(data)
      <4> HIDE DEF data
      <4> QED BY <3>1, <3>4 DEF PlainProgram
    <3>6. ota_update(2, TRUE) = Rpc("ota") \o data \o LongRpc("debug_gcov_dump") \o Rpc("ota_complete")
      BY DEF ota_update, run_remote_gcov_dump
    <3> HIDE DEF data
    <3>7. PlainProgram(Rpc("ota") \o data)
      BY <2>5, <3>5, PlainConcat
    <3>8. PlainProgram(Rpc("ota") \o data \o LongRpc("debug_gcov_dump"))
      BY <2>5, <3>7, PlainConcat
    <3>9. PlainProgram(Rpc("ota") \o data \o LongRpc("debug_gcov_dump") \o Rpc("ota_complete"))
      BY <2>5, <3>8, PlainConcat
    <3> QED BY <2>1, <2>3, <2>6, <3>6, <3>9
  <2>7. CASE c = "sign_message"
    BY <2>1, <2>3, <2>5, <2>7 DEF sign_message
  <2>8. CASE c = "Client"
    <3> DEFINE u == [auth_user[1] EXCEPT !.op = "until"]
    <3>1. PlainStep(u)
      <4>1. auth_user[1] \in Steps /\ auth_user[1].m = "auth_user" /\ auth_user[1].entropy = FALSE
        <5>1. "auth_user" \in PlainCalls
          BY DEF PlainCalls
        <5>2. PlainStep(LongRpc("auth_user")[1]) /\ LongRpc("auth_user")[1].m = "auth_user"
          BY <5>1, PlainRpc
        <5> QED BY <5>2 DEF auth_user, PlainStep
      <4>2. "auth_user" \in PlainCalls
        BY DEF PlainCalls
      <4>4. u \in Steps
        BY <4>1 DEF Steps
      <4>5. u.op = "until" /\ u.m = "auth_user" /\ u.entropy = FALSE
        BY <4>1 DEF Steps
      <4> QED BY <4>2, <4>4, <4>5 DEF PlainStep
    <3>2. Client = Rpc("get_version_info") \o Rpc("add_entropy") \o <<u>>
      BY DEF Client, get_version_info, add_entropy
    <3> HIDE DEF u
    <3>3. PlainProgram(<<u>>)
      <4>1. u \in Steps
        BY <3>1 DEF PlainStep
      <4> DEFINE q == <<u>>
      <4>2. q \in Seq(Steps) /\ Len(q) = 1 /\ q[1] = u
        BY <4>1
      <4> HIDE DEF q
      <4>3. PlainProgram(q)
        BY <3>1, <4>2 DEF PlainProgram
      <4> QED BY <4>3 DEF q
    <3>4. PlainProgram(Rpc("get_version_info") \o Rpc("add_entropy"))
      BY <2>5, PlainConcat
    <3>5. PlainProgram(Rpc("get_version_info") \o Rpc("add_entropy") \o <<u>>)
      BY <3>3, <3>4, PlainConcat
    <3> QED BY <2>1, <2>3, <2>8, <3>2, <3>5
  <2>9. CASE c = "display_multisig_address"
    <3>1. PlainProgram(Rpc("register_multisig") \o Rpc("get_receive_address"))
      BY <2>5, PlainConcat
    <3> QED BY <2>1, <2>3, <2>9, <3>1 DEF display_multisig_address, register_multisig, get_receive_address
  <2> QED BY <2>2, <2>6, <2>7, <2>8, <2>9
<1> QED BY <1>1, <1>2

\* The other programs, step by step.
MessageProgram(P) ==
    /\ P \in Seq(Steps) /\ Len(P) = 2
    /\ P[1].op = "rpc" /\ P[1].m = "sign_message" /\ P[1].ae = TRUE /\ P[1].entropy = FALSE
    /\ P[2].op = "rpc" /\ P[2].m = "get_signature" /\ P[2].arg = 1

PsbtProgram(P) ==
    P \in Seq(Steps) /\ Len(P) = 1 /\ P[1].op = "parts" /\ P[1].m = "sign_psbt" /\ P[1].entropy = FALSE

\* The exchanges about the i-th input.
InputStep(s, op, i) ==
    s \in Steps /\ s.op = op /\ s.m = "tx_input" /\ s.arg = i
SignatureStep(s, i) ==
    s \in Steps /\ s.op = "rpc" /\ s.m = "get_signature" /\ s.arg = i
PlainOpening(s, n) ==
    /\ s \in Steps /\ s.op = "rpc" /\ s.m = "sign_tx" /\ s.arg = n
    /\ s.ae = FALSE /\ s.entropy = FALSE
AeOpening(s, n) ==
    /\ s \in Steps /\ s.op = "rpc" /\ s.m \in {"sign_tx", "sign_liquid_tx"} /\ s.arg = n
    /\ s.ae = TRUE /\ s.entropy = FALSE

AeProgram(P, o, n) ==
    /\ P \in Seq(Steps) /\ Len(P) = o + 1 + 2 * n
    /\ \A j \in 1..o : PlainStep(P[j])
    /\ AeOpening(P[o + 1], n)
    /\ \A i \in 1..n : InputStep(P[o + 1 + i], "rpc", i) /\ P[o + 1 + i].entropy = FALSE
    /\ \A i \in 1..n : SignatureStep(P[o + 1 + n + i], i)

PostProgram(P, n) ==
    /\ P \in Seq(Steps) /\ Len(P) = 1 + 2 * n
    /\ PlainOpening(P[1], n)
    /\ \A i \in 1..n : InputStep(P[1 + i], "post", i) /\ P[1 + i].entropy = FALSE
    /\ \A i \in 1..n : InputStep(P[1 + n + i], "collect", i)

LEMMA PlainAndSession ==
    /\ "sign_message" \in CallNames /\ "sign_tx" \in CallNames /\ "sign_liquid_tx" \in CallNames
    /\ "tx_input" \in CallNames /\ "get_signature" \in CallNames /\ "sign_psbt" \in CallNames
    /\ "get_extended_data" \in CallNames /\ "pin" \in CallNames /\ "auth_user" \in CallNames
BY DEF CallNames, PlainCalls, SessionCalls

LEMMA MessageSteps == MessageProgram(sign_message(TRUE))
<1> DEFINE a == [Step("rpc", "sign_message") EXCEPT !.ae = TRUE]
           b == [Step("rpc", "get_signature") EXCEPT !.arg = 1, !.entropy = TRUE]
           q == <<a, b>>
<1>1. /\ a \in Steps /\ a.op = "rpc" /\ a.m = "sign_message" /\ a.ae = TRUE /\ a.entropy = FALSE
      /\ b \in Steps /\ b.op = "rpc" /\ b.m = "get_signature" /\ b.arg = 1
  BY PlainAndSession DEF Step, Steps
<1>2. sign_message(TRUE) = q
  BY DEF sign_message
<1> HIDE DEF a, b
<1>3. q \in Seq(Steps) /\ Len(q) = 2 /\ q[1] = a /\ q[2] = b
  BY <1>1
<1> HIDE DEF q
<1> QED BY <1>1, <1>2, <1>3 DEF MessageProgram

LEMMA PsbtSteps == PsbtProgram(sign_psbt)
<1> DEFINE a == Step("parts", "sign_psbt")
           q == <<a>>
<1>1. a \in Steps /\ a.op = "parts" /\ a.m = "sign_psbt" /\ a.entropy = FALSE
  BY PlainAndSession DEF Step, Steps
<1>2. sign_psbt = q
  BY DEF sign_psbt
<1> HIDE DEF a
<1>3. q \in Seq(Steps) /\ Len(q) = 1 /\ q[1] = a
  BY <1>1
<1> HIDE DEF q
<1> QED BY <1>1, <1>2, <1>3 DEF PsbtProgram

\* A first call, and one list of steps after another.
IsJoined(q, a, s, t) ==
    /\ q \in Seq(Steps) /\ Len(q) = 1 + Len(s) + Len(t) /\ q[1] = a
    /\ \A i \in 1..Len(s) : q[1 + i] = s[i]
    /\ \A i \in 1..Len(t) : q[1 + Len(s) + i] = t[i]

LEMMA Joined ==
    ASSUME NEW a \in Steps, NEW s \in Seq(Steps), NEW t \in Seq(Steps)
    PROVE  IsJoined(<<a>> \o (s \o t), a, s, t)
<1> DEFINE u == s \o t
           q == <<a>> \o (s \o t)
<1>1. /\ u \in Seq(Steps) /\ Len(u) = Len(s) + Len(t) /\ Len(s) \in Nat /\ Len(t) \in Nat
      /\ \A i \in 1..Len(s) : u[i] = s[i]
      /\ \A i \in 1..Len(t) : u[Len(s) + i] = t[i]
  OBVIOUS
<1> HIDE DEF u
<1>0. q = <<a>> \o u
  BY DEF u
<1> HIDE DEF q
<1>2. /\ q \in Seq(Steps) /\ Len(q) = 1 + Len(u) /\ q[1] = a
      /\ \A i \in 1..Len(u) : q[1 + i] = u[i]
  BY <1>0, <1>1
<1>3. ASSUME NEW i \in 1..Len(s) PROVE q[1 + i] = s[i]
  BY <1>1, <1>2
<1>4. ASSUME NEW i \in 1..Len(t) PROVE q[1 + Len(s) + i] = t[i]
  <2>1. Len(s) + i \in 1..Len(u) /\ 1 + (Len(s) + i) = 1 + Len(s) + i
    BY <1>1
  <2> QED BY <1>1, <1>2, <2>1
<1>5. Len(q) = 1 + Len(s) + Len(t)
  BY <1>1, <1>2
<1>6. IsJoined(q, a, s, t)
  BY <1>2, <1>3, <1>4, <1>5, Zenon DEF IsJoined
<1> QED BY <1>6 DEF q

LEMMA InNat ==
    ASSUME NEW n \in Nat, NEW i \in 1..n
    PROVE  i \in Nat
OBVIOUS

LEMMA ListOf ==
    ASSUME NEW S, NEW n \in Nat, NEW F \in [1..n -> S]
    PROVE  F \in Seq(S) /\ Len(F) = n
OBVIOUS

\* The loops of _send_tx_inputs.
LEMMA InputLoop ==
    ASSUME NEW n \in Nat, NEW op \in {"rpc", "post", "collect"},
           NEW F, F = [i \in 1..n |-> [Step(op, "tx_input") EXCEPT !.arg = i]]
    PROVE  /\ F \in Seq(Steps) /\ Len(F) = n
           /\ \A i \in 1..n : InputStep(F[i], op, i) /\ F[i].entropy = FALSE
<1> DEFINE f(i) == [Step(op, "tx_input") EXCEPT !.arg = i]
<1>1. ASSUME NEW i \in 1..n PROVE f(i) \in Steps /\ InputStep(f(i), op, i) /\ f(i).entropy = FALSE
  <2>1. i \in Nat
    BY InNat, Zenon
  <2>2. f(i) \in Steps
    BY <2>1, PlainAndSession DEF Step, Steps
  <2>3. f(i).op = op /\ f(i).m = "tx_input" /\ f(i).arg = i
    BY DEF Step
  <2>4. f(i).entropy = FALSE
    BY DEF Step
  <2> HIDE DEF f
  <2> QED BY <2>2, <2>3, <2>4 DEF InputStep
<1>2. F = [i \in 1..n |-> f(i)]
  OBVIOUS
<1> HIDE DEF f
<1>3. F \in [1..n -> Steps] /\ \A i \in 1..n : F[i] = f(i)
  BY <1>1, <1>2
<1> QED BY <1>1, <1>3, ListOf

LEMMA SignatureLoop ==
    ASSUME NEW n \in Nat,
           NEW F, F = [i \in 1..n |-> [Step("rpc", "get_signature") EXCEPT !.arg = i, !.entropy = TRUE]]
    PROVE  /\ F \in Seq(Steps) /\ Len(F) = n
           /\ \A i \in 1..n : SignatureStep(F[i], i)
<1> DEFINE f(i) == [Step("rpc", "get_signature") EXCEPT !.arg = i, !.entropy = TRUE]
<1>1. ASSUME NEW i \in 1..n PROVE f(i) \in Steps /\ SignatureStep(f(i), i)
  <2>1. i \in Nat
    BY InNat, Zenon
  <2>2. f(i) \in Steps
    BY <2>1, PlainAndSession DEF Step, Steps
  <2>3. f(i).op = "rpc" /\ f(i).m = "get_signature" /\ f(i).arg = i
    BY DEF Step
  <2> HIDE DEF f
  <2> QED BY <2>2, <2>3 DEF SignatureStep
<1>2. F = [i \in 1..n |-> f(i)]
  OBVIOUS
<1> HIDE DEF f
<1>3. F \in [1..n -> Steps] /\ \A i \in 1..n : F[i] = f(i)
  BY <1>1, <1>2
<1> QED BY <1>1, <1>3, ListOf

LEMMA Opening ==
    ASSUME NEW n \in Nat, NEW m \in {"sign_tx", "sign_liquid_tx"}
    PROVE  /\ AeOpening([Step("rpc", m) EXCEPT !.arg = n, !.ae = TRUE], n)
           /\ m = "sign_tx" => PlainOpening([Step("rpc", m) EXCEPT !.arg = n, !.ae = FALSE], n)
<1> DEFINE a == [Step("rpc", m) EXCEPT !.arg = n, !.ae = TRUE]
           b == [Step("rpc", m) EXCEPT !.arg = n, !.ae = FALSE]
<1>1. m \in CallNames
  BY DEF CallNames
<1>2. a \in Steps /\ b \in Steps
  BY <1>1 DEF Step, Steps
<1>3. a.op = "rpc" /\ a.m = m /\ a.arg = n /\ b.op = "rpc" /\ b.m = m /\ b.arg = n
  BY DEF Step
<1>4. a.ae = TRUE /\ a.entropy = FALSE
  BY DEF Step
<1>5. b.ae = FALSE /\ b.entropy = FALSE
  BY DEF Step
<1> HIDE DEF a, b
<1>6. AeOpening(a, n) /\ (m = "sign_tx" => PlainOpening(b, n))
  BY <1>2, <1>3, <1>4, <1>5 DEF AeOpening, PlainOpening
<1> QED BY <1>6 DEF a, b

LEMMA PostJoined ==
    ASSUME NEW n \in Nat, NEW a, PlainOpening(a, n),
           NEW s \in Seq(Steps), Len(s) = n,
           \A i \in 1..n : InputStep(s[i], "post", i) /\ s[i].entropy = FALSE,
           NEW t \in Seq(Steps), Len(t) = n, \A i \in 1..n : InputStep(t[i], "collect", i)
    PROVE  PostProgram(<<a>> \o (s \o t), n)
<1> DEFINE q == <<a>> \o (s \o t)
<1>1. a \in Steps
  BY DEF PlainOpening, AeOpening
<1>7. IsJoined(q, a, s, t)
  BY <1>1, Joined
<1> HIDE DEF q
<1>2. /\ q \in Seq(Steps) /\ Len(q) = 1 + Len(s) + Len(t) /\ q[1] = a
      /\ \A i \in 1..Len(s) : q[1 + i] = s[i]
      /\ \A i \in 1..Len(t) : q[1 + Len(s) + i] = t[i]
  BY <1>7 DEF IsJoined
<1>3. ASSUME NEW i \in 1..n
      PROVE  /\ InputStep(q[1 + i], "post", i) /\ q[1 + i].entropy = FALSE
             /\ InputStep(q[1 + n + i], "collect", i)
  <2>1. q[1 + i] = s[i] /\ q[1 + n + i] = t[i]
    BY <1>2
  <2> QED BY <2>1
<1>4. Len(q) = 1 + 2 * n
  BY <1>2
<1>5. PlainOpening(q[1], n)
  BY <1>2
<1>6. PostProgram(q, n)
  BY <1>2, <1>3, <1>4, <1>5, Zenon DEF PostProgram
<1> QED BY <1>6 DEF q

LEMMA AeJoined ==
    ASSUME NEW n \in Nat, NEW a, AeOpening(a, n),
           NEW s \in Seq(Steps), Len(s) = n,
           \A i \in 1..n : InputStep(s[i], "rpc", i) /\ s[i].entropy = FALSE,
           NEW t \in Seq(Steps), Len(t) = n, \A i \in 1..n : SignatureStep(t[i], i)
    PROVE  AeProgram(<<a>> \o (s \o t), 0, n)
<1> DEFINE q == <<a>> \o (s \o t)
<1>1. a \in Steps
  BY DEF PlainOpening, AeOpening
<1>7. IsJoined(q, a, s, t)
  BY <1>1, Joined
<1> HIDE DEF q
<1>2. /\ q \in Seq(Steps) /\ Len(q) = 1 + Len(s) + Len(t) /\ q[1] = a
      /\ \A i \in 1..Len(s) : q[1 + i] = s[i]
      /\ \A i \in 1..Len(t) : q[1 + Len(s) + i] = t[i]
  BY <1>7 DEF IsJoined
<1>3. ASSUME NEW i \in 1..n
      PROVE  /\ InputStep(q[0 + 1 + i], "rpc", i) /\ q[0 + 1 + i].entropy = FALSE
             /\ SignatureStep(q[0 + 1 + n + i], i)
  <2>1. q[0 + 1 + i] = s[i] /\ q[0 + 1 + n + i] = t[i]
    BY <1>2
  <2> QED BY <2>1
<1>4. Len(q) = 0 + 1 + 2 * n /\ \A j \in 1..0 : PlainStep(q[j])
  BY <1>2
<1>5. AeOpening(q[0 + 1], n)
  BY <1>2
<1>6. AeProgram(q, 0, n)
  BY <1>2, <1>3, <1>4, <1>5, Zenon DEF AeProgram
<1> QED BY <1>6 DEF q

LEMMA PostSteps ==
    ASSUME NEW n \in Nat
    PROVE  PostProgram(sign_tx(n, FALSE), n)
<1> DEFINE a == [Step("rpc", "sign_tx") EXCEPT !.arg = n, !.ae = FALSE]
           s == [i \in 1..n |-> [Step("post", "tx_input") EXCEPT !.arg = i]]
           t == [i \in 1..n |-> [Step("collect", "tx_input") EXCEPT !.arg = i]]
<1>1. PlainOpening(a, n)
  BY Opening
<1>2. /\ s \in Seq(Steps) /\ Len(s) = n
      /\ \A i \in 1..n : InputStep(s[i], "post", i) /\ s[i].entropy = FALSE
  BY InputLoop
<1>3. /\ t \in Seq(Steps) /\ Len(t) = n
      /\ \A i \in 1..n : InputStep(t[i], "collect", i)
  BY InputLoop
<1>4. sign_tx(n, FALSE) = <<a>> \o (s \o t)
  BY DEF sign_tx, _send_tx_inputs, Loop
<1> HIDE DEF a, s, t
<1>5. PostProgram(<<a>> \o (s \o t), n)
  BY <1>1, <1>2, <1>3, PostJoined, Zenon
<1> QED BY <1>4, <1>5

LEMMA AeSteps ==
    ASSUME NEW n \in Nat, NEW m \in {"sign_tx", "sign_liquid_tx"}
    PROVE  AeProgram(<<[Step("rpc", m) EXCEPT !.arg = n, !.ae = TRUE]>> \o _send_tx_inputs(n, TRUE), 0, n)
<1> DEFINE a == [Step("rpc", m) EXCEPT !.arg = n, !.ae = TRUE]
           s == AeInputs(n)
           t == AeSignatures(n)
<1>1. AeOpening(a, n)
  BY Opening
<1>2. /\ s \in Seq(Steps) /\ Len(s) = n
      /\ \A i \in 1..n : InputStep(s[i], "rpc", i) /\ s[i].entropy = FALSE
  BY InputLoop DEF AeInputs, Loop
<1>3. /\ t \in Seq(Steps) /\ Len(t) = n
      /\ \A i \in 1..n : SignatureStep(t[i], i)
  BY SignatureLoop DEF AeSignatures, Loop
<1>4. _send_tx_inputs(n, TRUE) = s \o t
  BY DEF _send_tx_inputs
<1> HIDE DEF a, s, t
<1>5. AeProgram(<<a>> \o (s \o t), 0, n)
  BY <1>1, <1>2, <1>3, AeJoined, Zenon
<1> QED BY <1>4, <1>5 DEF a

\* Calls made before the transaction.
LEMMA AeAfter ==
    ASSUME NEW P, PlainProgram(P), NEW Q, NEW n \in Nat, AeProgram(Q, 0, n)
    PROVE  AeProgram(P \o Q, Len(P), n)
<1> DEFINE o == Len(P)
           q == P \o Q
<1>1. P \in Seq(Steps) /\ Q \in Seq(Steps) /\ o \in Nat /\ Len(Q) = 1 + 2 * n
  BY DEF PlainProgram, AeProgram
<1>2. /\ q \in Seq(Steps) /\ Len(q) = o + Len(Q)
      /\ \A j \in 1..o : q[j] = P[j]
      /\ \A j \in 1..Len(Q) : q[o + j] = Q[j]
  BY <1>1
<1>3. \A j \in 1..o : PlainStep(q[j])
  <2> HIDE DEF q
  <2> QED BY <1>2 DEF PlainProgram
<1> HIDE DEF q, o
<1>4. q[o + 1] = Q[1] /\ Q[0 + 1] = Q[1]
  BY <1>1, <1>2
<1>5. ASSUME NEW i \in 1..n
      PROVE  q[o + 1 + i] = Q[0 + 1 + i] /\ q[o + 1 + n + i] = Q[0 + 1 + n + i]
  <2>1. /\ 1 + i \in 1..Len(Q) /\ 1 + n + i \in 1..Len(Q)
        /\ o + (1 + i) = o + 1 + i /\ o + (1 + n + i) = o + 1 + n + i
    BY <1>1
  <2>2. q[o + (1 + i)] = Q[1 + i] /\ q[o + (1 + n + i)] = Q[1 + n + i]
    BY <1>2, <2>1
  <2> QED BY <2>1, <2>2
<1>6. Len(q) = o + 1 + 2 * n
  BY <1>1, <1>2
<1>7. AeProgram(q, o, n)
  BY <1>1, <1>2, <1>3, <1>4, <1>5, <1>6 DEF AeProgram
<1> QED BY <1>7 DEF q, o

\* Which program is which.
LEMMA SessionPrograms ==
    /\ MessageProgram(Program("sign_message_ae"))
    /\ PsbtProgram(Program("sign_psbt"))
    /\ PostProgram(Program("sign_tx"), TxInputs)
    /\ \A c \in AeTransactions : /\ AeProgram(Program(c), Before(c), Inputs(c))
                                 /\ Before(c) \in Nat /\ Inputs(c) \in Nat
<1>1. TxInputs \in Nat /\ TxInputs - 1 \in Nat
  BY JadeRpcAssumption
<1>2. \A c \in Sessions : c \notin DOMAIN Calls
  BY DEF Calls, Sessions, AeTransactions
<1>3. /\ Program("sign_message_ae") = sign_message(TRUE)
      /\ Program("sign_psbt") = sign_psbt
      /\ Program("sign_tx") = sign_tx(TxInputs, FALSE)
      /\ Program("sign_tx_ae") = sign_tx(TxInputs, TRUE)
      /\ Program("sign_liquid_tx") = sign_liquid_tx(TxInputs, TRUE)
      /\ Program("legacy_sign_tx") = legacy_sign_tx(TxInputs, TRUE)
      /\ Program("legacy_sign_tx_skips") = legacy_sign_tx(TxInputs - 1, FALSE)
  <2>1. /\ "sign_message_ae" \in Sessions /\ "sign_psbt" \in Sessions /\ "sign_tx" \in Sessions
        /\ "sign_tx_ae" \in Sessions /\ "sign_liquid_tx" \in Sessions
        /\ "legacy_sign_tx" \in Sessions /\ "legacy_sign_tx_skips" \in Sessions
    BY DEF Sessions, AeTransactions
  <2>2. \A c \in Sessions : Program(c) = Programs[c]
    BY <1>2 DEF Program
  <2>3. /\ Programs["sign_message_ae"] = sign_message(TRUE)
        /\ Programs["sign_psbt"] = sign_psbt
        /\ Programs["sign_tx"] = sign_tx(TxInputs, FALSE)
        /\ Programs["sign_tx_ae"] = sign_tx(TxInputs, TRUE)
        /\ Programs["sign_liquid_tx"] = sign_liquid_tx(TxInputs, TRUE)
        /\ Programs["legacy_sign_tx"] = legacy_sign_tx(TxInputs, TRUE)
        /\ Programs["legacy_sign_tx_skips"] = legacy_sign_tx(TxInputs - 1, FALSE)
    BY DEF Programs
  <2> QED BY <2>1, <2>2, <2>3
<1>4. MessageProgram(Program("sign_message_ae")) /\ PsbtProgram(Program("sign_psbt"))
  BY <1>3, MessageSteps, PsbtSteps
<1>5. PostProgram(Program("sign_tx"), TxInputs)
  BY <1>1, <1>3, PostSteps
<1>6. ASSUME NEW n \in Nat
      PROVE  AeProgram(sign_tx(n, TRUE), 0, n) /\ AeProgram(sign_liquid_tx(n, TRUE), 0, n)
  <2>1. \A m \in {"sign_tx", "sign_liquid_tx"} :
           AeProgram(<<[Step("rpc", m) EXCEPT !.arg = n, !.ae = TRUE]>> \o _send_tx_inputs(n, TRUE), 0, n)
    BY AeSteps
  <2>2. /\ AeProgram(<<[Step("rpc", "sign_tx") EXCEPT !.arg = n, !.ae = TRUE]>>
                        \o _send_tx_inputs(n, TRUE), 0, n)
        /\ AeProgram(<<[Step("rpc", "sign_liquid_tx") EXCEPT !.arg = n, !.ae = TRUE]>>
                        \o _send_tx_inputs(n, TRUE), 0, n)
    BY <2>1, Zenon
  <2> QED BY <2>2 DEF sign_tx, sign_liquid_tx
<1>7. PlainProgram(get_xpub) /\ Len(get_xpub) = 1 /\ PlainProgram(get_registered_multisigs)
      /\ Len(get_registered_multisigs) = 1
  <2>1. "get_xpub" \in PlainCalls /\ "get_registered_multisigs" \in PlainCalls
    BY DEF PlainCalls
  <2> QED BY <2>1, PlainOne, PlainRpc DEF get_xpub, get_registered_multisigs
<1>8. AeProgram(Program("legacy_sign_tx"), 2, TxInputs)
  <2> DEFINE P == get_xpub \o get_registered_multisigs
  <2>1. PlainProgram(P)
    BY <1>7, PlainConcat
  <2>2. Len(P) = 2
    <3>1. get_xpub \in Seq(Steps) /\ get_registered_multisigs \in Seq(Steps)
      BY <1>7 DEF PlainProgram
    <3> QED BY <1>7, <3>1
  <2>3. Program("legacy_sign_tx") = P \o sign_tx(TxInputs, TRUE)
    <3>1. Program("legacy_sign_tx") = get_xpub \o (get_registered_multisigs \o sign_tx(TxInputs, TRUE))
      BY <1>3 DEF legacy_sign_tx, legacy_round
    <3>2. get_xpub \in Seq(Steps) /\ get_registered_multisigs \in Seq(Steps)
      BY <1>7 DEF PlainProgram
    <3>3. sign_tx(TxInputs, TRUE) \in Seq(Steps)
      BY <1>1, <1>6 DEF AeProgram
    <3> QED BY <3>1, <3>2, <3>3, ConcatAgain
  <2> HIDE DEF P
  <2>4. AeProgram(P \o sign_tx(TxInputs, TRUE), Len(P), TxInputs)
    BY <1>1, <1>6, <2>1, AeAfter
  <2> QED BY <2>2, <2>3, <2>4
<1>9. AeProgram(Program("legacy_sign_tx_skips"), 1, TxInputs - 1)
  <2> DEFINE P == get_xpub \o <<>>
  <2>1. P = get_xpub
    BY <1>7 DEF PlainProgram
  <2>2. Program("legacy_sign_tx_skips") = P \o sign_tx(TxInputs - 1, TRUE)
    <3>1. Program("legacy_sign_tx_skips") = get_xpub \o (<<>> \o sign_tx(TxInputs - 1, TRUE))
      BY <1>3 DEF legacy_sign_tx, legacy_round
    <3>2. sign_tx(TxInputs - 1, TRUE) \in Seq(Steps)
      BY <1>1, <1>6 DEF AeProgram
    <3>3. <<>> \o sign_tx(TxInputs - 1, TRUE) = sign_tx(TxInputs - 1, TRUE)
      BY <3>2, ConcatNone
    <3> QED BY <2>1, <3>1, <3>3
  <2> HIDE DEF P
  <2>3. AeProgram(sign_tx(TxInputs - 1, TRUE), 0, TxInputs - 1)
    BY <1>1, <1>6
  <2>4. AeProgram(P \o sign_tx(TxInputs - 1, TRUE), Len(P), TxInputs - 1)
    BY <1>1, <1>7, <2>1, <2>3, AeAfter
  <2> QED BY <1>7, <2>1, <2>2, <2>4
<1>10. AeProgram(Program("sign_tx_ae"), 0, TxInputs) /\ AeProgram(Program("sign_liquid_tx"), 0, TxInputs)
  BY <1>1, <1>3, <1>6
<1>11. ASSUME NEW c \in AeTransactions
       PROVE  AeProgram(Program(c), Before(c), Inputs(c)) /\ Before(c) \in Nat /\ Inputs(c) \in Nat
  <2>1. /\ Before("sign_tx_ae") = 0 /\ Before("sign_liquid_tx") = 0 /\ Before("legacy_sign_tx") = 2
        /\ Before("legacy_sign_tx_skips") = 1
        /\ Inputs("sign_tx_ae") = TxInputs /\ Inputs("sign_liquid_tx") = TxInputs
        /\ Inputs("legacy_sign_tx") = TxInputs /\ Inputs("legacy_sign_tx_skips") = TxInputs - 1
    BY DEF Before, Inputs
  <2> QED BY <1>1, <1>8, <1>9, <1>10, <2>1 DEF AeTransactions
<1> QED BY <1>4, <1>5, <1>11

\* A further round of legacy_sign_tx is the end of its program, behind the
\* calls that come before the transaction or some of them.
Remainder(t, P, k) ==
    /\ t \in Seq(Steps) /\ Len(P) \in Nat /\ Len(P) - Len(t) = k
    /\ \A j \in 1..Len(t) : t[j] = P[k + j]

LEMMA Remains ==
    ASSUME NEW p \in Seq(Steps), NEW t \in Seq(Steps)
    PROVE  Remainder(t, p \o t, Len(p))
<1>1. /\ p \o t \in Seq(Steps) /\ Len(p \o t) = Len(p) + Len(t)
      /\ Len(p) \in Nat /\ Len(t) \in Nat /\ Len(p \o t) \in Nat
  OBVIOUS
<1>2. \A j \in 1..Len(t) : (p \o t)[Len(p) + j] = t[j]
  OBVIOUS
<1> QED BY <1>1, <1>2 DEF Remainder

LEMMA RoundsRemain ==
    ASSUME NEW c, NEW t \in Rounds(c)
    PROVE  /\ c \in AeTransactions
           /\ \E k \in 1..Before(c) : Remainder(t, Program(c), k)
<1>1. TxInputs \in Nat /\ TxInputs - 1 \in Nat
  BY JadeRpcAssumption
<1>2. /\ "legacy_sign_tx" \notin DOMAIN Calls /\ "legacy_sign_tx_skips" \notin DOMAIN Calls
  BY DEF Calls
<1>3. /\ Programs["legacy_sign_tx"] = legacy_sign_tx(TxInputs, TRUE)
      /\ Programs["legacy_sign_tx_skips"] = legacy_sign_tx(TxInputs - 1, FALSE)
  BY DEF Programs
<1>4. ASSUME NEW n \in Nat
      PROVE  sign_tx(n, TRUE) \in Seq(Steps)
  <2>1. \A m \in {"sign_tx", "sign_liquid_tx"} :
           AeProgram(<<[Step("rpc", m) EXCEPT !.arg = n, !.ae = TRUE]>> \o _send_tx_inputs(n, TRUE), 0, n)
    BY AeSteps
  <2>2. AeProgram(<<[Step("rpc", "sign_tx") EXCEPT !.arg = n, !.ae = TRUE]>>
                     \o _send_tx_inputs(n, TRUE), 0, n)
    BY <2>1, Zenon
  <2> QED BY <2>2 DEF sign_tx, AeProgram
<1>5. /\ get_xpub \in Seq(Steps) /\ Len(get_xpub) = 1
      /\ get_registered_multisigs \in Seq(Steps) /\ Len(get_registered_multisigs) = 1
  <2>1. "get_xpub" \in PlainCalls /\ "get_registered_multisigs" \in PlainCalls
    BY DEF PlainCalls
  <2> QED BY <2>1, PlainOne, PlainRpc DEF get_xpub, get_registered_multisigs, PlainProgram
<1>6. CASE c = "legacy_sign_tx"
  <2> DEFINE Q == sign_tx(TxInputs, TRUE)
  <2>1. Q \in Seq(Steps)
    BY <1>1, <1>4
  <2>2. Program(c) = get_xpub \o (get_registered_multisigs \o Q)
    BY <1>2, <1>3, <1>6 DEF Program, legacy_sign_tx, legacy_round
  <2>3. t = get_registered_multisigs \o Q \/ t = <<>> \o Q
    BY <1>6 DEF Rounds, legacy_round
  <2> HIDE DEF Q
  <2>4. <<>> \o Q = Q
    BY <2>1, ConcatNone
  <2>5. Before(c) = 2 /\ c \in AeTransactions
    BY <1>6 DEF Before, AeTransactions
  <2>6. CASE t = get_registered_multisigs \o Q
    <3>1. t \in Seq(Steps)
      BY <1>5, <2>1, <2>6
    <3>2. Remainder(t, Program(c), 1)
      BY <1>5, <2>2, <2>6, <3>1, Remains
    <3> QED BY <2>5, <3>2
  <2>7. CASE t = Q
    <3> DEFINE p == get_xpub \o get_registered_multisigs
    <3>1. p \in Seq(Steps) /\ Len(p) = 2
      BY <1>5
    <3>2. Program(c) = p \o Q
      BY <1>5, <2>1, <2>2, ConcatAgain
    <3> HIDE DEF p
    <3>3. Remainder(t, Program(c), 2)
      BY <2>1, <2>7, <3>1, <3>2, Remains
    <3> QED BY <2>5, <3>3
  <2> QED BY <2>3, <2>4, <2>6, <2>7
<1>7. CASE c = "legacy_sign_tx_skips"
  <2> DEFINE Q == sign_tx(TxInputs - 1, TRUE)
  <2>1. Q \in Seq(Steps)
    BY <1>1, <1>4
  <2>2. Program(c) = get_xpub \o (<<>> \o Q)
    BY <1>2, <1>3, <1>7 DEF Program, legacy_sign_tx, legacy_round
  <2>3. t = <<>> \o Q
    BY <1>7 DEF Rounds, legacy_round
  <2> HIDE DEF Q
  <2>4. <<>> \o Q = Q
    BY <2>1, ConcatNone
  <2>5. Before(c) = 1 /\ c \in AeTransactions
    BY <1>7 DEF Before, AeTransactions
  <2>6. Remainder(t, Program(c), 1)
    BY <1>5, <2>1, <2>2, <2>3, <2>4, Remains
  <2> QED BY <2>5, <2>6
<1>8. c = "legacy_sign_tx" \/ c = "legacy_sign_tx_skips"
  BY DEF Rounds
<1> QED BY <1>6, <1>7, <1>8

LEMMA ProgramTypes ==
    ASSUME NEW c \in Commands
    PROVE  Program(c) \in Seq(Steps) /\ Len(Program(c)) \in Nat \ {0} /\ c # "none"
<1>1. c \in DOMAIN Calls \cup DOMAIN Programs
  BY CommandsAssumption
<1>2. c # "none"
  BY <1>1 DEF Calls, Programs
<1>3. CASE c \notin Sessions
  <2>1. PlainProgram(Program(c))
    BY <1>1, <1>3, PlainPrograms
  <2> HIDE DEF Program
  <2> QED BY <1>2, <2>1 DEF PlainProgram
<1>4. CASE c = "sign_message_ae"
  <2>1. MessageProgram(Program(c))
    BY <1>4, SessionPrograms
  <2> QED BY <1>2, <2>1 DEF MessageProgram
<1>5. CASE c = "sign_psbt"
  <2>1. PsbtProgram(Program(c))
    BY <1>5, SessionPrograms
  <2> QED BY <1>2, <2>1 DEF PsbtProgram
<1>6. CASE c = "sign_tx"
  <2>1. PostProgram(Program(c), TxInputs) /\ TxInputs \in Nat
    BY <1>6, SessionPrograms, JadeRpcAssumption
  <2> QED BY <1>2, <2>1 DEF PostProgram
<1>7. CASE c \in AeTransactions
  <2>1. AeProgram(Program(c), Before(c), Inputs(c)) /\ Before(c) \in Nat /\ Inputs(c) \in Nat
    BY <1>7, SessionPrograms
  <2> HIDE DEF Program, Before, Inputs
  <2> QED BY <1>2, <2>1 DEF AeProgram
<1> QED BY <1>3, <1>4, <1>5, <1>6, <1>7 DEF Sessions

----------------------------------------------------------------------------
(* The step that is being made                                             *)

LEMMA CurrentStep ==
    ASSUME Types, Running, cmd # "none"
    PROVE  /\ cmd \in Commands
           /\ Program(cmd) \in Seq(Steps) /\ Len(Program(cmd)) \in Nat /\ Len(todo) \in Nat
           /\ Done \in Nat /\ Done + Len(todo) = Len(Program(cmd))
           /\ todo # <<>> => /\ Head(todo) = Program(cmd)[Done + 1]
                             /\ Head(todo) \in Steps /\ Len(todo) > 0
                             /\ Done + 1 \in 1..Len(Program(cmd))
<1>1. /\ cmd \in Commands /\ todo \in Seq(Steps) /\ Len(todo) \in Nat /\ Done \in Nat
      /\ \A j \in 1..Len(todo) : todo[j] = Program(cmd)[Done + j]
  BY DEF Types, Running
<1>2. Program(cmd) \in Seq(Steps) /\ Len(Program(cmd)) \in Nat
  BY <1>1, ProgramTypes
<1>3. Done + Len(todo) = Len(Program(cmd))
  BY <1>1, <1>2 DEF Done
<1>4. ASSUME todo # <<>>
      PROVE  /\ Head(todo) = Program(cmd)[Done + 1] /\ Head(todo) \in Steps /\ Len(todo) > 0
             /\ Done + 1 \in 1..Len(Program(cmd))
  <2>1. Len(todo) > 0 /\ Head(todo) = todo[1] /\ Head(todo) \in Steps
    BY <1>1, <1>4
  <2>2. todo[1] = Program(cmd)[Done + 1]
    BY <1>1, <2>1
  <2> QED BY <1>1, <1>2, <1>3, <2>1, <2>2
<1> QED BY <1>1, <1>2, <1>3, <1>4

\* What is known of a step from its place.
StepKnown(s, k) ==
    /\ cmd \notin Sessions => PlainStep(s)
    /\ cmd = "sign_message_ae" =>
          /\ k = 0 => s.op = "rpc" /\ s.m = "sign_message" /\ s.ae = TRUE /\ s.entropy = FALSE
          /\ k > 0 => k = 1 /\ s.op = "rpc" /\ s.m = "get_signature" /\ s.arg = 1
    /\ cmd = "sign_psbt" => k = 0 /\ s.op = "parts" /\ s.m = "sign_psbt" /\ s.entropy = FALSE
    /\ cmd = "sign_tx" =>
          /\ k <= 2 * TxInputs
          /\ k = 0 => PlainOpening(s, TxInputs)
          /\ k > 0 /\ k <= TxInputs => InputStep(s, "post", k) /\ s.entropy = FALSE
          /\ k > TxInputs => InputStep(s, "collect", k - TxInputs)
    /\ cmd \in AeTransactions =>
          /\ k - Before(cmd) <= 2 * Inputs(cmd)
          /\ k < Before(cmd) => PlainStep(s)
          /\ k = Before(cmd) => AeOpening(s, Inputs(cmd))
          /\ k > Before(cmd) /\ k - Before(cmd) <= Inputs(cmd) =>
                InputStep(s, "rpc", k - Before(cmd)) /\ s.entropy = FALSE
          /\ k - Before(cmd) > Inputs(cmd) => SignatureStep(s, k - Before(cmd) - Inputs(cmd))

LEMMA Steps_Known ==
    ASSUME Types, Running, cmd # "none", todo # <<>>
    PROVE  StepKnown(Head(todo), Done)
<1> DEFINE s == Head(todo)
           k == Done
           P == Program(cmd)
<1>1. /\ cmd \in Commands /\ P \in Seq(Steps) /\ Len(P) \in Nat /\ k \in Nat
      /\ s = P[k + 1] /\ k + 1 \in 1..Len(P) /\ s \in Steps
  BY CurrentStep
<1>2. cmd \in DOMAIN Calls \cup DOMAIN Programs
  BY <1>1, CommandsAssumption
<1> HIDE DEF s, k, P
<1>3. cmd \notin Sessions => PlainStep(s)
  <2>1. ASSUME cmd \notin Sessions PROVE PlainProgram(P)
    BY <1>2, <2>1, PlainPrograms DEF P
  <2> QED BY <1>1, <2>1 DEF PlainProgram
<1>4. cmd = "sign_message_ae" =>
          /\ k = 0 => s.op = "rpc" /\ s.m = "sign_message" /\ s.ae = TRUE /\ s.entropy = FALSE
          /\ k > 0 => k = 1 /\ s.op = "rpc" /\ s.m = "get_signature" /\ s.arg = 1
  <2>1. ASSUME cmd = "sign_message_ae" PROVE MessageProgram(P)
    BY <2>1, SessionPrograms DEF P
  <2>2. ASSUME cmd = "sign_message_ae" PROVE k = 0 \/ k = 1
    BY <1>1, <2>1, <2>2 DEF MessageProgram
  <2>3. ASSUME cmd = "sign_message_ae", k = 0
        PROVE  s.op = "rpc" /\ s.m = "sign_message" /\ s.ae = TRUE /\ s.entropy = FALSE
    <3>1. s = P[1]
      BY <1>1, <2>3
    <3> QED BY <2>1, <2>3, <3>1 DEF MessageProgram
  <2>4. ASSUME cmd = "sign_message_ae", k = 1
        PROVE  s.op = "rpc" /\ s.m = "get_signature" /\ s.arg = 1
    <3>1. s = P[2]
      BY <1>1, <2>4
    <3>2. P[2].op = "rpc" /\ P[2].m = "get_signature" /\ P[2].arg = 1
      BY <2>1, <2>4, Zenon DEF MessageProgram
    <3> QED BY <3>1, <3>2
  <2>5. ASSUME cmd = "sign_message_ae", k > 0 PROVE k = 1
    BY <1>1, <2>2, <2>5
  <2> QED BY <2>3, <2>4, <2>5, Zenon
<1>5. cmd = "sign_psbt" => k = 0 /\ s.op = "parts" /\ s.m = "sign_psbt" /\ s.entropy = FALSE
  <2>1. ASSUME cmd = "sign_psbt" PROVE PsbtProgram(P)
    BY <2>1, SessionPrograms DEF P
  <2>2. ASSUME cmd = "sign_psbt" PROVE k = 0 /\ s = P[1]
    <3>1. Len(P) = 1
      BY <2>1, <2>2, Zenon DEF PsbtProgram
    <3> QED BY <1>1, <3>1
  <2> QED BY <2>1, <2>2 DEF PsbtProgram
<1>6. cmd = "sign_tx" =>
          /\ k <= 2 * TxInputs
          /\ k = 0 => PlainOpening(s, TxInputs)
          /\ k > 0 /\ k <= TxInputs => InputStep(s, "post", k) /\ s.entropy = FALSE
          /\ k > TxInputs => InputStep(s, "collect", k - TxInputs)
  <2> SUFFICES ASSUME cmd = "sign_tx"
               PROVE  /\ k <= 2 * TxInputs
                      /\ k = 0 => PlainOpening(s, TxInputs)
                      /\ k > 0 /\ k <= TxInputs => InputStep(s, "post", k) /\ s.entropy = FALSE
                      /\ k > TxInputs => InputStep(s, "collect", k - TxInputs)
    OBVIOUS
  <2>1. PostProgram(P, TxInputs) /\ TxInputs \in Nat
    BY SessionPrograms, JadeRpcAssumption DEF P
  <2>2. /\ Len(P) = 1 + 2 * TxInputs
        /\ PlainOpening(P[1], TxInputs)
        /\ \A i \in 1..TxInputs : InputStep(P[1 + i], "post", i) /\ P[1 + i].entropy = FALSE
        /\ \A i \in 1..TxInputs : InputStep(P[1 + TxInputs + i], "collect", i)
    BY <2>1 DEF PostProgram
  <2>3. k <= 2 * TxInputs
    BY <1>1, <2>1, <2>2
  <2>4. ASSUME k = 0 PROVE PlainOpening(s, TxInputs)
    <3>1. s = P[1]
      BY <1>1, <2>4
    <3> QED BY <2>2, <3>1
  <2>5. ASSUME k > 0, k <= TxInputs PROVE InputStep(s, "post", k) /\ s.entropy = FALSE
    <3>1. k \in 1..TxInputs /\ s = P[1 + k]
      BY <1>1, <2>1, <2>5
    <3> QED BY <2>2, <3>1
  <2>6. ASSUME k > TxInputs PROVE InputStep(s, "collect", k - TxInputs)
    <3>1. k - TxInputs \in 1..TxInputs /\ s = P[1 + TxInputs + (k - TxInputs)]
      BY <1>1, <2>1, <2>3, <2>6
    <3> QED BY <2>2, <3>1
  <2> QED BY <2>3, <2>4, <2>5, <2>6
<1>7. cmd \in AeTransactions =>
          /\ k - Before(cmd) <= 2 * Inputs(cmd)
          /\ k < Before(cmd) => PlainStep(s)
          /\ k = Before(cmd) => AeOpening(s, Inputs(cmd))
          /\ k > Before(cmd) /\ k - Before(cmd) <= Inputs(cmd) =>
                InputStep(s, "rpc", k - Before(cmd)) /\ s.entropy = FALSE
          /\ k - Before(cmd) > Inputs(cmd) => SignatureStep(s, k - Before(cmd) - Inputs(cmd))
  <2> DEFINE o == Before(cmd)
             n == Inputs(cmd)
  <2> SUFFICES ASSUME cmd \in AeTransactions
               PROVE  /\ k - o <= 2 * n
                      /\ k < o => PlainStep(s)
                      /\ k = o => AeOpening(s, n)
                      /\ k > o /\ k - o <= n => InputStep(s, "rpc", k - o) /\ s.entropy = FALSE
                      /\ k - o > n => SignatureStep(s, k - o - n)
    OBVIOUS
  <2>1. AeProgram(P, o, n) /\ o \in Nat /\ n \in Nat
    BY SessionPrograms DEF P
  <2> HIDE DEF o, n
  <2>2. /\ Len(P) = o + 1 + 2 * n
        /\ \A j \in 1..o : PlainStep(P[j])
        /\ AeOpening(P[o + 1], n)
        /\ \A i \in 1..n : InputStep(P[o + 1 + i], "rpc", i) /\ P[o + 1 + i].entropy = FALSE
        /\ \A i \in 1..n : SignatureStep(P[o + 1 + n + i], i)
    BY <2>1 DEF AeProgram
  <2>3. k - o <= 2 * n
    BY <1>1, <2>1, <2>2
  <2>4. ASSUME k < o PROVE PlainStep(s)
    <3>1. k + 1 \in 1..o
      BY <1>1, <2>1, <2>4
    <3> QED BY <1>1, <2>2, <3>1
  <2>5. ASSUME k = o PROVE AeOpening(s, n)
    BY <1>1, <2>2, <2>5
  <2>6. ASSUME k > o, k - o <= n PROVE InputStep(s, "rpc", k - o) /\ s.entropy = FALSE
    <3>1. k - o \in 1..n /\ s = P[o + 1 + (k - o)]
      BY <1>1, <2>1, <2>6
    <3> QED BY <2>2, <3>1
  <2>7. ASSUME k - o > n PROVE SignatureStep(s, k - o - n)
    <3>1. k - o - n \in 1..n /\ s = P[o + 1 + n + (k - o - n)]
      BY <1>1, <2>1, <2>3, <2>7
    <3> QED BY <2>2, <3>1
  <2> QED BY <2>3, <2>4, <2>5, <2>6, <2>7
<1>8. StepKnown(s, k)
  BY <1>3, <1>4, <1>5, <1>6, <1>7, Zenon DEF StepKnown
<1> QED BY <1>8 DEF s, k

\* The facts about the current step that the proofs below use.
LEMMA StepFacts ==
    ASSUME Types, Running, cmd # "none", todo # <<>>
    PROVE  LET s == Head(todo) IN
           /\ s.op = "parts" <=> cmd = "sign_psbt"
           /\ s.m = "sign_psbt" <=> cmd = "sign_psbt"
           /\ s.op \in {"post", "collect"} <=> Posts
           /\ Posts => s.m = "tx_input"
           /\ s.m # "get_extended_data" /\ s.m # "pin"
           /\ s.m = "auth_user" \/ s.op = "until" =>
                 /\ s.m \notin {"tx_input", "get_signature"} /\ s.op # "parts"
                 /\ Matches(Done) /\ Matches(Done + 1)
<1> DEFINE s == Head(todo)
           k == Done
<1>1. StepKnown(s, k) /\ k \in Nat /\ s \in Steps
  BY Steps_Known, CurrentStep
<1>2. TxInputs \in Nat \ {0} /\ \A c \in AeTransactions : Before(c) \in Nat /\ Inputs(c) \in Nat
  BY JadeRpcAssumption, SessionPrograms
<1>3. \A m \in PlainCalls : m \notin {"tx_input", "get_signature", "sign_psbt", "get_extended_data",
                                      "pin", "sign_tx", "sign_liquid_tx"}
  BY DEF PlainCalls
<1>4. Posts <=> cmd = "sign_tx" /\ k > 0
  BY DEF Posts
<1> HIDE DEF s
<1> DEFINE goal == /\ s.op = "parts" <=> cmd = "sign_psbt"
                   /\ s.m = "sign_psbt" <=> cmd = "sign_psbt"
                   /\ s.op \in {"post", "collect"} <=> (cmd = "sign_tx" /\ k > 0)
                   /\ (cmd = "sign_tx" /\ k > 0) => s.m = "tx_input"
                   /\ s.m # "get_extended_data" /\ s.m # "pin"
                   /\ s.m = "auth_user" \/ s.op = "until" =>
                         /\ s.m \notin {"tx_input", "get_signature"} /\ s.op # "parts"
                         /\ Matches(k) /\ Matches(k + 1)
<1>5. ASSUME cmd \notin Sessions PROVE goal
  <2>1. PlainStep(s)
    BY <1>1, <1>5 DEF StepKnown
  <2>2. s.op \in {"rpc", "until"} /\ s.m \in PlainCalls
    BY <2>1 DEF PlainStep
  <2>3. Matches(k) /\ Matches(k + 1)
    BY <1>5 DEF Matches, Sessions
  <2>4. cmd # "sign_psbt" /\ cmd # "sign_tx"
    BY <1>5 DEF Sessions
  <2> HIDE DEF k
  <2> QED BY <1>3, <2>2, <2>3, <2>4
<1>6. ASSUME cmd = "sign_message_ae" PROVE goal
  <2>1. s.op = "rpc" /\ s.m \in {"sign_message", "get_signature"}
    BY <1>1, <1>6 DEF StepKnown
  <2> HIDE DEF k
  <2> QED BY <1>6, <2>1
<1>7. ASSUME cmd = "sign_psbt" PROVE goal
  <2>1. s.op = "parts" /\ s.m = "sign_psbt"
    BY <1>1, <1>7 DEF StepKnown
  <2> HIDE DEF k
  <2> QED BY <1>7, <2>1
<1>8. ASSUME cmd = "sign_tx" PROVE goal
  <2>1. \/ k = 0 /\ s.op = "rpc" /\ s.m = "sign_tx"
        \/ k > 0 /\ s.op \in {"post", "collect"} /\ s.m = "tx_input"
    <3>1. /\ k = 0 => PlainOpening(s, TxInputs)
          /\ k > 0 /\ k <= TxInputs => InputStep(s, "post", k)
          /\ k > TxInputs => InputStep(s, "collect", k - TxInputs)
      BY <1>1, <1>8 DEF StepKnown
    <3>2. k = 0 => s.op = "rpc" /\ s.m = "sign_tx"
      BY <3>1 DEF PlainOpening
    <3>3. k > 0 /\ k <= TxInputs => s.op = "post" /\ s.m = "tx_input"
      BY <3>1 DEF InputStep
    <3>4. k > TxInputs => s.op = "collect" /\ s.m = "tx_input"
      BY <3>1 DEF InputStep
    <3> HIDE DEF k
    <3> QED BY <1>1, <1>2, <3>2, <3>3, <3>4
  <2> HIDE DEF k
  <2> QED BY <1>1, <1>8, <2>1
<1>9. ASSUME cmd \in AeTransactions PROVE goal
  <2> DEFINE o == Before(cmd)
             n == Inputs(cmd)
  <2>1. cmd # "sign_psbt" /\ cmd # "sign_tx" /\ cmd # "sign_message_ae" /\ o \in Nat /\ n \in Nat
    BY <1>2, <1>9 DEF AeTransactions
  <2>2. CASE k < o
    <3>1. PlainStep(s)
      BY <1>1, <1>9, <2>2 DEF StepKnown
    <3>2. s.op \in {"rpc", "until"} /\ s.m \in PlainCalls
      BY <3>1 DEF PlainStep
    <3>3. ~(k > o) /\ ~(k + 1 > o)
      BY <1>1, <2>1, <2>2
    <3>4. Matches(k) /\ Matches(k + 1)
      BY <2>1, <3>3 DEF Matches
    <3> HIDE DEF k
    <3> QED BY <1>3, <2>1, <3>2, <3>4
  <2>3. CASE ~(k < o)
    <3>1. s.op = "rpc" /\ s.m \in {"sign_tx", "sign_liquid_tx", "tx_input", "get_signature"}
      <4>1. /\ k = o => AeOpening(s, n)
            /\ k > o /\ k - o <= n => InputStep(s, "rpc", k - o)
            /\ k - o > n => SignatureStep(s, k - o - n)
        BY <1>1, <1>9 DEF StepKnown
      <4>2. k = o => s.op = "rpc" /\ s.m \in {"sign_tx", "sign_liquid_tx"}
        BY <4>1 DEF AeOpening
      <4>3. k > o /\ k - o <= n => s.op = "rpc" /\ s.m = "tx_input"
        BY <4>1 DEF InputStep
      <4>4. k - o > n => s.op = "rpc" /\ s.m = "get_signature"
        BY <4>1 DEF SignatureStep
      <4> HIDE DEF k, o, n
      <4> QED BY <1>1, <2>1, <2>3, <4>2, <4>3, <4>4
    <3> HIDE DEF k
    <3> QED BY <2>1, <3>1
  <2> QED BY <2>2, <2>3
<1>10. goal
  <2> HIDE DEF goal
  <2> QED BY <1>5, <1>6, <1>7, <1>8, <1>9 DEF Sessions
<1> QED BY <1>4, <1>10 DEF s

\* The entropy is sent with the second request of a message or once all
\* inputs of a transaction are there.
LEMMA EntropySteps ==
    ASSUME Types, Running, cmd # "none", todo # <<>>, Head(todo).entropy = TRUE
    PROVE  /\ Done > 0 /\ (Posts => Done > TxInputs)
           /\ Matches(Done) /\ ~Posts => (Sess.kind = "tx" => Len(Sess.in) = Sess.n)
<1> DEFINE s == Head(todo)
           k == Done
<1>1. StepKnown(s, k) /\ k \in Nat /\ s \in Steps
  BY Steps_Known, CurrentStep
<1>2. TxInputs \in Nat \ {0} /\ \A c \in AeTransactions : Before(c) \in Nat /\ Inputs(c) \in Nat
  BY JadeRpcAssumption, SessionPrograms
<1>3. Posts <=> cmd = "sign_tx" /\ k > 0
  BY DEF Posts
<1>4. CASE cmd \notin Sessions
  BY <1>1, <1>4 DEF StepKnown, PlainStep
<1>5. CASE cmd = "sign_message_ae"
  <2>1. k = 1
    <3>1. k # 0
      BY <1>1, <1>5 DEF StepKnown
    <3>2. k > 0 => k = 1
      BY <1>1, <1>5 DEF StepKnown
    <3> HIDE DEF k
    <3> QED BY <1>1, <3>1, <3>2
  <2>2. Matches(k) => Sess.kind = "message"
    BY <1>5, <2>1 DEF Matches
  <2> QED BY <1>3, <1>5, <2>1, <2>2
<1>6. CASE cmd = "sign_psbt"
  BY <1>1, <1>6 DEF StepKnown
<1>7. CASE cmd = "sign_tx"
  <2>1. k > TxInputs
    <3>1. ~(k = 0)
      BY <1>1, <1>7 DEF StepKnown, PlainOpening
    <3>2. ~(k > 0 /\ k <= TxInputs)
      BY <1>1, <1>7 DEF StepKnown
    <3> HIDE DEF k
    <3> QED BY <1>1, <1>2, <3>1, <3>2
  <2> QED BY <1>1, <1>2, <1>3, <1>7, <2>1
<1>8. CASE cmd \in AeTransactions
  <2> DEFINE o == Before(cmd)
             n == Inputs(cmd)
  <2>1. cmd # "sign_tx" /\ o \in Nat /\ n \in Nat
    BY <1>2, <1>8 DEF AeTransactions
  <2>2. k - o > n /\ k - o <= 2 * n
    <3>1. ~(k < o)
      BY <1>1, <1>8 DEF StepKnown, PlainStep
    <3>2. ~(k = o)
      BY <1>1, <1>8 DEF StepKnown, AeOpening
    <3>3. ~(k > o /\ k - o <= n)
      BY <1>1, <1>8 DEF StepKnown
    <3>4. k - o <= 2 * n
      BY <1>1, <1>8 DEF StepKnown
    <3> HIDE DEF k, o, n
    <3> QED BY <1>1, <2>1, <3>1, <3>2, <3>3, <3>4
  <2>3. k > o /\ k - o - 1 < 2 * n /\ ~(k - o - 1 < n) /\ k > 0
    <3> HIDE DEF k, o, n
    <3> QED BY <1>1, <2>1, <2>2
  <2>4. Matches(k) => Sess.n = n /\ Len(Sess.in) = n
    BY <1>8, <2>3 DEF Matches
  <2> QED BY <1>3, <2>1, <2>3, <2>4
<1> QED BY <1>4, <1>5, <1>6, <1>7, <1>8 DEF Sessions

----------------------------------------------------------------------------
(* What a step leaves alone                                                *)

LEMMA DoneFrame ==
    ASSUME UNCHANGED <<cmd, todo>>
    PROVE  Done' = Done /\ (Posts' <=> Posts)
BY DEF Done, Posts

LEMMA MatchesFrame ==
    ASSUME cmd' = cmd, dev'.session = dev.session, NEW k
    PROVE  Matches(k)' <=> Matches(k)
BY DEF Matches, Sess

LEMMA PsbtFrame ==
    ASSUME dev'.session = dev.session, NEW n, NEW id
    PROVE  PsbtSession(n, id)' <=> PsbtSession(n, id)
BY DEF PsbtSession, Sess

LEMMA PendingFrame ==
    ASSUME UNCHANGED <<cmd, todo, wait, got, down, dev>>
    PROVE  Pending' <=> Pending
<1>1. Done' = Done
  BY DoneFrame
<1>2. \A k : Matches(k)' <=> Matches(k)
  BY MatchesFrame
<1>3. \A n, id : PsbtSession(n, id)' <=> PsbtSession(n, id)
  BY PsbtFrame
<1>4. \A d : Carries(d)' <=> Carries(d)
  BY DEF Carries
<1> QED BY <1>1, <1>2, <1>3, <1>4 DEF Pending

LEMMA FitsFrame ==
    ASSUME UNCHANGED <<cmd, todo, got, dev>>, NEW r
    PROVE  Fits(r)' <=> Fits(r)
<1>1. Done' = Done
  BY DoneFrame
<1>2. \A k : Matches(k)' <=> Matches(k)
  BY MatchesFrame
<1>3. \A n, id : PsbtSession(n, id)' <=> PsbtSession(n, id)
  BY PsbtFrame
<1> QED BY <1>1, <1>2, <1>3 DEF Fits

\* Messages that answer nothing.
Silent(r) == r.of = 0 /\ r.kind \notin {"result", "http"}

LEMMA NoiseSilent ==
    ASSUME NEW kind \in {"log", "torn"}
    PROVE  Noise(kind) \in Messages /\ Silent(Noise(kind))
BY DEF Noise, Messages, Silent

\* Nothing but the queue to the host changes, and it gets no answer.
LEMMA LessUp ==
    ASSUME Types, IInv, UNCHANGED <<cmd, todo, wait, posted, got, outcome, down, dev, ids>>,
           open' = open \/ cmd = "none",
           up' \in Seq(Messages),
           \A r \in Elements(up') : r \in Elements(up) \/ Silent(r)
    PROVE  Types' /\ IInv'
<1>1. Types'
  BY DEF Types
<1>2. Done' = Done /\ (Posts' <=> Posts)
  BY DoneFrame
<1>3. Running'
  <2>1. Running
    BY DEF IInv
  <2> QED BY <1>2, <2>1 DEF Running
<1>4. Ordered'
  <2>1. Ordered
    BY DEF IInv
  <2>2. \A d \in Elements(down) : d.id \in Nat \ {0}
    <3>1. \A d \in Elements(down) : d \in Requests
      BY ElementsMember DEF Types
    <3> QED BY <3>1 DEF Requests
  <2>3. ASSUME NEW r \in Elements(up')
        PROVE  /\ r.of <= ids /\ \A d \in Elements(down) : r.of < d.id
               /\ r.kind \in {"result", "http"} => r.id = r.of
    <3>1. CASE r \in Elements(up)
      BY <2>1, <3>1 DEF Ordered
    <3>2. CASE Silent(r)
      BY <2>2, <3>2 DEF Silent, Types
    <3> QED BY <3>1, <3>2
  <2> QED BY <2>1, <2>3 DEF Ordered, Sess
<1>5. Synchronous'
  <2>1. Synchronous
    BY DEF IInv
  <2>2. Answered => Answered'
    <3> SUFFICES ASSUME Answered,
                        NEW r \in Elements(up'), r.kind \in {"result", "http"}, r.of = wait
                 PROVE  Fits(r)'
      BY DEF Answered
    <3>1. r \in Elements(up)
      BY DEF Silent
    <3>2. Fits(r)
      BY <3>1 DEF Answered
    <3> QED BY <3>2, FitsFrame
  <2>3. Pending => Pending'
    BY PendingFrame
  <2>4. \A k : Matches(k)' <=> Matches(k)
    BY MatchesFrame
  <2> QED BY <1>2, <2>1, <2>2, <2>3, <2>4 DEF Synchronous
<1>6. Posting'
  <2>1. Posting
    BY DEF IInv
  <2>2. Written' = Written /\ Taken' = Taken /\ Base' = Base
    BY <1>2 DEF Written, Taken, Base
  <2>3. ASSUME Posts, NEW r \in Elements(up'), r.kind \in {"result", "http"}, r.of > Base
        PROVE  r.kind = "result" /\ r.value = r.of - Base
    <3>1. r \in Elements(up)
      BY <2>3 DEF Silent
    <3> QED BY <2>1, <2>3, <3>1 DEF Posting
  <2> QED BY <1>2, <2>1, <2>2, <2>3 DEF Posting, Sess
<1>7. Entropy'
  <2>1. Entropy
    BY DEF IInv
  <2> QED BY <2>1 DEF Entropy, Sess
<1>8. ResultsFit' /\ Parts' /\ PsbtWhole'
  <2>1. ResultsFit /\ Parts /\ PsbtWhole
    BY DEF IInv
  <2> QED BY <2>1 DEF ResultsFit, Parts, PsbtWhole
<1> QED BY <1>1, <1>3, <1>4, <1>5, <1>6, <1>7, <1>8 DEF IInv

----------------------------------------------------------------------------
(* One method ends, another one begins                                     *)

LEMMA Ended ==
    ASSUME Types, IInv, NEW how, End(how), how # "ok" \/ (cmd # "none" /\ todo = <<>>),
           UNCHANGED <<got, down, dev, ids>>,
           up' \in Seq(Messages),
           \A r \in Elements(up') : r \in Elements(up) \/ Silent(r)
    PROVE  Types' /\ IInv'
<1> USE DEF End
<1>1. Types'
  BY DEF Types
<1>2. Running' /\ Synchronous' /\ Posting'
  BY DEF Running, Synchronous, Posting, Posts
<1>3. Ordered'
  <2>1. Ordered
    BY DEF IInv
  <2>2. \A d \in Elements(down) : d.id \in Nat \ {0}
    <3>1. \A d \in Elements(down) : d \in Requests
      BY ElementsMember DEF Types
    <3> QED BY <3>1 DEF Requests
  <2>3. ASSUME NEW r \in Elements(up')
        PROVE  /\ r.of <= ids /\ \A d \in Elements(down) : r.of < d.id
               /\ r.kind \in {"result", "http"} => r.id = r.of
    <3>1. CASE r \in Elements(up)
      BY <2>1, <3>1 DEF Ordered
    <3>2. CASE Silent(r)
      BY <2>2, <3>2 DEF Silent, Types
    <3> QED BY <3>1, <3>2
  <2> QED BY <2>1, <2>3 DEF Ordered, Sess
<1>4. Entropy'
  <2>1. Entropy
    BY DEF IInv
  <2> QED BY <2>1 DEF Entropy, Sess
<1>5. ResultsFit' /\ Parts'
  <2>1. ResultsFit /\ Parts
    BY DEF IInv
  <2> QED BY <2>1 DEF ResultsFit, Parts
<1>6. PsbtWhole'
  <2>1. Parts
    BY DEF IInv
  <2>2. CASE how # "ok"
    BY <2>2 DEF PsbtWhole
  <2>3. CASE cmd # "none" /\ todo = <<>>
    BY <2>1, <2>3 DEF PsbtWhole, Parts
  <2> QED BY <2>2, <2>3
<1> QED BY <1>1, <1>2, <1>3, <1>4, <1>5, <1>6 DEF IInv

LEMMA Begins ==
    ASSUME Types, IInv, NEW c \in Commands, Begin(c)
    PROVE  Types' /\ IInv'
<1> USE DEF Begin
<1>1. /\ Program(c) \in Seq(Steps) /\ Len(Program(c)) \in Nat \ {0} /\ c # "none"
  BY ProgramTypes
<1>2. Types'
  BY <1>1 DEF Types
<1>3. wait = 0
  BY DEF IInv, Running
<1>4. Done' = 0
  <2>1. Done' = Len(Program(c)) - Len(Program(c))
    BY DEF Done
  <2> QED BY <1>1, <2>1
<1>5. Running'
  <2>1. \A j \in 1..Len(todo') : todo'[j] = Program(cmd')[Done' + j]
    BY <1>1, <1>4
  <2> QED BY <1>1, <1>3, <1>4, <2>1 DEF Running
<1>6. Ordered' /\ Entropy'
  <2>1. Ordered /\ Entropy
    BY DEF IInv
  <2> QED BY <2>1 DEF Ordered, Entropy, Sess
<1>7. Synchronous' /\ Posting'
  BY <1>3, <1>4 DEF Synchronous, Posting, Posts
<1>8. ResultsFit' /\ Parts' /\ PsbtWhole'
  BY DEF ResultsFit, Parts, PsbtWhole
<1> QED BY <1>2, <1>5, <1>6, <1>7, <1>8 DEF IInv

\* A further round of signing begins where the transaction does, with nothing
\* on the way to the device.
LEMMA SignsAgain ==
    ASSUME Types, IInv, SignAgain
    PROVE  Types' /\ IInv'
<1>1. /\ todo = <<>> /\ todo' \in Rounds(cmd) /\ got' = <<>> /\ outcome' = "again"
      /\ UNCHANGED <<open, cmd, wait, posted, down, up, dev, ids>>
  BY DEF SignAgain
<1>2. /\ Running /\ Ordered /\ Synchronous /\ Posting /\ Entropy
  BY DEF IInv
<1>3. cmd \in AeTransactions
  BY <1>1, RoundsRemain
<1>4. PICK k \in 1..Before(cmd) : Remainder(todo', Program(cmd), k)
  BY <1>1, RoundsRemain
<1>5. cmd # "none" /\ cmd # "sign_tx" /\ cmd # "sign_message_ae" /\ cmd # "sign_psbt"
  BY <1>3 DEF AeTransactions
<1>6. Before(cmd) \in Nat /\ k \in Nat /\ k > 0 /\ k <= Before(cmd)
  BY DEF Before
<1>7. Done' = k
  BY <1>1, <1>4 DEF Done, Remainder
<1>8. wait = 0
  BY <1>1, <1>2 DEF Running
<1>9. Types'
  <2>1. todo' \in Seq(Steps) /\ got' \in Seq(Results)
    BY <1>1, <1>4 DEF Remainder
  <2> QED BY <1>1, <2>1 DEF Types
<1>10. Running'
  <2>1. \A j \in 1..Len(todo') : todo'[j] = Program(cmd)[Done' + j]
    BY <1>4, <1>7 DEF Remainder
  <2>2. open
    BY <1>2, <1>5 DEF Running
  <2> QED BY <1>1, <1>5, <1>6, <1>7, <1>8, <2>1, <2>2 DEF Running
<1>11. Ordered' /\ Entropy'
  BY <1>1, <1>2 DEF Ordered, Entropy, Sess
<1>12. ~Posts /\ ~Posts'
  BY <1>1, <1>5 DEF Posts
<1>13. Posting'
  BY <1>1, <1>2, <1>12 DEF Posting
<1>14. down = <<>>
  <2>1. Len(Program(cmd)) \in Nat \ {0}
    BY <1>5, ProgramTypes DEF Types
  <2>2. Done > 0
    BY <1>1, <2>1 DEF Done
  <2> QED BY <1>2, <1>5, <1>8, <1>12, <2>2 DEF Synchronous
<1>15. Synchronous'
  <2>1. ~(Done' > Before(cmd))
    BY <1>6, <1>7
  <2>2. Matches(Done)'
    BY <1>1, <1>5, <2>1 DEF Matches
  <2> QED BY <1>1, <1>8, <1>14, <2>2 DEF Synchronous
<1>16. ResultsFit' /\ Parts' /\ PsbtWhole'
  BY <1>1, <1>5 DEF ResultsFit, Parts, PsbtWhole
<1> QED BY <1>9, <1>10, <1>11, <1>13, <1>15, <1>16 DEF IInv

LEMMA UpTail ==
    ASSUME Types, up # <<>>
    PROVE  /\ Tail(up) \in Seq(Messages) /\ Head(up) \in Messages /\ Head(up) \in Elements(up)
           /\ \A r \in Elements(Tail(up)) : r \in Elements(up)
<1>1. up \in Seq(Messages)
  BY DEF Types
<1> QED BY <1>1, ElementsTail

LEMMA LineSteps ==
    ASSUME Types, IInv,
           \/ Connect \/ (\E drain \in BOOLEAN : Disconnect(drain)) \/ Return \/ Reject
           \/ SkipMessage \/ Timeout \/ Kill \/ DeviceLogs
    PROVE  Types' /\ IInv'
<1>1. up \in Seq(Messages) /\ <<>> \in Seq(Messages) /\ Elements(<<>>) = {}
  BY DEF Types, Elements
<1>2. CASE Connect
  <2>1. /\ UNCHANGED <<cmd, todo, wait, posted, got, outcome, down, dev, ids>> /\ cmd = "none"
    BY <1>2 DEF Connect, IInv, Running
  <2>2. up' = up \/ up' = <<>>
    BY <1>2 DEF Connect
  <2> QED BY <1>1, <2>1, <2>2, LessUp
<1>3. CASE \E drain \in BOOLEAN : Disconnect(drain)
  <2>1. /\ UNCHANGED <<cmd, todo, wait, posted, got, outcome, down, dev, ids>> /\ cmd = "none"
    BY <1>3 DEF Disconnect
  <2>2. up' = up \/ up' = <<>>
    BY <1>3 DEF Disconnect
  <2> QED BY <1>1, <2>1, <2>2, LessUp
<1>4. CASE Return
  BY <1>1, <1>4, Ended DEF Return
<1>5. CASE Reject
  <2>1. End("badArgument") /\ UNCHANGED <<got, down, up, dev, ids>>
    BY <1>5 DEF Reject
  <2> QED BY <1>1, <2>1, Ended
<1>6. CASE SkipMessage
  <2>1. up # <<>> /\ up' = Tail(up) /\ UNCHANGED <<open, got, down, dev, ids>>
    BY <1>6 DEF SkipMessage
  <2>2. up' \in Seq(Messages) /\ \A r \in Elements(up') : r \in Elements(up)
    BY <2>1, UpTail
  <2>3. CASE UNCHANGED <<cmd, todo, wait, posted, outcome>>
    BY <2>1, <2>2, <2>3, LessUp
  <2>4. CASE End("raw")
    BY <2>1, <2>2, <2>4, Ended
  <2> QED BY <1>6, <2>3, <2>4 DEF SkipMessage
<1>7. CASE Timeout
  <2>1. UNCHANGED <<open, got, down, dev, ids>>
    BY <1>7 DEF Timeout
  <2>2. up' \in Seq(Messages) /\ \A r \in Elements(up') : r \in Elements(up) \/ Silent(r)
    <3>1. CASE up' = up
      BY <1>1, <3>1
    <3>2. CASE up # <<>> /\ up' = <<Noise("torn")>> \o Tail(up)
      <4> DEFINE n == Noise("torn")
                 q == <<n>>
      <4>1. n \in Messages /\ Silent(n)
        BY NoiseSilent
      <4> HIDE DEF n
      <4>2. q \in Seq(Messages) /\ Elements(q) = {n}
        BY <4>1 DEF Elements
      <4>3. Tail(up) \in Seq(Messages) /\ \A r \in Elements(Tail(up)) : r \in Elements(up)
        BY <3>2, UpTail
      <4>4. up' = q \o Tail(up)
        BY <3>2 DEF n
      <4> HIDE DEF q
      <4> QED BY <4>1, <4>2, <4>3, <4>4, ElementsConcat
    <3> QED BY <1>7, <3>1, <3>2 DEF Timeout
  <2>3. CASE UNCHANGED <<cmd, todo, wait, posted, outcome>>
    BY <2>1, <2>2, <2>3, LessUp
  <2>4. CASE End("timeout")
    BY <2>1, <2>2, <2>4, Ended
  <2> QED BY <1>7, <2>3, <2>4 DEF Timeout
<1>8. CASE Kill
  <2>1. End("killed") /\ UNCHANGED <<got, down, up, dev, ids>>
    BY <1>8 DEF Kill
  <2> QED BY <1>1, <2>1, Ended
<1>9. CASE DeviceLogs
  <2>1. UNCHANGED <<open, cmd, todo, wait, posted, got, outcome, down, dev, ids>>
    BY <1>9 DEF DeviceLogs
  <2>2. up' \in Seq(Messages) /\ \A r \in Elements(up') : r \in Elements(up) \/ Silent(r)
    <3> DEFINE n == Noise("log")
    <3>1. n \in Messages /\ Silent(n)
      BY NoiseSilent
    <3>2. up' = Append(up, n)
      BY <1>9 DEF DeviceLogs
    <3> HIDE DEF n
    <3>3. up' \in Seq(Messages) /\ Elements(up') = Elements(up) \cup {n}
      BY <1>1, <3>1, <3>2, ElementsAppend
    <3> QED BY <3>1, <3>3
  <2> QED BY <2>1, <2>2, LessUp
<1> QED BY <1>2, <1>3, <1>4, <1>5, <1>6, <1>7, <1>8, <1>9

----------------------------------------------------------------------------
(* Requests                                                                *)

LEMMA BuildsRequest ==
    ASSUME NEW s \in Steps, NEW n \in Nat \ {0}
    PROVE  LET d == build_request(n, s) IN
           d \in Requests /\ d.id = n /\ d.m = s.m /\ d.arg = s.arg /\ d.entropy = s.entropy /\ d.ae = s.ae
BY DEF build_request, Steps, Requests

\* A request is written after the others.
LEMMA Sent ==
    ASSUME Types, IInv, NEW d \in Requests, d.id = ids + 1, down' = Append(down, d), ids' = ids + 1,
           dev' = dev, up' \in Seq(Messages), \A r \in Elements(up') : r \in Elements(up),
           d.entropy = TRUE => down = <<>> /\ (Sess.kind = "tx" => Len(Sess.in) = Sess.n)
    PROVE  /\ down' \in Seq(Requests) /\ Len(down') = Len(down) + 1 /\ Len(down) \in Nat
           /\ down' # <<>> /\ down'[Len(down')] = d
           /\ \A j \in 1..Len(down) : down'[j] = down[j]
           /\ Ordered' /\ Entropy'
<1>1. down \in Seq(Requests) /\ ids \in Nat
  BY DEF Types
<1>2. /\ down' \in Seq(Requests) /\ Len(down') = Len(down) + 1 /\ Len(down) \in Nat
      /\ down' # <<>> /\ down'[Len(down')] = d
      /\ \A j \in 1..Len(down) : down'[j] = down[j]
  BY <1>1
<1>3. Elements(down') = Elements(down) \cup {d}
  BY <1>1, ElementsAppend
<1>4. Ordered'
  <2>1. Ordered
    BY DEF IInv
  <2>2. \A e \in Elements(down') : e.id <= ids'
    <3>1. \A e \in Elements(down) : e.id <= ids /\ e \in Requests
      BY <1>1, <2>1, ElementsMember DEF Ordered
    <3> QED BY <1>1, <1>3, <3>1 DEF Requests
  <2>3. \A i, j \in 1..Len(down') : i < j => down'[i].id < down'[j].id
    <3> SUFFICES ASSUME NEW i \in 1..Len(down'), NEW j \in 1..Len(down'), i < j
                 PROVE  down'[i].id < down'[j].id
      OBVIOUS
    <3>1. i \in 1..Len(down) /\ down'[i] = down[i]
      BY <1>2
    <3>2. CASE j \in 1..Len(down)
      BY <1>2, <2>1, <3>1, <3>2 DEF Ordered
    <3>3. CASE j = Len(down')
      <4>1. down[i] \in Elements(down) /\ down[i] \in Requests
        BY <1>1, <3>1 DEF Elements
      <4>2. down[i].id <= ids /\ down[i].id \in Nat
        BY <2>1, <4>1 DEF Ordered, Requests
      <4> QED BY <1>1, <1>2, <3>1, <3>3, <4>2
    <3>4. j \in 1..Len(down) \/ j = Len(down')
      BY <1>2
    <3> QED BY <3>2, <3>3, <3>4
  <2>4. ASSUME NEW r \in Elements(up')
        PROVE  /\ r.of <= ids' /\ \A e \in Elements(down') : r.of < e.id
               /\ r.kind \in {"result", "http"} => r.id = r.of
    <3>1. r \in Elements(up) /\ r \in Messages
      BY ElementsMember
    <3>2. /\ r.of <= ids /\ r.of \in Nat /\ \A e \in Elements(down) : r.of < e.id
          /\ r.kind \in {"result", "http"} => r.id = r.of
      BY <2>1, <3>1 DEF Ordered, Messages
    <3> QED BY <1>1, <1>3, <3>2
  <2>5. ASSUME NEW x \in Elements(Sess.in)
        PROVE  x.id <= ids' /\ \A e \in Elements(down') : x.id < e.id
    <3>1. Sess.in \in Seq(Requests)
      BY DEF Types, Session, Sess
    <3>2. x \in Requests
      BY <3>1, ElementsMember
    <3>3. x.id \in Nat
      BY <3>2 DEF Requests
    <3>4. x.id <= ids /\ \A e \in Elements(down) : x.id < e.id
      BY <2>1 DEF Ordered
    <3> QED BY <1>1, <1>3, <3>3, <3>4
  <2>6. Sess' = Sess
    BY DEF Sess
  <2> QED BY <2>2, <2>3, <2>4, <2>5, <2>6 DEF Ordered
<1>5. Entropy'
  <2>1. Entropy
    BY DEF IInv
  <2>2. Sess' = Sess
    BY DEF Sess
  <2>3. ASSUME NEW j \in 1..Len(down'), down'[j].entropy = TRUE
        PROVE  j = 1 /\ (Sess.kind = "tx" => Len(Sess.in) = Sess.n)
    <3>1. CASE j \in 1..Len(down)
      BY <1>2, <2>1, <2>3, <3>1 DEF Entropy
    <3>2. CASE j = Len(down')
      <4>1. down = <<>> /\ (Sess.kind = "tx" => Len(Sess.in) = Sess.n)
        BY <1>2, <2>3, <3>2
      <4>2. Len(down) = 0
        BY <4>1
      <4> QED BY <1>2, <3>2, <4>1, <4>2
    <3> QED BY <1>2, <3>1, <3>2
  <2> QED BY <2>1, <2>2, <2>3 DEF Entropy
<1> QED BY <1>2, <1>4, <1>5

LEMMA Asks ==
    ASSUME Types, IInv, Ask
    PROVE  Types' /\ IInv'
<1> DEFINE s == Head(todo)
<1> PICK d : d = build_request(ids + 1, s)
  OBVIOUS
<1>1. /\ wait = 0 /\ todo # <<>> /\ s.op \in {"rpc", "until", "parts"} /\ ids' = ids + 1
      /\ down' = Append(down, d) /\ wait' = ids + 1
      /\ UNCHANGED <<open, cmd, todo, posted, got, outcome, up, dev, used>>
  BY DEF Ask
<1>2. cmd # "none" /\ Running
  BY <1>1 DEF IInv, Running
<1>3. ~Posts /\ s \in Steps /\ Done \in Nat
  BY <1>1, <1>2, StepFacts, CurrentStep
<1>4. ids \in Nat /\ ids + 1 \in Nat \ {0}
  BY DEF Types
<1>5. d \in Requests /\ d.id = ids + 1 /\ d.entropy = s.entropy
  BY <1>3, <1>4, BuildsRequest
<1>6. /\ Done > 0 => down = <<>> /\ (dev.works => Matches(Done))
      /\ s.op = "parts" => got = <<>>
  BY <1>1, <1>2, <1>3 DEF IInv, Synchronous
<1>7. ASSUME d.entropy = TRUE
      PROVE  down = <<>> /\ (Sess.kind = "tx" => Len(Sess.in) = Sess.n)
  <2>1. /\ Done > 0
        /\ Matches(Done) /\ ~Posts => (Sess.kind = "tx" => Len(Sess.in) = Sess.n)
    BY <1>1, <1>2, <1>5, <1>7, EntropySteps
  <2>2. ~dev.works => Sess.kind = "none"
    BY DEF IInv, Entropy
  <2> QED BY <1>3, <1>6, <2>1, <2>2
<1>8. up' \in Seq(Messages) /\ \A r \in Elements(up') : r \in Elements(up)
  BY <1>1 DEF Types
<1>9. /\ down' \in Seq(Requests) /\ Len(down') = Len(down) + 1 /\ Len(down) \in Nat
      /\ down' # <<>> /\ down'[Len(down')] = d
      /\ Ordered' /\ Entropy'
  BY <1>1, <1>5, <1>7, <1>8, Sent
<1>10. Types'
  BY <1>1, <1>4, <1>9 DEF Types
<1>11. Done' = Done /\ (Posts' <=> Posts)
  BY <1>1, DoneFrame
<1>12. Running'
  <2>1. s.op # "post"
    BY <1>1
  <2> QED BY <1>1, <1>2, <1>11, <2>1 DEF Running
<1>13. Pending'
  <2>1. d = build_request(d.id, s)
    BY <1>5
  <2>2. Carries(d)'
    BY <1>1, <1>6, <2>1 DEF Carries
  <2>3. ASSUME Done' > 0 PROVE Len(down') = 1 /\ (dev'.works => Matches(Done)')
    <3>1. Len(down) = 0
      BY <1>6, <1>11, <2>3
    <3>2. dev'.works => Matches(Done)
      BY <1>1, <1>6, <1>11, <2>3
    <3>3. Matches(Done)' <=> Matches(Done)
      BY <1>1, <1>11 DEF Matches, Sess
    <3> QED BY <1>9, <3>1, <3>2, <3>3
  <2>4. ~(Head(todo').op = "parts" /\ got' # <<>>)
    BY <1>1, <1>6
  <2> QED BY <1>1, <1>5, <1>9, <2>2, <2>3, <2>4 DEF Pending
<1>14. Synchronous'
  BY <1>1, <1>4, <1>13 DEF Synchronous
<1>15. Posting'
  BY <1>1, <1>3, <1>11 DEF IInv, Posting
<1>16. ResultsFit' /\ Parts' /\ PsbtWhole'
  <2>1. ResultsFit /\ Parts /\ PsbtWhole
    BY DEF IInv
  <2> QED BY <1>1, <2>1 DEF ResultsFit, Parts, PsbtWhole
<1> QED BY <1>9, <1>10, <1>12, <1>14, <1>15, <1>16 DEF IInv

\* A step is done.
LEMMA Advance ==
    ASSUME Types, Running, cmd # "none", todo # <<>>, todo' = Tail(todo), cmd' = cmd
    PROVE  /\ todo' \in Seq(Steps) /\ Done \in Nat /\ Done' = Done + 1
           /\ \A j \in 1..Len(todo') : todo'[j] = Program(cmd')[Done' + j]
<1>1. /\ todo \in Seq(Steps) /\ Done \in Nat /\ Len(Program(cmd)) \in Nat
      /\ \A j \in 1..Len(todo) : todo[j] = Program(cmd)[Done + j]
  BY CurrentStep DEF Types, Running
<1>2. /\ Tail(todo) \in Seq(Steps) /\ Len(Tail(todo)) = Len(todo) - 1 /\ Len(todo) \in Nat \ {0}
      /\ \A j \in 1..Len(Tail(todo)) : Tail(todo)[j] = todo[j + 1]
  BY <1>1, ElementsTail
<1>3. Done' = Done + 1
  <2>1. Done' = Len(Program(cmd)) - Len(Tail(todo)) /\ Done = Len(Program(cmd)) - Len(todo)
    BY DEF Done
  <2> QED BY <1>1, <1>2, <2>1
<1> DEFINE P == Program(cmd)
           k == Done
<1>4. ASSUME NEW j \in 1..Len(Tail(todo)) PROVE Tail(todo)[j] = P[k + 1 + j]
  <2>1. j + 1 \in 1..Len(todo) /\ j \in Nat
    BY <1>2
  <2>2. Tail(todo)[j] = todo[j + 1] /\ todo[j + 1] = P[k + (j + 1)]
    BY <1>1, <1>2, <2>1
  <2>3. k + (j + 1) = k + 1 + j
    <3>1. k \in Nat
      BY <1>1
    <3> HIDE DEF k
    <3> QED BY <2>1, <3>1
  <2> HIDE DEF k, P
  <2> QED BY <2>2, <2>3
<1>5. ASSUME NEW j \in 1..Len(todo') PROVE todo'[j] = Program(cmd')[Done' + j]
  <2>1. Program(cmd') = P /\ Done' + j = k + 1 + j
    BY <1>3
  <2> HIDE DEF P, k
  <2> QED BY <1>4, <2>1
<1> QED BY <1>1, <1>2, <1>3, <1>5

\* Where the older sign_tx is.
LEMMA PostPlace ==
    ASSUME Types, Running, Posts, todo # <<>>
    PROVE  /\ Done \in Nat \ {0} /\ TxInputs \in Nat \ {0} /\ Done <= 2 * TxInputs
           /\ cmd # "none" /\ Head(todo) \in Steps
           /\ IF Done <= TxInputs
              THEN InputStep(Head(todo), "post", Done) /\ Head(todo).entropy = FALSE
              ELSE InputStep(Head(todo), "collect", Done - TxInputs)
<1>1. cmd = "sign_tx" /\ cmd # "none" /\ Done > 0
  BY DEF Posts
<1>2. StepKnown(Head(todo), Done) /\ Done \in Nat /\ Head(todo) \in Steps
  BY <1>1, Steps_Known, CurrentStep
<1>3. TxInputs \in Nat \ {0}
  BY JadeRpcAssumption
<1>4. /\ Done <= 2 * TxInputs
      /\ Done > 0 /\ Done <= TxInputs => InputStep(Head(todo), "post", Done) /\ Head(todo).entropy = FALSE
      /\ Done > TxInputs => InputStep(Head(todo), "collect", Done - TxInputs)
  BY <1>1, <1>2 DEF StepKnown
<1> HIDE DEF Done
<1>5. ~(Done <= TxInputs) => Done > TxInputs
  BY <1>2, <1>3
<1> QED BY <1>1, <1>2, <1>3, <1>4, <1>5

LEMMA Posting_Post ==
    ASSUME Types, IInv, Post
    PROVE  Types' /\ IInv'
<1> DEFINE s == Head(todo)
<1> PICK d : d = build_request(ids + 1, s)
  OBVIOUS
<1>1. /\ todo # <<>> /\ s.op = "post" /\ ids' = ids + 1 /\ down' = Append(down, d)
      /\ posted' = Append(posted, ids + 1) /\ todo' = Tail(todo)
      /\ UNCHANGED <<open, cmd, wait, got, outcome, up, dev, used>>
  BY DEF Post
<1>2. cmd # "none" /\ Running /\ wait = 0
  BY <1>1 DEF IInv, Running
<1>3. Posts
  BY <1>1, <1>2, StepFacts
<1>4. /\ Done \in Nat \ {0} /\ TxInputs \in Nat \ {0} /\ Done <= TxInputs
      /\ s \in Steps /\ s.m = "tx_input" /\ s.entropy = FALSE
  BY <1>1, <1>2, <1>3, PostPlace DEF InputStep
<1>5. ids \in Nat /\ ids + 1 \in Nat \ {0} /\ posted \in Seq(Nat) /\ down \in Seq(Requests)
  BY DEF Types
<1>6. d \in Requests /\ d.id = ids + 1 /\ d.entropy = FALSE /\ d.m = "tx_input"
  BY <1>4, <1>5, BuildsRequest
<1>7. up' \in Seq(Messages) /\ \A r \in Elements(up') : r \in Elements(up)
  BY <1>1 DEF Types
<1>8. /\ down' \in Seq(Requests) /\ Len(down') = Len(down) + 1 /\ Len(down) \in Nat
      /\ down' # <<>> /\ down'[Len(down')] = d
      /\ \A j \in 1..Len(down) : down'[j] = down[j]
      /\ Ordered' /\ Entropy'
  BY <1>1, <1>6, <1>7, Sent
<1>9. /\ todo' \in Seq(Steps) /\ Done' = Done + 1
      /\ \A j \in 1..Len(todo') : todo'[j] = Program(cmd')[Done' + j]
  BY <1>1, <1>2, Advance
<1>10. /\ posted' \in Seq(Nat) /\ Len(posted') = Len(posted) + 1 /\ Len(posted) \in Nat
       /\ posted'[Len(posted')] = ids + 1 /\ \A j \in 1..Len(posted) : posted'[j] = posted[j]
  BY <1>1, <1>5
<1>11. Types'
  BY <1>1, <1>5, <1>8, <1>9, <1>10 DEF Types
<1>12. Running'
  <2>1. Done' \in Nat
    BY <1>4, <1>9
  <2> QED BY <1>1, <1>2, <1>9, <2>1 DEF Running
<1>13. Posts' /\ Synchronous'
  <2>1. Done' > 0
    BY <1>4, <1>9
  <2>2. Posts'
    BY <1>1, <1>3, <2>1 DEF Posts
  <2> QED BY <2>2 DEF Synchronous
<1>14. /\ Written = Done - 1 /\ Written' = Done /\ Taken = 0 /\ Taken' = 0
       /\ Base = ids - (Done - 1) /\ Base' = Base
  <2>1. Written = Done - 1 /\ Taken = 0
    BY <1>2, <1>4 DEF Written, Taken
  <2>2. Written' = Done /\ Taken' = 0
    BY <1>1, <1>2, <1>4, <1>9 DEF Written, Taken
  <2>3. Base = ids - (Done - 1) /\ Base' = ids + 1 - Done
    <3>1. Base = ids - Written /\ Base' = ids' - Written'
      BY DEF Base
    <3> QED BY <1>1, <1>4, <1>5, <2>1, <2>2, <3>1
  <2> QED BY <1>4, <1>5, <2>1, <2>2, <2>3
<1>15. Posting'
  <2>1. /\ Base \in Nat
        /\ Len(down) <= Written
        /\ \A j \in 1..Len(down) : down[j].m = "tx_input" /\ down[j].id = ids - Len(down) + j
        /\ dev.works /\ Sess.kind = "tx" =>
              /\ Sess.ae = FALSE /\ Sess.n = TxInputs
              /\ Len(Sess.in) = Written - Len(down)
              /\ \A j \in 1..Len(Sess.in) : Sess.in[j].id = Base + j
        /\ \A r \in Elements(up) : r.kind \in {"result", "http"} /\ r.of > Base =>
              r.kind = "result" /\ r.value = r.of - Base
        /\ Len(posted) = Written - Taken
        /\ \A j \in 1..Len(posted) : posted[j] = Base + Taken + j
    BY <1>3 DEF IInv, Posting
  <2>2. Base' \in Nat /\ Len(down') <= Written' /\ Len(posted') = Written' - Taken'
    BY <1>4, <1>8, <1>10, <1>14, <2>1
  <2>3. ASSUME NEW j \in 1..Len(down')
        PROVE  down'[j].m = "tx_input" /\ down'[j].id = ids' - Len(down') + j
    <3>1. CASE j \in 1..Len(down)
      BY <1>1, <1>5, <1>8, <2>1, <3>1
    <3>2. CASE j = Len(down')
      BY <1>1, <1>5, <1>6, <1>8, <3>2
    <3>3. j \in 1..Len(down) \/ j = Len(down')
      BY <1>8
    <3> QED BY <3>1, <3>2, <3>3
  <2>4. Sess' = Sess /\ dev'.works = dev.works
    BY <1>1 DEF Sess
  <2>5. Written' - Len(down') = Written - Len(down)
    BY <1>4, <1>8, <1>14
  <2>6. ASSUME NEW j \in 1..Len(posted') PROVE posted'[j] = Base' + Taken' + j
    <3>1. CASE j \in 1..Len(posted)
      BY <1>10, <1>14, <2>1, <3>1
    <3>2. CASE j = Len(posted')
      <4>1. j = Done
        BY <1>4, <1>14, <2>1, <1>10, <3>2
      <4>2. ids + 1 = Base + 0 + Done
        BY <1>4, <1>5, <1>14
      <4> QED BY <1>10, <1>14, <3>2, <4>1, <4>2
    <3>3. j \in 1..Len(posted) \/ j = Len(posted')
      BY <1>10
    <3> QED BY <3>1, <3>2, <3>3
  <2>7. /\ \A r \in Elements(up') : r.kind \in {"result", "http"} /\ r.of > Base' =>
              r.kind = "result" /\ r.value = r.of - Base'
        /\ dev'.works /\ Sess'.kind = "tx" =>
              /\ Sess'.ae = FALSE /\ Sess'.n = TxInputs
              /\ Len(Sess'.in) = Written' - Len(down')
              /\ \A j \in 1..Len(Sess'.in) : Sess'.in[j].id = Base' + j
        /\ wait' = 0
    BY <1>1, <1>2, <1>14, <2>1, <2>4, <2>5
  <2> QED BY <1>13, <2>2, <2>3, <2>6, <2>7 DEF Posting
<1>16. ResultsFit' /\ PsbtWhole'
  <2>1. ResultsFit /\ PsbtWhole
    BY DEF IInv
  <2> QED BY <1>1, <2>1 DEF ResultsFit, PsbtWhole
<1>17. Parts'
  <2>1. Parts /\ cmd = "sign_tx"
    BY <1>3 DEF IInv, Posts
  <2> QED BY <1>1, <2>1 DEF Parts
<1> QED BY <1>8, <1>11, <1>12, <1>13, <1>15, <1>16, <1>17 DEF IInv

LEMMA Posting_Collect ==
    ASSUME Types, IInv, Collect
    PROVE  Types' /\ IInv'
<1> DEFINE s == Head(todo)
<1>1. /\ wait = 0 /\ todo # <<>> /\ s.op = "collect" /\ wait' = Head(posted) /\ posted' = Tail(posted)
      /\ UNCHANGED <<open, cmd, todo, got, outcome, down, up, dev, ids, used>>
  BY DEF Collect
<1>2. cmd # "none" /\ Running
  BY <1>1 DEF IInv, Running
<1>3. Posts
  BY <1>1, <1>2, StepFacts
<1>4. Done \in Nat \ {0} /\ TxInputs \in Nat \ {0} /\ Done > TxInputs /\ Done <= 2 * TxInputs
  <2>1. /\ Done \in Nat \ {0} /\ TxInputs \in Nat \ {0} /\ Done <= 2 * TxInputs
        /\ ~(Done <= TxInputs)
    BY <1>1, <1>2, <1>3, PostPlace DEF InputStep
  <2> HIDE DEF Done
  <2> QED BY <2>1
<1>5. ids \in Nat /\ posted \in Seq(Nat)
  BY DEF Types
<1>6. Done' = Done /\ (Posts' <=> Posts)
  BY <1>1, DoneFrame
<1>7. /\ Base \in Nat
      /\ Len(posted) = Written - Taken
      /\ \A j \in 1..Len(posted) : posted[j] = Base + Taken + j
  BY <1>3 DEF IInv, Posting
<1>8. Written = TxInputs /\ Taken = Done - 1 - TxInputs
  <2> HIDE DEF Done
  <2>1. Written = TxInputs
    BY <1>4 DEF Written
  <2>2. Taken = Done - 1 - TxInputs
    BY <1>1, <1>4 DEF Taken
  <2> QED BY <2>1, <2>2
<1>9. Len(posted) > 0 /\ Taken \in Nat
  <2> HIDE DEF Done
  <2> QED BY <1>4, <1>7, <1>8
<1>10. /\ Head(posted) = posted[1] /\ posted # <<>> /\ Tail(posted) \in Seq(Nat)
       /\ Len(Tail(posted)) = Len(posted) - 1 /\ Len(posted) \in Nat
       /\ \A j \in 1..Len(Tail(posted)) : Tail(posted)[j] = posted[j + 1]
  BY <1>5, <1>9
<1>11. wait' = Base + Taken + 1 /\ wait' \in Nat \ {0}
  <2>1. posted[1] = Base + Taken + 1
    BY <1>7, <1>9, <1>10
  <2> QED BY <1>1, <1>7, <1>9, <1>10, <2>1
<1>12. Written' = Written /\ Base' = Base /\ Taken' = Taken + 1
  <2>1. Written' = Written
    BY <1>6 DEF Written
  <2>2. Base' = Base
    BY <1>1, <2>1 DEF Base
  <2>3. Taken' = Done - 1 - TxInputs + 1
    <3>1. Taken' = (IF Done' - 1 <= TxInputs THEN 0 ELSE Done' - 1 - TxInputs) + (IF wait' = 0 THEN 0 ELSE 1)
      BY DEF Taken
    <3> HIDE DEF Done
    <3> QED BY <1>4, <1>6, <1>11, <3>1
  <2> QED BY <1>4, <1>8, <2>1, <2>2, <2>3
<1>13. Types'
  BY <1>1, <1>10, <1>11 DEF Types
<1>14. Running'
  BY <1>1, <1>2, <1>6 DEF Running
<1>15. Synchronous'
  BY <1>3, <1>6 DEF Synchronous
<1>16. Posting'
  <2>1. Posting /\ Sess' = Sess
    BY <1>1 DEF IInv, Sess
  <2>2. Len(posted') = Written' - Taken'
    <3> HIDE DEF Done, Written, Taken, Base
    <3> QED BY <1>1, <1>4, <1>7, <1>8, <1>9, <1>10, <1>12
  <2>3. ASSUME NEW j \in 1..Len(posted') PROVE posted'[j] = Base' + Taken' + j
    <3>1. posted'[j] = posted[j + 1] /\ j + 1 \in 1..Len(posted)
      BY <1>1, <1>10
    <3>2. posted[j + 1] = Base + Taken + (j + 1)
      BY <1>7, <3>1
    <3> HIDE DEF Done, Written, Taken, Base
    <3> QED BY <1>7, <1>9, <1>12, <3>1, <3>2
  <2>4. wait' = Base' + Taken'
    <3> HIDE DEF Done, Written, Taken, Base
    <3> QED BY <1>7, <1>9, <1>11, <1>12
  <2> HIDE DEF Done, Written, Taken, Base
  <2> QED BY <1>1, <1>6, <1>3, <1>12, <2>1, <2>2, <2>3, <2>4 DEF Posting
<1>17. Ordered' /\ Entropy' /\ ResultsFit' /\ Parts' /\ PsbtWhole'
  <2>1. Ordered /\ Entropy /\ ResultsFit /\ Parts /\ PsbtWhole
    BY DEF IInv
  <2> QED BY <1>1, <2>1 DEF Ordered, Entropy, ResultsFit, Parts, PsbtWhole, Sess
<1> QED BY <1>13, <1>14, <1>15, <1>16, <1>17 DEF IInv

----------------------------------------------------------------------------
(* Replies                                                                 *)

\* Only sign_psbt waits for parts.
LEMMA PartsOnly ==
    ASSUME NEW c \in Commands, NEW j \in 1..Len(Program(c)), Program(c)[j].op = "parts"
    PROVE  c = "sign_psbt"
<1> DEFINE P == Program(c)
<1>1. c \in DOMAIN Calls \cup DOMAIN Programs
  BY CommandsAssumption
<1>2. CASE c \notin Sessions
  <2>1. PlainProgram(P)
    BY <1>1, <1>2, PlainPrograms
  <2> HIDE DEF P
  <2>2. P[j].op \in {"rpc", "until"}
    BY <2>1 DEF PlainProgram, PlainStep, P
  <2> QED BY <2>2 DEF P
<1>3. CASE c = "sign_message_ae"
  <2>1. MessageProgram(P)
    BY <1>3, SessionPrograms
  <2> HIDE DEF P
  <2>2. j = 1 \/ j = 2
    BY <2>1 DEF MessageProgram, P
  <2>3. P[1].op = "rpc" /\ P[2].op = "rpc"
    BY <2>1, Zenon DEF MessageProgram
  <2> QED BY <2>2, <2>3 DEF P
<1>4. CASE c = "sign_psbt"
  BY <1>4
<1>5. CASE c = "sign_tx"
  <2>1. PostProgram(P, TxInputs) /\ TxInputs \in Nat
    BY <1>5, SessionPrograms, JadeRpcAssumption
  <2> HIDE DEF P
  <2>2. /\ Len(P) = 1 + 2 * TxInputs /\ P[1].op = "rpc"
        /\ \A i \in 1..TxInputs : P[1 + i].op = "post"
        /\ \A i \in 1..TxInputs : P[1 + TxInputs + i].op = "collect"
    BY <2>1 DEF PostProgram, PlainOpening, InputStep
  <2>3. CASE j = 1
    BY <2>2, <2>3 DEF P
  <2>4. CASE j > 1 /\ j - 1 <= TxInputs
    <3>1. j - 1 \in 1..TxInputs /\ 1 + (j - 1) = j
      BY <2>1, <2>4
    <3>2. P[1 + (j - 1)].op = "post"
      BY <2>2, <3>1
    <3> QED BY <3>1, <3>2 DEF P
  <2>5. CASE j - 1 > TxInputs
    <3>1. j - 1 - TxInputs \in 1..TxInputs /\ 1 + TxInputs + (j - 1 - TxInputs) = j
      BY <2>1, <2>2, <2>5 DEF P
    <3>2. P[1 + TxInputs + (j - 1 - TxInputs)].op = "collect"
      BY <2>2, <3>1
    <3> QED BY <3>1, <3>2 DEF P
  <2>6. j \in Nat \ {0}
    OBVIOUS
  <2>7. j = 1 \/ (j > 1 /\ j - 1 <= TxInputs) \/ j - 1 > TxInputs
    BY <2>1, <2>6
  <2> QED BY <2>3, <2>4, <2>5, <2>7
<1>6. CASE c \in AeTransactions
  <2> DEFINE o == Before(c)
             n == Inputs(c)
  <2>1. AeProgram(P, o, n) /\ o \in Nat /\ n \in Nat
    BY <1>6, SessionPrograms
  <2>2. j \in 1..Len(P) /\ P[j].op = "parts"
    OBVIOUS
  <2> HIDE DEF P, o, n
  <2>3. /\ Len(P) = o + 1 + 2 * n
        /\ \A i \in 1..o : P[i].op \in {"rpc", "until"}
        /\ P[o + 1].op = "rpc"
        /\ \A i \in 1..n : P[o + 1 + i].op = "rpc"
        /\ \A i \in 1..n : P[o + 1 + n + i].op = "rpc"
    BY <2>1 DEF AeProgram, PlainStep, AeOpening, InputStep, SignatureStep
  <2>4. CASE j <= o
    <3>1. j \in 1..o
      BY <2>1, <2>2, <2>4
    <3>2. P[j].op \in {"rpc", "until"}
      BY <2>3, <3>1
    <3>3. P[j].op # "parts"
      BY <3>2
    <3> QED BY <2>2, <3>3
  <2>5. CASE j = o + 1
    BY <2>2, <2>3, <2>5
  <2>6. CASE j > o + 1 /\ j - o - 1 <= n
    <3>1. j - o - 1 \in 1..n /\ o + 1 + (j - o - 1) = j
      BY <2>1, <2>2, <2>6
    <3>2. P[o + 1 + (j - o - 1)].op = "rpc"
      BY <2>3, <3>1
    <3> QED BY <2>2, <3>1, <3>2
  <2>7. CASE j - o - 1 > n
    <3>1. j - o - 1 - n \in 1..n /\ o + 1 + n + (j - o - 1 - n) = j
      BY <2>1, <2>2, <2>3, <2>7
    <3>2. P[o + 1 + n + (j - o - 1 - n)].op = "rpc"
      BY <2>3, <3>1
    <3> QED BY <2>2, <3>1, <3>2
  <2>8. j <= o \/ j = o + 1 \/ (j > o + 1 /\ j - o - 1 <= n) \/ j - o - 1 > n
    BY <2>1, <2>2
  <2> QED BY <2>4, <2>5, <2>6, <2>7, <2>8
<1> QED BY <1>2, <1>3, <1>4, <1>5, <1>6 DEF Sessions

\* A result that a method accepts is the answer to its request.
LEMMA ReplyFits ==
    ASSUME Types, IInv, wait # 0, up # <<>>, Head(up).kind \in {"result", "http"},
           validate_reply(Head(up))
    PROVE  /\ Head(up).of = wait /\ cmd # "none" /\ todo # <<>> /\ Head(todo).op # "post"
           /\ ~Posts => wait = ids /\ down = <<>> /\ Fits(Head(up))
           /\ Posts => Head(up).kind = "result" /\ Head(up).value = Head(todo).arg /\ Done > TxInputs
<1> DEFINE r == Head(up)
<1>1. r \in Elements(up) /\ r \in Messages
  BY UpTail
<1>2. r.of = wait
  <2>1. r.id = wait
    BY DEF validate_reply
  <2>2. r.id = r.of
    BY <1>1 DEF IInv, Ordered
  <2> QED BY <2>1, <2>2
<1>3. cmd # "none" /\ todo # <<>> /\ Head(todo).op # "post" /\ Running
  BY DEF IInv, Running
<1>4. ASSUME ~Posts PROVE wait = ids /\ down = <<>> /\ Fits(r)
  <2>1. wait = ids /\ (Pending \/ Answered)
    BY <1>3, <1>4 DEF IInv, Synchronous
  <2>2. ~Pending
    <3> SUFFICES ASSUME Pending PROVE FALSE
      OBVIOUS
    <3>1. down # <<>> /\ down[Len(down)].id = wait /\ down \in Seq(Requests)
      BY DEF Pending, Types
    <3>2. Len(down) \in 1..Len(down)
      BY <3>1
    <3>3. down[Len(down)] \in Elements(down) /\ down[Len(down)] \in Requests
      BY <3>1, <3>2 DEF Elements
    <3>4. r.of < down[Len(down)].id /\ r.of \in Nat
      BY <1>1, <3>3 DEF IInv, Ordered, Messages
    <3> QED BY <1>2, <3>1, <3>4
  <2> QED BY <1>1, <1>2, <2>1, <2>2 DEF Answered
<1>5. ASSUME Posts PROVE r.kind = "result" /\ r.value = Head(todo).arg /\ Done > TxInputs
  <2>1. /\ Done \in Nat \ {0} /\ TxInputs \in Nat \ {0} /\ ~(Done <= TxInputs)
        /\ InputStep(Head(todo), "collect", Done - TxInputs)
    BY <1>3, <1>5, PostPlace DEF InputStep
  <2>2. /\ Base \in Nat /\ wait = Base + Taken
        /\ r.of > Base => r.kind = "result" /\ r.value = r.of - Base
    BY <1>1, <1>5 DEF IInv, Posting
  <2> HIDE DEF Done, Base
  <2>3. Taken = Done - TxInputs
    BY <2>1 DEF Taken
  <2>4. Head(todo).arg = Done - TxInputs
    BY <2>1 DEF InputStep
  <2> HIDE DEF Taken
  <2> QED BY <1>2, <2>1, <2>2, <2>3, <2>4
<1> QED BY <1>2, <1>3, <1>4, <1>5

\* The results of a method with one more.
LEMMA OneMore ==
    ASSUME Types, IInv, NEW x \in Results, got' = Append(got, x), x.of = x.want,
           x.m \in {"tx_input", "get_signature"} => x.value = x.arg
    PROVE  /\ got' \in Seq(Results) /\ Len(got') = Len(got) + 1 /\ Len(got) \in Nat
           /\ got'[Len(got')] = x /\ \A i \in 1..Len(got) : got'[i] = got[i]
           /\ got' # <<>>
           /\ got'[1] = IF got = <<>> THEN x ELSE got[1]
           /\ ResultsFit'
<1>1. got \in Seq(Results)
  BY DEF Types
<1>2. /\ got' \in Seq(Results) /\ Len(got') = Len(got) + 1 /\ Len(got) \in Nat
      /\ got'[Len(got')] = x /\ \A i \in 1..Len(got) : got'[i] = got[i]
      /\ got' # <<>>
  BY <1>1
<1>3. got'[1] = IF got = <<>> THEN x ELSE got[1]
  <2>1. CASE got = <<>>
    BY <1>2, <2>1
  <2>2. CASE got # <<>>
    <3>1. 1 \in 1..Len(got)
      BY <1>1, <2>2
    <3> QED BY <1>2, <2>2, <3>1
  <2> QED BY <2>1, <2>2
<1>4. ResultsFit'
  <2> SUFFICES ASSUME NEW i \in 1..Len(got')
               PROVE  /\ got'[i].of = got'[i].want
                      /\ got'[i].m \in {"tx_input", "get_signature"} => got'[i].value = got'[i].arg
    BY DEF ResultsFit
  <2>1. i \in 1..Len(got) \/ i = Len(got')
    BY <1>2
  <2>2. CASE i \in 1..Len(got)
    BY <1>2, <2>2 DEF IInv, ResultsFit
  <2>3. CASE i = Len(got')
    BY <1>2, <2>3
  <2> QED BY <2>1, <2>2, <2>3
<1> QED BY <1>2, <1>3, <1>4

LEMMA OtherParts ==
    ASSUME Types, IInv, NEW x \in Results, got' = Append(got, x), x.of = x.want,
           x.m \in {"tx_input", "get_signature"} => x.value = x.arg,
           cmd # "none", cmd # "sign_psbt", x.m # "sign_psbt", cmd' = cmd, outcome' = outcome
    PROVE  Parts' /\ PsbtWhole'
<1>1. /\ Len(got') = Len(got) + 1 /\ Len(got) \in Nat
      /\ got'[Len(got')] = x /\ \A i \in 1..Len(got) : got'[i] = got[i]
      /\ got'[1] = IF got = <<>> THEN x ELSE got[1]
  BY OneMore
<1>2. Parts /\ outcome # "ok"
  BY DEF IInv, Running
<1>3. got'[1].m # "sign_psbt"
  BY <1>1, <1>2 DEF Parts
<1>4. ASSUME NEW i \in 1..Len(got'), got'[i].m = "sign_psbt" PROVE FALSE
  <2>1. i \in 1..Len(got) \/ i = Len(got')
    BY <1>1
  <2>2. CASE i \in 1..Len(got)
    <3>1. got[1].m = "sign_psbt" /\ got # <<>>
      BY <1>1, <1>2, <1>4, <2>2 DEF Parts
    <3> QED BY <1>2, <3>1 DEF Parts
  <2>3. CASE i = Len(got')
    BY <1>1, <1>4, <2>3
  <2> QED BY <2>1, <2>2, <2>3
<1> QED BY <1>2, <1>3, <1>4 DEF Parts, PsbtWhole

LEMMA PsbtParts ==
    ASSUME Types, IInv, NEW x \in Results, got' = Append(got, x), x.of = x.want,
           x.m \in {"tx_input", "get_signature"} => x.value = x.arg,
           cmd = "sign_psbt", x.m = "sign_psbt", cmd' = cmd, outcome' = outcome,
           x.part = Len(got) + 1, got # <<>> => x.last = got[1].last /\ x.value = got[1].value,
           todo' # <<>> => x.part < x.last, todo' = <<>> => x.part = x.last
    PROVE  /\ Parts' /\ PsbtWhole'
           /\ got'[1].m = "sign_psbt" /\ got'[1].last = x.last /\ got'[1].value = x.value
<1>1. /\ Len(got') = Len(got) + 1 /\ Len(got) \in Nat
      /\ got'[Len(got')] = x /\ \A i \in 1..Len(got) : got'[i] = got[i]
      /\ got'[1] = IF got = <<>> THEN x ELSE got[1]
  BY OneMore
<1>2. Parts /\ outcome # "ok"
  BY DEF IInv, Running
<1>3. got'[1].m = "sign_psbt" /\ got'[1].last = x.last /\ got'[1].value = x.value
  BY <1>1, <1>2 DEF Parts
<1>4. ASSUME NEW i \in 1..Len(got') PROVE got'[i].part = i /\ got'[i].value = got'[1].value
  <2>1. i \in 1..Len(got) \/ i = Len(got')
    BY <1>1
  <2>2. CASE i \in 1..Len(got)
    <3>1. got # <<>>
      BY <1>1, <2>2
    <3>2. got[1].m = "sign_psbt"
      BY <1>2, <3>1 DEF Parts
    <3>3. got[i].part = i /\ got[i].value = got[1].value
      BY <1>2, <2>2, <3>1, <3>2 DEF Parts
    <3> QED BY <1>1, <2>2, <3>1, <3>3
  <2>3. CASE i = Len(got')
    BY <1>1, <1>3, <2>3
  <2> QED BY <2>1, <2>2, <2>3
<1>5. Parts'
  BY <1>1, <1>3, <1>4 DEF Parts
<1>6. PsbtWhole'
  BY <1>2 DEF PsbtWhole
<1> QED BY <1>3, <1>5, <1>6

LEMMA ErrorEnds ==
    ASSUME NEW code
    PROVE  jade_exception(code) # "ok"
BY DEF jade_exception

LEMMA ResultTypes ==
    ASSUME NEW r \in Messages, wait \in Nat, Head(todo) \in Steps
    PROVE  /\ Result(r) \in Results
           /\ Result(r).want = wait /\ Result(r).of = r.of /\ Result(r).m = Head(todo).m
           /\ Result(r).arg = Head(todo).arg /\ Result(r).value = r.value
           /\ Result(r).part = r.part /\ Result(r).last = r.last
BY DEF Result, Results, Messages, Steps

\* The pin server's answer or the request for the next part is written.
GoesOn(r) ==
    /\ wait # 0 /\ up # <<>> /\ r = Head(up) /\ r.kind \in {"result", "http"} /\ up' = Tail(up)
    /\ validate_reply(r) /\ Continues(r)
    /\ got' = IF r.kind = "http" THEN got ELSE Append(got, Result(r))
    /\ GoOn(r)
    /\ UNCHANGED <<cmd, todo, posted, outcome>>
    /\ UNCHANGED <<open, dev, used>>

\* The request that goes on with a call.
Further(r) == IF r.kind = "http" THEN Step("rpc", "pin")
              ELSE [Step("parts", "get_extended_data") EXCEPT !.arg = r.part + 1]

LEMMA FurtherTypes ==
    ASSUME NEW r \in Messages
    PROVE  Further(r) \in Steps /\ Further(r).entropy = FALSE
<1>1. r.part + 1 \in Nat /\ "pin" \in CallNames /\ "get_extended_data" \in CallNames
  BY PlainAndSession DEF Messages
<1>2. Step("rpc", "pin") \in Steps /\ Step("rpc", "pin").entropy = FALSE
  BY <1>1, StepTypes
<1>3. /\ [Step("parts", "get_extended_data") EXCEPT !.arg = r.part + 1] \in Steps
      /\ [Step("parts", "get_extended_data") EXCEPT !.arg = r.part + 1].entropy = FALSE
  BY <1>1 DEF Step, Steps
<1> QED BY <1>2, <1>3, Zenon DEF Further

LEMMA GoesOnKeeps ==
    ASSUME Types, IInv, NEW r, GoesOn(r)
    PROVE  Types' /\ IInv'
<1> DEFINE s == Head(todo)
<1> PICK d : d = build_request(ids + 1, Further(r))
  OBVIOUS
<1>1. /\ wait # 0 /\ up # <<>> /\ r = Head(up) /\ r.kind \in {"result", "http"} /\ up' = Tail(up)
      /\ validate_reply(r) /\ Continues(r)
      /\ got' = IF r.kind = "http" THEN got ELSE Append(got, Result(r))
      /\ UNCHANGED <<cmd, todo, posted, outcome>>
      /\ UNCHANGED <<open, dev, used>>
  BY DEF GoesOn
<1>2. ids' = ids + 1 /\ wait' = ids + 1 /\ down' = Append(down, d)
  BY DEF GoesOn, GoOn, Further
<1>3. /\ r.of = wait /\ cmd # "none" /\ todo # <<>> /\ Running
      /\ ~Posts => wait = ids /\ down = <<>> /\ Fits(r)
      /\ Posts => r.kind = "result"
  BY <1>1, ReplyFits DEF IInv
<1>4. s \in Steps /\ Done \in Nat /\ ids \in Nat /\ ids + 1 \in Nat \ {0} /\ wait \in Nat
  BY <1>3, CurrentStep DEF Types
<1>5. ~Posts
  <2>1. ASSUME Posts PROVE s.op # "parts"
    BY <1>3, <2>1, StepFacts
  <2> QED BY <1>1, <1>3, <2>1 DEF Continues
<1>6. wait = ids /\ down = <<>> /\ Fits(r)
  BY <1>3, <1>5
<1>7. r \in Messages /\ up' \in Seq(Messages) /\ \A m \in Elements(up') : m \in Elements(up)
  BY <1>1, UpTail
<1>8. d \in Requests /\ d.id = ids + 1 /\ d.entropy = FALSE
  <2> PICK f : f = Further(r)
    OBVIOUS
  <2>1. f \in Steps /\ f.entropy = FALSE
    BY <1>7, FurtherTypes
  <2>2. d = build_request(ids + 1, f)
    OBVIOUS
  <2> QED BY <1>4, <2>1, <2>2, BuildsRequest
<1>9. /\ down' \in Seq(Requests) /\ Len(down') = Len(down) + 1 /\ Len(down) \in Nat
      /\ down' # <<>> /\ down'[Len(down')] = d
      /\ Ordered' /\ Entropy'
  BY <1>1, <1>2, <1>7, <1>8, Sent
<1>10. Len(down') = 1 /\ down'[1] = d
  BY <1>6, <1>9
<1>11. Done' = Done /\ (Posts' <=> Posts)
  BY <1>1, DoneFrame
<1>12. Running'
  <2>1. s.op # "post"
    BY <1>1, ReplyFits
  <2> QED BY <1>1, <1>3, <1>11, <2>1 DEF Running
<1>13. Posting'
  BY <1>1, <1>5, <1>11 DEF IInv, Posting
<1>14. \A k : Matches(k)' <=> Matches(k)
  BY <1>1, MatchesFrame
<1>15. CASE r.kind = "http"
  <2>1. s.m = "auth_user" /\ got' = got
    BY <1>1, <1>6, <1>15 DEF Fits
  <2>2. s.op # "parts" /\ Matches(Done)
    BY <1>3, <2>1, StepFacts
  <2>3. Pending'
    <3>1. Further(r) = Step("rpc", "pin")
      BY <1>15 DEF Further
    <3>2. d = build_request(d.id, Step("rpc", "pin"))
      BY <1>8, <3>1
    <3>3. Carries(d)'
      BY <1>1, <2>1, <3>2 DEF Carries
    <3>4. Matches(Done)'
      <4>1. Matches(Done)' <=> Matches(Done)
        BY <1>1, <1>11 DEF Matches, Sess
      <4> QED BY <2>2, <4>1
    <3>5. Head(todo').op # "parts"
      BY <1>1, <2>2
    <3> QED BY <1>2, <1>8, <1>9, <1>10, <3>3, <3>4, <3>5 DEF Pending
  <2>4. Synchronous'
    BY <1>2, <1>4, <2>3 DEF Synchronous
  <2>5. Types'
    BY <1>1, <1>2, <1>4, <1>7, <1>9, <2>1 DEF Types
  <2>6. ResultsFit' /\ Parts' /\ PsbtWhole'
    <3>1. ResultsFit /\ Parts /\ PsbtWhole
      BY DEF IInv
    <3> QED BY <1>1, <2>1, <3>1 DEF ResultsFit, Parts, PsbtWhole
  <2> QED BY <1>9, <1>12, <1>13, <2>4, <2>5, <2>6 DEF IInv
<1>16. CASE r.kind # "http"
  <2> PICK x : x = Result(r)
    OBVIOUS
  <2>1. s.op = "parts" /\ r.part # r.last /\ got' = Append(got, x)
    BY <1>1, <1>16 DEF Continues, LastPart
  <2>2. cmd = "sign_psbt" /\ s.m = "sign_psbt"
    BY <1>3, <2>1, StepFacts
  <2>3. /\ x \in Results /\ x.of = x.want /\ x.m = "sign_psbt" /\ x.part = r.part /\ x.last = r.last
        /\ x.value = r.value
    BY <1>3, <1>4, <1>7, <2>2, ResultTypes
  <2>4. /\ r.part = Len(got) + 1 /\ r.part <= r.last
        /\ got # <<>> => r.last = got[1].last /\ r.value = got[1].value
        /\ dev.works => PsbtSession(r.last, r.value)
    BY <1>6, <2>1 DEF Fits
  <2>5. x.part < x.last /\ x.m \notin {"tx_input", "get_signature"}
    <3>1. r.part \in Nat /\ r.last \in Nat
      BY <1>7 DEF Messages
    <3> QED BY <2>1, <2>3, <2>4, <3>1
  <2>6. todo' # <<>>
    BY <1>1, <1>3
  <2>7. /\ Parts' /\ PsbtWhole'
        /\ got'[1].m = "sign_psbt" /\ got'[1].last = x.last /\ got'[1].value = x.value
    BY <1>1, <2>1, <2>2, <2>3, <2>4, <2>5, <2>6, PsbtParts
  <2>8. got' \in Seq(Results) /\ Len(got') = Len(got) + 1 /\ got' # <<>> /\ ResultsFit'
    BY <2>1, <2>3, <2>5, OneMore
  <2>9. Done = 0
    BY <1>3, <2>2, Steps_Known DEF StepKnown
  <2>10. Pending'
    <3>1. Further(r) = [Step("parts", "get_extended_data") EXCEPT !.arg = r.part + 1]
      BY <1>16 DEF Further
    <3>2. r.part + 1 = Len(got') + 1
      BY <2>4, <2>8
    <3>3. d = build_request(d.id, [Step("parts", "get_extended_data") EXCEPT !.arg = Len(got') + 1])
      BY <1>8, <3>1, <3>2
    <3>4. Carries(d)'
      BY <1>1, <2>1, <2>8, <3>3 DEF Carries
    <3>5. ~(Done' > 0)
      BY <1>11, <2>9
    <3>6. (dev.works => PsbtSession(got[1].last, got[1].value))'
      <4>1. dev'.works = dev.works /\ Sess' = Sess
        BY <1>1 DEF Sess
      <4>2. dev.works => Sess.kind = "psbt" /\ Sess.n = got'[1].last /\ Sess.id = got'[1].value
        BY <2>3, <2>4, <2>7 DEF PsbtSession
      <4> QED BY <4>1, <4>2 DEF PsbtSession
    <3> QED BY <1>2, <1>8, <1>9, <1>10, <3>4, <3>5, <3>6 DEF Pending
  <2>11. Synchronous'
    BY <1>2, <1>4, <2>10 DEF Synchronous
  <2>12. Types'
    BY <1>1, <1>2, <1>4, <1>7, <1>9, <2>8 DEF Types
  <2> QED BY <1>9, <1>12, <1>13, <2>7, <2>8, <2>11, <2>12 DEF IInv
<1> QED BY <1>15, <1>16

\* The call is over.
Concludes(r) ==
    /\ wait # 0 /\ up # <<>> /\ r = Head(up) /\ r.kind = "result" /\ up' = Tail(up)
    /\ validate_reply(r) /\ ~Continues(r)
    /\ got' = Append(got, Result(r))
    /\ todo' = IF Head(todo).op = "until" /\ r.value = 0 THEN todo ELSE Tail(todo)
    /\ wait' = 0
    /\ UNCHANGED <<cmd, posted, outcome, down, ids>>
    /\ UNCHANGED <<open, dev, used>>

\* What a reply that is read leaves alone.
LEMMA LessUpOrdered ==
    ASSUME Types, IInv, UNCHANGED <<down, dev, ids>>, \A m \in Elements(up') : m \in Elements(up)
    PROVE  Ordered' /\ Entropy'
<1>1. Ordered /\ Entropy
  BY DEF IInv
<1>2. Sess' = Sess
  BY DEF Sess
<1>3. Ordered'
  BY <1>1, <1>2 DEF Ordered
<1>4. Entropy'
  BY <1>1, <1>2 DEF Entropy
<1> QED BY <1>3, <1>4

LEMMA ConcludesKeeps ==
    ASSUME Types, IInv, NEW r, Concludes(r)
    PROVE  Types' /\ IInv'
<1> DEFINE s == Head(todo)
<1> PICK x : x = Result(r)
  OBVIOUS
<1>1. /\ wait # 0 /\ up # <<>> /\ r = Head(up) /\ r.kind = "result" /\ up' = Tail(up)
      /\ validate_reply(r) /\ ~Continues(r)
      /\ got' = Append(got, x)
      /\ wait' = 0
      /\ UNCHANGED <<cmd, posted, outcome, down, ids>>
      /\ UNCHANGED <<open, dev, used>>
  BY DEF Concludes
<1>2. todo' = IF s.op = "until" /\ r.value = 0 THEN todo ELSE Tail(todo)
  BY DEF Concludes
<1>3. /\ r.of = wait /\ cmd # "none" /\ todo # <<>> /\ s.op # "post" /\ Running
      /\ ~Posts => wait = ids /\ down = <<>> /\ Fits(r)
      /\ Posts => r.value = s.arg /\ Done > TxInputs
  BY <1>1, ReplyFits DEF IInv
<1>4. s \in Steps /\ Done \in Nat /\ ids \in Nat /\ wait \in Nat
  BY <1>3, CurrentStep DEF Types
<1>5. r \in Messages /\ up' \in Seq(Messages) /\ \A m \in Elements(up') : m \in Elements(up)
  BY <1>1, UpTail
<1>6. /\ x \in Results /\ x.of = x.want /\ x.m = s.m /\ x.part = r.part /\ x.last = r.last
      /\ x.value = r.value /\ x.arg = s.arg
  BY <1>3, <1>4, <1>5, ResultTypes
<1>7. x.m \in {"tx_input", "get_signature"} => x.value = x.arg
  BY <1>3, <1>6 DEF Fits
<1>8. got' \in Seq(Results) /\ Len(got') = Len(got) + 1 /\ got' # <<>> /\ ResultsFit'
  BY <1>1, <1>6, <1>7, OneMore
<1>9. Ordered' /\ Entropy'
  BY <1>1, <1>5, LessUpOrdered
<1>10. \A k : Matches(k)' <=> Matches(k)
  BY <1>1, MatchesFrame
<1>11. CASE s.op = "until" /\ r.value = 0
  <2>1. todo' = todo
    BY <1>2, <1>11
  <2>2. Done' = Done /\ (Posts' <=> Posts)
    BY <1>1, <2>1, DoneFrame
  <2>3. ~Posts /\ cmd # "sign_psbt" /\ s.m # "sign_psbt" /\ Matches(Done) /\ s.op # "parts"
    BY <1>3, <1>11, StepFacts
  <2>4. Types'
    BY <1>1, <1>5, <1>8, <2>1 DEF Types
  <2>5. Running'
    BY <1>1, <1>3, <2>1, <2>2 DEF Running
  <2>6. Synchronous'
    <3>1. Matches(Done)'
      <4>1. Matches(Done)' <=> Matches(Done)
        BY <1>1, <2>2 DEF Matches, Sess
      <4> QED BY <2>3, <4>1
    <3>2. down' = <<>> /\ Head(todo').op # "parts"
      BY <1>1, <1>3, <2>1, <2>3
    <3> QED BY <1>1, <3>1, <3>2 DEF Synchronous
  <2>7. Posting'
    BY <1>1, <2>2, <2>3 DEF IInv, Posting
  <2>8. Parts' /\ PsbtWhole'
    BY <1>1, <1>3, <1>6, <1>7, <2>3, OtherParts
  <2> QED BY <1>8, <1>9, <2>4, <2>5, <2>6, <2>7, <2>8 DEF IInv
<1>12. CASE ~(s.op = "until" /\ r.value = 0)
  <2>1. todo' = Tail(todo)
    BY <1>2, <1>12
  <2>2. /\ todo' \in Seq(Steps) /\ Done' = Done + 1
        /\ \A j \in 1..Len(todo') : todo'[j] = Program(cmd')[Done' + j]
    BY <1>1, <1>3, <2>1, Advance
  <2>3. Types'
    BY <1>1, <1>5, <1>8, <2>2 DEF Types
  <2>4. Running'
    <3>1. Done' \in Nat
      BY <1>4, <2>2
    <3> QED BY <1>1, <1>3, <2>2, <3>1 DEF Running
  <2>5. cmd = "sign_psbt" => todo' = <<>>
    <3> SUFFICES ASSUME cmd = "sign_psbt" PROVE todo' = <<>>
      OBVIOUS
    <3>1. Len(Program(cmd)) = 1
      BY SessionPrograms DEF PsbtProgram
    <3>2. Done + Len(todo) = 1 /\ Len(todo) > 0 /\ Len(todo) \in Nat
      BY <1>3, <3>1, CurrentStep
    <3>3. Len(todo) = 1
      <4>1. \A a, b \in Nat : a + b = 1 /\ b > 0 => b = 1
        OBVIOUS
      <4> QED BY <1>4, <3>2, <4>1
    <3>4. todo \in Seq(Steps)
      BY DEF Types
    <3> QED BY <2>1, <3>3, <3>4
  <2>6. ASSUME todo' # <<>> PROVE Head(todo').op # "parts"
    <3>1. Head(todo') = todo'[1] /\ 1 \in 1..Len(todo')
      BY <2>2, <2>6
    <3>2. todo'[1] = Program(cmd)[Done + 2]
      <4>1. todo'[1] = Program(cmd')[Done' + 1]
        BY <2>2, <3>1
      <4>2. Done' + 1 = Done + 2
        BY <1>4, <2>2
      <4> QED BY <1>1, <4>1, <4>2
    <3>3. Done + 2 \in 1..Len(Program(cmd)) /\ cmd \in Commands
      <4>1. /\ Done + Len(todo) = Len(Program(cmd)) /\ Len(todo) \in Nat /\ cmd \in Commands
            /\ Len(Program(cmd)) \in Nat
        BY <1>3, CurrentStep
      <4>2. todo \in Seq(Steps)
        BY DEF Types
      <4>3. Len(Tail(todo)) = Len(todo) - 1
        BY <1>3, <4>2
      <4>4. Len(todo) >= 2
        BY <2>1, <3>1, <4>1, <4>3
      <4> QED BY <1>4, <4>1, <4>4
    <3>4. ASSUME Head(todo').op = "parts" PROVE cmd = "sign_psbt"
      BY <3>1, <3>2, <3>3, <3>4, PartsOnly
    <3> QED BY <2>5, <2>6, <3>4
  <2>7. Parts' /\ PsbtWhole'
    <3>1. CASE cmd = "sign_psbt"
      <4>1. s.m = "sign_psbt" /\ s.op = "parts" /\ ~Posts
        BY <1>3, <3>1, StepFacts DEF Posts
      <4>2. r.part = r.last
        BY <1>1, <4>1 DEF Continues, LastPart
      <4>3. /\ r.part = Len(got) + 1
            /\ got # <<>> => r.last = got[1].last /\ r.value = got[1].value
        BY <1>3, <4>1 DEF Fits
      <4>4. /\ x.m = "sign_psbt" /\ x.part = Len(got) + 1 /\ x.part = x.last
            /\ got # <<>> => x.last = got[1].last /\ x.value = got[1].value
        BY <1>6, <4>1, <4>2, <4>3
      <4> QED BY <1>1, <1>6, <1>7, <2>5, <3>1, <4>4, PsbtParts
    <3>2. CASE cmd # "sign_psbt"
      <4>1. s.m # "sign_psbt"
        BY <1>3, <3>2, StepFacts
      <4> QED BY <1>1, <1>3, <1>6, <1>7, <3>2, <4>1, OtherParts
    <3> QED BY <3>1, <3>2
  <2>8. ASSUME ~Posts' PROVE Synchronous' /\ Posting'
    <3>1. ~Posts
      BY <1>1, <1>4, <2>2, <2>8 DEF Posts
    <3>2. down = <<>> /\ (dev.works => Matches(Done + 1))
      BY <1>1, <1>3, <3>1 DEF Fits
    <3>3. (dev.works => Matches(Done))'
      <4>1. Matches(Done)' <=> Matches(Done + 1)
        BY <1>1, <2>2 DEF Matches, Sess
      <4> QED BY <1>1, <3>2, <4>1
    <3>4. Synchronous'
      BY <1>1, <2>6, <3>2, <3>3 DEF Synchronous
    <3>5. Posting'
      BY <1>1, <2>8, <3>1 DEF IInv, Posting
    <3> QED BY <3>4, <3>5
  <2>9. ASSUME Posts' PROVE Synchronous' /\ Posting'
    <3>1. Synchronous' /\ cmd = "sign_tx"
      BY <1>1, <2>9 DEF Synchronous, Posts
    <3>2. TxInputs \in Nat \ {0} /\ posted \in Seq(Nat)
      BY JadeRpcAssumption DEF Types
    <3>3. Sess' = Sess
      BY <1>1 DEF Sess
    <3>4. CASE ~Posts
      <4>1. Done = 0 /\ Done' = 1
        <5>1. ~(Done > 0)
          BY <3>1, <3>4 DEF Posts
        <5> HIDE DEF Done
        <5> QED BY <1>4, <2>2, <5>1
      <4>2. Written' = 0 /\ Taken' = 0
        BY <1>1, <3>2, <4>1 DEF Written, Taken
      <4>3. Base' = ids
        <5>1. Base' = ids' - Written'
          BY DEF Base
        <5> QED BY <1>1, <1>4, <4>2, <5>1
      <4>4. posted' = <<>> /\ down' = <<>> /\ wait' = 0
        BY <1>1, <1>3, <3>4 DEF IInv, Posting
      <4>5. ASSUME dev'.works
            PROVE  Sess'.kind = "tx" /\ Sess'.ae = FALSE /\ Sess'.n = TxInputs /\ Len(Sess'.in) = 0
        <5>1. Matches(Done + 1)
          BY <1>1, <1>3, <3>4, <4>5 DEF Fits
        <5>2. Done + 1 = 1
          BY <4>1
        <5> HIDE DEF Done
        <5> QED BY <3>1, <3>3, <5>1, <5>2 DEF Matches
      <4>6. ASSUME NEW m \in Elements(up') PROVE ~(m.of > Base')
        <5>1. m \in Elements(up) /\ m \in Messages
          BY <1>5, ElementsMember
        <5>2. m.of <= ids /\ m.of \in Nat
          BY <5>1 DEF IInv, Ordered, Messages
        <5> QED BY <1>4, <4>3, <5>2
      <4>7. Len(posted') = 0 /\ Len(down') = 0 /\ Base' \in Nat
        BY <1>4, <4>3, <4>4
      <4> HIDE DEF Written, Taken, Base
      <4>8. /\ Len(down') <= Written' /\ 0 = Written' - Len(down') /\ Len(posted') = Written' - Taken'
            /\ 1..Len(down') = {} /\ 1..Len(posted') = {} /\ 1..0 = {}
        BY <4>2, <4>7
      <4>9. Posting'
        BY <2>9, <4>4, <4>5, <4>6, <4>7, <4>8 DEF Posting
      <4> QED BY <3>1, <4>9
    <3>5. CASE Posts
      <4>1. Done > TxInputs
        BY <1>3, <3>5
      <4>2. Written' = Written /\ Taken' = Taken
        <5>1. /\ Written = IF Done - 1 <= TxInputs THEN Done - 1 ELSE TxInputs
              /\ Written' = IF Done' - 1 <= TxInputs THEN Done' - 1 ELSE TxInputs
          BY DEF Written
        <5>2. /\ Taken = (IF Done - 1 <= TxInputs THEN 0 ELSE Done - 1 - TxInputs) + 1
              /\ Taken' = (IF Done' - 1 <= TxInputs THEN 0 ELSE Done' - 1 - TxInputs) + 0
          BY <1>1 DEF Taken
        <5> HIDE DEF Done
        <5> QED BY <1>4, <2>2, <3>2, <4>1, <5>1, <5>2
      <4>3. Base' = Base
        BY <1>1, <4>2 DEF Base
      <4>4. Posting
        BY DEF IInv
      <4> HIDE DEF Written, Taken, Base
      <4>5. Posting'
        BY <1>1, <1>5, <2>9, <3>3, <3>5, <4>2, <4>3, <4>4 DEF Posting
      <4> QED BY <3>1, <4>5
    <3> QED BY <3>4, <3>5
  <2> QED BY <1>8, <1>9, <2>3, <2>4, <2>7, <2>8, <2>9 DEF IInv
<1> QED BY <1>11, <1>12

LEMMA Reads ==
    ASSUME Types, IInv, ReadReply
    PROVE  Types' /\ IInv'
<1> DEFINE r == Head(up)
<1>1. /\ wait # 0 /\ up # <<>> /\ r.kind \in {"result", "http", "error"} /\ up' = Tail(up)
      /\ UNCHANGED <<open, dev, used>>
  BY DEF ReadReply
<1>2. up' \in Seq(Messages) /\ \A m \in Elements(up') : m \in Elements(up)
  BY <1>1, UpTail
<1>3. \/ \E how : how # "ok" /\ End(how) /\ UNCHANGED <<got, down, ids>>
      \/ GoesOn(r)
      \/ Concludes(r)
  <2>1. jade_exception(r.code) # "ok"
    BY ErrorEnds
  <2>2. CASE ~validate_reply(r) /\ End("assertion") /\ UNCHANGED <<got, down, ids>>
    BY <2>2
  <2>3. CASE End(jade_exception(r.code)) /\ UNCHANGED <<got, down, ids>>
    BY <2>1, <2>3
  <2>4. CASE /\ validate_reply(r) /\ r.kind # "error" /\ Continues(r)
             /\ got' = IF r.kind = "http" THEN got ELSE Append(got, Result(r))
             /\ GoOn(r)
             /\ UNCHANGED <<cmd, todo, posted, outcome>>
    BY <1>1, <2>4 DEF GoesOn
  <2>5. CASE End("raw") /\ UNCHANGED <<got, down, ids>>
    BY <2>5
  <2>6. CASE /\ validate_reply(r) /\ r.kind = "result" /\ ~Continues(r)
             /\ got' = Append(got, Result(r))
             /\ todo' = IF Head(todo).op = "until" /\ r.value = 0 THEN todo ELSE Tail(todo)
             /\ wait' = 0
             /\ UNCHANGED <<cmd, posted, outcome, down, ids>>
    BY <1>1, <2>6 DEF Concludes
  <2> QED BY <2>2, <2>3, <2>4, <2>5, <2>6 DEF ReadReply
<1>4. CASE \E how : how # "ok" /\ End(how) /\ UNCHANGED <<got, down, ids>>
  <2> PICK how : how # "ok" /\ End(how) /\ UNCHANGED <<got, down, ids>>
    BY <1>4
  <2> QED BY <1>1, <1>2, Ended
<1>5. CASE GoesOn(r)
  BY <1>5, GoesOnKeeps
<1>6. CASE Concludes(r)
  BY <1>6, ConcludesKeeps
<1> QED BY <1>3, <1>4, <1>5, <1>6

----------------------------------------------------------------------------
(* The device                                                              *)

\* The device takes the first request.
Serves(d) ==
    /\ dev.works /\ down # <<>> /\ d = Head(down) /\ down' = Tail(down)
    /\ UNCHANGED <<open, cmd, todo, wait, posted, got, outcome, ids>>

\* It is the one whose answer is awaited.
Current(d) ==
    /\ cmd # "none" /\ ~Posts /\ wait # 0 /\ todo # <<>>
    /\ Carries(d)
    /\ Done > 0 => Matches(Done)
    /\ Head(todo).op = "parts" /\ got # <<>> => PsbtSession(got[1].last, got[1].value)

\* It is answered, or one before it is, and the answer fits.
Replied(d, ss, rs) ==
    /\ ss \in Session /\ rs \in Seq(Messages)
    /\ dev' = [dev EXCEPT !.session = ss] /\ up' = up \o rs
    /\ \A m \in Elements(rs) : /\ m.of = d.id \/ \E x \in Elements(Sess.in) : m.of = x.id
                               /\ m.kind \in {"result", "http"} => m.id = m.of
    /\ \A x \in Elements(ss.in) : x \in Elements(Sess.in) \/ x = d

Handles(d) ==
    \E ss, rs : /\ Replied(d, ss, rs)
                /\ Current(d) => \A m \in Elements(rs) : m.kind \in {"result", "http"} => Fits(m)'

LEMMA ReplyTypes ==
    ASSUME NEW d \in Requests, NEW kind \in {"result", "http", "error"}, NEW v \in Nat
    PROVE  LET m == Reply(d, kind, v) IN
           /\ m \in Messages /\ m.kind = kind /\ m.id = d.id /\ m.of = d.id /\ m.value = v
           /\ m.part = 0 /\ m.last = 0
BY DEF Reply, Requests, Messages

LEMMA NoSessionType ==
    /\ NoSession \in Session /\ Elements(NoSession.in) = {} /\ NoSession.kind = "none"
    /\ NoSession.n = 0 /\ NoSession.in = <<>> /\ Len(NoSession.in) = 0 /\ NoSession.sigs = 0
    /\ NoSession.id = 0
<1>1. /\ NoSession.kind = "none" /\ NoSession.n = 0 /\ NoSession.in = <<>> /\ NoSession.sigs = 0
      /\ NoSession.id = 0
  BY DEF NoSession
<1>2. NoSession \in Session
  BY DEF NoSession, Session
<1>3. Len(NoSession.in) = 0 /\ Elements(NoSession.in) = {}
  BY <1>1 DEF Elements
<1> QED BY <1>1, <1>2, <1>3

\* An answer of one message.
LEMMA HandlesOne ==
    ASSUME NEW d \in Requests, NEW ss \in Session, NEW m \in Messages,
           dev' = [dev EXCEPT !.session = ss], up' = up \o <<m>>, m.of = d.id,
           m.kind \in {"result", "http"} => m.id = m.of,
           \A x \in Elements(ss.in) : x \in Elements(Sess.in) \/ x = d,
           Current(d) /\ m.kind \in {"result", "http"} => Fits(m)'
    PROVE  Handles(d)
<1> DEFINE rs == <<m>>
<1>1. rs \in Seq(Messages) /\ Elements(rs) = {m}
  BY DEF Elements
<1>2. up' = up \o rs
  OBVIOUS
<1> HIDE DEF rs
<1>3. Replied(d, ss, rs)
  BY <1>1, <1>2 DEF Replied
<1> QED BY <1>1, <1>3 DEF Handles

LEMMA CarriesStep ==
    ASSUME Types, Running, cmd # "none", todo # <<>>, NEW d \in Requests, Carries(d)
    PROVE  LET s == Head(todo) IN
           /\ d.m \notin {"pin", "get_extended_data"} =>
                 /\ d.m = s.m /\ d.arg = s.arg /\ (d.ae = s.ae)
                 /\ s.op = "parts" => got = <<>>
           /\ d.m = "pin" => s.m = "auth_user"
           /\ d.m = "get_extended_data" => s.op = "parts" /\ got # <<>> /\ d.arg = Len(got) + 1
<1> DEFINE s == Head(todo)
<1>1. s \in Steps /\ d.id \in Nat \ {0} /\ Len(got) + 1 \in Nat
  BY CurrentStep DEF Requests, Types
<1>2. s.m # "get_extended_data" /\ s.m # "pin"
  BY StepFacts
<1>3. CASE d = build_request(d.id, s) /\ (s.op = "parts" => got = <<>>)
  <2>1. d.m = s.m /\ d.arg = s.arg /\ d.ae = s.ae
    BY <1>1, <1>3, BuildsRequest
  <2> QED BY <1>2, <1>3, <2>1
<1>4. CASE s.m = "auth_user" /\ d = build_request(d.id, Step("rpc", "pin"))
  <2>1. Step("rpc", "pin").m = "pin"
    BY DEF Step
  <2>2. d.m = "pin"
    BY <1>4, <2>1 DEF build_request
  <2> QED BY <1>4, <2>2
<1>5. CASE /\ s.op = "parts" /\ got # <<>>
           /\ d = build_request(d.id, [Step("parts", "get_extended_data") EXCEPT !.arg = Len(got) + 1])
  <2> PICK f : f = [Step("parts", "get_extended_data") EXCEPT !.arg = Len(got) + 1]
    OBVIOUS
  <2>1. f.m = "get_extended_data" /\ f.arg = Len(got) + 1
    BY DEF Step
  <2>2. d.m = "get_extended_data" /\ d.arg = Len(got) + 1
    BY <1>5, <2>1 DEF build_request
  <2> QED BY <1>5, <2>2
<1> QED BY <1>3, <1>4, <1>5 DEF Carries

\* An answer fits a step that takes no parts.
LEMMA FitsNow ==
    ASSUME UNCHANGED <<cmd, todo, got>>, NEW m, Head(todo).op # "parts",
           m.kind = "http" => Head(todo).m = "auth_user",
           Head(todo).m \in {"tx_input", "get_signature"} => m.value = Head(todo).arg,
           m.kind = "result" => Matches(Done + 1)'
    PROVE  Fits(m)'
BY DEF Fits

\* The session ss is where k exchanges of the method put it.
AeIn(ss, i, n) ==
    /\ ss.kind = "tx" /\ ss.ae = TRUE /\ ss.n = n
    /\ Len(ss.in) = IF i < n THEN i ELSE n
    /\ ss.sigs = IF i < n THEN 0 ELSE i - n
MessageIn(ss) ==
    ss.kind = "message" /\ ss.ae = TRUE /\ ss.n = 0 /\ Len(ss.in) = 0 /\ ss.sigs = 0
PlainIn(ss) ==
    ss.kind = "tx" /\ ss.ae = FALSE /\ ss.n = TxInputs /\ Len(ss.in) = 0
MatchesIn(ss, k) ==
    /\ cmd \in AeTransactions /\ k > Before(cmd) /\ k - Before(cmd) - 1 < 2 * Inputs(cmd) =>
          AeIn(ss, k - Before(cmd) - 1, Inputs(cmd))
    /\ cmd = "sign_message_ae" /\ k = 1 => MessageIn(ss)
    /\ cmd = "sign_tx" /\ k = 1 => PlainIn(ss)

LEMMA MatchesNow ==
    ASSUME UNCHANGED <<cmd, todo>>, NEW ss, Sess' = ss, MatchesIn(ss, Done + 1)
    PROVE  Matches(Done + 1)'
<1> PICK k : k = Done + 1
  OBVIOUS
<1>1. k = Done' + 1
  BY DoneFrame
<1>2. Matches(k)'
  BY DEF Matches, MatchesIn, AeIn, MessageIn, PlainIn
<1> QED BY <1>1, <1>2

\* Sessions that differ in one field.
LEMMA SessionExcept ==
    ASSUME NEW z \in Session
    PROVE  /\ \A a \in {"none", "tx", "message", "psbt"} : [z EXCEPT !.kind = a] \in Session
           /\ \A a \in Nat : /\ [z EXCEPT !.n = a] \in Session
                            /\ [z EXCEPT !.sigs = a] \in Session
                            /\ [z EXCEPT !.id = a] \in Session
           /\ \A a \in BOOLEAN : [z EXCEPT !.ae = a] \in Session
           /\ \A a \in Seq(Requests) : [z EXCEPT !.in = a] \in Session
<1>1. \A a \in {"none", "tx", "message", "psbt"} : [z EXCEPT !.kind = a] \in Session
  BY DEF Session
<1>2. \A a \in Nat : [z EXCEPT !.n = a] \in Session
  BY DEF Session
<1>3. \A a \in Nat : [z EXCEPT !.sigs = a] \in Session
  BY DEF Session
<1>4. \A a \in Nat : [z EXCEPT !.id = a] \in Session
  BY DEF Session
<1>5. \A a \in BOOLEAN : [z EXCEPT !.ae = a] \in Session
  BY DEF Session
<1>6. \A a \in Seq(Requests) : [z EXCEPT !.in = a] \in Session
  BY DEF Session
<1> QED BY <1>1, <1>2, <1>3, <1>4, <1>5, <1>6

\* A new transaction is where its first call puts it.
LEMMA StartsHandles ==
    ASSUME Types, Running, NEW d \in Requests, Serves(d), Starts(d)
    PROVE  Handles(d)
<1> DEFINE s == Head(todo)
<1> PICK ss : ss = [NoSession EXCEPT !.kind = "tx", !.n = d.arg, !.ae = d.ae]
  OBVIOUS
<1> PICK m : m = Reply(d, "result", 1)
  OBVIOUS
<1>1. /\ d.m \in {"sign_tx", "sign_liquid_tx"} /\ d.arg = TxInputs
      /\ dev' = [dev EXCEPT !.session = ss] /\ up' = up \o <<m>>
  BY DEF Starts, Answers
<1>2. m \in Messages /\ m.kind = "result" /\ m.id = d.id /\ m.of = d.id
  BY ReplyTypes
<1>3. /\ ss \in Session /\ ss.kind = "tx" /\ ss.n = TxInputs /\ ss.in = <<>> /\ ss.sigs = 0
  <2>1. ss.kind = "tx" /\ ss.n = TxInputs /\ ss.in = <<>> /\ ss.sigs = 0
    BY <1>1 DEF NoSession
  <2>2. d.arg \in Nat /\ d.ae \in BOOLEAN
    BY DEF Requests
  <2>3. ss \in Session
    <3> PICK a \in BOOLEAN : a = d.ae
      BY <2>2
    <3> DEFINE s1 == [NoSession EXCEPT !.kind = "tx"]
               s2 == [s1 EXCEPT !.n = d.arg]
               s3 == [s2 EXCEPT !.ae = a]
    <3>1. s1 \in Session
      BY NoSessionType, SessionExcept
    <3> HIDE DEF s1
    <3>2. s2 \in Session
      BY <2>2, <3>1, SessionExcept
    <3> HIDE DEF s2
    <3>3. s3 \in Session
      BY <3>2, SessionExcept
    <3>4. ss = s3
      BY DEF s1, s2
    <3> QED BY <3>3, <3>4
  <2> QED BY <2>1, <2>3
<1>4. ss.ae = d.ae
  BY DEF NoSession
<1>5. Elements(ss.in) = {} /\ Len(ss.in) = 0
  BY <1>3 DEF Elements
<1>6. Sess' = ss
  BY <1>1 DEF Sess, Types
<1>7. UNCHANGED <<cmd, todo, got>>
  BY DEF Serves
<1>8. ASSUME Current(d) PROVE Fits(m)'
  <2>1. cmd # "none" /\ todo # <<>> /\ Carries(d) /\ ~Posts
    BY <1>8 DEF Current
  <2>2. d.m = s.m /\ d.arg = s.arg /\ (d.ae = s.ae)
    BY <1>1, <2>1, CarriesStep
  <2>3. s.op # "parts" /\ s.m \notin {"tx_input", "get_signature"}
    BY <1>1, <2>1, <2>2, StepFacts
  <2>4. Done' = Done /\ Done \in Nat /\ StepKnown(s, Done)
    BY <1>7, <2>1, DoneFrame, CurrentStep, Steps_Known
  <2>5. TxInputs \in Nat \ {0} /\ \A c \in AeTransactions : Before(c) \in Nat /\ Inputs(c) \in Nat
    BY JadeRpcAssumption, SessionPrograms
  <2>6. cmd = "sign_tx" => Sess'.ae = FALSE
    <3>1. cmd = "sign_tx" => Done = 0
      BY <2>1, <2>4 DEF Posts
    <3>2. cmd = "sign_tx" => PlainOpening(s, TxInputs)
      BY <2>4, <3>1 DEF StepKnown
    <3>3. cmd = "sign_tx" => s.ae = FALSE
      BY <3>2, Zenon DEF PlainOpening
    <3> QED BY <1>4, <1>6, <2>2, <3>3
  <2>7. cmd \in AeTransactions => Done = Before(cmd) /\ AeOpening(s, Inputs(cmd))
    <3> DEFINE k == Done
               o == Before(cmd)
               n == Inputs(cmd)
    <3> SUFFICES ASSUME cmd \in AeTransactions PROVE k = o /\ AeOpening(s, n)
      OBVIOUS
    <3>1. /\ k < o => PlainStep(s)
          /\ k = o => AeOpening(s, n)
          /\ k > o /\ k - o <= n => InputStep(s, "rpc", k - o) /\ s.entropy = FALSE
          /\ k - o > n => SignatureStep(s, k - o - n)
      BY <2>4 DEF StepKnown
    <3>2. ~PlainStep(s)
      BY <1>1, <2>2 DEF PlainStep, PlainCalls
    <3>3. ~InputStep(s, "rpc", k - o) /\ ~SignatureStep(s, k - o - n)
      BY <1>1, <2>2 DEF InputStep, SignatureStep
    <3>4. k \in Nat /\ o \in Nat /\ n \in Nat
      BY <2>4, <2>5
    <3> HIDE DEF k, o, n
    <3>5. k < o \/ k = o \/ (k > o /\ k - o <= n) \/ k - o > n
      BY <3>4
    <3> QED BY <3>1, <3>2, <3>3, <3>5
  <2>8. cmd \in AeTransactions => Sess'.ae = TRUE /\ Inputs(cmd) = TxInputs
    <3>1. cmd \in AeTransactions => s.ae = TRUE
      BY <2>7, Zenon DEF AeOpening
    <3>2. cmd \in AeTransactions => s.arg = Inputs(cmd)
      BY <2>7 DEF AeOpening
    <3> QED BY <1>1, <1>4, <1>6, <2>2, <3>1, <3>2
  <2>9. cmd # "sign_message_ae"
    <3>1. cmd = "sign_message_ae" => s.m \in {"sign_message", "get_signature"}
      <4>1. Done = 0 \/ Done > 0
        BY <2>4
      <4> QED BY <2>4, <4>1 DEF StepKnown
    <3> QED BY <1>1, <2>2, <3>1
  <2>10. Matches(Done + 1)'
    <3>1. ss.kind = "tx" /\ ss.n = TxInputs /\ Len(ss.in) = 0 /\ ss.sigs = 0
      BY <1>3, <1>5
    <3>2. cmd \in AeTransactions => ss.ae = TRUE
      BY <1>6, <2>8
    <3>3. cmd = "sign_tx" => ss.ae = FALSE
      BY <1>6, <2>6
    <3>4. cmd \in AeTransactions => Done + 1 - Before(cmd) - 1 = 0 /\ 0 < Inputs(cmd) /\ Inputs(cmd) = TxInputs
      BY <2>4, <2>5, <2>7, <2>8
    <3>5. MatchesIn(ss, Done + 1)
      <4> PICK k : k = Done + 1
        OBVIOUS
      <4>1. ASSUME cmd \in AeTransactions PROVE AeIn(ss, k - Before(cmd) - 1, Inputs(cmd))
        <5>1. k - Before(cmd) - 1 = 0 /\ 0 < Inputs(cmd) /\ Inputs(cmd) = TxInputs
          BY <2>4, <2>5, <2>7, <2>8, <4>1
        <5>2. AeIn(ss, 0, TxInputs)
          BY <3>1, <3>2, <4>1, <5>1 DEF AeIn
        <5> QED BY <5>1, <5>2
      <4>2. cmd = "sign_tx" => PlainIn(ss)
        BY <3>1, <3>3 DEF PlainIn
      <4>3. MatchesIn(ss, k)
        BY <2>9, <4>1, <4>2, Zenon DEF MatchesIn
      <4> QED BY <4>3
    <3> QED BY <1>6, <1>7, <3>5, MatchesNow
  <2> QED BY <1>2, <1>7, <2>3, <2>10, FitsNow
<1> QED BY <1>1, <1>2, <1>3, <1>5, <1>8, HandlesOne

\* The session of a method of several inputs is all that counts for it.
LEMMA AeOnly ==
    ASSUME cmd \in AeTransactions, NEW ss, NEW k, AeIn(ss, k - Before(cmd) - 1, Inputs(cmd))
    PROVE  MatchesIn(ss, k)
<1>1. cmd # "sign_message_ae" /\ cmd # "sign_tx"
  BY DEF AeTransactions
<1> QED BY <1>1, Zenon DEF MatchesIn

LEMMA AeInIntro ==
    ASSUME NEW ss, NEW i, NEW n, ss.kind = "tx" /\ ss.n = n, ss.ae = TRUE,
           /\ Len(ss.in) = IF i < n THEN i ELSE n
           /\ ss.sigs = IF i < n THEN 0 ELSE i - n
    PROVE  AeIn(ss, i, n)
BY DEF AeIn

\* The calls about an input, one at a time.
LEMMA InputPlace ==
    ASSUME Types, Running, cmd # "none", todo # <<>>, ~Posts, Head(todo).m = "tx_input"
    PROVE  /\ cmd \in AeTransactions /\ Done > Before(cmd) /\ Done - Before(cmd) <= Inputs(cmd)
           /\ Head(todo).arg = Done - Before(cmd)
<1> DEFINE s == Head(todo)
           k == Done
           o == Before(cmd)
           n == Inputs(cmd)
<1>1. StepKnown(s, k) /\ k \in Nat
  BY Steps_Known, CurrentStep
<1>2. ~PlainStep(s)
  BY DEF PlainStep, PlainCalls
<1>3. cmd \in AeTransactions
  <2>1. cmd \in Sessions
    BY <1>1, <1>2 DEF StepKnown
  <2>2. cmd # "sign_psbt"
    BY <1>1 DEF StepKnown
  <2>3. cmd # "sign_message_ae"
    <3>1. k = 0 \/ k > 0
      BY <1>1
    <3> QED BY <1>1, <3>1 DEF StepKnown
  <2>4. cmd # "sign_tx"
    <3>1. cmd = "sign_tx" => k = 0
      BY <1>1 DEF Posts
    <3>2. cmd = "sign_tx" => PlainOpening(s, TxInputs)
      BY <1>1, <3>1 DEF StepKnown
    <3> QED BY <3>2 DEF PlainOpening
  <2> QED BY <2>1, <2>2, <2>3, <2>4 DEF Sessions
<1>4. o \in Nat /\ n \in Nat
  BY <1>3, SessionPrograms
<1>5. /\ ~(k < o)
      /\ k = o => AeOpening(s, n)
      /\ k > o /\ k - o <= n => InputStep(s, "rpc", k - o)
      /\ k - o > n => SignatureStep(s, k - o - n)
  BY <1>1, <1>2, <1>3 DEF StepKnown
<1>6. k # o
  BY <1>5 DEF AeOpening
<1>7. ~(k - o > n)
  BY <1>5 DEF SignatureStep
<1>8. k > o /\ k - o <= n
  <2> HIDE DEF k, o, n
  <2> QED BY <1>1, <1>4, <1>5, <1>6, <1>7
<1>9. s.arg = k - o
  BY <1>5, <1>8 DEF InputStep
<1> QED BY <1>3, <1>8, <1>9

\* An input is taken: with anti-exfil one at a time.
LEMMA TakesHandles ==
    ASSUME Types, Running, NEW d \in Requests, Serves(d), TakesInput(d)
    PROVE  Handles(d)
<1> DEFINE s == Head(todo)
<1> PICK ss : ss = [Sess EXCEPT !.in = Append(@, d)]
  OBVIOUS
<1>1. d.m = "tx_input" /\ Sess.kind = "tx" /\ Len(Sess.in) < Sess.n
  BY DEF TakesInput
<1>2. Sess \in Session /\ Sess.in \in Seq(Requests) /\ Sess.n \in Nat /\ Sess.ae \in BOOLEAN
  BY DEF Types, Session, Sess
<1>3. /\ ss.in = Append(Sess.in, d) /\ ss.n = Sess.n /\ ss.ae = Sess.ae /\ ss.kind = Sess.kind
      /\ ss.sigs = Sess.sigs
  BY <1>2 DEF Session
<1>4. /\ ss.in \in Seq(Requests) /\ Len(ss.in) = Len(Sess.in) + 1 /\ Len(Sess.in) \in Nat
      /\ \A x \in Elements(ss.in) : x \in Elements(Sess.in) \/ x = d
  <2> PICK q : q = Append(Sess.in, d)
    OBVIOUS
  <2>1. q \in Seq(Requests) /\ Elements(q) = Elements(Sess.in) \cup {d}
    BY <1>2, ElementsAppend
  <2>2. Len(q) = Len(Sess.in) + 1 /\ Len(Sess.in) \in Nat
    BY <1>2
  <2> QED BY <1>3, <2>1, <2>2
<1>5. ss \in Session
  <2>1. Append(Sess.in, d) \in Seq(Requests)
    BY <1>3, <1>4
  <2> QED BY <1>2, <2>1, SessionExcept
<1>6. UNCHANGED <<cmd, todo, got>>
  BY DEF Serves
<1>7. CASE ss.ae
  <2> PICK m : m = Reply(d, "result", Len(ss.in))
    OBVIOUS
  <2>1. dev' = [dev EXCEPT !.session = ss] /\ up' = up \o <<m>>
    BY <1>7 DEF TakesInput, Answers
  <2>2. m \in Messages /\ m.kind = "result" /\ m.id = d.id /\ m.of = d.id /\ m.value = Len(ss.in)
    BY <1>4, ReplyTypes
  <2>3. Sess' = ss
    BY <2>1 DEF Sess, Types
  <2>4. ASSUME Current(d) PROVE Fits(m)'
    <3>1. cmd # "none" /\ todo # <<>> /\ Carries(d) /\ ~Posts /\ (Done > 0 => Matches(Done))
      BY <2>4 DEF Current
    <3>2. d.m = s.m /\ d.arg = s.arg
      BY <1>1, <3>1, CarriesStep
    <3>3. s.op # "parts" /\ s.m = "tx_input"
      BY <1>1, <3>1, <3>2, StepFacts
    <3>4. cmd \in AeTransactions /\ Done > Before(cmd) /\ Done - Before(cmd) <= Inputs(cmd)
          /\ s.arg = Done - Before(cmd)
      BY <3>1, <3>3, InputPlace
    <3>5. Done \in Nat /\ Before(cmd) \in Nat /\ Inputs(cmd) \in Nat
      BY <3>1, <3>4, CurrentStep, SessionPrograms
    <3> PICK i : i = Done - Before(cmd) - 1
      OBVIOUS
    <3> PICK n : n = Inputs(cmd)
      OBVIOUS
    <3>6. i \in Nat /\ n \in Nat /\ i < n /\ i < 2 * n /\ Done > 0
      BY <3>4, <3>5
    <3>7. Sess.n = n /\ Len(Sess.in) = i /\ Sess.sigs = 0 /\ Sess.ae = TRUE
      BY <3>1, <3>4, <3>6 DEF Matches
    <3>8. m.value = s.arg
      BY <1>4, <2>2, <3>4, <3>5, <3>7
    <3>9. AeIn(ss, i + 1, n)
      <4>1. ss.kind = "tx" /\ ss.n = n
        BY <1>1, <1>3, <3>7
      <4>2. ss.ae = TRUE
        BY <1>3, <3>7, Zenon
      <4>3. PICK e : e = i + 1
        OBVIOUS
      <4>4. /\ Len(ss.in) = IF e < n THEN e ELSE n
            /\ ss.sigs = IF e < n THEN 0 ELSE e - n
        BY <1>3, <1>4, <3>6, <3>7, <4>3
      <4>5. AeIn(ss, e, n)
        BY <4>1, <4>2, <4>4, AeInIntro
      <4> QED BY <4>3, <4>5
    <3>10. Done + 1 - Before(cmd) - 1 = i + 1
      BY <3>5
    <3>11. MatchesIn(ss, Done + 1)
      <4> PICK k : k = Done + 1
        OBVIOUS
      <4>1. k - Before(cmd) - 1 = i + 1
        BY <3>5, <3>6, <3>10
      <4>2. AeIn(ss, k - Before(cmd) - 1, Inputs(cmd))
        BY <3>9, <4>1, Zenon
      <4>3. MatchesIn(ss, k)
        BY <3>4, <4>2, AeOnly, Zenon
      <4> QED BY <4>3
    <3>12. Matches(Done + 1)'
      BY <1>6, <2>3, <3>11, MatchesNow
    <3> QED BY <1>6, <2>2, <3>3, <3>8, <3>12, FitsNow
  <2> QED BY <1>4, <1>5, <2>1, <2>2, <2>4, HandlesOne
<1>8. CASE ~ss.ae /\ Len(ss.in) < ss.n
  <2>1. dev' = [dev EXCEPT !.session = ss] /\ up' = up \o <<>>
    BY <1>8 DEF TakesInput, Answers
  <2>2. <<>> \in Seq(Messages) /\ Elements(<<>>) = {}
    BY DEF Elements
  <2>3. Replied(d, ss, <<>>)
    BY <1>4, <1>5, <2>1, <2>2 DEF Replied
  <2> QED BY <2>2, <2>3 DEF Handles
<1>9. CASE ~ss.ae /\ ~(Len(ss.in) < ss.n)
  <2> PICK rs : rs = [j \in 1..ss.n |-> Reply(ss.in[j], "result", j)]
    OBVIOUS
  <2>1. dev' = [dev EXCEPT !.session = NoSession] /\ up' = up \o rs
    <3> DEFINE z == [Sess EXCEPT !.in = Append(@, d)]
    <3>1. IF z.ae THEN Answers(z, <<Reply(d, "result", Len(z.in))>>, 0)
          ELSE IF Len(z.in) < z.n THEN Answers(z, <<>>, 0)
          ELSE Answers(NoSession, [j \in 1..z.n |-> Reply(z.in[j], "result", j)], 0)
      BY Zenon DEF TakesInput
    <3>2. ss = z
      OBVIOUS
    <3> HIDE DEF z
    <3>3. Answers(NoSession, rs, 0)
      BY <1>9, <3>1, <3>2, Zenon
    <3> QED BY <3>3 DEF Answers
  <2>2. ss.n = Len(ss.in) /\ ss.n \in Nat
    BY <1>1, <1>2, <1>3, <1>4, <1>9
  <2>3. ASSUME NEW j \in 1..ss.n
        PROVE  rs[j] \in Messages /\ rs[j].of = ss.in[j].id /\ rs[j].id = rs[j].of /\ ss.in[j] \in Elements(ss.in)
    <3> PICK x : x = ss.in[j]
      OBVIOUS
    <3>1. x \in Requests /\ x \in Elements(ss.in) /\ j \in Nat
      BY <1>4, <2>2, <2>3 DEF Elements
    <3>2. rs[j] = Reply(x, "result", j)
      BY <2>3
    <3>3. rs[j] \in Messages /\ rs[j].of = x.id /\ rs[j].id = rs[j].of
      <4>1. PICK y : y = rs[j]
        OBVIOUS
      <4>2. y = Reply(x, "result", j)
        BY <3>2, <4>1
      <4>3. y \in Messages /\ y.of = x.id /\ y.id = x.id
        BY <3>1, <4>2 DEF Reply, Requests, Messages
      <4> QED BY <4>1, <4>3
    <3> QED BY <3>1, <3>3
  <2>4. rs \in Seq(Messages) /\ Len(rs) = ss.n
    <3>1. rs \in [1..ss.n -> Messages]
      BY <2>3
    <3> QED BY <2>2, <3>1, ListOf
  <2>5. ASSUME NEW m \in Elements(rs)
        PROVE  (m.of = d.id \/ \E x \in Elements(Sess.in) : m.of = x.id) /\ m.id = m.of
    <3>1. PICK j \in 1..ss.n : m = rs[j]
      BY <2>4, <2>5 DEF Elements
    <3>2. m.of = ss.in[j].id /\ m.id = m.of /\ ss.in[j] \in Elements(ss.in)
      BY <2>3, <3>1
    <3> QED BY <1>4, <3>2
  <2>6. Replied(d, NoSession, rs)
    BY <2>1, <2>4, <2>5, NoSessionType DEF Replied
  <2>7. ~Current(d)
    <3> SUFFICES ASSUME Current(d) PROVE FALSE
      OBVIOUS
    <3>1. cmd # "none" /\ todo # <<>> /\ Carries(d) /\ ~Posts /\ (Done > 0 => Matches(Done))
      BY DEF Current
    <3>2. d.m = s.m
      BY <1>1, <3>1, CarriesStep
    <3>3. cmd \in AeTransactions /\ Done > Before(cmd) /\ Done - Before(cmd) <= Inputs(cmd)
      BY <1>1, <3>1, <3>2, InputPlace
    <3>4. Done \in Nat /\ Before(cmd) \in Nat /\ Inputs(cmd) \in Nat
      BY <3>1, <3>3, CurrentStep, SessionPrograms
    <3>5. Done > 0 /\ Done - Before(cmd) - 1 < 2 * Inputs(cmd)
      BY <3>3, <3>4
    <3>6. Sess.ae = TRUE
      BY <3>1, <3>3, <3>5 DEF Matches
    <3> QED BY <1>3, <1>9, <3>6, Zenon
  <2> QED BY <2>6, <2>7 DEF Handles
<1> QED BY <1>7, <1>8, <1>9

\* The calls for a signature.
LEMMA SignaturePlace ==
    ASSUME Types, Running, cmd # "none", todo # <<>>, Head(todo).m = "get_signature"
    PROVE  \/ cmd = "sign_message_ae" /\ Done = 1 /\ Head(todo).arg = 1
           \/ /\ cmd \in AeTransactions /\ Done - Before(cmd) > Inputs(cmd)
              /\ Done - Before(cmd) <= 2 * Inputs(cmd)
              /\ Head(todo).arg = Done - Before(cmd) - Inputs(cmd)
<1> DEFINE s == Head(todo)
           k == Done
           o == Before(cmd)
           n == Inputs(cmd)
<1>1. StepKnown(s, k) /\ k \in Nat
  BY Steps_Known, CurrentStep
<1>2. ~PlainStep(s)
  BY DEF PlainStep, PlainCalls
<1>3. cmd \in Sessions /\ cmd # "sign_psbt"
  BY <1>1, <1>2 DEF StepKnown
<1>4. cmd # "sign_tx"
  <2>1. cmd = "sign_tx" => s.m \in {"sign_tx", "tx_input"}
    <3> SUFFICES ASSUME cmd = "sign_tx" PROVE s.m \in {"sign_tx", "tx_input"}
      OBVIOUS
    <3>1. TxInputs \in Nat
      BY JadeRpcAssumption
    <3>2. k = 0 \/ (k > 0 /\ k <= TxInputs) \/ k > TxInputs
      BY <1>1, <3>1
    <3>3. k = 0 => s.m = "sign_tx"
      BY <1>1 DEF StepKnown, PlainOpening
    <3>4. (k > 0 /\ k <= TxInputs) \/ k > TxInputs => s.m = "tx_input"
      BY <1>1 DEF StepKnown, InputStep
    <3> QED BY <3>2, <3>3, <3>4
  <2> QED BY <2>1
<1>5. CASE cmd = "sign_message_ae"
  <2>1. k # 0
    BY <1>1, <1>5 DEF StepKnown
  <2>2. k > 0
    BY <1>1, <2>1
  <2>3. k = 1 /\ s.arg = 1
    BY <1>1, <1>5, <2>2 DEF StepKnown
  <2> QED BY <1>5, <2>3
<1>6. CASE cmd \in AeTransactions
  <2>1. o \in Nat /\ n \in Nat
    BY <1>6, SessionPrograms
  <2>2. /\ ~(k < o) /\ k - o <= 2 * n
        /\ k = o => AeOpening(s, n)
        /\ k > o /\ k - o <= n => InputStep(s, "rpc", k - o)
        /\ k - o > n => SignatureStep(s, k - o - n)
    BY <1>1, <1>2, <1>6 DEF StepKnown
  <2>3. k # o
    BY <2>2 DEF AeOpening
  <2>4. ~(k > o /\ k - o <= n)
    BY <2>2 DEF InputStep
  <2>5. k - o > n
    <3> HIDE DEF k, o, n
    <3> QED BY <1>1, <2>1, <2>2, <2>3, <2>4
  <2>6. s.arg = k - o - n
    BY <2>2, <2>5 DEF SignatureStep
  <2> QED BY <1>6, <2>2, <2>5, <2>6
<1> QED BY <1>3, <1>4, <1>5, <1>6 DEF Sessions

LEMMA SignatureHandles ==
    ASSUME Types, Running, NEW d \in Requests, Serves(d), GivesSignature(d)
    PROVE  Handles(d)
<1> DEFINE s == Head(todo)
<1>1. PICK v : v = Sess.sigs + 1
  OBVIOUS
<1>2. PICK ss : ss = IF v < Sess.n THEN [Sess EXCEPT !.sigs = v] ELSE NoSession
  OBVIOUS
<1>3. PICK m : m = Reply(d, "result", v)
  OBVIOUS
<1>4. d.m = "get_signature" /\ Len(Sess.in) = Sess.n
  BY DEF GivesSignature
<1>5. dev' = [dev EXCEPT !.session = ss] /\ up' = up \o <<m>>
  BY <1>1, <1>2, <1>3 DEF GivesSignature, Answers
<1>6. Sess \in Session /\ Sess.in \in Seq(Requests) /\ Sess.n \in Nat /\ Sess.sigs \in Nat
  BY DEF Types, Session, Sess
<1>7. v \in Nat
  BY <1>1, <1>6
<1>8. m \in Messages /\ m.kind = "result" /\ m.id = d.id /\ m.of = d.id /\ m.value = v
  BY <1>3, <1>7, ReplyTypes
<1>9. ss \in Session
  <2>1. [Sess EXCEPT !.sigs = v] \in Session /\ NoSession \in Session
    BY <1>6, <1>7, SessionExcept, NoSessionType
  <2> QED BY <1>2, <2>1
<1>10. /\ v < Sess.n => ss.kind = Sess.kind /\ ss.n = Sess.n /\ ss.in = Sess.in /\ ss.sigs = v
       /\ v < Sess.n => (ss.ae = Sess.ae)
       /\ ~(v < Sess.n) => ss = NoSession
  <2>1. CASE v < Sess.n
    <3>1. ss = [Sess EXCEPT !.sigs = v]
      BY <1>2, <2>1
    <3> QED BY <1>6, <2>1, <3>1 DEF Session
  <2>2. CASE ~(v < Sess.n)
    BY <1>2, <2>2
  <2> QED BY <2>1, <2>2
<1>11. \A x \in Elements(ss.in) : x \in Elements(Sess.in) \/ x = d
  BY <1>10, NoSessionType
<1>12. UNCHANGED <<cmd, todo, got>> /\ Sess' = ss
  BY <1>5 DEF Serves, Sess, Types
<1>13. ASSUME Current(d) PROVE Fits(m)'
  <2>1. cmd # "none" /\ todo # <<>> /\ Carries(d) /\ (Done > 0 => Matches(Done))
    BY <1>13 DEF Current
  <2>2. d.m = s.m
    BY <1>4, <2>1, CarriesStep
  <2>3. s.op # "parts" /\ s.m = "get_signature"
    BY <1>4, <2>1, <2>2, StepFacts
  <2>4. Done \in Nat
    BY <2>1, CurrentStep
  <2>5. CASE cmd = "sign_message_ae" /\ Done = 1 /\ s.arg = 1
    <3>1. Sess.sigs = 0
      BY <2>1, <2>5 DEF Matches
    <3>2. m.value = s.arg
      BY <1>1, <1>8, <2>5, <3>1
    <3>3. MatchesIn(ss, Done + 1)
      BY <2>5 DEF MatchesIn, AeTransactions
    <3>4. Matches(Done + 1)'
      BY <1>12, <3>3, MatchesNow
    <3> QED BY <1>8, <1>12, <2>3, <3>2, <3>4, FitsNow
  <2>6. CASE /\ cmd \in AeTransactions /\ Done - Before(cmd) > Inputs(cmd)
             /\ Done - Before(cmd) <= 2 * Inputs(cmd)
             /\ s.arg = Done - Before(cmd) - Inputs(cmd)
    <3>1. Before(cmd) \in Nat /\ Inputs(cmd) \in Nat
      BY <2>6, SessionPrograms
    <3>2. PICK i : i = Done - Before(cmd) - 1
      OBVIOUS
    <3>3. PICK n : n = Inputs(cmd)
      OBVIOUS
    <3>4. /\ i \in Nat /\ n \in Nat /\ ~(i < n) /\ i < 2 * n /\ Done > 0 /\ Done > Before(cmd)
          /\ s.arg = i + 1 - n
      BY <2>4, <2>6, <3>1, <3>2, <3>3
    <3>5. Sess.kind = "tx" /\ Sess.n = n /\ Len(Sess.in) = n /\ Sess.sigs = i - n
      BY <2>1, <2>6, <3>2, <3>3, <3>4 DEF Matches
    <3>6. Sess.ae = TRUE
      BY <2>1, <2>6, <3>2, <3>3, <3>4 DEF Matches
    <3>7. m.value = s.arg
      BY <1>1, <1>8, <3>4, <3>5
    <3>8. PICK k : k = Done + 1
      OBVIOUS
    <3>9. k - Before(cmd) - 1 = i + 1
      BY <2>4, <3>1, <3>2, <3>8
    <3>10. MatchesIn(ss, k)
      <4>1. CASE i + 1 < 2 * n
        <5>1. PICK e : e = i + 1
          OBVIOUS
        <5>2. v < Sess.n /\ v = e - n /\ ~(e < n)
          BY <1>1, <3>4, <3>5, <4>1, <5>1
        <5>3. ss.kind = "tx" /\ ss.n = n
          BY <1>10, <3>5, <5>2
        <5>4. ss.ae = TRUE
          BY <1>10, <3>6, <5>2, Zenon
        <5>5. /\ Len(ss.in) = IF e < n THEN e ELSE n
              /\ ss.sigs = IF e < n THEN 0 ELSE e - n
          BY <1>10, <3>5, <5>2
        <5>6. AeIn(ss, e, n)
          BY <5>3, <5>4, <5>5, AeInIntro
        <5>7. AeIn(ss, k - Before(cmd) - 1, Inputs(cmd))
          BY <3>3, <3>9, <5>1, <5>6, Zenon
        <5> QED BY <2>6, <5>7, AeOnly, Zenon
      <4>2. CASE ~(i + 1 < 2 * n)
        <5>1. ~(k - Before(cmd) - 1 < 2 * Inputs(cmd))
          BY <3>3, <3>9, <4>2, Zenon
        <5> QED BY <2>6, <5>1 DEF MatchesIn, AeTransactions
      <4> QED BY <4>1, <4>2
    <3>11. Matches(Done + 1)'
      <4>1. MatchesIn(ss, Done + 1)
        BY <3>8, <3>10
      <4> QED BY <1>12, <4>1, MatchesNow
    <3> QED BY <1>8, <1>12, <2>3, <3>7, <3>11, FitsNow
  <2> QED BY <2>1, <2>3, <2>5, <2>6, SignaturePlace
<1> QED BY <1>5, <1>8, <1>9, <1>11, <1>13, HandlesOne

\* The calls without a session leave it to the later ones.
LEMMA PlainFree ==
    ASSUME Types, Running, cmd # "none", todo # <<>>, Head(todo).m \in PlainCalls
    PROVE  /\ cmd # "sign_tx" /\ cmd # "sign_psbt" /\ Head(todo).op # "parts"
           /\ cmd = "sign_message_ae" => Done = 0 /\ Head(todo).ae = TRUE /\ Head(todo).m = "sign_message"
           /\ cmd \in AeTransactions => ~(Done + 1 > Before(cmd))
           /\ Head(todo).m \notin {"tx_input", "get_signature"}
<1> DEFINE s == Head(todo)
           k == Done
           o == Before(cmd)
           n == Inputs(cmd)
<1>1. StepKnown(s, k) /\ k \in Nat
  BY Steps_Known, CurrentStep
<1>2. s.m \notin {"tx_input", "get_signature", "sign_psbt", "sign_tx", "sign_liquid_tx"}
  BY DEF PlainCalls
<1>3. cmd # "sign_psbt" /\ s.op # "parts"
  BY <1>2, StepFacts
<1>4. cmd # "sign_tx"
  <2> SUFFICES ASSUME cmd = "sign_tx" PROVE FALSE
    OBVIOUS
  <2>1. TxInputs \in Nat
    BY JadeRpcAssumption
  <2>2. k = 0 \/ (k > 0 /\ k <= TxInputs) \/ k > TxInputs
    BY <1>1, <2>1
  <2>3. k # 0
    BY <1>1, <1>2 DEF StepKnown, PlainOpening
  <2>4. ~((k > 0 /\ k <= TxInputs) \/ k > TxInputs)
    BY <1>1, <1>2 DEF StepKnown, InputStep
  <2> QED BY <2>2, <2>3, <2>4
<1>5. cmd = "sign_message_ae" => k = 0 /\ s.ae = TRUE /\ s.m = "sign_message"
  <2>1. k = 0 \/ k > 0
    BY <1>1
  <2>2. cmd = "sign_message_ae" => ~(k > 0)
    BY <1>1, <1>2 DEF StepKnown
  <2>3. cmd = "sign_message_ae" => s.m = "sign_message" /\ s.ae = TRUE
    BY <1>1, <2>1, <2>2, Zenon DEF StepKnown
  <2> QED BY <2>1, <2>2, <2>3
<1>6. cmd \in AeTransactions => ~(k + 1 > o)
  <2> SUFFICES ASSUME cmd \in AeTransactions PROVE ~(k + 1 > o)
    OBVIOUS
  <2>1. o \in Nat /\ n \in Nat
    BY SessionPrograms
  <2>2. /\ k = o => AeOpening(s, n)
        /\ k > o /\ k - o <= n => InputStep(s, "rpc", k - o)
        /\ k - o > n => SignatureStep(s, k - o - n)
    BY <1>1 DEF StepKnown
  <2>3. k # o
    BY <1>2, <2>2 DEF AeOpening
  <2>4. ~(k > o /\ k - o <= n)
    BY <1>2, <2>2 DEF InputStep
  <2>5. ~(k - o > n)
    BY <1>2, <2>2 DEF SignatureStep
  <2> HIDE DEF k, o, n
  <2> QED BY <1>1, <2>1, <2>3, <2>4, <2>5
<1> QED BY <1>2, <1>3, <1>4, <1>5, <1>6

LEMMA CommitsHandles ==
    ASSUME Types, Running, NEW d \in Requests, Serves(d), CommitsToMessage(d)
    PROVE  Handles(d)
<1> DEFINE s == Head(todo)
<1>1. PICK ss : ss = [NoSession EXCEPT !.kind = "message", !.ae = TRUE]
  OBVIOUS
<1>2. PICK m : m = Reply(d, "result", 1)
  OBVIOUS
<1>3. /\ d.m = "sign_message" /\ dev' = [dev EXCEPT !.session = ss] /\ up' = up \o <<m>>
  BY <1>1, <1>2 DEF CommitsToMessage, Answers
<1>4. m \in Messages /\ m.kind = "result" /\ m.id = d.id /\ m.of = d.id
  BY <1>2, ReplyTypes
<1>5. ss.kind = "message" /\ ss.n = 0 /\ ss.in = <<>> /\ ss.sigs = 0
  BY <1>1 DEF NoSession
<1>6. ss.ae = TRUE
  BY <1>1 DEF NoSession
<1>7. ss \in Session
  <2>1. PICK a \in BOOLEAN : a = TRUE
    OBVIOUS
  <2> DEFINE s1 == [NoSession EXCEPT !.kind = "message"]
             s2 == [s1 EXCEPT !.ae = a]
  <2>2. s1 \in Session
    BY NoSessionType, SessionExcept
  <2> HIDE DEF s1
  <2>3. s2 \in Session
    BY <2>2, SessionExcept
  <2>4. ss = s2
    BY <1>1, <2>1 DEF s1
  <2> QED BY <2>3, <2>4
<1>8. Len(ss.in) = 0 /\ Elements(ss.in) = {}
  BY <1>5 DEF Elements
<1>9. UNCHANGED <<cmd, todo, got>> /\ Sess' = ss
  BY <1>3 DEF Serves, Sess, Types
<1>10. ASSUME Current(d) PROVE Fits(m)'
  <2>1. cmd # "none" /\ todo # <<>> /\ Carries(d)
    BY <1>10 DEF Current
  <2>2. s.m = "sign_message" /\ s.m \in PlainCalls
    BY <1>3, <2>1, CarriesStep DEF PlainCalls
  <2>3. /\ cmd # "sign_tx" /\ s.op # "parts" /\ (cmd \in AeTransactions => ~(Done + 1 > Before(cmd)))
        /\ s.m \notin {"tx_input", "get_signature"}
    BY <2>1, <2>2, PlainFree
  <2>4. MessageIn(ss)
    BY <1>5, <1>6, <1>8, Zenon DEF MessageIn
  <2>5. MatchesIn(ss, Done + 1)
    BY <2>3, <2>4, Zenon DEF MatchesIn
  <2>6. Matches(Done + 1)'
    BY <1>9, <2>5, MatchesNow
  <2> QED BY <1>4, <1>9, <2>3, <2>6, FitsNow
<1> QED BY <1>3, <1>4, <1>7, <1>8, <1>10, HandlesOne

\* A call that ends the session, with an answer to a plain step.
LEMMA PlainHandles ==
    ASSUME Types, Running, NEW d \in Requests, Serves(d), NEW kind \in {"result", "http"}, NEW v \in Nat,
           dev' = [dev EXCEPT !.session = NoSession], up' = up \o <<Reply(d, kind, v)>>,
           Current(d) => /\ Head(todo).m \in PlainCalls
                         /\ cmd # "sign_message_ae"
                         /\ kind = "http" => Head(todo).m = "auth_user"
    PROVE  Handles(d)
<1>1. PICK m : m = Reply(d, kind, v)
  OBVIOUS
<1>2. m \in Messages /\ m.kind = kind /\ m.id = d.id /\ m.of = d.id
  BY <1>1, ReplyTypes
<1>3. up' = up \o <<m>>
  BY <1>1
<1>4. UNCHANGED <<cmd, todo, got>> /\ Sess' = NoSession
  BY DEF Serves, Sess, Types
<1>5. ASSUME Current(d) PROVE Fits(m)'
  <2>1. cmd # "none" /\ todo # <<>>
    BY <1>5 DEF Current
  <2>2. /\ cmd # "sign_tx" /\ Head(todo).op # "parts"
        /\ cmd \in AeTransactions => ~(Done + 1 > Before(cmd))
        /\ Head(todo).m \notin {"tx_input", "get_signature"}
    BY <1>5, <2>1, PlainFree
  <2>3. MatchesIn(NoSession, Done + 1)
    BY <1>5, <2>2, Zenon DEF MatchesIn
  <2>4. Matches(Done + 1)'
    BY <1>4, <2>3, MatchesNow
  <2>5. m.kind = "http" => Head(todo).m = "auth_user"
    BY <1>2, <1>5
  <2> QED BY <1>4, <2>2, <2>4, <2>5, FitsNow
<1> QED BY <1>2, <1>3, <1>5, NoSessionType, HandlesOne

LEMMA AuthenticatesHandles ==
    ASSUME Types, Running, NEW d \in Requests, Serves(d), Authenticates(d) \/ AnswersPlainly(d)
    PROVE  Handles(d)
<1>1. CASE Authenticates(d)
  <2>1. d.m \in {"auth_user", "pin"}
    BY <1>1 DEF Authenticates
  <2>2. \E kind \in {"result", "http"}, v \in Nat :
           dev' = [dev EXCEPT !.session = NoSession] /\ up' = up \o <<Reply(d, kind, v)>>
    <3>1. CASE Answers(NoSession, <<Reply(d, "result", 1)>>, 0)
      BY <3>1 DEF Answers
    <3>2. CASE Answers(NoSession, <<Reply(d, "result", 0)>>, 1)
      BY <3>2 DEF Answers
    <3>3. CASE Answers(NoSession, <<Reply(d, "http", 0)>>, 1)
      BY <3>3 DEF Answers
    <3> QED BY <1>1, <3>1, <3>2, <3>3 DEF Authenticates
  <2>3. PICK kind \in {"result", "http"}, v \in Nat :
           dev' = [dev EXCEPT !.session = NoSession] /\ up' = up \o <<Reply(d, kind, v)>>
    BY <2>2
  <2>4. ASSUME Current(d)
        PROVE  Head(todo).m \in PlainCalls /\ cmd # "sign_message_ae" /\ Head(todo).m = "auth_user"
    <3>1. cmd # "none" /\ todo # <<>> /\ Carries(d)
      BY <2>4 DEF Current
    <3>2. Head(todo).m = "auth_user"
      BY <2>1, <3>1, CarriesStep
    <3>3. Head(todo).m \in PlainCalls
      BY <3>2 DEF PlainCalls
    <3>4. cmd # "sign_message_ae"
      BY <3>1, <3>2, <3>3, PlainFree
    <3> QED BY <3>2, <3>3, <3>4
  <2> QED BY <2>3, <2>4, PlainHandles
<1>2. CASE AnswersPlainly(d)
  <2>1. /\ d.m \notin {"sign_tx", "sign_liquid_tx", "tx_input", "get_signature", "sign_psbt",
                       "get_extended_data", "auth_user", "pin"}
        /\ ~d.ae
        /\ dev' = [dev EXCEPT !.session = NoSession] /\ up' = up \o <<Reply(d, "result", 1)>>
    BY <1>2 DEF AnswersPlainly, Answers
  <2>2. ASSUME Current(d)
        PROVE  Head(todo).m \in PlainCalls /\ cmd # "sign_message_ae"
    <3>1. cmd # "none" /\ todo # <<>> /\ Carries(d)
      BY <2>2 DEF Current
    <3>2. d.m = Head(todo).m /\ (d.ae = Head(todo).ae)
      BY <2>1, <3>1, CarriesStep
    <3>3. d.m \in CallNames
      BY DEF Requests
    <3>4. Head(todo).m \in PlainCalls
      BY <2>1, <3>2, <3>3 DEF CallNames, SessionCalls
    <3>5. ~Head(todo).ae
      BY <2>1, <3>2, Zenon
    <3>6. cmd = "sign_message_ae" => Head(todo).ae = TRUE
      BY <3>1, <3>4, PlainFree
    <3> QED BY <3>4, <3>5, <3>6
  <2> QED BY <2>1, <2>2, PlainHandles
<1> QED BY <1>1, <1>2

\* The first part of a signed PSBT.
LEMMA FirstPartHandles ==
    ASSUME Types, Running, NEW d \in Requests, Serves(d), d.m = "sign_psbt", NEW n \in 1..MaxParts,
           NEW ss, ss = IF n = 1 THEN NoSession ELSE [NoSession EXCEPT !.kind = "psbt", !.n = n, !.id = d.id],
           NEW m, m = [Reply(d, "result", d.id) EXCEPT !.part = 1, !.last = n],
           dev' = [dev EXCEPT !.session = ss], up' = up \o <<m>>
    PROVE  Handles(d)
<1>1. n \in Nat /\ n >= 1 /\ d.id \in Nat
  BY JadeRpcAssumption DEF Requests
<1>2. /\ m \in Messages /\ m.kind = "result" /\ m.id = d.id /\ m.of = d.id /\ m.value = d.id
      /\ m.part = 1 /\ m.last = n
  BY <1>1 DEF Reply, Messages
<1>3. n # 1 => ss.kind = "psbt" /\ ss.n = n /\ ss.id = d.id /\ ss.in = <<>>
  BY DEF NoSession
<1>4. ss \in Session
  <2> DEFINE s1 == [NoSession EXCEPT !.kind = "psbt"]
             s2 == [s1 EXCEPT !.n = n]
             s3 == [s2 EXCEPT !.id = d.id]
  <2>1. s1 \in Session
    BY NoSessionType, SessionExcept
  <2> HIDE DEF s1
  <2>2. s2 \in Session
    BY <1>1, <2>1, SessionExcept
  <2> HIDE DEF s2
  <2>3. s3 \in Session
    BY <1>1, <2>2, SessionExcept
  <2>4. n # 1 => ss = s3
    BY DEF s1, s2
  <2> QED BY <2>3, <2>4, NoSessionType
<1>5. Elements(ss.in) = {}
  <2>1. CASE n = 1
    BY <2>1, NoSessionType
  <2>2. CASE n # 1
    BY <1>3, <2>2 DEF Elements
  <2> QED BY <2>1, <2>2
<1>6. UNCHANGED <<cmd, todo, got>> /\ Sess' = ss
  BY DEF Serves, Sess, Types
<1>7. ASSUME Current(d) PROVE Fits(m)'
  <2>1. cmd # "none" /\ todo # <<>> /\ Carries(d)
    BY <1>7 DEF Current
  <2>2. Head(todo).m = "sign_psbt" /\ (Head(todo).op = "parts" => got = <<>>)
    BY <2>1, CarriesStep
  <2>3. cmd = "sign_psbt" /\ got = <<>>
    BY <2>1, <2>2, StepFacts
  <2>4. MatchesIn(ss, Done + 1)
    BY <2>3 DEF MatchesIn, AeTransactions
  <2>5. Matches(Done + 1)'
    BY <1>6, <2>4, MatchesNow
  <2>6. m.part = Len(got') + 1 /\ m.part <= m.last /\ got' = <<>>
    <3>1. Len(got') = 0
      BY <1>6, <2>3
    <3> QED BY <1>1, <1>2, <1>6, <2>3, <3>1
  <2>7. m.part # m.last => PsbtSession(m.last, m.value)'
    <3>1. m.part # m.last => ss.kind = "psbt" /\ ss.n = m.last /\ ss.id = m.value
      BY <1>2, <1>3
    <3> QED BY <1>6, <3>1 DEF PsbtSession
  <2>8. Head(todo').m \notin {"tx_input", "get_signature"}
    BY <1>6, <2>2
  <2> QED BY <1>2, <2>5, <2>6, <2>7, <2>8 DEF Fits
<1> QED BY <1>2, <1>4, <1>5, <1>7, HandlesOne

\* A later one.
LEMMA NextPartHandles ==
    ASSUME Types, Running, NEW d \in Requests, Serves(d), d.m = "get_extended_data",
           Sess.kind = "psbt", d.arg \in 1..Sess.n,
           NEW ss, ss = IF d.arg = Sess.n THEN NoSession ELSE Sess,
           NEW m, m = [Reply(d, "result", Sess.id) EXCEPT !.part = d.arg, !.last = Sess.n],
           dev' = [dev EXCEPT !.session = ss], up' = up \o <<m>>
    PROVE  Handles(d)
<1>1. Sess \in Session /\ Sess.n \in Nat /\ Sess.id \in Nat /\ d.id \in Nat /\ d.arg \in Nat
  BY DEF Types, Session, Sess, Requests
<1>2. /\ m \in Messages /\ m.kind = "result" /\ m.id = d.id /\ m.of = d.id /\ m.value = Sess.id
      /\ m.part = d.arg /\ m.last = Sess.n
  BY <1>1 DEF Reply, Messages
<1>3. ss \in Session /\ \A x \in Elements(ss.in) : x \in Elements(Sess.in) \/ x = d
  BY <1>1, NoSessionType
<1>4. UNCHANGED <<cmd, todo, got>> /\ Sess' = ss
  BY DEF Serves, Sess, Types
<1>5. ASSUME Current(d) PROVE Fits(m)'
  <2>1. /\ cmd # "none" /\ todo # <<>> /\ Carries(d)
        /\ Head(todo).op = "parts" /\ got # <<>> => PsbtSession(got[1].last, got[1].value)
    BY <1>5 DEF Current
  <2>2. Head(todo).op = "parts" /\ got # <<>> /\ d.arg = Len(got) + 1
    BY <2>1, CarriesStep
  <2>3. cmd = "sign_psbt" /\ Head(todo).m = "sign_psbt"
    BY <2>1, <2>2, StepFacts
  <2>4. Sess.n = got[1].last /\ Sess.id = got[1].value
    BY <2>1, <2>2 DEF PsbtSession
  <2>5. MatchesIn(ss, Done + 1)
    BY <2>3 DEF MatchesIn, AeTransactions
  <2>6. Matches(Done + 1)'
    BY <1>4, <2>5, MatchesNow
  <2>7. /\ m.part = Len(got') + 1 /\ m.part <= m.last
        /\ m.last = got'[1].last /\ m.value = got'[1].value
    BY <1>1, <1>2, <1>4, <2>2, <2>4
  <2>8. m.part # m.last => PsbtSession(m.last, m.value)'
    <3>1. m.part # m.last => ss.kind = "psbt" /\ ss.n = m.last /\ ss.id = m.value
      BY <1>2
    <3> QED BY <1>4, <3>1 DEF PsbtSession
  <2>9. Head(todo').m \notin {"tx_input", "get_signature"}
    BY <1>4, <2>3
  <2> QED BY <1>2, <2>6, <2>7, <2>8, <2>9 DEF Fits
<1> QED BY <1>2, <1>3, <1>5, HandlesOne

LEMMA SendsPartHandles ==
    ASSUME Types, Running, NEW d \in Requests, Serves(d), SendsPart(d)
    PROVE  Handles(d)
<1>1. CASE /\ d.m = "sign_psbt"
           /\ \E n \in 1..MaxParts :
                Answers(IF n = 1 THEN NoSession ELSE [NoSession EXCEPT !.kind = "psbt", !.n = n, !.id = d.id],
                        <<[Reply(d, "result", d.id) EXCEPT !.part = 1, !.last = n]>>, 0)
  <2>1. PICK n \in 1..MaxParts :
           Answers(IF n = 1 THEN NoSession ELSE [NoSession EXCEPT !.kind = "psbt", !.n = n, !.id = d.id],
                   <<[Reply(d, "result", d.id) EXCEPT !.part = 1, !.last = n]>>, 0)
    BY <1>1
  <2>2. PICK ss : ss = IF n = 1 THEN NoSession ELSE [NoSession EXCEPT !.kind = "psbt", !.n = n, !.id = d.id]
    OBVIOUS
  <2>3. PICK m : m = [Reply(d, "result", d.id) EXCEPT !.part = 1, !.last = n]
    OBVIOUS
  <2>4. dev' = [dev EXCEPT !.session = ss] /\ up' = up \o <<m>>
    BY <2>1, <2>2, <2>3 DEF Answers
  <2> QED BY <1>1, <2>2, <2>3, <2>4, FirstPartHandles
<1>2. CASE /\ d.m = "get_extended_data"
           /\ Sess.kind = "psbt"
           /\ d.arg \in 1..Sess.n
           /\ Answers(IF d.arg = Sess.n THEN NoSession ELSE Sess,
                      <<[Reply(d, "result", Sess.id) EXCEPT !.part = d.arg, !.last = Sess.n]>>, 0)
  <2>1. PICK ss : ss = IF d.arg = Sess.n THEN NoSession ELSE Sess
    OBVIOUS
  <2>2. PICK m : m = [Reply(d, "result", Sess.id) EXCEPT !.part = d.arg, !.last = Sess.n]
    OBVIOUS
  <2>3. dev' = [dev EXCEPT !.session = ss] /\ up' = up \o <<m>>
    BY <1>2, <2>1, <2>2 DEF Answers
  <2> QED BY <1>2, <2>1, <2>2, <2>3, NextPartHandles
<1> QED BY <1>1, <1>2 DEF SendsPart

LEMMA RefusesHandles ==
    ASSUME Types, Running, NEW d \in Requests, Serves(d), Refuses(d)
    PROVE  Handles(d) /\ dev' = [dev EXCEPT !.session = NoSession]
           /\ \E m : up' = up \o <<m>> /\ m \in Messages /\ m.kind = "error"
<1>1. \E m : /\ dev' = [dev EXCEPT !.session = NoSession] /\ up' = up \o <<m>>
             /\ m \in Messages /\ m.kind = "error" /\ m.of = d.id
  <2>1. CASE \E c \in Codes : Answers(NoSession, <<ErrorReply(d, c)>>, 0)
    <3>1. PICK c \in Codes : Answers(NoSession, <<ErrorReply(d, c)>>, 0)
      BY <2>1
    <3>2. PICK m : m = ErrorReply(d, c)
      OBVIOUS
    <3>3. c \in ErrorCodes
      BY <3>1, JadeRpcAssumption
    <3>4. m \in Messages /\ m.kind = "error" /\ m.of = d.id
      BY <3>2, <3>3 DEF ErrorReply, Reply, Messages, Requests
    <3> QED BY <3>1, <3>2, <3>4 DEF Answers
  <2>2. CASE Answers(NoSession, <<[ErrorReply(d, "protocol") EXCEPT !.id = 0]>>, 1)
    <3>1. PICK m : m = [ErrorReply(d, "protocol") EXCEPT !.id = 0]
      OBVIOUS
    <3>2. m \in Messages /\ m.kind = "error" /\ m.of = d.id
      BY <3>1 DEF ErrorReply, Reply, Messages, Requests, ErrorCodes
    <3> QED BY <2>2, <3>1, <3>2 DEF Answers
  <2> QED BY <2>1, <2>2 DEF Refuses
<1>2. PICK m : /\ dev' = [dev EXCEPT !.session = NoSession] /\ up' = up \o <<m>>
               /\ m \in Messages /\ m.kind = "error" /\ m.of = d.id
  BY <1>1
<1>3. Handles(d)
  BY <1>2, NoSessionType, HandlesOne
<1> QED BY <1>2, <1>3

\* The requests after the one that is served.
LEMMA ServedFacts ==
    ASSUME Types, IInv, NEW d, Serves(d)
    PROVE  /\ d \in Requests /\ d = down[1] /\ d \in Elements(down)
           /\ down' \in Seq(Requests) /\ Len(down') = Len(down) - 1 /\ Len(down) \in Nat \ {0}
           /\ \A j \in 1..Len(down') : down'[j] = down[j + 1]
           /\ Elements(down') \subseteq Elements(down)
           /\ \A e \in Elements(down') : d.id < e.id
<1>1. down \in Seq(Requests) /\ down # <<>> /\ down' = Tail(down) /\ d = Head(down)
  BY DEF Types, Serves
<1>2. /\ d \in Requests /\ d = down[1] /\ d \in Elements(down)
      /\ down' \in Seq(Requests) /\ Len(down') = Len(down) - 1 /\ Len(down) \in Nat \ {0}
      /\ \A j \in 1..Len(down') : down'[j] = down[j + 1]
      /\ Elements(down') \subseteq Elements(down)
  BY <1>1, ElementsTail
<1>3. ASSUME NEW e \in Elements(down') PROVE d.id < e.id
  <2>1. PICK j \in 1..Len(down') : e = down'[j]
    BY <1>2, <1>3, ElementsMember
  <2>2. e = down[j + 1] /\ 1 \in 1..Len(down) /\ j + 1 \in 1..Len(down) /\ 1 < j + 1
    BY <1>2, <2>1
  <2> QED BY <1>2, <2>2 DEF IInv, Ordered
<1> QED BY <1>2, <1>3

LEMMA RepliedOrdered ==
    ASSUME Types, IInv, NEW d, Serves(d), NEW ss, NEW rs, Replied(d, ss, rs)
    PROVE  /\ Types' /\ Ordered' /\ Entropy' /\ Sess' = ss /\ (dev'.works = dev.works)
           /\ \A m \in Elements(up') : m \in Elements(up) \/ m \in Elements(rs)
<1>1. /\ d \in Requests /\ d \in Elements(down)
      /\ down' \in Seq(Requests) /\ Len(down') = Len(down) - 1 /\ Len(down) \in Nat \ {0}
      /\ \A j \in 1..Len(down') : down'[j] = down[j + 1]
      /\ Elements(down') \subseteq Elements(down)
      /\ \A e \in Elements(down') : d.id < e.id
  BY ServedFacts
<1>2. /\ ss \in Session /\ rs \in Seq(Messages)
      /\ dev' = [dev EXCEPT !.session = ss] /\ up' = up \o rs
      /\ \A m \in Elements(rs) : /\ m.of = d.id \/ \E x \in Elements(Sess.in) : m.of = x.id
                                 /\ m.kind \in {"result", "http"} => m.id = m.of
      /\ \A x \in Elements(ss.in) : x \in Elements(Sess.in) \/ x = d
  BY DEF Replied
<1>3. /\ up \in Seq(Messages) /\ dev \in [works : BOOLEAN, tcp : BOOLEAN, closed : BOOLEAN, session : Session] /\ ids \in Nat
      /\ UNCHANGED <<open, cmd, todo, wait, posted, got, outcome, ids>> /\ dev.works
  BY DEF Types, Serves
<1>4. /\ up' \in Seq(Messages) /\ \A m \in Elements(up') : m \in Elements(up) \/ m \in Elements(rs)
  BY <1>2, <1>3, ElementsConcat
<1>5. dev' \in [works : BOOLEAN, tcp : BOOLEAN, closed : BOOLEAN, session : Session]
  BY <1>2, <1>3
<1>6. Sess' = ss /\ (dev'.works = dev.works)
  BY <1>2, <1>3 DEF Sess
<1>7. Types'
  BY <1>1, <1>3, <1>4, <1>5 DEF Types
<1>8. Ordered'
  <2>1. Ordered
    BY DEF IInv
  <2>2. \A i, j \in 1..Len(down') : i < j => down'[i].id < down'[j].id
    <3> SUFFICES ASSUME NEW i \in 1..Len(down'), NEW j \in 1..Len(down'), i < j
                 PROVE  down'[i].id < down'[j].id
      OBVIOUS
    <3>1. i + 1 \in 1..Len(down) /\ j + 1 \in 1..Len(down) /\ i + 1 < j + 1
      BY <1>1
    <3> QED BY <1>1, <2>1, <3>1 DEF Ordered
  <2>3. \A e \in Elements(down') : e.id <= ids
    BY <1>1, <2>1 DEF Ordered
  <2>4. ASSUME NEW x \in Elements(Sess.in)
        PROVE  x.id <= ids /\ \A e \in Elements(down') : x.id < e.id
    BY <1>1, <2>1 DEF Ordered
  <2>5. d.id <= ids
    BY <1>1, <2>1 DEF Ordered
  <2>6. ASSUME NEW m \in Elements(up')
        PROVE  /\ m.of <= ids /\ \A e \in Elements(down') : m.of < e.id
               /\ m.kind \in {"result", "http"} => m.id = m.of
    <3>1. CASE m \in Elements(up)
      BY <1>1, <2>1, <3>1 DEF Ordered
    <3>2. CASE m \in Elements(rs)
      <4>1. m.kind \in {"result", "http"} => m.id = m.of
        BY <1>2, <3>2
      <4>2. CASE m.of = d.id
        BY <1>1, <2>5, <4>1, <4>2
      <4>3. CASE \E x \in Elements(Sess.in) : m.of = x.id
        BY <2>4, <4>1, <4>3
      <4> QED BY <1>2, <3>2, <4>2, <4>3
    <3> QED BY <1>4, <3>1, <3>2
  <2>7. ASSUME NEW x \in Elements(ss.in)
        PROVE  x.id <= ids /\ \A e \in Elements(down') : x.id < e.id
    BY <1>1, <1>2, <2>4, <2>5
  <2> QED BY <1>3, <1>6, <2>2, <2>3, <2>6, <2>7 DEF Ordered
<1>9. Entropy'
  <2>1. ASSUME NEW j \in 1..Len(down'), down'[j].entropy = TRUE PROVE FALSE
    <3>1. j + 1 \in 1..Len(down) /\ j + 1 # 1 /\ down'[j] = down[j + 1]
      BY <1>1, <2>1
    <3>2. down[j + 1].entropy = TRUE
      BY <2>1, <3>1, Zenon
    <3> QED BY <3>1, <3>2 DEF IInv, Entropy
  <2>2. dev'.works
    BY <1>3, <1>6, Zenon
  <2> QED BY <2>1, <2>2 DEF Entropy
<1> QED BY <1>4, <1>6, <1>7, <1>8, <1>9

\* The method that waits is answered, or the request before its own was.
LEMMA RepliedSynchronous ==
    ASSUME Types, IInv, NEW d, Serves(d), Handles(d)
    PROVE  Synchronous'
<1> SUFFICES ASSUME cmd' # "none", ~Posts'
             PROVE  /\ wait' = 0 /\ Done' > 0 => down' = <<>> /\ (dev.works => Matches(Done))'
                    /\ wait' = 0 /\ todo' # <<>> /\ Head(todo').op = "parts" => got' = <<>>
                    /\ wait' # 0 => wait' = ids' /\ (Pending' \/ Answered')
  BY DEF Synchronous
<1>1. UNCHANGED <<open, cmd, todo, wait, posted, got, outcome, ids>> /\ down # <<>>
  BY DEF Serves
<1>2. Done' = Done /\ (Posts' <=> Posts)
  BY <1>1, DoneFrame
<1>3. /\ wait = 0 /\ Done > 0 => down = <<>>
      /\ wait = 0 /\ todo # <<>> /\ Head(todo).op = "parts" => got = <<>>
      /\ wait # 0 => wait = ids /\ (Pending \/ Answered)
  BY <1>1, <1>2 DEF IInv, Synchronous
<1>4. wait # 0 => Pending /\ wait = ids
  BY <1>1, <1>3 DEF Answered
<1>5. /\ d \in Requests /\ d = down[1] /\ d \in Elements(down)
      /\ down' \in Seq(Requests) /\ Len(down') = Len(down) - 1 /\ Len(down) \in Nat \ {0}
      /\ \A j \in 1..Len(down') : down'[j] = down[j + 1]
  BY ServedFacts
<1>6. ASSUME wait # 0, Len(down) # 1 PROVE Pending'
  <2>1. /\ down[Len(down)].id = wait /\ Carries(down[Len(down)]) /\ ~(Done > 0)
        /\ ~(Head(todo).op = "parts" /\ got # <<>>)
    BY <1>4, <1>6 DEF Pending
  <2>2. PICK e : e = down[Len(down)]
    OBVIOUS
  <2>3. Len(down') \in 1..Len(down') /\ Len(down') + 1 = Len(down)
    BY <1>5, <1>6
  <2>4. down'[Len(down')] = e /\ down' # <<>>
    BY <1>5, <2>2, <2>3
  <2>5. Carries(e)'
    BY <1>1, <2>1, <2>2 DEF Carries
  <2> QED BY <1>1, <1>2, <2>1, <2>2, <2>4, <2>5 DEF Pending
<1>7. ASSUME wait # 0, Len(down) = 1 PROVE Answered'
  <2>1. d.id = wait /\ Carries(d)
    BY <1>4, <1>5, <1>7 DEF Pending
  <2>2. Current(d)
    <3>1. Running
      BY DEF IInv
    <3>2. cmd # "none" /\ ~Posts /\ wait # 0 /\ todo # <<>>
      BY <1>1, <1>2, <1>7, <3>1 DEF Running
    <3> QED BY <1>4, <1>7, <2>1, <3>2 DEF Current, Pending, Serves
  <2>3. PICK ss, rs : /\ Replied(d, ss, rs)
                      /\ \A m \in Elements(rs) : m.kind \in {"result", "http"} => Fits(m)'
    BY <2>2 DEF Handles
  <2>4. \A m \in Elements(up') : m \in Elements(up) \/ m \in Elements(rs)
    BY <2>3, RepliedOrdered
  <2>5. down' = <<>>
    BY <1>5, <1>7
  <2>6. ASSUME NEW m \in Elements(up'), m.kind \in {"result", "http"}, m.of = wait PROVE Fits(m)'
    <3>1. m \notin Elements(up)
      <4> SUFFICES ASSUME m \in Elements(up) PROVE FALSE
        OBVIOUS
      <4>1. m.of < d.id
        BY <1>5 DEF IInv, Ordered
      <4>2. d.id \in Nat
        BY <1>5 DEF Requests
      <4> QED BY <2>1, <2>6, <4>1, <4>2
    <3> QED BY <2>3, <2>4, <2>6, <3>1
  <2> QED BY <1>1, <2>5, <2>6 DEF Answered
<1>8. ASSUME wait' = 0, Done' > 0 PROVE FALSE
  BY <1>1, <1>2, <1>3, <1>8
<1>9. wait' = 0 /\ todo' # <<>> /\ Head(todo').op = "parts" => got' = <<>>
  BY <1>1, <1>3
<1>10. wait' # 0 => wait' = ids' /\ (Pending' \/ Answered')
  BY <1>1, <1>4, <1>6, <1>7
<1> QED BY <1>8, <1>9, <1>10

\* The older sign_tx: the device takes its next input, or gives up.
LEMMA RepliedPosting ==
    ASSUME Types, IInv, NEW d, Serves(d), Handles(d),
           \/ Starts(d) \/ TakesInput(d) \/ GivesSignature(d) \/ CommitsToMessage(d) \/ SendsPart(d)
           \/ Authenticates(d) \/ AnswersPlainly(d) \/ Refuses(d)
    PROVE  Posting'
<1>1. UNCHANGED <<open, cmd, todo, wait, posted, got, outcome, ids>> /\ down # <<>> /\ dev.works
  BY DEF Serves
<1>2. Done' = Done /\ (Posts' <=> Posts)
  BY <1>1, DoneFrame
<1>3. CASE ~Posts
  BY <1>1, <1>2, <1>3 DEF IInv, Posting
<1>4. CASE Posts
  <2>1. /\ d \in Requests /\ d = down[1]
        /\ down' \in Seq(Requests) /\ Len(down') = Len(down) - 1 /\ Len(down) \in Nat \ {0}
        /\ \A j \in 1..Len(down') : down'[j] = down[j + 1]
    BY ServedFacts
  <2>2. /\ Base \in Nat
        /\ Len(down) <= Written
        /\ \A j \in 1..Len(down) : down[j].m = "tx_input" /\ down[j].id = ids - Len(down) + j
        /\ Sess.kind = "tx" =>
              /\ Sess.ae = FALSE /\ Sess.n = TxInputs
              /\ Len(Sess.in) = Written - Len(down)
              /\ \A j \in 1..Len(Sess.in) : Sess.in[j].id = Base + j
        /\ \A r \in Elements(up) : r.kind \in {"result", "http"} /\ r.of > Base =>
              r.kind = "result" /\ r.value = r.of - Base
        /\ Len(posted) = Written - Taken
        /\ \A j \in 1..Len(posted) : posted[j] = Base + Taken + j
        /\ wait # 0 => wait = Base + Taken
    BY <1>1, <1>4 DEF IInv, Posting
  <2>3. Written' = Written /\ Taken' = Taken /\ Base' = Base
    <3>1. Written' = Written /\ Taken' = Taken
      BY <1>1, <1>2 DEF Written, Taken
    <3> QED BY <1>1, <3>1 DEF Base
  <2>4. d.m = "tx_input" /\ d.id = ids - Len(down) + 1 /\ ids \in Nat
    BY <2>1, <2>2 DEF Types
  <2>5. Written \in Nat /\ Base = ids - Written
    <3>1. Done \in Nat /\ TxInputs \in Nat /\ Done > 0
      <4>1. Running /\ cmd # "none"
        BY <1>4 DEF IInv, Posts
      <4> QED BY <1>4, <4>1, JadeRpcAssumption DEF Running, Posts
    <3>2. Written \in Nat
      BY <3>1 DEF Written
    <3> QED BY <3>2 DEF Base
  <2> HIDE DEF Written, Taken, Base
  <2>6. Len(down') <= Written
    BY <2>1, <2>2, <2>5
  <2>7. ASSUME NEW j \in 1..Len(down')
        PROVE  down'[j].m = "tx_input" /\ down'[j].id = ids - Len(down') + j
    <3>1. j + 1 \in 1..Len(down) /\ down'[j] = down[j + 1]
      BY <2>1
    <3>2. down[j + 1].m = "tx_input" /\ down[j + 1].id = ids - Len(down) + (j + 1)
      BY <2>2, <3>1
    <3>3. ids - Len(down) + (j + 1) = ids - Len(down') + j
      BY <2>1, <2>4
    <3> QED BY <3>1, <3>2, <3>3
  <2> DEFINE session == Sess'.kind = "tx" =>
                 /\ Sess'.ae = FALSE /\ Sess'.n = TxInputs
                 /\ Len(Sess'.in) = Written - Len(down')
                 /\ \A j \in 1..Len(Sess'.in) : Sess'.in[j].id = Base + j
             replies == \A r \in Elements(up') : r.kind \in {"result", "http"} /\ r.of > Base =>
                 r.kind = "result" /\ r.value = r.of - Base
  <2>8. ASSUME session, replies PROVE Posting'
    <3>1. /\ Base' \in Nat /\ Len(down') <= Written'
          /\ \A j \in 1..Len(down') : down'[j].m = "tx_input" /\ down'[j].id = ids' - Len(down') + j
          /\ Len(posted') = Written' - Taken'
          /\ \A j \in 1..Len(posted') : posted'[j] = Base' + Taken' + j
          /\ wait' # 0 => wait' = Base' + Taken'
      BY <1>1, <2>2, <2>3, <2>6, <2>7
    <3>2. dev'.works /\ Sess'.kind = "tx" =>
                 /\ Sess'.ae = FALSE /\ Sess'.n = TxInputs
                 /\ Len(Sess'.in) = Written' - Len(down')
                 /\ \A j \in 1..Len(Sess'.in) : Sess'.in[j].id = Base' + j
      BY <2>3, <2>8
    <3>3. \A r \in Elements(up') : r.kind \in {"result", "http"} /\ r.of > Base' =>
                 r.kind = "result" /\ r.value = r.of - Base'
      BY <2>3, <2>8
    <3> QED BY <1>2, <1>4, <3>1, <3>2, <3>3 DEF Posting
  <2>9. up \in Seq(Messages) /\ Sess \in Session /\ Sess.in \in Seq(Requests) /\ Sess.n \in Nat
    BY DEF Types, Session, Sess
  <2>10. CASE Refuses(d)
    <3>1. Running
      BY DEF IInv
    <3>2. dev' = [dev EXCEPT !.session = NoSession]
      BY <2>1, <2>10, <3>1, RefusesHandles
    <3>3. PICK m : up' = up \o <<m>> /\ m \in Messages /\ m.kind = "error"
      BY <2>1, <2>10, <3>1, RefusesHandles
    <3>4. Sess' = NoSession
      BY <3>2 DEF Sess, Types
    <3>5. session
      BY <3>4, NoSessionType
    <3>6. \A r \in Elements(up') : r \in Elements(up) \/ r = m
      <4> DEFINE q == <<m>>
      <4>1. q \in Seq(Messages) /\ Elements(q) = {m} /\ up' = up \o q
        BY <3>3 DEF Elements
      <4> HIDE DEF q
      <4> QED BY <2>9, <4>1, ElementsConcat
    <3>7. replies
      BY <2>2, <3>3, <3>6
    <3> QED BY <2>8, <3>5, <3>7
  <2>11. CASE TakesInput(d)
    <3>1. Sess.kind = "tx" /\ Len(Sess.in) < Sess.n
      BY <2>11 DEF TakesInput
    <3>2. /\ Sess.n = TxInputs /\ Len(Sess.in) = Written - Len(down)
          /\ \A j \in 1..Len(Sess.in) : Sess.in[j].id = Base + j
      BY <2>2, <3>1
    <3>3. Sess.ae = FALSE
      BY <2>2, <3>1, Zenon
    <3>4. PICK ss : ss = [Sess EXCEPT !.in = Append(@, d)]
      OBVIOUS
    <3>5. ss.in = Append(Sess.in, d) /\ ss.n = Sess.n /\ ss.kind = "tx"
      BY <2>9, <3>1, <3>4 DEF Session
    <3>6. ss.ae = FALSE
      BY <2>9, <3>3, <3>4 DEF Session
    <3>7. /\ Len(ss.in) = Len(Sess.in) + 1 /\ Len(Sess.in) \in Nat /\ ss.in[Len(ss.in)] = d
          /\ \A j \in 1..Len(Sess.in) : ss.in[j] = Sess.in[j]
          /\ ss.in \in Seq(Requests)
      BY <2>1, <2>9, <3>5
    <3>8. Len(ss.in) = Written - Len(down') /\ d.id = Base + Len(ss.in)
      BY <2>1, <2>4, <2>5, <3>2, <3>7
    <3>9. ASSUME NEW j \in 1..Len(ss.in) PROVE ss.in[j].id = Base + j
      <4>1. j \in 1..Len(Sess.in) \/ j = Len(ss.in)
        BY <3>7
      <4>2. CASE j \in 1..Len(Sess.in)
        BY <3>2, <3>7, <4>2
      <4>3. CASE j = Len(ss.in)
        BY <3>7, <3>8, <4>3
      <4> QED BY <4>1, <4>2, <4>3
    <3>10. IF Len(ss.in) < ss.n THEN Answers(ss, <<>>, 0)
           ELSE Answers(NoSession, [j \in 1..ss.n |-> Reply(ss.in[j], "result", j)], 0)
      <4> DEFINE z == [Sess EXCEPT !.in = Append(@, d)]
      <4>1. IF z.ae THEN Answers(z, <<Reply(d, "result", Len(z.in))>>, 0)
            ELSE IF Len(z.in) < z.n THEN Answers(z, <<>>, 0)
            ELSE Answers(NoSession, [j \in 1..z.n |-> Reply(z.in[j], "result", j)], 0)
        BY <2>11, Zenon DEF TakesInput
      <4>2. ss = z
        BY <3>4
      <4> HIDE DEF z
      <4>3. ~z.ae
        BY <3>6, <4>2, Zenon
      <4>4. IF Len(z.in) < z.n THEN Answers(z, <<>>, 0)
            ELSE Answers(NoSession, [j \in 1..z.n |-> Reply(z.in[j], "result", j)], 0)
        BY <4>1, <4>3, Zenon
      <4> QED BY <4>2, <4>4, Zenon
    <3>11. CASE Len(ss.in) < ss.n
      <4>1. dev' = [dev EXCEPT !.session = ss] /\ up' = up \o <<>>
        BY <3>10, <3>11 DEF Answers
      <4>2. Sess' = ss /\ up' = up
        BY <2>9, <4>1 DEF Sess, Types
      <4>3. session
        BY <3>2, <3>5, <3>6, <3>8, <3>9, <4>2
      <4>4. replies
        BY <2>2, <4>2
      <4> QED BY <2>8, <4>3, <4>4
    <3>12. CASE ~(Len(ss.in) < ss.n)
      <4>1. PICK rs : rs = [j \in 1..ss.n |-> Reply(ss.in[j], "result", j)]
        OBVIOUS
      <4>2. dev' = [dev EXCEPT !.session = NoSession] /\ up' = up \o rs
        BY <3>10, <3>12, <4>1 DEF Answers
      <4>3. ss.n = Len(ss.in) /\ ss.n \in Nat
        BY <2>9, <3>1, <3>5, <3>7, <3>12
      <4>4. ASSUME NEW j \in 1..ss.n
            PROVE  rs[j] \in Messages /\ rs[j].kind = "result" /\ rs[j].of = Base + j /\ rs[j].value = j
        <5>1. PICK x : x = ss.in[j]
          OBVIOUS
        <5>2. x \in Requests /\ j \in Nat /\ x.id = Base + j
          BY <3>7, <3>9, <4>3, <4>4, <5>1
        <5>3. PICK y : y = rs[j]
          OBVIOUS
        <5>4. y = Reply(x, "result", j)
          BY <4>1, <4>4, <5>1, <5>3
        <5>5. y \in Messages /\ y.kind = "result" /\ y.of = x.id /\ y.value = j
          BY <5>2, <5>4 DEF Reply, Requests, Messages
        <5> QED BY <5>2, <5>3, <5>5
      <4>5. rs \in Seq(Messages) /\ Len(rs) = ss.n
        <5>1. rs \in [1..ss.n -> Messages]
          BY <4>1, <4>4
        <5> QED BY <4>3, <5>1, ListOf
      <4>6. \A r \in Elements(up') : r \in Elements(up) \/ r \in Elements(rs)
        BY <2>9, <4>2, <4>5, ElementsConcat
      <4>7. ASSUME NEW r \in Elements(rs) PROVE r.kind = "result" /\ r.value = r.of - Base
        <5>1. PICK j \in 1..ss.n : r = rs[j]
          BY <4>5, <4>7 DEF Elements
        <5>2. r.kind = "result" /\ r.of = Base + j /\ r.value = j
          BY <4>4, <5>1
        <5> QED BY <2>2, <4>3, <5>2
      <4>8. replies
        BY <2>2, <4>6, <4>7
      <4>9. Sess' = NoSession
        BY <4>2 DEF Sess, Types
      <4>10. session
        BY <4>9, NoSessionType
      <4> QED BY <2>8, <4>8, <4>10
    <3> QED BY <3>11, <3>12
  <2>12. Refuses(d) \/ TakesInput(d)
    <3>1. ~Starts(d) /\ ~GivesSignature(d) /\ ~CommitsToMessage(d)
      BY <2>4 DEF Starts, GivesSignature, CommitsToMessage
    <3>2. ~SendsPart(d) /\ ~Authenticates(d) /\ ~AnswersPlainly(d)
      BY <2>4 DEF SendsPart, Authenticates, AnswersPlainly
    <3> QED BY <3>1, <3>2
  <2> QED BY <2>10, <2>11, <2>12
<1> QED BY <1>3, <1>4

LEMMA DeviceAnswersKeeps ==
    ASSUME Types, IInv, DeviceAnswers
    PROVE  Types' /\ IInv'
<1>1. PICK d : d = Head(down)
  OBVIOUS
<1>2. Serves(d)
  BY <1>1 DEF DeviceAnswers, Serves
<1>3. \/ Starts(d) \/ TakesInput(d) \/ GivesSignature(d) \/ CommitsToMessage(d) \/ SendsPart(d)
      \/ Authenticates(d) \/ AnswersPlainly(d) \/ Refuses(d)
  BY <1>1 DEF DeviceAnswers
<1>4. d \in Requests /\ Running
  BY <1>2, ServedFacts DEF IInv
<1>5. Handles(d)
  <2>1. CASE Starts(d)
    BY <1>2, <1>4, <2>1, StartsHandles
  <2>2. CASE TakesInput(d)
    BY <1>2, <1>4, <2>2, TakesHandles
  <2>3. CASE GivesSignature(d)
    BY <1>2, <1>4, <2>3, SignatureHandles
  <2>4. CASE CommitsToMessage(d)
    BY <1>2, <1>4, <2>4, CommitsHandles
  <2>5. CASE SendsPart(d)
    BY <1>2, <1>4, <2>5, SendsPartHandles
  <2>6. CASE Authenticates(d) \/ AnswersPlainly(d)
    BY <1>2, <1>4, <2>6, AuthenticatesHandles
  <2>7. CASE Refuses(d)
    BY <1>2, <1>4, <2>7, RefusesHandles
  <2> QED BY <1>3, <2>1, <2>2, <2>3, <2>4, <2>5, <2>6, <2>7
<1>6. PICK ss, rs : Replied(d, ss, rs)
  BY <1>5 DEF Handles
<1>7. Types' /\ Ordered' /\ Entropy'
  BY <1>2, <1>6, RepliedOrdered
<1>8. Synchronous'
  BY <1>2, <1>5, RepliedSynchronous
<1>9. Posting'
  BY <1>2, <1>3, <1>5, RepliedPosting
<1>10. UNCHANGED <<open, cmd, todo, wait, posted, got, outcome, ids>>
  BY <1>2 DEF Serves
<1>11. Running' /\ ResultsFit' /\ Parts' /\ PsbtWhole'
  <2>1. Running /\ ResultsFit /\ Parts /\ PsbtWhole
    BY DEF IInv
  <2>2. Done' = Done
    BY <1>10, DoneFrame
  <2>3. Running'
    BY <1>10, <2>1, <2>2 DEF Running
  <2> QED BY <1>10, <2>1, <2>3 DEF ResultsFit, Parts, PsbtWhole
<1> QED BY <1>7, <1>8, <1>9, <1>11 DEF IInv

----------------------------------------------------------------------------
(* The device stops and starts again                                       *)

\* A device that stops forgets its session; the host notices nothing yet.
LEMMA Stops ==
    ASSUME Types, IInv, DeviceStops
    PROVE  Types' /\ IInv'
<1>0. PICK closed \in {FALSE, dev.tcp} :
        dev' = [dev EXCEPT !.works = FALSE, !.closed = closed, !.session = NoSession]
  BY DEF DeviceStops
<1>1. /\ UNCHANGED <<open, cmd, todo, wait, posted, got, outcome, down, up, ids>>
      /\ dev \in [works : BOOLEAN, tcp : BOOLEAN, closed : BOOLEAN, session : Session] /\ closed \in BOOLEAN
      /\ dev' = [dev EXCEPT !.works = FALSE, !.closed = closed, !.session = NoSession]
  BY <1>0 DEF DeviceStops, Types
<1>2. dev'.works = FALSE /\ dev'.session = NoSession /\ ~dev'.works
  BY <1>1
<1>3. Types'
  <2>1. dev' \in [works : BOOLEAN, tcp : BOOLEAN, closed : BOOLEAN, session : Session]
    BY <1>1, NoSessionType
  <2> QED BY <1>1, <2>1 DEF Types
<1>4. Done' = Done /\ (Posts' <=> Posts)
  BY <1>1, DoneFrame
<1>5. Running'
  <2>1. Running
    BY DEF IInv
  <2> QED BY <1>1, <1>4, <2>1 DEF Running
<1>6. Ordered'
  <2>1. Ordered
    BY DEF IInv
  <2>2. Elements(Sess'.in) = {}
    BY <1>2, NoSessionType DEF Sess
  <2> QED BY <1>1, <2>1, <2>2 DEF Ordered
<1>7. Synchronous'
  <2>1. Synchronous
    BY DEF IInv
  <2>2. \A d : Carries(d)' <=> Carries(d)
    BY <1>1 DEF Carries
  <2>3. Pending => Pending'
    BY <1>1, <1>2, <1>4, <2>2 DEF Pending
  <2>4. \A r : Fits(r) => Fits(r)'
    BY <1>1, <1>2, <1>4 DEF Fits
  <2>5. Answered => Answered'
    BY <1>1, <2>4 DEF Answered
  <2> QED BY <1>1, <1>2, <1>4, <2>1, <2>3, <2>5 DEF Synchronous
<1>8. Posting'
  <2>1. Posting
    BY DEF IInv
  <2>2. Written' = Written /\ Taken' = Taken /\ Base' = Base
    BY <1>1, <1>4 DEF Written, Taken, Base
  <2> QED BY <1>1, <1>2, <1>4, <2>1, <2>2 DEF Posting
<1>9. Entropy'
  <2>1. Entropy
    BY DEF IInv
  <2>2. Sess'.kind = "none"
    BY <1>2, NoSessionType DEF Sess
  <2> QED BY <1>1, <2>1, <2>2 DEF Entropy
<1>10. ResultsFit' /\ Parts' /\ PsbtWhole'
  <2>1. ResultsFit /\ Parts /\ PsbtWhole
    BY DEF IInv
  <2> QED BY <1>1, <2>1 DEF ResultsFit, Parts, PsbtWhole
<1> QED BY <1>3, <1>5, <1>6, <1>7, <1>8, <1>9, <1>10 DEF IInv

\* It starts again while the port is closed, so that no method runs, and
\* with nothing on the line.
LEMMA Restarts ==
    ASSUME Types, IInv, DeviceRestarts
    PROVE  Types' /\ IInv'
<1>1. /\ UNCHANGED <<open, cmd, todo, wait, posted, got, outcome, ids>>
      /\ down' = <<>> /\ up' = <<>> /\ dev' = [dev EXCEPT !.works = TRUE, !.closed = FALSE] /\ ~open
  BY DEF DeviceRestarts
<1>2. dev \in [works : BOOLEAN, tcp : BOOLEAN, closed : BOOLEAN, session : Session]
  BY DEF Types
<1>3. dev' \in [works : BOOLEAN, tcp : BOOLEAN, closed : BOOLEAN, session : Session] /\ dev'.works /\ dev'.session = dev.session
  BY <1>1, <1>2
<1>4. down' \in Seq(Requests) /\ up' \in Seq(Messages)
  BY <1>1
<1>5. Types'
  BY <1>1, <1>3, <1>4 DEF Types
<1>6. cmd = "none"
  BY <1>1 DEF IInv, Running
<1>7. Running' /\ Synchronous'
  <2>1. Running
    BY DEF IInv
  <2> QED BY <1>1, <1>6, <2>1 DEF Running, Synchronous
<1>8. Posting'
  <2>1. Posting
    BY DEF IInv
  <2>2. ~Posts /\ ~Posts'
    BY <1>1, <1>6 DEF Posts
  <2> QED BY <1>1, <2>1, <2>2 DEF Posting
<1>9. Len(down') = 0 /\ Elements(down') = {} /\ Elements(up') = {}
  BY <1>1, <1>4, ElementsNone
<1>10. Ordered' /\ Entropy'
  <2>1. Ordered
    BY DEF IInv
  <2>2. Ordered'
    BY <1>1, <1>3, <1>9, <2>1 DEF Ordered, Sess
  <2>3. Entropy'
    BY <1>3, <1>9 DEF Entropy
  <2> QED BY <2>2, <2>3
<1>11. ResultsFit' /\ Parts' /\ PsbtWhole'
  <2>1. ResultsFit /\ Parts /\ PsbtWhole
    BY DEF IInv
  <2> QED BY <1>1, <2>1 DEF ResultsFit, Parts, PsbtWhole
<1> QED BY <1>5, <1>7, <1>8, <1>10, <1>11 DEF IInv

----------------------------------------------------------------------------
(* The theorems                                                            *)

\* Before the first method, with an empty line and an idle device, the
\* invariant holds.
LEMMA Begun ==
    ASSUME Init
    PROVE  Types /\ IInv
<1> USE DEF Init
<1>1. Types
  <2>1. dev \in [works : BOOLEAN, tcp : BOOLEAN, closed : BOOLEAN, session : Session]
    BY NoSessionType
  <2>2. /\ todo \in Seq(Steps) /\ posted \in Seq(Nat) /\ got \in Seq(Results)
        /\ down \in Seq(Requests) /\ up \in Seq(Messages)
    OBVIOUS
  <2> QED BY <2>1, <2>2 DEF Types
<1>2. /\ Len(down) = 0 /\ Len(got) = 0 /\ Elements(down) = {} /\ Elements(up) = {}
  BY DEF Elements
<1>3. Sess = NoSession /\ dev.works
  BY DEF Sess
<1>4. Elements(Sess.in) = {}
  BY <1>3, NoSessionType
<1>5. Running /\ Synchronous
  BY DEF Running, Synchronous
<1>6. Ordered /\ Entropy
  BY <1>2, <1>3, <1>4 DEF Ordered, Entropy
<1>7. Posting
  BY DEF Posting, Posts
<1>8. ResultsFit /\ Parts /\ PsbtWhole
  BY <1>2 DEF ResultsFit, Parts, PsbtWhole
<1> QED BY <1>1, <1>5, <1>6, <1>7, <1>8 DEF IInv

\* Every step of Next, and one that changes nothing, keeps the invariant.
LEMMA Kept ==
    ASSUME Types, IInv, [Next]_vars
    PROVE  Types' /\ IInv'
<1>1. CASE UNCHANGED vars
  <2>1. /\ UNCHANGED <<open, cmd, todo, wait, posted, got, outcome, down, dev, ids>> /\ up' = up
    BY <1>1 DEF vars
  <2>2. up' \in Seq(Messages)
    BY <2>1 DEF Types
  <2> QED BY <2>1, <2>2, LessUp
<1>2. CASE \/ Connect \/ (\E drain \in BOOLEAN : Disconnect(drain)) \/ Return \/ Reject
           \/ SkipMessage \/ Timeout \/ Kill \/ DeviceLogs
  BY <1>2, LineSteps
<1>3. CASE \E c \in Commands : Begin(c)
  BY <1>3, Begins
<1>4. CASE Ask
  BY <1>4, Asks
<1>5. CASE Post
  BY <1>5, Posting_Post
<1>6. CASE Collect
  BY <1>6, Posting_Collect
<1>7. CASE ReadReply
  BY <1>7, Reads
<1>8. CASE DeviceAnswers
  BY <1>8, DeviceAnswersKeeps
<1>9. CASE DeviceStops
  BY <1>9, Stops
<1>10. CASE DeviceRestarts
  BY <1>10, Restarts
<1>11. CASE SignAgain
  BY <1>11, SignsAgain
<1> QED BY <1>1, <1>2, <1>3, <1>4, <1>5, <1>6, <1>7, <1>8, <1>9, <1>10, <1>11 DEF Next

\* The invariant holds in every state: at any time the method that runs is at
\* a place of its program, and the line and the device's session are where
\* that place puts them (make_rpc_call, _send_tx_inputs).
THEOREM InStep == Spec => [](Types /\ IInv)
<1>1. Init => Types /\ IInv
  BY Begun
<1>2. Types /\ IInv /\ [Next]_vars => (Types /\ IInv)'
  BY Kept
<1> QED BY <1>1, <1>2, PTL DEF Spec

\* For every number of inputs, faults and broken-off methods, each result that
\* a method reads answers the request it has just made, and those of tx_input
\* and get_signature are about the input in whose place legacy_sign_tx puts
\* them (validate_reply, _send_tx_inputs).
THEOREM ResultsAlwaysFit == Spec => []ResultsFit
<1>1. IInv => ResultsFit
  BY DEF IInv
<1> QED BY <1>1, InStep, PTL

\* The host's entropy reaches the device only after its commitments on every
\* input, also when a transaction was broken off and another one begun
\* (_send_tx_inputs).
THEOREM EntropyIsLate == Spec => []EntropyAfterCommitments
<1>1. ASSUME Types, IInv PROVE EntropyAfterCommitments
  <2> SUFFICES ASSUME down # <<>>, Head(down).entropy, Sess.kind = "tx"
               PROVE  Len(Sess.in) = Sess.n
    BY DEF EntropyAfterCommitments
  <2>1. down \in Seq(Requests)
    BY <1>1 DEF Types
  <2>2. Head(down) = down[1] /\ Head(down) \in Requests /\ Len(down) \in Nat \ {0}
    BY <2>1, ElementsTail
  <2>3. Head(down).entropy \in BOOLEAN
    BY <2>2 DEF Requests
  <2>4. down[1].entropy = TRUE
    BY <2>2, <2>3
  <2>5. 1 \in 1..Len(down)
    BY <2>2
  <2> QED BY <1>1, <2>4, <2>5 DEF IInv, Entropy
<1>2. Types /\ IInv => EntropyAfterCommitments
  BY <1>1
<1> QED BY <1>2, InStep, PTL

\* What sign_psbt returns is every part of one signed PSBT, in order, once,
\* for every number of parts (sign_psbt).
THEOREM PsbtIsWhole == Spec => []PsbtWhole
<1>1. IInv => PsbtWhole
  BY DEF IInv
<1> QED BY <1>1, InStep, PTL
=============================================================================
