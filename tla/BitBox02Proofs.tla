--------------------------- MODULE BitBox02Proofs ---------------------------
(***************************************************************************)
(* What the BitBox02's client promises, for any devices, commands, inputs  *)
(* and any number of faults.                                               *)
(***************************************************************************)
EXTENDS BitBox02, TLAPS

----------------------------------------------------------------------------
(* Types                                                                   *)

Pairing == {"attestation", "unlock", "start", "handshake1"}
PairingEnds == {"info", "handshake2", "verify", "confirm", "init_info"}
Dialog == {"btc_sign_input", "btc_sign_output", "prevtx", "nonce"}
Methods ==
    {"antiklepto_signature", "bip85", "bluetooth_toggle", "bluetooth_upgrade", "btc_pub", "btc_sign_init",
     "cardano_address", "cardano_sign", "cardano_xpubs", "check_backup", "check_sdcard", "create_backup",
     "device_info", "device_name", "disable_passphrase", "electrum_encryption_key", "enable_passphrase",
     "eth_pub", "eth_sign", "eth_sign_msg", "eth_typed", "fingerprint", "info_again",
     "insert_remove_sdcard", "is_script_config_registered", "list_backups", "none", "reboot",
     "register_script_config", "reset", "restore_backup", "restore_from_mnemonic", "set_password",
     "show_mnemonic", "sign_message", "version"}
Ops == {"raw", "ask", "need", "query", "loop", "unless", "toggle", "sign"}
Failures == SUBSET {"generic", "abort", "other", "gone"}
Outcomes ==
    {"none", "ok", "false", "raised", "entry", "canceled", "deviceFailure", "raw", "unsupported",
     "outdatedLibrary", "notReady", "badState"}

Steps ==
    [op : Ops, m : Pairing \cup PairingEnds \cup Dialog \cup Methods, v : Nat, on : Failures, i : Nat,
     commit : BOOLEAN, nonce : BOOLEAN]

Hosts ==
    [open : BOOLEAN, link : BOOLEAN, silent : BOOLEAN, bb02 : BOOLEAN,
     cmd : Commands \cup {"none"}, last : Commands \cup {"none"}, todo : Seq(Steps),
     q : {"none", "new", "poll"}, id : Nat, chan : Nat, key : Keys \cup {0}, sent : Nat,
     lost : BOOLEAN, cancel : BOOLEAN, seen : BOOLEAN, outcome : Outcomes]

Devices ==
    [ver : Nat, key : Keys, works : BOOLEAN, trusts : BOOLEAN, initialized : BOOLEAN, backup : BOOLEAN,
     passphrase : BOOLEAN, registered : BOOLEAN, stage : Nat, chan : Nat, rcvd : Nat, k : Nat]

Signatures == [index : Nat, of : Nat, honest : BOOLEAN]

RawAnswers == [kind : {"raw"}, ok : BOOLEAN, chan : Nat, key : Keys \cup {0}, verify : BOOLEAN]
NextAnswers ==
    [kind : {"next"}, type : {"INPUT", "OUTPUT", "PREVTX", "DONE", "HOST_NONCE"}, index : Nat,
     sig : BOOLEAN, of : Nat, honest : BOOLEAN]
InfoAnswers == [kind : {"info"}, initialized : BOOLEAN, passphrase : BOOLEAN]
OtherAnswers ==
    [kind : {"registered"}, yes : BOOLEAN] \cup [kind : {"signature"}, honest : BOOLEAN]
        \cup [kind : {"error"}, code : {"abort", "generic", "other"}]
        \cup [kind : {"none", "noise", "done", "again"}]

\* The answer is of the kind that the step calls for.
Fits(s, a) ==
    /\ s.op = "raw" => a \in RawAnswers
    /\ s.op # "raw" => a \in NextAnswers \cup InfoAnswers \cup OtherAnswers
    /\ s.m \in {"device_info", "init_info"} /\ s.op \in {"query", "toggle"} /\ ~s.nonce
          => a.kind \in {"info", "error", "noise"}

Types ==
    /\ host \in Hosts
    /\ dev \in Devices
    /\ sign \in [pass2 : BOOLEAN, sigs : Seq(Signatures)]
    /\ job \in [id : Nat, st : {"none", "working", "done", "other"}, step : Steps, chan : Nat, no : Nat,
                ans : RawAnswers \cup NextAnswers \cup InfoAnswers \cup OtherAnswers]
    /\ used \in [commands : Nat, faults : Nat, asks : Nat, ids : Nat]

----------------------------------------------------------------------------
(* Steps of the host and the request the device works on                   *)

\* Before the command itself.  There is no step after the last one.
Connects(t) ==
    /\ t # <<>>
    /\ \A j \in 1..Len(t) :
          /\ t[j].m \in (IF j = Len(t) THEN PairingEnds ELSE Pairing)
          /\ t[j].op = IF t[j].m = "init_info" THEN "query" ELSE IF t[j].m = "confirm" THEN "ask" ELSE "raw"
          /\ t[j].on = {} /\ ~t[j].nonce
    /\ Len(t) > 1 => t[Len(t)].m = "handshake2"

\* A step of the programs.
Plain(s) ==
    /\ s.m \in Methods
    /\ \/ s.op \in {"need", "query", "loop", "unless", "toggle", "sign"}
       \/ (s.op = "raw" /\ s.m = "info_again")
    /\ s.op = "sign" => s.m = "btc_sign_init"

\* The first step may be one of the dialogue of btc_sign.  A step that may be
\* needless follows the question whether it is.
Runs(t) ==
    \A j \in 1..Len(t) :
        /\ Plain(t[j]) \/ (j = 1 /\ t[j].op = "sign" /\ t[j].m \in Dialog)
        /\ t[j].op = "unless" => j < Len(t)

HostShape ==
    /\ ~host.open => host = NoHost
    /\ host.cmd = "none" => host.todo = <<>> /\ host.q = "none"
    /\ host.cmd # "none" => host.cmd \in Commands /\ host.outcome = "none" /\ host.last = host.cmd
    /\ host.q # "none" =>
          /\ host.todo # <<>> /\ host.id > 0
          /\ Now.op \notin {"ask", "need"} /\ Now.m \notin {"info", "info_again"}
    /\ Connects(host.todo) \/ Runs(host.todo)
    /\ host.bb02 => host.chan # 0
    /\ Connects(host.todo) => (host.bb02 <=> Now.m = "init_info")
    /\ ~Connects(host.todo) /\ ~host.bb02 => host.todo \in {<<>>, InfoAgain}
    /\ host.todo # <<>> /\ Now.m \in {"verify", "confirm"} => host.chan # 0

\* The request of the host is the one the device has, and identifiers are
\* not used again.
JobShape ==
    /\ host.id <= used.ids /\ job.id <= used.ids
    /\ host.chan <= used.ids /\ dev.chan <= used.ids
    /\ host.q = "new" => host.id > job.id
    /\ host.q = "poll" =>
          /\ job.id = host.id /\ job.st \in {"working", "done"}
          /\ job.step = Now /\ job.chan = host.chan /\ job.no = host.sent
    /\ job.st \in {"working", "done"} => job.id > 0
    /\ job.st = "done" => Fits(job.step, job.ans)
    /\ job.st = "done" /\ job.step.op = "raw" /\ job.step.m = "handshake2" /\ job.ans.ok => job.ans.chan = job.id

\* A request of this connection that nobody polls any more has cost the
\* client the connection's order of messages.
Stale ==
    /\ host.q # "none" => host.chan < host.id
    /\ job.st \in {"working", "done"} => host.chan < job.id
    /\ host.q # "poll" /\ job.st \in {"working", "done"} /\ job.step.op # "raw" /\ host.chan # 0 => host.lost

----------------------------------------------------------------------------
(* Devices that were compared                                              *)

Trust == known \subseteq confirmed /\ ChannelVerified

----------------------------------------------------------------------------
(* Signatures with the host's nonce                                        *)

Klepto ==
    /\ host.todo # <<>> /\ Now.m = "btc_sign_input" => Now.commit = perform_antiklepto(sign, Now.i)
    /\ host.todo # <<>> /\ Now.m = "nonce" => Now.nonce /\ ~Now.commit
    /\ SignaturesVerified

----------------------------------------------------------------------------
(* The dialogue of btc_sign                                                *)

SignCommands == {"sign_tx", "sign_tx_multisig"}

\* Where the first pass ends and after which entry the second begins.
FirstEnd == IF needsPrev THEN 2 * n - 1 ELSE n
BeforeSecond == Len(Script) - 1 - n

InOrder(sigs) == \A j \in 1..Len(sigs) : sigs[j].index = j /\ sigs[j].of = j

\* The loop's state when the k-th entry of the script is to be answered.
At(k, g) ==
    /\ k \in 1..(Len(Script) - 1)
    /\ g.pass2 <=> k > FirstEnd
    /\ Len(g.sigs) = IF k > BeforeSecond THEN k - BeforeSecond - 1 ELSE 0
    /\ InOrder(g.sigs)

Answering(s, k) ==
    /\ s.m \in {"btc_sign_input", "nonce"} => Script[k].type = "INPUT" /\ s.i = Script[k].index
    /\ s.m = "nonce" => SecondPass(k)
    /\ s.m = "btc_sign_output" => Script[k].type = "OUTPUT"
    /\ s.m = "prevtx" => Script[k].type = "PREVTX"

\* The answer ready for the host asks for the host's nonce or moves on.
Moves(s, g, k, a) ==
    \/ /\ s.m = "btc_sign_input" /\ s.commit /\ a.type = "HOST_NONCE"
       /\ At(k, g) /\ Answering(s, k) /\ SecondPass(k)
    \/ /\ s.m # "btc_sign_init"
       /\ At(k - 1, g) /\ Answering(s, k - 1)
       /\ k \in 1..Len(Script) /\ a.type = Script[k].type /\ a.index = Script[k].index
       /\ s.m = "btc_sign_input" => ~(s.commit /\ SecondPass(k - 1))
       /\ s.m \in {"btc_sign_input", "nonce"} /\ SecondPass(k - 1) => a.of = s.i
    \/ /\ s.m = "btc_sign_init"
       /\ k = 1 /\ a.type = Script[1].type /\ a.index = Script[1].index

Synced ==
    host.cmd \in SignCommands /\ host.todo # <<>> /\ Now.op = "sign" /\ ~host.lost =>
        /\ /\ Now.m \in Dialog /\ host.chan = dev.chan
           /\ host.q # "poll" \/ job.st = "working"
           => At(dev.k, sign) /\ Answering(Now, dev.k)
        /\ host.q = "poll" /\ job.st = "done" /\ job.ans.kind = "next"
           => host.chan = dev.chan /\ Moves(Now, sign, dev.k, job.ans)

\* What is left of sign_tx ends with btc_sign.
SignsLast(t) ==
    \A j \in 1..Len(t) :
        /\ t[j].op = "sign" <=> j = Len(t)
        /\ t[j].op # "toggle"
        /\ t[j].op = "unless" => j + 2 <= Len(t)
        /\ t[j].on = {}

Complete == Len(sign.sigs) = n /\ InOrder(sign.sigs)

SignShape ==
    /\ host.cmd \in SignCommands =>
          /\ Connects(host.todo) \/ SignsLast(host.todo)
          /\ host.todo = <<>> => Complete
          /\ host.todo # <<>> /\ Now.m \notin Dialog => sign = NoSign
    /\ host.outcome = "ok" /\ host.last \in SignCommands => Complete

----------------------------------------------------------------------------
(* What commands do to the device                                          *)

EffectCommands == {"setup_device", "restore_device", "toggle_passphrase"}

Named == Step("query", "device_name")
Password == [Step("query", "set_password") EXCEPT !.on = {"generic"}]
Backup == [Step("query", "create_backup") EXCEPT !.on = {"generic"}]
Restore == Step("query", "restore_from_mnemonic")

\* What can be left of such a command.
Left(c) ==
    CASE c = "setup_device" -> {<<Named, Password, Backup>>, <<Password, Backup>>, <<Backup>>, <<>>}
      [] c = "restore_device" -> {<<Named, Restore>>, <<Restore>>, <<>>}
      [] OTHER -> {toggle_passphrase, enable_mnemonic_passphrase, disable_mnemonic_passphrase, <<>>}

\* The answer to the request of the host.
Answer(kind) == host.q = "poll" /\ job.st = "done" /\ job.ans.kind = kind

\* Where the device is while the command has come to the method m.
AtMethod(m) ==
    /\ m = "set_password" => (Answer("done") => dev.initialized)
    /\ m = "create_backup" => ~host.lost /\ dev.initialized /\ (Answer("done") => dev.backup)
    /\ m = "restore_from_mnemonic" => (Answer("done") => dev.initialized)
    /\ m = "device_info" => (Answer("info") => job.ans.passphrase = dev.passphrase)
    /\ m = "enable_passphrase" => ~host.lost /\ ~host.seen /\ (dev.passphrase <=> Answer("done"))
    /\ m = "disable_passphrase" => ~host.lost /\ host.seen /\ (dev.passphrase <=> ~Answer("done"))

Reached(c) ==
    /\ host.chan # 0 /\ ~host.lost
    /\ c \in {"setup_device", "restore_device"} => dev.initialized
    /\ c = "setup_device" => dev.backup
    /\ c = "toggle_passphrase" => dev.passphrase # host.seen

EffectShape ==
    /\ host.cmd \in EffectCommands /\ ~Connects(host.todo) =>
          /\ host.chan # 0 /\ host.todo \in Left(host.cmd)
          /\ IF host.todo = <<>> THEN Reached(host.cmd) ELSE AtMethod(Now.m)
    /\ host.outcome = "ok" /\ host.last \in EffectCommands => Reached(host.last)

\* A query without the anti-klepto protocol is done or not.
Simple ==
    {"device_name", "set_password", "create_backup", "restore_from_mnemonic", "enable_passphrase", "disable_passphrase"}

AnswerShape ==
    job.st = "done" /\ job.step.op = "query" /\ ~job.step.nonce /\ job.step.m \in Simple
        => job.ans.kind \in {"done", "error", "noise"}

----------------------------------------------------------------------------
(* Programs                                                                *)

PlainSteps == {s \in Steps : Plain(s) /\ s.op # "unless"}

Programs ==
    {t \in Seq(Steps) : \A j \in 1..Len(t) : Plain(t[j]) /\ (t[j].op = "unless" => j < Len(t))}

\* The four groups of steps have nothing in common.
LEMMA GroupsDisjoint ==
    /\ \A m \in Methods : m \notin Pairing /\ m \notin PairingEnds /\ m \notin Dialog
    /\ \A m \in Dialog : m \notin Pairing /\ m \notin PairingEnds
    /\ \A m \in Pairing : m \notin PairingEnds
BY DEF Pairing, PairingEnds, Dialog, Methods

\* A step turns no failure into a result unless it says so.
LEMMA NoFailures == {} \in Failures
BY DEF Failures

\* Steps that are only taken on a condition are steps.
LEMMA WhenType ==
    ASSUME NEW S, NEW c, NEW t \in Seq(S)
    PROVE  When(c, t) \in Seq(S)
BY DEF When

\* Two programs after each other are a program.
LEMMA ConcatType ==
    ASSUME NEW S, NEW t \in Seq(S), NEW u \in Seq(S)
    PROVE  t \o u \in Seq(S)
OBVIOUS

\* The steps of two programs after each other are those of either.
LEMMA ConcatElements ==
    ASSUME NEW S, NEW t \in Seq(S), NEW u \in Seq(S)
    PROVE  /\ t \o u \in Seq(S) /\ Len(t \o u) = Len(t) + Len(u)
           /\ \A j \in 1..Len(t) : (t \o u)[j] = t[j]
           /\ \A j \in 1..Len(u) : (t \o u)[Len(t) + j] = u[j]
OBVIOUS

\* A single step as a program.
LEMMA SingleType ==
    ASSUME NEW S, NEW x \in S
    PROVE  <<x>> \in Seq(S)
OBVIOUS

\* Two steps as a program.
LEMMA PairType ==
    ASSUME NEW S, NEW x \in S, NEW y \in S
    PROVE  <<x, y>> \in Seq(S)
OBVIOUS

\* A step is a plain one by its operation and its method.
LEMMA PlainStep ==
    ASSUME NEW s \in Steps, s.op \in {"need", "query", "loop", "toggle"}, s.m \in Methods
    PROVE  s \in PlainSteps
BY DEF PlainSteps, Plain

\* What Step(op, m) is, and with one of its fields replaced.
LEMMA StepFields ==
    ASSUME NEW op \in Ops, NEW m \in Pairing \cup PairingEnds \cup Dialog \cup Methods
    PROVE  /\ Step(op, m) \in Steps
           /\ Step(op, m).op = op /\ Step(op, m).m = m
BY NoFailures DEF Step, Steps

\* A step that needs a version is a step.
LEMMA WithVersion ==
    ASSUME NEW s \in Steps, NEW v \in Nat
    PROVE  [s EXCEPT !.v = v] \in Steps /\ [s EXCEPT !.v = v].op = s.op /\ [s EXCEPT !.v = v].m = s.m
BY DEF Steps

\* A step that turns failures into a result is a step.
LEMMA WithFailures ==
    ASSUME NEW s \in Steps, NEW on \in Failures
    PROVE  [s EXCEPT !.on = on] \in Steps /\ [s EXCEPT !.on = on].op = s.op /\ [s EXCEPT !.on = on].m = s.m
BY DEF Steps

\* A step that commits to the host's nonce is a step.
LEMMA WithCommit ==
    ASSUME NEW s \in Steps
    PROVE  [s EXCEPT !.commit = TRUE] \in Steps /\ [s EXCEPT !.commit = TRUE].op = s.op /\ [s EXCEPT !.commit = TRUE].m = s.m
BY DEF Steps

\* A step that sends the host's nonce is a step.
LEMMA WithNonce ==
    ASSUME NEW s \in Steps
    PROVE  [s EXCEPT !.nonce = TRUE] \in Steps /\ [s EXCEPT !.nonce = TRUE].op = s.op /\ [s EXCEPT !.nonce = TRUE].m = s.m
BY DEF Steps

\* A query is a step of the programs.
LEMMA QueryPlain ==
    ASSUME NEW m \in Methods
    PROVE  Query(m) \in Seq(PlainSteps)
<1>1. Step("query", m) \in PlainSteps
  BY StepFields, PlainStep DEF Ops
<1> QED
  BY <1>1, SingleType DEF Query

\* So is a query whose failures are results.
LEMMA CaughtPlain ==
    ASSUME NEW m \in Methods, NEW f \in Failures
    PROVE  Caught(m, f) \in Seq(PlainSteps)
<1>1. /\ Step("query", m) \in Steps
      /\ Step("query", m).op = "query" /\ Step("query", m).m = m
  BY StepFields DEF Ops
<1>2. [Step("query", m) EXCEPT !.on = f] \in PlainSteps
  BY <1>1, WithFailures, PlainStep
<1> QED
  BY <1>2, SingleType DEF Caught

\* So is a check of the version.
LEMMA NeedPlain ==
    ASSUME NEW v \in Nat
    PROVE  Need(v) \in Seq(PlainSteps)
<1>1. "version" \in Methods
  BY DEF Methods
<1>2. /\ Step("need", "version") \in Steps
      /\ Step("need", "version").op = "need" /\ Step("need", "version").m = "version"
  BY <1>1, StepFields DEF Ops
<1>3. [Step("need", "version") EXCEPT !.v = v] \in PlainSteps
  BY <1>1, <1>2, WithVersion, PlainStep
<1> QED
  BY <1>3, SingleType DEF Need

\* The two steps of a signature with the host's nonce.
LEMMA AntiKleptoPlain ==
    ASSUME NEW m \in Methods, NEW op \in {"query", "loop"}
    PROVE  <<[Step(op, m) EXCEPT !.commit = TRUE],
             [Step("query", "antiklepto_signature") EXCEPT !.nonce = TRUE]>> \in Seq(PlainSteps)
<1>1. "antiklepto_signature" \in Methods
  BY DEF Methods
<1>2. Step(op, m) \in Steps /\ Step(op, m).op = op /\ Step(op, m).m = m
  BY StepFields DEF Ops
<1>3. /\ Step("query", "antiklepto_signature") \in Steps
      /\ Step("query", "antiklepto_signature").op = "query"
      /\ Step("query", "antiklepto_signature").m = "antiklepto_signature"
  BY <1>1, StepFields DEF Ops
<1>4. [Step(op, m) EXCEPT !.commit = TRUE] \in PlainSteps
  BY <1>2, WithCommit, PlainStep
<1>5. [Step("query", "antiklepto_signature") EXCEPT !.nonce = TRUE] \in PlainSteps
  BY <1>1, <1>3, WithNonce, PlainStep
<1> QED
  BY <1>4, <1>5, PairType

\* A step without parameters.
LEMMA SinglePlain ==
    ASSUME NEW op \in {"query", "loop", "toggle"}, NEW m \in Methods
    PROVE  <<Step(op, m)>> \in Seq(PlainSteps)
<1>1. Step(op, m) \in PlainSteps
  BY StepFields, PlainStep DEF Ops
<1> QED
  BY <1>1, SingleType

\* Versions are numbers.
LEMMA VersionType == ASSUME NEW a \in Nat, NEW b \in Nat PROVE V(a, b) \in Nat
BY DEF V

\* The methods of one query.
LEMMA QueriesPlain ==
    /\ device_info \in Seq(PlainSteps) /\ set_device_name \in Seq(PlainSteps)
    /\ insert_sdcard \in Seq(PlainSteps) /\ check_sdcard \in Seq(PlainSteps)
    /\ restore_backup \in Seq(PlainSteps) /\ show_mnemonic \in Seq(PlainSteps)
    /\ btc_xpub \in Seq(PlainSteps) /\ btc_address \in Seq(PlainSteps)
    /\ btc_is_script_config_registered \in Seq(PlainSteps) /\ root_fingerprint \in Seq(PlainSteps)
    /\ electrum_encryption_key \in Seq(PlainSteps) /\ enable_mnemonic_passphrase \in Seq(PlainSteps)
    /\ disable_mnemonic_passphrase \in Seq(PlainSteps) /\ eth_pub \in Seq(PlainSteps)
    /\ restore_from_mnemonic \in Seq(PlainSteps) /\ cardano_xpubs \in Seq(PlainSteps)
    /\ cardano_address \in Seq(PlainSteps) /\ bluetooth_toggle_enabled \in Seq(PlainSteps)
BY QueryPlain
DEF Methods, device_info, set_device_name, insert_sdcard, check_sdcard, restore_backup, show_mnemonic, btc_xpub,
    btc_address, btc_is_script_config_registered, root_fingerprint, electrum_encryption_key,
    enable_mnemonic_passphrase, disable_mnemonic_passphrase, eth_pub, restore_from_mnemonic, cardano_xpubs,
    cardano_address, bluetooth_toggle_enabled

\* The methods that turn failures into results.
LEMMA CaughtMethodsPlain ==
    /\ create_backup \in Seq(PlainSteps) /\ reset \in Seq(PlainSteps) /\ reboot \in Seq(PlainSteps)
    /\ Caught("set_password", {"generic"}) \in Seq(PlainSteps)
    /\ Caught("check_backup", {"generic"}) \in Seq(PlainSteps)
<1>1. /\ {"generic"} \in Failures /\ {"generic", "gone"} \in Failures
      /\ {"generic", "abort", "other", "gone"} \in Failures
  BY DEF Failures
<1>2. /\ "create_backup" \in Methods /\ "reset" \in Methods /\ "reboot" \in Methods
      /\ "set_password" \in Methods /\ "check_backup" \in Methods
  BY DEF Methods
<1> QED
  BY <1>1, <1>2, CaughtPlain DEF create_backup, reset, reboot

\* The methods that demand a version or sign.
LEMMA LibraryPlain ==
    /\ \A size : set_password(size) \in Seq(PlainSteps)
    /\ \A named : btc_register_script_config(named) \in Seq(PlainSteps)
    /\ \A tagged : cardano_sign_transaction(tagged) \in Seq(PlainSteps)
    /\ \A ver, test : btc_sign_msg(ver, test) \in Seq(PlainSteps)
    /\ \A ver, eip1559 : eth_sign(ver, eip1559) \in Seq(PlainSteps)
    /\ \A ver : eth_sign_msg(ver) \in Seq(PlainSteps)
    /\ bip85_bip39 \in Seq(PlainSteps) /\ bip85_ln \in Seq(PlainSteps)
    /\ eth_sign_typed_msg \in Seq(PlainSteps) /\ bluetooth_upgrade \in Seq(PlainSteps)
    /\ list_backups \in Seq(PlainSteps) /\ check_backup \in Seq(PlainSteps)
<1>m. /\ "register_script_config" \in Methods /\ "cardano_sign" \in Methods /\ "sign_message" \in Methods
      /\ "eth_sign" \in Methods /\ "eth_sign_msg" \in Methods /\ "bip85" \in Methods
      /\ "eth_typed" \in Methods /\ "bluetooth_upgrade" \in Methods /\ "list_backups" \in Methods
  BY DEF Methods
<1>q. \A m \in Methods : Query(m) \in Seq(PlainSteps) /\ AntiKlepto(m) \in Seq(PlainSteps)
  BY QueryPlain, AntiKleptoPlain DEF AntiKlepto
<1>n. \A a, b \in Nat : Need(V(a, b)) \in Seq(PlainSteps)
  BY NeedPlain, VersionType
<1>w. \A c, a, b : a \in Nat /\ b \in Nat => When(c, Need(V(a, b))) \in Seq(PlainSteps)
  BY <1>n, WhenType
<1>1. \A size : set_password(size) \in Seq(PlainSteps)
  BY <1>w, CaughtMethodsPlain, ConcatType DEF set_password
<1>2. \A named : btc_register_script_config(named) \in Seq(PlainSteps)
  BY <1>w, <1>m, <1>q, ConcatType DEF btc_register_script_config
<1>3. \A tagged : cardano_sign_transaction(tagged) \in Seq(PlainSteps)
  BY <1>w, <1>m, <1>q, ConcatType DEF cardano_sign_transaction
<1>4. \A ver, test : btc_sign_msg(ver, test) \in Seq(PlainSteps)
  BY <1>w, <1>n, <1>m, <1>q, ConcatType DEF btc_sign_msg
<1>5. \A ver, eip1559 : eth_sign(ver, eip1559) \in Seq(PlainSteps)
  BY <1>w, <1>m, <1>q, ConcatType DEF eth_sign
<1>6. \A ver : eth_sign_msg(ver) \in Seq(PlainSteps)
  BY <1>m, <1>q DEF eth_sign_msg
<1>7. bip85_bip39 \in Seq(PlainSteps) /\ bip85_ln \in Seq(PlainSteps)
  BY <1>n, <1>m, <1>q, ConcatType DEF bip85_bip39, bip85_ln
<1>8. eth_sign_typed_msg \in Seq(PlainSteps) /\ bluetooth_upgrade \in Seq(PlainSteps)
  BY <1>n, <1>m, AntiKleptoPlain, SinglePlain, ConcatType DEF eth_sign_typed_msg, bluetooth_upgrade
<1>9. list_backups \in Seq(PlainSteps) /\ check_backup \in Seq(PlainSteps)
  BY <1>m, <1>q, QueriesPlain, CaughtMethodsPlain, ConcatType DEF list_backups, check_backup
<1> QED
  BY <1>1, <1>2, <1>3, <1>4, <1>5, <1>6, <1>7, <1>8, <1>9

\* Programs of plain steps, and one after the other.
LEMMA PlainProgram ==
    ASSUME NEW t \in Seq(PlainSteps)
    PROVE  t \in Programs
BY DEF PlainSteps, Programs

\* Programs after each other are programs.
LEMMA ProgramConcat ==
    ASSUME NEW t \in Programs, NEW u \in Programs
    PROVE  t \o u \in Programs
<1>1. t \in Seq(Steps) /\ u \in Seq(Steps)
  BY DEF Programs
<1>2. t \o u \in Seq(Steps) /\ Len(t \o u) = Len(t) + Len(u)
  BY <1>1, ConcatType
<1>3. ASSUME NEW j \in 1..Len(t \o u)
      PROVE  Plain((t \o u)[j]) /\ ((t \o u)[j].op = "unless" => j < Len(t \o u))
  <2>1. CASE j <= Len(t)
    <3>1. (t \o u)[j] = t[j] /\ j \in 1..Len(t) /\ Len(t) <= Len(t \o u)
      BY <1>1, <1>2, <2>1
    <3> QED
      BY <1>1, <1>2, <3>1 DEF Programs
  <2>2. CASE j > Len(t)
    <3>1. (t \o u)[j] = u[j - Len(t)] /\ j - Len(t) \in 1..Len(u)
      BY <1>1, <1>2, <2>2
    <3> QED
      BY <1>1, <1>2, <3>1 DEF Programs
  <2>3. Len(t) \in Nat
    BY <1>1
  <2> QED
    BY <2>1, <2>2, <2>3
<1> QED
  BY <1>2, <1>3 DEF Programs

\* What may stand before btc_sign.
Before(t) == t \in Programs /\ \A j \in 1..Len(t) : t[j].op \notin {"sign", "toggle"} /\ t[j].on = {}

\* What comes before btc_sign can be put together.
LEMMA BeforeConcat ==
    ASSUME NEW t, NEW u, Before(t), Before(u)
    PROVE  Before(t \o u)
<1>1. t \in Seq(Steps) /\ u \in Seq(Steps)
  BY DEF Before, Programs
<1>2. t \o u \in Programs /\ Len(t \o u) = Len(t) + Len(u)
  BY <1>1, ProgramConcat DEF Before
<1>3. ASSUME NEW j \in 1..Len(t \o u)
      PROVE  (t \o u)[j].op \notin {"sign", "toggle"} /\ (t \o u)[j].on = {}
  <2>1. CASE j <= Len(t)
    <3>1. (t \o u)[j] = t[j] /\ j \in 1..Len(t)
      BY <1>1, <2>1
    <3> QED
      BY <3>1 DEF Before
  <2>2. CASE j > Len(t)
    <3>1. (t \o u)[j] = u[j - Len(t)] /\ j - Len(t) \in 1..Len(u)
      BY <1>1, <1>2, <2>2
    <3> QED
      BY <3>1 DEF Before
  <2>3. Len(t) \in Nat
    BY <1>1
  <2> QED
    BY <2>1, <2>2, <2>3
<1> QED
  BY <1>2, <1>3 DEF Before

\* It can depend on a condition.
LEMMA BeforeWhen ==
    ASSUME NEW c, NEW t, Before(t)
    PROVE  Before(When(c, t))
<1>1. Before(<<>>)
  BY DEF Before, Programs
<1> QED
  BY <1>1 DEF When

\* It can be a query.
LEMMA BeforeQuery ==
    ASSUME NEW m \in Methods
    PROVE  Before(Query(m))
<1>1. Query(m) \in Programs
  BY QueryPlain, PlainProgram
<1>2. Len(Query(m)) = 1 /\ Query(m)[1].op = "query" /\ Query(m)[1].on = {}
  BY DEF Query, Step
<1> QED
  BY <1>1, <1>2 DEF Before

\* It can be a check of the version.
LEMMA BeforeNeed ==
    ASSUME NEW v \in Nat
    PROVE  Before(Need(v))
<1>1. Need(v) \in Programs
  BY NeedPlain, PlainProgram
<1>2. Len(Need(v)) = 1 /\ Need(v)[1].op = "need" /\ Need(v)[1].on = {}
  BY DEF Need, Step
<1> QED
  BY <1>1, <1>2 DEF Before

\* The registration that is left out when the device knows the script.
LEMMA BeforeMaybe ==
    ASSUME NEW named
    PROVE  Before(_maybe_register_script_config(named))
<1> DEFINE s == Step("unless", "is_script_config_registered")
           v == IF named THEN 0 ELSE V(9, 3)
           r == Step("query", "register_script_config")
           t == [r EXCEPT !.v = v]
<1>1. "is_script_config_registered" \in Methods /\ "register_script_config" \in Methods
  BY DEF Methods
<1>2. s \in Steps /\ s.op = "unless" /\ s.m = "is_script_config_registered"
  BY <1>1, StepFields DEF Ops
<1>3. r \in Steps /\ r.op = "query" /\ r.m = "register_script_config"
  BY <1>1, StepFields DEF Ops
<1>4. v \in Nat
  BY VersionType
<1>5. t \in Steps /\ t.op = "query" /\ t.m = "register_script_config"
  BY <1>3, <1>4, WithVersion
<1>6. s.on = {} /\ t.on = {}
  BY DEF Step
<1>7. Plain(s) /\ Plain(t)
  BY <1>1, <1>2, <1>5 DEF Plain
<1> HIDE DEF s, t
<1> DEFINE u == <<s>> \o <<t>>
<1>8. u \in Seq(Steps)
  BY <1>2, <1>5, SingleType, ConcatType
<1>9. Len(u) = 2 /\ u[1] = s /\ u[2] = t
  BY <1>2, <1>5, SingleType
<1> HIDE DEF u
<1>10. \A j \in 1..Len(u) : j = 1 \/ j = 2
  BY <1>9
<1>11. ASSUME NEW j \in 1..Len(u)
       PROVE  /\ Plain(u[j]) /\ u[j].on = {} /\ u[j].op \notin {"sign", "toggle"}
              /\ u[j].op = "unless" => j < Len(u)
  <2>1. CASE j = 1
    BY <1>2, <1>6, <1>7, <1>9, <2>1
  <2>2. CASE j = 2
    BY <1>5, <1>6, <1>7, <1>9, <2>2
  <2> QED
    BY <1>10, <2>1, <2>2
<1>12. Before(u)
  BY <1>8, <1>11 DEF Before, Programs
<1> QED
  BY <1>12 DEF u, s, t, r, v, _maybe_register_script_config

\* What comes before btc_sign is a program.
LEMMA BeforePlain ==
    ASSUME NEW t, Before(t)
    PROVE  t \in Programs
BY DEF Before

\* btc_sign ends with the step that begins the dialogue.
LEMMA BtcSignLast ==
    ASSUME NEW taproot, NEW t, Before(t)
    PROVE  /\ t \o btc_sign(taproot) \in Programs
           /\ SignsLast(t \o btc_sign(taproot)) /\ t \o btc_sign(taproot) # <<>>
<1> DEFINE s == Step("sign", "btc_sign_init")
           w == When(taproot, Need(V(9, 10)))
           u == w \o <<s>>
<1>1. Before(w)
  BY BeforeNeed, BeforeWhen, VersionType
<1>2. "btc_sign_init" \in Methods
  BY DEF Methods
<1>3. s \in Steps /\ s.op = "sign" /\ s.m = "btc_sign_init"
  BY <1>2, StepFields DEF Ops
<1>4. s.on = {}
  BY DEF Step
<1>5. <<s>> \in Programs
  BY <1>2, <1>3, SingleType DEF Programs, Plain
<1> HIDE DEF s, w
<1>6. w \in Seq(Steps) /\ t \in Seq(Steps) /\ <<s>> \in Seq(Steps)
  BY <1>1, <1>5, BeforePlain DEF Programs
<1>7. u \in Seq(Steps) /\ Len(u) = Len(w) + 1
  BY <1>6, ConcatType
<1>8. t \o u \in Seq(Steps) /\ Len(t \o u) = Len(t) + Len(w) + 1
  BY <1>6, <1>7, ConcatType
<1>9. \A j \in 1..Len(t) : (t \o u)[j] = t[j]
  BY <1>6, <1>7
<1>10. \A j \in 1..Len(u) : (t \o u)[Len(t) + j] = u[j]
  BY <1>6, <1>7
<1>11. \A j \in 1..Len(w) : u[j] = w[j]
  BY <1>6
<1>12. u[Len(u)] = s
  BY <1>6, <1>7
<1> HIDE DEF u
<1>p. t \o u \in Programs
  BY <1>1, <1>5, BeforePlain, ProgramConcat DEF u
<1>13. ASSUME NEW j \in 1..Len(t \o u)
       PROVE  /\ (t \o u)[j].op = "sign" <=> j = Len(t \o u)
              /\ (t \o u)[j].op = "unless" => j + 2 <= Len(t \o u)
              /\ (t \o u)[j].on = {} /\ (t \o u)[j].op # "toggle"
  <2>1. CASE j <= Len(t)
    <3>1. (t \o u)[j] = t[j] /\ j \in 1..Len(t)
      BY <1>6, <1>8, <1>9, <2>1
    <3>2. Len(w) \in Nat /\ Len(t) \in Nat
      BY <1>6
    <3>3. /\ t[j].op \notin {"sign", "toggle"} /\ t[j].on = {}
          /\ t[j].op = "unless" => j < Len(t)
      BY <3>1 DEF Before, Programs
    <3> QED
      BY <1>8, <3>1, <3>2, <3>3
  <2>2. CASE j > Len(t) /\ j < Len(t \o u)
    <3>1. j - Len(t) \in 1..Len(w) /\ j - Len(t) \in 1..Len(u) /\ j = Len(t) + (j - Len(t))
      BY <1>6, <1>7, <1>8, <2>2
    <3>2. (t \o u)[j] = w[j - Len(t)]
      BY <1>10, <1>11, <3>1
    <3>3. Len(w) \in Nat /\ Len(t) \in Nat
      BY <1>6
    <3>4. /\ w[j - Len(t)].op \notin {"sign", "toggle"}
          /\ w[j - Len(t)].op = "unless" => j - Len(t) < Len(w)
          /\ w[j - Len(t)].on = {}
      BY <1>1, <3>1 DEF Before, Programs
    <3> QED
      BY <1>8, <2>2, <3>2, <3>3, <3>4
  <2>3. CASE j = Len(t \o u)
    <3>1. Len(u) \in 1..Len(u) /\ j = Len(t) + Len(u)
      BY <1>6, <1>7, <1>8, <2>3
    <3>2. (t \o u)[j] = s
      BY <1>10, <1>12, <3>1
    <3> QED
      BY <1>3, <1>4, <2>3, <3>2
  <2>4. Len(t) \in Nat /\ Len(t \o u) \in Nat
    BY <1>6, <1>8
  <2> QED
    BY <2>1, <2>2, <2>3, <2>4
<1>14. t \o u # <<>>
  BY <1>6, <1>8
<1> QED
  BY <1>p, <1>13, <1>14 DEF u, s, w, btc_sign, SignsLast

\* sign_tx asks, registers what the device does not know, then signs.
LEMMA SignProgram ==
    ASSUME NEW policy, NEW multisig, NEW taproot
    PROVE  /\ sign_tx(policy, multisig, taproot) \in Programs
           /\ SignsLast(sign_tx(policy, multisig, taproot)) /\ sign_tx(policy, multisig, taproot) # <<>>
<1>1. "fingerprint" \in Methods /\ "btc_pub" \in Methods
  BY DEF Methods
<1>2. Before(root_fingerprint) /\ Before(btc_xpub)
  BY <1>1, BeforeQuery DEF root_fingerprint, btc_xpub
<1>3. Before(root_fingerprint \o btc_xpub)
  BY <1>2, BeforeConcat
<1>4. Before(When(policy, root_fingerprint \o btc_xpub))
  BY <1>3, BeforeWhen
<1>5. Before(_multisig_scriptconfig \o _maybe_register_script_config(FALSE))
  BY <1>3, BeforeMaybe, BeforeConcat DEF _multisig_scriptconfig
<1>6. Before(When(multisig, _multisig_scriptconfig \o _maybe_register_script_config(FALSE)))
  BY <1>5, BeforeWhen
<1>7. Before(When(policy, root_fingerprint \o btc_xpub) \o root_fingerprint
             \o When(multisig, _multisig_scriptconfig \o _maybe_register_script_config(FALSE)))
  BY <1>2, <1>4, <1>6, BeforeConcat
<1> QED
  BY <1>7, BtcSignLast DEF sign_tx

\* The first steps of enumerate.
LEMMA InfoAgainPlain ==
    /\ InfoAgain \in Seq(PlainSteps) /\ Len(InfoAgain) = 1
    /\ InfoAgain[1].m = "info_again" /\ InfoAgain[1].op = "raw"
<1>1. "info_again" \in Methods
  BY DEF Methods
<1>2. /\ Step("raw", "info_again") \in Steps
      /\ Step("raw", "info_again").op = "raw" /\ Step("raw", "info_again").m = "info_again"
  BY <1>1, StepFields DEF Ops
<1>3. Step("raw", "info_again") \in PlainSteps
  BY <1>1, <1>2 DEF PlainSteps, Plain
<1> QED
  BY <1>2, <1>3, SingleType DEF InfoAgain

\* Every command is a program of plain steps.
LEMMA ProgramPlain ==
    ASSUME NEW c \in Commands, NEW ver
    PROVE  Program(c, ver) \in Programs
<1> DEFINE P == Programs
<1>0. \A t \in Seq(PlainSteps) : t \in P
  BY PlainProgram
<1>1. \A t, u \in P : t \o u \in P
  BY ProgramConcat
<1>2. \A x : _maybe_register_script_config(x) \in P
  BY BeforeMaybe, BeforePlain
<1>3. \A p, m, t : sign_tx(p, m, t) \in P
  BY SignProgram
<1>4. toggle_passphrase \in P
  BY <1>0, SinglePlain DEF toggle_passphrase, Methods
<1>5. \A x : When(x, set_device_name) \in P
  BY <1>0, QueriesPlain, WhenType
<1> HIDE DEF P
<1>6. setup_device(TRUE) \in P /\ restore_device(TRUE) \in P
  BY <1>0, <1>1, <1>5, QueriesPlain, CaughtMethodsPlain, LibraryPlain DEF setup_device, restore_device
<1>7. wipe_device \in P /\ backup_device \in P /\ reboot \in P
  BY <1>0, QueriesPlain, CaughtMethodsPlain DEF wipe_device, backup_device
<1>8. /\ get_pubkey_at_path \in P /\ display_singlesig_address \in P /\ display_bip388_policy_address \in P
      /\ display_multisig_address \in P /\ register_descriptor \in P
  <2>1. root_fingerprint \in P /\ btc_xpub \in P /\ btc_address \in P
    BY <1>0, QueriesPlain
  <2>2. _multisig_scriptconfig \in P
    BY <1>1, <2>1 DEF _multisig_scriptconfig
  <2> QED
    BY <1>1, <1>2, <2>1, <2>2
    DEF get_pubkey_at_path, display_singlesig_address, display_bip388_policy_address,
        display_multisig_address, register_descriptor
<1>9. sign_message(ver, FALSE) \in P /\ sign_message(ver, TRUE) \in P
  BY <1>0, LibraryPlain DEF sign_message
<1>10. InfoAgain \o device_info \o root_fingerprint \in P
  BY <1>0, <1>1, InfoAgainPlain, QueriesPlain
<1>11. /\ check_sdcard \o list_backups \o check_backup \o restore_backup \in P
       /\ set_device_name \o electrum_encryption_key \o set_password(16) \in P
       /\ bip85_ln \o bip85_bip39 \in P
  BY <1>0, <1>1, QueriesPlain, LibraryPlain
<1>12. /\ btc_is_script_config_registered \o btc_register_script_config(FALSE) \in P
       /\ bluetooth_toggle_enabled \o bluetooth_upgrade \in P
  BY <1>0, <1>1, QueriesPlain, LibraryPlain
<1>13. /\ eth_pub \o eth_sign(ver, FALSE) \o eth_sign_msg(ver) \in P
       /\ eth_sign(ver, TRUE) \o eth_sign_typed_msg \in P
  BY <1>0, <1>1, QueriesPlain, LibraryPlain
<1>14. cardano_xpubs \o cardano_address \o cardano_sign_transaction(TRUE) \in P
  BY <1>0, <1>1, QueriesPlain, LibraryPlain
<1> QED
  BY <1>3, <1>4, <1>6, <1>7, <1>8, <1>9, <1>10, <1>11, <1>12, <1>13, <1>14, BitBox02Assumption DEF Program, P

----------------------------------------------------------------------------
(* What is left to do                                                      *)

\* The first element of a sequence and the rest.
LEMMA HeadTail ==
    ASSUME NEW S, NEW t \in Seq(S), t # <<>>
    PROVE  /\ Head(t) = t[1] /\ Head(t) \in S
           /\ Tail(t) \in Seq(S)
           /\ Len(t) \in Nat /\ Len(t) > 0 /\ Len(Tail(t)) = Len(t) - 1
           /\ \A j \in 1..(Len(t) - 1) : Tail(t)[j] = t[j + 1]
OBVIOUS

\* A sequence with an element is not empty.
LEMMA LongSeq ==
    ASSUME NEW S, NEW t \in Seq(S), Len(t) > 0
    PROVE  t # <<>>
OBVIOUS

\* The steps of a program run.
LEMMA ProgramRuns ==
    ASSUME NEW t \in Programs
    PROVE  Runs(t) /\ t \in Seq(Steps)
BY DEF Runs, Programs

\* What is left after a step is a program.
LEMMA RunsTail ==
    ASSUME NEW t \in Seq(Steps), t # <<>>, Runs(t)
    PROVE  Runs(Tail(t)) /\ Tail(t) \in Programs
<1>1. /\ Tail(t) \in Seq(Steps) /\ Len(t) \in Nat /\ Len(Tail(t)) = Len(t) - 1
      /\ \A j \in 1..(Len(t) - 1) : Tail(t)[j] = t[j + 1]
  BY HeadTail
<1>2. ASSUME NEW j \in 1..Len(Tail(t))
      PROVE  Plain(Tail(t)[j]) /\ (Tail(t)[j].op = "unless" => j < Len(Tail(t)))
  <2>1. j + 1 \in 1..Len(t) /\ j + 1 # 1 /\ Tail(t)[j] = t[j + 1]
    BY <1>1
  <2>2. Plain(t[j + 1]) /\ (t[j + 1].op = "unless" => j + 1 < Len(t))
    BY <2>1 DEF Runs
  <2> QED
    BY <1>1, <2>1, <2>2
<1>3. Tail(t) \in Programs
  BY <1>1, <1>2 DEF Programs
<1> QED
  BY <1>3, ProgramRuns

\* The first step and what it may be.
LEMMA RunsHead ==
    ASSUME NEW t \in Seq(Steps), t # <<>>, Runs(t)
    PROVE  /\ Head(t) \in Steps
           /\ Plain(Head(t)) \/ (Head(t).op = "sign" /\ Head(t).m \in Dialog)
           /\ Head(t).op = "unless" => Tail(t) # <<>>
           /\ Head(t).m \notin Pairing /\ Head(t).m \notin PairingEnds
           /\ ~Connects(t)
<1>1. /\ Head(t) = t[1] /\ Head(t) \in Steps
      /\ Len(t) \in Nat /\ Len(t) > 0 /\ Len(Tail(t)) = Len(t) - 1
  BY HeadTail
<1>2. 1 \in 1..Len(t)
  BY <1>1
<1>3. /\ Plain(t[1]) \/ (t[1].op = "sign" /\ t[1].m \in Dialog)
      /\ t[1].op = "unless" => 1 < Len(t)
  BY <1>2 DEF Runs
<1>4. t[1].m \in Methods \cup Dialog
  BY <1>3 DEF Plain
<1>5. t[1].m \notin Pairing /\ t[1].m \notin PairingEnds
  BY <1>4, GroupsDisjoint
<1>6. ~Connects(t)
  <2> SUFFICES ASSUME Connects(t) PROVE FALSE
    OBVIOUS
  <2>1. t[1].m \in IF 1 = Len(t) THEN PairingEnds ELSE Pairing
    BY <1>2 DEF Connects
  <2> QED
    BY <1>5, <2>1
<1>7. Tail(t) = <<>> => Len(Tail(t)) = 0
  OBVIOUS
<1> QED
  BY <1>1, <1>3, <1>5, <1>6, <1>7

\* A step of the pairing is a raw query, the question to the user or the query of init.
LEMMA ConnectsHead ==
    ASSUME NEW t \in Seq(Steps), Connects(t)
    PROVE  /\ t # <<>> /\ Head(t) \in Steps
           /\ Head(t).m \in Pairing \cup PairingEnds /\ Head(t).on = {} /\ ~Head(t).nonce
           /\ Head(t).op = IF Head(t).m = "init_info" THEN "query"
                           ELSE IF Head(t).m = "confirm" THEN "ask" ELSE "raw"
<1>1. t # <<>>
  BY DEF Connects
<1>2. Head(t) = t[1] /\ Head(t) \in Steps /\ 1 \in 1..Len(t)
  BY <1>1, HeadTail
<1> QED
  BY <1>1, <1>2 DEF Connects

\* After a step that does not end the pairing another one follows.
LEMMA ConnectsTail ==
    ASSUME NEW t \in Seq(Steps), Connects(t), Head(t).m \in Pairing
    PROVE  /\ Connects(Tail(t)) /\ Tail(t) \in Seq(Steps)
           /\ Head(Tail(t)).m \in Pairing \cup {"handshake2"}
<1>1. t # <<>>
  BY DEF Connects
<1>2. /\ Head(t) = t[1]
      /\ Tail(t) \in Seq(Steps) /\ Len(t) \in Nat /\ Len(t) > 0 /\ Len(Tail(t)) = Len(t) - 1
      /\ \A j \in 1..(Len(t) - 1) : Tail(t)[j] = t[j + 1]
  BY <1>1, HeadTail
<1>3. Len(t) > 1
  <2> SUFFICES ASSUME Len(t) = 1 PROVE FALSE
    BY <1>2
  <2>1. t[1].m \in PairingEnds
    BY DEF Connects
  <2> QED
    BY <1>2, <2>1, GroupsDisjoint
<1>4. t[Len(t)].m = "handshake2"
  BY <1>3 DEF Connects
<1>5. ASSUME NEW j \in 1..Len(Tail(t))
      PROVE  /\ Tail(t)[j].m \in (IF j = Len(Tail(t)) THEN PairingEnds ELSE Pairing)
             /\ Tail(t)[j].op = IF Tail(t)[j].m = "init_info" THEN "query"
                                ELSE IF Tail(t)[j].m = "confirm" THEN "ask" ELSE "raw"
             /\ Tail(t)[j].on = {} /\ ~Tail(t)[j].nonce
  <2>1. j + 1 \in 1..Len(t) /\ Tail(t)[j] = t[j + 1] /\ (j = Len(Tail(t)) <=> j + 1 = Len(t))
    BY <1>2
  <2> QED
    BY <2>1 DEF Connects
<1>6. Tail(t)[Len(Tail(t))].m = "handshake2"
  <2>1. Len(t) - 1 \in 1..(Len(t) - 1) /\ (Len(t) - 1) + 1 = Len(t)
    BY <1>2, <1>3
  <2> QED
    BY <1>2, <1>4, <2>1
<1>7. Tail(t) # <<>>
  <2>1. Len(Tail(t)) > 0 /\ Tail(t) \in Seq(Steps)
    BY <1>2, <1>3
  <2> QED
    BY <2>1, LongSeq
<1>8. Connects(Tail(t))
  BY <1>5, <1>6, <1>7 DEF Connects
<1>9. Head(Tail(t)) = Tail(t)[1] /\ 1 \in 1..Len(Tail(t))
  BY <1>2, <1>7, HeadTail
<1> QED
  BY <1>2, <1>5, <1>6, <1>8, <1>9

\* The one step that is left of the pairing.
LEMMA ConnectsSingle ==
    ASSUME NEW m \in PairingEnds
    PROVE  LET op == IF m = "init_info" THEN "query" ELSE IF m = "confirm" THEN "ask" ELSE "raw" IN
           /\ <<Step(op, m)>> \in Seq(Steps)
           /\ Connects(<<Step(op, m)>>)
           /\ Head(<<Step(op, m)>>).m = m
<1> DEFINE op == IF m = "init_info" THEN "query" ELSE IF m = "confirm" THEN "ask" ELSE "raw"
           s == Step(op, m)
<1>1. s \in Steps /\ s.op = op /\ s.m = m
  BY StepFields DEF Ops
<1>2. s.on = {} /\ ~s.nonce
  BY DEF Step
<1>3. <<s>> \in Seq(Steps)
  BY <1>1, SingleType
<1> HIDE DEF s
<1>4. Len(<<s>>) = 1 /\ <<s>>[1] = s /\ <<s>> # <<>> /\ Head(<<s>>) = s
  OBVIOUS
<1>5. Connects(<<s>>)
  BY <1>1, <1>2, <1>4 DEF Connects
<1> QED
  BY <1>1, <1>3, <1>4, <1>5 DEF s

\* The steps of the pairing are steps.
LEMMA PairingType ==
    /\ \A m \in Pairing \cup {"handshake2"} : m \in Pairing \cup PairingEnds \cup Dialog \cup Methods
    /\ \A m \in Pairing \cup {"handshake2"} : m \notin {"init_info", "confirm"}
    /\ "handshake2" \in PairingEnds
    /\ "attestation" \in Pairing /\ "unlock" \in Pairing /\ "start" \in Pairing /\ "handshake1" \in Pairing
BY DEF Pairing, PairingEnds

\* The queries of the pairing.
LEMMA ConnectingShape ==
    ASSUME NEW ver \in Nat
    PROVE  /\ Connecting(ver) \in Seq(Steps) /\ Connects(Connecting(ver))
           /\ Head(Connecting(ver)).m \in Pairing
<1> DEFINE S(m) == Step("raw", m)
           w == <<S("attestation"), S("unlock")>>
           x == <<S("start"), S("handshake1"), S("handshake2")>>
<1>1. \A m \in Pairing \cup {"handshake2"} : S(m) \in Steps /\ S(m).op = "raw" /\ S(m).m = m
  BY StepFields, PairingType DEF Ops
<1>2. \A m : S(m).on = {} /\ ~S(m).nonce
  BY DEF Step
<1> HIDE DEF S
<1>3. /\ w \in Seq(Steps) /\ Len(w) = 2 /\ w[1] = S("attestation") /\ w[2] = S("unlock")
      /\ x \in Seq(Steps) /\ Len(x) = 3
      /\ x[1] = S("start") /\ x[2] = S("handshake1") /\ x[3] = S("handshake2")
  BY <1>1, PairingType
<1>a. /\ w[1].m = "attestation" /\ w[1].op = "raw" /\ w[1].on = {} /\ ~w[1].nonce
      /\ w[2].m = "unlock" /\ w[2].op = "raw" /\ w[2].on = {} /\ ~w[2].nonce
  BY <1>1, <1>2, <1>3, PairingType
<1>b. /\ x[1].m = "start" /\ x[1].op = "raw" /\ x[1].on = {} /\ ~x[1].nonce
      /\ x[2].m = "handshake1" /\ x[2].op = "raw" /\ x[2].on = {} /\ ~x[2].nonce
      /\ x[3].m = "handshake2" /\ x[3].op = "raw" /\ x[3].on = {} /\ ~x[3].nonce
  BY <1>1, <1>2, <1>3, PairingType
<1> HIDE DEF w, x
<1>4. ASSUME NEW t \in Seq(Steps), Len(t) > 1,
             \A j \in 1..Len(t) : /\ t[j].op = "raw" /\ t[j].on = {} /\ ~t[j].nonce
                                  /\ t[j].m \in IF j = Len(t) THEN {"handshake2"} ELSE Pairing
      PROVE  Connects(t) /\ Head(t).m \in Pairing
  <2>1. t # <<>> /\ Head(t) = t[1] /\ 1 \in 1..Len(t) /\ Len(t) \in 1..Len(t) /\ Len(t) # 1
    BY <1>4, LongSeq, HeadTail
  <2>2. t[Len(t)].m = "handshake2" /\ t[1].m \in Pairing
    BY <1>4, <2>1
  <2>3. ASSUME NEW j \in 1..Len(t)
        PROVE  /\ t[j].m \in (IF j = Len(t) THEN PairingEnds ELSE Pairing)
               /\ t[j].op = IF t[j].m = "init_info" THEN "query" ELSE IF t[j].m = "confirm" THEN "ask" ELSE "raw"
               /\ t[j].on = {} /\ ~t[j].nonce
    BY <1>4, PairingType
  <2> QED
    BY <2>1, <2>2, <2>3 DEF Connects
<1>7. Connects(x) /\ Head(x).m \in Pairing
  <2>1. ASSUME NEW j \in 1..Len(x)
        PROVE  /\ x[j].op = "raw" /\ x[j].on = {} /\ ~x[j].nonce
               /\ x[j].m \in IF j = Len(x) THEN {"handshake2"} ELSE Pairing
    <3>1. j = 1 \/ j = 2 \/ j = 3
      BY <1>3
    <3> QED
      BY <1>3, <1>b, <3>1, PairingType
  <2>2. Len(x) > 1 /\ x \in Seq(Steps)
    BY <1>3
  <2> QED
    BY <1>4, <2>1, <2>2
<1>8. Connects(w \o x) /\ Head(w \o x).m \in Pairing
  <2> DEFINE t == w \o x
  <2>a. Len(w) = 2 /\ Len(x) = 3
    BY <1>3
  <2>c. w \in Seq(Steps) /\ x \in Seq(Steps)
    BY <1>3
  <2>1. /\ t \in Seq(Steps) /\ Len(t) = 5 /\ t[1] = w[1] /\ t[2] = w[2]
        /\ t[3] = x[1] /\ t[4] = x[2] /\ t[5] = x[3]
    <3>1. /\ t \in Seq(Steps) /\ Len(t) = Len(w) + Len(x)
          /\ \A j \in 1..Len(w) : t[j] = w[j]
          /\ \A j \in 1..Len(x) : t[Len(w) + j] = x[j]
      BY <2>c, ConcatElements
    <3>2. 1 \in 1..3 /\ 2 \in 1..3 /\ 3 \in 1..3 /\ 1 \in 1..2 /\ 2 \in 1..2 /\ 2 + 1 = 3 /\ 2 + 2 = 4 /\ 2 + 3 = 5
      OBVIOUS
    <3> HIDE DEF t
    <3> QED
      BY <2>a, <3>1, <3>2
  <2> HIDE DEF t
  <2>2. ASSUME NEW j \in 1..Len(t)
        PROVE  /\ t[j].op = "raw" /\ t[j].on = {} /\ ~t[j].nonce
               /\ t[j].m \in IF j = Len(t) THEN {"handshake2"} ELSE Pairing
    <3>1. j = 1 \/ j = 2 \/ j = 3 \/ j = 4 \/ j = 5
      BY <2>1
    <3> QED
      BY <1>a, <1>b, <2>1, <3>1, PairingType
  <2>b. Len(t) > 1 /\ t \in Seq(Steps)
    BY <2>1
  <2>3. Connects(t) /\ Head(t).m \in Pairing
    BY <1>4, <2>b, <2>2
  <2> QED
    BY <2>3 DEF t
<1>5. w \o x \in Seq(Steps) /\ <<>> \o x = x
  BY <1>3, ConcatType
<1>6. Connecting(ver) \in {x, w \o x}
  BY <1>5 DEF Connecting, When, w, x, S
<1> QED
  BY <1>3, <1>5, <1>6, <1>7, <1>8

\* The dialogue of btc_sign puts a step before what is left.
LEMMA RunsCons ==
    ASSUME NEW s \in Steps, s.op = "sign", s.m \in Dialog, NEW t \in Programs
    PROVE  /\ <<s>> \o t \in Seq(Steps) /\ Runs(<<s>> \o t) /\ <<s>> \o t # <<>>
           /\ Head(<<s>> \o t) = s /\ Tail(<<s>> \o t) = t
<1>1. t \in Seq(Steps)
  BY DEF Programs
<1> DEFINE u == <<s>> \o t
<1>2. /\ u \in Seq(Steps) /\ Len(u) = Len(t) + 1 /\ u[1] = s /\ Len(t) \in Nat
      /\ \A j \in 1..Len(t) : u[j + 1] = t[j]
  BY <1>1
<1>3. Head(u) = s /\ Tail(u) = t /\ u # <<>>
  BY <1>1
<1> HIDE DEF u
<1>4. ASSUME NEW j \in 1..Len(u)
      PROVE  /\ Plain(u[j]) \/ (j = 1 /\ u[j].op = "sign" /\ u[j].m \in Dialog)
             /\ u[j].op = "unless" => j < Len(u)
  <2>1. CASE j = 1
    BY <1>2, <2>1
  <2>2. CASE j # 1
    <3>1. j - 1 \in 1..Len(t) /\ u[j] = t[j - 1]
      BY <1>2, <2>2
    <3> QED
      BY <1>2, <3>1 DEF Programs
  <2> QED
    BY <2>1, <2>2
<1>5. Runs(u)
  BY <1>4 DEF Runs
<1> QED
  BY <1>2, <1>3, <1>5 DEF u

----------------------------------------------------------------------------
(* Ends of a command                                                       *)

\* The connection and the last request are the same.
SameLink(f, h) ==
    /\ f.open = h.open /\ f.link = h.link /\ f.silent = h.silent /\ f.bb02 = h.bb02
    /\ f.id = h.id /\ f.chan = h.chan /\ f.key = h.key /\ f.sent = h.sent /\ f.lost = h.lost
    /\ f.last = h.last /\ f.cancel = h.cancel /\ f.seen = h.seen

\* The command has ended, or it is enumerate and asks for the information.
Stopped(f, h) ==
    /\ f \in Hosts /\ SameLink(f, h) /\ f.q = "none"
    /\ \/ f.cmd = "none" /\ f.todo = <<>> /\ f.outcome \notin {"ok", "none"}
       \/ f.cmd = h.cmd /\ h.cmd = "enumerate" /\ f.todo = InfoAgain /\ f.outcome = h.outcome

\* A command that ends keeps the client's connection.
LEMMA EndedFacts ==
    ASSUME NEW h \in Hosts, NEW how \in Outcomes
    PROVE  /\ Ended(h, how) \in Hosts /\ SameLink(Ended(h, how), h)
           /\ Ended(h, how).q = "none" /\ Ended(h, how).cmd = "none" /\ Ended(h, how).todo = <<>>
           /\ Ended(h, how).outcome = how
<1>0. <<>> \in Seq(Steps)
  OBVIOUS
<1>1. Ended(h, how) \in Hosts
  BY <1>0 DEF Ended, Hosts
<1>2. SameLink(Ended(h, how), h)
  BY DEF Ended, Hosts, SameLink
<1>3. /\ Ended(h, how).q = "none" /\ Ended(h, how).cmd = "none" /\ Ended(h, how).todo = <<>>
      /\ Ended(h, how).outcome = how
  BY DEF Ended, Hosts
<1> QED
  BY <1>1, <1>2, <1>3

\* The query behind a failed init is a step.
LEMMA InfoAgainType == InfoAgain \in Seq(Steps)
BY InfoAgainPlain, PlainProgram, ProgramRuns

\* A failure stops the command; for enumerate the query for the information is left.
LEMMA FailedFacts ==
    ASSUME NEW h \in Hosts, NEW how \in Outcomes \ {"ok", "none"}
    PROVE  Stopped(Failed(h, how), h)
<1>1. "raised" \in Outcomes /\ "entry" \in Outcomes
  BY DEF Outcomes
<1>2. ASSUME NEW o \in Outcomes, o # "ok", o # "none"
      PROVE  Stopped(Ended(h, o), h)
  BY <1>2, EndedFacts DEF Stopped
<1>3. ASSUME h.cmd = "enumerate"
      PROVE  Stopped([h EXCEPT !.todo = InfoAgain, !.q = "none"], h)
  BY <1>3, InfoAgainType DEF Stopped, Hosts, SameLink
<1> QED
  BY <1>1, <1>2, <1>3 DEF Failed

\* The command goes on with t.
Going(f, h, t) ==
    /\ f \in Hosts /\ SameLink(f, h) /\ f.q = "none" /\ f.todo = t
    /\ f.cmd = h.cmd /\ f.outcome = h.outcome

\* Going on keeps the command and the connection.
LEMMA GoingFacts ==
    ASSUME NEW h \in Hosts, NEW t \in Seq(Steps)
    PROVE  Going([h EXCEPT !.todo = t, !.q = "none"], h, t)
<1>1. [h EXCEPT !.todo = t, !.q = "none"] \in Hosts
  BY DEF Hosts
<1>2. SameLink([h EXCEPT !.todo = t, !.q = "none"], h)
  BY DEF Hosts, SameLink
<1> QED
  BY <1>1, <1>2 DEF Going, Hosts

\* What is left to do are steps.
LEMMA HostTypes ==
    ASSUME NEW h \in Hosts
    PROVE  /\ h.cmd \in Commands \cup {"none"} /\ h.todo \in Seq(Steps) /\ h.q \in {"none", "new", "poll"}
           /\ h.id \in Nat /\ h.chan \in Nat /\ h.sent \in Nat
BY DEF Hosts

\* The host's flags are Booleans.
LEMMA HostFlags ==
    ASSUME NEW h \in Hosts
    PROVE  /\ h.open \in BOOLEAN /\ h.link \in BOOLEAN /\ h.silent \in BOOLEAN /\ h.bb02 \in BOOLEAN
           /\ h.lost \in BOOLEAN /\ h.cancel \in BOOLEAN /\ h.seen \in BOOLEAN
BY DEF Hosts

----------------------------------------------------------------------------
(* The shape of the host's state and of the request                        *)

Base == Types /\ HostShape /\ JobShape /\ Stale

\* Nothing is left to do while no command runs, and a client that is closed
\* has none.
LEMMA Idle ==
    ASSUME Types, HostShape
    PROVE  /\ host.todo # <<>> \/ host.q # "none" => host.cmd # "none"
           /\ host.cmd # "none" => host.open
           /\ host.q # "none" => host.todo # <<>>
<1>1. host.todo # <<>> \/ host.q # "none" => host.cmd # "none"
  BY DEF HostShape
<1>2. host.q # "none" => host.todo # <<>>
  BY DEF HostShape
<1>3. host.cmd # "none" => host.open
  BY HostFlags DEF HostShape, Types, NoHost
<1> QED
  BY <1>1, <1>2, <1>3

\* A host that has only the connection of the running command changed.
Like(g) ==
    /\ g.open = host.open /\ g.cmd = host.cmd /\ g.outcome = host.outcome /\ g.last = host.last
    /\ g.bb02 => g.chan # 0

\* Nothing left to do is the end of a program.
LEMMA EmptyRuns == Runs(<<>>) /\ ~Connects(<<>>)
BY DEF Runs, Connects

\* The query behind a failed init is no part of the pairing.
LEMMA InfoAgainRuns == Runs(InfoAgain) /\ ~Connects(InfoAgain) /\ InfoAgain # <<>> /\ Head(InfoAgain).m = "info_again"
<1>1. InfoAgain \in Seq(Steps) /\ Len(InfoAgain) = 1
  BY InfoAgainType, InfoAgainPlain
<1>2. InfoAgain # <<>>
  BY <1>1, LongSeq
<1>3. Runs(InfoAgain)
  BY InfoAgainPlain, PlainProgram, ProgramRuns
<1> QED
  BY <1>1, <1>2, <1>3, RunsHead, HeadTail, InfoAgainPlain

\* A command that goes on with t keeps the shape of the host.
LEMMA GoingShape ==
    ASSUME Types, HostShape, host.cmd # "none", NEW g, Like(g), NEW t, Going(host', g, t),
           Connects(t) \/ Runs(t),
           Connects(t) => (g.bb02 <=> Head(t).m = "init_info"),
           ~Connects(t) /\ ~g.bb02 => t \in {<<>>, InfoAgain},
           t # <<>> /\ Head(t).m \in {"verify", "confirm"} => g.chan # 0
    PROVE  HostShape'
<1>1. host.cmd \in Commands /\ host.outcome = "none" /\ host.last = host.cmd /\ host.open
  BY Idle DEF HostShape
<1>2. /\ host'.open = g.open /\ host'.bb02 = g.bb02 /\ host'.chan = g.chan /\ host'.last = g.last
      /\ host'.q = "none" /\ host'.todo = t /\ host'.cmd = g.cmd /\ host'.outcome = g.outcome
  BY DEF Going, SameLink
<1>3. /\ g.open = host.open /\ g.cmd = host.cmd /\ g.outcome = host.outcome /\ g.last = host.last
      /\ g.bb02 => g.chan # 0
  BY DEF Like
<1> QED
  BY <1>1, <1>2, <1>3 DEF HostShape, Now

\* So does one that stops.
LEMMA StoppedShape ==
    ASSUME Types, HostShape, host.cmd # "none", NEW g, Like(g), Stopped(host', g)
    PROVE  HostShape'
<1>1. host.cmd \in Commands /\ host.outcome = "none" /\ host.last = host.cmd /\ host.open
  BY Idle DEF HostShape
<1>2. /\ host'.open = g.open /\ host'.bb02 = g.bb02 /\ host'.chan = g.chan /\ host'.last = g.last
      /\ host'.q = "none"
  BY DEF Stopped, SameLink
<1>3. /\ g.open = host.open /\ g.cmd = host.cmd /\ g.outcome = host.outcome /\ g.last = host.last
      /\ g.bb02 => g.chan # 0
  BY DEF Like
<1>4. \/ host'.cmd = "none" /\ host'.todo = <<>>
      \/ host'.cmd = g.cmd /\ host'.todo = InfoAgain /\ host'.outcome = g.outcome
  BY DEF Stopped
<1> QED
  BY <1>1, <1>2, <1>3, <1>4, EmptyRuns, InfoAgainRuns DEF HostShape, Now

\* An end of the command with a given outcome.
LEMMA EndedShape ==
    ASSUME Types, HostShape, host.cmd # "none", NEW g \in Hosts, Like(g), NEW how \in Outcomes,
           host' = Ended(g, how)
    PROVE  HostShape'
<1>1. /\ host'.open = g.open /\ host'.bb02 = g.bb02 /\ host'.chan = g.chan /\ host'.last = g.last
      /\ host'.q = "none" /\ host'.cmd = "none" /\ host'.todo = <<>>
  BY EndedFacts DEF SameLink
<1>2. host.open
  BY Idle
<1> QED
  BY <1>1, <1>2, EmptyRuns DEF HostShape, Now, Like

\* A client that is not open has its type.
LEMMA NoHostType == NoHost \in Hosts
<1>1. <<>> \in Seq(Steps)
  OBVIOUS
<1> QED
  BY <1>1 DEF NoHost, Hosts, Outcomes

Jobs ==
    [id : Nat, st : {"none", "working", "done", "other"}, step : Steps, chan : Nat, no : Nat,
     ans : RawAnswers \cup NextAnswers \cup InfoAnswers \cup OtherAnswers]

\* No request has its type.
LEMMA NoJobType == NoJob \in Jobs /\ NoJob.id = 0 /\ NoJob.st = "none"
<1>1. "none" \in Methods
  BY DEF Methods
<1>2. Step("query", "none") \in Steps
  BY <1>1, StepFields DEF Ops
<1>3. [kind |-> "none"] \in OtherAnswers
  BY DEF OtherAnswers
<1> QED
  BY <1>2, <1>3 DEF NoJob, Jobs

\* The request of the device when the host has none.
LEMMA QuietJob ==
    ASSUME Types, Types', JobShape, Stale, host'.q = "none", host.q # "poll", host'.id = host.id,
           host'.chan \in {0, host.chan}, host.lost => host'.lost, UNCHANGED <<job, dev>>,
           used'.ids >= used.ids
    PROVE  JobShape' /\ Stale'
<1>1. /\ host.id \in Nat /\ host.chan \in Nat /\ job.id \in Nat /\ dev.chan \in Nat
      /\ used.ids \in Nat /\ used'.ids \in Nat
  BY DEF Types, Hosts, Devices
<1>2. JobShape'
  BY <1>1 DEF JobShape
<1>3. Stale'
  BY <1>1 DEF Stale
<1> QED
  BY <1>2, <1>3

\* The request is over.
LEMMA TakenJob ==
    ASSUME Types, Types', JobShape, host'.q = "none", host'.id = host.id, host'.chan <= used.ids,
           dev'.chan <= used.ids, job' = NoJob, used'.ids >= used.ids
    PROVE  JobShape' /\ Stale'
<1>1. /\ host'.id \in Nat /\ host'.chan \in Nat /\ dev'.chan \in Nat /\ host.id \in Nat
      /\ used.ids \in Nat /\ used'.ids \in Nat
  BY DEF Types, Hosts, Devices
<1>2. job'.id = 0 /\ job'.st = "none"
  BY NoJobType
<1>3. JobShape'
  BY <1>1, <1>2 DEF JobShape
<1>4. Stale'
  BY <1>2, <1>1 DEF Stale
<1> QED
  BY <1>3, <1>4

\* Open keeps the shape.
LEMMA OpenBase == ASSUME Base, Open PROVE Base'
<1>1. PICK silent \in BOOLEAN : host' = [NoHost EXCEPT !.open = TRUE, !.link = TRUE, !.silent = silent]
  BY DEF Open
<1>2. host = NoHost /\ UNCHANGED <<known, confirmed, sign, dev, job, used>>
  BY DEF Open, Base, HostShape
<1>3. host' \in Hosts
  BY <1>1, NoHostType DEF Hosts
<1>4. /\ host'.open /\ host'.cmd = "none" /\ host'.todo = <<>> /\ host'.q = "none" /\ host'.id = 0
      /\ host'.chan = 0 /\ ~host'.bb02 /\ host'.lost = FALSE
  BY <1>1 DEF NoHost
<1>5. host.id = 0 /\ host.chan = 0 /\ host.q = "none" /\ host.lost = FALSE
  BY <1>2 DEF NoHost
<1>6. Types'
  BY <1>2, <1>3 DEF Base, Types
<1>7. HostShape'
  BY <1>4, EmptyRuns DEF HostShape, Now
<1>8. used'.ids >= used.ids
  BY <1>2 DEF Base, Types
<1>9. JobShape' /\ Stale'
  BY <1>2, <1>4, <1>5, <1>6, <1>8, QuietJob DEF Base
<1> QED
  BY <1>6, <1>7, <1>9 DEF Base

\* The client goes, with or without a command.
LEMMA GoneBase ==
    ASSUME Base, host' = NoHost, UNCHANGED <<sign, dev, job>>,
           used' \in [commands : Nat, faults : Nat, asks : Nat, ids : Nat], used'.ids = used.ids
    PROVE  Base'
<1>1. Types'
  BY NoHostType DEF Base, Types
<1>2. /\ host'.q = "none" /\ host'.id = 0 /\ host'.chan = 0 /\ ~host'.bb02 /\ host'.todo = <<>>
      /\ host'.cmd = "none"
  BY DEF NoHost
<1>3. HostShape'
  BY <1>2, EmptyRuns DEF HostShape, Now
<1>4. /\ job.id \in Nat /\ dev.chan \in Nat /\ used.ids \in Nat
  BY DEF Base, Types, Devices
<1>5. JobShape'
  BY <1>2, <1>4 DEF Base, JobShape
<1>6. Stale'
  BY <1>2, <1>4 DEF Base, Stale, JobShape
<1> QED
  BY <1>1, <1>3, <1>5, <1>6 DEF Base

\* Close keeps the shape.
LEMMA CloseBase == ASSUME Base, Close PROVE Base'
BY GoneBase DEF Close, Base, Types

\* Kill keeps the shape.
LEMMA KillBase == ASSUME Base, Kill PROVE Base'
<1>1. used' \in [commands : Nat, faults : Nat, asks : Nat, ids : Nat] /\ used'.ids = used.ids
  BY DEF Kill, Base, Types
<1> QED
  BY <1>1, GoneBase DEF Kill

\* Return keeps the shape.
LEMMA ReturnBase == ASSUME Base, Return PROVE Base'
<1>1. host \in Hosts /\ Like(host) /\ host.cmd # "none" /\ host.q = "none"
  BY DEF Return, Base, Types, Like, HostShape
<1>2. "ok" \in Outcomes
  BY DEF Outcomes
<1>3. /\ host' = Ended(host, "ok") /\ host' \in Hosts /\ SameLink(host', host) /\ host'.q = "none"
  BY <1>1, <1>2, EndedFacts DEF Return
<1>4. Types'
  BY <1>3 DEF Base, Types, Return
<1>5. HostShape'
  BY <1>1, <1>2, <1>3, EndedShape DEF Base
<1>6. used'.ids >= used.ids /\ UNCHANGED <<job, dev>>
  BY DEF Base, Types, Return
<1>7. JobShape' /\ Stale'
  BY <1>1, <1>3, <1>4, <1>6, QuietJob DEF Base, SameLink
<1> QED
  BY <1>4, <1>5, <1>7 DEF Base

\* Begin keeps the shape.
LEMMA BeginBase == ASSUME Base, NEW c \in Commands, Begin(c) PROVE Base'
<1> DEFINE t == IF host.bb02 THEN Program(c, dev.ver) ELSE <<Step("raw", "info")>>
<1>1. host \in Hosts /\ dev \in Devices /\ host.q = "none" /\ host.open
  BY DEF Begin, Base, Types, HostShape
<1>2. Program(c, dev.ver) \in Seq(Steps) /\ Runs(Program(c, dev.ver))
  BY ProgramPlain, ProgramRuns
<1>3. /\ <<Step("raw", "info")>> \in Seq(Steps) /\ Connects(<<Step("raw", "info")>>)
      /\ Head(<<Step("raw", "info")>>).m = "info"
  BY ConnectsSingle DEF PairingEnds
<1>4. t \in Seq(Steps)
  BY <1>2, <1>3
<1>5. host' = [host EXCEPT !.cmd = c, !.last = c, !.outcome = "none", !.todo = t]
  BY DEF Begin
<1> HIDE DEF t
<1>6. host' \in Hosts
  BY <1>1, <1>4, <1>5 DEF Hosts, Outcomes
<1>7. /\ host'.open /\ host'.cmd = c /\ host'.last = c /\ host'.outcome = "none" /\ host'.todo = t
      /\ host'.q = "none" /\ host'.id = host.id /\ host'.chan = host.chan /\ host'.bb02 = host.bb02
      /\ host'.lost = host.lost
  BY <1>1, <1>5 DEF Hosts
<1>8. used' \in [commands : Nat, faults : Nat, asks : Nat, ids : Nat] /\ used'.ids = used.ids
  <2> DEFINE x == IF c \in Alone THEN MaxCommands ELSE used.commands + 1
  <2>1. used \in [commands : Nat, faults : Nat, asks : Nat, ids : Nat]
    BY DEF Base, Types
  <2>2. x \in Nat
    BY <2>1, BitBox02Assumption
  <2>3. used' = [used EXCEPT !.commands = x]
    BY DEF Begin
  <2> HIDE DEF x
  <2> QED
    BY <2>1, <2>2, <2>3
<1>9. NoSign \in [pass2 : BOOLEAN, sigs : Seq(Signatures)]
  BY DEF NoSign
<1>10. Types'
  BY <1>6, <1>8, <1>9 DEF Begin, Base, Types
<1>11. HostShape'
  <2>1. c # "none"
    BY BitBox02Assumption
  <2>2. CASE host.bb02
    <3>1. t = Program(c, dev.ver) /\ host.chan # 0
      BY <2>2 DEF t, Base, HostShape
    <3>2. t # <<>> => ~Connects(t) /\ Head(t).m \notin PairingEnds
      BY <1>2, <3>1, RunsHead
    <3> QED
      BY <1>2, <1>7, <2>1, <2>2, <3>1, <3>2, EmptyRuns DEF HostShape, Now, PairingEnds
  <2>3. CASE ~host.bb02
    <3>1. t = <<Step("raw", "info")>>
      BY <2>3 DEF t
    <3> QED
      BY <1>3, <1>7, <2>1, <2>3, <3>1 DEF HostShape, Now
  <2> QED
    BY <2>2, <2>3
<1>12. JobShape' /\ Stale'
  <2>1. UNCHANGED <<job, dev>> /\ used'.ids >= used.ids
    BY <1>8 DEF Begin, Base, Types
  <2> QED
    BY <1>1, <1>7, <1>10, <2>1, QuietJob DEF Base
<1> QED
  BY <1>10, <1>11, <1>12 DEF Base

\* The first step of what is left.
LEMMA NowType ==
    ASSUME Base, host.todo # <<>>
    PROVE  /\ Now \in Steps /\ Tail(host.todo) \in Seq(Steps) /\ host.todo \in Seq(Steps)
           /\ Now = Head(host.todo)
BY HeadTail, HostTypes DEF Base, Types, Now

\* A failure of the request that runs, or of the step before it is asked.
LEMMA FailedBase ==
    ASSUME Base, host.cmd # "none", host.q # "poll", NEW how \in Outcomes \ {"ok", "none"}, host' = Failed(host, how),
           UNCHANGED <<sign, dev, job>>,
           used' \in [commands : Nat, faults : Nat, asks : Nat, ids : Nat], used'.ids >= used.ids
    PROVE  Base'
<1>1. host \in Hosts /\ Like(host)
  BY DEF Base, Types, Like, HostShape
<1>2. Stopped(host', host)
  BY <1>1, FailedFacts
<1>3. /\ host' \in Hosts /\ host'.q = "none" /\ host'.id = host.id /\ host'.chan = host.chan
      /\ host'.lost = host.lost
  BY <1>2 DEF Stopped, SameLink
<1>4. Types'
  BY <1>3 DEF Base, Types
<1>5. HostShape'
  BY <1>1, <1>2, StoppedShape DEF Base
<1>6. JobShape' /\ Stale'
  BY <1>3, <1>4, QuietJob DEF Base
<1> QED
  BY <1>4, <1>5, <1>6 DEF Base

\* The command goes on while no request runs.
LEMMA GoingBase ==
    ASSUME Base, host.cmd # "none", host.q = "none", NEW t, Going(host', host, t),
           UNCHANGED <<sign, dev, job, used>>,
           Connects(t) \/ Runs(t),
           Connects(t) => (host.bb02 <=> Head(t).m = "init_info"),
           ~Connects(t) /\ ~host.bb02 => t \in {<<>>, InfoAgain},
           t # <<>> => Head(t).m \notin {"verify", "confirm"}
    PROVE  Base'
<1>1. Like(host)
  BY DEF Base, Types, Like, HostShape
<1>2. /\ host' \in Hosts /\ host'.q = "none" /\ host'.id = host.id /\ host'.chan = host.chan
      /\ host'.lost = host.lost
  BY DEF Going, SameLink
<1>3. Types'
  BY <1>2 DEF Base, Types
<1>4. HostShape'
  BY <1>1, GoingShape DEF Base
<1>5. used'.ids >= used.ids
  BY DEF Base, Types
<1>6. JobShape' /\ Stale'
  BY <1>2, <1>3, <1>5, QuietJob DEF Base
<1> QED
  BY <1>3, <1>4, <1>6 DEF Base

\* A program goes on with its next step.
LEMMA TailBase ==
    ASSUME Base, host.todo # <<>>, Runs(host.todo), host.q = "none",
           host' = [host EXCEPT !.todo = Tail(@)] \/ host' = [host EXCEPT !.todo = Tail(@), !.q = "none"],
           UNCHANGED <<sign, dev, job, used>>
    PROVE  Base'
<1>1. host \in Hosts /\ host.cmd # "none" /\ host.todo \in Seq(Steps)
  BY Idle, HostTypes DEF Base, Types
<1>2. Runs(Tail(host.todo)) /\ Tail(host.todo) \in Seq(Steps)
  BY <1>1, RunsTail, HeadTail
<1>3. host' = [host EXCEPT !.todo = Tail(host.todo), !.q = "none"]
  BY <1>1 DEF Hosts
<1>4. Going(host', host, Tail(host.todo))
  BY <1>1, <1>2, <1>3, GoingFacts
<1>5. ~host.bb02 => Tail(host.todo) = <<>>
  <2> SUFFICES ASSUME ~host.bb02 PROVE Tail(host.todo) = <<>>
    OBVIOUS
  <2>1. ~Connects(host.todo)
    BY <1>1, RunsHead
  <2>2. host.todo = InfoAgain
    BY <2>1 DEF Base, HostShape
  <2> QED
    BY <2>2 DEF InfoAgain
<1>6. Tail(host.todo) # <<>> => ~Connects(Tail(host.todo)) /\ Head(Tail(host.todo)).m \notin PairingEnds
  BY <1>2, RunsHead
<1> QED
  BY <1>1, <1>2, <1>4, <1>5, <1>6, EmptyRuns, GoingBase DEF PairingEnds

\* A pairing does not take part in what only programs do.
LEMMA ConnectsOr ==
    ASSUME Base, host.todo # <<>>
    PROVE  /\ Connects(host.todo) \/ Runs(host.todo)
           /\ Now.op \in {"need", "loop", "unless", "toggle", "sign"} => Runs(host.todo)
           /\ Now.m \notin Pairing \cup PairingEnds => Runs(host.todo)
<1>1. host.todo \in Seq(Steps) /\ Now = Head(host.todo)
  BY NowType
<1>2. Connects(host.todo) \/ Runs(host.todo)
  BY DEF Base, HostShape
<1>3. Connects(host.todo) => Now.op \in {"query", "ask", "raw"} /\ Now.m \in Pairing \cup PairingEnds
  BY <1>1, ConnectsHead
<1> QED
  BY <1>2, <1>3

\* Require keeps the shape.
LEMMA RequireBase == ASSUME Base, Require PROVE Base'
<1>1. host.todo # <<>> /\ host.q = "none" /\ UNCHANGED <<sign, dev, job, used>>
  BY DEF Require
<1>2. host.cmd # "none"
  BY <1>1, Idle DEF Base
<1>3. CASE Now.v > dev.ver
  <2>1. host' = Failed(host, "unsupported")
    BY <1>3 DEF Require
  <2>2. used' \in [commands : Nat, faults : Nat, asks : Nat, ids : Nat] /\ used'.ids >= used.ids
    BY <1>1 DEF Base, Types
  <2> QED
    BY <1>1, <1>2, <2>1, <2>2, FailedBase DEF Outcomes
<1>4. CASE ~(Now.v > dev.ver)
  <2>1. host' = [host EXCEPT !.todo = Tail(@)] /\ Now.op = "need"
    BY <1>4 DEF Require
  <2>2. Runs(host.todo)
    BY <1>1, <2>1, ConnectsOr
  <2> QED
    BY <1>1, <2>1, <2>2, TailBase
<1> QED
  BY <1>3, <1>4

\* GetInfo keeps the shape.
LEMMA GetInfoBase == ASSUME Base, GetInfo PROVE Base'
<1>1. host.todo # <<>> /\ host.q = "none" /\ UNCHANGED <<sign, dev, job, used>>
  BY DEF GetInfo
<1>2. host.cmd # "none"
  BY <1>1, Idle DEF Base
<1>3. ASSUME NEW how \in {"raw", "outdatedLibrary"}, host' = Failed(host, how) PROVE Base'
  <2>1. used' \in [commands : Nat, faults : Nat, asks : Nat, ids : Nat] /\ used'.ids >= used.ids
    BY <1>1 DEF Base, Types
  <2> QED
    BY <1>1, <1>2, <1>3, <2>1, FailedBase DEF Outcomes
<1>4. ASSUME Now.m = "info_again", host' = [host EXCEPT !.todo = Tail(@)] PROVE Base'
  <2>1. Now.m \notin Pairing \cup PairingEnds
    BY <1>4 DEF Pairing, PairingEnds
  <2> QED
    BY <1>1, <1>4, <2>1, ConnectsOr, TailBase
<1>5. ASSUME Now.m = "info", host' = [host EXCEPT !.todo = Connecting(dev.ver)] PROVE Base'
  <2>1. host \in Hosts /\ dev.ver \in Nat
    BY DEF Base, Types, Devices
  <2>2. /\ Connecting(dev.ver) \in Seq(Steps) /\ Connects(Connecting(dev.ver))
        /\ Head(Connecting(dev.ver)).m \in Pairing
    BY <2>1, ConnectingShape
  <2>3. host' = [host EXCEPT !.todo = Connecting(dev.ver), !.q = "none"]
    BY <1>1, <1>5, <2>1 DEF Hosts
  <2>4. Going(host', host, Connecting(dev.ver))
    BY <2>1, <2>2, <2>3, GoingFacts
  <2>5. Connects(host.todo)
    <3>1. Now.m \in PairingEnds
      BY <1>5 DEF PairingEnds
    <3>2. ~Runs(host.todo)
      BY <1>1, <3>1, NowType, RunsHead
    <3> QED
      BY <1>1, <3>2, ConnectsOr
  <2>6. ~host.bb02
    BY <1>5, <2>1, <2>5, HostFlags DEF Base, HostShape
  <2>7. Head(Connecting(dev.ver)).m \notin PairingEnds
    BY <2>2, GroupsDisjoint
  <2> QED
    BY <1>1, <1>2, <2>2, <2>4, <2>6, <2>7, GoingBase DEF PairingEnds
<1> QED
  BY <1>3, <1>4, <1>5 DEF GetInfo

\* Ask keeps the shape.
LEMMA AskBase == ASSUME Base, Ask PROVE Base'
<1>1. host.todo # <<>> /\ host.q = "none" /\ UNCHANGED <<sign, dev, job>>
  BY DEF Ask
<1>2. host.cmd # "none" /\ host \in Hosts
  BY <1>1, Idle DEF Base, Types
<1>3. /\ used' \in [commands : Nat, faults : Nat, asks : Nat, ids : Nat] /\ used'.ids = used.ids + 1
      /\ used.ids \in Nat
  <2>1. used \in [commands : Nat, faults : Nat, asks : Nat, ids : Nat]
    BY DEF Base, Types
  <2>2. used' = [used EXCEPT !.ids = @ + 1]
    BY DEF Ask
  <2> QED
    BY <2>1, <2>2
<1>4. CASE ~host.link
  <2>1. host' = Failed(host, "raw")
    BY <1>4 DEF Ask
  <2> QED
    BY <1>1, <1>2, <1>3, <2>1, FailedBase DEF Outcomes
<1>5. CASE host.link
  <2>1. host' = [host EXCEPT !.q = "new", !.id = used.ids + 1, !.sent = IF Now.op = "raw" THEN @ ELSE @ + 1]
    BY <1>5 DEF Ask
  <2>2. host' \in Hosts
    <3>1. host.sent \in Nat /\ host.sent + 1 \in Nat /\ used.ids + 1 \in Nat
      BY <1>2, <1>3, HostTypes
    <3>2. host' = [host EXCEPT !.q = "new", !.id = used.ids + 1,
                               !.sent = IF Now.op = "raw" THEN host.sent ELSE host.sent + 1]
      BY <2>1
    <3> QED
      BY <1>2, <3>1, <3>2 DEF Hosts
  <2>3. /\ host'.open = host.open /\ host'.bb02 = host.bb02 /\ host'.chan = host.chan
        /\ host'.last = host.last /\ host'.todo = host.todo /\ host'.cmd = host.cmd
        /\ host'.outcome = host.outcome /\ host'.lost = host.lost
        /\ host'.q = "new" /\ host'.id = used.ids + 1
    BY <1>2, <2>1 DEF Hosts
  <2>4. Types'
    BY <1>3, <2>2 DEF Ask, Base, Types
  <2>5. HostShape'
    <3>1. Now.op \notin {"ask", "need"} /\ Now.m \notin {"info", "info_again"}
      BY DEF Ask
    <3>2. host.open
      BY <1>2, Idle DEF Base
    <3> QED
      BY <1>1, <1>2, <1>3, <2>3, <3>1, <3>2 DEF Base, HostShape, Now
  <2>6. /\ host.id \in Nat /\ host.chan \in Nat /\ job.id \in Nat /\ dev.chan \in Nat
    BY DEF Base, Types, Hosts, Devices
  <2>7. JobShape'
    BY <1>1, <1>3, <2>3, <2>6 DEF Base, JobShape
  <2>8. Stale'
    BY <1>1, <1>3, <2>3, <2>6 DEF Base, JobShape, Stale
  <2> QED
    BY <2>4, <2>5, <2>7, <2>8 DEF Base
<1> QED
  BY <1>4, <1>5

\* NewRequest keeps the shape.
LEMMA NewRequestBase == ASSUME Base, NewRequest PROVE Base'
<1>1. host.q = "new" /\ host.todo # <<>> /\ UNCHANGED <<sign, dev, used>> /\ host \in Hosts /\ host.id > 0
  BY DEF NewRequest, Base, Types, HostShape
<1>2. /\ job' = [NoJob EXCEPT !.id = host.id, !.st = "working", !.step = Now, !.chan = host.chan, !.no = host.sent]
      /\ host' = [host EXCEPT !.q = "poll", !.cancel = FALSE]
  BY DEF NewRequest
<1>3. host' \in Hosts
  BY <1>1, <1>2 DEF Hosts
<1>4. /\ host'.open = host.open /\ host'.bb02 = host.bb02 /\ host'.chan = host.chan
      /\ host'.last = host.last /\ host'.todo = host.todo /\ host'.cmd = host.cmd
      /\ host'.outcome = host.outcome /\ host'.lost = host.lost /\ host'.sent = host.sent
      /\ host'.q = "poll" /\ host'.id = host.id
  BY <1>1, <1>2 DEF Hosts
<1>5. job' \in Jobs
  BY <1>1, <1>2, NoJobType, NowType, HostTypes DEF Jobs
<1>6. /\ job'.id = host.id /\ job'.st = "working" /\ job'.step = Now /\ job'.chan = host.chan
      /\ job'.no = host.sent
  BY <1>2, NoJobType DEF Jobs
<1>7. Types'
  BY <1>1, <1>3, <1>5 DEF Base, Types, Jobs
<1>8. HostShape'
  BY <1>1, <1>4, Idle DEF Base, HostShape, Now
<1>9. host.id \in Nat /\ host.chan \in Nat /\ dev.chan \in Nat /\ used.ids \in Nat
  BY DEF Base, Types, Hosts, Devices
<1>10. JobShape'
  BY <1>1, <1>4, <1>6, <1>9 DEF Base, JobShape, Now
<1>11. Stale'
  BY <1>1, <1>4, <1>6, <1>9 DEF Base, Stale
<1> QED
  BY <1>7, <1>8, <1>10, <1>11 DEF Base

\* cancel_outstanding_request keeps the shape.
LEMMA CancelBase == ASSUME Base, cancel_outstanding_request PROVE Base'
<1>1. host.q # "none" /\ UNCHANGED <<sign, dev, job>> /\ host \in Hosts
  BY DEF cancel_outstanding_request, Base, Types
<1>2. host' = [host EXCEPT !.cancel = TRUE]
  BY DEF cancel_outstanding_request
<1>3. host' \in Hosts
  BY <1>1, <1>2 DEF Hosts
<1>4. /\ host'.open = host.open /\ host'.bb02 = host.bb02 /\ host'.chan = host.chan
      /\ host'.last = host.last /\ host'.todo = host.todo /\ host'.cmd = host.cmd
      /\ host'.outcome = host.outcome /\ host'.lost = host.lost /\ host'.sent = host.sent
      /\ host'.q = host.q /\ host'.id = host.id
  BY <1>1, <1>2 DEF Hosts
<1>5. used' \in [commands : Nat, faults : Nat, asks : Nat, ids : Nat] /\ used'.ids = used.ids
  BY DEF cancel_outstanding_request, Base, Types
<1>6. Types'
  BY <1>1, <1>3, <1>5 DEF Base, Types
<1>7. HostShape'
  BY <1>1, <1>4, Idle DEF Base, HostShape, Now
<1>8. JobShape'
  BY <1>1, <1>4, <1>5 DEF Base, JobShape, Now
<1>9. Stale'
  BY <1>1, <1>4, <1>5 DEF Base, Stale
<1> QED
  BY <1>6, <1>7, <1>8, <1>9 DEF Base

----------------------------------------------------------------------------
(* The pairing                                                             *)

\* The command is the same, with what it does next.
SameCommand(f, h) ==
    f.open = h.open /\ f.cmd = h.cmd /\ f.outcome = h.outcome /\ f.last = h.last /\ f.id = h.id

\* The pairing is done: the version is refused or the device's state is next.
LEMMA AfterPairingFacts ==
    ASSUME NEW h \in Hosts
    PROVE  \E g \in Hosts :
              /\ SameCommand(g, h) /\ g.chan = h.chan /\ g.key = h.key /\ g.lost = h.lost
              /\ \/ ~g.bb02 /\ Stopped(AfterPairing(h), g)
                 \/ g.bb02 /\ Going(AfterPairing(h), g, <<Step("query", "init_info")>>)
<1>1. CASE dev.ver < V(9, 0)
  <2> DEFINE g == [h EXCEPT !.bb02 = FALSE, !.q = "none"]
  <2>1. g \in Hosts
    BY DEF Hosts
  <2>2. SameCommand(g, h) /\ g.chan = h.chan /\ g.key = h.key /\ g.lost = h.lost /\ ~g.bb02
    BY DEF Hosts, SameCommand
  <2>3. AfterPairing(h) = Failed(g, "notReady")
    BY <1>1 DEF AfterPairing
  <2>4. "notReady" \in Outcomes \ {"ok", "none"}
    BY DEF Outcomes
  <2> HIDE DEF g
  <2>5. Stopped(AfterPairing(h), g)
    BY <2>1, <2>3, <2>4, FailedFacts
  <2> QED
    BY <2>1, <2>2, <2>5
<1>2. CASE ~(dev.ver < V(9, 0))
  <2> DEFINE g == [h EXCEPT !.bb02 = TRUE]
             t == <<Step("query", "init_info")>>
  <2>1. g \in Hosts
    BY DEF Hosts
  <2>2. SameCommand(g, h) /\ g.chan = h.chan /\ g.key = h.key /\ g.lost = h.lost /\ g.bb02
    BY DEF Hosts, SameCommand
  <2>3. t \in Seq(Steps)
    BY ConnectsSingle DEF PairingEnds
  <2> HIDE DEF t
  <2>4. AfterPairing(h) = [h EXCEPT !.todo = t, !.q = "none", !.bb02 = TRUE]
    BY <1>2 DEF AfterPairing, t
  <2>5. AfterPairing(h) = [g EXCEPT !.todo = t, !.q = "none"]
    BY <2>4 DEF Hosts
  <2> HIDE DEF g
  <2>6. Going(AfterPairing(h), g, t)
    BY <2>1, <2>3, <2>5, GoingFacts
  <2> QED
    BY <2>1, <2>2, <2>6 DEF t
<1> QED
  BY <1>1, <1>2

\* A pairing that fails closes the connection.
LEMMA ClosedFacts ==
    ASSUME NEW h \in Hosts
    PROVE  \E g \in Hosts :
              /\ SameCommand(g, h) /\ g.chan = h.chan /\ g.key = h.key /\ g.lost = h.lost /\ g.bb02 = h.bb02
              /\ Stopped(Closed(h, "raw"), g)
<1> DEFINE g == [h EXCEPT !.link = FALSE, !.q = "none"]
<1>1. g \in Hosts
  BY DEF Hosts
<1>2. SameCommand(g, h) /\ g.chan = h.chan /\ g.key = h.key /\ g.lost = h.lost /\ g.bb02 = h.bb02
  BY DEF Hosts, SameCommand
<1>3. Closed(h, "raw") = Failed(g, "raw")
  BY DEF Closed
<1>4. "raw" \in Outcomes \ {"ok", "none"}
  BY DEF Outcomes
<1> HIDE DEF g
<1>5. Stopped(Closed(h, "raw"), g)
  BY <1>1, <1>3, <1>4, FailedFacts
<1> QED
  BY <1>1, <1>2, <1>5

\* What holds of the host after a step of the pairing or of a program.
Settled ==
    /\ host' \in Hosts /\ HostShape' /\ host'.q = "none" /\ host'.id = host.id

\* After the pairing the command goes on with init or stops.
LEMMA AfterPairingSettled ==
    ASSUME Base, host.cmd # "none", NEW h \in Hosts, SameCommand(h, host), h.chan # 0, host' = AfterPairing(h)
    PROVE  Settled /\ host'.chan = h.chan /\ host'.lost = h.lost /\ host'.key = h.key
<1>1. PICK g \in Hosts :
         /\ SameCommand(g, h) /\ g.chan = h.chan /\ g.key = h.key /\ g.lost = h.lost
         /\ \/ ~g.bb02 /\ Stopped(host', g)
            \/ g.bb02 /\ Going(host', g, <<Step("query", "init_info")>>)
  BY AfterPairingFacts
<1>2. Like(g) /\ g.id = host.id
  BY <1>1 DEF Like, SameCommand
<1>3. CASE Stopped(host', g)
  <2>1. HostShape'
    BY <1>2, <1>3, StoppedShape DEF Base
  <2> QED
    BY <1>1, <1>2, <1>3, <2>1 DEF Stopped, SameLink, Settled
<1>4. CASE g.bb02 /\ Going(host', g, <<Step("query", "init_info")>>)
  <2>1. Connects(<<Step("query", "init_info")>>) /\ Head(<<Step("query", "init_info")>>).m = "init_info"
    BY ConnectsSingle DEF PairingEnds
  <2>2. HostShape'
    BY <1>2, <1>4, <2>1, GoingShape DEF Base
  <2> QED
    BY <1>1, <1>2, <1>4, <2>2 DEF Going, SameLink, Settled
<1> QED
  BY <1>1, <1>3, <1>4

\* A pairing that fails stops the command.
LEMMA ClosedSettled ==
    ASSUME Base, host.cmd # "none", NEW h \in Hosts, SameCommand(h, host), h.bb02 => h.chan # 0,
           host' = Closed(h, "raw")
    PROVE  Settled /\ host'.chan = h.chan /\ host'.lost = h.lost /\ host'.bb02 = h.bb02
<1>1. PICK g \in Hosts :
         /\ SameCommand(g, h) /\ g.chan = h.chan /\ g.key = h.key /\ g.lost = h.lost /\ g.bb02 = h.bb02
         /\ Stopped(host', g)
  BY ClosedFacts
<1>2. Like(g) /\ g.id = host.id
  BY <1>1 DEF Like, SameCommand
<1>3. HostShape'
  BY <1>1, <1>2, StoppedShape DEF Base
<1> QED
  BY <1>1, <1>2, <1>3 DEF Stopped, SameLink, Settled

\* The host waits for the user at the terminal and has no request.
LEMMA ConfirmState ==
    ASSUME Base, host.todo # <<>>, Now.m \in {"verify", "confirm"}
    PROVE  /\ host \in Hosts /\ host.cmd # "none" /\ host.chan # 0 /\ ~host.bb02 /\ Connects(host.todo)
           /\ Now.m = "confirm" => host.q = "none"
<1>1. host \in Hosts /\ host.todo \in Seq(Steps) /\ Now = Head(host.todo) /\ host.cmd # "none"
  BY NowType, Idle DEF Base, Types
<1>2. Now.m \in PairingEnds
  BY DEF PairingEnds
<1>3. ~Runs(host.todo)
  BY <1>1, <1>2, RunsHead
<1>4. Connects(host.todo)
  BY <1>3, ConnectsOr
<1>5. Now.m = "confirm" => Now.op = "ask"
  BY <1>1, <1>4, ConnectsHead
<1> QED
  BY <1>1, <1>4, <1>5, HostFlags DEF Base, HostShape

\* The host without its channel.
LEMMA NoChannel ==
    ASSUME NEW h \in Hosts
    PROVE  /\ [h EXCEPT !.chan = 0] \in Hosts /\ SameCommand([h EXCEPT !.chan = 0], h)
           /\ [h EXCEPT !.chan = 0].chan = 0 /\ [h EXCEPT !.chan = 0].lost = h.lost
           /\ [h EXCEPT !.chan = 0].bb02 = h.bb02
<1>1. [h EXCEPT !.chan = 0] \in Hosts
  BY DEF Hosts
<1> QED
  BY <1>1 DEF Hosts, SameCommand

\* Nothing changed is the same command.
LEMMA SameCommandReflexive == \A h : SameCommand(h, h)
BY DEF SameCommand

\* Confirm keeps the shape.
LEMMA ConfirmBase == ASSUME Base, Confirm PROVE Base'
<1>1. PICK ok \in BOOLEAN : host' = IF ok THEN AfterPairing(host) ELSE Closed([host EXCEPT !.chan = 0], "raw")
  BY DEF Confirm
<1>2. host.todo # <<>> /\ Now.m = "confirm" /\ UNCHANGED <<sign, dev, job, used>>
  BY DEF Confirm
<1>3. host \in Hosts /\ host.cmd # "none" /\ host.chan # 0 /\ ~host.bb02 /\ host.q = "none"
  BY <1>2, ConfirmState
<1>4. Settled /\ host'.chan \in {0, host.chan} /\ host'.lost = host.lost
  <2>1. CASE ok
    BY <1>1, <1>3, <2>1, AfterPairingSettled, SameCommandReflexive
  <2>2. CASE ~ok
    <3>1. host' = Closed([host EXCEPT !.chan = 0], "raw")
      BY <1>1, <2>2
    <3> QED
      BY <1>3, <3>1, NoChannel, ClosedSettled
  <2> QED
    BY <2>1, <2>2
<1>5. Types'
  BY <1>2, <1>4 DEF Base, Types, Settled
<1>6. used'.ids >= used.ids
  BY <1>2 DEF Base, Types
<1>7. JobShape' /\ Stale'
  BY <1>2, <1>3, <1>4, <1>5, <1>6, QuietJob DEF Base, Settled
<1> QED
  BY <1>4, <1>5, <1>7 DEF Base, Settled

----------------------------------------------------------------------------
(* What the device asks for while it signs                                 *)

Asked(type, i) == [type |-> type, index |-> i]
FirstPass == IF needsPrev THEN 2 * n ELSE n

\* The transaction has inputs, and each is asked for in the first pass.
LEMMA SizesType == n \in Nat /\ n > 0 /\ Outputs \in Nat /\ FirstPass \in Nat /\ FirstPass >= n
<1>1. n \in Nat /\ n > 0 /\ Outputs \in Nat
  BY BitBox02Assumption DEF n
<1> QED
  BY <1>1 DEF FirstPass

\* Every input, its transaction, the outputs, every input again.
LEMMA ScriptShape ==
    /\ Len(Script) = FirstPass + Outputs + n + 1
    /\ \A j \in 1..FirstPass :
          Script[j] = IF needsPrev THEN Asked(IF j % 2 = 1 THEN "INPUT" ELSE "PREVTX", (j + 1) \div 2)
                      ELSE Asked("INPUT", j)
    /\ \A j \in 1..Outputs : Script[FirstPass + j] = Asked("OUTPUT", j)
    /\ \A j \in 1..n : Script[FirstPass + Outputs + j] = Asked("INPUT", j)
    /\ Script[FirstPass + Outputs + n + 1] = Asked("DONE", 0)
<1> DEFINE All(type, k) == [i \in 1..k |-> [type |-> type, index |-> i]]
           WithPrev == [j \in 1..(2 * n) |->
                           [type |-> IF j % 2 = 1 THEN "INPUT" ELSE "PREVTX", index |-> (j + 1) \div 2]]
           R == [type : {"INPUT", "OUTPUT", "PREVTX", "DONE"}, index : Nat]
           f == IF needsPrev THEN WithPrev ELSE All("INPUT", n)
           o == All("OUTPUT", Outputs)
           i == All("INPUT", n)
           d == <<[type |-> "DONE", index |-> 0]>>
<1>1. n \in Nat /\ Outputs \in Nat /\ 2 * n \in Nat /\ FirstPass \in Nat
  BY SizesType
<1>2. /\ o \in Seq(R) /\ Len(o) = Outputs /\ \A j \in 1..Outputs : o[j] = Asked("OUTPUT", j)
  BY <1>1 DEF Asked
<1>3. /\ i \in Seq(R) /\ Len(i) = n /\ \A j \in 1..n : i[j] = Asked("INPUT", j)
  BY <1>1 DEF Asked
<1>4. d \in Seq(R) /\ Len(d) = 1 /\ d[1] = Asked("DONE", 0)
  BY DEF Asked
<1>5. /\ f \in Seq(R) /\ Len(f) = FirstPass
      /\ \A j \in 1..FirstPass :
            f[j] = IF needsPrev THEN Asked(IF j % 2 = 1 THEN "INPUT" ELSE "PREVTX", (j + 1) \div 2)
                   ELSE Asked("INPUT", j)
  <2>1. CASE needsPrev
    <3>1. \A j \in 1..(2 * n) : (j + 1) \div 2 \in Nat
      BY <1>1
    <3>2. WithPrev \in Seq(R)
      BY <1>1, <3>1
    <3>3. Len(WithPrev) = 2 * n
      BY <1>1
    <3> QED
      BY <2>1, <3>2, <3>3 DEF FirstPass, Asked
  <2>2. CASE ~needsPrev
    BY <1>3, <2>2 DEF FirstPass
  <2> QED
    BY <2>1, <2>2
<1>6. Script = ((f \o o) \o i) \o d
  BY DEF Script
<1> HIDE DEF f, o, i, d, R
<1>7. /\ f \o o \in Seq(R) /\ Len(f \o o) = FirstPass + Outputs
      /\ \A j \in 1..FirstPass : (f \o o)[j] = f[j]
      /\ \A j \in 1..Outputs : (f \o o)[FirstPass + j] = o[j]
  <2>1. f \in Seq(R) /\ o \in Seq(R)
    BY <1>2, <1>5
  <2>2. /\ f \o o \in Seq(R) /\ Len(f \o o) = Len(f) + Len(o)
        /\ \A j \in 1..Len(f) : (f \o o)[j] = f[j]
        /\ \A j \in 1..Len(o) : (f \o o)[Len(f) + j] = o[j]
    BY <2>1, ConcatElements
  <2> QED
    BY <1>2, <1>5, <2>2
<1> DEFINE a == f \o o
<1> HIDE DEF a
<1>8. /\ a \o i \in Seq(R) /\ Len(a \o i) = FirstPass + Outputs + n
      /\ \A j \in 1..(FirstPass + Outputs) : (a \o i)[j] = a[j]
      /\ \A j \in 1..n : (a \o i)[FirstPass + Outputs + j] = i[j]
  <2>1. a \in Seq(R) /\ i \in Seq(R)
    BY <1>3, <1>7 DEF a
  <2>2. /\ a \o i \in Seq(R) /\ Len(a \o i) = Len(a) + Len(i)
        /\ \A j \in 1..Len(a) : (a \o i)[j] = a[j]
        /\ \A j \in 1..Len(i) : (a \o i)[Len(a) + j] = i[j]
    BY <2>1, ConcatElements
  <2>3. Len(a) = FirstPass + Outputs /\ Len(i) = n
    BY <1>3, <1>7 DEF a
  <2> QED
    BY <2>2, <2>3
<1> DEFINE b == a \o i
<1> HIDE DEF b
<1>9. /\ Len(b \o d) = FirstPass + Outputs + n + 1
      /\ \A j \in 1..(FirstPass + Outputs + n) : (b \o d)[j] = b[j]
      /\ (b \o d)[FirstPass + Outputs + n + 1] = d[1]
  <2>1. b \in Seq(R) /\ d \in Seq(R)
    BY <1>4, <1>8 DEF b
  <2>2. /\ b \o d \in Seq(R) /\ Len(b \o d) = Len(b) + Len(d)
        /\ \A j \in 1..Len(b) : (b \o d)[j] = b[j]
        /\ \A j \in 1..Len(d) : (b \o d)[Len(b) + j] = d[j]
    BY <2>1, ConcatElements
  <2>3. Len(b) = FirstPass + Outputs + n /\ Len(d) = 1 /\ 1 \in 1..1
    BY <1>4, <1>8 DEF b
  <2> QED
    BY <2>2, <2>3
<1>10. Script = b \o d
  BY <1>6 DEF a, b
<1>11. \A j \in 1..FirstPass : j \in 1..(FirstPass + Outputs) /\ j \in 1..(FirstPass + Outputs + n)
  BY <1>1
<1>12. \A j \in 1..Outputs : FirstPass + j \in 1..(FirstPass + Outputs) /\ FirstPass + j \in 1..(FirstPass + Outputs + n)
  BY <1>1
<1>13. \A j \in 1..n : FirstPass + Outputs + j \in 1..(FirstPass + Outputs + n)
  BY <1>1
<1>14. \A j \in 1..FirstPass : Script[j] = f[j]
  BY <1>7, <1>8, <1>9, <1>10, <1>11 DEF a, b
<1>15. \A j \in 1..Outputs : Script[FirstPass + j] = o[j]
  BY <1>7, <1>8, <1>9, <1>10, <1>12 DEF a, b
<1>16. \A j \in 1..n : Script[FirstPass + Outputs + j] = i[j]
  BY <1>8, <1>9, <1>10, <1>13 DEF b
<1> QED
  BY <1>2, <1>3, <1>4, <1>5, <1>9, <1>10, <1>14, <1>15, <1>16

\* Which part of the script an entry is in.
LEMMA ScriptParts ==
    ASSUME NEW k \in 1..Len(Script)
    PROVE  \/ k \in 1..FirstPass
           \/ k - FirstPass \in 1..Outputs /\ k = FirstPass + (k - FirstPass)
           \/ k - FirstPass - Outputs \in 1..n /\ k = FirstPass + Outputs + (k - FirstPass - Outputs)
           \/ k = FirstPass + Outputs + n + 1
BY SizesType, ScriptShape

\* The entries of the script.
LEMMA ScriptType ==
    /\ Len(Script) \in Nat /\ Len(Script) > 2
    /\ \A k \in 1..Len(Script) : Script[k].type \in {"INPUT", "OUTPUT", "PREVTX", "DONE"} /\ Script[k].index \in Nat
<1>1. Len(Script) \in Nat /\ Len(Script) > 2
  BY SizesType, ScriptShape
<1>2. ASSUME NEW k \in 1..Len(Script)
      PROVE  Script[k].type \in {"INPUT", "OUTPUT", "PREVTX", "DONE"} /\ Script[k].index \in Nat
  <2>1. CASE k \in 1..FirstPass
    <3>1. CASE needsPrev
      <4>1. Script[k] = Asked(IF k % 2 = 1 THEN "INPUT" ELSE "PREVTX", (k + 1) \div 2)
        BY <2>1, <3>1, ScriptShape
      <4>2. (k + 1) \div 2 \in Nat
        BY <2>1, SizesType
      <4> QED
        BY <4>1, <4>2 DEF Asked
    <3>2. CASE ~needsPrev
      <4>1. Script[k] = Asked("INPUT", k)
        BY <2>1, <3>2, ScriptShape
      <4> QED
        BY <4>1 DEF Asked
    <3> QED
      BY <3>1, <3>2
  <2>2. CASE k - FirstPass \in 1..Outputs /\ k = FirstPass + (k - FirstPass)
    <3>1. Script[k] = Asked("OUTPUT", k - FirstPass)
      BY <2>2, ScriptShape
    <3> QED
      BY <2>2, <3>1 DEF Asked
  <2>3. CASE k - FirstPass - Outputs \in 1..n /\ k = FirstPass + Outputs + (k - FirstPass - Outputs)
    <3>1. Script[k] = Asked("INPUT", k - FirstPass - Outputs)
      BY <2>3, ScriptShape
    <3> QED
      BY <2>3, <3>1 DEF Asked
  <2>4. CASE k = FirstPass + Outputs + n + 1
    <3>1. Script[k] = Asked("DONE", 0)
      BY <2>4, ScriptShape
    <3> QED
      BY <3>1 DEF Asked
  <2> QED
    BY <2>1, <2>2, <2>3, <2>4, ScriptParts
<1> QED
  BY <1>1, <1>2

----------------------------------------------------------------------------
(* The device                                                              *)

Answers == RawAnswers \cup NextAnswers \cup InfoAnswers \cup OtherAnswers

\* The device has worked on the request.
LEMMA DoesBase ==
    ASSUME Base, job.st = "working", NEW a \in Answers, NEW d \in Devices, Does(a, d), d.chan <= used.ids,
           Fits(job.step, a),
           job.step.op = "raw" /\ job.step.m = "handshake2" /\ a.ok => a.chan = job.id,
           UNCHANGED <<host, sign>>,
           used' \in [commands : Nat, faults : Nat, asks : Nat, ids : Nat], used'.ids = used.ids
    PROVE  Base'
<1>1. job \in Jobs /\ job' = [job EXCEPT !.st = "done", !.ans = a] /\ dev' = d
  BY DEF Does, Base, Types, Jobs
<1>2. job' \in Jobs
  BY <1>1 DEF Jobs, Answers
<1>3. /\ job'.id = job.id /\ job'.st = "done" /\ job'.step = job.step /\ job'.chan = job.chan
      /\ job'.no = job.no /\ job'.ans = a
  BY <1>1 DEF Jobs
<1>4. Types'
  BY <1>1, <1>2 DEF Base, Types, Jobs
<1>5. HostShape'
  BY DEF Base, HostShape, Now
<1>6. JobShape'
  BY <1>1, <1>3 DEF Base, JobShape, Now
<1>7. Stale'
  BY <1>1, <1>3 DEF Base, Stale
<1> QED
  BY <1>4, <1>5, <1>6, <1>7 DEF Base

\* A device that was reset has its type.
LEMMA FreshType ==
    ASSUME NEW ver \in Nat, NEW key \in Keys
    PROVE  Fresh(ver, key) \in Devices /\ Fresh(ver, key).chan = 0
BY DEF Fresh, Devices

\* An answer outside the channel has its type.
LEMMA RawType ==
    ASSUME NEW ok \in BOOLEAN
    PROVE  Raw(ok) \in RawAnswers /\ Raw(ok).ok = ok
BY DEF Raw, RawAnswers

\* A question of btc_sign has its type.
LEMMA NextAskType ==
    ASSUME NEW k \in 1..Len(Script), NEW sig \in BOOLEAN, NEW of \in Nat, NEW honest \in BOOLEAN
    PROVE  NextAsk(k, sig, of, honest) \in NextAnswers
BY ScriptType DEF NextAsk, NextAnswers

\* A device that has changed in one field.
LEMMA DeviceFields ==
    ASSUME NEW d \in Devices
    PROVE  /\ \A x \in Nat : [d EXCEPT !.k = x] \in Devices /\ [d EXCEPT !.k = x].chan = d.chan
           /\ \A x \in Nat : [d EXCEPT !.rcvd = x] \in Devices /\ [d EXCEPT !.rcvd = x].chan = d.chan
           /\ [d EXCEPT !.chan = 0] \in Devices /\ [d EXCEPT !.chan = 0].chan = 0
BY DEF Devices

\* An effect leaves a device.
LEMMA EffectType ==
    ASSUME NEW d \in Devices, NEW m
    PROVE  Effect(d, m) \in Devices /\ Effect(d, m).chan \in {0, d.chan}
<1>1. /\ [d EXCEPT !.initialized = TRUE] \in Devices /\ [d EXCEPT !.initialized = TRUE].chan = d.chan
      /\ [d EXCEPT !.backup = TRUE] \in Devices /\ [d EXCEPT !.backup = TRUE].chan = d.chan
  BY DEF Devices
<1>2. /\ [d EXCEPT !.passphrase = TRUE] \in Devices /\ [d EXCEPT !.passphrase = TRUE].chan = d.chan
      /\ [d EXCEPT !.passphrase = FALSE] \in Devices /\ [d EXCEPT !.passphrase = FALSE].chan = d.chan
  BY DEF Devices
<1>3. /\ [d EXCEPT !.registered = TRUE] \in Devices /\ [d EXCEPT !.registered = TRUE].chan = d.chan
  BY DEF Devices
<1>4. d.ver \in Nat /\ d.key \in Keys
  BY DEF Devices
<1>5. Fresh(d.ver, d.key) \in Devices /\ Fresh(d.ver, d.key).chan = 0
  BY <1>4, FreshType
<1> QED
  BY <1>1, <1>2, <1>3, <1>5, DeviceFields DEF Effect

\* What the device does with a query of btc_sign.
LEMMA DeviceSignsDoes ==
    ASSUME NEW d \in Devices, NEW s \in Steps, DeviceSigns(d, s)
    PROVE  \E a \in NextAnswers, e \in Devices : Does(a, e) /\ e.chan = d.chan
<1>1. d.k \in Nat /\ s.i \in Nat
  BY DEF Devices, Steps
<1>2. Signing(d) => d.k \in 1..Len(Script) /\ d.k + 1 \in 1..Len(Script)
  BY <1>1, ScriptType DEF Signing
<1>3. 1 \in 1..Len(Script)
  BY ScriptType
<1>4. \A x \in Nat : [d EXCEPT !.k = x] \in Devices /\ [d EXCEPT !.k = x].chan = d.chan
  BY DeviceFields
<1>5. ASSUME NEW sig \in BOOLEAN, NEW of \in Nat, NEW honest \in BOOLEAN, Signing(d),
             Does(NextAsk(d.k + 1, sig, of, honest), [d EXCEPT !.k = @ + 1])
      PROVE  \E a \in NextAnswers, e \in Devices : Does(a, e) /\ e.chan = d.chan
  <2>1. NextAsk(d.k + 1, sig, of, honest) \in NextAnswers
    BY <1>2, <1>5, NextAskType
  <2>2. d.k + 1 \in Nat /\ [d EXCEPT !.k = @ + 1] = [d EXCEPT !.k = d.k + 1]
    BY <1>1
  <2> QED
    BY <1>4, <1>5, <2>1, <2>2
<1>6. CASE s.m = "btc_sign_init" /\ Does(NextAsk(1, FALSE, 0, FALSE), [d EXCEPT !.k = 1])
  <2>1. NextAsk(1, FALSE, 0, FALSE) \in NextAnswers
    BY <1>3, NextAskType
  <2> QED
    BY <1>4, <1>6, <2>1
<1>7. CASE Signing(d) /\ Does([NextAsk(d.k, FALSE, 0, FALSE) EXCEPT !.type = "HOST_NONCE"], d)
  <2>1. NextAsk(d.k, FALSE, 0, FALSE) \in NextAnswers
    BY <1>2, <1>7, NextAskType
  <2>2. [NextAsk(d.k, FALSE, 0, FALSE) EXCEPT !.type = "HOST_NONCE"] \in NextAnswers
    BY <2>1 DEF NextAnswers
  <2> QED
    BY <1>7, <2>2
<1>8. /\ DeviceSigns(d, s)
      /\ 0 \in Nat
  OBVIOUS
<1> QED
  BY <1>1, <1>5, <1>6, <1>7, <1>8 DEF DeviceSigns

\* What the device does with an encrypted query it understands.
LEMMA DeviceMethodDoes ==
    ASSUME NEW d \in Devices, NEW s \in Steps, DeviceMethod(d, s), s.op # "raw"
    PROVE  \E a \in Answers, e \in Devices : Does(a, e) /\ e.chan \in {0, d.chan} /\ Fits(s, a)
<1> DEFINE Info == s.m \in {"device_info", "init_info"} /\ s.op \in {"query", "toggle"} /\ ~s.nonce
<1>0. ASSUME NEW a \in NextAnswers \cup InfoAnswers \cup OtherAnswers, NEW e \in Devices, Does(a, e),
             e.chan \in {0, d.chan}, Info => a.kind \in {"info", "error", "noise"}
      PROVE  \E b \in Answers, f \in Devices : Does(b, f) /\ f.chan \in {0, d.chan} /\ Fits(s, b)
  <2>1. a \in Answers /\ Fits(s, a)
    BY <1>0 DEF Answers, Fits
  <2> QED
    BY <1>0, <2>1
<1>1. CASE s.op = "sign" /\ DeviceSigns(d, s)
  <2>1. PICK a \in NextAnswers, e \in Devices : Does(a, e) /\ e.chan = d.chan
    BY <1>1, DeviceSignsDoes
  <2> QED
    BY <1>0, <1>1, <2>1
<1>2. CASE /\ s.m \in {"device_info", "init_info"}
           /\ Does([kind |-> "info", initialized |-> d.initialized, passphrase |-> d.passphrase], d)
  <2>1. [kind |-> "info", initialized |-> d.initialized, passphrase |-> d.passphrase] \in InfoAnswers
    BY DEF InfoAnswers, Devices
  <2> QED
    BY <1>0, <1>2, <2>1
<1>3. CASE s.m = "is_script_config_registered" /\ Does([kind |-> "registered", yes |-> d.registered], d)
  <2>1. [kind |-> "registered", yes |-> d.registered] \in OtherAnswers
    BY DEF OtherAnswers, Devices
  <2>2. ~Info
    BY <1>3
  <2> QED
    BY <1>0, <1>3, <2>1, <2>2
<1>4. CASE s.op = "query" /\ s.nonce /\ \E honest \in BOOLEAN : Does([kind |-> "signature", honest |-> honest], d)
  <2>1. PICK honest \in BOOLEAN : Does([kind |-> "signature", honest |-> honest], d)
    BY <1>4
  <2>2. [kind |-> "signature", honest |-> honest] \in OtherAnswers
    BY DEF OtherAnswers
  <2> QED
    BY <1>0, <1>4, <2>1, <2>2
<1>5. CASE s.op = "loop" /\ Does([kind |-> "again"], d)
  <2>1. [kind |-> "again"] \in OtherAnswers
    BY DEF OtherAnswers
  <2>2. ~Info
    BY <1>5
  <2> QED
    BY <1>0, <1>5, <2>1, <2>2
<1>6. CASE s.m \notin {"device_info", "init_info"} /\ Does([kind |-> "done"], Effect(d, s.m))
  <2>1. [kind |-> "done"] \in OtherAnswers
    BY DEF OtherAnswers
  <2>2. Effect(d, s.m) \in Devices /\ Effect(d, s.m).chan \in {0, d.chan}
    BY EffectType
  <2> QED
    BY <1>0, <1>6, <2>1, <2>2
<1>7. CASE /\ s.m \notin {"device_info", "init_info"}
           /\ \E code \in {"abort", "generic", "other"} : Does([kind |-> "error", code |-> code], [d EXCEPT !.k = 0])
  <2>1. PICK code \in {"abort", "generic", "other"} : Does([kind |-> "error", code |-> code], [d EXCEPT !.k = 0])
    BY <1>7
  <2>2. [kind |-> "error", code |-> code] \in OtherAnswers
    BY DEF OtherAnswers
  <2>3. [d EXCEPT !.k = 0] \in Devices /\ [d EXCEPT !.k = 0].chan = d.chan
    BY DeviceFields
  <2> QED
    BY <1>0, <1>7, <2>1, <2>2, <2>3
<1> HIDE DEF Info
<1> QED
  BY <1>1, <1>2, <1>3, <1>4, <1>5, <1>6, <1>7 DEF DeviceMethod

\* What the device does with a query of the pairing.
LEMMA DeviceRawDoes ==
    ASSUME Base, NEW m, DeviceRaw(m)
    PROVE  \E a \in RawAnswers, d \in Devices :
              /\ Does(a, d) /\ d.chan <= used.ids
              /\ m = "handshake2" /\ a.ok => a.chan = job.id
<1>1. dev \in Devices /\ dev.chan \in Nat /\ dev.chan <= used.ids /\ job.id \in Nat /\ job.id <= used.ids /\ used.ids \in Nat
  BY DEF Base, Types, JobShape, Devices
<1>2. \A ok \in BOOLEAN : Raw(ok) \in RawAnswers
  BY RawType
<1>3. CASE m \in {"attestation", "unlock"} /\ \E ok \in BOOLEAN : Does(Raw(ok), dev)
  BY <1>1, <1>2, <1>3
<1>4. CASE m = "start" /\ Does(Raw(TRUE), [dev EXCEPT !.stage = 1, !.chan = 0])
  <2> DEFINE d == [dev EXCEPT !.stage = 1, !.chan = 0]
  <2>1. d \in Devices /\ d.chan = 0
    BY <1>1 DEF Devices
  <2>2. Does(Raw(TRUE), d) /\ Raw(TRUE) \in RawAnswers
    BY <1>2, <1>4
  <2> HIDE DEF d
  <2>3. d.chan <= used.ids
    BY <1>1, <2>1
  <2> QED
    BY <1>4, <2>1, <2>2, <2>3
<1>5. CASE m = "handshake1" /\ Does(Raw(dev.stage = 1), [dev EXCEPT !.stage = IF @ = 1 THEN 2 ELSE 0])
  <2> DEFINE d == [dev EXCEPT !.stage = IF @ = 1 THEN 2 ELSE 0]
  <2>1. d \in Devices /\ d.chan = dev.chan
    BY <1>1 DEF Devices
  <2>2. Raw(dev.stage = 1) \in RawAnswers
    BY <1>2
  <2> QED
    BY <1>1, <1>5, <2>1, <2>2
<1>6. CASE /\ m = "handshake2"
           /\ Does([Raw(dev.stage = 2) EXCEPT !.chan = job.id, !.key = dev.key, !.verify = ~dev.trusts],
                   [dev EXCEPT !.stage = 0, !.chan = IF dev.stage = 2 THEN job.id ELSE 0, !.rcvd = 0])
  <2> DEFINE d == [dev EXCEPT !.stage = 0, !.chan = IF dev.stage = 2 THEN job.id ELSE 0, !.rcvd = 0]
             r == Raw(dev.stage = 2)
             a == [r EXCEPT !.chan = job.id, !.key = dev.key, !.verify = ~dev.trusts]
  <2>1. d \in Devices /\ d.chan \in {0, job.id}
    BY <1>1 DEF Devices
  <2>2. r \in RawAnswers
    BY <1>2
  <2>3. dev.key \in Keys /\ dev.trusts \in BOOLEAN
    BY <1>1 DEF Devices
  <2> HIDE DEF r
  <2>4. a \in RawAnswers /\ a.chan = job.id
    BY <1>1, <2>2, <2>3 DEF RawAnswers
  <2>5. Does(a, d)
    BY <1>6 DEF r
  <2> HIDE DEF a, d
  <2> QED
    BY <1>1, <2>1, <2>4, <2>5
<1>7. ASSUME NEW ok \in BOOLEAN, m = "verify",
             Does(Raw(ok), [dev EXCEPT !.trusts = @ \/ ok, !.chan = IF ok THEN @ ELSE 0])
      PROVE  \E a \in RawAnswers, d \in Devices :
                /\ Does(a, d) /\ d.chan <= used.ids
                /\ m = "handshake2" /\ a.ok => a.chan = job.id
  <2> DEFINE d == [dev EXCEPT !.trusts = @ \/ ok, !.chan = IF ok THEN @ ELSE 0]
  <2>1. d \in Devices /\ d.chan \in {0, dev.chan}
    BY <1>1 DEF Devices
  <2>2. Does(Raw(ok), d) /\ Raw(ok) \in RawAnswers
    BY <1>2, <1>7
  <2> HIDE DEF d
  <2>3. d.chan <= used.ids
    BY <1>1, <2>1
  <2> QED
    BY <1>7, <2>1, <2>2, <2>3
<1> QED
  BY <1>3, <1>4, <1>5, <1>6, <1>7 DEF DeviceRaw

\* The bounds are counted with numbers.
LEMMA UsedType ==
    ASSUME Base
    PROVE  /\ used \in [commands : Nat, faults : Nat, asks : Nat, ids : Nat]
           /\ [used EXCEPT !.faults = @ + 1] \in [commands : Nat, faults : Nat, asks : Nat, ids : Nat]
           /\ [used EXCEPT !.faults = @ + 1].ids = used.ids
<1>1. used \in [commands : Nat, faults : Nat, asks : Nat, ids : Nat]
  BY DEF Base, Types
<1> QED
  BY <1>1

\* DeviceWorks keeps the shape.
LEMMA DeviceWorksBase == ASSUME Base, DeviceWorks PROVE Base'
<1>1. job.st = "working" /\ UNCHANGED <<host, sign>>
  BY DEF DeviceWorks
<1>2. used' \in [commands : Nat, faults : Nat, asks : Nat, ids : Nat] /\ used'.ids = used.ids
  <2>1. used' = [used EXCEPT !.asks = IF job'.ans.kind = "again" THEN @ + 1 ELSE @]
    BY DEF DeviceWorks
  <2> QED
    BY <2>1, UsedType
<1>3. dev \in Devices /\ job.step \in Steps /\ dev.chan \in Nat /\ dev.chan <= used.ids /\ used.ids \in Nat /\ dev.rcvd \in Nat
  BY DEF Base, Types, JobShape, Devices
<1>4. CASE job.step.op = "raw"
  <2>1. DeviceRaw(job.step.m)
    BY <1>4 DEF DeviceWorks
  <2>2. PICK a \in RawAnswers, d \in Devices :
           Does(a, d) /\ d.chan <= used.ids /\ (job.step.m = "handshake2" /\ a.ok => a.chan = job.id)
    BY <2>1, DeviceRawDoes
  <2>3. Fits(job.step, a) /\ a \in Answers
    BY <1>4 DEF Fits, Answers
  <2> QED
    BY <1>1, <1>2, <2>2, <2>3, DoesBase
<1>5. CASE job.step.op # "raw" /\ Does([kind |-> "noise"], dev)
  <2>1. [kind |-> "noise"] \in OtherAnswers
    BY DEF OtherAnswers
  <2>2. Fits(job.step, [kind |-> "noise"]) /\ [kind |-> "noise"] \in Answers
    BY <1>5, <2>1 DEF Fits, Answers
  <2> QED
    BY <1>1, <1>2, <1>3, <1>5, <2>2, DoesBase
<1>6. CASE job.step.op # "raw" /\ DeviceMethod([dev EXCEPT !.rcvd = @ + 1], job.step)
  <2> DEFINE e == [dev EXCEPT !.rcvd = @ + 1]
  <2>1. e \in Devices /\ e.chan = dev.chan
    BY <1>3 DEF Devices
  <2>2. DeviceMethod(e, job.step)
    BY <1>6
  <2> HIDE DEF e
  <2>3. PICK a \in Answers, d \in Devices : Does(a, d) /\ d.chan \in {0, e.chan} /\ Fits(job.step, a)
    BY <1>3, <1>6, <2>1, <2>2, DeviceMethodDoes
  <2>4. d.chan <= used.ids
    BY <1>3, <2>1, <2>3
  <2> QED
    BY <1>1, <1>2, <1>6, <2>3, <2>4, DoesBase
<1> QED
  BY <1>4, <1>5, <1>6 DEF DeviceWorks

\* PollCancel keeps the shape.
LEMMA PollCancelBase == ASSUME Base, PollCancel PROVE Base'
<1>1. /\ job.st = "working" /\ UNCHANGED <<host, sign, used>> /\ host.q = "poll" /\ job.step = Now
      /\ host.todo # <<>> /\ Now.m # "info_again"
  BY DEF PollCancel, Base, JobShape, HostShape
<1>2. used' \in [commands : Nat, faults : Nat, asks : Nat, ids : Nat] /\ used'.ids = used.ids
  BY <1>1, UsedType
<1>3. dev \in Devices /\ dev.chan \in Nat /\ dev.chan <= used.ids /\ used.ids \in Nat /\ dev.rcvd \in Nat
  BY DEF Base, Types, JobShape, Devices
<1>4. CASE job.step.op = "raw"
  <2> DEFINE d == [dev EXCEPT !.chan = 0, !.stage = 0]
  <2>1. d \in Devices /\ d.chan = 0
    BY <1>3 DEF Devices
  <2>2. Does(Raw(FALSE), d)
    BY <1>4 DEF PollCancel
  <2> HIDE DEF d
  <2>3. Raw(FALSE) \in RawAnswers /\ ~Raw(FALSE).ok
    BY RawType
  <2>4. Fits(job.step, Raw(FALSE)) /\ Raw(FALSE) \in Answers
    BY <1>4, <2>3 DEF Fits, Answers
  <2>5. d.chan <= used.ids
    BY <1>3, <2>1
  <2> QED
    BY <1>1, <1>2, <2>1, <2>2, <2>3, <2>4, <2>5, DoesBase
<1>5. CASE job.step.op # "raw"
  <2> DEFINE d == [dev EXCEPT !.rcvd = @ + 1, !.k = 0]
             a == [kind |-> "error", code |-> "abort"]
  <2>1. d \in Devices /\ d.chan = dev.chan
    <3>1. dev.rcvd + 1 \in Nat
      BY <1>3
    <3>2. d \in Devices
      BY <1>3, <3>1 DEF Devices
    <3> QED
      BY <1>3, <3>2 DEF Devices
  <2>2. Does(a, d)
    BY <1>5 DEF PollCancel
  <2>3. a \in OtherAnswers /\ a.kind = "error"
    BY DEF OtherAnswers
  <2> HIDE DEF a, d
  <2>4. Fits(job.step, a) /\ a \in Answers
    BY <1>5, <2>3 DEF Fits, Answers
  <2>5. d.chan <= used.ids
    BY <1>3, <2>1
  <2> QED
    BY <1>1, <1>2, <1>5, <2>1, <2>2, <2>4, <2>5, DoesBase
<1> QED
  BY <1>4, <1>5

\* Replug keeps the shape.
LEMMA ReplugBase == ASSUME Base, Replug PROVE Base'
<1>1. UNCHANGED <<host, sign, job, used>>
  BY DEF Replug
<1>2. dev \in Devices /\ used.ids \in Nat /\ dev.ver \in Nat
  BY DEF Base, Types, Devices
<1>3. \/ dev' = [dev EXCEPT !.works = TRUE]
      \/ \E key \in Keys : dev' = Fresh(dev.ver, key)
  BY DEF Replug
<1>4. dev' \in Devices /\ dev'.chan \in {0, dev.chan}
  <2>1. CASE dev' = [dev EXCEPT !.works = TRUE]
    BY <1>2, <2>1 DEF Devices
  <2>2. CASE \E key \in Keys : dev' = Fresh(dev.ver, key)
    BY <1>2, <2>2, FreshType
  <2> QED
    BY <1>3, <2>1, <2>2
<1>5. Types'
  BY <1>1, <1>4 DEF Base, Types
<1>6. HostShape'
  BY <1>1 DEF Base, HostShape, Now
<1>7. JobShape'
  BY <1>1, <1>2, <1>4 DEF Base, JobShape, Now
<1>8. Stale'
  BY <1>1 DEF Base, Stale
<1> QED
  BY <1>5, <1>6, <1>7, <1>8 DEF Base

\* OtherTakes keeps the shape.
LEMMA OtherTakesBase == ASSUME Base, OtherTakes PROVE Base'
<1>1. UNCHANGED <<host, sign>> /\ job.st = "none"
  BY DEF OtherTakes
<1>2. used' \in [commands : Nat, faults : Nat, asks : Nat, ids : Nat] /\ used'.ids = used.ids
  BY UsedType DEF OtherTakes
<1>3. job' = [NoJob EXCEPT !.st = "other"] /\ dev' = [dev EXCEPT !.chan = 0, !.stage = 0]
  BY DEF OtherTakes
<1>4. job' \in Jobs /\ job'.id = 0 /\ job'.st = "other"
  BY <1>3, NoJobType DEF Jobs
<1>5. dev' \in Devices /\ dev'.chan = 0
  BY <1>3 DEF Base, Types, Devices
<1>6. Types'
  BY <1>1, <1>2, <1>4, <1>5 DEF Base, Types, Jobs
<1>7. HostShape'
  BY <1>1 DEF Base, HostShape, Now
<1>8. used.ids \in Nat /\ host.id \in Nat
  BY DEF Base, Types, Hosts
<1>9. JobShape'
  BY <1>1, <1>2, <1>4, <1>5, <1>8 DEF Base, JobShape, HostShape, Now
<1>10. Stale'
  BY <1>1, <1>4 DEF Base, Stale
<1> QED
  BY <1>6, <1>7, <1>9, <1>10 DEF Base

\* DeviceDrops keeps the shape.
LEMMA DeviceDropsBase == ASSUME Base, DeviceDrops PROVE Base'
<1>1. UNCHANGED <<host, sign, dev, used>> /\ job' = NoJob
  BY DEF DeviceDrops
<1>2. job' \in Jobs /\ job'.id = 0 /\ job'.st = "none"
  BY <1>1, NoJobType
<1>3. host.q # "poll"
  BY DEF DeviceDrops, Base, JobShape
<1>4. Types'
  BY <1>1, <1>2 DEF Base, Types, Jobs
<1>5. HostShape'
  BY <1>1 DEF Base, HostShape, Now
<1>6. used.ids \in Nat /\ host.id \in Nat
  BY DEF Base, Types, Hosts
<1>7. JobShape'
  BY <1>1, <1>2, <1>3, <1>6 DEF Base, JobShape, HostShape, Now
<1>8. Stale'
  BY <1>1, <1>2 DEF Base, Stale
<1> QED
  BY <1>4, <1>5, <1>7, <1>8 DEF Base

----------------------------------------------------------------------------
(* Requests that end                                                       *)

SameChannel(f, h) == f.chan = h.chan /\ f.key = h.key /\ f.bb02 = h.bb02 /\ f.lost = h.lost

\* A failure ends the request.
LEMMA FailedSettled ==
    ASSUME Base, host.cmd # "none", NEW h \in Hosts, SameCommand(h, host), h.bb02 => h.chan # 0,
           NEW how \in Outcomes \ {"ok", "none"}, host' = Failed(h, how)
    PROVE  Settled /\ Stopped(host', h)
<1>1. Stopped(host', h)
  BY FailedFacts
<1>2. Like(h) /\ h.id = host.id
  BY DEF Like, SameCommand
<1>3. HostShape'
  BY <1>1, <1>2, StoppedShape DEF Base
<1> QED
  BY <1>1, <1>2, <1>3 DEF Stopped, SameLink, Settled

\* So does the end of the command.
LEMMA EndedSettled ==
    ASSUME Base, host.cmd # "none", NEW h \in Hosts, SameCommand(h, host), h.bb02 => h.chan # 0,
           NEW how \in Outcomes, host' = Ended(h, how)
    PROVE  Settled /\ SameLink(host', h)
<1>1. Like(h) /\ h.id = host.id
  BY DEF Like, SameCommand
<1>2. HostShape'
  BY <1>1, EndedShape DEF Base
<1> QED
  BY <1>1, <1>2, EndedFacts DEF SameLink, Settled

\* The host that lost an answer or not.
LEMMA WithLost ==
    ASSUME NEW h \in Hosts, NEW b \in BOOLEAN
    PROVE  /\ [h EXCEPT !.lost = b] \in Hosts /\ SameCommand([h EXCEPT !.lost = b], h)
           /\ [h EXCEPT !.lost = b].lost = b /\ [h EXCEPT !.lost = b].chan = h.chan
           /\ [h EXCEPT !.lost = b].bb02 = h.bb02
<1>1. [h EXCEPT !.lost = b] \in Hosts
  BY DEF Hosts
<1> QED
  BY <1>1 DEF Hosts, SameCommand

\* Break keeps the shape.
LEMMA BreakBase == ASSUME Base, NEW gone \in BOOLEAN, Break(gone) PROVE Base'
<1> DEFINE b == host.lost \/ (Now.op # "raw" /\ host.q = "poll")
           h == [host EXCEPT !.lost = b]
<1>1. host.q # "none" /\ host.todo # <<>> /\ host.cmd # "none" /\ host \in Hosts /\ UNCHANGED sign
  BY Idle DEF Break, Base, Types
<1>2. host' = IF gone /\ "gone" \in Now.on THEN Ended(h, "ok") ELSE Failed(h, "raw")
  BY DEF Break
<1>3. b \in BOOLEAN
  BY <1>1, HostFlags
<1> HIDE DEF b
<1>4. h \in Hosts /\ SameCommand(h, host) /\ h.lost = b /\ h.chan = host.chan /\ h.bb02 = host.bb02
  BY <1>1, <1>3, WithLost
<1>5. h.bb02 => h.chan # 0
  BY <1>4 DEF Base, HostShape
<1> HIDE DEF h
<1>6. Settled /\ SameLink(host', h)
  <2>1. "ok" \in Outcomes /\ "raw" \in Outcomes \ {"ok", "none"}
    BY DEF Outcomes
  <2>2. CASE gone /\ "gone" \in Now.on
    <3>1. host' = Ended(h, "ok")
      BY <1>2, <2>2
    <3> QED
      BY <1>1, <1>4, <1>5, <2>1, <3>1, EndedSettled
  <2>3. CASE ~(gone /\ "gone" \in Now.on)
    <3>1. host' = Failed(h, "raw")
      BY <1>2, <2>3
    <3> QED
      BY <1>1, <1>4, <1>5, <2>1, <3>1, FailedSettled DEF Stopped
  <2> QED
    BY <2>2, <2>3
<1>7. host'.chan = host.chan /\ host'.lost = b /\ host'.q = "none" /\ host'.id = host.id /\ host' \in Hosts
  BY <1>4, <1>6 DEF SameLink, Settled
<1>8. used' \in [commands : Nat, faults : Nat, asks : Nat, ids : Nat] /\ used'.ids = used.ids
  BY UsedType DEF Break
<1>9. dev' \in Devices /\ dev'.chan \in {0, dev.chan}
  <2>1. dev \in Devices
    BY DEF Base, Types
  <2>2. dev' = dev \/ dev' = [dev EXCEPT !.works = FALSE, !.chan = 0, !.stage = 0]
    BY DEF Break
  <2>3. /\ [dev EXCEPT !.works = FALSE, !.chan = 0, !.stage = 0] \in Devices
        /\ [dev EXCEPT !.works = FALSE, !.chan = 0, !.stage = 0].chan = 0
    BY <2>1 DEF Devices
  <2> QED
    BY <2>1, <2>2, <2>3
<1>10. job' \in Jobs /\ (job' = NoJob \/ job' = job)
  <2>1. job \in Jobs
    BY DEF Base, Types, Jobs
  <2>2. job' = NoJob \/ job' = job
    BY DEF Break
  <2> QED
    BY <2>1, <2>2, NoJobType
<1>11. Types'
  BY <1>1, <1>7, <1>8, <1>9, <1>10 DEF Base, Types, Jobs
<1>12. /\ host.id \in Nat /\ host.chan \in Nat /\ dev.chan \in Nat /\ used.ids \in Nat /\ job.id \in Nat
       /\ dev.chan <= used.ids /\ host.chan <= used.ids /\ dev'.chan <= used.ids
  <2>1. /\ host.id \in Nat /\ host.chan \in Nat /\ dev.chan \in Nat /\ used.ids \in Nat /\ job.id \in Nat
    BY DEF Base, Types, Hosts, Devices
  <2>2. dev.chan <= used.ids /\ host.chan <= used.ids
    BY DEF Base, JobShape
  <2> QED
    BY <1>9, <2>1, <2>2
<1>13. JobShape' /\ Stale'
  <2>1. CASE job' = NoJob
    <3>1. host'.chan <= used.ids /\ used'.ids >= used.ids
      BY <1>7, <1>8, <1>12
    <3> QED
      BY <1>7, <1>11, <1>12, <2>1, <3>1, TakenJob DEF Base
  <2>2. CASE job' = job
    <3>1. JobShape'
      BY <1>7, <1>8, <1>12, <2>2 DEF Base, JobShape
    <3>2. ASSUME job.st \in {"working", "done"}, job.step.op # "raw", host.chan # 0
          PROVE  b
      BY <3>2 DEF b, Base, Stale, JobShape
    <3>3. Stale'
      BY <1>7, <2>2, <3>2 DEF Base, Stale
    <3> QED
      BY <3>1, <3>3
  <2> QED
    BY <1>10, <2>1, <2>2
<1> QED
  BY <1>6, <1>11, <1>13 DEF Base, Settled

\* A program goes on with t.
LEMMA RunsSettled ==
    ASSUME Base, host.todo # <<>>, Runs(host.todo), Now.op # "raw", NEW h \in Hosts, SameCommand(h, host),
           h.chan = host.chan, h.bb02 = host.bb02,
           NEW t \in Seq(Steps), Runs(t), host' = [h EXCEPT !.todo = t, !.q = "none"]
    PROVE  Settled /\ Going(host', h, t)
<1>1. Going(host', h, t)
  BY GoingFacts
<1>2. host.todo \in Seq(Steps) /\ Now = Head(host.todo) /\ host.cmd # "none"
  BY NowType, Idle DEF Base
<1>3. ~Connects(host.todo)
  BY <1>2, RunsHead
<1>4. host.todo # InfoAgain
  <2>1. Head(InfoAgain) = InfoAgain[1]
    BY InfoAgainType, InfoAgainRuns, HeadTail
  <2> QED
    BY <1>2, <2>1, InfoAgainPlain
<1>5. host.bb02
  BY <1>3, <1>4 DEF Base, HostShape
<1>6. t # <<>> => ~Connects(t) /\ Head(t).m \notin PairingEnds
  BY RunsHead
<1>7. Like(h) /\ h.id = host.id
  BY DEF Like, SameCommand, Base, HostShape
<1>8. HostShape'
  BY <1>1, <1>2, <1>5, <1>6, <1>7, EmptyRuns, GoingShape DEF Base, PairingEnds
<1> QED
  BY <1>1, <1>7, <1>8 DEF Going, SameLink, Settled

\* So does the next step.
LEMMA ProceedSettled ==
    ASSUME Base, host.todo # <<>>, Runs(host.todo), Now.op # "raw", host' = Proceed(host)
    PROVE  Settled /\ Going(host', host, Tail(host.todo))
<1>1. host \in Hosts /\ host.todo \in Seq(Steps)
  BY NowType DEF Base, Types
<1>2. Runs(Tail(host.todo)) /\ Tail(host.todo) \in Seq(Steps)
  BY <1>1, RunsTail, HeadTail
<1>3. host' = [host EXCEPT !.todo = Tail(host.todo), !.q = "none"]
  BY DEF Proceed
<1> QED
  BY <1>1, <1>2, <1>3, RunsSettled, SameCommandReflexive

\* The state in which an answer is fetched.
LEMMA Polling ==
    ASSUME Base, host.q = "poll"
    PROVE  /\ host \in Hosts /\ host.todo # <<>> /\ host.cmd # "none" /\ host.todo \in Seq(Steps)
           /\ Now \in Steps /\ Now = Head(host.todo)
           /\ Now.op \notin {"ask", "need"} /\ Now.m \notin {"info", "info_again"}
           /\ job.id = host.id /\ job.step = Now
           /\ host.bb02 => host.chan # 0
<1>1. host.todo # <<>> /\ host.cmd # "none"
  BY Idle DEF Base
<1> QED
  BY <1>1, NowType DEF Base, Types, HostShape, JobShape

\* A query outside the encrypted channel is one of the pairing.
LEMMA RawPolling ==
    ASSUME Base, host.q = "poll", Now.op = "raw"
    PROVE  /\ Connects(host.todo) /\ ~host.bb02
           /\ Now.m \in Pairing \cup {"handshake2", "verify"}
<1>1. /\ host \in Hosts /\ host.todo # <<>> /\ host.todo \in Seq(Steps) /\ Now = Head(host.todo)
      /\ Now.m \notin {"info", "info_again"}
  BY Polling
<1>2. ~Runs(host.todo)
  <2> SUFFICES ASSUME Runs(host.todo) PROVE FALSE
    OBVIOUS
  <2>1. Plain(Now)
    BY <1>1, RunsHead
  <2> QED
    BY <1>1, <2>1 DEF Plain
<1>3. Connects(host.todo)
  BY <1>1, <1>2, ConnectsOr
<1>4. Now.m \in Pairing \cup PairingEnds /\ Now.m \notin {"init_info", "confirm"}
  BY <1>1, <1>3, ConnectsHead
<1>5. ~host.bb02
  BY <1>1, <1>3, <1>4, HostFlags DEF Base, HostShape
<1> QED
  BY <1>1, <1>3, <1>4, <1>5 DEF PairingEnds

\* The pairing goes on with its next query.
LEMMA PairingSettled ==
    ASSUME Base, host.q = "poll", Now.op = "raw", Now.m \in Pairing, host' = Proceed(host)
    PROVE  Settled /\ Going(host', host, Tail(host.todo))
<1>1. /\ host \in Hosts /\ host.todo # <<>> /\ host.todo \in Seq(Steps) /\ Now = Head(host.todo)
      /\ host.cmd # "none" /\ (host.bb02 => host.chan # 0)
  BY Polling
<1>2. Connects(host.todo) /\ ~host.bb02
  BY RawPolling
<1>3. /\ Connects(Tail(host.todo)) /\ Tail(host.todo) \in Seq(Steps)
      /\ Head(Tail(host.todo)).m \in Pairing \cup {"handshake2"}
  BY <1>1, <1>2, ConnectsTail
<1>4. host' = [host EXCEPT !.todo = Tail(host.todo), !.q = "none"]
  BY DEF Proceed
<1>5. Going(host', host, Tail(host.todo))
  BY <1>1, <1>3, <1>4, GoingFacts
<1>6. Head(Tail(host.todo)).m \notin {"init_info", "verify", "confirm"}
  BY <1>3 DEF Pairing
<1>7. Like(host)
  BY <1>1 DEF Like
<1>8. HostShape'
  BY <1>1, <1>2, <1>3, <1>5, <1>6, <1>7, GoingShape DEF Base
<1> QED
  BY <1>5, <1>8 DEF Going, SameLink, Settled

\* The handshake and the user's comparison.
LEMMA HandshakeSettled ==
    ASSUME Base, host.q = "poll", Now.op = "raw", Now.m = "handshake2", NEW a \in RawAnswers,
           a.ok => a.chan = job.id, host' = RawAnswer(a)
    PROVE  Settled /\ host'.chan \in {0, host.chan, job.id} /\ (host'.bb02 => host'.key \in known)
<1>1. host \in Hosts /\ host.cmd # "none" /\ (host.bb02 => host.chan # 0) /\ ~host.bb02
  BY Polling, RawPolling
<1>2. CASE ~a.ok
  <2>1. host' = Closed(host, "raw")
    BY <1>2 DEF RawAnswer
  <2> QED
    BY <1>1, <2>1, ClosedSettled, SameCommandReflexive
<1>3. CASE a.ok
  <2> DEFINE h == [host EXCEPT !.chan = a.chan, !.key = a.key, !.sent = 0, !.lost = FALSE]
  <2>1. a.chan \in Nat /\ a.key \in Keys \cup {0} /\ a.chan = job.id
    BY <1>3 DEF RawAnswers
  <2>2. job.id > 0
    <3>1. job.id = host.id /\ host.id > 0
      BY Polling DEF Base, HostShape
    <3> QED
      BY <3>1
  <2>3. h \in Hosts
    BY <1>1, <2>1 DEF Hosts
  <2>4. SameCommand(h, host) /\ h.chan = job.id /\ h.bb02 = host.bb02
    BY <1>1, <2>1 DEF Hosts, SameCommand
  <2>9. h.key = a.key
    BY <1>1 DEF Hosts
  <2>5. host' = IF a.key \in known /\ ~a.verify THEN AfterPairing(h)
                ELSE IF host.silent THEN Failed([h EXCEPT !.chan = 0], "notReady")
                ELSE [h EXCEPT !.todo = <<Step("raw", "verify")>>, !.q = "none"]
    BY <1>3 DEF RawAnswer
  <2> HIDE DEF h
  <2>6. CASE host' = AfterPairing(h) /\ a.key \in known
    <3>1. h.chan # 0
      BY <2>1, <2>2, <2>4
    <3> QED
      BY <1>1, <2>1, <2>3, <2>4, <2>6, <2>9, <3>1, AfterPairingSettled
  <2>7. CASE host' = Failed([h EXCEPT !.chan = 0], "notReady")
    <3> DEFINE g == [h EXCEPT !.chan = 0]
    <3>1. g \in Hosts /\ SameCommand(g, h) /\ g.chan = 0 /\ g.bb02 = h.bb02
      BY <2>3, NoChannel
    <3>2. SameCommand(g, host) /\ ~g.bb02
      BY <1>1, <2>4, <3>1 DEF SameCommand
    <3>3. "notReady" \in Outcomes \ {"ok", "none"}
      BY DEF Outcomes
    <3>4. host' = Failed(g, "notReady")
      BY <2>7
    <3> HIDE DEF g
    <3>5. Settled /\ Stopped(host', g)
      BY <1>1, <3>1, <3>2, <3>3, <3>4, FailedSettled
    <3> QED
      BY <3>1, <3>2, <3>5 DEF Stopped, SameLink
  <2>8. CASE host' = [h EXCEPT !.todo = <<Step("raw", "verify")>>, !.q = "none"]
    <3> DEFINE t == <<Step("raw", "verify")>>
    <3>1. t \in Seq(Steps) /\ Connects(t) /\ Head(t).m = "verify"
      BY ConnectsSingle DEF PairingEnds
    <3> HIDE DEF t
    <3>2. Going(host', h, t)
      BY <2>3, <2>8, <3>1, GoingFacts DEF t
    <3>3. Like(h) /\ h.id = host.id /\ h.chan # 0
      BY <1>1, <2>1, <2>2, <2>4 DEF Like, SameCommand
    <3>4. HostShape'
      BY <1>1, <2>4, <3>1, <3>2, <3>3, GoingShape DEF Base
    <3> QED
      BY <1>1, <2>4, <3>2, <3>3, <3>4 DEF Going, SameLink, Settled
  <2> QED
    BY <2>5, <2>6, <2>7, <2>8
<1> QED
  BY <1>2, <1>3

\* An answer outside the channel ends its request.
LEMMA RawSettled ==
    ASSUME Base, host.q = "poll", Now.op = "raw", NEW a \in RawAnswers,
           Now.m = "handshake2" /\ a.ok => a.chan = job.id, host' = RawAnswer(a)
    PROVE  Settled /\ host'.chan \in {0, host.chan, job.id} /\ (host'.bb02 => host'.key \in known)
<1>1. /\ host \in Hosts /\ host.cmd # "none" /\ (host.bb02 => host.chan # 0)
      /\ host.todo # <<>> /\ Connects(host.todo) /\ ~host.bb02
      /\ Now.m \in {"attestation", "unlock", "start", "handshake1", "handshake2", "verify"}
  BY Polling, RawPolling DEF Pairing
<1>2. CASE Now.m \in Pairing
  <2>1. host' = Proceed(host) \/ host' = Closed(host, "raw")
    BY <1>2 DEF Pairing, RawAnswer
  <2>2. CASE host' = Proceed(host)
    BY <1>1, <1>2, <2>2, PairingSettled DEF Going, SameLink
  <2>3. CASE host' = Closed(host, "raw")
    BY <1>1, <2>3, ClosedSettled, SameCommandReflexive
  <2> QED
    BY <2>1, <2>2, <2>3
<1>3. CASE Now.m = "handshake2"
  BY <1>3, HandshakeSettled
<1>4. CASE Now.m = "verify"
  <2>1. host.chan # 0
    BY <1>1, <1>4, ConfirmState
  <2>2. CASE a.ok
    <3> DEFINE t == <<Step("ask", "confirm")>>
    <3>1. t \in Seq(Steps) /\ Connects(t) /\ Head(t).m = "confirm"
      BY ConnectsSingle DEF PairingEnds
    <3>2. host' = [host EXCEPT !.todo = t, !.q = "none"]
      BY <1>4, <2>2 DEF RawAnswer
    <3> HIDE DEF t
    <3>3. Going(host', host, t) /\ Like(host)
      BY <1>1, <3>1, <3>2, GoingFacts DEF Like
    <3>4. HostShape'
      BY <1>1, <2>1, <3>1, <3>3, GoingShape DEF Base
    <3> QED
      BY <1>1, <3>3, <3>4 DEF Going, SameLink, Settled
  <2>3. CASE ~a.ok
    <3>1. host' = Closed([host EXCEPT !.chan = 0], "raw")
      BY <1>4, <2>3 DEF RawAnswer
    <3> QED
      BY <1>1, <3>1, NoChannel, ClosedSettled
  <2> QED
    BY <2>2, <2>3
<1> QED
  BY <1>1, <1>2, <1>3, <1>4 DEF Pairing

\* An error of the device is an outcome that is no success.
LEMMA ExceptionType == \A error : bitbox02_exception(error) \in Outcomes \ {"ok", "none"}
BY DEF bitbox02_exception, Outcomes

\* Answers of methods.
LEMMA MethodPolling ==
    ASSUME Base, host.q = "poll", job.st = "done", Now.op # "raw", job.ans.kind # "noise"
    PROVE  /\ job.ans \in NextAnswers \cup InfoAnswers \cup OtherAnswers
           /\ Now.m = "init_info" => job.ans.kind \in {"info", "error"} /\ Now.on = {} /\ Now.op = "query"
           /\ Now.m # "init_info" => Runs(host.todo)
<1>1. /\ host \in Hosts /\ host.todo # <<>> /\ host.todo \in Seq(Steps) /\ Now = Head(host.todo)
      /\ Now.op \notin {"ask", "need"} /\ job.step = Now
  BY Polling
<1>2. Fits(Now, job.ans)
  BY <1>1 DEF Base, JobShape
<1>3. Connects(host.todo) =>
         Now.m = "init_info" /\ Now.op = "query" /\ ~Now.nonce /\ Now.on = {}
  BY <1>1, ConnectsHead
<1>4. Now.m = "init_info" => Connects(host.todo)
  <2>1. Now.m = "init_info" => Now.m \in PairingEnds
    BY DEF PairingEnds
  <2> QED
    BY <1>1, <2>1, RunsHead, ConnectsOr
<1>5. Now.m # "init_info" => Runs(host.todo)
  BY <1>1, <1>3, ConnectsOr
<1>6. Now.m = "init_info" => job.ans.kind \in {"info", "error"}
  BY <1>2, <1>3, <1>4 DEF Fits
<1> QED
  BY <1>2, <1>3, <1>4, <1>5, <1>6 DEF Fits

\* What toggle_passphrase goes on with.
LEMMA ToggledRuns ==
    ASSUME NEW enabled
    PROVE  Toggled(enabled) \in Seq(Steps) /\ Runs(Toggled(enabled))
<1>1. Toggled(enabled) \in Seq(PlainSteps)
  BY QueriesPlain DEF Toggled
<1> QED
  BY <1>1, PlainProgram, ProgramRuns

\* The host that has seen the device's setting.
LEMMA WithSeen ==
    ASSUME NEW h \in Hosts, NEW b \in BOOLEAN, NEW t \in Seq(Steps)
    PROVE  /\ [h EXCEPT !.seen = b] \in Hosts /\ SameCommand([h EXCEPT !.seen = b], h)
           /\ SameChannel([h EXCEPT !.seen = b], h) /\ [h EXCEPT !.seen = b].seen = b
           /\ [h EXCEPT !.todo = t, !.q = "none", !.seen = b] = [[h EXCEPT !.seen = b] EXCEPT !.todo = t, !.q = "none"]
<1>1. [h EXCEPT !.seen = b] \in Hosts
  BY DEF Hosts
<1>2. [h EXCEPT !.todo = t, !.q = "none", !.seen = b] = [[h EXCEPT !.seen = b] EXCEPT !.todo = t, !.q = "none"]
  BY DEF Hosts
<1> QED
  BY <1>1, <1>2 DEF Hosts, SameCommand, SameChannel

\* The answer of a method ends its request.
LEMMA MethodSettled ==
    ASSUME Base, host.q = "poll", job.st = "done", Now.op \notin {"raw", "sign"}, job.ans.kind # "noise",
           host' = MethodAnswer(job.ans)
    PROVE  Settled /\ SameChannel(host', host)
<1> DEFINE a == job.ans
<1>1. /\ host \in Hosts /\ host.todo # <<>> /\ host.todo \in Seq(Steps) /\ Now = Head(host.todo)
      /\ host.cmd # "none" /\ (host.bb02 => host.chan # 0) /\ Now.op # "raw"
  BY Polling
<1>2. /\ a \in NextAnswers \cup InfoAnswers \cup OtherAnswers
      /\ Now.m = "init_info" => a.kind \in {"info", "error"} /\ Now.op = "query"
      /\ Now.m # "init_info" => Runs(host.todo)
  BY <1>1, MethodPolling
<1>3. ASSUME NEW how \in Outcomes \ {"ok", "none"}, host' = Failed(host, how)
      PROVE  Settled /\ SameChannel(host', host)
  BY <1>1, <1>3, FailedSettled, SameCommandReflexive DEF Stopped, SameLink, SameChannel
<1>4. ASSUME host' = Ended(host, "false")
      PROVE  Settled /\ SameChannel(host', host)
  BY <1>1, <1>4, EndedSettled, SameCommandReflexive DEF SameLink, SameChannel, Outcomes
<1>5. ASSUME host' = Proceed(host), Runs(host.todo)
      PROVE  Settled /\ SameChannel(host', host)
  BY <1>1, <1>5, ProceedSettled DEF Going, SameLink, SameChannel
<1>6. ASSUME NEW t \in Seq(Steps), Runs(t), Runs(host.todo), host' = [host EXCEPT !.todo = t, !.q = "none"]
      PROVE  Settled /\ SameChannel(host', host)
  BY <1>1, <1>6, RunsSettled, SameCommandReflexive DEF Going, SameLink, SameChannel
<1>7. CASE a.kind = "error"
  BY <1>3, <1>4, <1>7, ExceptionType DEF MethodAnswer
<1>8. CASE a.kind = "again"
  <2>1. host' = [host EXCEPT !.q = "none"]
    BY <1>8 DEF MethodAnswer
  <2>2. host' = [host EXCEPT !.todo = host.todo, !.q = "none"]
    BY <1>1, <2>1 DEF Hosts
  <2> QED
    BY <1>1, <1>2, <1>6, <1>8, <2>2
<1>9. CASE a.kind = "info" /\ Now.m = "init_info"
  <2>1. host' = InitInfo(a)
    BY <1>2, <1>9 DEF MethodAnswer
  <2>2. CASE a.initialized \notin Expected(host.cmd)
    <3>1. host' = Failed(host, "badState")
      BY <2>1, <2>2 DEF InitInfo
    <3>2. "badState" \in Outcomes \ {"ok", "none"}
      BY DEF Outcomes
    <3> QED
      BY <1>3, <3>1, <3>2
  <2>3. CASE a.initialized \in Expected(host.cmd)
    <3> DEFINE t == Program(host.cmd, dev.ver)
    <3>1. host.cmd \in Commands
      BY <1>1 DEF Base, HostShape
    <3>2. t \in Seq(Steps) /\ Runs(t)
      BY <3>1, ProgramPlain, ProgramRuns
    <3>3. host' = [host EXCEPT !.todo = t, !.q = "none"]
      BY <2>1, <2>3 DEF InitInfo
    <3> HIDE DEF t
    <3>4. Going(host', host, t) /\ Like(host)
      BY <1>1, <3>2, <3>3, GoingFacts DEF Like
    <3>5. host.bb02
      <4>1. Connects(host.todo)
        <5>1. Now.m \in PairingEnds
          BY <1>9 DEF PairingEnds
        <5> QED
          BY <1>1, <5>1, RunsHead, ConnectsOr
      <4> QED
        BY <1>1, <1>9, <4>1, HostFlags DEF Base, HostShape
    <3>6. t # <<>> => ~Connects(t) /\ Head(t).m \notin PairingEnds
      BY <3>2, RunsHead
    <3>7. HostShape'
      BY <1>1, <3>2, <3>4, <3>5, <3>6, EmptyRuns, GoingShape DEF Base, PairingEnds
    <3> QED
      BY <3>4, <3>7 DEF Going, SameLink, SameChannel, Settled
  <2> QED
    BY <2>2, <2>3
<1>10. CASE a.kind = "info" /\ Now.m = "device_info" /\ Now.op = "query"
  <2>1. Runs(host.todo)
    BY <1>2, <1>10
  <2> QED
    BY <1>3, <1>5, <1>10, <2>1 DEF MethodAnswer, Outcomes
<1>11. CASE a.kind = "info" /\ Now.m # "init_info" /\ Now.op = "toggle"
  <2> DEFINE t == Toggled(a.passphrase)
             h == [host EXCEPT !.seen = a.passphrase]
  <2>1. a.passphrase \in BOOLEAN
    BY <1>2, <1>11 DEF NextAnswers, InfoAnswers, OtherAnswers
  <2>2. t \in Seq(Steps) /\ Runs(t)
    BY ToggledRuns
  <2>3. host' = [host EXCEPT !.todo = t, !.q = "none", !.seen = a.passphrase]
    BY <1>11 DEF MethodAnswer
  <2> HIDE DEF t
  <2>4. /\ h \in Hosts /\ SameCommand(h, host) /\ SameChannel(h, host)
        /\ host' = [h EXCEPT !.todo = t, !.q = "none"]
    BY <1>1, <2>1, <2>2, <2>3, WithSeen
  <2> HIDE DEF h
  <2>5. Settled /\ Going(host', h, t)
    BY <1>1, <1>2, <1>11, <2>2, <2>4, RunsSettled DEF SameChannel
  <2> QED
    BY <2>4, <2>5 DEF Going, SameLink, SameChannel
<1>12. CASE a.kind = "registered"
  <2>1. Runs(host.todo)
    BY <1>2, <1>12
  <2>2. host' = [host EXCEPT !.q = "none",
                             !.todo = IF Now.op = "unless" /\ a.yes THEN Tail(Tail(@)) ELSE Tail(@)]
    BY <1>12 DEF MethodAnswer
  <2>3. Runs(Tail(host.todo)) /\ Tail(host.todo) \in Seq(Steps)
    BY <1>1, <2>1, RunsTail, HeadTail
  <2>4. CASE Now.op = "unless" /\ a.yes
    <3>1. Tail(host.todo) # <<>>
      BY <1>1, <2>1, <2>4, RunsHead
    <3>2. Runs(Tail(Tail(host.todo))) /\ Tail(Tail(host.todo)) \in Seq(Steps)
      BY <2>3, <3>1, RunsTail, HeadTail
    <3>3. host' = [host EXCEPT !.todo = Tail(Tail(host.todo)), !.q = "none"]
      BY <1>1, <2>2, <2>4 DEF Hosts
    <3> QED
      BY <1>6, <2>1, <3>2, <3>3
  <2>5. CASE ~(Now.op = "unless" /\ a.yes)
    <3>1. host' = [host EXCEPT !.todo = Tail(host.todo), !.q = "none"]
      BY <1>1, <2>2, <2>5 DEF Hosts
    <3> QED
      BY <1>6, <2>1, <2>3, <3>1
  <2> QED
    BY <2>4, <2>5
<1>13. CASE a.kind = "signature"
  <2>1. Runs(host.todo)
    BY <1>2, <1>13
  <2> QED
    BY <1>3, <1>5, <1>13, <2>1 DEF MethodAnswer, Outcomes
<1>14. CASE /\ a.kind \notin {"error", "again", "registered", "signature"}
            /\ ~(a.kind = "info" /\ Now.m = "init_info")
            /\ ~(a.kind = "info" /\ Now.m = "device_info" /\ Now.op = "query")
            /\ ~(a.kind = "info" /\ Now.op = "toggle")
  <2>1. Runs(host.todo)
    BY <1>2, <1>14
  <2>2. host' = Proceed(host)
    BY <1>14 DEF MethodAnswer
  <2> QED
    BY <1>5, <2>1, <2>2
<1> HIDE DEF a
<1> QED
  BY <1>7, <1>8, <1>9, <1>10, <1>11, <1>12, <1>13, <1>14

\* The query for what the device asks next belongs to the dialogue.
LEMMA NextQueryType ==
    ASSUME NEW g, g.pass2 \in BOOLEAN, NEW a, a.index \in Nat
    PROVE  /\ NextQuery(g, a) \in Steps /\ NextQuery(g, a).op = "sign" /\ NextQuery(g, a).m \in Dialog
<1>1. "btc_sign_input" \in Dialog /\ "btc_sign_output" \in Dialog /\ "prevtx" \in Dialog
  BY DEF Dialog
<1>2. ASSUME NEW m \in Dialog
      PROVE  Step("sign", m) \in Steps /\ Step("sign", m).op = "sign" /\ Step("sign", m).m = m
  BY <1>2, StepFields DEF Ops
<1>3. ASSUME NEW s \in Steps, NEW c \in BOOLEAN
      PROVE  /\ [s EXCEPT !.i = a.index, !.commit = c] \in Steps
             /\ [s EXCEPT !.i = a.index, !.commit = c].op = s.op /\ [s EXCEPT !.i = a.index, !.commit = c].m = s.m
             /\ [s EXCEPT !.i = a.index] \in Steps
             /\ [s EXCEPT !.i = a.index].op = s.op /\ [s EXCEPT !.i = a.index].m = s.m
  BY DEF Steps
<1>4. perform_antiklepto(g, a.index) \in BOOLEAN
  BY DEF perform_antiklepto
<1>5. CASE a.type = "INPUT"
  <2> DEFINE s == Step("sign", "btc_sign_input")
             c == perform_antiklepto(g, a.index)
  <2>1. NextQuery(g, a) = [s EXCEPT !.i = a.index, !.commit = c]
    BY <1>5 DEF NextQuery
  <2>2. s \in Steps /\ s.op = "sign" /\ s.m = "btc_sign_input" /\ c \in BOOLEAN
    BY <1>1, <1>2, <1>4
  <2> HIDE DEF s, c
  <2>3. /\ [s EXCEPT !.i = a.index, !.commit = c] \in Steps
        /\ [s EXCEPT !.i = a.index, !.commit = c].op = s.op
        /\ [s EXCEPT !.i = a.index, !.commit = c].m = s.m
    BY <1>3, <2>2
  <2> QED
    BY <1>1, <2>1, <2>2, <2>3
<1>6. CASE a.type = "OUTPUT"
  <2> DEFINE s == Step("sign", "btc_sign_output")
             c == perform_antiklepto(g, a.index)
  <2>1. NextQuery(g, a) = [s EXCEPT !.i = a.index]
    BY <1>6 DEF NextQuery
  <2>2. s \in Steps /\ s.op = "sign" /\ s.m = "btc_sign_output" /\ c \in BOOLEAN
    BY <1>1, <1>2, <1>4
  <2> HIDE DEF s, c
  <2> QED
    BY <1>1, <1>3, <2>1, <2>2
<1>7. CASE a.type # "INPUT" /\ a.type # "OUTPUT"
  <2> DEFINE s == Step("sign", "prevtx")
             c == perform_antiklepto(g, a.index)
  <2>1. NextQuery(g, a) = [s EXCEPT !.i = a.index]
    BY <1>7 DEF NextQuery
  <2>2. s \in Steps /\ s.op = "sign" /\ s.m = "prevtx" /\ c \in BOOLEAN
    BY <1>1, <1>2, <1>4
  <2> HIDE DEF s, c
  <2> QED
    BY <1>1, <1>3, <2>1, <2>2
<1> QED
  BY <1>5, <1>6, <1>7

\* The step with the host's nonce.
LEMMA NonceStep ==
    ASSUME NEW i \in Nat
    PROVE  LET s == [Step("sign", "nonce") EXCEPT !.i = i, !.nonce = TRUE] IN
           s \in Steps /\ s.op = "sign" /\ s.m = "nonce" /\ s.i = i /\ s.nonce /\ ~s.commit
<1> DEFINE r == Step("sign", "nonce")
<1>1. "nonce" \in Dialog
  BY DEF Dialog
<1>2. r \in Steps /\ r.op = "sign" /\ r.m = "nonce"
  BY <1>1, StepFields DEF Ops
<1>3. ~r.commit
  BY DEF Step
<1> HIDE DEF r
<1>4. [r EXCEPT !.i = i, !.nonce = TRUE] \in Steps
  BY <1>2 DEF Steps
<1>5. /\ [r EXCEPT !.i = i, !.nonce = TRUE].op = "sign" /\ [r EXCEPT !.i = i, !.nonce = TRUE].m = "nonce"
      /\ [r EXCEPT !.i = i, !.nonce = TRUE].i = i /\ [r EXCEPT !.i = i, !.nonce = TRUE].nonce
      /\ ~[r EXCEPT !.i = i, !.nonce = TRUE].commit
  BY <1>2, <1>3 DEF Steps
<1> QED
  BY <1>4, <1>5 DEF r

\* The turn of the loop of btc_sign: it ends, or it goes on with a query.
LEMMA TurnSettled ==
    ASSUME Base, host.q = "poll", Now.op = "sign", NEW g, g.pass2 \in BOOLEAN, NEW a, a.index \in Nat,
           host' = Turn(g, a)
    PROVE  /\ Settled
           /\ \/ a.type = "DONE" /\ Going(host', host, Tail(host.todo))
              \/ Stopped(host', host)
              \/ /\ a.type # "DONE" /\ a.type # "HOST_NONCE"
                 /\ Going(host', host, <<NextQuery(g, a)>> \o Tail(host.todo))
<1>1. /\ host \in Hosts /\ host.todo # <<>> /\ host.todo \in Seq(Steps) /\ Now = Head(host.todo)
      /\ host.cmd # "none" /\ (host.bb02 => host.chan # 0)
  BY Polling
<1>2. Runs(host.todo)
  BY <1>1, ConnectsOr
<1>3. CASE a.type = "DONE"
  <2>1. host' = Proceed(host)
    BY <1>3 DEF Turn
  <2> QED
    BY <1>1, <1>2, <1>3, <2>1, ProceedSettled
<1>4. CASE host' = Failed(host, "raw")
  <2>1. "raw" \in Outcomes \ {"ok", "none"}
    BY DEF Outcomes
  <2> QED
    BY <1>1, <1>4, <2>1, FailedSettled, SameCommandReflexive
<1>5. CASE a.type # "DONE" /\ host' # Failed(host, "raw")
  <2> DEFINE s == NextQuery(g, a)
             t == <<s>> \o Tail(host.todo)
  <2>1. host' = [host EXCEPT !.todo = <<s>> \o Tail(@), !.q = "none"] /\ a.type # "HOST_NONCE"
    BY <1>5 DEF Turn
  <2>2. s \in Steps /\ s.op = "sign" /\ s.m \in Dialog
    BY NextQueryType
  <2> HIDE DEF s
  <2>3. Tail(host.todo) \in Programs
    BY <1>1, <1>2, RunsTail
  <2>4. t \in Seq(Steps) /\ Runs(t)
    BY <2>2, <2>3, RunsCons
  <2>5. host' = [host EXCEPT !.todo = t, !.q = "none"]
    BY <2>1
  <2> HIDE DEF t
  <2>6. Settled /\ Going(host', host, t)
    BY <1>1, <1>2, <2>4, <2>5, RunsSettled, SameCommandReflexive
  <2> QED
    BY <1>5, <2>1, <2>6 DEF t, s
<1> QED
  BY <1>3, <1>4, <1>5

\* An answer of btc_sign ends its request and leaves signatures.
LEMMA SignSettled ==
    ASSUME Base, host.q = "poll", job.st = "done", Now.op = "sign", job.ans.kind # "noise", SignAnswer(job.ans)
    PROVE  Settled /\ SameChannel(host', host) /\ sign' \in [pass2 : BOOLEAN, sigs : Seq(Signatures)]
<1> DEFINE a == job.ans
<1>1. /\ host \in Hosts /\ host.todo # <<>> /\ host.todo \in Seq(Steps) /\ Now = Head(host.todo)
      /\ host.cmd # "none" /\ (host.bb02 => host.chan # 0) /\ Now \in Steps
  BY Polling
<1>2. Runs(host.todo) /\ a \in NextAnswers \cup InfoAnswers \cup OtherAnswers
  BY <1>1, ConnectsOr, MethodPolling
<1>3. sign \in [pass2 : BOOLEAN, sigs : Seq(Signatures)] /\ Now.i \in Nat
  BY <1>1 DEF Base, Types, Steps
<1>4. ASSUME NEW how \in Outcomes \ {"ok", "none"}, host' = Failed(host, how)
      PROVE  Settled /\ SameChannel(host', host)
  BY <1>1, <1>4, FailedSettled, SameCommandReflexive DEF Stopped, SameLink, SameChannel
<1>5. "raw" \in Outcomes \ {"ok", "none"}
  BY DEF Outcomes
<1>6. ASSUME NEW g, g.pass2 \in BOOLEAN, a.kind = "next", host' = Turn(g, a)
      PROVE  Settled /\ SameChannel(host', host)
  <2>1. a.index \in Nat
    BY <1>2, <1>6 DEF NextAnswers, InfoAnswers, OtherAnswers
  <2> HIDE DEF a
  <2>2. /\ Settled
        /\ \/ a.type = "DONE" /\ Going(host', host, Tail(host.todo))
           \/ Stopped(host', host)
           \/ /\ a.type # "DONE" /\ a.type # "HOST_NONCE"
              /\ Going(host', host, <<NextQuery(g, a)>> \o Tail(host.todo))
    BY <1>6, <2>1, TurnSettled
  <2> QED
    BY <2>2 DEF Going, Stopped, SameLink, SameChannel
<1>7. CASE a.kind = "error" /\ host' = Failed(host, bitbox02_exception(a.code)) /\ UNCHANGED sign
  BY <1>3, <1>4, <1>7, ExceptionType
<1>8. CASE /\ a.kind = "next" /\ UNCHANGED sign
           /\ host' = IF a.type # "HOST_NONCE" THEN Failed(host, "raw")
                      ELSE [host EXCEPT !.q = "none",
                              !.todo = <<[Step("sign", "nonce") EXCEPT !.i = Now.i, !.nonce = TRUE]>> \o Tail(@)]
  <2>1. CASE a.type # "HOST_NONCE"
    BY <1>3, <1>4, <1>5, <1>8, <2>1
  <2>2. CASE a.type = "HOST_NONCE"
    <3> DEFINE s == [Step("sign", "nonce") EXCEPT !.i = Now.i, !.nonce = TRUE]
               t == <<s>> \o Tail(host.todo)
    <3>1. s \in Steps /\ s.op = "sign" /\ s.m \in Dialog
      BY <1>3, NonceStep DEF Dialog
    <3>2. host' = [host EXCEPT !.q = "none", !.todo = <<s>> \o Tail(@)]
      BY <1>8, <2>2
    <3> HIDE DEF s
    <3>3. Tail(host.todo) \in Programs
      BY <1>1, <1>2, RunsTail
    <3>4. t \in Seq(Steps) /\ Runs(t)
      BY <3>1, <3>3, RunsCons
    <3>5. host' = [host EXCEPT !.todo = t, !.q = "none"]
      BY <1>1, <3>2 DEF Hosts
    <3> HIDE DEF t
    <3>6. Settled /\ Going(host', host, t)
      BY <1>1, <1>2, <3>4, <3>5, RunsSettled, SameCommandReflexive
    <3> QED
      BY <1>3, <1>8, <3>6 DEF Going, SameLink, SameChannel
  <2> QED
    BY <2>1, <2>2
<1>9. CASE a.kind = "next" /\ AfterInput(a, Now.i)
  <2> DEFINE e == [index |-> Now.i, of |-> a.of, honest |-> a.honest]
             g == [sign EXCEPT !.pass2 = @ \/ EndsPass(Now.i), !.sigs = IF sign.pass2 THEN Append(@, e) ELSE @]
  <2>1. sign' = g /\ host' = Turn(g, a)
    BY <1>9 DEF AfterInput
  <2>2. e \in Signatures
    <3>1. a \in NextAnswers
      BY <1>2, <1>9 DEF InfoAnswers, OtherAnswers
    <3>2. a.of \in Nat /\ a.honest \in BOOLEAN
      BY <3>1 DEF NextAnswers
    <3> QED
      BY <1>3, <3>2 DEF Signatures
  <2> HIDE DEF e
  <2>3. Append(sign.sigs, e) \in Seq(Signatures) /\ sign.sigs \in Seq(Signatures) /\ sign.pass2 \in BOOLEAN
    BY <1>3, <2>2
  <2>4. EndsPass(Now.i) \in BOOLEAN
    BY DEF EndsPass
  <2>5. g \in [pass2 : BOOLEAN, sigs : Seq(Signatures)]
    BY <1>3, <2>3, <2>4
  <2>6. g.pass2 \in BOOLEAN
    BY <2>5
  <2> HIDE DEF g
  <2> QED
    BY <1>6, <1>9, <2>1, <2>5, <2>6
<1>10. CASE a.kind = "next" /\ host' = Failed(host, "raw") /\ UNCHANGED sign
  BY <1>3, <1>4, <1>5, <1>10
<1>11. CASE a.kind = "next" /\ host' = Turn(sign, a) /\ UNCHANGED sign
  BY <1>3, <1>6, <1>11
<1> HIDE DEF a
<1>12. SignAnswer(a)
  BY DEF a
<1> QED
  BY <1>7, <1>8, <1>9, <1>10, <1>11, <1>12 DEF SignAnswer

\* Receive keeps the shape.
LEMMA ReceiveBase == ASSUME Base, Receive PROVE Base'
<1>1. /\ host.q = "poll" /\ UNCHANGED <<dev, used>>
  BY DEF Receive
<1>2. /\ host \in Hosts /\ host.cmd # "none" /\ job.id = host.id /\ job.step = Now
      /\ (host.bb02 => host.chan # 0)
  BY <1>1, Polling
<1>3. job.st = "done" /\ job' = NoJob /\ Fits(Now, job.ans)
  BY <1>2 DEF Receive, Base, JobShape
<1>4. sign \in [pass2 : BOOLEAN, sigs : Seq(Signatures)]
  BY DEF Base, Types
<1>5. Settled /\ host'.chan \in {0, host.chan, job.id} /\ sign' \in [pass2 : BOOLEAN, sigs : Seq(Signatures)]
  <2>1. CASE host' = Failed(host, "raw") /\ UNCHANGED sign
    <3>1. "raw" \in Outcomes \ {"ok", "none"}
      BY DEF Outcomes
    <3> QED
      BY <1>2, <1>4, <2>1, <3>1, FailedSettled, SameCommandReflexive DEF Stopped, SameLink, SameChannel
  <2>2. CASE Now.op = "raw" /\ host' = RawAnswer(job.ans) /\ UNCHANGED sign
    <3>1. job.ans \in RawAnswers
      BY <1>3, <2>2 DEF Fits
    <3>2. Now.m = "handshake2" /\ job.ans.ok => job.ans.chan = job.id
      BY <1>2, <1>3, <2>2 DEF Base, JobShape
    <3> QED
      BY <1>1, <1>4, <2>2, <3>1, <3>2, RawSettled
  <2>3. CASE /\ Now.op \notin {"raw", "sign"} /\ job.ans.kind # "noise" /\ host' = MethodAnswer(job.ans)
             /\ UNCHANGED sign
    BY <1>1, <1>3, <1>4, <2>3, MethodSettled DEF SameChannel
  <2>4. CASE Now.op = "sign" /\ job.ans.kind # "noise" /\ SignAnswer(job.ans)
    BY <1>1, <1>3, <2>4, SignSettled DEF SameChannel
  <2> QED
    BY <2>1, <2>2, <2>3, <2>4 DEF Receive
<1>6. Types'
  BY <1>1, <1>3, <1>5, NoJobType DEF Base, Types, Settled, Jobs
<1>7. host'.chan <= used.ids /\ dev'.chan <= used.ids /\ used'.ids >= used.ids
  <2>1. used.ids \in Nat /\ host.chan <= used.ids /\ job.id <= used.ids /\ dev.chan <= used.ids
    BY DEF Base, Types, JobShape
  <2> QED
    BY <1>1, <1>5, <2>1
<1>8. JobShape' /\ Stale'
  BY <1>3, <1>5, <1>6, <1>7, TakenJob DEF Base, Settled
<1> QED
  BY <1>5, <1>6, <1>8 DEF Base, Settled

\* The initial states have the shape that every step keeps.
LEMMA InitBase == ASSUME Init PROVE Base
<1>1. PICK ver \in Versions, key \in Keys, ready \in BOOLEAN : dev = [Fresh(ver, key) EXCEPT !.initialized = ready]
  BY DEF Init
<1>2. ver \in Nat
  BY BitBox02Assumption
<1>3. dev \in Devices /\ dev.chan = 0
  BY <1>1, <1>2, FreshType DEF Devices
<1>4. host = NoHost /\ job = NoJob /\ sign = NoSign /\ used = [commands |-> 0, faults |-> 0, asks |-> 0, ids |-> 0]
  BY DEF Init
<1>5. NoSign \in [pass2 : BOOLEAN, sigs : Seq(Signatures)]
  BY DEF NoSign
<1>6. used \in [commands : Nat, faults : Nat, asks : Nat, ids : Nat] /\ used.ids = 0
  BY <1>4
<1>7. Types
  BY <1>3, <1>4, <1>5, <1>6, NoHostType, NoJobType DEF Types, Jobs
<1>8. /\ host.q = "none" /\ host.id = 0 /\ host.chan = 0 /\ ~host.bb02 /\ host.todo = <<>> /\ host.cmd = "none"
  BY <1>4 DEF NoHost
<1>9. HostShape
  BY <1>4, <1>8, EmptyRuns DEF HostShape, Now
<1>10. JobShape /\ Stale
  BY <1>3, <1>4, <1>6, <1>8, NoJobType DEF JobShape, Stale
<1> QED
  BY <1>7, <1>9, <1>10 DEF Base

\* Every step keeps it.
LEMMA NextBase == ASSUME Base, [Next]_vars PROVE Base'
<1>1. CASE UNCHANGED vars
  BY <1>1 DEF vars, Base, Types, HostShape, JobShape, Stale, Now
<1>2. CASE Next
  BY <1>2, OpenBase, CloseBase, BeginBase, ReturnBase, RequireBase, GetInfoBase, AskBase, NewRequestBase,
     PollCancelBase, CancelBase, ConfirmBase, ReceiveBase, BreakBase, KillBase, ReplugBase, OtherTakesBase,
     DeviceWorksBase, DeviceDropsBase
  DEF Next
<1> QED
  BY <1>1, <1>2

\* The shape of the host's state and of the request, in every state.
LEMMA AlwaysBase == Spec => []Base
BY InitBase, NextBase, PTL DEF Spec

----------------------------------------------------------------------------
(* Devices that were compared                                              *)

\* How an answer is taken.
LEMMA ReceiveCases ==
    ASSUME Base, Receive
    PROVE  /\ host.q = "poll" /\ UNCHANGED <<known, confirmed, dev, used>>
           /\ job.st = "done" /\ job' = NoJob /\ Fits(Now, job.ans)
           /\ \/ host' = Failed(host, "raw") /\ UNCHANGED sign
              \/ Now.op = "raw" /\ host' = RawAnswer(job.ans) /\ UNCHANGED sign
              \/ /\ Now.op \notin {"raw", "sign"} /\ job.ans.kind # "noise" /\ ~host.lost
                 /\ host' = MethodAnswer(job.ans) /\ UNCHANGED sign
              \/ /\ Now.op = "sign" /\ job.ans.kind # "noise" /\ ~host.lost
                 /\ SignAnswer(job.ans)
<1>1. /\ host.q = "poll" /\ UNCHANGED <<known, confirmed, dev, used>>
  BY DEF Receive
<1>2. job.id = host.id /\ job.step = Now
  BY <1>1, Polling
<1>3. job.st = "done" /\ job' = NoJob /\ Fits(Now, job.ans)
  BY <1>2 DEF Receive, Base, JobShape
<1> QED
  BY <1>1, <1>2, <1>3 DEF Receive

\* A step that leaves the keys and the channel alone keeps the trust.
LEMMA TrustKept ==
    ASSUME Trust, UNCHANGED <<known, confirmed>>,
           ~host'.bb02 \/ (host'.bb02 = host.bb02 /\ host'.key = host.key) \/ host'.key \in known
    PROVE  Trust'
BY DEF Trust, ChannelVerified

\* A step of the program's side that asks nothing keeps the connection.
LEMMA QuietSteps ==
    ASSUME Base, Return \/ Require \/ GetInfo \/ Ask \/ NewRequest \/ cancel_outstanding_request
                 \/ \E c \in Commands : Begin(c)
    PROVE  /\ SameChannel(host', host) /\ UNCHANGED <<known, confirmed, dev>>
<1>1. host \in Hosts
  BY DEF Base, Types
<1>2. ASSUME NEW how \in Outcomes, host' = Ended(host, how) PROVE SameChannel(host', host)
  BY <1>1, <1>2, EndedFacts DEF SameLink, SameChannel
<1>3. ASSUME NEW how \in Outcomes \ {"ok", "none"}, host' = Failed(host, how) PROVE SameChannel(host', host)
  BY <1>1, <1>3, FailedFacts DEF Stopped, SameLink, SameChannel
<1>4. CASE Return
  BY <1>2, <1>4 DEF Return, Outcomes
<1>5. CASE Require
  BY <1>1, <1>3, <1>5 DEF Require, Outcomes, Hosts, SameChannel
<1>6. CASE GetInfo
  BY <1>1, <1>3, <1>6 DEF GetInfo, Outcomes, Hosts, SameChannel
<1>7. CASE Ask
  BY <1>1, <1>3, <1>7 DEF Ask, Outcomes, Hosts, SameChannel
<1>8. CASE NewRequest
  BY <1>1, <1>8 DEF NewRequest, Hosts, SameChannel
<1>9. CASE cancel_outstanding_request
  BY <1>1, <1>9 DEF cancel_outstanding_request, Hosts, SameChannel
<1>10. ASSUME NEW c \in Commands, Begin(c)
       PROVE  SameChannel(host', host) /\ UNCHANGED <<known, confirmed, dev>>
  BY <1>1, <1>10 DEF Begin, Hosts, SameChannel
<1> QED
  BY <1>4, <1>5, <1>6, <1>7, <1>8, <1>9, <1>10


\* A request that breaks takes nothing from the connection but its order.
LEMMA BreakChannel ==
    ASSUME Base, NEW gone \in BOOLEAN, Break(gone)
    PROVE  /\ host'.key = host.key /\ host'.bb02 = host.bb02 /\ host'.chan = host.chan
           /\ UNCHANGED <<known, confirmed, sign>>
<1>1. host \in Hosts /\ host.q # "none" /\ host.lost \in BOOLEAN
  BY HostFlags DEF Base, Types, Break
<1>2. PICK b \in BOOLEAN : \/ host' = Ended([host EXCEPT !.lost = b], "ok")
                          \/ host' = Failed([host EXCEPT !.lost = b], "raw")
  <2>1. (host.lost \/ (Now.op # "raw" /\ host.q = "poll")) \in BOOLEAN
    OBVIOUS
  <2> QED
    BY <2>1 DEF Break
<1>3. [host EXCEPT !.lost = b] \in Hosts /\ [host EXCEPT !.lost = b].chan = host.chan
      /\ [host EXCEPT !.lost = b].bb02 = host.bb02 /\ [host EXCEPT !.lost = b].key = host.key
  BY <1>1, WithLost DEF Hosts
<1> DEFINE h == [host EXCEPT !.lost = b]
<1>4. SameLink(host', h)
  <2>1. CASE host' = Ended(h, "ok")
    BY <1>3, <2>1, EndedFacts DEF Outcomes
  <2>2. CASE host' = Failed(h, "raw")
    <3>1. Stopped(host', h)
      BY <1>3, <2>2, FailedFacts DEF Outcomes
    <3> QED
      BY <3>1 DEF Stopped
  <2> QED
    BY <1>2, <2>1, <2>2
<1> QED
  BY <1>3, <1>4 DEF SameLink, Break

\* Every step keeps the trust.
LEMMA NextTrust == ASSUME Base, Trust, [Next]_vars PROVE Trust'
<1>1. CASE Open \/ Close \/ Kill
  <2>1. ~NoHost.bb02 /\ \A silent : ~[NoHost EXCEPT !.open = TRUE, !.link = TRUE, !.silent = silent].bb02
    BY DEF NoHost
  <2>2. ~host'.bb02 /\ UNCHANGED <<known, confirmed>>
    BY <1>1, <2>1 DEF Open, Close, Kill
  <2> QED
    BY <2>2, TrustKept
<1>2. CASE Return \/ Require \/ GetInfo \/ Ask \/ NewRequest \/ cancel_outstanding_request \/ \E c \in Commands : Begin(c)
  BY <1>2, QuietSteps, TrustKept DEF SameChannel
<1>3. CASE Confirm
  <2>1. /\ host \in Hosts /\ host.cmd # "none" /\ host.chan # 0 /\ ~host.bb02
    BY <1>3, ConfirmState DEF Confirm
  <2>2. PICK ok \in BOOLEAN :
          /\ host' = IF ok THEN AfterPairing(host) ELSE Closed([host EXCEPT !.chan = 0], "raw")
          /\ known' = known \cup (IF Remembers(ok) THEN {host.key} ELSE {})
          /\ confirmed' = confirmed \cup (IF ok THEN {host.key} ELSE {})
    BY <1>3 DEF Confirm
  <2>3. known' \subseteq confirmed'
    BY <2>2 DEF Trust, Remembers
  <2>4. CASE ok
    <3>1. host'.key = host.key
      BY <2>1, <2>2, <2>4, AfterPairingSettled, SameCommandReflexive
    <3> QED
      BY <2>2, <2>3, <2>4, <3>1 DEF Trust, ChannelVerified
  <2>5. CASE ~ok
    <3>1. ~host'.bb02
      BY <2>1, <2>2, <2>5, ClosedSettled, NoChannel
    <3> QED
      BY <2>3, <3>1 DEF Trust, ChannelVerified
  <2> QED
    BY <2>4, <2>5
<1>4. CASE Receive
  <2>1. /\ host.q = "poll" /\ UNCHANGED <<known, confirmed>> /\ job.st = "done" /\ Fits(Now, job.ans)
        /\ host \in Hosts /\ host.cmd # "none" /\ job.step = Now /\ (host.bb02 => host.chan # 0)
    BY <1>4, ReceiveCases, Polling
  <2>2. CASE host' = Failed(host, "raw")
    <3>1. Stopped(host', host)
      BY <2>1, <2>2, FailedFacts DEF Outcomes
    <3> QED
      BY <2>1, <3>1, TrustKept DEF Stopped, SameLink
  <2>3. CASE Now.op = "raw" /\ host' = RawAnswer(job.ans)
    <3>1. job.ans \in RawAnswers /\ (Now.m = "handshake2" /\ job.ans.ok => job.ans.chan = job.id)
      BY <2>1, <2>3 DEF Fits, Base, JobShape
    <3> QED
      BY <2>1, <2>3, <3>1, RawSettled, TrustKept
  <2>4. CASE Now.op \notin {"raw", "sign"} /\ job.ans.kind # "noise" /\ host' = MethodAnswer(job.ans)
    BY <2>1, <2>4, MethodSettled, TrustKept DEF SameChannel
  <2>5. CASE Now.op = "sign" /\ job.ans.kind # "noise" /\ SignAnswer(job.ans)
    BY <2>1, <2>5, SignSettled, TrustKept DEF SameChannel
  <2> QED
    BY <1>4, <2>2, <2>3, <2>4, <2>5, ReceiveCases
<1>5. CASE \E gone \in BOOLEAN : Break(gone)
  BY <1>5, BreakChannel, TrustKept
<1>6. CASE UNCHANGED vars \/ PollCancel \/ Replug \/ OtherTakes \/ DeviceWorks \/ DeviceDrops
  BY <1>6, TrustKept DEF vars, PollCancel, Replug, OtherTakes, DeviceWorks, DeviceDrops
<1> QED
  BY <1>1, <1>2, <1>3, <1>4, <1>5, <1>6 DEF Next

\* A client sends no encrypted query to a device whose pairing code the user
\* has not compared on both sides: for any keys, commands and faults, and any
\* number of processes and exchanged devices (_create_noise_channel).
THEOREM ChannelIsVerified == Spec => []ChannelVerified
<1>1. Init => Trust
  BY DEF Init, Trust, ChannelVerified, NoHost
<1>2. Base /\ Trust /\ [Next]_vars => Trust'
  BY NextTrust
<1>3. Trust => ChannelVerified
  BY DEF Trust
<1> QED
  BY <1>1, <1>2, <1>3, AlwaysBase, PTL DEF Spec

----------------------------------------------------------------------------
(* What a step does to the host's program                                  *)

\* The command has ended, and not well; enumerate may go on with its query
\* for the device's information.
Over ==
    /\ host'.cmd \in {"none", "enumerate"} /\ host'.todo \in {<<>>, InfoAgain} /\ host'.outcome # "ok"
    /\ UNCHANGED sign

\* The command goes on with t.
Continues(t) == host'.cmd = host.cmd /\ host'.outcome = host.outcome /\ host'.last = host.last /\ host'.todo = t

\* A command that stops is over.
LEMMA StoppedOver ==
    ASSUME Base, host.cmd # "none", NEW h, SameCommand(h, host), Stopped(host', h), UNCHANGED sign
    PROVE  Over
BY DEF Base, HostShape, SameCommand, Stopped, Over

\* A command that fails is over.
LEMMA FailedOver ==
    ASSUME Base, host.cmd # "none", NEW how \in Outcomes \ {"ok", "none"}, host' = Failed(host, how), UNCHANGED sign
    PROVE  Over
<1>1. Stopped(host', host)
  BY FailedFacts DEF Base, Types
<1> QED
  BY <1>1, StoppedOver, SameCommandReflexive

\* The pairing's end leads to init, or the command is over.
LEMMA AfterPairingMoves ==
    ASSUME Base, host.cmd # "none", NEW h \in Hosts, SameCommand(h, host), host' = AfterPairing(h), UNCHANGED sign
    PROVE  Over \/ (Connects(host'.todo) /\ Continues(host'.todo))
<1>1. PICK g \in Hosts :
         /\ SameCommand(g, h)
         /\ Stopped(host', g) \/ Going(host', g, <<Step("query", "init_info")>>)
  BY AfterPairingFacts
<1>2. SameCommand(g, host)
  BY <1>1 DEF SameCommand
<1>3. CASE Stopped(host', g)
  BY <1>2, <1>3, StoppedOver
<1>4. CASE Going(host', g, <<Step("query", "init_info")>>)
  <2>1. Connects(<<Step("query", "init_info")>>)
    BY ConnectsSingle DEF PairingEnds
  <2> QED
    BY <1>2, <1>4, <2>1 DEF Going, SameCommand, SameLink, Continues
<1> QED
  BY <1>1, <1>3, <1>4

\* A pairing that fails is the end of the command.
LEMMA ClosedOver ==
    ASSUME Base, host.cmd # "none", NEW h \in Hosts, SameCommand(h, host), host' = Closed(h, "raw"), UNCHANGED sign
    PROVE  Over
<1>1. PICK g \in Hosts : SameCommand(g, h) /\ Stopped(host', g)
  BY ClosedFacts
<1>2. SameCommand(g, host)
  BY <1>1 DEF SameCommand
<1> QED
  BY <1>1, <1>2, StoppedOver

\* The answers of the pairing.
LEMMA RawMoves ==
    ASSUME Base, host.q = "poll", Now.op = "raw", NEW a \in RawAnswers, host' = RawAnswer(a), UNCHANGED sign
    PROVE  Over \/ (Connects(host'.todo) /\ Continues(host'.todo))
<1>1. /\ host \in Hosts /\ host.cmd # "none" /\ host.todo # <<>> /\ Connects(host.todo)
      /\ Now.m \in {"attestation", "unlock", "start", "handshake1", "handshake2", "verify"}
      /\ host.todo \in Seq(Steps) /\ Now = Head(host.todo)
  BY Polling, RawPolling DEF Pairing
<1>2. ASSUME NEW h \in Hosts, SameCommand(h, host), NEW t \in Seq(Steps), Connects(t),
             host' = [h EXCEPT !.todo = t, !.q = "none"]
      PROVE  Connects(host'.todo) /\ Continues(host'.todo)
  <2>1. Going(host', h, t)
    BY <1>2, GoingFacts
  <2> QED
    BY <1>2, <2>1 DEF Going, SameLink, SameCommand, Continues
<1>3. CASE Now.m \in Pairing
  <2>1. host' = Proceed(host) \/ host' = Closed(host, "raw")
    BY <1>3 DEF Pairing, RawAnswer
  <2>2. CASE host' = Proceed(host)
    <3>1. Connects(Tail(host.todo)) /\ Tail(host.todo) \in Seq(Steps)
      BY <1>1, <1>3, ConnectsTail
    <3>2. host' = [host EXCEPT !.todo = Tail(host.todo), !.q = "none"]
      BY <2>2 DEF Proceed
    <3> QED
      BY <1>1, <1>2, <3>1, <3>2, SameCommandReflexive
  <2>3. CASE host' = Closed(host, "raw")
    BY <1>1, <2>3, ClosedOver, SameCommandReflexive
  <2> QED
    BY <2>1, <2>2, <2>3
<1>4. CASE Now.m = "handshake2" /\ ~a.ok
  <2>1. host' = Closed(host, "raw")
    BY <1>4 DEF RawAnswer
  <2> QED
    BY <1>1, <2>1, ClosedOver, SameCommandReflexive
<1>5. CASE Now.m = "handshake2" /\ a.ok
  <2> DEFINE h == [host EXCEPT !.chan = a.chan, !.key = a.key, !.sent = 0, !.lost = FALSE]
  <2>1. a.chan \in Nat /\ a.key \in Keys \cup {0}
    BY DEF RawAnswers
  <2>2. h \in Hosts /\ SameCommand(h, host)
    BY <1>1, <2>1 DEF Hosts, SameCommand
  <2>3. \/ host' = AfterPairing(h)
        \/ host' = Failed([h EXCEPT !.chan = 0], "notReady")
        \/ host' = [h EXCEPT !.todo = <<Step("raw", "verify")>>, !.q = "none"]
    BY <1>5 DEF RawAnswer
  <2> HIDE DEF h
  <2>4. CASE host' = AfterPairing(h)
    BY <1>1, <2>2, <2>4, AfterPairingMoves
  <2>5. CASE host' = Failed([h EXCEPT !.chan = 0], "notReady")
    <3> DEFINE g == [h EXCEPT !.chan = 0]
    <3>1. g \in Hosts /\ SameCommand(g, h)
      BY <2>2, NoChannel
    <3>2. SameCommand(g, host)
      BY <2>2, <3>1 DEF SameCommand
    <3>3. host' = Failed(g, "notReady")
      BY <2>5
    <3> HIDE DEF g
    <3>4. Stopped(host', g)
      BY <3>1, <3>3, FailedFacts DEF Outcomes
    <3> QED
      BY <1>1, <3>2, <3>4, StoppedOver
  <2>6. CASE host' = [h EXCEPT !.todo = <<Step("raw", "verify")>>, !.q = "none"]
    <3>1. <<Step("raw", "verify")>> \in Seq(Steps) /\ Connects(<<Step("raw", "verify")>>)
      BY ConnectsSingle DEF PairingEnds
    <3> QED
      BY <1>2, <2>2, <2>6, <3>1
  <2> QED
    BY <2>3, <2>4, <2>5, <2>6
<1>6. CASE Now.m = "verify" /\ a.ok
  <2>1. <<Step("ask", "confirm")>> \in Seq(Steps) /\ Connects(<<Step("ask", "confirm")>>)
    BY ConnectsSingle DEF PairingEnds
  <2>2. host' = [host EXCEPT !.todo = <<Step("ask", "confirm")>>, !.q = "none"]
    BY <1>6 DEF RawAnswer
  <2> QED
    BY <1>1, <1>2, <2>1, <2>2, SameCommandReflexive
<1>7. CASE Now.m = "verify" /\ ~a.ok
  <2>1. host' = Closed([host EXCEPT !.chan = 0], "raw")
    BY <1>7 DEF RawAnswer
  <2> QED
    BY <1>1, <2>1, NoChannel, ClosedOver
<1> QED
  BY <1>1, <1>3, <1>4, <1>5, <1>6, <1>7 DEF Pairing

\* The answers of a command's methods: the device is asked again, the
\* passphrase's setting is known, a step is needless, or the next step is due.
Proceeds ==
    /\ Runs(host.todo) /\ ~host.lost /\ Continues(host'.todo)
    /\ \/ job.ans.kind = "again" /\ host'.todo = host.todo
       \/ /\ job.ans.kind = "info" /\ Now.op = "toggle"
          /\ host'.todo = Toggled(job.ans.passphrase) /\ host'.seen = job.ans.passphrase
       \/ Now.op = "unless" /\ host'.todo = Tail(Tail(host.todo)) /\ host'.seen = host.seen
       \/ /\ job.ans.kind \notin {"error", "noise", "again"} /\ ~(job.ans.kind = "info" /\ Now.op = "toggle")
          /\ host'.todo = Tail(host.todo) /\ host'.seen = host.seen

\* What the answer of a method leads to.
LEMMA MethodMoves ==
    ASSUME Base, host.q = "poll", job.st = "done", Now.op \notin {"raw", "sign"}, job.ans.kind # "noise",
           ~host.lost, host' = MethodAnswer(job.ans), UNCHANGED sign
    PROVE  \/ Over
           \/ /\ Now.m = "init_info" /\ Connects(host.todo) /\ Continues(Program(host.cmd, dev.ver))
           \/ Proceeds
<1> DEFINE a == job.ans
<1>1. /\ host \in Hosts /\ host.todo # <<>> /\ host.todo \in Seq(Steps) /\ Now = Head(host.todo)
      /\ host.cmd # "none" /\ Now.op # "raw" /\ host.outcome = "none"
  BY Polling DEF Base, HostShape
<1>2. /\ a \in NextAnswers \cup InfoAnswers \cup OtherAnswers
      /\ Now.m = "init_info" => a.kind \in {"info", "error"} /\ Now.op = "query"
      /\ Now.m # "init_info" => Runs(host.todo)
  BY <1>1, MethodPolling
<1>3. ASSUME NEW t \in Seq(Steps), host' = [host EXCEPT !.todo = t, !.q = "none"]
      PROVE  Continues(t) /\ host'.seen = host.seen /\ host'.todo = t
  <2>1. Going(host', host, t)
    BY <1>1, <1>3, GoingFacts
  <2> QED
    BY <2>1 DEF Going, SameLink, Continues
<1>4. Runs(host.todo) => Tail(host.todo) \in Seq(Steps)
  BY <1>1, HeadTail
<1>5. CASE a.kind = "error"
  <2>1. CASE a.code \in Now.on
    <3>1. host' = Ended(host, "false")
      BY <1>5, <2>1 DEF MethodAnswer
    <3>2. host'.cmd = "none" /\ host'.todo = <<>> /\ host'.outcome = "false"
      BY <1>1, <3>1, EndedFacts DEF Outcomes
    <3> QED
      BY <3>2 DEF Over
  <2>2. CASE a.code \notin Now.on
    <3>1. host' = Failed(host, bitbox02_exception(a.code))
      BY <1>5, <2>2 DEF MethodAnswer
    <3> QED
      BY <1>1, <3>1, FailedOver, ExceptionType
  <2> QED
    BY <2>1, <2>2
<1>6. CASE a.kind = "again"
  <2>1. host' = [host EXCEPT !.q = "none"]
    BY <1>6 DEF MethodAnswer
  <2>2. host' = [host EXCEPT !.todo = host.todo, !.q = "none"]
    BY <1>1, <2>1 DEF Hosts
  <2> QED
    BY <1>1, <1>2, <1>3, <1>6, <2>2 DEF Proceeds
<1>7. CASE a.kind = "info" /\ Now.m = "init_info"
  <2>1. host' = InitInfo(a)
    BY <1>2, <1>7 DEF MethodAnswer
  <2>2. CASE a.initialized \notin Expected(host.cmd)
    <3>1. host' = Failed(host, "badState")
      BY <2>1, <2>2 DEF InitInfo
    <3> QED
      BY <1>1, <3>1, FailedOver DEF Outcomes
  <2>3. CASE a.initialized \in Expected(host.cmd)
    <3> DEFINE t == Program(host.cmd, dev.ver)
    <3>1. host.cmd \in Commands
      BY <1>1 DEF Base, HostShape
    <3>2. t \in Seq(Steps)
      BY <3>1, ProgramPlain, ProgramRuns
    <3>3. host' = [host EXCEPT !.todo = t, !.q = "none"]
      BY <2>1, <2>3 DEF InitInfo
    <3> HIDE DEF t
    <3>4. Continues(t)
      BY <1>3, <3>2, <3>3
    <3>5. Connects(host.todo)
      <4>1. Now.m \in PairingEnds
        BY <1>7 DEF PairingEnds
      <4> QED
        BY <1>1, <4>1, RunsHead, ConnectsOr
    <3> QED
      BY <1>7, <3>4, <3>5 DEF t
  <2> QED
    BY <2>2, <2>3
<1>8. CASE a.kind = "info" /\ Now.m # "init_info" /\ Now.op = "toggle"
  <2> DEFINE t == Toggled(a.passphrase)
             h == [host EXCEPT !.seen = a.passphrase]
  <2>1. a.passphrase \in BOOLEAN
    BY <1>2, <1>8 DEF NextAnswers, InfoAnswers, OtherAnswers
  <2>2. t \in Seq(Steps)
    BY ToggledRuns
  <2>3. host' = [host EXCEPT !.todo = t, !.q = "none", !.seen = a.passphrase]
    BY <1>8 DEF MethodAnswer
  <2> HIDE DEF t
  <2>4. /\ h \in Hosts /\ SameCommand(h, host) /\ h.seen = a.passphrase
        /\ host' = [h EXCEPT !.todo = t, !.q = "none"]
    BY <1>1, <2>1, <2>2, <2>3, WithSeen
  <2> HIDE DEF h
  <2>5. Going(host', h, t)
    BY <2>2, <2>4, GoingFacts
  <2>6. Continues(t) /\ host'.todo = t /\ host'.seen = a.passphrase
    BY <2>4, <2>5 DEF Going, SameLink, SameCommand, Continues
  <2> QED
    BY <1>2, <1>8, <2>6 DEF Proceeds, t
<1>9. CASE a.kind = "registered" /\ Now.op = "unless" /\ a.yes
  <2>1. Runs(host.todo)
    BY <1>2, <1>9
  <2>2. host' = [host EXCEPT !.q = "none",
                             !.todo = IF Now.op = "unless" /\ a.yes THEN Tail(Tail(@)) ELSE Tail(@)]
    BY <1>9 DEF MethodAnswer
  <2>3. Tail(host.todo) # <<>> /\ Tail(host.todo) \in Seq(Steps)
    BY <1>1, <1>9, <2>1, RunsHead, HeadTail
  <2>4. Tail(Tail(host.todo)) \in Seq(Steps)
    BY <2>3, HeadTail
  <2>5. host' = [host EXCEPT !.todo = Tail(Tail(host.todo)), !.q = "none"]
    BY <1>1, <1>9, <2>2 DEF Hosts
  <2> QED
    BY <1>3, <1>9, <2>1, <2>4, <2>5 DEF Proceeds
<1>10. CASE /\ a.kind \notin {"error", "again"}
            /\ ~(a.kind = "info" /\ Now.m = "init_info")
            /\ ~(a.kind = "info" /\ Now.op = "toggle")
            /\ ~(a.kind = "registered" /\ Now.op = "unless" /\ a.yes)
  <2>1. Runs(host.todo)
    BY <1>2, <1>10
  <2>2. \/ host' = Proceed(host)
        \/ \E how \in {"badState", "raw"} : host' = Failed(host, how)
        \/ host' = [host EXCEPT !.q = "none", !.todo = Tail(@)]
    BY <1>10 DEF MethodAnswer
  <2>3. CASE \E how \in {"badState", "raw"} : host' = Failed(host, how)
    BY <1>1, <2>3, FailedOver DEF Outcomes
  <2>4. CASE host' = Proceed(host) \/ host' = [host EXCEPT !.q = "none", !.todo = Tail(@)]
    <3>1. host' = [host EXCEPT !.todo = Tail(host.todo), !.q = "none"]
      BY <1>1, <2>4 DEF Hosts, Proceed
    <3>2. Continues(Tail(host.todo)) /\ host'.seen = host.seen /\ host'.todo = Tail(host.todo)
      BY <1>3, <1>4, <2>1, <3>1
    <3> QED
      BY <1>10, <2>1, <3>2 DEF Proceeds
  <2> QED
    BY <2>2, <2>3, <2>4
<1> HIDE DEF a
<1> QED
  BY <1>5, <1>6, <1>7, <1>8, <1>9, <1>10

\* The kinds of steps that are not ends of a command and do not belong to
\* btc_sign.
Pairs == Connects(host.todo) /\ Connects(host'.todo) /\ Continues(host'.todo) /\ UNCHANGED sign

Starts ==
    /\ Now.m = "init_info" /\ Connects(host.todo) /\ Continues(Program(host.cmd, dev.ver))
    /\ SameChannel(host', host) /\ host'.q = "none" /\ UNCHANGED <<sign, dev>>

Skips ==
    /\ host.todo # <<>> /\ Runs(host.todo) /\ Continues(Tail(host.todo))
    /\ Now.op = "need" \/ Now.m = "info_again"
    /\ host.q = "none" /\ host'.q = "none" /\ host'.seen = host.seen
    /\ SameChannel(host', host) /\ UNCHANGED <<sign, dev, job>>

\* The request, the device or its user is at work.
Works ==
    \/ Ask \/ NewRequest \/ cancel_outstanding_request \/ PollCancel \/ Replug \/ OtherTakes \/ DeviceWorks
    \/ DeviceDrops \/ UNCHANGED vars

Waits == Works /\ Continues(host.todo) /\ host'.seen = host.seen /\ SameChannel(host', host) /\ UNCHANGED sign

Answered ==
    /\ Receive /\ Now.op # "sign" /\ Proceeds
    /\ SameChannel(host', host) /\ host'.q = "none" /\ UNCHANGED <<sign, dev>>

Signed == Receive /\ Now.op = "sign" /\ job.ans.kind # "noise" /\ ~host.lost /\ SignAnswer(job.ans)

\* A device that reboots or forgets everything is expected to be gone.
Leaves ==
    \E gone \in BOOLEAN :
        /\ Break(gone) /\ host.todo # <<>> /\ "gone" \in Now.on
        /\ host'.cmd = "none" /\ host'.todo = <<>> /\ host'.outcome = "ok" /\ host'.last = host.cmd

\* A query that breaks ends the command; reset and reboot expect it.
LEMMA BreakMoves ==
    ASSUME Base, NEW gone \in BOOLEAN, Break(gone)
    PROVE  Over \/ Leaves
<1>1. host \in Hosts /\ host.q # "none" /\ host.lost \in BOOLEAN /\ UNCHANGED sign
  BY HostFlags DEF Base, Types, Break
<1>2. host.cmd # "none" /\ host.todo # <<>> /\ host.last = host.cmd
  BY <1>1, Idle DEF Base, HostShape
<1> DEFINE b == host.lost \/ (Now.op # "raw" /\ host.q = "poll")
           h == [host EXCEPT !.lost = b]
<1>3. host' = IF gone /\ "gone" \in Now.on THEN Ended(h, "ok") ELSE Failed(h, "raw")
  BY DEF Break
<1>4. b \in BOOLEAN
  OBVIOUS
<1> HIDE DEF b
<1>5. h \in Hosts /\ SameCommand(h, host)
  BY <1>1, <1>4, WithLost
<1> HIDE DEF h
<1>6. CASE gone /\ "gone" \in Now.on
  <2>1. /\ host'.cmd = "none" /\ host'.todo = <<>> /\ host'.outcome = "ok" /\ SameLink(host', h)
    BY <1>3, <1>5, <1>6, EndedFacts DEF Outcomes
  <2>2. host'.last = host.cmd
    BY <1>2, <1>5, <2>1 DEF SameLink, SameCommand
  <2> QED
    BY <1>2, <1>6, <2>1, <2>2 DEF Leaves
<1>7. CASE ~(gone /\ "gone" \in Now.on)
  <2>1. Stopped(host', h)
    BY <1>3, <1>5, <1>7, FailedFacts DEF Outcomes
  <2> QED
    BY <1>1, <1>2, <1>5, <2>1, StoppedOver
<1> QED
  BY <1>6, <1>7

\* What an answer leads to.
LEMMA ReceiveMoves ==
    ASSUME Base, Receive
    PROVE  Over \/ Pairs \/ Starts \/ Answered \/ Signed
<1>1. /\ host.q = "poll" /\ UNCHANGED dev /\ job.st = "done" /\ Fits(Now, job.ans)
      /\ host \in Hosts /\ host.cmd # "none"
  BY ReceiveCases, Polling
<1>2. CASE host' = Failed(host, "raw") /\ UNCHANGED sign
  BY <1>1, <1>2, FailedOver DEF Outcomes
<1>3. CASE Now.op = "raw" /\ host' = RawAnswer(job.ans) /\ UNCHANGED sign
  <2>1. job.ans \in RawAnswers
    BY <1>1, <1>3 DEF Fits
  <2> QED
    BY <1>1, <1>3, <2>1, RawMoves, RawPolling DEF Pairs
<1>4. CASE /\ Now.op \notin {"raw", "sign"} /\ job.ans.kind # "noise" /\ ~host.lost
           /\ host' = MethodAnswer(job.ans) /\ UNCHANGED sign
  <2>1. SameChannel(host', host) /\ host'.q = "none"
    BY <1>1, <1>4, MethodSettled DEF Settled
  <2> QED
    BY <1>1, <1>4, <2>1, MethodMoves DEF Starts, Answered
<1>5. CASE Now.op = "sign" /\ job.ans.kind # "noise" /\ ~host.lost /\ SignAnswer(job.ans)
  BY <1>5 DEF Signed
<1> QED
  BY <1>2, <1>3, <1>4, <1>5, ReceiveCases

\* What a step without an answer leads to.
LEMMA QuietMoves ==
    ASSUME Base, Require \/ GetInfo \/ Ask
    PROVE  Over \/ Pairs \/ Skips \/ Waits
<1>1. /\ host \in Hosts /\ host.q = "none" /\ host.todo # <<>> /\ UNCHANGED <<sign, dev, job>>
      /\ host.cmd # "none" /\ Tail(host.todo) \in Seq(Steps) /\ Now = Head(host.todo) /\ host.todo \in Seq(Steps)
  BY Idle, NowType DEF Base, Types, Require, GetInfo, Ask
<1>2. SameChannel(host', host)
  BY QuietSteps
<1>3. ASSUME NEW how \in {"unsupported", "raw", "outdatedLibrary"}, host' = Failed(host, how)
      PROVE  Over
  BY <1>1, <1>3, FailedOver DEF Outcomes
<1>4. ASSUME NEW t \in Seq(Steps), host' = [host EXCEPT !.todo = t]
      PROVE  Continues(t) /\ host'.seen = host.seen /\ host'.q = "none"
  BY <1>1, <1>4 DEF Hosts, Continues
<1>5. CASE Require
  <2>1. CASE Now.v > dev.ver
    BY <1>3, <1>5, <2>1 DEF Require
  <2>2. CASE ~(Now.v > dev.ver)
    <3>1. Now.op = "need" /\ host' = [host EXCEPT !.todo = Tail(host.todo)]
      BY <1>5, <2>2 DEF Require
    <3>2. Runs(host.todo)
      BY <1>1, <3>1, ConnectsOr
    <3> QED
      BY <1>1, <1>2, <1>4, <3>1, <3>2 DEF Skips
  <2> QED
    BY <2>1, <2>2
<1>6. CASE GetInfo
  <2>1. CASE \E how \in {"raw", "outdatedLibrary"} : host' = Failed(host, how)
    BY <1>3, <2>1
  <2>2. CASE Now.m = "info_again" /\ host' = [host EXCEPT !.todo = Tail(@)]
    <3>1. Runs(host.todo)
      BY <1>1, <2>2, ConnectsOr DEF Pairing, PairingEnds
    <3> QED
      BY <1>1, <1>2, <1>4, <2>2, <3>1 DEF Skips
  <2>3. CASE Now.m = "info" /\ host' = [host EXCEPT !.todo = Connecting(dev.ver)]
    <3>1. dev.ver \in Nat
      BY DEF Base, Types, Devices
    <3>2. Connecting(dev.ver) \in Seq(Steps) /\ Connects(Connecting(dev.ver))
      BY <3>1, ConnectingShape
    <3>3. Connects(host.todo)
      BY <1>1, <2>3, RunsHead, ConnectsOr DEF PairingEnds
    <3>4. Continues(Connecting(dev.ver))
      BY <1>4, <2>3, <3>2
    <3> QED
      BY <1>1, <3>2, <3>3, <3>4 DEF Pairs, Continues
  <2> QED
    BY <1>6, <2>1, <2>2, <2>3 DEF GetInfo
<1>7. CASE Ask
  <2>1. CASE ~host.link
    BY <1>3, <1>7, <2>1 DEF Ask
  <2>2. CASE host.link
    <3>1. host' = [host EXCEPT !.q = "new", !.id = used.ids + 1, !.sent = IF Now.op = "raw" THEN @ ELSE @ + 1]
      BY <1>7, <2>2 DEF Ask
    <3>2. Continues(host.todo) /\ host'.seen = host.seen
      BY <1>1, <3>1 DEF Hosts, Continues
    <3> QED
      BY <1>1, <1>2, <1>7, <3>2 DEF Waits, Works
  <2> QED
    BY <2>1, <2>2
<1> QED
  BY <1>5, <1>6, <1>7

\* A step that leaves the command alone, or ends the process.
LEMMA OtherMoves ==
    ASSUME Base,
           \/ Open \/ Close \/ Kill \/ NewRequest \/ cancel_outstanding_request \/ PollCancel \/ Replug
           \/ OtherTakes \/ DeviceWorks \/ DeviceDrops \/ UNCHANGED vars
    PROVE  Over \/ Waits
<1>1. host \in Hosts
  BY DEF Base, Types
<1>2. CASE Open \/ Close \/ Kill
  <2>1. /\ NoHost.cmd = "none" /\ NoHost.todo = <<>> /\ NoHost.outcome = "none"
        /\ \A silent : LET h == [NoHost EXCEPT !.open = TRUE, !.link = TRUE, !.silent = silent] IN
              h.cmd = "none" /\ h.todo = <<>> /\ h.outcome = "none"
    BY DEF NoHost
  <2>2. host'.cmd = "none" /\ host'.todo = <<>> /\ host'.outcome = "none" /\ UNCHANGED sign
    BY <1>2, <2>1 DEF Open, Close, Kill
  <2> QED
    BY <2>2 DEF Over
<1>3. CASE NewRequest
  <2>1. Continues(host.todo) /\ host'.seen = host.seen /\ SameChannel(host', host) /\ UNCHANGED sign
    BY <1>1, <1>3 DEF NewRequest, Hosts, Continues, SameChannel
  <2> QED
    BY <1>3, <2>1 DEF Waits, Works
<1>4. CASE cancel_outstanding_request
  <2>1. Continues(host.todo) /\ host'.seen = host.seen /\ SameChannel(host', host) /\ UNCHANGED sign
    BY <1>1, <1>4 DEF cancel_outstanding_request, Hosts, Continues, SameChannel
  <2> QED
    BY <1>4, <2>1 DEF Waits, Works
<1>5. CASE PollCancel \/ Replug \/ OtherTakes \/ DeviceWorks \/ DeviceDrops \/ UNCHANGED vars
  <2>1. UNCHANGED <<host, sign>>
    BY <1>5 DEF PollCancel, Replug, OtherTakes, DeviceWorks, DeviceDrops, vars
  <2> QED
    BY <1>5, <2>1 DEF Waits, Works, Continues, SameChannel
<1> QED
  BY <1>2, <1>3, <1>4, <1>5

\* What the user's answer leads to.
LEMMA ConfirmMoves ==
    ASSUME Base, Confirm
    PROVE  Over \/ Pairs
<1>1. host.todo # <<>> /\ Now.m = "confirm" /\ UNCHANGED sign
  BY DEF Confirm
<1>2. host \in Hosts /\ host.cmd # "none" /\ Connects(host.todo)
  BY <1>1, ConfirmState
<1>3. CASE host' = AfterPairing(host)
  BY <1>1, <1>2, <1>3, AfterPairingMoves, SameCommandReflexive DEF Pairs
<1>4. CASE host' = Closed([host EXCEPT !.chan = 0], "raw")
  BY <1>1, <1>2, <1>4, NoChannel, ClosedOver
<1> QED
  BY <1>3, <1>4 DEF Confirm

\* Every step is of one of these kinds.
LEMMA StepCases ==
    ASSUME Base, [Next]_vars
    PROVE  \/ Over \/ Pairs \/ Starts \/ Skips \/ Waits \/ Answered \/ Signed \/ Leaves
           \/ Return \/ \E c \in Commands : Begin(c)
BY BreakMoves, ReceiveMoves, QuietMoves, OtherMoves, ConfirmMoves DEF Next

----------------------------------------------------------------------------
(* What a step does to the device                                          *)

\* The device keeps what a command could change of it.
Keeps(e, d) ==
    /\ e.ver = d.ver /\ e.initialized = d.initialized /\ e.backup = d.backup /\ e.passphrase = d.passphrase
    /\ e.works = d.works

\* The place in the dialogue and the count of messages are no effects.
LEMMA KeepsFields ==
    ASSUME NEW d \in Devices
    PROVE  /\ Keeps(d, d)
           /\ \A x \in Nat : Keeps([d EXCEPT !.k = x], d) /\ Keeps([d EXCEPT !.rcvd = x], d)
           /\ \A x, y \in Nat : Keeps([d EXCEPT !.rcvd = x, !.k = y], d)
BY DEF Devices, Keeps

\* The dialogue of btc_sign moves the device's place in it.
LEMMA DeviceSignsKeeps ==
    ASSUME NEW d \in Devices, NEW s \in Steps, DeviceSigns(d, s)
    PROVE  Keeps(dev', d)
<1>1. d.k \in Nat /\ d.k + 1 \in Nat
  BY DEF Devices
<1>2. dev' = d \/ dev' = [d EXCEPT !.k = 1] \/ dev' = [d EXCEPT !.k = d.k + 1]
  BY DEF DeviceSigns, Does
<1> QED
  BY <1>1, <1>2, KeepsFields

\* The request the device has worked on is the same one, with its answer.
LEMMA DoesFacts ==
    ASSUME Base, NEW a, NEW e, Does(a, e)
    PROVE  /\ dev' = e
           /\ job'.ans = a /\ job'.st = "done" /\ job'.step = job.step /\ job'.id = job.id
           /\ job'.chan = job.chan /\ job'.no = job.no
BY DEF Base, Types, Does

\* A method that is done has its effect, any other answer none.
LEMMA DeviceMethodKeeps ==
    ASSUME Base, NEW d \in Devices, NEW s \in Steps, s.op # "raw", DeviceMethod(d, s)
    PROVE  \/ Keeps(dev', d) /\ job'.ans.kind # "done"
           \/ /\ s.op \in {"query", "loop"} /\ s.m \notin {"device_info", "init_info"}
              /\ dev' = Effect(d, s.m) /\ Possible(d, s.m) /\ job'.ans.kind = "done"
<1>1. CASE s.op = "sign" /\ DeviceSigns(d, s)
  <2>1. PICK a \in NextAnswers, e \in Devices : Does(a, e)
    BY <1>1, DeviceSignsDoes
  <2>2. job'.ans.kind = "next"
    BY <2>1, DoesFacts DEF NextAnswers
  <2> QED
    BY <1>1, <2>2, DeviceSignsKeeps
<1>0. ASSUME NEW a, a.kind # "done", Does(a, d) \/ Does(a, [d EXCEPT !.k = 0])
      PROVE  Keeps(dev', d) /\ job'.ans.kind # "done"
  <2>1. job'.ans = a /\ (dev' = d \/ dev' = [d EXCEPT !.k = 0])
    BY <1>0, DoesFacts
  <2>2. 0 \in Nat /\ Keeps(d, d) /\ Keeps([d EXCEPT !.k = 0], d)
    BY KeepsFields
  <2> QED
    BY <1>0, <2>1, <2>2
<1>2. CASE Does([kind |-> "info", initialized |-> d.initialized, passphrase |-> d.passphrase], d)
  BY <1>2, <1>0
<1>3. CASE Does([kind |-> "registered", yes |-> d.registered], d)
  BY <1>3, <1>0
<1>4. CASE \E honest \in BOOLEAN : Does([kind |-> "signature", honest |-> honest], d)
  BY <1>4, <1>0
<1>5. CASE Does([kind |-> "again"], d)
  BY <1>5, <1>0
<1>6. CASE /\ s.op \in {"query", "loop"} /\ ~s.nonce
           /\ s.m \notin {"device_info", "init_info", "is_script_config_registered"}
           /\ Possible(d, s.m) /\ Does([kind |-> "done"], Effect(d, s.m))
  BY <1>6, DoesFacts
<1>7. CASE \E code \in {"abort", "generic", "other"} : Does([kind |-> "error", code |-> code], [d EXCEPT !.k = 0])
  BY <1>7, <1>0
<1> QED
  BY <1>1, <1>2, <1>3, <1>4, <1>5, <1>6, <1>7 DEF DeviceMethod

\* The pairing has no effect that a command promises.
LEMMA DeviceRawKeeps ==
    ASSUME Base, NEW m, DeviceRaw(m)
    PROVE  Keeps(dev', dev) /\ dev'.k = dev.k /\ job'.ans.kind = "raw"
<1>1. dev \in Devices
  BY DEF Base, Types
<1>2. Keeps(dev', dev) /\ dev'.k = dev.k
  BY <1>1 DEF DeviceRaw, Does, Devices, Keeps
<1>3. job'.ans.kind = "raw"
  <2>1. PICK a \in RawAnswers, d \in Devices : Does(a, d)
    BY DeviceRawDoes
  <2> QED
    BY <2>1, DoesFacts DEF RawAnswers
<1> QED
  BY <1>2, <1>3

\* What the device's work does to it.
LEMMA DeviceWorksKeeps ==
    ASSUME Base, DeviceWorks
    PROVE  \/ Keeps(dev', dev) /\ job'.ans.kind # "done"
           \/ /\ job.step.op \in {"query", "loop"} /\ job.step.m \notin {"device_info", "init_info"}
              /\ dev' = Effect([dev EXCEPT !.rcvd = dev.rcvd + 1], job.step.m) /\ job'.ans.kind = "done"
              /\ Possible(dev, job.step.m)
              /\ job.chan = dev.chan /\ job.chan # 0
<1>1. dev \in Devices /\ job.step \in Steps
  BY DEF Base, Types
<1>2. CASE job.step.op = "raw"
  BY <1>2, DeviceRawKeeps DEF DeviceWorks
<1>3. CASE job.step.op # "raw" /\ Does([kind |-> "noise"], dev)
  <2> DEFINE a == [kind |-> "noise"]
  <2>1. a.kind = "noise"
    OBVIOUS
  <2> HIDE DEF a
  <2>2. job'.ans = a /\ dev' = dev
    BY <1>3, DoesFacts DEF a
  <2>3. Keeps(dev, dev)
    BY <1>1, KeepsFields
  <2> QED
    BY <2>1, <2>2, <2>3
<1>4. CASE /\ job.step.op # "raw" /\ job.chan = dev.chan /\ job.chan # 0
           /\ DeviceMethod([dev EXCEPT !.rcvd = @ + 1], job.step)
  <2> DEFINE d == [dev EXCEPT !.rcvd = dev.rcvd + 1]
  <2>1. dev.rcvd + 1 \in Nat
    BY <1>1 DEF Devices
  <2>2. d \in Devices /\ Keeps(d, dev)
    BY <1>1, <2>1, DeviceFields, KeepsFields
  <2>3. DeviceMethod(d, job.step)
    BY <1>4
  <2>4. Possible(d, job.step.m) => Possible(dev, job.step.m)
    BY <2>2 DEF Possible, Keeps
  <2> HIDE DEF d
  <2>5. \/ Keeps(dev', d) /\ job'.ans.kind # "done"
        \/ /\ job.step.op \in {"query", "loop"} /\ job.step.m \notin {"device_info", "init_info"}
           /\ dev' = Effect(d, job.step.m) /\ Possible(d, job.step.m) /\ job'.ans.kind = "done"
    BY <1>1, <1>4, <2>2, <2>3, DeviceMethodKeeps
  <2>6. CASE Keeps(dev', d) /\ job'.ans.kind # "done"
    BY <2>2, <2>6 DEF Keeps
  <2>7. CASE /\ job.step.op \in {"query", "loop"} /\ job.step.m \notin {"device_info", "init_info"}
             /\ dev' = Effect(d, job.step.m) /\ Possible(d, job.step.m) /\ job'.ans.kind = "done"
    BY <1>4, <2>4, <2>7 DEF d
  <2> QED
    BY <2>5, <2>6, <2>7
<1> QED
  BY <1>2, <1>3, <1>4 DEF DeviceWorks

\* No step changes the firmware's version.
LEMMA SameVersion ==
    ASSUME Base, [Next]_vars
    PROVE  dev'.ver = dev.ver
<1>1. dev \in Devices
  BY DEF Base, Types
<1>2. CASE DeviceWorks
  <2>1. dev.rcvd + 1 \in Nat
    BY <1>1 DEF Devices
  <2>2. ASSUME NEW d \in Devices, NEW m PROVE Effect(d, m).ver = d.ver
    BY DEF Effect, Devices, Fresh
  <2>3. [dev EXCEPT !.rcvd = dev.rcvd + 1] \in Devices /\ [dev EXCEPT !.rcvd = dev.rcvd + 1].ver = dev.ver
    BY <1>1, <2>1 DEF Devices
  <2> QED
    BY <1>2, <2>2, <2>3, DeviceWorksKeeps DEF Keeps
<1>3. CASE PollCancel
  BY <1>1, <1>3 DEF PollCancel, Does, Devices
<1>4. CASE Replug
  BY <1>1, <1>4 DEF Replug, Fresh, Devices
<1>5. CASE OtherTakes
  BY <1>1, <1>5 DEF OtherTakes, Devices
<1>6. CASE \E gone \in BOOLEAN : Break(gone)
  BY <1>1, <1>6 DEF Break, Devices
<1>7. CASE UNCHANGED dev
  BY <1>7
<1> QED
  BY <1>2, <1>3, <1>4, <1>5, <1>6, <1>7
  DEF Next, Open, Close, Begin, Return, Require, GetInfo, Ask, NewRequest, cancel_outstanding_request, Confirm, Receive,
      Kill, DeviceDrops, vars

----------------------------------------------------------------------------
(* What an answer of btc_sign does                                         *)

\* The loop stops, ends or goes on with what the device asks for.
TurnMoves(a) ==
    \/ host'.cmd \in {"none", "enumerate"} /\ host'.todo \in {<<>>, InfoAgain} /\ host'.outcome # "ok"
    \/ a.type = "DONE" /\ Continues(Tail(host.todo))
    \/ a.type \notin {"DONE", "HOST_NONCE"} /\ Continues(<<NextQuery(sign', a)>> \o Tail(host.todo))

WithNonceOf(i) == [Step("sign", "nonce") EXCEPT !.i = i, !.nonce = TRUE]

Contributes(a) ==
    /\ Now.m = "btc_sign_input" /\ Now.commit /\ a.type = "HOST_NONCE"
    /\ Continues(<<WithNonceOf(Now.i)>> \o Tail(host.todo)) /\ UNCHANGED sign

\* The signature that is kept in the second pass.
Kept(a) == [index |-> Now.i, of |-> a.of, honest |-> a.honest]

TakesInput(a) ==
    /\ Now.m \in {"btc_sign_input", "nonce"} /\ ~Now.commit /\ Accepted(a)
    /\ sign'.pass2 = (sign.pass2 \/ EndsPass(Now.i))
    /\ sign'.sigs = IF sign.pass2 THEN Append(sign.sigs, Kept(a)) ELSE sign.sigs
    /\ TurnMoves(a)

TakesOther(a) == Now.m \in {"btc_sign_init", "btc_sign_output", "prevtx"} /\ UNCHANGED sign /\ TurnMoves(a)

\* The loop of btc_sign goes on with what the device asks for.
LEMMA TurnIs ==
    ASSUME Base, host.q = "poll", Now.op = "sign", NEW g, g.pass2 \in BOOLEAN, NEW a, a.index \in Nat,
           host' = Turn(g, a), sign' = g
    PROVE  TurnMoves(a)
<1>1. host.cmd # "none" /\ host.outcome = "none"
  BY Polling DEF Base, HostShape
<1>2. \/ a.type = "DONE" /\ Going(host', host, Tail(host.todo))
      \/ Stopped(host', host)
      \/ /\ a.type # "DONE" /\ a.type # "HOST_NONCE"
         /\ Going(host', host, <<NextQuery(g, a)>> \o Tail(host.todo))
  BY TurnSettled
<1>3. CASE a.type = "DONE" /\ Going(host', host, Tail(host.todo))
  BY <1>3 DEF Going, SameLink, Continues, TurnMoves
<1>4. CASE Stopped(host', host)
  BY <1>1, <1>4 DEF Stopped, TurnMoves
<1>5. CASE /\ a.type # "DONE" /\ a.type # "HOST_NONCE"
           /\ Going(host', host, <<NextQuery(g, a)>> \o Tail(host.todo))
  BY <1>5 DEF Going, SameLink, Continues, TurnMoves
<1> QED
  BY <1>2, <1>3, <1>4, <1>5

\* What an answer does to the loop of btc_sign.
LEMMA SignMoves ==
    ASSUME Base, Signed
    PROVE  \/ Over
           \/ /\ job.ans \in NextAnswers
              /\ Contributes(job.ans) \/ TakesInput(job.ans) \/ TakesOther(job.ans)
<1> DEFINE a == job.ans
<1>1. /\ host.q = "poll" /\ Now.op = "sign" /\ job.st = "done" /\ a.kind # "noise"
  BY ReceiveCases DEF Signed
<1>2. /\ host \in Hosts /\ host.todo # <<>> /\ host.todo \in Seq(Steps) /\ Now = Head(host.todo)
      /\ host.cmd # "none" /\ Now \in Steps
  BY <1>1, Polling
<1>3. Runs(host.todo) /\ a \in NextAnswers \cup InfoAnswers \cup OtherAnswers
  BY <1>1, <1>2, ConnectsOr, MethodPolling
<1>4. sign \in [pass2 : BOOLEAN, sigs : Seq(Signatures)] /\ Now.i \in Nat
  BY <1>2 DEF Base, Types, Steps
<1>5. a.kind = "next" => a \in NextAnswers /\ a.index \in Nat
  BY <1>3 DEF NextAnswers, InfoAnswers, OtherAnswers
<1>6. sign' \in [pass2 : BOOLEAN, sigs : Seq(Signatures)]
  BY <1>1, SignSettled DEF Signed
<1>7. CASE a.kind = "error" /\ host' = Failed(host, bitbox02_exception(a.code)) /\ UNCHANGED sign
  BY <1>2, <1>7, FailedOver, ExceptionType
<1>8. CASE /\ a.kind = "next" /\ Now.m = "btc_sign_input" /\ Now.commit /\ UNCHANGED sign
           /\ host' = IF a.type # "HOST_NONCE" THEN Failed(host, "raw")
                      ELSE [host EXCEPT !.q = "none", !.todo = <<WithNonceOf(Now.i)>> \o Tail(@)]
  <2>1. CASE a.type # "HOST_NONCE"
    BY <1>2, <1>8, <2>1, FailedOver DEF Outcomes
  <2>2. CASE a.type = "HOST_NONCE"
    <3> DEFINE s == WithNonceOf(Now.i)
               t == <<s>> \o Tail(host.todo)
    <3>1. s \in Steps /\ s.op = "sign" /\ s.m \in Dialog
      BY <1>4, NonceStep DEF Dialog, WithNonceOf
    <3>2. host' = [host EXCEPT !.q = "none", !.todo = <<s>> \o Tail(@)]
      BY <1>8, <2>2
    <3> HIDE DEF s
    <3>3. Tail(host.todo) \in Programs
      BY <1>2, <1>3, RunsTail
    <3>4. t \in Seq(Steps)
      BY <3>1, <3>3, RunsCons
    <3>5. host' = [host EXCEPT !.todo = t, !.q = "none"]
      BY <1>2, <3>2 DEF Hosts
    <3> HIDE DEF t
    <3>6. Going(host', host, t)
      BY <1>2, <3>4, <3>5, GoingFacts
    <3>7. Continues(t)
      BY <3>6 DEF Going, SameLink, Continues
    <3> QED
      BY <1>5, <1>8, <2>2, <3>7 DEF Contributes, t, s
  <2> QED
    BY <2>1, <2>2
<1>9. CASE /\ a.kind = "next" /\ Now.m \in {"btc_sign_input", "nonce"} /\ ~Now.commit /\ Accepted(a)
           /\ AfterInput(a, Now.i)
  <2> DEFINE g == [sign EXCEPT !.pass2 = @ \/ EndsPass(Now.i),
                               !.sigs = IF sign.pass2 THEN Append(@, Kept(a)) ELSE @]
  <2>1. sign' = g /\ host' = Turn(g, a)
    BY <1>9 DEF AfterInput, Kept
  <2>2. /\ g.pass2 = (sign.pass2 \/ EndsPass(Now.i))
        /\ g.sigs = IF sign.pass2 THEN Append(sign.sigs, Kept(a)) ELSE sign.sigs
    BY <1>4
  <2> HIDE DEF g
  <2>3. g.pass2 \in BOOLEAN
    BY <1>6, <2>1
  <2>4. TurnMoves(a)
    BY <1>1, <1>5, <1>9, <2>1, <2>3, TurnIs
  <2> QED
    BY <1>5, <1>9, <2>1, <2>2, <2>4 DEF TakesInput
<1>10. CASE host' = Failed(host, "raw") /\ UNCHANGED sign
  BY <1>2, <1>10, FailedOver DEF Outcomes
<1>11. CASE /\ a.kind = "next" /\ Now.m \in {"btc_sign_init", "btc_sign_output", "prevtx"}
            /\ host' = Turn(sign, a) /\ UNCHANGED sign
  <2>1. sign.pass2 \in BOOLEAN /\ sign' = sign
    BY <1>4, <1>11
  <2>2. TurnMoves(a)
    BY <1>1, <1>5, <1>11, <2>1, TurnIs
  <2> QED
    BY <1>5, <1>11, <2>2 DEF TakesOther
<1>12. SignAnswer(a)
  BY DEF Signed
<1> HIDE DEF a
<1> QED
  BY <1>7, <1>8, <1>9, <1>10, <1>11, <1>12 DEF SignAnswer, WithNonceOf, a

----------------------------------------------------------------------------
(* Signatures with the host's nonce                                        *)

\* The query for an input says whether the host contributes to the nonce.
LEMMA NextQueryCommits ==
    ASSUME NEW g, g.pass2 \in BOOLEAN, NEW a, a.index \in Nat
    PROVE  /\ NextQuery(g, a).m # "nonce"
           /\ NextQuery(g, a).i = a.index
           /\ NextQuery(g, a).m = "btc_sign_input" <=> a.type = "INPUT"
           /\ NextQuery(g, a).m = "btc_sign_output" <=> a.type = "OUTPUT"
           /\ NextQuery(g, a).m = "prevtx" <=> a.type \notin {"INPUT", "OUTPUT"}
           /\ NextQuery(g, a).m = "btc_sign_input" => NextQuery(g, a).commit = perform_antiklepto(g, a.index)
<1>1. ASSUME NEW m, NEW c
      PROVE  LET s == [Step("sign", m) EXCEPT !.i = a.index, !.commit = c] IN s.m = m /\ s.i = a.index /\ s.commit = c
  BY DEF Step
<1>2. ASSUME NEW m
      PROVE  LET s == [Step("sign", m) EXCEPT !.i = a.index] IN s.m = m /\ s.i = a.index
  BY DEF Step
<1>3. CASE a.type = "INPUT"
  <2> DEFINE c == perform_antiklepto(g, a.index)
  <2>1. NextQuery(g, a) = [Step("sign", "btc_sign_input") EXCEPT !.i = a.index, !.commit = c]
    BY <1>3 DEF NextQuery
  <2> HIDE DEF c
  <2> QED
    BY <1>1, <1>3, <2>1 DEF c
<1>4. CASE a.type = "OUTPUT"
  <2>1. NextQuery(g, a) = [Step("sign", "btc_sign_output") EXCEPT !.i = a.index]
    BY <1>4 DEF NextQuery
  <2> QED
    BY <1>2, <1>4, <2>1
<1>5. CASE a.type # "INPUT" /\ a.type # "OUTPUT"
  <2>1. NextQuery(g, a) = [Step("sign", "prevtx") EXCEPT !.i = a.index]
    BY <1>5 DEF NextQuery
  <2> QED
    BY <1>2, <1>5, <2>1
<1> QED
  BY <1>3, <1>4, <1>5

\* The programs do not begin within the dialogue of btc_sign.
LEMMA OutsideDialog ==
    ASSUME NEW t, t \in Programs \/ (t \in Seq(Steps) /\ Connects(t)) \/ t = InfoAgain
    PROVE  t # <<>> => Head(t).m \notin Dialog
<1> SUFFICES ASSUME t # <<>> PROVE Head(t).m \notin Dialog
  OBVIOUS
<1>1. CASE t \in Programs
  <2>1. t \in Seq(Steps) /\ Len(t) \in Nat /\ Len(t) > 0 /\ Head(t) = t[1]
    BY <1>1, HeadTail DEF Programs
  <2>2. Plain(t[1])
    BY <1>1, <2>1 DEF Programs
  <2> QED
    BY <2>1, <2>2, GroupsDisjoint DEF Plain
<1>2. CASE t \in Seq(Steps) /\ Connects(t)
  BY <1>2, ConnectsHead, GroupsDisjoint
<1>3. CASE t = InfoAgain
  BY <1>3, InfoAgainRuns DEF Dialog
<1> QED
  BY <1>1, <1>2, <1>3

\* After every step but the answers of btc_sign the host stands where it
\* stood, with the same signatures, or outside the dialogue.
LEMMA DialogOnlySigned ==
    ASSUME Base, [Next]_vars, ~Signed
    PROVE  /\ \/ host'.todo = host.todo /\ UNCHANGED sign
              \/ host'.todo # <<>> => Head(host'.todo).m \notin Dialog
           /\ sign' \in {sign, NoSign}
<1>1. CASE Over
  BY <1>1, OutsideDialog DEF Over
<1>2. CASE Pairs
  <2>1. host'.todo \in Seq(Steps)
    BY NextBase, HostTypes DEF Base, Types
  <2> QED
    BY <1>2, <2>1, OutsideDialog DEF Pairs
<1>3. CASE Starts
  <2>1. host.cmd \in Commands
    <3>1. host.todo # <<>>
      BY <1>3 DEF Starts, Connects
    <3> QED
      BY <3>1, Idle DEF Base, HostShape
  <2>2. Program(host.cmd, dev.ver) \in Programs
    BY <2>1, ProgramPlain
  <2> QED
    BY <1>3, <2>2, OutsideDialog DEF Starts, Continues
<1>4. ASSUME Runs(host.todo), host.todo # <<>> PROVE Tail(host.todo) \in Programs /\ host.todo \in Seq(Steps)
  BY <1>4, RunsTail, HostTypes DEF Base, Types
<1>5. CASE Skips
  BY <1>4, <1>5, OutsideDialog DEF Skips, Continues
<1>6. CASE Waits
  BY <1>6 DEF Waits, Continues
<1>7. CASE Answered
  <2>1. host.todo # <<>> /\ Runs(host.todo) /\ Now = Head(host.todo) /\ host.todo \in Seq(Steps)
    <3>1. host.q = "poll" /\ Runs(host.todo)
      BY <1>7 DEF Answered, Receive, Proceeds
    <3> QED
      BY <3>1, Polling
  <2>2. Tail(host.todo) \in Programs
    BY <1>4, <2>1
  <2>3. CASE host'.todo = host.todo
    BY <1>7, <2>3 DEF Answered
  <2>4. CASE host'.todo = Toggled(job.ans.passphrase)
    <3>1. Toggled(job.ans.passphrase) \in Programs
      BY QueriesPlain, PlainProgram DEF Toggled
    <3> QED
      BY <1>7, <2>4, <3>1, OutsideDialog DEF Answered
  <2>5. CASE Now.op = "unless" /\ host'.todo = Tail(Tail(host.todo))
    <3>1. Tail(host.todo) # <<>>
      BY <2>1, <2>5, RunsHead
    <3>2. Tail(host.todo) \in Seq(Steps) /\ Runs(Tail(host.todo))
      BY <2>2, ProgramRuns
    <3>3. Tail(Tail(host.todo)) \in Programs
      BY <3>1, <3>2, RunsTail
    <3> QED
      BY <1>7, <2>5, <3>3, OutsideDialog DEF Answered
  <2>6. CASE host'.todo = Tail(host.todo)
    BY <1>7, <2>2, <2>6, OutsideDialog DEF Answered
  <2> QED
    BY <1>7, <2>3, <2>4, <2>5, <2>6 DEF Answered, Proceeds
<1>8. CASE Leaves
  BY <1>8 DEF Leaves, Break
<1>9. CASE Return
  <2>1. host'.todo = <<>> /\ UNCHANGED sign
    BY <1>9, EndedFacts DEF Return, Base, Types, Outcomes
  <2> QED
    BY <2>1
<1>10. ASSUME NEW c \in Commands, Begin(c)
       PROVE  (host'.todo # <<>> => Head(host'.todo).m \notin Dialog) /\ sign' = NoSign
  <2>1. host'.todo = (IF host.bb02 THEN Program(c, dev.ver) ELSE <<Step("raw", "info")>>) /\ sign' = NoSign
    BY <1>10 DEF Begin, Base, Types, Hosts
  <2>2. Program(c, dev.ver) \in Programs
    BY ProgramPlain
  <2>3. <<Step("raw", "info")>> \in Seq(Steps) /\ Connects(<<Step("raw", "info")>>)
    BY ConnectsSingle DEF PairingEnds
  <2> QED
    BY <2>1, <2>2, <2>3, OutsideDialog
<1> QED
  BY <1>1, <1>2, <1>3, <1>5, <1>6, <1>7, <1>8, <1>9, <1>10, StepCases

\* Every step keeps the anti-klepto protocol.
LEMMA NextKlepto == ASSUME Base, Klepto, [Next]_vars PROVE Klepto'
<1>1. dev'.ver = dev.ver /\ dev.ver \in Nat
  BY SameVersion DEF Base, Types, Devices
<1>2. ASSUME host'.todo # <<>> => Head(host'.todo).m \notin {"btc_sign_input", "nonce"}, SignaturesVerified'
      PROVE  Klepto'
  BY <1>2 DEF Klepto, Now
<1>3. CASE ~Signed
  <2>1. SignaturesVerified'
    <3>1. sign' \in {sign, NoSign} /\ Len(NoSign.sigs) = 0
      BY <1>3, DialogOnlySigned DEF NoSign
    <3>2. CASE sign' = sign
      BY <1>1, <3>2 DEF Klepto, SignaturesVerified
    <3>3. CASE sign' = NoSign
      BY <3>1, <3>3 DEF SignaturesVerified
    <3> QED
      BY <3>1, <3>2, <3>3
  <2>2. CASE host'.todo = host.todo /\ UNCHANGED sign
    BY <1>1, <2>1, <2>2 DEF Klepto, Now, perform_antiklepto, SupportsAntiklepto
  <2>3. CASE host'.todo # <<>> => Head(host'.todo).m \notin Dialog
    BY <1>2, <2>1, <2>3 DEF Dialog
  <2> QED
    BY <1>3, <2>2, <2>3, DialogOnlySigned
<1>4. CASE Signed
  <2> DEFINE a == job.ans
  <2>1. /\ host.q = "poll" /\ Now.op = "sign" /\ host.todo # <<>> /\ host.todo \in Seq(Steps) /\ Now = Head(host.todo)
        /\ Now \in Steps
    BY <1>4, Polling DEF Signed, Receive
  <2>2. Tail(host.todo) \in Programs
    BY <2>1, ConnectsOr, RunsTail
  <2>3. sign' \in [pass2 : BOOLEAN, sigs : Seq(Signatures)] /\ sign \in [pass2 : BOOLEAN, sigs : Seq(Signatures)]
    BY NextBase DEF Base, Types
  <2>4. CASE Over
    <3>1. SignaturesVerified'
      BY <1>1, <2>4 DEF Over, Klepto, SignaturesVerified
    <3>2. host'.todo # <<>> => Head(host'.todo).m \notin Dialog
      BY <2>4, OutsideDialog DEF Over
    <3> QED
      BY <1>2, <3>1, <3>2 DEF Dialog
  <2>5. ASSUME a \in NextAnswers, TurnMoves(a), SignaturesVerified'
        PROVE  Klepto'
    <3>1. a.index \in Nat /\ sign'.pass2 \in BOOLEAN
      BY <2>3, <2>5 DEF NextAnswers
    <3>2. CASE host'.todo \in {<<>>, InfoAgain}
      BY <1>2, <2>5, <3>2, OutsideDialog DEF Dialog
    <3>3. CASE host'.todo = Tail(host.todo)
      BY <1>2, <2>2, <2>5, <3>3, OutsideDialog DEF Dialog
    <3>4. CASE host'.todo = <<NextQuery(sign', a)>> \o Tail(host.todo)
      <4> DEFINE s == NextQuery(sign', a)
      <4>1. s \in Steps /\ s.op = "sign" /\ s.m \in Dialog
        BY <3>1, NextQueryType
      <4>2. /\ s.m # "nonce" /\ s.i = a.index
            /\ s.m = "btc_sign_input" => s.commit = perform_antiklepto(sign', a.index)
        BY <3>1, NextQueryCommits
      <4> HIDE DEF s
      <4>3. Head(host'.todo) = s
        BY <2>2, <3>4, <4>1, RunsCons DEF s
      <4> QED
        BY <1>1, <2>5, <4>2, <4>3 DEF Klepto, Now, perform_antiklepto, SupportsAntiklepto
    <3> QED
      BY <2>5, <3>2, <3>3, <3>4 DEF TurnMoves, Continues
  <2>6. CASE a \in NextAnswers /\ Contributes(a)
    <3> DEFINE s == WithNonceOf(Now.i)
    <3>1. s \in Steps /\ s.op = "sign" /\ s.m = "nonce" /\ s.nonce /\ ~s.commit
      BY <2>1, NonceStep DEF Steps, WithNonceOf
    <3> HIDE DEF s
    <3>2. Head(host'.todo) = s
      BY <2>2, <2>6, <3>1, RunsCons DEF s, Contributes, Continues, Dialog
    <3>3. SignaturesVerified'
      BY <1>1, <2>6 DEF Contributes, Klepto, SignaturesVerified
    <3> QED
      BY <3>1, <3>2, <3>3 DEF Klepto, Now
  <2>7. CASE a \in NextAnswers /\ TakesOther(a)
    BY <1>1, <2>5, <2>7 DEF TakesOther, Klepto, SignaturesVerified
  <2>8. CASE a \in NextAnswers /\ TakesInput(a)
    <3>1. SignaturesVerified'
      <4>1. CASE ~sign.pass2
        BY <1>1, <2>8, <4>1 DEF TakesInput, Klepto, SignaturesVerified
      <4>2. CASE sign.pass2
        <5> DEFINE e == Kept(a)
        <5>1. sign'.sigs = Append(sign.sigs, e) /\ sign.sigs \in Seq(Signatures)
          BY <2>3, <2>8, <4>2 DEF TakesInput
        <5>2. dev.ver >= V(9, 4) /\ ~Inputs[e.index].schnorr => e.honest
          <6>1. e.index = Now.i /\ e.honest = a.honest
            BY DEF Kept
          <6>2. CASE Now.m = "nonce"
            BY <2>1, <2>8, <4>2, <6>1, <6>2 DEF TakesInput, Accepted, antiklepto_verify, Klepto
          <6>3. CASE Now.m = "btc_sign_input"
            BY <2>1, <2>8, <4>2, <6>1, <6>3 DEF TakesInput, Klepto, perform_antiklepto, SupportsAntiklepto
          <6> QED
            BY <2>8, <6>2, <6>3 DEF TakesInput
        <5> HIDE DEF e
        <5>3. /\ Len(sign'.sigs) = Len(sign.sigs) + 1 /\ Len(sign.sigs) \in Nat
              /\ \A k \in 1..Len(sign.sigs) : sign'.sigs[k] = sign.sigs[k]
              /\ sign'.sigs[Len(sign.sigs) + 1] = e
          BY <5>1
        <5>4. SUFFICES ASSUME NEW k \in 1..Len(sign'.sigs), dev.ver >= V(9, 4), ~Inputs[sign'.sigs[k].index].schnorr
                       PROVE  sign'.sigs[k].honest
          BY <1>1 DEF SignaturesVerified
        <5>5. CASE k = Len(sign.sigs) + 1
          BY <5>2, <5>3, <5>4, <5>5
        <5>6. CASE k # Len(sign.sigs) + 1
          <6>1. k \in 1..Len(sign.sigs)
            BY <5>3, <5>6
          <6>2. sign'.sigs[k] = sign.sigs[k]
            BY <5>3, <6>1
          <6> QED
            BY <5>4, <6>1, <6>2 DEF Klepto, SignaturesVerified
        <5> QED
          BY <5>5, <5>6
      <4> QED
        BY <4>1, <4>2
    <3> QED
      BY <2>5, <2>8, <3>1 DEF TakesInput
  <2> QED
    BY <1>4, <2>4, <2>6, <2>7, <2>8, SignMoves
<1> QED
  BY <1>3, <1>4

\* With firmware that has the anti-klepto protocol no ECDSA signature is kept
\* that the host's nonce is not part of: for any transaction, and whatever the
\* device answers (btc_sign).
THEOREM SignaturesAreVerified == Spec => []SignaturesVerified
<1>1. Init => Klepto
  BY DEF Init, Klepto, NoHost, NoSign, SignaturesVerified
<1>2. Base /\ Klepto /\ [Next]_vars => Klepto'
  BY NextKlepto
<1>3. Klepto => SignaturesVerified
  BY DEF Klepto
<1> QED
  BY <1>1, <1>2, <1>3, AlwaysBase, PTL DEF Spec

----------------------------------------------------------------------------
(* The dialogue of btc_sign                                                *)

\* Where the passes of the device's script begin and end.
LEMMA ScriptBounds ==
    /\ n \in Nat /\ n > 0 /\ Outputs \in Nat
    /\ BeforeSecond = FirstPass + Outputs /\ BeforeSecond \in Nat
    /\ FirstPass \in Nat /\ FirstEnd \in Nat /\ 0 < FirstEnd /\ FirstEnd <= FirstPass
    /\ Len(Script) = BeforeSecond + n + 1 /\ Len(Script) \in Nat
<1>1. n \in Nat /\ n > 0 /\ Outputs \in Nat /\ FirstPass \in Nat
  BY SizesType
<1>2. Len(Script) = FirstPass + Outputs + n + 1
  BY ScriptShape
<1>3. needsPrev \in BOOLEAN
  BY DEF needsPrev
<1>4. FirstEnd \in Nat /\ 0 < FirstEnd /\ FirstEnd <= FirstPass
  BY <1>1, <1>3 DEF FirstEnd, FirstPass
<1>5. BeforeSecond = Len(Script) - 1 - n
  BY DEF BeforeSecond
<1> QED
  BY <1>1, <1>2, <1>4, <1>5

\* What the entries of the script are.
LEMMA ScriptEntries ==
    ASSUME NEW k \in 1..Len(Script)
    PROVE  /\ Script[k].type = "INPUT" => k <= FirstEnd \/ k > BeforeSecond
           /\ Script[k].type = "INPUT" /\ k <= FirstEnd => (Script[k].index = n <=> k = FirstEnd)
           /\ k = FirstEnd => Script[k].type = "INPUT"
           /\ k > BeforeSecond /\ k < Len(Script) => Script[k].type = "INPUT" /\ Script[k].index = k - BeforeSecond
           /\ Script[k].type = "DONE" <=> k = Len(Script)
           /\ k = 1 => Script[k].type = "INPUT"
<1>1. /\ n \in Nat /\ n > 0 /\ Outputs \in Nat /\ FirstPass \in Nat
      /\ BeforeSecond = FirstPass + Outputs /\ Len(Script) = FirstPass + Outputs + n + 1
      /\ FirstEnd \in Nat /\ 0 < FirstEnd /\ FirstEnd <= FirstPass
  BY ScriptBounds
<1>2. ASSUME NEW type, NEW i PROVE Asked(type, i).type = type /\ Asked(type, i).index = i
  BY DEF Asked
<1>3. CASE k \in 1..FirstPass /\ needsPrev
  <2>1. FirstPass = 2 * n /\ FirstEnd = 2 * n - 1
    BY <1>3 DEF FirstPass, FirstEnd
  <2>2. Script[k] = Asked(IF k % 2 = 1 THEN "INPUT" ELSE "PREVTX", (k + 1) \div 2)
    BY <1>3, ScriptShape
  <2>3. Script[k].type = (IF k % 2 = 1 THEN "INPUT" ELSE "PREVTX") /\ Script[k].index = (k + 1) \div 2
    BY <1>2, <2>2
  <2>4. k \in Nat /\ k >= 1 /\ k <= 2 * n
    BY <1>1, <1>3, <2>1
  <2>5. k % 2 = 1 => k <= 2 * n - 1 /\ ((k + 1) \div 2 = n <=> k = 2 * n - 1)
    BY <1>1, <2>4
  <2>6. k = 2 * n - 1 => k % 2 = 1
    BY <1>1, <2>4
  <2>7. k = 1 => k % 2 = 1
    OBVIOUS
  <2>8. k <= BeforeSecond /\ k < Len(Script)
    BY <1>1, <1>3
  <2> QED
    BY <1>1, <2>1, <2>3, <2>4, <2>5, <2>6, <2>7, <2>8
<1>4. CASE k \in 1..FirstPass /\ ~needsPrev
  <2>1. FirstPass = n /\ FirstEnd = n
    BY <1>4 DEF FirstPass, FirstEnd
  <2>2. Script[k] = Asked("INPUT", k)
    BY <1>4, ScriptShape
  <2>3. Script[k].type = "INPUT" /\ Script[k].index = k
    BY <1>2, <2>2
  <2> QED
    BY <1>1, <1>4, <2>1, <2>3
<1>5. CASE k - FirstPass \in 1..Outputs /\ k = FirstPass + (k - FirstPass)
  <2> DEFINE j == k - FirstPass
  <2>1. Script[FirstPass + j] = Asked("OUTPUT", j)
    BY <1>5, ScriptShape
  <2>2. Script[k].type = "OUTPUT"
    BY <1>2, <1>5, <2>1
  <2> HIDE DEF j
  <2>3. k > FirstEnd /\ k <= BeforeSecond /\ k < Len(Script)
    BY <1>1, <1>5
  <2> QED
    BY <1>1, <2>2, <2>3
<1>6. CASE k - FirstPass - Outputs \in 1..n /\ k = FirstPass + Outputs + (k - FirstPass - Outputs)
  <2> DEFINE j == k - FirstPass - Outputs
  <2>1. Script[FirstPass + Outputs + j] = Asked("INPUT", j)
    BY <1>6, ScriptShape
  <2>2. Script[k].type = "INPUT" /\ Script[k].index = j
    BY <1>2, <1>6, <2>1
  <2>3. j = k - BeforeSecond /\ k > BeforeSecond /\ k < Len(Script) /\ k > FirstEnd
    BY <1>1, <1>6
  <2>4. Script[k].index = k - BeforeSecond
    BY <2>2, <2>3
  <2> HIDE DEF j
  <2>5. k \in Nat /\ ~(k <= FirstEnd) /\ k # FirstEnd /\ k # Len(Script)
    BY <1>1, <2>3
  <2> QED
    BY <2>2, <2>3, <2>4, <2>5
<1>7. CASE k = FirstPass + Outputs + n + 1
  <2>1. Script[k].type = "DONE"
    BY <1>2, <1>7, ScriptShape
  <2> QED
    BY <1>1, <1>7, <2>1
<1> QED
  BY <1>3, <1>4, <1>5, <1>6, <1>7, ScriptParts

\* What is left of sign_tx after a step.
LEMMA SignsTail ==
    ASSUME NEW t \in Seq(Steps), t # <<>>, SignsLast(t)
    PROVE  /\ Head(t).on = {} /\ Head(t).op # "toggle"
           /\ Head(t).op = "sign" => Tail(t) = <<>>
           /\ Head(t).op # "sign" => Tail(t) # <<>> /\ SignsLast(Tail(t))
           /\ Head(t).op = "unless" => Tail(Tail(t)) # <<>> /\ SignsLast(Tail(Tail(t)))
<1>1. ASSUME NEW u \in Seq(Steps), u # <<>>, SignsLast(u)
      PROVE  /\ Tail(u) \in Seq(Steps) /\ SignsLast(Tail(u)) /\ Len(Tail(u)) = Len(u) - 1 /\ Len(u) \in Nat /\ Len(u) > 0
             /\ Head(u) = u[1]
  <2>1. /\ Head(u) = u[1] /\ Tail(u) \in Seq(Steps)
        /\ Len(u) \in Nat /\ Len(u) > 0 /\ Len(Tail(u)) = Len(u) - 1
        /\ \A j \in 1..(Len(u) - 1) : Tail(u)[j] = u[j + 1]
    BY <1>1, HeadTail
  <2> DEFINE v == Tail(u)
  <2>2. Len(v) = Len(u) - 1 /\ \A j \in 1..(Len(u) - 1) : v[j] = u[j + 1]
    BY <2>1
  <2> HIDE DEF v
  <2>3. ASSUME NEW j \in 1..Len(v)
        PROVE  /\ v[j].op = "sign" <=> j = Len(v)
               /\ v[j].op # "toggle" /\ v[j].on = {}
               /\ v[j].op = "unless" => j + 2 <= Len(v)
    <3>1. v[j] = u[j + 1] /\ j + 1 \in 1..Len(u)
      BY <2>1, <2>2
    <3> DEFINE i == j + 1
    <3>2. i \in 1..Len(u) /\ v[j] = u[i]
      BY <3>1
    <3> HIDE DEF i
    <3>3. /\ u[i].op = "sign" <=> i = Len(u)
          /\ u[i].op # "toggle" /\ u[i].on = {}
          /\ u[i].op = "unless" => i + 2 <= Len(u)
      BY <1>1, <3>2 DEF SignsLast
    <3>4. (i = Len(u) <=> j = Len(v)) /\ (i + 2 <= Len(u) <=> j + 2 <= Len(v))
      BY <2>1, <2>2 DEF i
    <3> QED
      BY <3>2, <3>3, <3>4
  <2>4. SignsLast(v)
    BY <2>3 DEF SignsLast
  <2> QED
    BY <2>1, <2>4 DEF v
<1>2. /\ Tail(t) \in Seq(Steps) /\ SignsLast(Tail(t)) /\ Len(Tail(t)) = Len(t) - 1 /\ Len(t) \in Nat /\ Len(t) > 0
      /\ Head(t) = t[1]
  BY <1>1
<1>3. /\ t[1].op = "sign" <=> 1 = Len(t)
      /\ t[1].op # "toggle" /\ t[1].on = {}
      /\ t[1].op = "unless" => 1 + 2 <= Len(t)
  <2>1. 1 \in 1..Len(t)
    BY <1>2
  <2> QED
    BY <2>1 DEF SignsLast
<1>4. Head(t).op = "sign" => Tail(t) = <<>>
  BY <1>2, <1>3
<1>5. Head(t).op # "sign" => Len(Tail(t)) > 0
  BY <1>2, <1>3
<1>6. Head(t).op # "sign" => Tail(t) # <<>>
  BY <1>2, <1>5, LongSeq
<1>7. ASSUME Head(t).op = "unless"
      PROVE  Tail(Tail(t)) # <<>> /\ SignsLast(Tail(Tail(t)))
  <2>1. Tail(t) # <<>>
    BY <1>6, <1>7
  <2>2. SignsLast(Tail(Tail(t))) /\ Len(Tail(Tail(t))) = Len(Tail(t)) - 1 /\ Tail(Tail(t)) \in Seq(Steps)
    BY <1>1, <1>2, <2>1
  <2>3. Len(Tail(Tail(t))) > 0
    BY <1>2, <1>3, <1>7, <2>2
  <2> QED
    BY <2>2, <2>3, LongSeq
<1> QED
  BY <1>2, <1>3, <1>4, <1>6, <1>7

\* The loop begins with the first input.
LEMMA AtStart == At(1, NoSign) /\ Script[1].type = "INPUT"
<1>1. NoSign.pass2 = FALSE /\ NoSign.sigs = <<>> /\ Len(<<>>) = 0
  BY DEF NoSign
<1>2. /\ n \in Nat /\ n > 0 /\ BeforeSecond \in Nat /\ FirstEnd \in Nat /\ 0 < FirstEnd
      /\ BeforeSecond >= FirstEnd /\ Len(Script) = BeforeSecond + n + 1
  BY ScriptBounds
<1>3. 1 \in 1..Len(Script) /\ 1 \in 1..(Len(Script) - 1) /\ ~(1 > FirstEnd) /\ ~(1 > BeforeSecond)
  BY <1>2
<1>4. InOrder(<<>>)
  BY DEF InOrder
<1>5. Script[1].type = "INPUT"
  BY <1>3, ScriptEntries
<1> QED
  BY <1>1, <1>3, <1>4, <1>5 DEF At

\* The entry after one without a signature.
LEMMA AtNext ==
    ASSUME NEW m, NEW g, m \in 1..(Len(Script) - 1), g.pass2 <=> m > FirstEnd, InOrder(g.sigs),
           m > BeforeSecond => Len(g.sigs) = m - BeforeSecond - 1,
           ~(m > BeforeSecond) => Len(g.sigs) = 0
    PROVE  At(m, g)
BY DEF At

\* After an input the next entry is due, or everything is signed.
LEMMA AtInput ==
    ASSUME NEW k, NEW g \in [pass2 : BOOLEAN, sigs : Seq(Signatures)], At(k, g), Script[k].type = "INPUT",
           NEW e \in Signatures, e.index = Script[k].index, SecondPass(k) => e.of = Script[k].index,
           NEW f, f.pass2 = (g.pass2 \/ EndsPass(Script[k].index)),
           f.sigs = IF g.pass2 THEN Append(g.sigs, e) ELSE g.sigs
    PROVE  /\ k + 1 \in 1..(Len(Script) - 1) => At(k + 1, f)
           /\ k + 1 = Len(Script) => Len(f.sigs) = n /\ InOrder(f.sigs)
<1>1. /\ n \in Nat /\ n > 0 /\ BeforeSecond \in Nat /\ FirstEnd \in Nat /\ 0 < FirstEnd
      /\ BeforeSecond >= FirstEnd /\ Len(Script) = BeforeSecond + n + 1
  BY ScriptBounds
<1>2. /\ k \in 1..(Len(Script) - 1)
      /\ g.pass2 <=> k > FirstEnd
      /\ Len(g.sigs) = IF k > BeforeSecond THEN k - BeforeSecond - 1 ELSE 0
      /\ InOrder(g.sigs)
  BY DEF At
<1>3. k \in Nat /\ k >= 1 /\ k < Len(Script) /\ k \in 1..Len(Script)
  BY <1>1, <1>2
<1>4. /\ k <= FirstEnd \/ k > BeforeSecond
      /\ k <= FirstEnd => (Script[k].index = n <=> k = FirstEnd)
      /\ k > BeforeSecond => Script[k].index = k - BeforeSecond
  BY <1>3, ScriptEntries
<1>5. SecondPass(k) <=> k > BeforeSecond
  BY DEF SecondPass, BeforeSecond
<1>6. CASE k <= FirstEnd
  <2>1. ~g.pass2 /\ f.sigs = g.sigs /\ ~(k > BeforeSecond)
    BY <1>1, <1>2, <1>3, <1>6
  <2>2. f.pass2 <=> k + 1 > FirstEnd
    <3>1. EndsPass(Script[k].index) <=> k = FirstEnd
      BY <1>4, <1>6 DEF EndsPass
    <3>2. k + 1 > FirstEnd <=> k = FirstEnd
      BY <1>1, <1>3, <1>6
    <3>3. g.pass2 = FALSE /\ EndsPass(Script[k].index) \in BOOLEAN
      BY <2>1 DEF EndsPass
    <3>4. f.pass2 = EndsPass(Script[k].index)
      BY <3>3
    <3> QED
      BY <3>1, <3>2, <3>4
  <2>3. Len(f.sigs) = 0 /\ InOrder(f.sigs)
    BY <1>2, <2>1
  <2>4. k + 1 > BeforeSecond => k + 1 - BeforeSecond - 1 = 0
    BY <1>1, <1>3, <1>6
  <2>5. k + 1 # Len(Script)
    BY <1>1, <1>3, <1>6
  <2> DEFINE m == k + 1
  <2>6. /\ f.pass2 <=> m > FirstEnd
        /\ m > BeforeSecond => Len(f.sigs) = m - BeforeSecond - 1
        /\ ~(m > BeforeSecond) => Len(f.sigs) = 0
    BY <1>1, <1>3, <2>2, <2>3, <2>4
  <2> HIDE DEF m
  <2>7. m \in 1..(Len(Script) - 1) => At(m, f)
    BY <2>3, <2>6, AtNext
  <2> QED
    BY <2>5, <2>7 DEF m
<1>7. CASE k > BeforeSecond
  <2>1. g.pass2 /\ f.sigs = Append(g.sigs, e) /\ f.pass2 /\ k + 1 > FirstEnd /\ k + 1 > BeforeSecond
    BY <1>1, <1>2, <1>3, <1>7
  <2>2. g.sigs \in Seq(Signatures) /\ Len(g.sigs) = k - BeforeSecond - 1 /\ Len(g.sigs) \in Nat
    BY <1>2, <1>7
  <2>3. /\ Len(f.sigs) = Len(g.sigs) + 1
        /\ \A j \in 1..Len(g.sigs) : f.sigs[j] = g.sigs[j]
        /\ f.sigs[Len(g.sigs) + 1] = e
    BY <2>1, <2>2
  <2>4. e.index = Len(g.sigs) + 1 /\ e.of = Len(g.sigs) + 1
    BY <1>1, <1>3, <1>4, <1>5, <1>7, <2>2
  <2>5. InOrder(f.sigs)
    <3>1. ASSUME NEW j \in 1..Len(f.sigs) PROVE f.sigs[j].index = j /\ f.sigs[j].of = j
      <4>1. j \in 1..Len(g.sigs) \/ j = Len(g.sigs) + 1
        BY <2>2, <2>3
      <4>2. CASE j \in 1..Len(g.sigs)
        BY <1>2, <2>3, <4>2 DEF InOrder
      <4>3. CASE j = Len(g.sigs) + 1
        BY <2>3, <2>4, <4>3
      <4> QED
        BY <4>1, <4>2, <4>3
    <3> QED
      BY <3>1 DEF InOrder
  <2>6. Len(f.sigs) = k + 1 - BeforeSecond - 1
    BY <1>1, <1>3, <2>2, <2>3
  <2>7. k + 1 = Len(Script) => Len(f.sigs) = n
    BY <1>1, <1>3, <2>6
  <2> DEFINE m == k + 1
  <2>8. /\ f.pass2 <=> m > FirstEnd
        /\ m > BeforeSecond /\ Len(f.sigs) = m - BeforeSecond - 1
    BY <1>1, <1>3, <2>1, <2>6
  <2> HIDE DEF m
  <2>9. m \in 1..(Len(Script) - 1) => At(m, f)
    BY <2>5, <2>8, AtNext
  <2> QED
    BY <2>5, <2>7, <2>9 DEF m
<1> QED
  BY <1>4, <1>6, <1>7

\* After anything else the loop's state is the same.
LEMMA AtOther ==
    ASSUME NEW k, NEW g, At(k, g), Script[k].type # "INPUT"
    PROVE  k + 1 \in 1..(Len(Script) - 1) /\ At(k + 1, g)
<1>1. /\ n \in Nat /\ n > 0 /\ BeforeSecond \in Nat /\ FirstEnd \in Nat
      /\ BeforeSecond >= FirstEnd /\ Len(Script) = BeforeSecond + n + 1
  BY ScriptBounds
<1>2. /\ k \in 1..(Len(Script) - 1)
      /\ g.pass2 <=> k > FirstEnd
      /\ Len(g.sigs) = IF k > BeforeSecond THEN k - BeforeSecond - 1 ELSE 0
      /\ InOrder(g.sigs)
  BY DEF At
<1>3. k \in Nat /\ k >= 1 /\ k < Len(Script) /\ k \in 1..Len(Script)
  BY <1>1, <1>2
<1>4. k # FirstEnd /\ ~(k > BeforeSecond)
  BY <1>3, ScriptEntries
<1>5. k + 1 \in 1..(Len(Script) - 1)
  BY <1>1, <1>3, <1>4
<1>6. g.pass2 <=> k + 1 > FirstEnd
  BY <1>1, <1>2, <1>3, <1>4
<1>7. Len(g.sigs) = 0 /\ (k + 1 > BeforeSecond => k + 1 - BeforeSecond - 1 = 0)
  BY <1>1, <1>2, <1>3, <1>4
<1> DEFINE m == k + 1
<1>8. /\ m \in 1..(Len(Script) - 1)
      /\ g.pass2 <=> m > FirstEnd
      /\ m > BeforeSecond => Len(g.sigs) = m - BeforeSecond - 1
      /\ ~(m > BeforeSecond) => Len(g.sigs) = 0
  BY <1>1, <1>3, <1>5, <1>6, <1>7
<1> HIDE DEF m
<1>9. At(m, g)
  BY <1>2, <1>8, AtNext
<1> QED
  BY <1>8, <1>9 DEF m

\* Nothing is to be in step outside the dialogue.
LEMMA SyncedOutside ==
    ASSUME host'.cmd \notin SignCommands
           \/ (host'.q # "poll" /\ (host'.todo # <<>> => Head(host'.todo).m \notin Dialog))
    PROVE  Synced'
BY DEF Synced, Now

\* While the host signs it has a channel, and a step of btc_sign is due.
LEMMA SigningState ==
    ASSUME Base, host.todo # <<>>, Now.op = "sign"
    PROVE  /\ host.chan # 0 /\ Runs(host.todo) /\ Now \in Steps
           /\ Now.m \in Dialog \cup {"btc_sign_init"}
           /\ host.todo \in Seq(Steps) /\ Now = Head(host.todo)
<1>1. Runs(host.todo) /\ Now \in Steps /\ Now = Head(host.todo) /\ host.todo \in Seq(Steps)
  BY ConnectsOr, NowType
<1>2. ~Connects(host.todo) /\ (Plain(Now) \/ (Now.op = "sign" /\ Now.m \in Dialog))
  BY <1>1, RunsHead
<1>3. host.bb02
  <2>1. Head(InfoAgain).op = "raw"
    BY DEF InfoAgain, Step
  <2>2. host.todo # InfoAgain
    BY <1>1, <2>1
  <2> QED
    BY <1>2, <2>2, HostFlags DEF Base, HostShape, Types
<1> QED
  BY <1>1, <1>2, <1>3 DEF Base, HostShape, Plain

\* The device's next question.
LEMMA DeviceSignsMoves ==
    ASSUME Base, NEW d \in Devices, d.k = dev.k, NEW s \in Steps, NEW g, DeviceSigns(d, s),
           s.m \in Dialog => At(dev.k, g) /\ Answering(s, dev.k)
    PROVE  Moves(s, g, dev'.k, job'.ans)
<1>1. d.k \in Nat /\ Len(Script) \in Nat /\ Len(Script) > 2
  BY ScriptType DEF Devices
<1>2. ASSUME NEW x \in Nat PROVE [d EXCEPT !.k = x].k = x
  BY DEF Devices
<1>3. ASSUME NEW k, NEW sig, NEW of, NEW honest
      PROVE  LET a == NextAsk(k, sig, of, honest) IN a.type = Script[k].type /\ a.index = Script[k].index /\ a.of = of
  BY DEF NextAsk
<1>4. Signing(d) => d.k + 1 \in 1..Len(Script) /\ d.k + 1 \in Nat /\ (d.k + 1) - 1 = d.k
  BY <1>1 DEF Signing
<1>5. ASSUME NEW a, NEW e, Does(a, e)
      PROVE  job'.ans = a /\ dev' = e
  BY <1>5, DoesFacts
<1>6. CASE s.m = "btc_sign_init" /\ Does(NextAsk(1, FALSE, 0, FALSE), [d EXCEPT !.k = 1])
  <2>0. dev' = [d EXCEPT !.k = 1] /\ job'.ans = NextAsk(1, FALSE, 0, FALSE)
    BY <1>5, <1>6
  <2>a. 1 \in Nat /\ [d EXCEPT !.k = 1].k = 1
    BY DEF Devices
  <2>1. dev'.k = 1
    BY <2>0, <2>a
  <2>2. job'.ans.type = Script[1].type /\ job'.ans.index = Script[1].index
    <3>1. LET a == NextAsk(1, FALSE, 0, FALSE) IN a.type = Script[1].type /\ a.index = Script[1].index
      BY DEF NextAsk
    <3> QED
      BY <2>0, <3>1
  <2> QED
    BY <1>6, <2>1, <2>2 DEF Moves
<1>7. ASSUME NEW sig, NEW of, NEW honest, s.m \in Dialog, Signing(d),
             Does(NextAsk(d.k + 1, sig, of, honest), [d EXCEPT !.k = @ + 1]),
             s.m = "btc_sign_input" => ~(s.commit /\ SecondPass(d.k)),
             s.m \in {"btc_sign_input", "nonce"} /\ SecondPass(d.k) => of = s.i
      PROVE  Moves(s, g, dev'.k, job'.ans)
  <2> DEFINE k == d.k + 1
  <2>1. k \in 1..Len(Script) /\ k \in Nat /\ k - 1 = d.k
    BY <1>4, <1>7
  <2>2. job'.ans = NextAsk(k, sig, of, honest) /\ dev' = [d EXCEPT !.k = k]
    BY <1>5, <1>7
  <2> HIDE DEF k
  <2>3. dev'.k = k
    BY <1>2, <2>1, <2>2
  <2>4. job'.ans.type = Script[k].type /\ job'.ans.index = Script[k].index /\ job'.ans.of = of
    BY <1>3, <2>2
  <2>5. At(k - 1, g) /\ Answering(s, k - 1) /\ s.m # "btc_sign_init"
    BY <1>7, <2>1 DEF Dialog
  <2> QED
    BY <1>7, <2>1, <2>3, <2>4, <2>5 DEF Moves
<1>8. CASE /\ s.m \in {"btc_sign_output", "prevtx", "btc_sign_input"} /\ Signing(d)
           /\ ~(SecondPass(d.k) /\ s.m = "btc_sign_input")
           /\ Does(NextAsk(d.k + 1, FALSE, 0, FALSE), [d EXCEPT !.k = @ + 1])
  <2>1. s.m \in Dialog
    BY <1>8 DEF Dialog
  <2>2. (s.m = "btc_sign_input" => ~(s.commit /\ SecondPass(d.k)))
        /\ (s.m \in {"btc_sign_input", "nonce"} /\ SecondPass(d.k) => 0 = s.i)
    BY <1>8 DEF Answering
  <2> QED
    BY <1>7, <1>8, <2>1, <2>2
<1>9. CASE /\ s.m = "btc_sign_input" /\ Signing(d) /\ SecondPass(d.k) /\ s.commit
           /\ Does([NextAsk(d.k, FALSE, 0, FALSE) EXCEPT !.type = "HOST_NONCE"], d)
  <2>1. job'.ans = [NextAsk(d.k, FALSE, 0, FALSE) EXCEPT !.type = "HOST_NONCE"] /\ dev' = d
    BY <1>5, <1>9
  <2>2. job'.ans.type = "HOST_NONCE"
    BY <2>1 DEF NextAsk
  <2>3. dev'.k = d.k
    BY <2>1
  <2> QED
    BY <1>9, <2>2, <2>3 DEF Moves, Dialog
<1>10. CASE /\ s.m = "btc_sign_input" /\ Signing(d) /\ SecondPass(d.k) /\ ~s.commit
            /\ \E sig \in BOOLEAN : Does(NextAsk(d.k + 1, sig, s.i, FALSE), [d EXCEPT !.k = @ + 1])
  <2>1. s.m \in Dialog
    BY <1>10 DEF Dialog
  <2>2. (s.m = "btc_sign_input" => ~(s.commit /\ SecondPass(d.k)))
        /\ (s.m \in {"btc_sign_input", "nonce"} /\ SecondPass(d.k) => s.i = s.i)
    BY <1>10
  <2>3. PICK sig \in BOOLEAN : Does(NextAsk(d.k + 1, sig, s.i, FALSE), [d EXCEPT !.k = @ + 1])
    BY <1>10
  <2> QED
    BY <1>7, <1>10, <2>1, <2>2, <2>3
<1>11. CASE /\ s.m = "nonce" /\ Signing(d)
            /\ \E honest \in BOOLEAN : Does(NextAsk(d.k + 1, TRUE, s.i, honest), [d EXCEPT !.k = @ + 1])
  <2>1. s.m \in Dialog
    BY <1>11 DEF Dialog
  <2>2. (s.m = "btc_sign_input" => ~(s.commit /\ SecondPass(d.k)))
        /\ (s.m \in {"btc_sign_input", "nonce"} /\ SecondPass(d.k) => s.i = s.i)
    BY <1>11
  <2>3. PICK honest \in BOOLEAN : Does(NextAsk(d.k + 1, TRUE, s.i, honest), [d EXCEPT !.k = @ + 1])
    BY <1>11
  <2> QED
    BY <1>7, <1>11, <2>1, <2>2, <2>3
<1> QED
  BY <1>6, <1>8, <1>9, <1>10, <1>11 DEF DeviceSigns

\* Where the raw requests leave the device's channel.
LEMMA DeviceRawChannel ==
    ASSUME Base, NEW m, DeviceRaw(m)
    PROVE  dev'.chan \in {0, dev.chan, job.id}
BY DEF DeviceRaw, Does, Devices, Base, Types

\* The device's work brings the answer that is due.
LEMMA DeviceWorksSynced ==
    ASSUME Base, Synced, DeviceWorks
    PROVE  Synced'
<1> SUFFICES ASSUME host.cmd \in SignCommands, host.todo # <<>>, Now.op = "sign", ~host.lost
             PROVE  /\ /\ Now.m \in Dialog /\ host.chan = dev'.chan
                       /\ host.q # "poll" \/ job'.st = "working"
                       => At(dev'.k, sign) /\ Answering(Now, dev'.k)
                    /\ host.q = "poll" /\ job'.st = "done" /\ job'.ans.kind = "next"
                       => host.chan = dev'.chan /\ Moves(Now, sign, dev'.k, job'.ans)
  BY DEF Synced, Now, DeviceWorks
<1>1. /\ host.chan # 0 /\ Now \in Steps /\ Now.m \in Dialog \cup {"btc_sign_init"} /\ host \in Hosts
      /\ dev \in Devices /\ job.step \in Steps
  BY SigningState DEF Base, Types
<1>2. dev.works /\ job.st = "working" /\ host' = host /\ sign' = sign
  BY DEF DeviceWorks
<1>3. host.chan < job.id /\ host.chan \in Nat /\ job.id \in Nat
  BY <1>1, <1>2 DEF Base, Stale, Types, Hosts
<1>4. job'.st = "done"
  <2>1. ASSUME NEW a, NEW e, Does(a, e) PROVE job'.st = "done"
    BY <2>1, DoesFacts
  <2>2. CASE job.step.op = "raw"
    BY <2>1, <2>2, DeviceRawDoes DEF DeviceWorks
  <2>3. CASE job.step.op # "raw" /\ Does([kind |-> "noise"], dev)
    BY <2>1, <2>3
  <2>4. CASE job.step.op # "raw" /\ DeviceMethod([dev EXCEPT !.rcvd = @ + 1], job.step)
    <3>1. dev.rcvd + 1 \in Nat
      BY <1>1 DEF Devices
    <3>2. [dev EXCEPT !.rcvd = @ + 1] \in Devices
      BY <1>1, <3>1, DeviceFields
    <3> QED
      BY <1>1, <2>1, <2>4, <3>2, DeviceMethodDoes
  <2> QED
    BY <2>2, <2>3, <2>4 DEF DeviceWorks
<1>5. CASE host.q # "poll"
  <2>1. job.step.op = "raw"
    BY <1>1, <1>2, <1>5 DEF Base, Stale
  <2>2. DeviceRaw(job.step.m)
    BY <2>1 DEF DeviceWorks
  <2>3. dev'.k = dev.k /\ dev'.chan \in {0, dev.chan, job.id}
    BY <2>2, DeviceRawKeeps, DeviceRawChannel
  <2>4. host.chan = dev'.chan => host.chan = dev.chan
    BY <1>1, <1>3, <2>3
  <2> QED
    BY <1>5, <2>3, <2>4 DEF Synced
<1>6. CASE host.q = "poll"
  <2>1. job.step = Now /\ job.chan = host.chan
    BY <1>6 DEF Base, JobShape
  <2>2. CASE Does([kind |-> "noise"], dev)
    <3> DEFINE a == [kind |-> "noise"]
    <3>1. a.kind = "noise"
      OBVIOUS
    <3> HIDE DEF a
    <3>2. job'.ans = a
      BY <2>2, DoesFacts DEF a
    <3> QED
      BY <1>4, <1>6, <3>1, <3>2
  <2>3. CASE job.chan = dev.chan /\ DeviceMethod([dev EXCEPT !.rcvd = @ + 1], Now)
    <3> DEFINE d == [dev EXCEPT !.rcvd = dev.rcvd + 1]
    <3>1. dev.rcvd + 1 \in Nat
      BY <1>1 DEF Devices
    <3>2. d \in Devices /\ d.chan = dev.chan
      BY <1>1, <3>1, DeviceFields
    <3>3. d.k = dev.k
      BY <1>1 DEF Devices
    <3>4. DeviceMethod(d, Now)
      BY <2>3
    <3> HIDE DEF d
    <3>5. CASE DeviceSigns(d, Now)
      <4>1. Now.m \in Dialog => At(dev.k, sign) /\ Answering(Now, dev.k)
        BY <1>2, <1>6, <2>1, <2>3 DEF Synced
      <4>2. Moves(Now, sign, dev'.k, job'.ans)
        BY <1>1, <3>2, <3>3, <3>5, <4>1, DeviceSignsMoves
      <4>3. dev'.chan = dev.chan
        <5>1. PICK a \in NextAnswers, e \in Devices : Does(a, e) /\ e.chan = d.chan
          BY <1>1, <3>2, <3>5, DeviceSignsDoes
        <5> QED
          BY <3>2, <5>1, DoesFacts
      <4> QED
        BY <1>4, <1>6, <2>1, <2>3, <4>2, <4>3
    <3>6. CASE \E code \in {"abort", "generic", "other"} : Does([kind |-> "error", code |-> code], [d EXCEPT !.k = 0])
      <4>1. PICK code \in {"abort", "generic", "other"} : Does([kind |-> "error", code |-> code], [d EXCEPT !.k = 0])
        BY <3>6
      <4> DEFINE a == [kind |-> "error", code |-> code]
      <4>2. a.kind = "error"
        OBVIOUS
      <4> HIDE DEF a
      <4>3. job'.ans = a
        BY <4>1, DoesFacts DEF a
      <4> QED
        BY <1>4, <1>6, <4>2, <4>3
    <3> QED
      BY <1>1, <3>4, <3>5, <3>6 DEF DeviceMethod, Dialog
  <2> QED
    BY <1>6, <2>1, <2>2, <2>3 DEF DeviceWorks
<1> QED
  BY <1>5, <1>6

\* Requests, cancels and what happens on the device's side keep the step.
LEMMA WaitsSynced ==
    ASSUME Base, Synced, Waits
    PROVE  Synced'
<1>1. host \in Hosts /\ dev \in Devices
  BY DEF Base, Types
<1>2. /\ host'.todo = host.todo /\ host'.cmd = host.cmd /\ host'.chan = host.chan /\ host'.lost = host.lost
      /\ sign' = sign
  BY DEF Waits, Continues, SameChannel
<1>3. CASE DeviceWorks
  BY <1>3, DeviceWorksSynced
<1>4. CASE Ask
  <2>1. host.q = "none" /\ dev' = dev
    BY <1>4 DEF Ask
  <2>2. host'.q # "poll"
    <3>1. CASE ~host.link
      <4>1. host' = Failed(host, "raw")
        BY <1>4, <3>1 DEF Ask
      <4>2. Stopped(host', host)
        BY <1>1, <4>1, FailedFacts DEF Outcomes
      <4> QED
        BY <4>2 DEF Stopped
    <3>2. CASE host.link
      BY <1>1, <1>4, <3>2 DEF Ask, Hosts
    <3> QED
      BY <3>1, <3>2
  <2> QED
    BY <1>2, <2>1, <2>2 DEF Synced, Now
<1>5. CASE NewRequest
  <2>1. host.q = "new" /\ dev' = dev /\ job'.st = "working"
    BY <1>5 DEF NewRequest, NoJob
  <2> QED
    BY <1>2, <2>1 DEF Synced, Now
<1>6. CASE cancel_outstanding_request
  <2>1. host'.q = host.q /\ dev' = dev /\ job' = job
    BY <1>1, <1>6 DEF cancel_outstanding_request, Hosts
  <2> QED
    BY <1>2, <2>1 DEF Synced, Now
<1>7. CASE PollCancel
  <2>1. host' = host /\ host.q = "poll" /\ job.step = Now /\ job.st = "working"
    BY <1>7 DEF PollCancel, Base, JobShape
  <2>2. CASE Now.op = "raw"
    BY <1>2, <2>2 DEF Synced, Now
  <2>3. CASE Now.op # "raw"
    <3> DEFINE a == [kind |-> "error", code |-> "abort"]
    <3>1. PICK e : Does(a, e)
      BY <1>7, <2>1, <2>3 DEF PollCancel
    <3>2. a.kind = "error"
      OBVIOUS
    <3> HIDE DEF a
    <3>3. job'.ans.kind = "error" /\ job'.st = "done"
      BY <3>1, <3>2, DoesFacts
    <3> QED
      BY <2>1, <3>3 DEF Synced, Now
  <2> QED
    BY <2>2, <2>3
<1>8. CASE Replug
  <2>1. host'.cmd = "none"
    BY <1>2, <1>8 DEF Replug, Base, HostShape, NoHost
  <2>2. "none" \notin SignCommands
    BY DEF SignCommands
  <2> QED
    BY <2>1, <2>2, SyncedOutside
<1>9. CASE OtherTakes
  <2>1. host' = host /\ dev'.chan = 0 /\ job.st = "none"
    BY <1>1, <1>9 DEF OtherTakes, Devices
  <2>2. host.q # "poll"
    BY <2>1 DEF Base, JobShape
  <2>3. host.todo # <<>> /\ Now.op = "sign" => host.chan # 0
    BY SigningState
  <2> QED
    BY <1>2, <2>1, <2>2, <2>3 DEF Synced, Now
<1>10. CASE DeviceDrops
  <2>1. host' = host /\ dev' = dev /\ (job.id # host.id \/ host.q = "none")
    BY <1>10 DEF DeviceDrops
  <2>2. host.q # "poll"
    BY <2>1 DEF Base, JobShape
  <2> QED
    BY <1>2, <2>1, <2>2 DEF Synced, Now
<1>11. CASE UNCHANGED vars
  BY <1>11 DEF vars, Synced, Now
<1> QED
  BY <1>3, <1>4, <1>5, <1>6, <1>7, <1>8, <1>9, <1>10, <1>11 DEF Waits, Works

\* The shape of sign_tx where it starts.
LEMMA SignStarts ==
    ASSUME NEW c \in SignCommands, NEW ver
    PROVE  SignsLast(Program(c, ver)) /\ Program(c, ver) # <<>>
BY SignProgram DEF SignCommands, Program

\* A command that signs and goes on before the dialogue keeps its shape.
LEMMA SignShapeKept ==
    ASSUME Base, SignShape, host.cmd # "none",
           host'.cmd = host.cmd, host'.outcome = host.outcome, host'.todo # <<>>,
           host.cmd \in SignCommands => /\ Connects(host'.todo) \/ SignsLast(host'.todo)
                                        /\ Head(host'.todo).m \notin Dialog => sign' = NoSign
    PROVE  SignShape'
BY DEF Base, HostShape, SignShape, Now

\* A signing command outside the dialogue has no signatures.
LEMMA BeforeDialog ==
    ASSUME Base, SignShape, host.cmd \in SignCommands, host.todo # <<>>
    PROVE  /\ Now.m \notin Dialog => sign = NoSign
           /\ Runs(host.todo) => SignsLast(host.todo)
           /\ Now.op # "sign" => Now.m \notin Dialog
           /\ Now.on = {}
<1>1. host.todo \in Seq(Steps) /\ Now = Head(host.todo)
  BY NowType
<1>2. Runs(host.todo) => SignsLast(host.todo)
  BY <1>1, RunsHead DEF SignShape
<1>3. Now.op # "sign" => Now.m \notin Dialog
  BY <1>1, RunsHead, ConnectsHead, ConnectsOr, GroupsDisjoint DEF Plain
<1>4. Now.on = {}
  BY <1>1, <1>2, ConnectsHead, ConnectsOr, SignsTail
<1> QED
  BY <1>2, <1>3, <1>4 DEF SignShape

\* btc_sign is the last step, in each of its forms.
LEMMA SignsSingle ==
    ASSUME NEW s \in Steps, s.op = "sign", s.on = {}, NEW t, t = <<>>
    PROVE  /\ <<s>> \o t # <<>> /\ Head(<<s>> \o t) = s /\ SignsLast(<<s>> \o t)
<1> DEFINE u == <<s>> \o t
<1>1. u \in Seq(Steps) /\ Len(u) = 1 /\ u[1] = s
  OBVIOUS
<1> HIDE DEF u
<1>2. u # <<>> /\ Head(u) = s
  <2>0. Len(u) > 0
    BY <1>1
  <2>1. u # <<>>
    BY <1>1, <2>0, LongSeq
  <2>2. Head(u) = u[1]
    BY <1>1, <2>1, HeadTail
  <2> QED
    BY <1>1, <2>1, <2>2
<1>3. \A j \in 1..Len(u) : j = 1 /\ j = Len(u)
  BY <1>1
<1>4. SignsLast(u)
  BY <1>1, <1>3 DEF SignsLast
<1> QED
  BY <1>2, <1>4 DEF u

\* The dialogue's next query is due, and the device waits for it.
LEMMA QueryAligned ==
    ASSUME Base, SignShape, host.cmd \in SignCommands, Tail(host.todo) = <<>>, NEW s \in Steps, s.op = "sign", s.on = {},
           s.m \in Dialog, Continues(<<s>> \o Tail(host.todo)), host'.q = "none", dev' = dev,
           At(dev.k, sign'), Answering(s, dev.k)
    PROVE  Synced' /\ SignShape'
<1>1. host'.todo # <<>> /\ Head(host'.todo) = s /\ SignsLast(host'.todo)
  BY SignsSingle DEF Continues
<1>2. SignShape'
  BY <1>1, SignShapeKept DEF Continues, SignCommands
<1>3. Synced'
  BY <1>1 DEF Synced, Now
<1> QED
  BY <1>2, <1>3

\* A turn of the loop that does not stop, from the device's k-th question.
LEMMA TurnAligned ==
    ASSUME Base, SignShape, host.cmd \in SignCommands, Tail(host.todo) = <<>>, NEW a \in NextAnswers, TurnMoves(a),
           host'.q = "none", dev' = dev, sign' \in [pass2 : BOOLEAN, sigs : Seq(Signatures)],
           dev.k \in 1..Len(Script), a.type = Script[dev.k].type, a.index = Script[dev.k].index,
           dev.k \in 1..(Len(Script) - 1) => At(dev.k, sign'),
           dev.k = Len(Script) => Len(sign'.sigs) = n /\ InOrder(sign'.sigs)
    PROVE  Synced' /\ SignShape'
<1>1. a.index \in Nat /\ sign'.pass2 \in BOOLEAN /\ a.type \in {"INPUT", "OUTPUT", "PREVTX", "DONE", "HOST_NONCE"}
  BY DEF NextAnswers
<1>2. host.outcome = "none" /\ host.cmd # "none"
  BY DEF SignCommands, Base, HostShape
<1>3. Len(Script) \in Nat /\ (Script[dev.k].type = "DONE" <=> dev.k = Len(Script))
  BY ScriptType, ScriptEntries
<1>4. CASE host'.cmd \in {"none", "enumerate"} /\ host'.outcome # "ok"
  <2>1. host'.cmd \notin SignCommands
    BY <1>4 DEF SignCommands
  <2> QED
    BY <1>4, <2>1, SyncedOutside DEF SignShape
<1>5. CASE a.type = "DONE" /\ Continues(Tail(host.todo))
  <2>1. host'.todo = <<>> /\ host'.outcome = "none"
    BY <1>2, <1>5 DEF Continues
  <2>2. Complete'
    BY <1>3, <1>5 DEF Complete
  <2>3. SignShape'
    <3>1. SignsLast(<<>>)
      BY DEF SignsLast
    <3> QED
      BY <2>1, <2>2, <3>1 DEF SignShape
  <2>4. Synced'
    BY <2>1 DEF Synced
  <2> QED
    BY <2>3, <2>4
<1>6. CASE a.type \notin {"DONE", "HOST_NONCE"} /\ Continues(<<NextQuery(sign', a)>> \o Tail(host.todo))
  <2> DEFINE s == NextQuery(sign', a)
  <2>1. s \in Steps /\ s.op = "sign" /\ s.m \in Dialog
    BY <1>1, NextQueryType
  <2>2. /\ s.m # "nonce" /\ s.i = a.index
        /\ s.m = "btc_sign_input" <=> a.type = "INPUT"
        /\ s.m = "btc_sign_output" <=> a.type = "OUTPUT"
        /\ s.m = "prevtx" <=> a.type \notin {"INPUT", "OUTPUT"}
    BY <1>1, NextQueryCommits
  <2>3. s.on = {}
    BY DEF NextQuery, Step
  <2> HIDE DEF s
  <2>4. dev.k \in 1..(Len(Script) - 1)
    BY <1>3, <1>6
  <2>5. Answering(s, dev.k)
    BY <1>1, <1>6, <2>2 DEF Answering
  <2> QED
    BY <1>6, <2>1, <2>3, <2>4, <2>5, QueryAligned DEF s
<1> QED
  BY <1>4, <1>5, <1>6 DEF TurnMoves

\* An answer of btc_sign keeps both sides at the same entry of the script.
LEMMA SignedAligned ==
    ASSUME Base, Synced, SignShape, Signed
    PROVE  Synced' /\ SignShape'
<1> DEFINE a == job.ans
<1>1. /\ host.q = "poll" /\ Now.op = "sign" /\ job.st = "done" /\ a.kind # "noise" /\ ~host.lost /\ dev' = dev
  BY ReceiveCases DEF Signed
<1>2. /\ host \in Hosts /\ host.todo # <<>> /\ host.cmd # "none" /\ host.outcome = "none"
  BY <1>1, Polling DEF Base, HostShape
<1>3. host'.q = "none" /\ sign' \in [pass2 : BOOLEAN, sigs : Seq(Signatures)]
  BY <1>1, SignSettled DEF Signed, Settled
<1>4. CASE host'.cmd \notin SignCommands /\ host'.outcome # "ok"
  BY <1>4, SyncedOutside DEF SignShape
<1>5. CASE Over
  BY <1>4, <1>5 DEF Over, SignCommands
<1>6. CASE a \in NextAnswers /\ (Contributes(a) \/ TakesInput(a) \/ TakesOther(a)) /\ host.cmd \notin SignCommands
  BY <1>2, <1>4, <1>6 DEF Contributes, TakesInput, TakesOther, TurnMoves, Continues, SignCommands
<1>7. CASE a \in NextAnswers /\ (Contributes(a) \/ TakesInput(a) \/ TakesOther(a)) /\ host.cmd \in SignCommands
  <2>1. /\ Runs(host.todo) /\ Now \in Steps /\ host.todo \in Seq(Steps) /\ Now = Head(host.todo)
        /\ Now.m \in Dialog \cup {"btc_sign_init"}
    BY <1>1, <1>2, SigningState
  <2>2. Tail(host.todo) = <<>>
    BY <1>1, <1>2, <1>7, <2>1, BeforeDialog, SignsTail
  <2>3. Moves(Now, sign, dev.k, a)
    BY <1>1, <1>2, <1>7 DEF Synced, NextAnswers
  <2>4. sign \in [pass2 : BOOLEAN, sigs : Seq(Signatures)] /\ dev.k \in Nat /\ Now.i \in Nat
    BY <2>1 DEF Base, Types, Devices, Steps
  <2>5. \A k \in 1..Len(Script) : Script[k].type # "HOST_NONCE"
    BY ScriptType
  <2>6. CASE Contributes(a)
    <3>1. a.type = "HOST_NONCE" /\ Now.m = "btc_sign_input" /\ sign' = sign
      BY <2>6 DEF Contributes
    <3>2. At(dev.k, sign) /\ Answering(Now, dev.k) /\ SecondPass(dev.k)
      BY <2>3, <2>5, <3>1 DEF Moves
    <3> DEFINE s == WithNonceOf(Now.i)
    <3>3. s \in Steps /\ s.op = "sign" /\ s.m = "nonce" /\ s.i = Now.i
      BY <2>4, NonceStep DEF WithNonceOf
    <3>4. s.on = {}
      BY DEF WithNonceOf, Step
    <3> HIDE DEF s
    <3>5. Answering(s, dev.k) /\ s.m \in Dialog
      BY <3>1, <3>2, <3>3 DEF Answering, Dialog
    <3> QED
      BY <1>1, <1>3, <1>7, <2>2, <2>6, <3>1, <3>2, <3>3, <3>4, <3>5, QueryAligned DEF Contributes, s
  <2>7. ASSUME At(dev.k - 1, sign), dev.k \in 1..Len(Script)
        PROVE  dev.k - 1 \in Nat /\ (dev.k - 1) + 1 = dev.k /\ dev.k - 1 \in 1..Len(Script)
    BY <2>4, <2>7, ScriptType DEF At
  <2>8. CASE TakesInput(a)
    <3>1. /\ At(dev.k - 1, sign) /\ Answering(Now, dev.k - 1)
          /\ dev.k \in 1..Len(Script) /\ a.type = Script[dev.k].type /\ a.index = Script[dev.k].index
          /\ SecondPass(dev.k - 1) => a.of = Now.i
      BY <2>3, <2>8 DEF Moves, TakesInput
    <3>2. Script[dev.k - 1].type = "INPUT" /\ Now.i = Script[dev.k - 1].index
      BY <2>8, <3>1 DEF Answering, TakesInput
    <3> DEFINE e == Kept(a)
               k == dev.k - 1
    <3>3. e \in Signatures
      BY <1>7, <2>4 DEF Kept, Signatures, NextAnswers
    <3>4. e.index = Script[k].index /\ (SecondPass(k) => e.of = Script[k].index)
      BY <3>1, <3>2 DEF Kept
    <3>5. /\ sign'.pass2 = (sign.pass2 \/ EndsPass(Script[k].index))
          /\ sign'.sigs = IF sign.pass2 THEN Append(sign.sigs, e) ELSE sign.sigs
          /\ TurnMoves(a)
      BY <2>8, <3>2 DEF TakesInput
    <3>6. k \in Nat /\ k + 1 = dev.k /\ At(k, sign) /\ Script[k].type = "INPUT"
      BY <2>7, <3>1, <3>2
    <3> HIDE DEF e, k
    <3>7. /\ k + 1 \in 1..(Len(Script) - 1) => At(k + 1, sign')
          /\ k + 1 = Len(Script) => Len(sign'.sigs) = n /\ InOrder(sign'.sigs)
      BY <2>4, <3>3, <3>4, <3>5, <3>6, AtInput
    <3> QED
      BY <1>1, <1>3, <1>7, <2>2, <3>1, <3>5, <3>6, <3>7, TurnAligned
  <2>9. CASE TakesOther(a) /\ Now.m = "btc_sign_init"
    <3>1. sign = NoSign /\ sign' = sign /\ TurnMoves(a)
      BY <1>2, <1>7, <2>9, BeforeDialog DEF TakesOther, Dialog
    <3>2. dev.k = 1 /\ a.type = Script[1].type /\ a.index = Script[1].index
      BY <2>3, <2>9 DEF Moves
    <3>3. At(1, sign') /\ Len(Script) \in Nat /\ Len(Script) > 2
      BY <3>1, AtStart, ScriptType
    <3>4. dev.k \in 1..Len(Script) /\ dev.k # Len(Script) /\ At(dev.k, sign')
      <4>0. Len(Script) \in Nat /\ Len(Script) > 2
        BY ScriptType
      <4>1. 1 \in 1..Len(Script) /\ 1 # Len(Script)
        BY <4>0
      <4> QED
        BY <3>2, <3>3, <4>1
    <3> QED
      BY <1>1, <1>3, <1>7, <2>2, <3>1, <3>2, <3>4, TurnAligned
  <2>10. CASE TakesOther(a) /\ Now.m \in {"btc_sign_output", "prevtx"}
    <3>1. sign' = sign /\ TurnMoves(a)
      BY <2>10 DEF TakesOther
    <3>2. /\ At(dev.k - 1, sign) /\ Answering(Now, dev.k - 1)
          /\ dev.k \in 1..Len(Script) /\ a.type = Script[dev.k].type /\ a.index = Script[dev.k].index
      BY <2>3, <2>10 DEF Moves
    <3>3. Script[dev.k - 1].type # "INPUT"
      BY <2>10, <3>2 DEF Answering
    <3> DEFINE k == dev.k - 1
    <3>4. k \in Nat /\ k + 1 = dev.k /\ At(k, sign) /\ Script[k].type # "INPUT"
      BY <2>7, <3>2, <3>3
    <3> HIDE DEF k
    <3>5. k + 1 \in 1..(Len(Script) - 1) /\ At(k + 1, sign)
      BY <3>4, AtOther
    <3>6. dev.k \in 1..(Len(Script) - 1) /\ At(dev.k, sign') /\ dev.k # Len(Script)
      BY <3>1, <3>4, <3>5, ScriptType
    <3> QED
      BY <1>1, <1>3, <1>7, <2>2, <3>1, <3>2, <3>6, TurnAligned
  <2> QED
    BY <1>7, <2>6, <2>8, <2>9, <2>10 DEF TakesOther
<1> QED
  BY <1>5, <1>6, <1>7, SignMoves

\* Every step keeps them there.
LEMMA NextAligned == ASSUME Base, Synced, SignShape, [Next]_vars PROVE Synced' /\ SignShape'
<1>1. host \in Hosts
  BY DEF Base, Types
<1>2. ASSUME host'.cmd \notin SignCommands,
             ~(host'.outcome = "ok" /\ host'.last \in SignCommands) \/ Complete'
      PROVE  Synced' /\ SignShape'
  BY <1>2, SyncedOutside DEF SignShape
<1>3. ASSUME host.cmd # "none", host'.cmd = host.cmd, host'.outcome = host.outcome, host'.q # "poll",
             host.cmd \in SignCommands => /\ host'.todo # <<>> /\ Head(host'.todo).m \notin Dialog
                                          /\ Connects(host'.todo) \/ SignsLast(host'.todo)
                                          /\ sign' = NoSign
      PROVE  Synced' /\ SignShape'
  <2>1. CASE host.cmd \in SignCommands
    BY <1>3, <2>1, SignShapeKept, SyncedOutside
  <2>2. CASE host.cmd \notin SignCommands
    <3>1. host'.outcome # "ok"
      BY <1>3 DEF Base, HostShape
    <3> QED
      BY <1>2, <1>3, <2>2, <3>1
  <2> QED
    BY <2>1, <2>2
<1>4. CASE Over
  BY <1>2, <1>4 DEF Over, SignCommands
<1>5. CASE Pairs
  <2>1. host.todo # <<>> /\ host.cmd # "none" /\ Connects(host.todo) /\ host.todo \in Seq(Steps) /\ Now = Head(host.todo)
    BY <1>5, Idle, NowType DEF Pairs, Connects, Base
  <2>2. host'.todo \in Seq(Steps) /\ Connects(host'.todo) /\ Continues(host'.todo) /\ sign' = sign
    BY <1>5, NextBase, HostTypes DEF Base, Types, Pairs
  <2>3. host'.todo # <<>> /\ Head(host'.todo).m \notin Dialog
    BY <2>2, OutsideDialog DEF Connects
  <2>4. Now.m \notin Dialog
    BY <2>1, OutsideDialog
  <2>5. host'.todo # <<>> => Head(host'.todo).op # "sign"
    BY <2>2, ConnectsHead
  <2>6. Synced'
    BY <2>5 DEF Synced, Now
  <2>7. SignShape'
    BY <2>1, <2>2, <2>3, <2>4, SignShapeKept, BeforeDialog DEF Continues
  <2> QED
    BY <2>6, <2>7
<1>6. CASE Starts
  <2>1. host.todo # <<>> /\ host.cmd # "none" /\ host.cmd \in Commands
    BY <1>6, Idle DEF Starts, Connects, Base, HostShape
  <2>2. Continues(Program(host.cmd, dev.ver)) /\ host'.q = "none" /\ sign' = sign /\ Now.m = "init_info"
    BY <1>6 DEF Starts
  <2>3. Program(host.cmd, dev.ver) \in Programs
    BY <2>1, ProgramPlain
  <2>4. host.cmd \in SignCommands => sign = NoSign
    BY <2>1, <2>2, BeforeDialog DEF Dialog
  <2> QED
    BY <1>3, <2>1, <2>2, <2>3, <2>4, SignStarts, OutsideDialog DEF Continues
<1>7. ASSUME host.todo # <<>>, Runs(host.todo), host'.q = "none", sign' = sign, Now.op # "sign",
             \/ Continues(host.todo)
             \/ Continues(Tail(host.todo))
             \/ Now.op = "unless" /\ Continues(Tail(Tail(host.todo)))
             \/ Now.op = "toggle" /\ Continues(host'.todo)
      PROVE  Synced' /\ SignShape'
  <2>1. host.cmd # "none" /\ host.todo \in Seq(Steps) /\ Now = Head(host.todo)
    BY <1>7, Idle, NowType DEF Base
  <2>2. Tail(host.todo) \in Programs /\ Tail(host.todo) \in Seq(Steps)
    BY <1>7, <2>1, RunsTail, HeadTail
  <2>3. host'.cmd = host.cmd /\ host'.outcome = host.outcome
    BY <1>7 DEF Continues
  <2>4. ASSUME host.cmd \in SignCommands
        PROVE  /\ host'.todo # <<>> /\ Head(host'.todo).m \notin Dialog
               /\ SignsLast(host'.todo)
               /\ sign' = NoSign
    <3>1. SignsLast(host.todo) /\ Now.m \notin Dialog /\ sign = NoSign
      BY <1>7, <2>4, BeforeDialog
    <3>2. /\ Tail(host.todo) # <<>> /\ SignsLast(Tail(host.todo)) /\ Now.op # "toggle"
          /\ Now.op = "unless" => Tail(Tail(host.todo)) # <<>> /\ SignsLast(Tail(Tail(host.todo)))
      BY <1>7, <2>1, <3>1, SignsTail
    <3>3. CASE Continues(host.todo)
      BY <1>7, <2>1, <3>1, <3>3 DEF Continues
    <3>4. CASE Continues(Tail(host.todo))
      BY <1>7, <2>2, <3>1, <3>2, <3>4, OutsideDialog DEF Continues
    <3>5. CASE Now.op = "unless" /\ Continues(Tail(Tail(host.todo)))
      <4>1. Tail(Tail(host.todo)) \in Programs
        BY <2>2, <3>2, ProgramRuns, RunsTail
      <4> QED
        BY <1>7, <3>1, <3>2, <3>5, <4>1, OutsideDialog DEF Continues
    <3> QED
      BY <1>7, <3>2, <3>3, <3>4, <3>5
  <2> QED
    BY <1>3, <1>7, <2>1, <2>3, <2>4
<1>8. CASE Skips
  <2>1. host.todo # <<>> /\ Runs(host.todo) /\ host'.q = "none" /\ sign' = sign /\ Continues(Tail(host.todo))
    BY <1>8 DEF Skips
  <2>2. Now.op # "sign"
    <3>1. Now.op = "sign" => Now.m \in Dialog \cup {"btc_sign_init"}
      BY <2>1, SigningState
    <3> QED
      BY <1>8, <3>1 DEF Skips, Dialog
  <2> QED
    BY <1>7, <2>1, <2>2
<1>9. CASE Waits
  <2>1. Synced'
    BY <1>9, WaitsSynced
  <2>2. SignShape'
    BY <1>9 DEF Waits, Continues, SignShape, Now, Complete
  <2> QED
    BY <2>1, <2>2
<1>10. CASE Answered
  <2>1. host.q = "poll" /\ Proceeds /\ Runs(host.todo) /\ host'.q = "none" /\ sign' = sign
    BY <1>10 DEF Answered, Receive, Proceeds
  <2>2. host.todo # <<>>
    BY <2>1, Polling
  <2>3. Now.op # "sign"
    BY <1>10 DEF Answered
  <2> QED
    BY <1>7, <2>1, <2>2, <2>3 DEF Proceeds, Continues
<1>11. CASE Signed
  BY <1>11, SignedAligned
<1>12. CASE Leaves
  <2>1. host.todo # <<>> /\ "gone" \in Now.on /\ host'.cmd = "none" /\ host'.last = host.cmd
    BY <1>12 DEF Leaves
  <2>2. host'.last \notin SignCommands
    BY <2>1, BeforeDialog
  <2> QED
    BY <1>2, <2>1, <2>2 DEF SignCommands
<1>13. CASE Return
  <2>1. host.cmd # "none" /\ host.todo = <<>> /\ host' = Ended(host, "ok") /\ sign' = sign
    BY <1>13 DEF Return
  <2>2. host'.cmd = "none" /\ host'.last = host.last /\ host.last = host.cmd
    BY <1>1, <2>1, EndedFacts DEF SameLink, Outcomes, Base, HostShape
  <2>3. host.cmd \in SignCommands => Complete'
    BY <2>1 DEF SignShape, Complete
  <2> QED
    BY <1>2, <2>2, <2>3 DEF SignCommands
<1>14. ASSUME NEW c \in Commands, Begin(c) PROVE Synced' /\ SignShape'
  <2>1. /\ host'.todo = (IF host.bb02 THEN Program(c, dev.ver) ELSE <<Step("raw", "info")>>) /\ sign' = NoSign
        /\ host'.cmd = c /\ host'.outcome = "none" /\ host'.q = host.q /\ host.cmd = "none"
    BY <1>1, <1>14 DEF Begin, Hosts
  <2>2. host'.q = "none"
    BY <2>1 DEF Base, HostShape
  <2>3. Program(c, dev.ver) \in Programs
    BY ProgramPlain
  <2>4. <<Step("raw", "info")>> \in Seq(Steps) /\ Connects(<<Step("raw", "info")>>)
    BY ConnectsSingle DEF PairingEnds
  <2>5. host'.todo # <<>> => Head(host'.todo).m \notin Dialog
    BY <2>1, <2>3, <2>4, OutsideDialog
  <2>6. c \in SignCommands => host'.todo # <<>> /\ (Connects(host'.todo) \/ SignsLast(host'.todo))
    BY <2>1, <2>4, SignStarts DEF Connects
  <2>7. Synced'
    BY <2>2, <2>5, SyncedOutside
  <2>8. SignShape'
    BY <2>1, <2>6 DEF SignShape
  <2> QED
    BY <2>7, <2>8
<1> QED
  BY <1>4, <1>5, <1>6, <1>8, <1>9, <1>10, <1>11, <1>12, <1>13, <1>14, StepCases

\* The signatures that sign_tx and sign_tx_multisig return are one for every
\* input, in the order of the inputs.
THEOREM SignaturesAreAligned == Spec => []SignaturesAligned
<1>1. Init => Synced /\ SignShape
  <2>1. SUFFICES ASSUME Init PROVE Synced /\ SignShape
    OBVIOUS
  <2>2. host.cmd = "none" /\ host.outcome = "none"
    BY <2>1 DEF Init, NoHost
  <2> QED
    BY <2>2 DEF Synced, SignShape, SignCommands
<1>2. Base /\ Synced /\ SignShape /\ [Next]_vars => Synced' /\ SignShape'
  BY NextAligned
<1>3. SignShape => SignaturesAligned
  BY DEF SignShape, SignaturesAligned, Complete, InOrder, SignCommands
<1> QED
  BY <1>1, <1>2, <1>3, AlwaysBase, PTL DEF Spec

----------------------------------------------------------------------------
(* What commands do to the device                                          *)

\* Sequences put together from their elements.
LEMMA Joined ==
    ASSUME NEW a, NEW b, NEW c
    PROVE  <<a>> \o <<b>> = <<a, b>> /\ <<a>> \o <<b>> \o <<c>> = <<a, b, c>>
<1> DEFINE S == {a, b, c}
           u2 == <<a>> \o <<b>>
           v2 == <<a, b>>
           u3 == v2 \o <<c>>
           v3 == <<a, b, c>>
<1>1. u2 \in Seq(S) /\ Len(u2) = 2 /\ u2[1] = a /\ u2[2] = b
  OBVIOUS
<1>2. v2 \in Seq(S) /\ Len(v2) = 2 /\ v2[1] = a /\ v2[2] = b
  OBVIOUS
<1>3. u3 \in Seq(S) /\ Len(u3) = 3 /\ u3[1] = a /\ u3[2] = b /\ u3[3] = c
  OBVIOUS
<1>4. v3 \in Seq(S) /\ Len(v3) = 3 /\ v3[1] = a /\ v3[2] = b /\ v3[3] = c
  OBVIOUS
<1>5. \A s, t \in Seq(S) : Len(s) = Len(t) /\ (\A i \in 1..Len(s) : s[i] = t[i]) => s = t
  OBVIOUS
<1>6. ASSUME NEW s \in Seq(S), NEW t \in Seq(S), Len(s) = 2, Len(t) = 2, s[1] = t[1], s[2] = t[2]
      PROVE  s = t
  <2>1. \A i \in 1..Len(s) : i = 1 \/ i = 2
    BY <1>6
  <2> QED
    BY <1>5, <1>6, <2>1
<1>7. ASSUME NEW s \in Seq(S), NEW t \in Seq(S), Len(s) = 3, Len(t) = 3, s[1] = t[1], s[2] = t[2], s[3] = t[3]
      PROVE  s = t
  <2>1. \A i \in 1..Len(s) : i = 1 \/ i = 2 \/ i = 3
    BY <1>7
  <2> QED
    BY <1>5, <1>7, <2>1
<1>8. u2 = v2
  BY <1>1, <1>2, <1>6
<1>9. u3 = v3
  BY <1>3, <1>4, <1>7
<1> QED
  BY <1>8, <1>9

\* What the commands set up, restore and toggle consist of.
LEMMA EffectPrograms ==
    ASSUME NEW ver
    PROVE  /\ Program("setup_device", ver) = <<Named, Password, Backup>>
           /\ Program("restore_device", ver) = <<Named, Restore>>
           /\ Program("toggle_passphrase", ver) = toggle_passphrase
<1>1. /\ Query("device_name") = <<Named>> /\ Query("restore_from_mnemonic") = <<Restore>>
      /\ Caught("set_password", {"generic"}) = <<Password>> /\ Caught("create_backup", {"generic"}) = <<Backup>>
  BY DEF Query, Caught, Named, Restore, Password, Backup
<1>2. \A a, b : <<a>> \o <<b>> = <<a, b>>
  BY Joined
<1>3. \A a, b, c : <<a>> \o <<b>> \o <<c>> = <<a, b, c>>
  BY Joined
<1>4. \A a : <<>> \o <<a>> = <<a>>
  OBVIOUS
<1>5. set_device_name = <<Named>> /\ create_backup = <<Backup>> /\ restore_from_mnemonic = <<Restore>>
  BY <1>1 DEF set_device_name, create_backup, restore_from_mnemonic
<1>6. set_password(32) = <<Password>>
  BY <1>1, <1>4 DEF set_password, When
<1> HIDE DEF Named, Password, Backup, Restore
<1>7. setup_device(TRUE) = <<Named, Password, Backup>>
  BY <1>3, <1>5, <1>6 DEF setup_device, When
<1>8. restore_device(TRUE) = <<Named, Restore>>
  BY <1>2, <1>5 DEF restore_device, When
<1> QED
  BY <1>7, <1>8 DEF Program

\* The steps of these programs.
LEMMA EffectSteps ==
    /\ Named.op = "query" /\ Named.m = "device_name" /\ Named.on = {} /\ ~Named.nonce
    /\ Password.op = "query" /\ Password.m = "set_password" /\ Password.on = {"generic"} /\ ~Password.nonce
    /\ Backup.op = "query" /\ Backup.m = "create_backup" /\ Backup.on = {"generic"} /\ ~Backup.nonce
    /\ Restore.op = "query" /\ Restore.m = "restore_from_mnemonic" /\ Restore.on = {} /\ ~Restore.nonce
BY DEF Named, Password, Backup, Restore, Step

\* The steps of toggle_passphrase.
LEMMA PassphraseSteps ==
    \E q, e, d :
        /\ toggle_passphrase = <<q>> /\ enable_mnemonic_passphrase = <<e>> /\ disable_mnemonic_passphrase = <<d>>
        /\ q.op = "toggle" /\ q.m = "device_info" /\ q.on = {} /\ ~q.nonce
        /\ e.op = "query" /\ e.m = "enable_passphrase" /\ e.on = {} /\ ~e.nonce
        /\ d.op = "query" /\ d.m = "disable_passphrase" /\ d.on = {} /\ ~d.nonce
<1> DEFINE q == Step("toggle", "device_info")
           e == Step("query", "enable_passphrase")
           d == Step("query", "disable_passphrase")
<1>1. /\ toggle_passphrase = <<q>> /\ enable_mnemonic_passphrase = <<e>> /\ disable_mnemonic_passphrase = <<d>>
  BY DEF toggle_passphrase, enable_mnemonic_passphrase, disable_mnemonic_passphrase, Query
<1>2. /\ q.op = "toggle" /\ q.m = "device_info" /\ q.on = {} /\ ~q.nonce
      /\ e.op = "query" /\ e.m = "enable_passphrase" /\ e.on = {} /\ ~e.nonce
      /\ d.op = "query" /\ d.m = "disable_passphrase" /\ d.on = {} /\ ~d.nonce
  BY DEF Step
<1> HIDE DEF q, e, d
<1> QED
  BY <1>1, <1>2

\* How the step at the head of what is left determines the rest.
LeftStep(c, t) ==
    LET s == Head(t) IN
    /\ ~s.nonce /\ s.on \in {{}, {"generic"}}
    /\ s.op = (IF s.m = "device_info" THEN "toggle" ELSE "query") /\ s.m \in Simple \cup {"device_info"}
    /\ s.m = "device_name" => Tail(t) \in {<<Password, Backup>>, <<Restore>>} /\ Tail(t) \in Left(c)
    /\ s.m = "set_password" => Tail(t) = <<Backup>> /\ c = "setup_device"
    /\ s.m = "create_backup" => Tail(t) = <<>> /\ c = "setup_device"
    /\ s.m = "restore_from_mnemonic" => Tail(t) = <<>> /\ c = "restore_device"
    /\ s.m = "device_info" => c = "toggle_passphrase"
    /\ s.m \in {"enable_passphrase", "disable_passphrase"} => Tail(t) = <<>> /\ c = "toggle_passphrase"

\* It does.
LEMMA LeftSteps == ASSUME NEW c \in EffectCommands, NEW t \in Left(c), t # <<>> PROVE LeftStep(c, t)
<1>1. \A a, b, d : /\ Head(<<a>>) = a /\ Tail(<<a>>) = <<>> /\ Head(<<a, b>>) = a /\ Tail(<<a, b>>) = <<b>>
                   /\ Head(<<a, b, d>>) = a /\ Tail(<<a, b, d>>) = <<b, d>>
  OBVIOUS
<1>2. CASE c = "setup_device"
  <2>1. t \in {<<Named, Password, Backup>>, <<Password, Backup>>, <<Backup>>}
    BY <1>2 DEF Left
  <2>2. CASE t = <<Named, Password, Backup>>
    <3>1. <<Password, Backup>> \in Left(c)
      BY <1>2 DEF Left
    <3> QED
      BY <1>1, <1>2, <2>2, <3>1, EffectSteps DEF Simple, LeftStep
  <2>3. CASE t = <<Password, Backup>>
    BY <1>1, <1>2, <2>3, EffectSteps DEF Simple, LeftStep
  <2>4. CASE t = <<Backup>>
    BY <1>1, <1>2, <2>4, EffectSteps DEF Simple, LeftStep
  <2> QED
    BY <2>1, <2>2, <2>3, <2>4
<1>3. CASE c = "restore_device"
  <2>1. t \in {<<Named, Restore>>, <<Restore>>}
    BY <1>3 DEF Left
  <2>2. CASE t = <<Named, Restore>>
    <3>1. <<Restore>> \in Left(c)
      BY <1>3 DEF Left
    <3> QED
      BY <1>1, <1>3, <2>2, <3>1, EffectSteps DEF Simple, LeftStep
  <2>3. CASE t = <<Restore>>
    BY <1>1, <1>3, <2>3, EffectSteps DEF Simple, LeftStep
  <2> QED
    BY <2>1, <2>2, <2>3
<1>4. CASE c = "toggle_passphrase"
  <2>1. t \in {toggle_passphrase, enable_mnemonic_passphrase, disable_mnemonic_passphrase}
    BY <1>4 DEF Left
  <2>2. PICK q, e, d :
          /\ toggle_passphrase = <<q>> /\ enable_mnemonic_passphrase = <<e>> /\ disable_mnemonic_passphrase = <<d>>
          /\ q.op = "toggle" /\ q.m = "device_info" /\ q.on = {} /\ ~q.nonce
          /\ e.op = "query" /\ e.m = "enable_passphrase" /\ e.on = {} /\ ~e.nonce
          /\ d.op = "query" /\ d.m = "disable_passphrase" /\ d.on = {} /\ ~d.nonce
    BY PassphraseSteps
  <2> QED
    BY <1>1, <1>4, <2>1, <2>2 DEF Simple, LeftStep
<1> QED
  BY <1>2, <1>3, <1>4 DEF EffectCommands

\* A query of this kind is answered with success, an error or not at all, and
\* only information is answered with what the device has.
LEMMA DeviceMethodAnswers ==
    ASSUME Base, NEW d \in Devices, NEW s \in Steps, s.op # "raw", DeviceMethod(d, s)
    PROVE  /\ s.op = "query" /\ ~s.nonce /\ s.m \in Simple => job'.ans.kind \in {"done", "error", "noise"}
           /\ job'.ans.kind = "info" => job'.ans.passphrase = d.passphrase
<1>1. CASE s.op = "sign" /\ DeviceSigns(d, s)
  <2>1. PICK a \in NextAnswers, e \in Devices : Does(a, e)
    BY <1>1, DeviceSignsDoes
  <2>2. job'.ans.kind = "next"
    BY <2>1, DoesFacts DEF NextAnswers
  <2> QED
    BY <1>1, <2>2
<1>2. CASE /\ s.m \in {"device_info", "init_info"}
           /\ Does([kind |-> "info", initialized |-> d.initialized, passphrase |-> d.passphrase], d)
  <2> DEFINE a == [kind |-> "info", initialized |-> d.initialized, passphrase |-> d.passphrase]
  <2>1. a.kind = "info" /\ a.passphrase = d.passphrase
    OBVIOUS
  <2> HIDE DEF a
  <2>2. job'.ans = a
    BY <1>2, DoesFacts DEF a
  <2> QED
    BY <1>2, <2>1, <2>2 DEF Simple
<1>3. ASSUME NEW a, NEW e, Does(a, e), a.kind \in {"registered", "signature", "again", "done", "error"}
      PROVE  job'.ans.kind = a.kind
  BY <1>3, DoesFacts
<1>4. CASE s.m = "is_script_config_registered" /\ Does([kind |-> "registered", yes |-> d.registered], d)
  <2>1. job'.ans.kind = "registered"
    BY <1>3, <1>4
  <2> QED
    BY <1>4, <2>1 DEF Simple
<1>5. CASE s.op = "query" /\ s.nonce /\ \E honest \in BOOLEAN : Does([kind |-> "signature", honest |-> honest], d)
  <2>1. job'.ans.kind = "signature"
    BY <1>3, <1>5
  <2> QED
    BY <1>5, <2>1
<1>6. CASE s.op = "loop" /\ Does([kind |-> "again"], d)
  <2>1. job'.ans.kind = "again"
    BY <1>3, <1>6
  <2> QED
    BY <1>6, <2>1
<1>7. CASE Does([kind |-> "done"], Effect(d, s.m))
  <2>1. job'.ans.kind = "done"
    BY <1>3, <1>7
  <2> QED
    BY <2>1
<1>8. CASE \E code \in {"abort", "generic", "other"} : Does([kind |-> "error", code |-> code], [d EXCEPT !.k = 0])
  <2>1. job'.ans.kind = "error"
    BY <1>3, <1>8
  <2> QED
    BY <2>1
<1> QED
  BY <1>1, <1>2, <1>4, <1>5, <1>6, <1>7, <1>8 DEF DeviceMethod

\* The same for whatever the device works on.
LEMMA DeviceWorksAnswers ==
    ASSUME Base, DeviceWorks
    PROVE  /\ job'.st = "done" /\ job'.step = job.step
           /\ job.step.op = "query" /\ ~job.step.nonce /\ job.step.m \in Simple
                 => job'.ans.kind \in {"done", "error", "noise"}
           /\ job'.ans.kind = "info" => job'.ans.passphrase = dev.passphrase
<1>1. dev \in Devices /\ job.step \in Steps
  BY DEF Base, Types
<1>2. CASE job.step.op = "raw"
  <2>1. PICK a \in RawAnswers, d \in Devices : Does(a, d)
    BY <1>2, DeviceRawDoes DEF DeviceWorks
  <2>2. job'.ans.kind = "raw"
    BY <1>2, DeviceRawKeeps DEF DeviceWorks
  <2> QED
    BY <1>2, <2>1, <2>2, DoesFacts
<1>3. CASE job.step.op # "raw" /\ Does([kind |-> "noise"], dev)
  <2> DEFINE a == [kind |-> "noise"]
  <2>1. a.kind = "noise"
    OBVIOUS
  <2> HIDE DEF a
  <2>2. Does(a, dev)
    BY <1>3 DEF a
  <2> QED
    BY <2>1, <2>2, DoesFacts
<1>4. CASE job.step.op # "raw" /\ DeviceMethod([dev EXCEPT !.rcvd = @ + 1], job.step)
  <2> DEFINE d == [dev EXCEPT !.rcvd = dev.rcvd + 1]
  <2>1. dev.rcvd + 1 \in Nat
    BY <1>1 DEF Devices
  <2>2. d \in Devices /\ Keeps(d, dev)
    BY <1>1, <2>1, DeviceFields, KeepsFields
  <2>3. DeviceMethod(d, job.step)
    BY <1>4
  <2> HIDE DEF d
  <2>4. PICK a, e : Does(a, e)
    BY <1>1, <1>4, <2>2, <2>3, DeviceMethodDoes
  <2>5. job'.st = "done" /\ job'.step = job.step
    BY <2>4, DoesFacts
  <2> QED
    BY <1>1, <1>4, <2>2, <2>3, <2>5, DeviceMethodAnswers DEF Keeps
<1> QED
  BY <1>2, <1>3, <1>4 DEF DeviceWorks

\* Every step keeps the answers of their kinds.
LEMMA NextAnswered == ASSUME Base, AnswerShape, [Next]_vars PROVE AnswerShape'
<1>1. CASE UNCHANGED job
  BY <1>1 DEF AnswerShape
<1>2. ASSUME job'.st # "done" PROVE AnswerShape'
  BY <1>2 DEF AnswerShape
<1>3. NoJob.st = "none"
  BY DEF NoJob
<1>4. CASE NewRequest
  BY <1>2, <1>4 DEF NewRequest, NoJob
<1>5. CASE OtherTakes
  BY <1>2, <1>5 DEF OtherTakes, NoJob
<1>6. CASE Receive \/ DeviceDrops \/ \E gone \in BOOLEAN : Break(gone)
  <2>1. job' = NoJob \/ job' = job
    BY <1>6 DEF Receive, DeviceDrops, Break
  <2> QED
    BY <1>1, <1>2, <1>3, <2>1
<1>7. CASE PollCancel
  <2> DEFINE a == [kind |-> "error", code |-> "abort"]
  <2>1. a.kind = "error"
    OBVIOUS
  <2> HIDE DEF a
  <2>2. CASE job.step.op = "raw"
    <3>1. PICK e : Does(Raw(FALSE), e)
      BY <1>7, <2>2 DEF PollCancel
    <3> QED
      BY <2>2, <3>1, DoesFacts DEF AnswerShape
  <2>3. CASE job.step.op # "raw"
    <3>1. PICK e : Does(a, e)
      BY <1>7, <2>3 DEF PollCancel, a
    <3> QED
      BY <2>1, <3>1, DoesFacts DEF AnswerShape
  <2> QED
    BY <2>2, <2>3
<1>8. CASE DeviceWorks
  BY <1>8, DeviceWorksAnswers DEF AnswerShape
<1> QED
  BY <1>1, <1>4, <1>5, <1>6, <1>7, <1>8
  DEF Next, Open, Close, Begin, Return, Require, GetInfo, Ask, cancel_outstanding_request, Confirm, Kill, Replug, vars

\* What the commands are about is the same.
SameEffect == dev'.initialized = dev.initialized /\ dev'.backup = dev.backup /\ dev'.passphrase = dev.passphrase

\* While the host waits nothing changes, or the device does what it was asked
\* for: by this host, or by one whose messages are out of order by now.
LEMMA WaitsEffect ==
    ASSUME Base, Waits, host.open
    PROVE  \/ /\ SameEffect /\ (Answer("done")' <=> Answer("done"))
              /\ Answer("info")' => job'.ans.passphrase = dev.passphrase \/ (Answer("info") /\ job' = job)
           \/ /\ ~Answer("done") /\ (Answer("done")' <=> host.q = "poll") /\ ~Answer("info")'
              /\ dev' = Effect([dev EXCEPT !.rcvd = dev.rcvd + 1], job.step.m)
              /\ host.q = "poll" => job.step = Now
              /\ host.q # "poll" => host.lost \/ host.chan = 0
<1>1. dev \in Devices /\ host \in Hosts
  BY DEF Base, Types
<1>2. ASSUME job' = job, host'.q = host.q, UNCHANGED dev
      PROVE  /\ SameEffect /\ (Answer("done")' <=> Answer("done"))
             /\ Answer("info")' => job'.ans.passphrase = dev.passphrase \/ (Answer("info") /\ job' = job)
  BY <1>2 DEF SameEffect, Answer
<1>3. ASSUME SameEffect, host.q # "poll" \/ job.st # "done", host'.q # "poll" \/ job'.st # "done"
      PROVE  /\ SameEffect /\ (Answer("done")' <=> Answer("done"))
             /\ Answer("info")' => job'.ans.passphrase = dev.passphrase \/ (Answer("info") /\ job' = job)
  BY <1>3 DEF Answer
<1>4. CASE Ask
  <2>1. host'.q # "poll"
    <3>1. CASE host' = Failed(host, "raw")
      BY <1>1, <3>1, FailedFacts DEF Stopped, Outcomes
    <3>2. CASE host' = [host EXCEPT !.q = "new", !.id = used.ids + 1,
                                    !.sent = IF Now.op = "raw" THEN @ ELSE @ + 1]
      BY <1>1, <3>2 DEF Hosts
    <3> QED
      BY <1>4, <3>1, <3>2 DEF Ask
  <2>2. host.q = "none" /\ SameEffect
    BY <1>4 DEF Ask, SameEffect
  <2> QED
    BY <1>3, <2>1, <2>2
<1>5. CASE NewRequest
  <2>1. job'.st = "working" /\ host.q = "new" /\ SameEffect
    BY <1>5 DEF NewRequest, NoJob, SameEffect
  <2> QED
    BY <1>3, <2>1
<1>6. CASE cancel_outstanding_request
  <2>1. job' = job /\ host'.q = host.q /\ UNCHANGED dev
    BY <1>1, <1>6 DEF cancel_outstanding_request, Hosts
  <2> QED
    BY <1>2, <2>1
<1>7. CASE PollCancel
  <2>1. job.st = "working" /\ SameEffect
    BY <1>1, <1>7 DEF PollCancel, Does, Devices, SameEffect
  <2>2. job'.ans.kind \in {"raw", "error"}
    <3>1. CASE job.step.op = "raw"
      <4>1. PICK e : Does(Raw(FALSE), e)
        BY <1>7, <3>1 DEF PollCancel
      <4> QED
        BY <4>1, DoesFacts DEF Raw
    <3>2. CASE job.step.op # "raw"
      <4> DEFINE a == [kind |-> "error", code |-> "abort"]
      <4>1. a.kind = "error"
        OBVIOUS
      <4> HIDE DEF a
      <4>2. PICK e : Does(a, e)
        BY <1>7, <3>2 DEF PollCancel, a
      <4> QED
        BY <4>1, <4>2, DoesFacts
    <3> QED
      BY <3>1, <3>2
  <2> QED
    BY <2>1, <2>2 DEF Answer
<1>8. CASE Replug
  BY <1>8 DEF Replug
<1>9. CASE OtherTakes
  <2>1. job.st = "none" /\ job'.st = "other" /\ SameEffect
    BY <1>1, <1>9 DEF OtherTakes, NoJob, Devices, SameEffect
  <2> QED
    BY <1>3, <2>1
<1>10. CASE DeviceDrops
  <2>1. host' = host /\ SameEffect /\ (job.id # host.id \/ host.q = "none")
    BY <1>10 DEF DeviceDrops, SameEffect
  <2>2. host.q # "poll"
    BY <2>1 DEF Base, JobShape
  <2> QED
    BY <1>3, <2>1, <2>2
<1>11. CASE DeviceWorks
  <2>1. job.st = "working" /\ host' = host /\ job'.st = "done"
    BY <1>11, DeviceWorksAnswers DEF DeviceWorks
  <2>2. CASE Keeps(dev', dev) /\ job'.ans.kind # "done"
    <3>1. SameEffect
      BY <2>2 DEF Keeps, SameEffect
    <3> QED
      BY <1>11, <2>1, <2>2, <3>1, DeviceWorksAnswers DEF Answer
  <2>3. CASE /\ job.step.op \in {"query", "loop"} /\ job'.ans.kind = "done"
             /\ dev' = Effect([dev EXCEPT !.rcvd = dev.rcvd + 1], job.step.m)
    <3>1. host.q = "poll" => job.step = Now
      BY Polling
    <3>2. host.q # "poll" => host.lost \/ host.chan = 0
      BY <2>1, <2>3 DEF Base, Stale
    <3> QED
      BY <2>1, <2>3, <3>1, <3>2 DEF Answer
  <2> QED
    BY <1>11, <2>2, <2>3, DeviceWorksKeeps
<1>12. CASE UNCHANGED vars
  BY <1>2, <1>12 DEF vars
<1> QED
  BY <1>4, <1>5, <1>6, <1>7, <1>8, <1>9, <1>10, <1>11, <1>12 DEF Waits, Works

\* The effects these commands are after.
LEMMA EffectIs ==
    ASSUME NEW d \in Devices, NEW m
    PROVE  LET e == Effect([d EXCEPT !.rcvd = d.rcvd + 1], m) IN
           /\ m \in {"set_password", "restore_from_mnemonic"} => e.initialized
           /\ m = "create_backup" => e.backup /\ e.initialized = d.initialized
           /\ m = "enable_passphrase" => e.passphrase
           /\ m = "disable_passphrase" => ~e.passphrase
<1> DEFINE f == [d EXCEPT !.rcvd = d.rcvd + 1]
<1>1. d.rcvd + 1 \in Nat
  BY DEF Devices
<1>2. f \in Devices /\ f.initialized = d.initialized
  BY <1>1 DEF Devices
<1> HIDE DEF f
<1>3. m \in {"set_password", "restore_from_mnemonic"} => Effect(f, m).initialized
  BY <1>2 DEF Effect, Devices
<1>4. m = "create_backup" => Effect(f, m).backup /\ Effect(f, m).initialized = d.initialized
  BY <1>2 DEF Effect, Devices
<1>5. m = "enable_passphrase" => Effect(f, m).passphrase
  BY <1>2 DEF Effect, Devices
<1>6. m = "disable_passphrase" => ~Effect(f, m).passphrase
  BY <1>2 DEF Effect, Devices
<1> QED
  BY <1>3, <1>4, <1>5, <1>6 DEF f

\* While the host waits the promises of the commands are kept.
LEMMA WaitsShaped ==
    ASSUME Base, EffectShape, Waits
    PROVE  EffectShape'
<1>1. /\ dev \in Devices /\ host'.cmd = host.cmd /\ host'.todo = host.todo /\ host'.outcome = host.outcome
      /\ host'.last = host.last /\ host'.seen = host.seen /\ host'.chan = host.chan /\ host'.lost = host.lost
  BY DEF Base, Types, Waits, Continues, SameChannel
<1>2. host.outcome = "ok" \/ host.cmd # "none" => host.open
  BY Idle DEF Base, HostShape, NoHost
<1>3. ASSUME host.open, NEW c, Reached(c), host.todo = <<>> PROVE SameEffect
  <2>1. host.q = "none" /\ host.chan # 0 /\ ~host.lost
    BY <1>3, Idle DEF Base, Reached
  <2> QED
    BY <1>3, <2>1, WaitsEffect
<1>4. ASSUME host.cmd \in EffectCommands, host.todo # <<>>, AtMethod(Now.m), host.open, host.chan # 0
      PROVE  AtMethod(Now.m)'
  <2>1. Now' = Now
    BY <1>1 DEF Now
  <2>2. CASE /\ SameEffect /\ (Answer("done")' <=> Answer("done"))
             /\ Answer("info")' => job'.ans.passphrase = dev.passphrase \/ (Answer("info") /\ job' = job)
    BY <1>1, <1>4, <2>1, <2>2 DEF AtMethod, SameEffect
  <2>3. CASE /\ ~Answer("done") /\ (Answer("done")' <=> host.q = "poll") /\ ~Answer("info")'
             /\ dev' = Effect([dev EXCEPT !.rcvd = dev.rcvd + 1], job.step.m)
             /\ host.q = "poll" => job.step = Now
             /\ host.q # "poll" => host.lost \/ host.chan = 0
    <3>1. CASE host.q = "poll"
      <4>1. /\ Now.m \in {"set_password", "restore_from_mnemonic"} => dev'.initialized
            /\ Now.m = "create_backup" => dev'.backup /\ dev'.initialized = dev.initialized
            /\ Now.m = "enable_passphrase" => dev'.passphrase
            /\ Now.m = "disable_passphrase" => ~dev'.passphrase
        BY <1>1, <2>3, <3>1, EffectIs
      <4> QED
        BY <1>1, <1>4, <2>1, <2>3, <3>1, <4>1 DEF AtMethod
    <3>2. CASE host.q # "poll"
      <4>1. host.lost
        BY <1>4, <2>3, <3>2
      <4> QED
        BY <1>1, <1>4, <2>1, <2>3, <3>2, <4>1 DEF AtMethod
    <3> QED
      BY <3>1, <3>2
  <2> QED
    BY <1>4, <2>2, <2>3, WaitsEffect
<1>5. host.outcome = "ok" => host.todo = <<>>
  BY DEF Base, HostShape
<1>6. host.cmd \in EffectCommands => host.cmd # "none"
  BY DEF EffectCommands
<1>7. Now' = Now
  BY <1>1 DEF Now
<1>8. (host.cmd \in EffectCommands /\ ~Connects(host.todo) =>
          /\ host.chan # 0 /\ host.todo \in Left(host.cmd)
          /\ IF host.todo = <<>> THEN Reached(host.cmd) ELSE AtMethod(Now.m))'
  <2>1. SUFFICES ASSUME host.cmd \in EffectCommands, ~Connects(host.todo)
                 PROVE  IF host.todo = <<>> THEN Reached(host.cmd)' ELSE AtMethod(Now.m)'
    BY <1>1 DEF EffectShape
  <2>2. CASE host.todo = <<>>
    <3>1. Reached(host.cmd) /\ SameEffect
      BY <1>2, <1>3, <1>6, <2>1, <2>2 DEF EffectShape
    <3> QED
      BY <1>1, <2>2, <3>1 DEF Reached, SameEffect
  <2>3. CASE host.todo # <<>>
    BY <1>2, <1>4, <1>6, <2>1, <2>3 DEF EffectShape
  <2> QED
    BY <2>2, <2>3
<1>9. (host.outcome = "ok" /\ host.last \in EffectCommands => Reached(host.last))'
  <2>1. SUFFICES ASSUME host.outcome = "ok", host.last \in EffectCommands PROVE Reached(host.last)'
    BY <1>1
  <2>2. Reached(host.last) /\ SameEffect
    BY <1>2, <1>3, <1>5, <2>1 DEF EffectShape
  <2> QED
    BY <1>1, <2>2 DEF Reached, SameEffect
<1> QED
  BY <1>8, <1>9 DEF EffectShape

\* The answer to a step of these commands.
LEMMA AnsweredShaped ==
    ASSUME Base, AnswerShape, EffectShape, Answered
    PROVE  EffectShape'
<1>1. /\ host.q = "poll" /\ job.st = "done" /\ Runs(host.todo) /\ ~host.lost /\ Continues(host'.todo)
      /\ host'.chan = host.chan /\ ~host'.lost /\ host'.q = "none" /\ dev' = dev
  BY ReceiveCases DEF Answered, Proceeds, SameChannel
<1>2. /\ host.todo # <<>> /\ host.cmd # "none" /\ job.step = Now /\ host.todo \in Seq(Steps) /\ Now = Head(host.todo)
      /\ host.outcome # "ok"
  BY <1>1, Polling DEF Base, HostShape
<1>3. ~Connects(host.todo)
  BY <1>1, <1>2, RunsHead
<1>4. host'.cmd = host.cmd /\ host'.outcome = host.outcome
  BY <1>1 DEF Continues
<1>5. SUFFICES ASSUME host.cmd \in EffectCommands
      PROVE  /\ host'.chan # 0 /\ host'.todo \in Left(host.cmd)
             /\ IF host'.todo = <<>> THEN Reached(host.cmd)' ELSE AtMethod(Now.m)'
  BY <1>2, <1>4 DEF EffectShape
<1>6. host.chan # 0 /\ host.todo \in Left(host.cmd) /\ AtMethod(Now.m)
  BY <1>2, <1>3, <1>5 DEF EffectShape
<1>7. /\ ~Now.nonce
      /\ Now.op = (IF Now.m = "device_info" THEN "toggle" ELSE "query") /\ Now.m \in Simple \cup {"device_info"}
      /\ Now.m = "device_name" => /\ Tail(host.todo) \in {<<Password, Backup>>, <<Restore>>}
                                  /\ Tail(host.todo) \in Left(host.cmd)
      /\ Now.m = "set_password" => Tail(host.todo) = <<Backup>> /\ host.cmd = "setup_device"
      /\ Now.m = "create_backup" => Tail(host.todo) = <<>> /\ host.cmd = "setup_device"
      /\ Now.m = "restore_from_mnemonic" => Tail(host.todo) = <<>> /\ host.cmd = "restore_device"
      /\ Now.m = "device_info" => host.cmd = "toggle_passphrase"
      /\ Now.m \in {"enable_passphrase", "disable_passphrase"}
            => Tail(host.todo) = <<>> /\ host.cmd = "toggle_passphrase"
  <2>1. LeftStep(host.cmd, host.todo)
    BY <1>2, <1>5, <1>6, LeftSteps
  <2> QED
    BY <1>2, <2>1 DEF LeftStep
<1>8. ~Answer("done")' /\ ~Answer("info")'
  BY <1>1 DEF Answer
<1>9. CASE Now.m = "device_info"
  <2>1. job.ans.kind = "info"
    <3>1. Fits(Now, job.ans)
      BY <1>1, ReceiveCases DEF Answered
    <3>2. job.ans.kind \in {"info", "error", "noise"}
      BY <1>7, <1>9, <3>1 DEF Fits
    <3> QED
      BY <1>7, <1>9, <3>2 DEF Answered, Proceeds
  <2>2. host'.todo = Toggled(job.ans.passphrase) /\ host'.seen = job.ans.passphrase /\ Now.op = "toggle"
    BY <1>7, <1>9, <2>1 DEF Answered, Proceeds
  <2>3. job.ans.passphrase = dev.passphrase /\ dev.passphrase \in BOOLEAN
    BY <1>1, <1>6, <1>9, <2>1 DEF AtMethod, Answer, Base, Types, Devices
  <2>4. PICK e, d :
          /\ enable_mnemonic_passphrase = <<e>> /\ disable_mnemonic_passphrase = <<d>>
          /\ e.m = "enable_passphrase" /\ d.m = "disable_passphrase"
    BY PassphraseSteps
  <2>5. host.cmd = "toggle_passphrase"
    BY <1>7, <1>9
  <2>6. host'.todo \in Left(host.cmd)
    BY <2>2, <2>5 DEF Left, Toggled
  <2>7. /\ host'.todo # <<>>
        /\ Head(host'.todo).m = IF dev.passphrase THEN "disable_passphrase" ELSE "enable_passphrase"
    BY <2>2, <2>3, <2>4 DEF Toggled
  <2>8. AtMethod(Now.m)'
    BY <1>1, <1>8, <2>2, <2>3, <2>7 DEF AtMethod, Now
  <2> QED
    BY <1>1, <1>6, <2>6, <2>7, <2>8
<1>10. CASE Now.m # "device_info"
  <2>1. job.ans.kind \in {"done", "error", "noise"}
    BY <1>1, <1>2, <1>7, <1>10 DEF AnswerShape
  <2>2. job.ans.kind = "done" /\ host'.todo = Tail(host.todo) /\ host'.seen = host.seen
    BY <1>7, <1>10, <2>1 DEF Answered, Proceeds
  <2>3. Answer("done")
    BY <1>1, <2>2 DEF Answer
  <2>4. \A a, b : <<a, b>> # <<>> /\ <<a>> # <<>> /\ Head(<<a, b>>) = a /\ Head(<<a>>) = a
    OBVIOUS
  <2>5. CASE Now.m = "device_name"
    <3>0. host'.todo \in {<<Password, Backup>>, <<Restore>>} /\ Now' = Head(host'.todo)
      BY <1>7, <2>2, <2>5 DEF Now
    <3>1. host'.todo # <<>> /\ Now'.m \in {"set_password", "restore_from_mnemonic"}
      BY <2>4, <3>0, EffectSteps
    <3>2. AtMethod(Now.m)'
      BY <1>8, <3>1 DEF AtMethod
    <3> QED
      BY <1>1, <1>6, <1>7, <2>2, <2>5, <3>1, <3>2
  <2>6. CASE Now.m = "set_password"
    <3>1. host'.todo = <<Backup>> /\ host.cmd = "setup_device"
      BY <1>7, <2>2, <2>6
    <3>2. host'.todo # <<>> /\ Now'.m = "create_backup"
      BY <2>4, <3>1, EffectSteps DEF Now
    <3>3. dev'.initialized
      BY <1>1, <1>6, <2>3, <2>6 DEF AtMethod
    <3>4. AtMethod(Now.m)'
      BY <1>1, <1>8, <3>2, <3>3 DEF AtMethod
    <3>5. host'.todo \in Left(host.cmd)
      BY <3>1 DEF Left
    <3> QED
      BY <1>1, <1>6, <3>2, <3>4, <3>5
  <2>7. CASE Now.m \in Simple \ {"device_name", "set_password"}
    <3>1. host'.todo = <<>>
      BY <1>7, <2>2, <2>7 DEF Simple
    <3>2. <<>> \in Left(host.cmd)
      BY DEF Left
    <3>3. CASE Now.m = "create_backup"
      BY <1>1, <1>4, <1>6, <1>7, <2>3, <3>1, <3>2, <3>3 DEF AtMethod, Reached
    <3>4. CASE Now.m = "restore_from_mnemonic"
      BY <1>1, <1>4, <1>6, <1>7, <2>3, <3>1, <3>2, <3>4 DEF AtMethod, Reached
    <3>5. CASE Now.m = "enable_passphrase"
      BY <1>1, <1>4, <1>6, <1>7, <2>2, <2>3, <3>1, <3>2, <3>5 DEF AtMethod, Reached
    <3>6. CASE Now.m = "disable_passphrase"
      BY <1>1, <1>4, <1>6, <1>7, <2>2, <2>3, <3>1, <3>2, <3>6 DEF AtMethod, Reached
    <3> QED
      BY <2>7, <3>3, <3>4, <3>5, <3>6 DEF Simple
  <2> QED
    BY <1>7, <1>10, <2>5, <2>6, <2>7
<1> QED
  BY <1>9, <1>10

\* A command begins with the device as it is.
LEMMA EffectBegins ==
    ASSUME Base, host'.q = "none", host'.chan # 0, host'.outcome # "ok", NEW ver, NEW c \in EffectCommands,
           host'.cmd = c, host'.todo = Program(c, ver)
    PROVE  EffectShape'
<1>1. ~Answer("done")' /\ ~Answer("info")'
  BY DEF Answer
<1>2. \A a, b, d : /\ Head(<<a, b, d>>) = a /\ <<a, b, d>> # <<>>
                   /\ Head(<<a, b>>) = a /\ <<a, b>> # <<>> /\ Head(<<a>>) = a /\ <<a>> # <<>>
  OBVIOUS
<1>3. PICK q : toggle_passphrase = <<q>> /\ q.m = "device_info"
  BY PassphraseSteps
<1>4. /\ host'.todo \in Left(c) /\ host'.todo # <<>>
      /\ Head(host'.todo).m \in {"device_name", "device_info"}
  <2>1. CASE c = "setup_device"
    BY <1>2, <2>1, EffectPrograms, EffectSteps DEF Left
  <2>2. CASE c = "restore_device"
    BY <1>2, <2>2, EffectPrograms, EffectSteps DEF Left
  <2>3. CASE c = "toggle_passphrase"
    BY <1>2, <1>3, <2>3, EffectPrograms DEF Left
  <2> QED
    BY <2>1, <2>2, <2>3 DEF EffectCommands
<1>5. AtMethod(Now.m)'
  BY <1>1, <1>4 DEF AtMethod, Now
<1> QED
  BY <1>4, <1>5 DEF EffectShape

\* Every step keeps the promises of the commands.
LEMMA NextEffect == ASSUME Base, AnswerShape, EffectShape, [Next]_vars PROVE EffectShape'
<1>1. host \in Hosts
  BY DEF Base, Types
<1>2. ASSUME host'.cmd \notin EffectCommands, host'.outcome # "ok" PROVE EffectShape'
  BY <1>2 DEF EffectShape
<1>3. CASE Over
  BY <1>2, <1>3 DEF Over, EffectCommands
<1>4. CASE Pairs
  <2>1. host.todo # <<>> /\ host.outcome # "ok"
    BY <1>4, Idle DEF Pairs, Connects, Base, HostShape
  <2> QED
    BY <1>4, <2>1 DEF Pairs, Continues, EffectShape
<1>5. CASE Starts
  <2>1. host.todo # <<>> /\ host.cmd # "none"
    BY <1>5, Idle DEF Starts, Connects, Base
  <2>2. host.bb02 /\ host.chan # 0 /\ host.outcome # "ok"
    BY <1>5, <2>1 DEF Starts, Base, HostShape
  <2>3. /\ host'.q = "none" /\ host'.chan # 0 /\ host'.outcome # "ok" /\ host'.cmd = host.cmd
        /\ host'.todo = Program(host.cmd, dev.ver)
    BY <1>5, <2>2 DEF Starts, SameChannel, Continues
  <2> QED
    BY <1>2, <2>3, EffectBegins
<1>6. ASSUME host.todo # <<>>, host.cmd \in EffectCommands
      PROVE  /\ Now.on \in {{}, {"generic"}}
             /\ Runs(host.todo) => Now.op \in {"query", "toggle"} /\ Now.m \in Simple \cup {"device_info"}
  <2>1. host.todo \in Seq(Steps) /\ Now = Head(host.todo)
    BY <1>6, NowType
  <2>2. CASE Connects(host.todo)
    BY <1>6, <2>1, <2>2, ConnectsHead, RunsHead
  <2>3. CASE ~Connects(host.todo)
    <3>1. host.todo \in Left(host.cmd)
      BY <1>6, <2>3 DEF EffectShape
    <3>2. LeftStep(host.cmd, host.todo)
      BY <1>6, <3>1, LeftSteps
    <3> QED
      BY <2>1, <3>2 DEF LeftStep
  <2> QED
    BY <2>2, <2>3
<1>7. CASE Skips
  <2>1. /\ host.todo # <<>> /\ Runs(host.todo) /\ (Now.op = "need" \/ Now.m = "info_again")
        /\ host'.cmd = host.cmd /\ host'.outcome = host.outcome
    BY <1>7 DEF Skips, Continues
  <2>2. host.cmd \notin EffectCommands
    BY <1>6, <2>1 DEF Simple
  <2>3. host.outcome # "ok"
    BY <2>1, Idle DEF Base, HostShape
  <2> QED
    BY <1>2, <2>1, <2>2, <2>3
<1>8. CASE Waits
  BY <1>8, WaitsShaped
<1>9. CASE Answered
  BY <1>9, AnsweredShaped
<1>10. CASE Signed
  <2>1. host.q = "poll" /\ Now.op = "sign"
    BY <1>10 DEF Signed, Receive
  <2>2. host.todo # <<>> /\ host.outcome # "ok"
    BY <2>1, Polling DEF Base, HostShape
  <2>3. Runs(host.todo)
    BY <2>1, <2>2, ConnectsOr
  <2>4. host.cmd \notin EffectCommands
    BY <1>6, <2>1, <2>2, <2>3
  <2>5. Over \/ (host'.cmd = host.cmd /\ host'.outcome = host.outcome)
           \/ (host'.cmd \in {"none", "enumerate"} /\ host'.outcome # "ok")
    BY <1>10, SignMoves DEF Contributes, TakesInput, TakesOther, TurnMoves, Continues
  <2> QED
    BY <1>2, <1>3, <2>2, <2>4, <2>5 DEF EffectCommands
<1>11. CASE Leaves
  <2>1. host.todo # <<>> /\ "gone" \in Now.on /\ host'.cmd = "none" /\ host'.last = host.cmd
    BY <1>11 DEF Leaves
  <2>2. host'.last \notin EffectCommands
    BY <1>6, <2>1
  <2> QED
    BY <2>1, <2>2 DEF EffectShape, EffectCommands
<1>12. CASE Return
  <2>1. host.cmd # "none" /\ host.todo = <<>> /\ host' = Ended(host, "ok") /\ UNCHANGED dev
    BY <1>12 DEF Return
  <2>2. /\ host'.cmd = "none" /\ host'.last = host.last /\ host.last = host.cmd
        /\ host'.chan = host.chan /\ host'.lost = host.lost /\ host'.seen = host.seen
    BY <1>1, <2>1, EndedFacts DEF SameLink, Outcomes, Base, HostShape
  <2>3. host.cmd \in EffectCommands => Reached(host.cmd)
    BY <2>1 DEF EffectShape, Connects
  <2> QED
    BY <2>1, <2>2, <2>3 DEF EffectShape, Reached, EffectCommands
<1>13. ASSUME NEW c \in Commands, Begin(c) PROVE EffectShape'
  <2>1. /\ host'.todo = (IF host.bb02 THEN Program(c, dev.ver) ELSE <<Step("raw", "info")>>)
        /\ host'.cmd = c /\ host'.outcome = "none" /\ host'.q = host.q /\ host'.chan = host.chan /\ host.cmd = "none"
    BY <1>1, <1>13 DEF Begin, Hosts
  <2>2. host'.q = "none"
    BY <2>1 DEF Base, HostShape
  <2>3. CASE host.bb02
    <3>1. host'.chan # 0
      BY <2>1, <2>3 DEF Base, HostShape
    <3>2. CASE c \in EffectCommands
      BY <2>1, <2>2, <2>3, <3>1, <3>2, EffectBegins
    <3>3. CASE c \notin EffectCommands
      BY <1>2, <2>1, <3>3
    <3> QED
      BY <3>2, <3>3
  <2>4. CASE ~host.bb02
    <3>1. Connects(host'.todo)
      BY <2>1, <2>4, ConnectsSingle DEF PairingEnds
    <3> QED
      BY <2>1, <3>1 DEF EffectShape
  <2> QED
    BY <2>3, <2>4
<1> QED
  BY <1>3, <1>4, <1>5, <1>7, <1>8, <1>9, <1>10, <1>11, <1>12, <1>13, StepCases

\* setup_device, restore_device and toggle_passphrase return True only when
\* the device is in the state they promise, whatever was interrupted, left at
\* work or answered late before.
THEOREM CommandsTakeEffect == Spec => []CommandEffect
<1>1. Init => AnswerShape /\ EffectShape
  <2>1. SUFFICES ASSUME Init PROVE AnswerShape /\ EffectShape
    OBVIOUS
  <2>2. host.cmd = "none" /\ host.outcome = "none" /\ job.st = "none"
    BY <2>1 DEF Init, NoHost, NoJob
  <2> QED
    BY <2>2 DEF AnswerShape, EffectShape, EffectCommands
<1>2. Base /\ AnswerShape /\ EffectShape /\ [Next]_vars => AnswerShape' /\ EffectShape'
  BY NextAnswered, NextEffect
<1>3. EffectShape => CommandEffect
  BY DEF EffectShape, CommandEffect, EffectCommands, Reached
<1> QED
  BY <1>1, <1>2, <1>3, AlwaysBase, PTL DEF Spec
=============================================================================
