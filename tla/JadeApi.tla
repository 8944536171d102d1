------------------------------ MODULE JadeApi ------------------------------
(***************************************************************************)
(* The methods of jadepy's JadeAPI and of the client in devices/jade.py,   *)
(* as the exchanges they make with the device.  A step is a remote call    *)
(* that waits for its reply ("rpc"), one repeated until its result is true *)
(* ("until"), a request that is only written ("post") with the reading of  *)
(* its reply ("collect"), or a call whose reply comes in parts ("parts").  *)
(* Parameters appear where the device's answer depends on them.            *)
(***************************************************************************)
EXTENDS Naturals, Sequences

Step(op, m) == [op |-> op, m |-> m, long |-> FALSE, arg |-> 0, entropy |-> FALSE, ae |-> FALSE]

Rpc(m) == <<Step("rpc", m)>>

\* long_timeout: read_response goes on after the serial line's timeout.
LongRpc(m) == <<[Step("rpc", m) EXCEPT !.long = TRUE]>>

\* n steps made by one loop of the code
Loop(n, S(_)) == [i \in 1..n |-> S(i)]

----------------------------------------------------------------------------
(* One call each                                                           *)

ping == Rpc("ping")
get_version_info == Rpc("get_version_info")
add_entropy == Rpc("add_entropy")
set_epoch == Rpc("set_epoch")
logout == Rpc("logout")
run_remote_selfcheck == LongRpc("debug_selfcheck")
run_remote_gcov_dump == LongRpc("debug_gcov_dump")
capture_image_data == Rpc("debug_capture_image_data")
scan_qr == Rpc("debug_scan_qr")
clean_reset == Rpc("debug_clean_reset")
set_mnemonic == Rpc("debug_set_mnemonic")
set_seed == Rpc("debug_set_mnemonic")
get_bip85_bip39_entropy == Rpc("get_bip85_bip39_entropy")
get_bip85_rsa_entropy == Rpc("get_bip85_rsa_entropy")
set_pinserver == Rpc("update_pinserver")
reset_pinserver == Rpc("update_pinserver")
auth_user == LongRpc("auth_user")
register_otp == Rpc("register_otp")
get_otp_code == Rpc("get_otp_code")
get_xpub == Rpc("get_xpub")
get_registered_multisigs == Rpc("get_registered_multisigs")
get_registered_multisig == Rpc("get_registered_multisig")
register_multisig == Rpc("register_multisig")
register_multisig_file == Rpc("register_multisig")
get_registered_descriptors == Rpc("get_registered_descriptors")
get_registered_descriptor == Rpc("get_registered_descriptor")
register_descriptor == Rpc("register_descriptor")
get_receive_address == Rpc("get_receive_address")
sign_message_file == Rpc("sign_message")
get_bip85_pubkey == Rpc("get_bip85_pubkey")
sign_bip85_digests == Rpc("sign_bip85_digests")
get_identity_pubkey == Rpc("get_identity_pubkey")
get_identity_shared_key == Rpc("get_identity_shared_key")
sign_identity == Rpc("sign_identity")
sign_attestation == Rpc("sign_attestation")
get_master_blinding_key == Rpc("get_master_blinding_key")
get_blinding_key == Rpc("get_blinding_key")
get_shared_nonce == Rpc("get_shared_nonce")
get_blinding_factor == Rpc("get_blinding_factor")
get_commitments == Rpc("get_commitments")

----------------------------------------------------------------------------
(* Several exchanges                                                       *)

\* The firmware goes up in n pieces, each acknowledged.
ota_update(n, gcov_dump) ==
    Rpc("ota") \o Loop(n, LAMBDA i : Step("rpc", "ota_data"))
        \o (IF gcov_dump THEN run_remote_gcov_dump ELSE <<>>) \o Rpc("ota_complete")

\* With an anti-exfil signature the entropy goes out once the device has
\* committed to its nonce.
sign_message(ae) ==
    IF ae THEN <<[Step("rpc", "sign_message") EXCEPT !.ae = TRUE],
                 [Step("rpc", "get_signature") EXCEPT !.arg = 1, !.entropy = TRUE]>>
    ELSE Rpc("sign_message")

\* Mutant: the host's entropy is not taken out of the input before it is sent.
AeInputs_WithEntropy(n) ==
    Loop(n, LAMBDA i : [Step("rpc", "tx_input") EXCEPT !.arg = i, !.entropy = TRUE])

AeInputs(n) == Loop(n, LAMBDA i : [Step("rpc", "tx_input") EXCEPT !.arg = i])

AeSignatures(n) ==
    Loop(n, LAMBDA i : [Step("rpc", "get_signature") EXCEPT !.arg = i, !.entropy = TRUE])

\* _send_tx_inputs: with anti-exfil, every input and its commitment first and
\* then every signature; otherwise all inputs are written before the first
\* reply is read.
_send_tx_inputs(n, ae) ==
    IF ae THEN AeInputs(n) \o AeSignatures(n)
    ELSE Loop(n, LAMBDA i : [Step("post", "tx_input") EXCEPT !.arg = i])
           \o Loop(n, LAMBDA i : [Step("collect", "tx_input") EXCEPT !.arg = i])

\* The first message says how many inputs will follow.
sign_tx(n, ae) == <<[Step("rpc", "sign_tx") EXCEPT !.arg = n, !.ae = ae]>> \o _send_tx_inputs(n, ae)

sign_liquid_tx(n, ae) ==
    <<[Step("rpc", "sign_liquid_tx") EXCEPT !.arg = n, !.ae = ae]>> \o _send_tx_inputs(n, ae)

sign_psbt == <<Step("parts", "sign_psbt")>>

----------------------------------------------------------------------------
(* devices/jade.py                                                         *)

\* JadeClient.__init__ on real hardware: the version, whose answer may end
\* it, some entropy, and auth_user until the user has authenticated.
Client == get_version_info \o add_entropy \o <<[auth_user[1] EXCEPT !.op = "until"]>>

display_multisig_address == register_multisig \o get_receive_address

\* One round of legacy_sign_tx skips inputs with a witness program it does
\* not know, and offers the rest as the inputs of the whole transaction;
\* change outputs of multisigs are looked up before.
legacy_round(n, multisig) ==
    (IF multisig THEN get_registered_multisigs ELSE <<>>) \o sign_tx(n, TRUE)

\* The rounds after the first one are JadeRpc's SignAgain.
legacy_sign_tx(n, multisig) == get_xpub \o legacy_round(n, multisig)
=============================================================================
