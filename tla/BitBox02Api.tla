---------------------------- MODULE BitBox02Api ----------------------------
(***************************************************************************)
(* The methods of the BitBox02 library (bitbox02.py) and of the client in  *)
(* devices/bitbox02.py, as the queries they make.  A step is               *)
(*   "need"    a check of the firmware's version (_require_atleast),       *)
(*   "query"   an encrypted query,                                         *)
(*   "loop"    a query repeated as long as the device asks for more,       *)
(*   "unless"  a query whose positive answer makes the next step needless, *)
(*   "toggle"  device_info, whose answer decides which query comes next,   *)
(*   "sign"    the beginning of btc_sign.                                  *)
(* `on' says which failures the method turns into a result: ERR_GENERIC    *)
(* into False ("generic"), an OSError into True ("gone").                  *)
(***************************************************************************)
EXTENDS Naturals, Sequences

\* A firmware version; patch levels are never compared.
V(major, minor) == 100 * major + minor

Step(op, m) == [op |-> op, m |-> m, v |-> 0, on |-> {}, i |-> 0, commit |-> FALSE, nonce |-> FALSE]

Query(m) == <<Step("query", m)>>
Caught(m, failures) == <<[Step("query", m) EXCEPT !.on = failures]>>
Need(v) == <<[Step("need", "version") EXCEPT !.v = v]>>
When(c, steps) == IF c THEN steps ELSE <<>>

\* A signature of the anti-klepto protocol: a commitment to the host's nonce,
\* answered with the device's, then the nonce itself.
AntiKlepto(m) ==
    <<[Step("query", m) EXCEPT !.commit = TRUE],
      [Step("query", "antiklepto_signature") EXCEPT !.nonce = TRUE]>>

----------------------------------------------------------------------------
(* The library                                                             *)

device_info == Query("device_info")
set_device_name == Query("device_name")
set_password(size) == When(size = 16, Need(V(9, 6))) \o Caught("set_password", {"generic"})
create_backup == Caught("create_backup", {"generic"})
insert_sdcard == Query("insert_remove_sdcard")
check_sdcard == Query("check_sdcard")
list_backups == insert_sdcard \o Query("list_backups")
restore_backup == Query("restore_backup")
check_backup == insert_sdcard \o Caught("check_backup", {"generic"})
show_mnemonic == Query("show_mnemonic")
btc_xpub == Query("btc_pub")
btc_address == Query("btc_pub")
btc_is_script_config_registered == Query("is_script_config_registered")
btc_register_script_config(named) == When(~named, Need(V(9, 3))) \o Query("register_script_config")
root_fingerprint == Query("fingerprint")
electrum_encryption_key == Query("electrum_encryption_key")
bip85_bip39 == Need(V(9, 18)) \o Query("bip85")
bip85_ln == Need(V(9, 17)) \o Query("bip85")
enable_mnemonic_passphrase == Query("enable_passphrase")
disable_mnemonic_passphrase == Query("disable_passphrase")
eth_pub == Query("eth_pub")
reset == Caught("reset", {"generic", "gone"})
reboot == Caught("reboot", {"generic", "abort", "other", "gone"})
restore_from_mnemonic == Query("restore_from_mnemonic")
cardano_xpubs == Query("cardano_xpubs")
cardano_address == Query("cardano_address")
cardano_sign_transaction(tagged) == When(tagged, Need(V(9, 22))) \o Query("cardano_sign")
bluetooth_toggle_enabled == Query("bluetooth_toggle")

\* The firmware goes up in the chunks the device asks for.
bluetooth_upgrade == <<Step("loop", "bluetooth_upgrade")>>

btc_sign_msg(ver, test) ==
    Need(V(9, 2)) \o When(test, Need(V(9, 23)))
        \o (IF ver >= V(9, 5) THEN AntiKlepto("sign_message") ELSE Query("sign_message"))

eth_sign(ver, eip1559) ==
    When(eip1559, Need(V(9, 16)))
        \o (IF eip1559 \/ ver >= V(9, 5) THEN AntiKlepto("eth_sign") ELSE Query("eth_sign"))

eth_sign_msg(ver) == IF ver >= V(9, 5) THEN AntiKlepto("eth_sign_msg") ELSE Query("eth_sign_msg")

\* The values of the message are sent as the device asks for them.
eth_sign_typed_msg ==
    Need(V(9, 12)) \o <<[Step("loop", "eth_typed") EXCEPT !.commit = TRUE],
                        [Step("query", "antiklepto_signature") EXCEPT !.nonce = TRUE]>>

btc_sign(taproot) == When(taproot, Need(V(9, 10))) \o <<Step("sign", "btc_sign_init")>>

----------------------------------------------------------------------------
(* The client                                                              *)

_maybe_register_script_config(named) ==
    <<Step("unless", "is_script_config_registered")>>
        \o <<[Step("query", "register_script_config") EXCEPT !.v = IF named THEN 0 ELSE V(9, 3)]>>

\* Which of the cosigners the device is.
_multisig_scriptconfig == root_fingerprint \o btc_xpub

get_pubkey_at_path == btc_xpub
display_singlesig_address == btc_address
display_bip388_policy_address == root_fingerprint \o btc_address
display_multisig_address ==
    _multisig_scriptconfig \o _maybe_register_script_config(FALSE) \o btc_address
register_descriptor == _maybe_register_script_config(TRUE)

\* policy: with a registered descriptor; multisig: all scripts are one multisig.
sign_tx(policy, multisig, taproot) ==
    When(policy, root_fingerprint \o btc_xpub) \o root_fingerprint
        \o When(multisig, _multisig_scriptconfig \o _maybe_register_script_config(FALSE))
        \o btc_sign(taproot)

sign_message(ver, test) == btc_sign_msg(ver, test)
toggle_passphrase == <<Step("toggle", "device_info")>>
setup_device(label) == When(label, set_device_name) \o set_password(32) \o create_backup
wipe_device == reset
backup_device == show_mnemonic
restore_device(label) == When(label, set_device_name) \o restore_from_mnemonic
=============================================================================
