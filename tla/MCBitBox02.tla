----------------------------- MODULE MCBitBox02 -----------------------------
(***************************************************************************)
(* The versions are one on each side of every comparison that changes what *)
(* the host sends; the transaction has an ECDSA and a Schnorr input.       *)
(***************************************************************************)
EXTENDS BitBox02

MCVersions == {V(1, 0), V(2, 0), V(3, 0), V(7, 0), V(9, 3), V(9, 12), V(9, 23), V(10, 0)}
MCInputs == <<[schnorr |-> FALSE, prev |-> TRUE], [schnorr |-> TRUE, prev |-> TRUE]>>
MCCommands == {"setup_device", "restore_device", "wipe_device", "toggle_passphrase", "sign_tx", "enumerate"}
MCAlone ==
    {"sign_tx_multisig", "sign_message", "sign_message_test", "backup_device", "get_pubkey_at_path",
     "display_singlesig_address", "display_bip388_policy_address", "display_multisig_address", "register_descriptor",
     "sdcard", "names", "bip85", "scripts", "eth", "eth_new", "cardano", "bluetooth", "reboot"}
MCAll == MCCommands \cup MCAlone
=============================================================================
