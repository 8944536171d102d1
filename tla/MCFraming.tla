----------------------------- MODULE MCFraming -----------------------------
(***************************************************************************)
(* With reports of ten bytes the first frame holds 3 bytes of U2F or of    *)
(* the Ledger, 1 of Trezor and 9 of the Coldcard, the next ones 5, 9 and   *)
(* 9.  The sizes are nothing, full frames and one byte more.               *)
(***************************************************************************)
EXTENDS Framing

MCSizes == {<<1, 10>>, <<10, 4>>, <<4, 3>>, <<9, 0>>}
=============================================================================
