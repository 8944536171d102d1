--------------------------- MODULE MCLedgerMerkle ---------------------------
(* LedgerMerkle with two leaf values.                                      *)
EXTENDS LedgerMerkle

MCValues == {<<"a">>, <<"b">>}
=============================================================================
