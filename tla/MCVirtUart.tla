---------------------------- MODULE MCVirtUart -----------------------------
(* A ring of three slots: it fills up at two characters and wraps twice.   *)
EXTENDS VirtUart
CONSTANTS a, b
MCChars == {a, b}
=============================================================================
