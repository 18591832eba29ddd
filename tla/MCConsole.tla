----------------------------- MODULE MCConsole -----------------------------
(* A two-slot ring is full with one character.                             *)
EXTENDS Console
MCKeyChars == {"k", "x"}
MCOutChars == {"o", "p"}
=============================================================================
