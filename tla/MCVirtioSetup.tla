--------------------------- MODULE MCVirtioSetup ---------------------------
(* The handshake with both feature words asked for, high word first, and   *)
(* two or three queues.                                                    *)
EXTENDS VirtioSetup
MCFeatureWords == <<1, 0>>
MCAnyPacing == BOOLEAN
MCUnpaced == {FALSE}
=============================================================================
