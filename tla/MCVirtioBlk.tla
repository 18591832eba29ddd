---------------------------- MODULE MCVirtioBlk ----------------------------
(* The block device for TLC: two requests fit the queue at a time.         *)
EXTENDS VirtioBlk
MCNoInput == {}
MCSectors == {0, 1}
=============================================================================
