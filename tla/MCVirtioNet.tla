---------------------------- MODULE MCVirtioNet ----------------------------
(* The network device for TLC.                                             *)
EXTENDS VirtioNet
MCReceiveQueue == {0}
=============================================================================
