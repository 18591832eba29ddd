--------------------------- MODULE MCVirtioDevice --------------------------
(* The device loop for TLC: one queue, long enough for the indices to wrap. *)
EXTENDS VirtioDevice
MCNoInput == {}
=============================================================================
