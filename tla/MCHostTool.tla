----------------------------- MODULE MCHostTool ----------------------------
(* The tool for TLC: console, disk and network.                            *)
EXTENDS HostTool
MCSlots == 1 .. 3
=============================================================================
