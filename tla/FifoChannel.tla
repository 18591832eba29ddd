---------------------------- MODULE FifoChannel ----------------------------
(***************************************************************************)
(* What one direction of the virtual UART promises to its two users: a     *)
(* bounded first-in first-out channel.  Every character the producer has   *)
(* published is received exactly once, in order, and at most Capacity      *)
(* characters are published and not yet received.                          *)
(***************************************************************************)
EXTENDS Naturals, Sequences

CONSTANTS Chars,      \* the characters that may be sent
          Capacity    \* how many may be in the channel at once

VARIABLES sent,       \* everything published so far
          received    \* everything received so far

Init == sent = << >> /\ received = << >>

Send(c) ==
    /\ Len(sent) < Len(received) + Capacity
    /\ sent' = Append(sent, c)
    /\ UNCHANGED received

Receive ==
    /\ Len(received) < Len(sent)
    /\ received' = Append(received, sent[Len(received) + 1])
    /\ UNCHANGED sent

Next == (\E c \in Chars : Send(c)) \/ Receive

Spec == Init /\ [][Next]_<<sent, received>>
=============================================================================
