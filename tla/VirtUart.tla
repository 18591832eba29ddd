----------------------------- MODULE VirtUart ------------------------------
(***************************************************************************)
(* One ring of the virtual UART in console/console.hpp: struct queues keeps*)
(* two of them in X280 DRAM, rx (the host pushes, OpenSBI pops) and tx     *)
(* (OpenSBI pushes, the host pops).  "Must match what is in OpenSBI" says  *)
(* the source, so both ends of both rings run push_char / pop_char below.  *)
(*                                                                         *)
(* Each action is one access to shared memory.  The producer is the only   *)
(* writer of buf and head and the consumer the only writer of tail, so a   *)
(* check reads one index that the other side may be changing.  The release *)
(* fences and the volatile accesses keep the two stores of a push, and the *)
(* load and the store of a pop, in program order.                          *)
(*                                                                         *)
(* The tool may be killed between any two accesses and started again: the  *)
(* ring in DRAM survives, the thread's locals do not.                      *)
(***************************************************************************)
EXTENDS Integers, Sequences

CONSTANTS N,          \* BUFFER_SIZE
          Chars,      \* the characters sent
          NoChar,     \* what an unused slot or local holds
          MaxSent,    \* bound: pushes per behaviour
          MaxKills    \* bound: times an end is killed and started again

ASSUME NAssumption == N \in Nat /\ N > 1
ASSUME NoCharAssumption == NoChar \notin Chars
ASSUME BoundAssumption == MaxSent \in Nat /\ MaxKills \in Nat

VARIABLES buf,        \* rx_buf or tx_buf
          head,       \* rx_head or tx_head, written by the producer
          tail,       \* rx_tail or tx_tail, written by the consumer
          ppc,        \* where the producer is in push_char
          pchar,      \* push_char's argument c
          cpc,        \* where the consumer is in pop_char
          cchar,      \* pop_char's local c
          sent,       \* history: the characters published, in order
          received,   \* history: the characters pop_char returned, in order
          kills       \* bounds the kills

ringVars == <<buf, head, tail>>
prodVars == <<ppc, pchar>>
consVars == <<cpc, cchar>>
histVars == <<sent, received>>
vars == <<buf, head, tail, ppc, pchar, cpc, cchar, sent, received, kills>>

Slots == 0 .. N - 1

Init ==
    /\ buf = [i \in Slots |-> NoChar]
    /\ head = 0 /\ tail = 0
    /\ ppc = "idle" /\ pchar = NoChar
    /\ cpc = "idle" /\ cchar = NoChar
    /\ sent = << >> /\ received = << >>
    /\ kills = 0

\* Mutants of can_push: the full ring not recognised, and no wrap at the end.
CanPushWhenFull == TRUE
CanPushToTheEnd == head + 1 < N

can_push == ((head % N) + 1) % N # tail % N

\* Mutants of can_pop: the empty ring not recognised, and an order on indices
\* that wrap.
CanPopWhenEmpty == TRUE
CanPopNoWrap == head > tail

can_pop == head % N # tail % N

\* Mutant of Advance: the index runs past the buffer.
AdvanceNoWrap(i) == i + 1

\* The next value of head or tail.
Advance(i) == (i + 1) % N

\* push_char(q, c) is called; it spins on can_push first.
PushCall(c) ==
    /\ ppc = "idle" /\ Len(sent) < MaxSent
    /\ ppc' = "spin" /\ pchar' = c
    /\ UNCHANGED <<ringVars, consVars, histVars, kills>>

\* The spin on can_push ends: there is a free slot.
PushCheck ==
    /\ ppc = "spin" /\ can_push
    /\ ppc' = "write"
    /\ UNCHANGED <<ringVars, pchar, consVars, histVars, kills>>

\* The character goes into the slot at head, which nobody reads yet.
PushWrite ==
    /\ ppc = "write"
    /\ buf' = [buf EXCEPT ![head % N] = pchar]
    /\ ppc' = "publish"
    /\ UNCHANGED <<head, tail, pchar, consVars, histVars, kills>>

\* After the release fence the new head makes the character visible.
PushPublish ==
    /\ ppc = "publish"
    /\ head' = Advance(head)
    /\ sent' = Append(sent, pchar)
    /\ ppc' = "idle" /\ pchar' = NoChar
    /\ UNCHANGED <<buf, tail, consVars, received, kills>>

\* pop_char's spin on can_pop ends: there is a character.
PopCheck ==
    /\ cpc = "idle" /\ can_pop
    /\ cpc' = "read"
    /\ UNCHANGED <<ringVars, prodVars, cchar, histVars, kills>>

PopRead ==
    /\ cpc = "read"
    /\ cchar' = buf[tail % N]
    /\ cpc' = "publish"
    /\ UNCHANGED <<ringVars, prodVars, histVars, kills>>

\* After the release fence the slot goes back to the producer.
PopPublish ==
    /\ cpc = "publish"
    /\ tail' = Advance(tail)
    /\ received' = Append(received, cchar)
    /\ cpc' = "idle" /\ cchar' = NoChar
    /\ UNCHANGED <<buf, head, prodVars, sent, kills>>

\* The producer's process dies inside push_char; a new one starts idle.
ProducerKilled ==
    /\ ppc # "idle" /\ kills < MaxKills
    /\ ppc' = "idle" /\ pchar' = NoChar
    /\ kills' = kills + 1
    /\ UNCHANGED <<ringVars, consVars, histVars>>

\* The consumer's process dies inside pop_char; a new one starts idle.
ConsumerKilled ==
    /\ cpc # "idle" /\ kills < MaxKills
    /\ cpc' = "idle" /\ cchar' = NoChar
    /\ kills' = kills + 1
    /\ UNCHANGED <<ringVars, prodVars, histVars>>

Push == PushCheck \/ PushWrite \/ PushPublish

Pop == PopCheck \/ PopRead \/ PopPublish

Next ==
    \/ \E c \in Chars : PushCall(c)
    \/ Push
    \/ Pop
    \/ ProducerKilled
    \/ ConsumerKilled

\* A push, once called, keeps running and the consumer keeps polling: neither
\* loop of the code blocks.  Nothing says that the producer calls again.
Spec == Init /\ [][Next]_vars /\ WF_vars(Push) /\ WF_vars(Pop)

-----------------------------------------------------------------------------
(* Properties *)

\* The type of every variable; the indices stay inside the buffer.
TypeOK ==
    /\ buf \in [Slots -> Chars \cup {NoChar}]
    /\ head \in Slots
    /\ tail \in Slots
    /\ ppc \in {"idle", "spin", "write", "publish"}
    /\ pchar \in Chars \cup {NoChar}
    /\ cpc \in {"idle", "read", "publish"}
    /\ cchar \in Chars \cup {NoChar}
    /\ sent \in Seq(Chars)
    /\ received \in Seq(Chars)
    /\ kills \in Nat

Pending == Len(sent) - Len(received)

\* The indices are the two counts of characters, modulo the buffer: head and
\* tail, each written by one side only, never disagree with what was sent.
IndicesCount ==
    /\ head = Len(sent) % N
    /\ tail = Len(received) % N

\* One slot always stays free, so that a full ring is not taken for an empty
\* one, and a producer past its check still has a slot to write to.
OneSlotFree ==
    /\ 0 <= Pending /\ Pending <= N - 1
    /\ ppc \in {"write", "publish"} => Pending <= N - 2

\* What was published and not yet received is in the buffer, in order, from
\* tail to head, whatever the producer is writing beside it.
PendingIntact ==
    \A k \in Len(received) .. Len(sent) - 1 : buf[k % N] = sent[k + 1]

\* Each side's locals: a producer past its write has its character in the slot
\* that head designates; a consumer past its check has something to receive,
\* and what it has read is the oldest character not yet received.
LocalsCurrent ==
    /\ ppc # "idle" => pchar \in Chars
    /\ ppc = "publish" => buf[Len(sent) % N] = pchar
    /\ cpc # "idle" => Len(received) < Len(sent)
    /\ cpc = "publish" => cchar = sent[Len(received) + 1]

\* The characters received are those sent, in order: the ring neither loses,
\* duplicates nor reorders a published character, kills included.
ReceivedIsPrefix ==
    /\ Len(received) <= Len(sent)
    /\ \A k \in 1 .. Len(received) : received[k] = sent[k]

\* The inductive invariant of the ring.
RingInv ==
    /\ TypeOK
    /\ IndicesCount
    /\ OneSlotFree
    /\ PendingIntact
    /\ LocalsCurrent
    /\ ReceivedIsPrefix

\* A store to the buffer never touches a slot that holds a character not yet
\* received: push_char's write lands outside the consumer's region.
NoOverwrite ==
    [][\A i \in Slots :
         (\E k \in Len(received) .. Len(sent) - 1 : k % N = i)
            => buf'[i] = buf[i]]_vars

Fifo == INSTANCE FifoChannel WITH Capacity <- N - 1

\* The ring implements a bounded FIFO channel of BUFFER_SIZE - 1 characters.
ImplementsFifo == Fifo!Spec

\* Every character published is received in the end, whatever is killed:
\* pop_char finds it, since its tail stays behind head.
Delivered ==
    \A k \in 1 .. MaxSent : Len(sent) >= k ~> Len(received) >= k

\* A push_char that found the ring full returns in the end (or is killed), as
\* long as the other end keeps popping.
PushReturns == (ppc = "spin") ~> (ppc = "idle")
=============================================================================
