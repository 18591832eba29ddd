---------------------------- MODULE VirtioDevice ---------------------------
(***************************************************************************)
(* VirtioDevice::device_loop of console/virtiodevice.hpp, with             *)
(* ack_interrupt and set_interrupt, against the virtio-mmio driver of the  *)
(* guest kernel.  The virtqueues and the registers are guest DRAM that both*)
(* sides access without locks; one action is one access (or a group of     *)
(* accesses of which the other side sees only the last).                   *)
(*                                                                         *)
(* The driver and the PLIC are not part of this repository: they are       *)
(* modelled from what the device code assumes of them.  The driver fills   *)
(* descriptors and the avail ring, then publishes avail->idx; it looks at  *)
(* the used ring only when interrupted, and only if interrupt_status has   *)
(* the VRING bit (comment at virtiodevice.hpp:185-188).  The PLIC latches  *)
(* the pulse that set_interrupt produces until the driver claims it.       *)
(*                                                                         *)
(* A chip reset stops the guest and replaces DRAM by zeros, or by all ones *)
(* when the tile does not answer; the loop notices by magic_value.         *)
(***************************************************************************)
EXTENDS Integers, Sequences

CONSTANTS NumQueues,     \* num_queues
          QueueSize,     \* queue_size, 16384 in the code
          IdxMod,        \* the modulus of a uint16_t index
          HeaderSize,    \* queue_header_size
          InputQueues,   \* queues whose queue_has_data may say no
          MaxReqs,       \* bound: requests per queue
          MaxChain       \* bound: descriptors per request

Queues == 0 .. NumQueues - 1

ASSUME QueuesAssumption == NumQueues \in Nat /\ NumQueues > 0
ASSUME SizeAssumption ==
    /\ QueueSize \in Nat /\ QueueSize > 0
    /\ IdxMod \in Nat
    /\ \E laps \in 2 .. IdxMod : IdxMod = QueueSize * laps
ASSUME BoundAssumption ==
    /\ HeaderSize \in Nat \ {0}
    /\ MaxReqs \in Nat /\ MaxChain \in Nat
    /\ InputQueues \subseteq Queues

DescIds == 0 .. QueueSize - 1
Idx == 0 .. IdxMod - 1
NoNext == -1     \* VRING_DESC_F_NEXT is not set
NoDesc == -1     \* no entry waits to be published

VARIABLES
    \* guest DRAM: the virtqueues
    desc,        \* descriptor table: len and next of each descriptor
    avail_ring, avail_idx,   \* written by the driver
    used_ring, used_idx,     \* written by the device
    \* guest DRAM: the mmio registers used while running
    magic_value,             \* TRUE while it reads "virt"
    interrupt_status,        \* its VRING bit
    interrupt_ack,           \* its VRING bit
    \* the device thread
    exit_thread_flag,
    pc, queue_idx, processed,
    desc_idx, desc_idx_first, num_bytes_written,
    calls,       \* the process_queue_* calls made for the current request
    \* the PLIC and the driver
    plic_pending,
    drv,         \* where the interrupt handler is
    drv_queue,   \* the queue the handler drains
    filled,      \* per queue, a head written to the avail ring, not published
    chain,       \* per queue and head, the descriptors of a request in flight
    last_used,   \* per queue, the driver's used index
    \* histories
    submitted, served, returned,
    stale        \* per queue, requests processed after the chip was reset

dram == <<desc, avail_ring, avail_idx, used_ring, used_idx>>
regs == <<magic_value, interrupt_status, interrupt_ack>>
request == <<desc_idx, desc_idx_first, num_bytes_written, calls>>
driver == <<drv, drv_queue, filled, chain, last_used>>
history == <<submitted, served, returned, stale>>
vars == <<dram, regs, exit_thread_flag, pc, queue_idx, processed, request,
          plic_pending, driver, history>>

ZeroDesc == [len |-> 0, next |-> NoNext]

Init ==
    /\ desc = [q \in Queues |-> [d \in DescIds |-> ZeroDesc]]
    /\ avail_ring = [q \in Queues |-> [s \in DescIds |-> 0]]
    /\ avail_idx = [q \in Queues |-> 0]
    /\ used_ring = [q \in Queues |-> [s \in DescIds |-> 0]]
    /\ used_idx = [q \in Queues |-> 0]
    /\ magic_value = TRUE /\ interrupt_status = FALSE /\ interrupt_ack = FALSE
    /\ exit_thread_flag = FALSE
    /\ pc = "top" /\ queue_idx = 0
    /\ processed = [q \in Queues |-> 0]
    /\ desc_idx = 0 /\ desc_idx_first = 0 /\ num_bytes_written = 0
    /\ calls = << >>
    /\ plic_pending = FALSE
    /\ drv = "idle" /\ drv_queue = 0
    /\ filled = [q \in Queues |-> NoDesc]
    /\ chain = [q \in Queues |-> [d \in DescIds |-> << >>]]
    /\ last_used = [q \in Queues |-> 0]
    /\ submitted = [q \in Queues |-> << >>]
    /\ served = [q \in Queues |-> << >>]
    /\ returned = [q \in Queues |-> << >>]
    /\ stale = [q \in Queues |-> 0]

-----------------------------------------------------------------------------
(* The device thread *)

\* Mutants of KeepsRunning: one of the two conditions not looked at.
KeepsRunningAfterReset == ~ exit_thread_flag
KeepsRunningAfterExit == magic_value

\* while (!exit_thread_flag), and the early return when the magic is lost.
KeepsRunning == ~ exit_thread_flag /\ magic_value

LoopReturn ==
    /\ pc = "top" /\ ~ KeepsRunning
    /\ pc' = "returned"
    /\ UNCHANGED <<dram, regs, exit_thread_flag, queue_idx, processed, request,
                   plic_pending, driver, history>>

\* Mutant of ack_interrupt: what its comments say one is "supposed to do".
AckClearsStatus ==
    /\ interrupt_status' = (interrupt_status /\ ~ interrupt_ack)
    /\ interrupt_ack' = FALSE

\* Reads interrupt_ack and does nothing about it.
ack_interrupt == UNCHANGED <<interrupt_status, interrupt_ack>>

LoopEnter ==
    /\ pc = "top" /\ KeepsRunning
    /\ ack_interrupt
    /\ pc' = "poll" /\ queue_idx' = 0
    /\ UNCHANGED <<dram, magic_value, exit_thread_flag, processed, request,
                   plic_pending, driver, history>>

\* Mutant of NextQueue: the loop ends one queue early.
NextQueueNotLast == queue_idx' = queue_idx /\ pc' = "top"

\* The for loop's increment, and usleep(1) after its last queue.
NextQueue ==
    \/ /\ queue_idx + 1 < NumQueues
       /\ queue_idx' = queue_idx + 1 /\ pc' = "poll"
    \/ /\ queue_idx + 1 = NumQueues
       /\ queue_idx' = queue_idx /\ pc' = "top"

\* Mutant of QueueLags: no test.
QueueLagsAlways(q) == TRUE

\* processed != avail_idx: our tail lags behind the driver's head.
QueueLags(q) == processed[q] # avail_idx[q]

PollIdle ==
    /\ pc = "poll"
    /\ ~ QueueLags(queue_idx) \/ queue_idx \in InputQueues
    /\ NextQueue
    /\ UNCHANGED <<dram, regs, exit_thread_flag, processed, request,
                   plic_pending, driver, history>>

PollBusy ==
    /\ pc = "poll"
    /\ QueueLags(queue_idx)
    /\ pc' = "fetch"
    /\ UNCHANGED <<dram, regs, exit_thread_flag, queue_idx, processed, request,
                   plic_pending, driver, history>>

\* Picks the head descriptor from the avail ring, at our own tail.
Fetch ==
    /\ pc = "fetch"
    /\ LET h == avail_ring[queue_idx][processed[queue_idx] % QueueSize]
       IN  desc_idx' = h /\ desc_idx_first' = h
    /\ num_bytes_written' = 0 /\ calls' = << >>
    /\ pc' = "walk"
    /\ UNCHANGED <<dram, regs, exit_thread_flag, queue_idx, processed,
                   plic_pending, driver, history>>

CurrentDesc == desc[queue_idx][desc_idx % QueueSize]

\* The calls of a request are kept while the chip is up.
Called(handler) ==
    calls' = IF magic_value
             THEN Append(calls, <<handler, desc_idx % QueueSize>>) ELSE calls

\* num_bytes_written += l, up to the only value the loop compares it to.
AddBytes(l) ==
    num_bytes_written' = IF num_bytes_written + l < HeaderSize
                         THEN num_bytes_written + l ELSE HeaderSize

\* Mutant of HandlerOfNext: the data behind a full header taken for header.
HandlerOffByOne == IF num_bytes_written <= HeaderSize THEN "start" ELSE "data"

\* Which handler a descriptor with a successor goes to.
HandlerOfNext == IF num_bytes_written < HeaderSize THEN "start" ELSE "data"

\* A descriptor with VRING_DESC_F_NEXT: header or data, then its successor.
WalkNext ==
    /\ pc = "walk" /\ CurrentDesc.next # NoNext
    /\ Called(HandlerOfNext)
    /\ AddBytes(CurrentDesc.len)
    /\ desc_idx' = CurrentDesc.next
    /\ UNCHANGED <<dram, regs, exit_thread_flag, pc, queue_idx, processed,
                   desc_idx_first, plic_pending, driver, history>>

Served ==
    /\ served' = IF magic_value
                 THEN [served EXCEPT ![queue_idx] = Append(@, desc_idx_first)]
                 ELSE served
    /\ stale' = IF magic_value
                THEN stale ELSE [stale EXCEPT ![queue_idx] = @ + 1]

\* The last descriptor of the chain: process_queue_complete.
WalkLast ==
    /\ pc = "walk" /\ CurrentDesc.next = NoNext
    /\ Called("complete")
    /\ AddBytes(CurrentDesc.len)
    /\ Served
    /\ pc' = "used"
    /\ UNCHANGED <<dram, regs, exit_thread_flag, queue_idx, processed, desc_idx,
                   desc_idx_first, plic_pending, driver, submitted, returned>>

\* Mutant of UsedId: the chain's last descriptor is reported.
UsedIdLast == desc_idx

\* The used entry names the head of the chain.
UsedId == desc_idx_first

UsedWrite ==
    /\ pc = "used"
    /\ used_ring' = [used_ring EXCEPT
                       ![queue_idx][used_idx[queue_idx] % QueueSize] = UsedId]
    /\ pc' = "publish"
    /\ UNCHANGED <<desc, avail_ring, avail_idx, used_idx, regs, exit_thread_flag,
                   queue_idx, processed, request, plic_pending, driver, history>>

\* Mutant of Incr: the index kept wider than 16 bits.
IncrNoWrap(i) == i + 1

\* The increment of a uint16_t.
Incr(i) == (i + 1) % IdxMod

\* After the fence, the new used index makes the entry visible.
UsedPublish ==
    /\ pc = "publish"
    /\ used_idx' = [used_idx EXCEPT ![queue_idx] = Incr(@)]
    /\ processed' = [processed EXCEPT ![queue_idx] = Incr(@)]
    /\ pc' = "status"
    /\ UNCHANGED <<desc, avail_ring, avail_idx, used_ring, regs, exit_thread_flag,
                   queue_idx, request, plic_pending, driver, history>>

\* Mutant of SetStatus: no new pulse while the bit is still set.
SetStatusOnce ==
    /\ pc = "status"
    /\ interrupt_status' = TRUE
    /\ IF interrupt_status THEN NextQueue ELSE pc' = "pulse" /\ UNCHANGED queue_idx
    /\ UNCHANGED <<dram, magic_value, interrupt_ack, exit_thread_flag,
                   processed, request, plic_pending, driver, history>>

\* set_interrupt: first the VRING bit of interrupt_status ...
SetStatus ==
    /\ pc = "status"
    /\ interrupt_status' = TRUE
    /\ pc' = "pulse"
    /\ UNCHANGED <<dram, magic_value, interrupt_ack, exit_thread_flag, queue_idx,
                   processed, request, plic_pending, driver, history>>

\* ... then, under interrupt_register_lock, our bit and 0 again.
Pulse ==
    /\ pc = "pulse"
    /\ plic_pending' = TRUE
    /\ NextQueue
    /\ UNCHANGED <<dram, regs, exit_thread_flag, processed, request, driver, history>>

\* A descriptor of a reset chip gives the handlers an address outside every
\* mapping, and the process dies (or, in the actions above, does not).
Crash ==
    /\ pc = "walk" /\ ~ magic_value
    /\ pc' = "crashed"
    /\ UNCHANGED <<dram, regs, exit_thread_flag, queue_idx, processed, request,
                   plic_pending, driver, history>>

device_loop ==
    \/ LoopReturn \/ LoopEnter \/ PollIdle \/ PollBusy \/ Fetch
    \/ WalkNext \/ WalkLast \/ UsedWrite \/ UsedPublish \/ SetStatus \/ Pulse
    \/ Crash

-----------------------------------------------------------------------------
(* The guest's driver and the rest of the world (external) *)

InFlight(q) == Len(submitted[q]) - Len(returned[q])

Busy(q) == UNION {{chain[q][d][i] : i \in 1 .. Len(chain[q][d])} : d \in DescIds}

\* The chains a driver may build from n free descriptors of queue q.
Chains(q) ==
    {c \in UNION {[1 .. n -> DescIds \ Busy(q)] : n \in 1 .. MaxChain} :
        \A i, j \in 1 .. Len(c) : i # j => c[i] # c[j]}

\* The same for a driver that takes the n lowest, the highest of them first, when
\* it has no entry to publish and the bound leaves it a request.
LowChains(q, n) ==
    LET Free == IF filled[q] = NoDesc /\ Len(submitted[q]) < MaxReqs
                THEN DescIds \ Busy(q) ELSE {}
    IN  {c \in [1 .. n -> Free] :
            /\ n \in 1 .. MaxChain
            /\ \A i, j \in 1 .. n : i < j => c[j] < c[i]
            /\ \A d \in Free : d < c[1] => \E i \in 1 .. n : c[i] = d}

\* Descriptor d of chain c: the header first, if it has a descriptor of its own.
DescOf(c, d) ==
    LET i == CHOOSE i \in 1 .. Len(c) : c[i] = d
    IN  [len |-> IF i = 1 /\ Len(c) > 1 THEN HeaderSize ELSE 1,
         next |-> IF i = Len(c) THEN NoNext ELSE c[i + 1]]

\* The driver writes a chain and the avail ring entry at its own index.
DriverFill(q, c) ==
    /\ magic_value
    /\ filled[q] = NoDesc /\ InFlight(q) < QueueSize
    /\ Len(submitted[q]) < MaxReqs
    /\ desc' = [desc EXCEPT ![q] =
                  [d \in DescIds |-> IF \E i \in 1 .. Len(c) : c[i] = d
                                     THEN DescOf(c, d) ELSE desc[q][d]]]
    /\ avail_ring' = [avail_ring EXCEPT ![q][avail_idx[q] % QueueSize] = c[1]]
    /\ chain' = [chain EXCEPT ![q][c[1]] = c]
    /\ filled' = [filled EXCEPT ![q] = c[1]]
    /\ UNCHANGED <<avail_idx, used_ring, used_idx, regs, exit_thread_flag, pc,
                   queue_idx, processed, request, plic_pending, drv, drv_queue, last_used,
                   history>>

\* The driver publishes the entry by advancing avail->idx.
DriverPublish(q) ==
    /\ magic_value
    /\ filled[q] # NoDesc
    /\ avail_idx' = [avail_idx EXCEPT ![q] = (@ + 1) % IdxMod]
    /\ submitted' = [submitted EXCEPT ![q] = Append(@, filled[q])]
    /\ filled' = [filled EXCEPT ![q] = NoDesc]
    /\ UNCHANGED <<desc, avail_ring, used_ring, used_idx, regs, exit_thread_flag, pc,
                   queue_idx, processed, request, plic_pending, drv, drv_queue, chain,
                   last_used, served, returned, stale>>

\* The guest claims the interrupt at the PLIC.
DriverClaim ==
    /\ magic_value
    /\ plic_pending /\ drv = "idle"
    /\ plic_pending' = FALSE /\ drv' = "claimed"
    /\ UNCHANGED <<dram, regs, exit_thread_flag, pc, queue_idx, processed, request,
                   drv_queue, filled, chain, last_used, history>>

\* The handler reads interrupt_status, acknowledges it, and looks at the
\* virtqueues only if the VRING bit is set.
DriverCheckStatus ==
    /\ magic_value
    /\ drv = "claimed"
    /\ interrupt_ack' = (interrupt_ack \/ interrupt_status)
    /\ drv' = IF interrupt_status THEN "drain" ELSE "idle"
    /\ drv_queue' = 0
    /\ UNCHANGED <<dram, magic_value, interrupt_status, exit_thread_flag, pc,
                   queue_idx, processed, request, plic_pending, filled, chain,
                   last_used, history>>

\* The handler takes the next used entry of queue q and frees its chain.
DriverTake(q) ==
    /\ magic_value
    /\ drv = "drain" /\ drv_queue = q /\ last_used[q] # used_idx[q]
    /\ LET h == used_ring[q][last_used[q] % QueueSize]
       IN  /\ returned' = [returned EXCEPT ![q] = Append(@, h)]
           /\ chain' = [chain EXCEPT ![q][h] = << >>]
    /\ last_used' = [last_used EXCEPT ![q] = (@ + 1) % IdxMod]
    /\ UNCHANGED <<dram, regs, exit_thread_flag, pc, queue_idx, processed, request,
                   plic_pending, drv, drv_queue, filled, submitted, served, stale>>

\* Nothing more in queue q: on to the next, or back from the interrupt.
DriverDrained(q) ==
    /\ magic_value
    /\ drv = "drain" /\ drv_queue = q /\ last_used[q] = used_idx[q]
    /\ \/ q + 1 < NumQueues /\ drv_queue' = q + 1 /\ UNCHANGED drv
       \/ q + 1 = NumQueues /\ drv' = "idle" /\ UNCHANGED drv_queue
    /\ UNCHANGED <<dram, regs, exit_thread_flag, pc, queue_idx, processed, request,
                   plic_pending, filled, chain, last_used, history>>

\* The console sets the flag.
SetExit ==
    /\ ~ exit_thread_flag
    /\ exit_thread_flag' = TRUE
    /\ UNCHANGED <<dram, regs, pc, queue_idx, processed, request, plic_pending,
                   driver, history>>

\* The chip is reset: the guest is gone; DRAM reads as zeros or as all ones.
ChipReset ==
    /\ magic_value
    /\ \E v \in {0, IdxMod - 1} :
         /\ desc' = [q \in Queues |-> [d \in DescIds |->
                       [len |-> v, next |-> IF v = 0 THEN NoNext ELSE v]]]
         /\ avail_ring' = [q \in Queues |-> [s \in DescIds |-> v]]
         /\ avail_idx' = [q \in Queues |-> v]
         /\ used_ring' = [q \in Queues |-> [s \in DescIds |-> v]]
         /\ used_idx' = [q \in Queues |-> v]
         /\ interrupt_status' = (v # 0)
         /\ interrupt_ack' = (v # 0)
    /\ magic_value' = FALSE
    /\ plic_pending' = FALSE /\ drv' = "idle" /\ drv_queue' = 0
    /\ filled' = [q \in Queues |-> NoDesc]
    /\ chain' = [q \in Queues |-> [d \in DescIds |-> << >>]]
    /\ last_used' = [q \in Queues |-> 0]
    /\ UNCHANGED <<exit_thread_flag, pc, queue_idx, processed, request, history>>

IrqHandler ==
    \/ DriverClaim \/ DriverCheckStatus
    \/ \E q \in Queues : DriverTake(q) \/ DriverDrained(q)

Guest ==
    \/ \E q \in Queues : \/ \E c \in Chains(q) : DriverFill(q, c)
                         \/ DriverPublish(q)
    \/ IrqHandler

Next == device_loop \/ Guest \/ SetExit \/ ChipReset

\* The device thread spins and the guest serves its interrupts; whether the
\* driver submits, the tool exits or the chip is reset is nobody's promise.
Spec == Init /\ [][Next]_vars /\ WF_vars(device_loop) /\ WF_vars(IrqHandler)

-----------------------------------------------------------------------------
(* Properties *)

Handlers == {"start", "data", "complete"}

\* The type of every variable.
TypeOK ==
    /\ desc \in [Queues -> [DescIds -> [len : Nat, next : Idx \cup {NoNext}]]]
    /\ avail_ring \in [Queues -> [DescIds -> Idx]]
    /\ avail_idx \in [Queues -> Idx]
    /\ used_ring \in [Queues -> [DescIds -> Idx]]
    /\ used_idx \in [Queues -> Idx]
    /\ magic_value \in BOOLEAN /\ interrupt_status \in BOOLEAN
    /\ interrupt_ack \in BOOLEAN /\ exit_thread_flag \in BOOLEAN
    /\ pc \in {"top", "poll", "fetch", "walk", "used", "publish", "status",
               "pulse", "returned", "crashed"}
    /\ queue_idx \in Queues
    /\ processed \in [Queues -> Idx]
    /\ desc_idx \in Idx /\ desc_idx_first \in Idx
    /\ num_bytes_written \in Nat
    /\ calls \in Seq(Handlers \X DescIds)
    /\ plic_pending \in BOOLEAN
    /\ drv \in {"idle", "claimed", "drain"} /\ drv_queue \in Queues
    /\ filled \in [Queues -> DescIds \cup {NoDesc}]
    /\ chain \in [Queues -> [DescIds -> Seq(DescIds)]]
    /\ last_used \in [Queues -> Idx]
    /\ submitted \in [Queues -> Seq(DescIds)]
    /\ served \in [Queues -> Seq(DescIds)]
    /\ returned \in [Queues -> Seq(DescIds)]
    /\ stale \in [Queues -> Nat]

\* How many requests of queue q the device has handed back: the one in hand
\* counts from the step that advances the used index.
Handed(q) ==
    IF pc \in {"used", "publish"} /\ queue_idx = q
    THEN Len(served[q]) - 1 ELSE Len(served[q])

\* The four uint16_t indices of a queue are the four counts, modulo 2^16: in
\* particular processed, which is ours, and used_idx, which is read back from
\* DRAM, never drift apart.
IndicesCount(q) ==
    /\ avail_idx[q] = Len(submitted[q]) % IdxMod
    /\ processed[q] = Handed(q) % IdxMod
    /\ used_idx[q] = Handed(q) % IdxMod
    /\ last_used[q] = Len(returned[q]) % IdxMod

\* A queue's requests are returned after being handed back, handed back after
\* being submitted, and fit the rings.
CountsOrdered(q) ==
    /\ Len(returned[q]) <= Handed(q)
    /\ Handed(q) <= Len(submitted[q])
    /\ Len(served[q]) <= Len(submitted[q])
    /\ InFlight(q) <= QueueSize
    /\ filled[q] # NoDesc => InFlight(q) < QueueSize

\* The avail ring holds, from our tail on, what the driver submitted and we
\* have not processed; the used ring, what we processed and the driver has not
\* taken: no entry is overwritten before the other side has read it.
RingsIntact(q) ==
    /\ \A k \in Handed(q) .. Len(submitted[q]) - 1 :
          avail_ring[q][k % QueueSize] = submitted[q][k + 1]
    /\ filled[q] # NoDesc
          => avail_ring[q][Len(submitted[q]) % QueueSize] = filled[q]
    /\ \A k \in Len(returned[q]) .. Handed(q) - 1 :
          used_ring[q][k % QueueSize] = served[q][k + 1]
    /\ pc = "publish" /\ queue_idx = q
          => used_ring[q][Handed(q) % QueueSize] = desc_idx_first

\* Requests are served in the order of submission and returned in the order
\* of service, each once.
InOrder(q) ==
    /\ \A k \in 1 .. Len(served[q]) : served[q][k] = submitted[q][k]
    /\ \A k \in 1 .. Len(returned[q]) : returned[q][k] = submitted[q][k]

\* What the thread knows about the request in hand stays true while the
\* driver keeps publishing and draining.
RequestCurrent(q) ==
    queue_idx = q =>
        /\ pc \in {"fetch", "walk"} => Len(served[q]) < Len(submitted[q])
        /\ pc = "walk" => desc_idx_first = submitted[q][Len(served[q]) + 1]
        /\ pc \in {"used", "publish"} => /\ Len(served[q]) > 0
                                         /\ desc_idx_first = served[q][Len(served[q])]

\* What holds of a queue while the chip is up.
QueueIntact(q) ==
    /\ IndicesCount(q)
    /\ CountsOrdered(q)
    /\ RingsIntact(q)
    /\ InOrder(q)
    /\ RequestCurrent(q)

\* The inductive invariant: everything has its type, and while the chip is up,
\* every queue is intact.
QueueInv ==
    /\ TypeOK
    /\ magic_value => \A q \in Queues : QueueIntact(q)

\* The bit that makes the driver's handler look at its virtqueues is set
\* whenever an interrupt is on its way to it.
StatusBeforeIrq ==
    magic_value /\ (plic_pending \/ drv = "claimed" \/ pc = "pulse")
        => interrupt_status

\* A used entry the driver has not taken is never left behind: an interrupt
\* for it is pending, or is about to be raised, or the handler that runs has
\* yet to look at that queue.
NoLostWakeup ==
    magic_value => \A q \in Queues :
        used_idx[q] # last_used[q] =>
            \/ plic_pending
            \/ drv = "claimed"
            \/ drv = "drain" /\ drv_queue <= q
            \/ pc \in {"status", "pulse"} /\ queue_idx = q

\* The handler calls a chain is entitled to: its header to
\* process_queue_start, its last descriptor to process_queue_complete, what
\* lies between to process_queue_data.
CallsOf(c) ==
    [i \in 1 .. Len(c) |->
        <<IF i = Len(c) THEN "complete" ELSE IF i = 1 THEN "start" ELSE "data", c[i]>>]

\* When a request is about to be reported as used, the walk over its linked
\* descriptors has visited each of them once, in order, with the right handler.
WalkComplete ==
    magic_value /\ pc \in {"used", "publish"}
        => calls = CallsOf(chain[queue_idx][desc_idx_first])

\* The loop reads magic_value once per round, so it may process requests that
\* the memory of a reset chip shows it: at most one more on each queue.
StaleBounded == \A q \in Queues : stale[q] <= 1

Abstract == INSTANCE RequestQueue WITH Requests <- DescIds, Depth <- QueueSize

\* The loop and the driver together implement a queue of requests.
ImplementsQueue == Abstract!Spec

\* Requests submitted on queues that do not wait for outside input are all
\* returned, unless the tool exits or the chip is reset first.
Answered ==
    (\E q \in Queues \ InputQueues : InFlight(q) > 0)
        ~> \/ \A q \in Queues \ InputQueues : InFlight(q) = 0
           \/ exit_thread_flag
           \/ ~ magic_value

\* The device thread returns once the exit flag is set, while the chip is up.
ExitReturns == exit_thread_flag ~> (pc = "returned" \/ ~ magic_value)
=============================================================================
