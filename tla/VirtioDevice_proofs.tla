------------------------ MODULE VirtioDevice_proofs ------------------------
(***************************************************************************)
(* The device loop of console/virtiodevice.hpp, for every number of        *)
(* queues, every queue size that divides the range of the indices, every   *)
(* number of requests and every length of a chain.                         *)
(***************************************************************************)
EXTENDS VirtioDevice, TLAPS

(* Counts taken modulo the size of a ring.  The provers know division only *)
(* through DivMod.                                                         *)

\* A count is its ring size times its lap number plus its slot.
LEMMA DivMod ==
    ASSUME NEW n \in Nat, n > 0, NEW x \in Nat
    PROVE  /\ x \div n \in Nat
           /\ x % n \in 0 .. n - 1
           /\ x = n * (x \div n) + (x % n)
BY SMT

\* A count equal to p laps plus s is in slot s.
LEMMA ModIs ==
    ASSUME NEW n \in Nat, n > 0, NEW x \in Nat, NEW p \in Int,
           NEW s \in 0 .. n - 1, x = n * p + s
    PROVE  x % n = s
BY SMT

\* Incrementing the slot with wrap-around follows the count.
LEMMA ModSucc ==
    ASSUME NEW n \in Nat, n > 0, NEW x \in Nat
    PROVE  ((x % n) + 1) % n = (x + 1) % n
<1> DEFINE q == x \div n
           r == x % n
<1>1. q \in Nat /\ r \in 0 .. n - 1 /\ x = n * q + r
  BY DivMod
<1> HIDE DEF q, r
<1>2. x + 1 \in Nat
  OBVIOUS
<1>3. CASE r = n - 1
  <2>1. x + 1 = n * (q + 1) + 0
    BY <1>1, <1>3, SMT
  <2>2. (x + 1) % n = 0
    BY <1>1, <1>2, <2>1, ModIs, q + 1 \in Int, 0 \in 0 .. n - 1
  <2>3. n = n * 1 + 0 /\ n % n = 0
    BY ModIs, 0 \in 0 .. n - 1
  <2>4. QED  BY <2>2, <2>3, <1>3, (n - 1) + 1 = n DEF r
<1>4. CASE r # n - 1
  <2>1. x + 1 = n * q + (r + 1) /\ r + 1 \in 0 .. n - 1
    BY <1>1, <1>4, SMT
  <2>2. (x + 1) % n = r + 1
    BY <1>1, <1>2, <2>1, ModIs
  <2>3. r + 1 = n * 0 + (r + 1) /\ r + 1 \in Nat
    BY <2>1, SMT
  <2>4. (r + 1) % n = r + 1
    BY <2>1, <2>3, ModIs
  <2>5. QED  BY <2>2, <2>4 DEF r
<1>5. QED  BY <1>3, <1>4

\* A slot is its own remainder.
LEMMA ModSmall ==
    ASSUME NEW n \in Nat, n > 0, NEW r \in 0 .. n - 1
    PROVE  r % n = r
BY SMT

\* Two counts less than a lap apart are in different slots.
LEMMA ModDistinct ==
    ASSUME NEW n \in Nat, n > 0, NEW a \in Nat, NEW b \in Nat,
           a < b, b < a + n
    PROVE  a % n # b % n
<1> DEFINE q == a \div n
           p == b \div n
           r == a % n
           s == b % n
<1>1. q \in Nat /\ r \in 0 .. n - 1 /\ a = n * q + r
  BY DivMod
<1>2. p \in Nat /\ s \in 0 .. n - 1 /\ b = n * p + s
  BY DivMod
<1> HIDE DEF q, p, r, s
<1>3. ASSUME r = s  PROVE FALSE
  <2>1. b - a = n * (p - q)
    BY <1>1, <1>2, <1>3, SMT
  <2>2. CASE p - q >= 1
    <3>1. n * (p - q) >= n
      BY <1>1, <1>2, <2>2, SMT
    <3>2. QED  BY <2>1, <3>1, SMT
  <2>3. CASE p - q <= 0
    <3>1. n * (p - q) <= 0
      BY <1>1, <1>2, <2>3, SMT
    <3>2. QED  BY <2>1, <3>1, SMT
  <2>4. QED  BY <1>1, <1>2, <2>2, <2>3, SMT
<1>4. QED  BY <1>3 DEF r, s

\* A count kept modulo a whole number of laps is in the slot of the count.
LEMMA ModMod ==
    ASSUME NEW n \in Nat, n > 0, NEW laps \in Nat, laps > 0, NEW x \in Nat
    PROVE  (x % (n * laps)) % n = x % n
<1> DEFINE M == n * laps
           q == x \div M
           r == x % M
           p == r \div n
           s == r % n
<1>1. M \in Nat /\ M > 0
  BY SMT
<1>2. q \in Nat /\ r \in 0 .. M - 1 /\ x = M * q + r
  BY <1>1, DivMod
<1>3. r \in Nat /\ p \in Nat /\ s \in 0 .. n - 1 /\ r = n * p + s
  BY <1>1, <1>2, DivMod
<1> HIDE DEF q, r, p, s
<1>4. x = n * (laps * q + p) + s /\ laps * q + p \in Int
  <2>1. M * q = n * (laps * q)
    BY <1>2, SMT
  <2>2. laps * q \in Int
    BY <1>2, SMT
  <2> HIDE DEF M
  <2>3. n * (laps * q + p) = n * (laps * q) + n * p
    BY <2>2, <1>3, SMT
  <2>4. QED  BY <1>2, <1>3, <2>1, <2>2, <2>3, SMT
<1>5. x % n = s
  BY <1>3, <1>4, ModIs
<1>6. QED  BY <1>5 DEF s, r

-----------------------------------------------------------------------------
\* What Append does, in the form in which the steps below use it.
LEMMA AppendFacts ==
    ASSUME NEW S, NEW s \in Seq(S), NEW e \in S
    PROVE  /\ Append(s, e) \in Seq(S)
           /\ Len(Append(s, e)) = Len(s) + 1
           /\ Append(s, e)[Len(s) + 1] = e
           /\ \A k \in 1 .. Len(s) : Append(s, e)[k] = s[k]
OBVIOUS

\* The sizes: the indices count at least two laps of a ring.
LEMMA Sizes ==
    /\ QueueSize \in Nat /\ QueueSize > 0
    /\ IdxMod \in Nat /\ IdxMod > QueueSize
    /\ \E laps \in Nat : laps > 0 /\ IdxMod = QueueSize * laps
    /\ DescIds \subseteq Idx
    /\ 0 \in DescIds /\ 0 \in Idx /\ IdxMod - 1 \in Idx
<1>1. QueueSize \in Nat /\ QueueSize > 0 /\ IdxMod \in Nat
  BY SizeAssumption
<1>2. PICK laps \in 2 .. IdxMod : IdxMod = QueueSize * laps
  BY SizeAssumption
<1>3. laps \in Nat /\ laps >= 2
  BY <1>1, <1>2
<1>4. QueueSize * laps >= QueueSize * 2
  BY <1>1, <1>3, SMT
<1>5. IdxMod > QueueSize
  BY <1>1, <1>2, <1>4
<1>6. DescIds \subseteq Idx /\ 0 \in DescIds /\ 0 \in Idx /\ IdxMod - 1 \in Idx
  BY <1>1, <1>5 DEF DescIds, Idx
<1>7. QED  BY <1>1, <1>2, <1>3, <1>5, <1>6

\* A count, the index that stands for it and the slot they share.
LEMMA IndexFacts ==
    ASSUME NEW x \in Nat
    PROVE  /\ x % IdxMod \in Idx
           /\ x % QueueSize \in DescIds
           /\ (x % IdxMod) % QueueSize = x % QueueSize
           /\ ((x % IdxMod) + 1) % IdxMod = (x + 1) % IdxMod
<1>1. /\ QueueSize \in Nat /\ QueueSize > 0
      /\ IdxMod \in Nat /\ IdxMod > 0
  BY Sizes
<1>2. PICK laps \in Nat : laps > 0 /\ IdxMod = QueueSize * laps
  BY Sizes
<1>3. x % IdxMod \in Idx /\ x % QueueSize \in DescIds
  BY <1>1, DivMod DEF Idx, DescIds
<1>4. (x % IdxMod) % QueueSize = x % QueueSize
  BY <1>1, <1>2, ModMod
<1>5. ((x % IdxMod) + 1) % IdxMod = (x + 1) % IdxMod
  BY <1>1, ModSucc
<1>6. QED  BY <1>3, <1>4, <1>5

\* Counts at most a ring apart have equal indices only if they are equal.
LEMMA IndexApart ==
    ASSUME NEW a \in Nat, NEW b \in Nat, a <= b, b <= a + QueueSize,
           a % IdxMod = b % IdxMod
    PROVE  a = b
<1>1. IdxMod \in Nat /\ IdxMod > 0 /\ b < a + IdxMod
  BY Sizes
<1>2. ASSUME a < b  PROVE FALSE
  BY <1>1, <1>2, ModDistinct
<1>3. QED  BY <1>2

\* Counts less than a ring apart are in different slots.
LEMMA SlotApart ==
    ASSUME NEW a \in Nat, NEW b \in Nat, a < b, b < a + QueueSize
    PROVE  a % QueueSize # b % QueueSize
BY Sizes, ModDistinct

\* An index is in range whatever it is computed from.
LEMMA IncrType ==
    ASSUME NEW i \in Idx
    PROVE  Incr(i) \in Idx /\ (i + 1) % IdxMod \in Idx /\ i % QueueSize \in DescIds
<1>1. i \in Nat /\ i + 1 \in Nat
  BY Sizes DEF Idx
<1>2. QED  BY <1>1, IndexFacts DEF Incr

-----------------------------------------------------------------------------
(* The rings *)

\* The counts of a queue, as numbers in their order.
LEMMA Counts ==
    ASSUME QueueInv, magic_value, NEW q \in Queues
    PROVE  /\ QueueIntact(q)
           /\ submitted[q] \in Seq(DescIds) /\ Len(submitted[q]) \in Nat
           /\ served[q] \in Seq(DescIds) /\ Len(served[q]) \in Nat
           /\ returned[q] \in Seq(DescIds) /\ Len(returned[q]) \in Nat
           /\ Handed(q) \in Nat
           /\ Len(returned[q]) <= Handed(q) /\ Handed(q) <= Len(served[q])
           /\ Len(served[q]) <= Len(submitted[q])
           /\ Len(submitted[q]) <= Len(returned[q]) + QueueSize
<1>1. QueueIntact(q) /\ TypeOK
  BY DEF QueueInv
<1>2. /\ submitted[q] \in Seq(DescIds) /\ Len(submitted[q]) \in Nat
      /\ served[q] \in Seq(DescIds) /\ Len(served[q]) \in Nat
      /\ returned[q] \in Seq(DescIds) /\ Len(returned[q]) \in Nat
  BY <1>1 DEF TypeOK
<1>3. /\ Handed(q) \in Nat
      /\ Handed(q) <= Len(served[q])
  BY <1>1, <1>2 DEF QueueIntact, RequestCurrent, Handed
<1>4. CountsOrdered(q) /\ QueueSize \in Nat
  BY <1>1, Sizes DEF QueueIntact
<1>5. /\ Len(returned[q]) <= Handed(q)
      /\ Len(served[q]) <= Len(submitted[q])
      /\ Len(submitted[q]) <= Len(returned[q]) + QueueSize
  BY <1>2, <1>4 DEF CountsOrdered, InFlight
<1>6. QED  BY <1>1, <1>2, <1>3, <1>5

\* The initial state: nothing submitted, every index 0.
LEMMA QueueInit == Init => QueueInv
<1> SUFFICES ASSUME Init PROVE QueueInv
  OBVIOUS
<1>1. TypeOK
  <2>1. 0 \in Queues /\ 0 \in Idx
    BY Sizes, QueuesAssumption DEF Queues
  <2>2. ZeroDesc \in [len : Nat, next : Idx \cup {NoNext}]
    BY DEF ZeroDesc
  <2>3. desc \in [Queues -> [DescIds -> [len : Nat, next : Idx \cup {NoNext}]]]
    BY <2>2 DEF Init
  <2>4. /\ avail_ring \in [Queues -> [DescIds -> Idx]]
        /\ used_ring \in [Queues -> [DescIds -> Idx]]
    BY <2>1 DEF Init
  <2>5. calls = << >> /\ calls \in Seq(Handlers \X DescIds)
    BY DEF Init
  <2>6. /\ chain \in [Queues -> [DescIds -> Seq(DescIds)]]
        /\ submitted \in [Queues -> Seq(DescIds)]
        /\ served \in [Queues -> Seq(DescIds)]
        /\ returned \in [Queues -> Seq(DescIds)]
    BY DEF Init
  <2>7. QED  BY <2>1, <2>3, <2>4, <2>5, <2>6 DEF Init, TypeOK
<1>2. ASSUME NEW q \in Queues  PROVE QueueIntact(q)
  <2>1. /\ Len(submitted[q]) = 0 /\ Len(served[q]) = 0 /\ Len(returned[q]) = 0
        /\ filled[q] = NoDesc /\ pc = "top"
        /\ avail_idx[q] = 0 /\ processed[q] = 0 /\ used_idx[q] = 0 /\ last_used[q] = 0
    BY <1>2 DEF Init
  <2>2. 0 % IdxMod = 0
    BY Sizes, ModSmall, 0 \in 0 .. IdxMod - 1
  <2>3. Handed(q) = 0 /\ InFlight(q) = 0
    BY <2>1 DEF Handed, InFlight
  <2>4. IndicesCount(q)
    BY <2>1, <2>2, <2>3 DEF IndicesCount
  <2>5. CountsOrdered(q)
    BY <2>1, <2>3, Sizes DEF CountsOrdered
  <2>6. RingsIntact(q) /\ InOrder(q) /\ RequestCurrent(q)
    BY <2>1, <2>3 DEF RingsIntact, InOrder, RequestCurrent
  <2>7. QED  BY <2>4, <2>5, <2>6 DEF QueueIntact
<1>3. QED  BY <1>1, <1>2 DEF QueueInv

\* A step that leaves the rings, the indices and the histories alone keeps a
\* queue intact if what the thread knows about its request stays true.
LEMMA QuietStep ==
    ASSUME QueueInv, magic_value, NEW q \in Queues,
           UNCHANGED <<avail_ring, avail_idx, used_ring, used_idx, filled, last_used,
                       processed, submitted, served, returned>>,
           Handed(q)' = Handed(q),
           pc' = "publish" /\ queue_idx' = q
               => pc = "publish" /\ queue_idx = q /\ desc_idx_first' = desc_idx_first,
           RequestCurrent(q)'
    PROVE  QueueIntact(q)'
<1>1. QueueIntact(q)
  BY Counts
<1>2. IndicesCount(q)' /\ CountsOrdered(q)' /\ InOrder(q)'
  BY <1>1 DEF QueueIntact, IndicesCount, CountsOrdered, InOrder, InFlight
<1>3. RingsIntact(q)'
  BY <1>1 DEF QueueIntact, RingsIntact
<1>4. QED  BY <1>2, <1>3 DEF QueueIntact

LEMMA NextQueueType ==
    ASSUME queue_idx \in Queues, NextQueue
    PROVE  queue_idx' \in Queues /\ pc' \in {"top", "poll"}
BY QueuesAssumption DEF NextQueue, Queues

\* The steps that only move the thread between the queues.
LEMMA LoopSteps ==
    ASSUME QueueInv, LoopReturn \/ LoopEnter \/ PollIdle \/ SetStatus \/ Pulse \/ Crash
    PROVE  QueueInv'
<1>1. TypeOK
  BY DEF QueueInv
<1>2. /\ UNCHANGED <<dram, magic_value, processed, request, driver, history>>
      /\ pc \notin {"fetch", "walk", "used", "publish"} \/ ~ magic_value
      /\ pc' \in {"top", "poll", "pulse", "returned", "crashed"}
      /\ queue_idx' \in Queues
  <2>1. queue_idx \in Queues /\ 0 \in Queues
    BY <1>1, QueuesAssumption DEF TypeOK, Queues
  <2>2. CASE LoopReturn
    BY <2>1, <2>2 DEF LoopReturn, regs
  <2>3. CASE LoopEnter
    BY <2>1, <2>3 DEF LoopEnter
  <2>4. CASE PollIdle
    BY <2>1, <2>4, NextQueueType DEF PollIdle, regs
  <2>5. CASE SetStatus
    BY <2>1, <2>5 DEF SetStatus
  <2>6. CASE Pulse
    BY <2>1, <2>6, NextQueueType DEF Pulse, regs
  <2>7. CASE Crash
    BY <2>1, <2>7 DEF Crash, regs
  <2>8. QED  BY <2>2, <2>3, <2>4, <2>5, <2>6, <2>7
<1>3. interrupt_status' \in BOOLEAN /\ interrupt_ack' \in BOOLEAN /\ plic_pending' \in BOOLEAN
      /\ exit_thread_flag' \in BOOLEAN
  BY <1>1
  DEF TypeOK, LoopReturn, LoopEnter, ack_interrupt, PollIdle, SetStatus, Pulse, Crash, regs
<1>4. TypeOK'
  BY <1>1, <1>2, <1>3 DEF TypeOK, dram, request, driver, history
<1>5. ASSUME magic_value, NEW q \in Queues  PROVE QueueIntact(q)'
  <2>1. Handed(q)' = Handed(q) /\ RequestCurrent(q)'
    BY <1>2, <1>5 DEF Handed, RequestCurrent, history
  <2>2. QED  BY <1>2, <1>5, <2>1, QuietStep DEF dram, driver, history
<1>6. QED  BY <1>2, <1>4, <1>5 DEF QueueInv

\* The steps of the guest and of the console that touch no ring.
LEMMA HandlerSteps ==
    ASSUME QueueInv,
           DriverClaim \/ DriverCheckStatus \/ SetExit \/ \E q \in Queues : DriverDrained(q)
    PROVE  QueueInv'
<1>1. TypeOK
  BY DEF QueueInv
<1>2. /\ UNCHANGED <<dram, magic_value, pc, queue_idx, processed, request,
                     filled, chain, last_used, history>>
      /\ drv' \in {"idle", "claimed", "drain"} /\ drv_queue' \in Queues
  <2>1. drv \in {"idle", "claimed", "drain"} /\ drv_queue \in Queues /\ 0 \in Queues
    BY <1>1, QueuesAssumption DEF TypeOK, Queues
  <2>2. CASE DriverClaim
    BY <2>1, <2>2 DEF DriverClaim, regs
  <2>3. CASE DriverCheckStatus
    BY <2>1, <2>3 DEF DriverCheckStatus
  <2>4. CASE SetExit
    BY <2>1, <2>4 DEF SetExit, regs, driver
  <2>5. ASSUME NEW q \in Queues, DriverDrained(q)
        PROVE  /\ UNCHANGED <<dram, magic_value, pc, queue_idx, processed, request,
                              filled, chain, last_used, history>>
               /\ drv' \in {"idle", "claimed", "drain"} /\ drv_queue' \in Queues
    <3>1. q + 1 < NumQueues => q + 1 \in Queues
      BY QueuesAssumption DEF Queues
    <3>2. QED  BY <2>1, <2>5, <3>1 DEF DriverDrained, regs
  <2>6. QED  BY <2>2, <2>3, <2>4, <2>5
<1>3. interrupt_status' \in BOOLEAN /\ interrupt_ack' \in BOOLEAN /\ plic_pending' \in BOOLEAN
      /\ exit_thread_flag' \in BOOLEAN
  BY <1>1
  DEF TypeOK, DriverClaim, DriverCheckStatus, DriverDrained, SetExit, regs
<1>4. TypeOK'
  BY <1>1, <1>2, <1>3 DEF TypeOK, dram, request, history
<1>5. ASSUME magic_value, NEW q \in Queues  PROVE QueueIntact(q)'
  <2>1. Handed(q)' = Handed(q)
    BY <1>2 DEF Handed, history
  <2>2. RequestCurrent(q)'
    BY <1>2, <1>5, Counts DEF QueueIntact, RequestCurrent, history, request
  <2>3. QED  BY <1>2, <1>5, <2>1, <2>2, QuietStep DEF dram, history, request
<1>6. QED  BY <1>2, <1>4, <1>5 DEF QueueInv

\* A queue that lags has a request that is not processed.
LEMMA LagMeansWork ==
    ASSUME QueueInv, magic_value, NEW q \in Queues,
           pc \notin {"used", "publish"}, processed[q] # avail_idx[q]
    PROVE  Len(served[q]) < Len(submitted[q])
<1>1. Handed(q) = Len(served[q])
  BY DEF Handed
<1>2. Len(served[q]) # Len(submitted[q])
  BY <1>1, Counts DEF QueueIntact, IndicesCount
<1>3. QED  BY <1>2, Counts

LEMMA PollBusyStep ==
    ASSUME QueueInv, PollBusy
    PROVE  QueueInv'
<1>1. TypeOK /\ queue_idx \in Queues
  BY DEF QueueInv, TypeOK
<1>2. /\ UNCHANGED <<dram, regs, exit_thread_flag, queue_idx, processed, request,
                     plic_pending, driver, history>>
      /\ pc = "poll" /\ pc' = "fetch" /\ processed[queue_idx] # avail_idx[queue_idx]
  BY DEF PollBusy, QueueLags
<1>3. TypeOK'
  BY <1>1, <1>2 DEF TypeOK, dram, regs, request, driver, history
<1>4. ASSUME magic_value, NEW q \in Queues  PROVE QueueIntact(q)'
  <2>1. Handed(q)' = Handed(q)
    BY <1>2 DEF Handed, history
  <2>2. RequestCurrent(q)'
    BY <1>1, <1>2, <1>4, LagMeansWork DEF RequestCurrent, history
  <2>3. QED  BY <1>2, <1>4, <2>1, <2>2, QuietStep DEF dram, driver, history
<1>5. QED  BY <1>2, <1>3, <1>4 DEF QueueInv, regs

\* The head that the thread picks is the oldest request not yet served.
LEMMA FetchedHead ==
    ASSUME QueueInv, magic_value, pc = "fetch"
    PROVE  LET n == Len(served[queue_idx])
           IN  /\ n < Len(submitted[queue_idx])
               /\ avail_ring[queue_idx][processed[queue_idx] % QueueSize]
                     = submitted[queue_idx][n + 1]
<1> DEFINE q == queue_idx
           n == Len(served[q])
<1>1. q \in Queues
  BY DEF QueueInv, TypeOK
<1>2. QueueIntact(q)
  BY <1>1, Counts
<1>3. /\ Handed(q) = n /\ n \in Nat /\ n < Len(submitted[q])
      /\ Len(submitted[q]) \in Nat
  BY <1>1, <1>2, Counts DEF Handed, QueueIntact, RequestCurrent
<1>4. processed[q] = n % IdxMod
  BY <1>2, <1>3 DEF QueueIntact, IndicesCount
<1>5. avail_ring[q][n % QueueSize] = submitted[q][n + 1]
  BY <1>2, <1>3 DEF QueueIntact, RingsIntact
<1>6. processed[q] % QueueSize = n % QueueSize
  BY <1>3, <1>4, IndexFacts
<1>7. QED  BY <1>3, <1>5, <1>6

LEMMA FetchStep ==
    ASSUME QueueInv, Fetch
    PROVE  QueueInv'
<1>1. TypeOK /\ queue_idx \in Queues
  BY DEF QueueInv, TypeOK
<1> DEFINE h == avail_ring[queue_idx][processed[queue_idx] % QueueSize]
<1>2. /\ UNCHANGED <<dram, regs, exit_thread_flag, queue_idx, processed,
                     plic_pending, driver, history>>
      /\ pc = "fetch" /\ pc' = "walk"
      /\ desc_idx' = h /\ desc_idx_first' = h
      /\ num_bytes_written' = 0 /\ calls' = << >>
  BY DEF Fetch
<1>3. processed[queue_idx] \in Idx /\ processed[queue_idx] % QueueSize \in DescIds
  BY <1>1, IncrType DEF TypeOK
<1>4. h \in Idx
  BY <1>1, <1>3 DEF TypeOK
<1>a. calls' \in Seq(Handlers \X DescIds)
  BY <1>2
<1> HIDE DEF h
<1>5. TypeOK'
  BY <1>1, <1>2, <1>4, <1>a DEF TypeOK, dram, regs, driver, history
<1>6. ASSUME magic_value  PROVE h = submitted[queue_idx][Len(served[queue_idx]) + 1]
                              /\ Len(served[queue_idx]) < Len(submitted[queue_idx])
  BY <1>2, <1>6, FetchedHead DEF h
<1>7. ASSUME magic_value, NEW q \in Queues  PROVE QueueIntact(q)'
  <2>1. Handed(q)' = Handed(q)
    BY <1>2 DEF Handed, history
  <2>2. RequestCurrent(q)'
    BY <1>2, <1>6, <1>7 DEF RequestCurrent, history
  <2>3. QED  BY <1>2, <1>7, <2>1, <2>2, QuietStep DEF dram, driver, history
<1>8. QED  BY <1>2, <1>5, <1>7 DEF QueueInv, regs

\* Adding to num_bytes_written, and noting the call, keeps their types.
LEMMA CallType ==
    ASSUME TypeOK, NEW handler \in Handlers, NEW l \in Nat, Called(handler), AddBytes(l)
    PROVE  calls' \in Seq(Handlers \X DescIds) /\ num_bytes_written' \in Nat
<1>1. desc_idx % QueueSize \in DescIds
  BY IncrType DEF TypeOK
<1>2. calls \in Seq(Handlers \X DescIds)
      /\ <<handler, desc_idx % QueueSize>> \in Handlers \X DescIds
  BY <1>1 DEF TypeOK
<1>3. calls' \in Seq(Handlers \X DescIds)
  BY <1>2, AppendFacts DEF Called
<1>4. num_bytes_written' \in Nat
  BY BoundAssumption DEF AddBytes, TypeOK
<1>5. QED  BY <1>3, <1>4

\* The descriptor the thread looks at is one of the table.
LEMMA CurrentDescType ==
    ASSUME TypeOK
    PROVE  CurrentDesc.len \in Nat /\ CurrentDesc.next \in Idx \cup {NoNext}
<1>1. desc_idx % QueueSize \in DescIds /\ queue_idx \in Queues
  BY IncrType DEF TypeOK
<1>2. CurrentDesc \in [len : Nat, next : Idx \cup {NoNext}]
  BY <1>1 DEF CurrentDesc, TypeOK
<1>3. QED  BY <1>2

LEMMA WalkNextStep ==
    ASSUME QueueInv, WalkNext
    PROVE  QueueInv'
<1>1. TypeOK /\ queue_idx \in Queues
  BY DEF QueueInv, TypeOK
<1>2. /\ UNCHANGED <<dram, regs, exit_thread_flag, pc, queue_idx, processed,
                     desc_idx_first, plic_pending, driver, history>>
      /\ desc_idx' \in Idx
  BY <1>1, CurrentDescType DEF WalkNext
<1>3. calls' \in Seq(Handlers \X DescIds) /\ num_bytes_written' \in Nat
  BY <1>1, CallType, CurrentDescType DEF WalkNext, HandlerOfNext, Handlers
<1>4. TypeOK'
  BY <1>1, <1>2, <1>3, SMTT(30) DEF TypeOK, dram, regs, driver, history
<1>5. ASSUME magic_value, NEW q \in Queues  PROVE QueueIntact(q)'
  <2>1. Handed(q)' = Handed(q)
    BY <1>2 DEF Handed, history
  <2>2. RequestCurrent(q)'
    BY <1>2, <1>5, Counts DEF QueueIntact, RequestCurrent, history
  <2>3. QED  BY <1>2, <1>5, <2>1, <2>2, QuietStep DEF dram, driver, history
<1>6. QED  BY <1>2, <1>4, <1>5 DEF QueueInv, regs

\* The request in hand is served: the oldest submitted one, by its own head.
LEMMA WalkLastStep ==
    ASSUME QueueInv, WalkLast
    PROVE  QueueInv'
<1>1. TypeOK /\ queue_idx \in Queues
  BY DEF QueueInv, TypeOK
<1>2. /\ UNCHANGED <<dram, regs, exit_thread_flag, queue_idx, processed, desc_idx,
                     desc_idx_first, plic_pending, driver, submitted, returned>>
      /\ pc = "walk" /\ pc' = "used"
      /\ Served
  BY DEF WalkLast
<1>3. calls' \in Seq(Handlers \X DescIds) /\ num_bytes_written' \in Nat
  BY <1>1, CallType, CurrentDescType DEF WalkLast, Handlers
<1> DEFINE n == Len(served[queue_idx])
<1>4. ASSUME magic_value
      PROVE  /\ n \in Nat /\ n < Len(submitted[queue_idx])
             /\ desc_idx_first = submitted[queue_idx][n + 1]
             /\ desc_idx_first \in DescIds
             /\ served' = [served EXCEPT ![queue_idx] = Append(served[queue_idx], desc_idx_first)]
             /\ Append(served[queue_idx], desc_idx_first) \in Seq(DescIds)
             /\ Len(served'[queue_idx]) = n + 1
             /\ served'[queue_idx][n + 1] = desc_idx_first
             /\ \A k \in 1 .. n : served'[queue_idx][k] = served[queue_idx][k]
             /\ \A q \in Queues \ {queue_idx} : served'[q] = served[q]
             /\ UNCHANGED stale
  <2>1. /\ n \in Nat /\ n < Len(submitted[queue_idx])
        /\ desc_idx_first = submitted[queue_idx][n + 1]
    BY <1>1, <1>2, <1>4, Counts DEF QueueIntact, RequestCurrent
  <2>2. desc_idx_first \in DescIds
    BY <1>1, <1>4, <2>1, Counts
  <2>3. /\ served' = [served EXCEPT ![queue_idx] = Append(served[queue_idx], desc_idx_first)]
        /\ UNCHANGED stale
    BY <1>2, <1>4 DEF Served
  <2>4. served[queue_idx] \in Seq(DescIds) /\ served \in [Queues -> Seq(DescIds)]
    BY <1>1 DEF TypeOK
  <2>5. /\ Append(served[queue_idx], desc_idx_first) \in Seq(DescIds)
        /\ Len(Append(served[queue_idx], desc_idx_first)) = n + 1
        /\ Append(served[queue_idx], desc_idx_first)[n + 1] = desc_idx_first
        /\ \A k \in 1 .. n : Append(served[queue_idx], desc_idx_first)[k] = served[queue_idx][k]
    BY <2>2, <2>4, AppendFacts
  <2>6. /\ served'[queue_idx] = Append(served[queue_idx], desc_idx_first)
        /\ \A q \in Queues \ {queue_idx} : served'[q] = served[q]
    BY <1>1, <2>3, <2>4
  <2>7. QED  BY <2>1, <2>2, <2>3, <2>5, <2>6
<1>5. served' \in [Queues -> Seq(DescIds)] /\ stale' \in [Queues -> Nat]
  <2>1. served \in [Queues -> Seq(DescIds)] /\ stale \in [Queues -> Nat]
    BY <1>1 DEF TypeOK
  <2>2. CASE magic_value
    BY <2>1, <2>2, <1>4
  <2>3. CASE ~ magic_value
    BY <1>1, <1>2, <2>1, <2>3 DEF Served
  <2>4. QED  BY <2>2, <2>3
<1>6. TypeOK'
  BY <1>1, <1>2, <1>3, <1>5 DEF TypeOK, dram, regs, driver
<1>7. ASSUME magic_value, NEW q \in Queues, q # queue_idx  PROVE QueueIntact(q)'
  <2>1. served'[q] = served[q] /\ UNCHANGED <<submitted, returned>>
    BY <1>2, <1>4, <1>7
  <2>2. Handed(q)' = Handed(q) /\ RequestCurrent(q)'
    BY <1>2, <1>7, <2>1 DEF Handed, RequestCurrent
  <2>3. QueueIntact(q)
    BY <1>7, Counts
  <2>4. IndicesCount(q)' /\ CountsOrdered(q)' /\ InOrder(q)'
    BY <1>2, <2>1, <2>2, <2>3
    DEF QueueIntact, IndicesCount, CountsOrdered, InOrder, InFlight, dram, driver
  <2>5. RingsIntact(q)'
    BY <1>2, <1>7, <2>1, <2>2, <2>3 DEF QueueIntact, RingsIntact, dram, driver
  <2>6. QED  BY <2>2, <2>4, <2>5 DEF QueueIntact
<1>8. ASSUME magic_value  PROVE QueueIntact(queue_idx)'
  <2> DEFINE q == queue_idx
  <2>1. /\ n \in Nat /\ n < Len(submitted[q]) /\ Len(submitted[q]) \in Nat
        /\ Handed(q) = n /\ Len(served'[q]) = n + 1 /\ q' = q
        /\ Len(returned[q]) \in Nat /\ Len(returned[q]) <= n /\ q \in Queues
    BY <1>1, <1>2, <1>4, <1>8, Counts DEF Handed
  <2>2. Handed(q)' = n
    BY <1>2, <2>1 DEF Handed
  <2>3. QueueIntact(q)
    BY <1>1, <1>8, Counts
  <2>4. IndicesCount(q)'
    BY <1>2, <2>1, <2>2, <2>3 DEF QueueIntact, IndicesCount, dram, driver
  <2>5. CountsOrdered(q)'
    <3>1. InFlight(q)' = InFlight(q) /\ filled'[q'] = filled[q]
      BY <1>2, <2>1 DEF InFlight, driver
    <3>2. CountsOrdered(q) /\ n + 1 <= Len(submitted[q])
      BY <2>1, <2>3 DEF QueueIntact
    <3>3. QED  BY <1>2, <2>1, <2>2, <3>1, <3>2 DEF CountsOrdered
  <2>6. InOrder(q)'
    <3>1. ASSUME NEW k \in 1 .. n + 1  PROVE served'[q][k] = submitted[q][k]
      <4>1. CASE k = n + 1
        BY <1>4, <1>8, <4>1
      <4>2. CASE k # n + 1
        <5>1. k \in 1 .. n
          BY <2>1, <3>1, <4>2
        <5>2. QED  BY <1>4, <1>8, <2>3, <5>1 DEF QueueIntact, InOrder
      <4>3. QED  BY <4>1, <4>2
    <3>2. QED  BY <1>2, <2>1, <2>3, <3>1 DEF QueueIntact, InOrder
  <2>7. RequestCurrent(q)'
    BY <1>2, <1>4, <1>8, <2>1 DEF RequestCurrent
  <2>8. RingsIntact(q)'
    <3>1. ASSUME NEW k \in Len(returned[q]) .. n - 1
          PROVE  used_ring[q][k % QueueSize] = served'[q][k + 1]
      <4>1. k + 1 \in 1 .. n
        BY <2>1, <3>1
      <4>2. served'[q][k + 1] = served[q][k + 1]
        BY <1>4, <1>8, <4>1
      <4>3. QED  BY <2>1, <2>3, <3>1, <4>2 DEF QueueIntact, RingsIntact
    <3>2. QED  BY <1>2, <2>1, <2>2, <2>3, <3>1 DEF QueueIntact, RingsIntact, dram, driver
  <2>9. QED  BY <2>4, <2>5, <2>6, <2>7, <2>8 DEF QueueIntact
<1>9. magic_value => \A q \in Queues : QueueIntact(q)'
  BY <1>2, <1>7, <1>8
<1>10. QED  BY <1>2, <1>6, <1>9 DEF QueueInv, regs

\* The used entry goes to a slot that holds nothing the driver has yet to take.
LEMMA UsedWriteStep ==
    ASSUME QueueInv, UsedWrite
    PROVE  QueueInv'
<1> DEFINE q == queue_idx
           m == Handed(queue_idx)
           R == Len(returned[queue_idx])
<1>1. TypeOK /\ q \in Queues
  BY DEF QueueInv, TypeOK
<1>2. /\ UNCHANGED <<desc, avail_ring, avail_idx, used_idx, regs, exit_thread_flag,
                     queue_idx, processed, request, plic_pending, driver, history>>
      /\ pc = "used" /\ pc' = "publish"
      /\ used_ring' = [used_ring EXCEPT ![q][used_idx[q] % QueueSize] = desc_idx_first]
  BY DEF UsedWrite, UsedId
<1>3. desc_idx_first \in Idx /\ used_idx[q] % QueueSize \in DescIds
      /\ used_ring \in [Queues -> [DescIds -> Idx]]
  BY <1>1, IncrType DEF TypeOK
<1>4. used_ring' \in [Queues -> [DescIds -> Idx]]
  BY <1>1, <1>2, <1>3
<1>5. TypeOK'
  BY <1>1, <1>2, <1>4 DEF TypeOK, regs, request, driver, history
<1>6. ASSUME magic_value, NEW p \in Queues, p # q  PROVE QueueIntact(p)'
  <2>1. Handed(p)' = Handed(p) /\ RequestCurrent(p)'
    BY <1>2, <1>6 DEF Handed, RequestCurrent, history
  <2>2. QueueIntact(p)
    BY <1>6, Counts
  <2>3. IndicesCount(p)' /\ CountsOrdered(p)' /\ InOrder(p)'
    BY <1>2, <2>1, <2>2
    DEF QueueIntact, IndicesCount, CountsOrdered, InOrder, InFlight, driver, history
  <2>4. used_ring'[p] = used_ring[p]
    BY <1>1, <1>2, <1>3, <1>6
  <2>5. RingsIntact(p)'
    BY <1>2, <1>6, <2>1, <2>2, <2>4 DEF QueueIntact, RingsIntact, driver, history
  <2>6. QED  BY <2>1, <2>3, <2>5 DEF QueueIntact
<1>7. ASSUME magic_value  PROVE QueueIntact(queue_idx)'
  <2>1. /\ m \in Nat /\ R \in Nat /\ R <= m /\ Len(submitted[q]) \in Nat
        /\ m < Len(served[q]) /\ Len(served[q]) \in Nat
        /\ m < R + QueueSize
    BY <1>1, <1>2, <1>7, Counts, Sizes, SMTT(30) DEF Handed, QueueIntact, RequestCurrent
  <2>2. QueueIntact(q)
    BY <1>1, <1>7, Counts
  <2>3. Handed(q)' = m
    BY <1>2 DEF Handed, history
  <2>4. used_idx[q] % QueueSize = m % QueueSize /\ m % QueueSize \in DescIds
    BY <2>1, <2>2, IndexFacts DEF QueueIntact, IndicesCount
  <2>5. UNCHANGED <<filled, last_used, submitted, served, returned, desc_idx_first>> /\ q' = q
    BY <1>2 DEF history, request, driver
  <2> HIDE DEF m, R
  <2>6. IndicesCount(q)' /\ CountsOrdered(q)' /\ InOrder(q)'
    BY <1>2, <2>2, <2>3, <2>5
    DEF m, QueueIntact, IndicesCount, CountsOrdered, InOrder, InFlight
  <2>7. RequestCurrent(q)'
    BY <1>2, <2>2, <2>5 DEF QueueIntact, RequestCurrent
  <2>8. used_ring'[q][m % QueueSize] = desc_idx_first
    BY <1>1, <1>2, <1>3, <2>4
  <2>9. ASSUME NEW k \in R .. m - 1
        PROVE  used_ring'[q][k % QueueSize] = served[q][k + 1]
    <3>1. k \in Nat /\ k < m /\ m < k + QueueSize
      BY <2>1, <2>9, Sizes
    <3>2. k % QueueSize # m % QueueSize /\ k % QueueSize \in DescIds
      BY <2>1, <3>1, SlotApart, IndexFacts
    <3>3. used_ring'[q][k % QueueSize] = used_ring[q][k % QueueSize]
      BY <1>1, <1>2, <1>3, <2>4, <3>2
    <3>4. QED  BY <2>2, <2>9, <3>3 DEF QueueIntact, RingsIntact, m, R
  <2>10. RingsIntact(q)'
    BY <1>2, <2>2, <2>3, <2>5, <2>8, <2>9 DEF QueueIntact, RingsIntact, m, R
  <2>11. QED  BY <2>6, <2>7, <2>10 DEF QueueIntact
<1>8. magic_value => \A p \in Queues : QueueIntact(p)'
  BY <1>2, <1>6, <1>7
<1>9. QED  BY <1>2, <1>5, <1>8 DEF QueueInv, regs

\* Advancing both indices hands the request back.
LEMMA UsedPublishStep ==
    ASSUME QueueInv, UsedPublish
    PROVE  QueueInv'
<1> DEFINE q == queue_idx
           m == Handed(queue_idx)
<1>1. TypeOK /\ q \in Queues
  BY DEF QueueInv, TypeOK
<1>2. /\ UNCHANGED <<desc, avail_ring, avail_idx, used_ring, regs, exit_thread_flag,
                     queue_idx, request, plic_pending, driver, history>>
      /\ pc = "publish" /\ pc' = "status"
      /\ used_idx' = [used_idx EXCEPT ![q] = Incr(used_idx[q])]
      /\ processed' = [processed EXCEPT ![q] = Incr(processed[q])]
  BY DEF UsedPublish
<1>3. used_idx \in [Queues -> Idx] /\ processed \in [Queues -> Idx]
      /\ used_idx' \in [Queues -> Idx] /\ processed' \in [Queues -> Idx]
  BY <1>1, <1>2, IncrType DEF TypeOK
<1>4. TypeOK'
  BY <1>1, <1>2, <1>3 DEF TypeOK, regs, request, driver, history
<1>5. ASSUME magic_value, NEW p \in Queues, p # q  PROVE QueueIntact(p)'
  <2>1. Handed(p)' = Handed(p) /\ RequestCurrent(p)'
    BY <1>2, <1>5 DEF Handed, RequestCurrent, history
  <2>2. QueueIntact(p)
    BY <1>5, Counts
  <2>3. used_idx'[p] = used_idx[p] /\ processed'[p] = processed[p]
    BY <1>1, <1>2, <1>3, <1>5
  <2>4. IndicesCount(p)' /\ CountsOrdered(p)' /\ InOrder(p)'
    BY <1>2, <2>1, <2>2, <2>3
    DEF QueueIntact, IndicesCount, CountsOrdered, InOrder, InFlight, driver, history
  <2>5. RingsIntact(p)'
    BY <1>2, <1>5, <2>1, <2>2 DEF QueueIntact, RingsIntact, driver, history
  <2>6. QED  BY <2>1, <2>4, <2>5 DEF QueueIntact
<1>6. ASSUME magic_value  PROVE QueueIntact(queue_idx)'
  <2>1. /\ m \in Nat /\ Len(submitted[q]) \in Nat /\ Len(returned[q]) \in Nat
        /\ Len(returned[q]) <= m
        /\ Len(served[q]) = m + 1 /\ m + 1 <= Len(submitted[q])
    BY <1>1, <1>2, <1>6, Counts DEF Handed, QueueIntact, RequestCurrent
  <2>2. QueueIntact(q)
    BY <1>1, <1>6, Counts
  <2>3. UNCHANGED <<filled, last_used, submitted, served, returned, desc_idx_first>> /\ q' = q
    BY <1>2 DEF history, request, driver
  <2>4. Handed(q)' = m + 1
    BY <1>2, <2>1, <2>3 DEF Handed
  <2>5. used_idx'[q] = (m + 1) % IdxMod /\ processed'[q] = (m + 1) % IdxMod
    BY <1>1, <1>2, <1>3, <2>1, <2>2, IndexFacts DEF QueueIntact, IndicesCount, Incr
  <2>6. used_ring[q][m % QueueSize] = served[q][m + 1]
    BY <1>2, <2>1, <2>2 DEF QueueIntact, RingsIntact, RequestCurrent
  <2> HIDE DEF m
  <2>7. IndicesCount(q)' /\ InOrder(q)'
    BY <1>2, <2>2, <2>3, <2>4, <2>5 DEF QueueIntact, IndicesCount, InOrder
  <2>8. CountsOrdered(q)'
    <3>1. CountsOrdered(q) /\ InFlight(q)' = InFlight(q)
      BY <2>2, <2>3 DEF QueueIntact, InFlight
    <3>2. QED  BY <2>1, <2>3, <2>4, <3>1 DEF CountsOrdered
  <2>9. RequestCurrent(q)'
    BY <1>2, <2>3 DEF RequestCurrent
  <2>10. RingsIntact(q)'
    <3>1. ASSUME NEW k \in Len(returned[q]) .. m  PROVE used_ring[q][k % QueueSize] = served[q][k + 1]
      <4>1. CASE k = m
        BY <2>6, <4>1
      <4>2. CASE k # m
        <5>1. k \in Len(returned[q]) .. m - 1
          BY <2>1, <4>2
        <5>2. QED  BY <2>2, <5>1 DEF QueueIntact, RingsIntact, m
      <4>3. QED  BY <4>1, <4>2
    <3>2. ASSUME NEW k \in m + 1 .. Len(submitted[q]) - 1
          PROVE  avail_ring[q][k % QueueSize] = submitted[q][k + 1]
      <4>1. k \in m .. Len(submitted[q]) - 1
        BY <2>1
      <4>2. QED  BY <2>2, <4>1 DEF QueueIntact, RingsIntact, m
    <3>3. filled[q] # NoDesc => avail_ring[q][Len(submitted[q]) % QueueSize] = filled[q]
      BY <2>2 DEF QueueIntact, RingsIntact
    <3>4. (m + 1) - 1 = m
      BY <2>1
    <3>5. QED  BY <1>2, <2>3, <2>4, <3>1, <3>2, <3>3, <3>4 DEF RingsIntact
  <2>11. QED  BY <2>7, <2>8, <2>9, <2>10 DEF QueueIntact
<1>7. magic_value => \A p \in Queues : QueueIntact(p)'
  BY <1>2, <1>5, <1>6
<1>8. QED  BY <1>2, <1>4, <1>7 DEF QueueInv, regs

-----------------------------------------------------------------------------
(* The driver's side *)

\* A chain is a sequence of distinct free descriptors, at least one.
LEMMA ChainFacts ==
    ASSUME NEW q \in Queues, NEW c \in Chains(q)
    PROVE  /\ c \in Seq(DescIds) /\ Len(c) \in Nat /\ Len(c) >= 1
           /\ \A i \in 1 .. Len(c) : c[i] \in DescIds \ Busy(q)
           /\ c[1] \in DescIds \ Busy(q)
           /\ \A i, j \in 1 .. Len(c) : i # j => c[i] # c[j]
<1>1. PICK n \in 1 .. MaxChain : c \in [1 .. n -> DescIds \ Busy(q)]
  BY DEF Chains
<1>2. n \in Nat /\ n >= 1
  BY <1>1, BoundAssumption
<1>3. c \in Seq(DescIds) /\ Len(c) = n
  BY <1>1, <1>2
<1>4. \A i, j \in 1 .. Len(c) : i # j => c[i] # c[j]
  BY DEF Chains
<1>5. QED  BY <1>1, <1>2, <1>3, <1>4

\* The entries of a chain that is in flight are busy.
LEMMA BusyFacts ==
    ASSUME NEW q \in Queues, NEW d \in DescIds, NEW i \in 1 .. Len(chain[q][d])
    PROVE  chain[q][d][i] \in Busy(q)
BY DEF Busy

\* The descriptor at a place of a chain says what the place says.
LEMMA DescOfFacts ==
    ASSUME NEW c \in Seq(DescIds), NEW i \in 1 .. Len(c),
           \A a, b \in 1 .. Len(c) : a # b => c[a] # c[b]
    PROVE  /\ DescOf(c, c[i]).len = IF i = 1 /\ Len(c) > 1 THEN HeaderSize ELSE 1
           /\ DescOf(c, c[i]).next = IF i = Len(c) THEN NoNext ELSE c[i + 1]
           /\ DescOf(c, c[i]) \in [len : Nat, next : Idx \cup {NoNext}]
<1> DEFINE j == CHOOSE j \in 1 .. Len(c) : c[j] = c[i]
<1>1. j \in 1 .. Len(c) /\ c[j] = c[i]
  OBVIOUS
<1>2. j = i
  BY <1>1
<1>3. DescOf(c, c[i]) = [len |-> IF j = 1 /\ Len(c) > 1 THEN HeaderSize ELSE 1,
                         next |-> IF j = Len(c) THEN NoNext ELSE c[j + 1]]
  BY DEF DescOf
<1> HIDE DEF j
<1>4. Len(c) \in Nat /\ HeaderSize \in Nat /\ DescIds \subseteq Idx
  BY BoundAssumption, Sizes
<1>5. i # Len(c) => c[i + 1] \in Idx
  <2>1. i # Len(c) => i + 1 \in 1 .. Len(c)
    BY <1>4
  <2>2. QED  BY <1>4, <2>1
<1>6. QED  BY <1>2, <1>3, <1>4, <1>5

\* What the driver writes; its steps leave the types of the rest alone.
DriverTypes ==
    /\ desc \in [Queues -> [DescIds -> [len : Nat, next : Idx \cup {NoNext}]]]
    /\ avail_ring \in [Queues -> [DescIds -> Idx]] /\ avail_idx \in [Queues -> Idx]
    /\ drv \in {"idle", "claimed", "drain"} /\ drv_queue \in Queues
    /\ filled \in [Queues -> DescIds \cup {NoDesc}]
    /\ chain \in [Queues -> [DescIds -> Seq(DescIds)]]
    /\ last_used \in [Queues -> Idx]
    /\ submitted \in [Queues -> Seq(DescIds)] /\ returned \in [Queues -> Seq(DescIds)]

LEMMA DriverTypeStep ==
    ASSUME TypeOK, DriverTypes',
           UNCHANGED <<used_ring, used_idx, regs, exit_thread_flag, pc, queue_idx, processed,
                       request, plic_pending, served, stale>>
    PROVE  TypeOK'
BY DEF TypeOK, DriverTypes, regs, request

\* The table after a chain was written: the chain's descriptors are as the
\* chain says, the others as they were.
LEMMA FillDesc ==
    ASSUME TypeOK, NEW q \in Queues, NEW c \in Chains(q), DriverFill(q, c)
    PROVE  /\ desc' \in [Queues -> [DescIds -> [len : Nat, next : Idx \cup {NoNext}]]]
           /\ \A i \in 1 .. Len(c) : desc'[q][c[i]] = DescOf(c, c[i])
           /\ \A d \in DescIds : (\A i \in 1 .. Len(c) : c[i] # d) => desc'[q][d] = desc[q][d]
           /\ \A p \in Queues \ {q} : desc'[p] = desc[p]
<1> DEFINE t == [d \in DescIds |-> IF \E i \in 1 .. Len(c) : c[i] = d
                                   THEN DescOf(c, d) ELSE desc[q][d]]
           D == [len : Nat, next : Idx \cup {NoNext}]
<1>1. desc \in [Queues -> [DescIds -> D]]
  BY DEF TypeOK
<1>2. desc' = [desc EXCEPT ![q] = t]
  BY DEF DriverFill
<1>3. ASSUME NEW i \in 1 .. Len(c)  PROVE DescOf(c, c[i]) \in D
  BY <1>3, ChainFacts, DescOfFacts
<1>4. ASSUME NEW d \in DescIds  PROVE t[d] \in D
  <2>1. CASE \E i \in 1 .. Len(c) : c[i] = d
    <3>1. PICK i \in 1 .. Len(c) : c[i] = d
      BY <2>1
    <3>2. DescOf(c, d) \in D
      BY <3>1, <1>3
    <3> HIDE DEF D
    <3>3. QED  BY <2>1, <3>2
  <2>2. CASE ~ \E i \in 1 .. Len(c) : c[i] = d
    <3> HIDE DEF D
    <3>1. QED  BY <1>1, <2>2
  <2>3. QED  BY <2>1, <2>2
<1>5. \A i \in 1 .. Len(c) : t[c[i]] = DescOf(c, c[i])
  BY ChainFacts
<1>6. \A d \in DescIds : (\A i \in 1 .. Len(c) : c[i] # d) => t[d] = desc[q][d]
  OBVIOUS
<1>7. t \in [DescIds -> D]
  BY <1>4
<1> HIDE DEF t, D
<1>8. desc'[q] = t /\ desc' \in [Queues -> [DescIds -> D]]
      /\ \A p \in Queues \ {q} : desc'[p] = desc[p]
  BY <1>1, <1>2, <1>7
<1>9. QED  BY <1>5, <1>6, <1>8 DEF D

\* A new entry of the avail ring hits no entry that waits.
LEMMA DriverFillStep ==
    ASSUME QueueInv, NEW q \in Queues, NEW c \in Chains(q), DriverFill(q, c)
    PROVE  QueueInv'
<1> DEFINE S == Len(submitted[q])
           m == Handed(q)
<1>1. TypeOK /\ magic_value
  BY DEF QueueInv, DriverFill
<1>2. /\ UNCHANGED <<avail_idx, used_ring, used_idx, regs, exit_thread_flag, pc,
                     queue_idx, processed, request, plic_pending, drv, drv_queue,
                     last_used, history>>
      /\ filled[q] = NoDesc /\ InFlight(q) < QueueSize
      /\ avail_ring' = [avail_ring EXCEPT ![q][avail_idx[q] % QueueSize] = c[1]]
      /\ chain' = [chain EXCEPT ![q][c[1]] = c]
      /\ filled' = [filled EXCEPT ![q] = c[1]]
  BY DEF DriverFill
<1>3. c[1] \in DescIds /\ c \in Seq(DescIds) /\ c[1] \in Idx
  BY ChainFacts, Sizes
<1>4. /\ avail_ring \in [Queues -> [DescIds -> Idx]]
      /\ avail_idx[q] % QueueSize \in DescIds
      /\ filled \in [Queues -> DescIds \cup {NoDesc}]
      /\ chain \in [Queues -> [DescIds -> Seq(DescIds)]]
  BY <1>1, IncrType DEF TypeOK
<1>5. desc' \in [Queues -> [DescIds -> [len : Nat, next : Idx \cup {NoNext}]]]
  BY <1>1, FillDesc
<1>6. /\ avail_ring' \in [Queues -> [DescIds -> Idx]]
      /\ filled' \in [Queues -> DescIds \cup {NoDesc}]
      /\ chain' \in [Queues -> [DescIds -> Seq(DescIds)]]
  BY <1>2, <1>3, <1>4
<1>7. TypeOK'
  <2>1. DriverTypes'
    BY <1>1, <1>2, <1>5, <1>6 DEF TypeOK, DriverTypes, history
  <2>2. QED  BY <1>1, <1>2, <2>1, DriverTypeStep DEF regs, request, history
<1>8. ASSUME NEW p \in Queues, p # q  PROVE QueueIntact(p)'
  <2>1. Handed(p)' = Handed(p)
    BY <1>2 DEF Handed, history
  <2>2. QueueIntact(p)
    BY <1>1, Counts
  <2>3. avail_ring'[p] = avail_ring[p] /\ filled'[p] = filled[p]
    BY <1>2, <1>4, <1>8
  <2>4. IndicesCount(p)' /\ CountsOrdered(p)' /\ InOrder(p)' /\ RequestCurrent(p)'
    BY <1>2, <2>1, <2>2, <2>3
    DEF QueueIntact, IndicesCount, CountsOrdered, InOrder, InFlight, RequestCurrent,
        history, request
  <2>5. RingsIntact(p)'
    BY <1>2, <2>1, <2>2, <2>3 DEF QueueIntact, RingsIntact, history, request
  <2>6. QED  BY <2>4, <2>5 DEF QueueIntact
<1>9. QueueIntact(q)'
  <2>1. /\ S \in Nat /\ m \in Nat /\ m <= S /\ QueueIntact(q)
        /\ Len(returned[q]) \in Nat /\ Len(returned[q]) <= m
        /\ S < Len(returned[q]) + QueueSize
    <3> DEFINE R == Len(returned[q])
    <3>1. /\ S \in Nat /\ m \in Nat /\ m <= S /\ QueueIntact(q)
          /\ R \in Nat /\ R <= m
      BY <1>1, Counts
    <3>2. QueueSize \in Nat /\ S - R < QueueSize
      BY <1>2, Sizes DEF InFlight
    <3> HIDE DEF R, S
    <3>3. S < R + QueueSize
      BY <3>1, <3>2
    <3>4. QED  BY <3>1, <3>3 DEF R, S
  <2>2. avail_idx[q] % QueueSize = S % QueueSize
    BY <2>1, IndexFacts DEF QueueIntact, IndicesCount
  <2>3. filled'[q] = c[1]
    BY <1>2, <1>4
  <2>4. Handed(q)' = m /\ InFlight(q)' = InFlight(q)
        /\ UNCHANGED <<submitted, served, returned, desc_idx_first>>
    BY <1>2 DEF Handed, InFlight, history, request
  <2>5. avail_ring'[q][S % QueueSize] = c[1]
    BY <1>2, <1>4, <2>2
  <2> HIDE DEF S, m
  <2>6. ASSUME NEW k \in m .. S - 1  PROVE avail_ring'[q][k % QueueSize] = submitted[q][k + 1]
    <3>1. k \in Nat /\ k < S /\ S < k + QueueSize
      BY <2>1, <2>6, Sizes
    <3>2. k % QueueSize # S % QueueSize /\ k % QueueSize \in DescIds
      BY <2>1, <3>1, SlotApart, IndexFacts
    <3>3. avail_ring'[q][k % QueueSize] = avail_ring[q][k % QueueSize]
      BY <1>2, <1>4, <2>2, <3>2
    <3>4. QED  BY <2>1, <2>6, <3>3 DEF QueueIntact, RingsIntact, S, m
  <2>7. RingsIntact(q)'
    BY <1>2, <2>1, <2>3, <2>4, <2>5, <2>6 DEF QueueIntact, RingsIntact, S, m
  <2>8. IndicesCount(q)' /\ InOrder(q)' /\ RequestCurrent(q)'
    BY <1>2, <2>1, <2>4 DEF QueueIntact, IndicesCount, InOrder, RequestCurrent, m
  <2>9. CountsOrdered(q)'
    BY <1>2, <2>1, <2>4 DEF QueueIntact, CountsOrdered, m
  <2>10. QED  BY <2>7, <2>8, <2>9 DEF QueueIntact
<1>10. QED  BY <1>7, <1>8, <1>9 DEF QueueInv

\* Publishing the entry submits the request it names.
LEMMA DriverPublishStep ==
    ASSUME QueueInv, NEW q \in Queues, DriverPublish(q)
    PROVE  QueueInv'
<1> DEFINE S == Len(submitted[q])
           m == Handed(q)
<1>1. TypeOK /\ magic_value
  BY DEF QueueInv, DriverPublish
<1>2. /\ UNCHANGED <<desc, avail_ring, used_ring, used_idx, regs, exit_thread_flag, pc,
                     queue_idx, processed, request, plic_pending, drv, drv_queue, chain,
                     last_used, served, returned, stale>>
      /\ filled[q] # NoDesc
      /\ avail_idx' = [avail_idx EXCEPT ![q] = (avail_idx[q] + 1) % IdxMod]
      /\ submitted' = [submitted EXCEPT ![q] = Append(submitted[q], filled[q])]
      /\ filled' = [filled EXCEPT ![q] = NoDesc]
  BY DEF DriverPublish
<1>3. /\ avail_idx \in [Queues -> Idx] /\ submitted \in [Queues -> Seq(DescIds)]
      /\ filled \in [Queues -> DescIds \cup {NoDesc}] /\ filled[q] \in DescIds
  BY <1>1, <1>2 DEF TypeOK
<1>4. /\ submitted'[q] \in Seq(DescIds)
      /\ Len(submitted'[q]) = S + 1
      /\ submitted'[q][S + 1] = filled[q]
      /\ \A k \in 1 .. S : submitted'[q][k] = submitted[q][k]
  <2>1. submitted'[q] = Append(submitted[q], filled[q])
    BY <1>2, <1>3
  <2>2. submitted[q] \in Seq(DescIds)
    BY <1>3
  <2>3. QED  BY <1>3, <2>1, <2>2, AppendFacts
<1>5. avail_idx' \in [Queues -> Idx] /\ filled' \in [Queues -> DescIds \cup {NoDesc}]
      /\ submitted' \in [Queues -> Seq(DescIds)]
  <2>1. (avail_idx[q] + 1) % IdxMod \in Idx
    BY <1>3, IncrType
  <2>2. Append(submitted[q], filled[q]) \in Seq(DescIds)
    BY <1>2, <1>3, <1>4
  <2>3. QED  BY <1>2, <1>3, <2>1, <2>2
<1>6. TypeOK'
  <2>1. DriverTypes'
    BY <1>1, <1>2, <1>5 DEF TypeOK, DriverTypes
  <2>2. QED  BY <1>1, <1>2, <2>1, DriverTypeStep DEF regs, request
<1>7. ASSUME NEW p \in Queues, p # q  PROVE QueueIntact(p)'
  <2>1. Handed(p)' = Handed(p)
    BY <1>2 DEF Handed
  <2>2. QueueIntact(p)
    BY <1>1, Counts
  <2>3. avail_idx'[p] = avail_idx[p] /\ filled'[p] = filled[p] /\ submitted'[p] = submitted[p]
    BY <1>2, <1>3, <1>7
  <2>4. IndicesCount(p)' /\ CountsOrdered(p)' /\ InOrder(p)' /\ RequestCurrent(p)'
    BY <1>2, <2>1, <2>2, <2>3
    DEF QueueIntact, IndicesCount, CountsOrdered, InOrder, InFlight, RequestCurrent, request
  <2>5. RingsIntact(p)'
    BY <1>2, <2>1, <2>2, <2>3 DEF QueueIntact, RingsIntact, request
  <2>6. QED  BY <2>4, <2>5 DEF QueueIntact
<1>8. QueueIntact(q)'
  <2>1. /\ S \in Nat /\ m \in Nat /\ m <= S /\ QueueIntact(q)
        /\ Len(returned[q]) \in Nat /\ Len(returned[q]) <= m
        /\ Len(served[q]) \in Nat /\ Len(served[q]) <= S
    BY <1>1, Counts
  <2>2. S - Len(returned[q]) < QueueSize
    BY <1>2, <2>1 DEF QueueIntact, CountsOrdered, InFlight
  <2>3. filled'[q] = NoDesc /\ avail_idx'[q] = (S + 1) % IdxMod
    BY <1>2, <1>3, <2>1, IndexFacts DEF QueueIntact, IndicesCount
  <2>4. Handed(q)' = m /\ UNCHANGED <<served, returned, desc_idx_first>>
    BY <1>2 DEF Handed, request
  <2>5. avail_ring[q][S % QueueSize] = filled[q]
    BY <1>2, <2>1 DEF QueueIntact, RingsIntact
  <2> HIDE DEF S, m
  <2>6. ASSUME NEW k \in m .. S  PROVE avail_ring[q][k % QueueSize] = submitted'[q][k + 1]
    <3>1. CASE k = S
      BY <1>4, <2>5, <3>1
    <3>2. CASE k # S
      <4>1. k \in m .. S - 1 /\ k + 1 \in 1 .. S
        BY <2>1, <2>6, <3>2
      <4>2. avail_ring[q][k % QueueSize] = submitted[q][k + 1]
        BY <2>1, <4>1 DEF QueueIntact, RingsIntact, S, m
      <4>3. QED  BY <1>4, <4>1, <4>2
    <3>3. QED  BY <3>1, <3>2
  <2>7. RingsIntact(q)'
    <3>1. (S + 1) - 1 = S
      BY <2>1
    <3>2. \A k \in Len(returned[q]) .. m - 1 : used_ring[q][k % QueueSize] = served[q][k + 1]
      BY <2>1 DEF QueueIntact, RingsIntact, m
    <3>3. pc = "publish" /\ queue_idx = q => used_ring[q][m % QueueSize] = desc_idx_first
      BY <2>1 DEF QueueIntact, RingsIntact, m
    <3>4. QED  BY <1>2, <1>4, <2>3, <2>4, <2>6, <3>1, <3>2, <3>3 DEF RingsIntact
  <2>8. IndicesCount(q)'
    BY <1>2, <1>4, <2>1, <2>3, <2>4 DEF QueueIntact, IndicesCount, m
  <2>9. CountsOrdered(q)'
    <3>1. InFlight(q)' = S + 1 - Len(returned[q]) /\ InFlight(q)' <= QueueSize
      BY <1>4, <2>1, <2>2, <2>4, Sizes DEF InFlight
    <3>2. QED  BY <1>4, <2>1, <2>3, <2>4, <3>1 DEF CountsOrdered
  <2>10. InOrder(q)'
    <3>1. \A k \in 1 .. Len(served[q]) : k \in 1 .. S /\ served[q][k] = submitted[q][k]
      BY <2>1 DEF QueueIntact, InOrder
    <3>2. \A k \in 1 .. Len(returned[q]) : k \in 1 .. S /\ returned[q][k] = submitted[q][k]
      BY <2>1 DEF QueueIntact, InOrder
    <3>3. QED  BY <1>4, <2>4, <3>1, <3>2 DEF InOrder
  <2>11. RequestCurrent(q)'
    <3>1. RequestCurrent(q)
      BY <2>1 DEF QueueIntact
    <3>2. ASSUME Len(served[q]) < S
          PROVE  submitted'[q][Len(served[q]) + 1] = submitted[q][Len(served[q]) + 1]
      BY <1>4, <2>1, <3>2, SMTT(30)
    <3>3. UNCHANGED <<pc, queue_idx>> /\ Len(served[q]) < S => Len(served[q]) < S + 1
      BY <1>2, <2>1
    <3>4. QED  BY <1>2, <1>4, <2>4, <3>1, <3>2, <3>3 DEF RequestCurrent, S
  <2>12. QED  BY <2>7, <2>8, <2>9, <2>10, <2>11 DEF QueueIntact
<1>9. QED  BY <1>6, <1>7, <1>8 DEF QueueInv

\* A used entry that the driver sees is the oldest request handed back.
LEMMA UsedEntry ==
    ASSUME QueueInv, magic_value, NEW q \in Queues, last_used[q] # used_idx[q]
    PROVE  /\ Len(returned[q]) < Handed(q)
           /\ used_ring[q][last_used[q] % QueueSize] = served[q][Len(returned[q]) + 1]
           /\ used_ring[q][last_used[q] % QueueSize] = submitted[q][Len(returned[q]) + 1]
           /\ used_ring[q][last_used[q] % QueueSize] \in DescIds
<1> DEFINE R == Len(returned[q])
           m == Handed(q)
<1>1. /\ R \in Nat /\ m \in Nat /\ R <= m /\ QueueIntact(q)
      /\ m <= Len(served[q]) /\ served[q] \in Seq(DescIds)
  BY Counts
<1>2. R # m
  BY <1>1 DEF QueueIntact, IndicesCount
<1>3. last_used[q] % QueueSize = R % QueueSize
  BY <1>1, IndexFacts DEF QueueIntact, IndicesCount
<1>a. R \in R .. m - 1
  BY <1>1, <1>2
<1>4. used_ring[q][R % QueueSize] = served[q][R + 1]
  BY <1>1, <1>a DEF QueueIntact, RingsIntact
<1>5. R + 1 \in 1 .. Len(served[q])
  BY <1>1, <1>2
<1>6. served[q][R + 1] \in DescIds /\ served[q][R + 1] = submitted[q][R + 1]
  BY <1>1, <1>5 DEF QueueIntact, InOrder
<1>7. QED  BY <1>1, <1>2, <1>3, <1>4, <1>6

\* Taking a used entry returns that request, once.
LEMMA DriverTakeStep ==
    ASSUME QueueInv, NEW q \in Queues, DriverTake(q)
    PROVE  QueueInv'
<1> DEFINE R == Len(returned[q])
           h == used_ring[q][last_used[q] % QueueSize]
           m == Handed(q)
<1>1. TypeOK /\ magic_value /\ last_used[q] # used_idx[q]
  BY DEF QueueInv, DriverTake
<1>2. /\ UNCHANGED <<dram, regs, exit_thread_flag, pc, queue_idx, processed, request,
                     plic_pending, drv, drv_queue, filled, submitted, served, stale>>
      /\ returned' = [returned EXCEPT ![q] = Append(returned[q], h)]
      /\ chain' = [chain EXCEPT ![q][h] = << >>]
      /\ last_used' = [last_used EXCEPT ![q] = (last_used[q] + 1) % IdxMod]
  BY DEF DriverTake
<1>3. R < m /\ h = submitted[q][R + 1] /\ h \in DescIds
  BY <1>1, UsedEntry
<1>4. /\ returned \in [Queues -> Seq(DescIds)] /\ last_used \in [Queues -> Idx]
      /\ chain \in [Queues -> [DescIds -> Seq(DescIds)]]
  BY <1>1 DEF TypeOK
<1> HIDE DEF h
<1>5. /\ returned'[q] \in Seq(DescIds)
      /\ Len(returned'[q]) = R + 1
      /\ returned'[q][R + 1] = h
      /\ \A k \in 1 .. R : returned'[q][k] = returned[q][k]
  <2>1. returned'[q] = Append(returned[q], h) /\ returned[q] \in Seq(DescIds)
    BY <1>2, <1>4
  <2>2. QED  BY <1>3, <2>1, AppendFacts
<1>6. last_used' \in [Queues -> Idx] /\ returned' \in [Queues -> Seq(DescIds)]
      /\ chain' \in [Queues -> [DescIds -> Seq(DescIds)]]
  <2>1. (last_used[q] + 1) % IdxMod \in Idx
    BY <1>4, IncrType
  <2>2. Append(returned[q], h) \in Seq(DescIds) /\ << >> \in Seq(DescIds)
    BY <1>2, <1>4, <1>5
  <2>3. QED  BY <1>2, <1>3, <1>4, <2>1, <2>2
<1>7. TypeOK'
  <2>1. DriverTypes'
    BY <1>1, <1>2, <1>6 DEF TypeOK, DriverTypes, dram
  <2>2. QED  BY <1>1, <1>2, <2>1, DriverTypeStep DEF dram, regs, request
<1>8. ASSUME NEW p \in Queues, p # q  PROVE QueueIntact(p)'
  <2>1. Handed(p)' = Handed(p)
    BY <1>2 DEF Handed
  <2>2. QueueIntact(p)
    BY <1>1, Counts
  <2>3. last_used'[p] = last_used[p] /\ returned'[p] = returned[p]
    BY <1>2, <1>4, <1>8
  <2>4. IndicesCount(p)' /\ CountsOrdered(p)' /\ InOrder(p)' /\ RequestCurrent(p)'
    BY <1>2, <2>1, <2>2, <2>3
    DEF QueueIntact, IndicesCount, CountsOrdered, InOrder, InFlight, RequestCurrent, dram, request
  <2>5. RingsIntact(p)'
    BY <1>2, <2>1, <2>2, <2>3 DEF QueueIntact, RingsIntact, dram, request
  <2>6. QED  BY <2>4, <2>5 DEF QueueIntact
<1>9. QueueIntact(q)'
  <2>1. /\ R \in Nat /\ m \in Nat /\ R < m /\ QueueIntact(q)
        /\ Len(submitted[q]) \in Nat /\ m <= Len(submitted[q])
    BY <1>1, <1>3, Counts
  <2>2. last_used'[q] = (R + 1) % IdxMod
    BY <1>2, <1>4, <2>1, IndexFacts DEF QueueIntact, IndicesCount
  <2>3. Handed(q)' = m /\ UNCHANGED <<submitted, served, filled, desc_idx_first, avail_idx,
                                      used_idx, avail_ring, used_ring>>
    BY <1>2 DEF Handed, request, dram
  <2> HIDE DEF R, m
  <2>4. RingsIntact(q)'
    <3>1. \A k \in R + 1 .. m - 1 : k \in R .. m - 1
      BY <2>1
    <3>2. \A k \in R + 1 .. m - 1 : used_ring[q][k % QueueSize] = served[q][k + 1]
      BY <2>1, <3>1 DEF QueueIntact, RingsIntact, R, m
    <3>3. QED  BY <1>2, <1>5, <2>1, <2>3, <3>2 DEF QueueIntact, RingsIntact, m
  <2>5. IndicesCount(q)'
    BY <1>2, <1>5, <2>1, <2>2, <2>3 DEF QueueIntact, IndicesCount, m
  <2>6. CountsOrdered(q)'
    <3>1. CountsOrdered(q) /\ InFlight(q)' = InFlight(q) - 1 /\ InFlight(q) \in Int
      BY <1>5, <2>1, <2>3 DEF QueueIntact, InFlight, R
    <3>2. QED  BY <1>5, <2>1, <2>3, <3>1, Sizes DEF CountsOrdered, m
  <2>7. InOrder(q)'
    <3>1. ASSUME NEW k \in 1 .. R + 1  PROVE returned'[q][k] = submitted[q][k]
      <4>1. CASE k = R + 1
        BY <1>3, <1>5, <4>1 DEF R
      <4>2. CASE k # R + 1
        <5>1. k \in 1 .. R
          BY <2>1, <3>1, <4>2
        <5>2. QED  BY <1>5, <2>1, <5>1 DEF QueueIntact, InOrder, R
      <4>3. QED  BY <4>1, <4>2
    <3>2. QED  BY <1>5, <2>1, <2>3, <3>1 DEF QueueIntact, InOrder
  <2>8. RequestCurrent(q)'
    BY <1>2, <2>1, <2>3 DEF QueueIntact, RequestCurrent
  <2>9. QED  BY <2>4, <2>5, <2>6, <2>7, <2>8 DEF QueueIntact
<1>10. QED  BY <1>7, <1>8, <1>9 DEF QueueInv

\* After a reset only the types are left.
LEMMA ChipResetStep ==
    ASSUME QueueInv, ChipReset
    PROVE  QueueInv'
<1>1. TypeOK
  BY DEF QueueInv
<1>2. PICK v \in {0, IdxMod - 1} :
        /\ desc' = [q \in Queues |-> [d \in DescIds |->
                      [len |-> v, next |-> IF v = 0 THEN NoNext ELSE v]]]
        /\ avail_ring' = [q \in Queues |-> [s \in DescIds |-> v]]
        /\ avail_idx' = [q \in Queues |-> v]
        /\ used_ring' = [q \in Queues |-> [s \in DescIds |-> v]]
        /\ used_idx' = [q \in Queues |-> v]
        /\ interrupt_status' = (v # 0)
        /\ interrupt_ack' = (v # 0)
  BY DEF ChipReset
<1>3. v \in Idx /\ v \in Nat /\ 0 \in Queues
  BY Sizes, QueuesAssumption DEF Queues
<1>4. [len |-> v, next |-> IF v = 0 THEN NoNext ELSE v] \in [len : Nat, next : Idx \cup {NoNext}]
  BY <1>3
<1>5. desc' \in [Queues -> [DescIds -> [len : Nat, next : Idx \cup {NoNext}]]]
  BY <1>2, <1>4
<1>6. /\ avail_ring' \in [Queues -> [DescIds -> Idx]] /\ avail_idx' \in [Queues -> Idx]
      /\ used_ring' \in [Queues -> [DescIds -> Idx]] /\ used_idx' \in [Queues -> Idx]
      /\ interrupt_status' \in BOOLEAN /\ interrupt_ack' \in BOOLEAN
  BY <1>2, <1>3
<1>7. /\ UNCHANGED <<exit_thread_flag, pc, queue_idx, processed, request, history>>
      /\ magic_value' = FALSE
      /\ plic_pending' = FALSE /\ drv' = "idle" /\ drv_queue' = 0
      /\ filled' = [q \in Queues |-> NoDesc]
      /\ chain' = [q \in Queues |-> [d \in DescIds |-> << >>]]
      /\ last_used' = [q \in Queues |-> 0]
  BY DEF ChipReset
<1>8. chain' \in [Queues -> [DescIds -> Seq(DescIds)]] /\ last_used' \in [Queues -> Idx]
  BY <1>7, Sizes
<1>9. TypeOK'
  BY <1>1, <1>3, <1>5, <1>6, <1>7, <1>8 DEF TypeOK, request, history
<1>10. QED  BY <1>7, <1>9 DEF QueueInv

\* Every step of the thread, the driver, the console or the chip.
LEMMA QueueStep == QueueInv /\ [Next]_vars => QueueInv'
<1> SUFFICES ASSUME QueueInv, [Next]_vars PROVE QueueInv'
  OBVIOUS
<1>1. CASE device_loop
  BY <1>1, LoopSteps, PollBusyStep, FetchStep, WalkNextStep, WalkLastStep,
     UsedWriteStep, UsedPublishStep DEF device_loop
<1>2. CASE Guest
  BY <1>2, HandlerSteps, DriverFillStep, DriverPublishStep, DriverTakeStep
  DEF Guest, IrqHandler
<1>3. CASE SetExit
  BY <1>3, HandlerSteps
<1>4. CASE ChipReset
  BY <1>4, ChipResetStep
<1>5. CASE UNCHANGED vars
  <2>1. UNCHANGED <<desc, avail_ring, avail_idx, used_ring, used_idx, magic_value,
                    interrupt_status, interrupt_ack, exit_thread_flag, pc, queue_idx,
                    processed, desc_idx, desc_idx_first, num_bytes_written, calls,
                    plic_pending, drv, drv_queue, filled, chain, last_used,
                    submitted, served, returned, stale>>
    BY <1>5 DEF vars, dram, regs, request, driver, history
  <2>2. TypeOK'
    BY <2>1 DEF QueueInv, TypeOK
  <2>3. ASSUME NEW q \in Queues, magic_value  PROVE QueueIntact(q)'
    <3>1. Handed(q)' = Handed(q)
      BY <2>1 DEF Handed
    <3>2. RequestCurrent(q)'
      BY <2>1, <2>3, Counts DEF QueueIntact, RequestCurrent
    <3>3. QED  BY <2>1, <2>3, <3>1, <3>2, QuietStep
  <2>4. QED  BY <2>1, <2>2, <2>3 DEF QueueInv
<1>6. QED  BY <1>1, <1>2, <1>3, <1>4, <1>5 DEF Next

\* While the chip is up the four indices of every queue count modulo 2^16 what
\* was submitted, handed back and returned, no ring entry is overwritten before
\* the other side has read it, and requests are served and returned in order,
\* each once: virtiodevice.hpp:310-373, whatever the driver does meanwhile.
THEOREM QueueSafety == Spec => []QueueInv
BY QueueInit, QueueStep, PTL DEF Spec

-----------------------------------------------------------------------------
(* Interrupts *)

\* The status bit is set before the pulse and stays set while the chip is up.
LEMMA StatusStep == TypeOK /\ StatusBeforeIrq /\ [Next]_vars => StatusBeforeIrq'
<1> SUFFICES ASSUME TypeOK, StatusBeforeIrq, [Next]_vars PROVE StatusBeforeIrq'
  OBVIOUS
<1> USE DEF StatusBeforeIrq
<1>1. CASE LoopReturn \/ LoopEnter \/ PollIdle \/ PollBusy \/ Fetch \/ Crash
  BY <1>1 DEF LoopReturn, LoopEnter, ack_interrupt, PollIdle, NextQueue, PollBusy, Fetch,
              Crash, regs, driver
<1>2. CASE WalkNext \/ WalkLast \/ UsedWrite \/ UsedPublish
  BY <1>2 DEF WalkNext, WalkLast, UsedWrite, UsedPublish, regs, driver
<1>3. CASE SetStatus
  BY <1>3 DEF SetStatus
<1>4. CASE Pulse
  BY <1>4 DEF Pulse, NextQueue, regs, driver
<1>5. CASE DriverClaim \/ SetExit
  BY <1>5 DEF DriverClaim, SetExit, regs, driver
<1>a. CASE DriverCheckStatus
  BY <1>a DEF DriverCheckStatus
<1>6. ASSUME NEW q \in Queues, DriverTake(q) \/ DriverPublish(q)  PROVE StatusBeforeIrq'
  <2>1. UNCHANGED <<magic_value, plic_pending, drv, pc, interrupt_status>>
    BY <1>6 DEF DriverTake, DriverPublish, regs
  <2>2. QED  BY <2>1
<1>b. CASE \E q \in Queues : DriverDrained(q)
  BY <1>b DEF DriverDrained, regs
<1>7. CASE \E q \in Queues : \E c \in Chains(q) : DriverFill(q, c)
  BY <1>7 DEF DriverFill, regs
<1>8. CASE ChipReset
  BY <1>8 DEF ChipReset
<1>9. CASE UNCHANGED vars
  BY <1>9 DEF vars, regs, driver
<1>10. QED
  BY <1>1, <1>2, <1>3, <1>4, <1>5, <1>a, <1>6, <1>b, <1>7, <1>8, <1>9
  DEF Next, device_loop, Guest, IrqHandler

\* set_interrupt sets the bit of interrupt_status before it raises the
\* interrupt, so the driver's handler never finds the bit clear
\* (virtiodevice.hpp:185-206).
THEOREM StatusSafety == Spec => []StatusBeforeIrq
<1>1. Init => StatusBeforeIrq
  BY DEF Init, StatusBeforeIrq
<1>2. QueueInv => TypeOK
  BY DEF QueueInv
<1>3. QED  BY <1>1, <1>2, QueueSafety, StatusStep, PTL DEF Spec

\* An entry the driver has not taken is on its way to it, step by step.
LEMMA WakeupStep ==
    ASSUME QueueInv, StatusBeforeIrq, NoLostWakeup, [Next]_vars
    PROVE  NoLostWakeup'
<1> SUFFICES ASSUME magic_value', NEW q \in Queues, used_idx'[q] # last_used'[q]
             PROVE  \/ plic_pending'
                    \/ drv' = "claimed"
                    \/ drv' = "drain" /\ drv_queue' <= q
                    \/ pc' \in {"status", "pulse"} /\ queue_idx' = q
  BY DEF NoLostWakeup
<1>1. TypeOK
  BY DEF QueueInv
<1> DEFINE Coming == \/ plic_pending
                     \/ drv = "claimed"
                     \/ drv = "drain" /\ drv_queue <= q
                     \/ pc \in {"status", "pulse"} /\ queue_idx = q
<1>2. ASSUME magic_value, used_idx[q] # last_used[q]  PROVE Coming
  BY <1>2, Zenon DEF NoLostWakeup
<1>3. CASE LoopReturn \/ LoopEnter \/ PollIdle \/ PollBusy \/ Fetch \/ WalkNext
  <2>1. UNCHANGED <<used_idx, last_used, magic_value, plic_pending, drv, drv_queue>>
        /\ pc \notin {"status", "pulse"}
    BY <1>3 DEF LoopReturn, LoopEnter, PollIdle, PollBusy, Fetch, WalkNext, dram, regs, driver
  <2>2. QED  BY <1>2, <2>1
<1>4. CASE WalkLast \/ UsedWrite \/ Crash
  <2>1. UNCHANGED <<used_idx, last_used, magic_value, plic_pending, drv, drv_queue>>
        /\ pc \notin {"status", "pulse"}
    BY <1>4 DEF WalkLast, UsedWrite, Crash, dram, regs, driver
  <2>2. QED  BY <1>2, <2>1
<1>5. CASE UsedPublish
  <2>1. /\ UNCHANGED <<last_used, magic_value, plic_pending, drv, drv_queue, queue_idx>>
        /\ pc = "publish" /\ pc' = "status"
        /\ used_idx' = [used_idx EXCEPT ![queue_idx] = Incr(used_idx[queue_idx])]
    BY <1>5 DEF UsedPublish, regs, driver
  <2>2. q # queue_idx => used_idx'[q] = used_idx[q]
    BY <1>1, <2>1 DEF TypeOK
  <2>3. QED  BY <1>2, <2>1, <2>2
<1>6. CASE SetStatus
  <2>1. /\ UNCHANGED <<used_idx, last_used, magic_value, plic_pending, drv, drv_queue, queue_idx>>
        /\ pc' = "pulse"
    BY <1>6 DEF SetStatus, dram, driver
  <2>2. QED  BY <1>2, <2>1
<1>7. CASE Pulse
  BY <1>7 DEF Pulse
<1>8. CASE DriverClaim
  BY <1>8 DEF DriverClaim
<1>9. CASE DriverCheckStatus
  <2>1. /\ UNCHANGED <<used_idx, last_used, magic_value, plic_pending, pc, queue_idx>>
        /\ drv = "claimed" /\ magic_value /\ drv_queue' = 0
        /\ drv' = IF interrupt_status THEN "drain" ELSE "idle"
    BY <1>9 DEF DriverCheckStatus, dram
  <2>2. interrupt_status
    BY <2>1 DEF StatusBeforeIrq
  <2>3. 0 <= q
    BY QueuesAssumption DEF Queues
  <2>4. QED  BY <2>1, <2>2, <2>3
<1>10. ASSUME NEW p \in Queues, DriverTake(p)
       PROVE  \/ plic_pending'
              \/ drv' = "claimed"
              \/ drv' = "drain" /\ drv_queue' <= q
              \/ pc' \in {"status", "pulse"} /\ queue_idx' = q
  <2>1. /\ UNCHANGED <<used_idx, magic_value, plic_pending, drv, drv_queue, pc, queue_idx>>
        /\ drv = "drain" /\ drv_queue = p /\ magic_value
        /\ last_used' = [last_used EXCEPT ![p] = (last_used[p] + 1) % IdxMod]
    BY <1>10 DEF DriverTake, dram, regs
  <2>2. CASE p = q
    BY <2>1, <2>2, q <= q, QueuesAssumption DEF Queues
  <2>3. CASE p # q
    <3>1. last_used'[q] = last_used[q]
      BY <1>1, <2>1, <2>3 DEF TypeOK
    <3>2. magic_value /\ used_idx[q] # last_used[q]
      BY <2>1, <3>1
    <3>3. Coming
      BY <1>2, <3>2
    <3>4. plic_pending' = plic_pending /\ drv' = drv /\ drv_queue' = drv_queue
          /\ pc' = pc /\ queue_idx' = queue_idx
      BY <2>1
    <3>5. QED  BY <3>3, <3>4, Zenon DEF Coming
  <2>4. QED  BY <2>2, <2>3
<1>11. ASSUME NEW p \in Queues, DriverDrained(p)
       PROVE  \/ plic_pending'
              \/ drv' = "claimed"
              \/ drv' = "drain" /\ drv_queue' <= q
              \/ pc' \in {"status", "pulse"} /\ queue_idx' = q
  <2>1. /\ UNCHANGED <<used_idx, last_used, magic_value, plic_pending, pc, queue_idx>>
        /\ drv = "drain" /\ drv_queue = p /\ last_used[p] = used_idx[p] /\ magic_value
        /\ \/ p + 1 < NumQueues /\ drv_queue' = p + 1 /\ drv' = drv
           \/ p + 1 = NumQueues /\ drv' = "idle" /\ drv_queue' = drv_queue
    BY <1>11 DEF DriverDrained, dram, regs
  <2>2. q # p
    BY <2>1
  <2>3. CASE drv_queue <= q
    <3>1. p + 1 <= q /\ p + 1 # NumQueues
      BY <2>1, <2>2, <2>3, QueuesAssumption DEF Queues
    <3>2. QED  BY <2>1, <3>1
  <2>4. CASE ~ (drv_queue <= q)
    <3>1. magic_value /\ used_idx[q] # last_used[q]
      BY <2>1
    <3>2. Coming
      BY <1>2, <3>1
    <3>3. drv # "claimed" /\ ~ (drv_queue <= q)
          /\ plic_pending' = plic_pending /\ pc' = pc /\ queue_idx' = queue_idx
      BY <2>1, <2>4
    <3>4. QED  BY <3>2, <3>3, Zenon DEF Coming
  <2>5. QED  BY <2>3, <2>4
<1>12. CASE SetExit \/ UNCHANGED vars \/ \E p \in Queues : DriverPublish(p)
  <2>1. UNCHANGED <<used_idx, last_used, magic_value, plic_pending, drv, drv_queue, pc, queue_idx>>
    BY <1>12 DEF SetExit, DriverPublish, vars, dram, regs, driver
  <2>2. QED  BY <1>2, <2>1
<1>13. CASE \E p \in Queues : \E c \in Chains(p) : DriverFill(p, c)
  <2>1. UNCHANGED <<used_idx, last_used, magic_value, plic_pending, drv, drv_queue, pc, queue_idx>>
    BY <1>13 DEF DriverFill, regs
  <2>2. QED  BY <1>2, <2>1
<1>14. CASE ChipReset
  BY <1>14 DEF ChipReset
<1>15. QED
  BY <1>3, <1>4, <1>5, <1>6, <1>7, <1>8, <1>9, <1>10, <1>11, <1>12, <1>13, <1>14
  DEF Next, device_loop, Guest, IrqHandler

\* No used entry is left behind: one thread raises the interrupts of all queues
\* and the driver may take an entry in the middle of it, but whenever the used
\* index is ahead of the driver, the driver will look (virtiodevice.hpp:185-206
\* and 355-370).
THEOREM WakeupSafety == Spec => []NoLostWakeup
<1>1. Init => NoLostWakeup
  BY DEF Init, NoLostWakeup
<1>2. QueueInv /\ StatusBeforeIrq /\ NoLostWakeup /\ [Next]_vars => NoLostWakeup'
  BY WakeupStep
<1>3. QED  BY <1>1, <1>2, QueueSafety, StatusSafety, PTL DEF Spec

-----------------------------------------------------------------------------
(* What the loop does after a reset *)

\* No request of a reset chip is served before the reset, and in the round that
\* notices it the queues are visited once, in ascending order.
StaleInv ==
    /\ StaleBounded
    /\ magic_value => \A q \in Queues : stale[q] = 0
    /\ pc \in {"poll", "fetch", "walk"} =>
          \A q \in Queues : queue_idx <= q => stale[q] = 0
    /\ pc \in {"used", "publish", "status", "pulse"} =>
          \A q \in Queues : queue_idx < q => stale[q] = 0

LEMMA StaleStep ==
    ASSUME TypeOK, StaleInv, [Next]_vars
    PROVE  StaleInv'
<1>1. queue_idx \in Queues /\ stale \in [Queues -> Nat]
      /\ pc \in {"top", "poll", "fetch", "walk", "used", "publish", "status",
                 "pulse", "returned", "crashed"}
  BY DEF TypeOK
<1> USE DEF StaleInv, StaleBounded
<1>2. CASE LoopReturn \/ PollBusy \/ Fetch \/ WalkNext \/ UsedWrite \/ UsedPublish
           \/ SetStatus \/ Crash
  <2>1. /\ UNCHANGED <<magic_value, queue_idx, stale>>
        /\ \/ pc' \in {"returned", "crashed"}
           \/ pc \in {"poll", "fetch", "walk"} /\ pc' \in {"poll", "fetch", "walk"}
           \/ /\ pc \in {"used", "publish", "status", "pulse"}
              /\ pc' \in {"used", "publish", "status", "pulse"}
    BY <1>2 DEF LoopReturn, PollBusy, Fetch, WalkNext, UsedWrite, UsedPublish, SetStatus,
                Crash, regs, history
  <2>2. QED  BY <1>1, <2>1
<1>3. CASE LoopEnter
  <2>1. magic_value /\ UNCHANGED <<magic_value, stale>>
    BY <1>3 DEF LoopEnter, KeepsRunning, history
  <2>2. QED  BY <1>1, <2>1
<1>4. CASE PollIdle \/ Pulse
  <2>1. /\ UNCHANGED <<magic_value, stale>> /\ pc \in {"poll", "pulse"}
        /\ NextQueue
    BY <1>4 DEF PollIdle, Pulse, regs, history
  <2>2. CASE pc' = "top"
    BY <1>1, <2>1, <2>2
  <2>3. CASE pc' = "poll" /\ queue_idx' = queue_idx + 1
    <3>1. ASSUME NEW q \in Queues, queue_idx' <= q  PROVE stale'[q] = 0
      <4>1. queue_idx < q /\ queue_idx <= q
        BY <1>1, <2>3, <3>1, QueuesAssumption DEF Queues
      <4>2. QED  BY <1>1, <2>1, <4>1
    <3>2. QED  BY <1>1, <2>1, <2>3, <3>1
  <2>4. QED  BY <2>1, <2>2, <2>3 DEF NextQueue
<1>5. CASE WalkLast
  <2>1. /\ UNCHANGED <<magic_value, queue_idx>> /\ pc = "walk" /\ pc' = "used"
        /\ stale' = IF magic_value THEN stale
                    ELSE [stale EXCEPT ![queue_idx] = stale[queue_idx] + 1]
    BY <1>5 DEF WalkLast, Served, regs
  <2>2. CASE magic_value
    BY <1>1, <2>1, <2>2
  <2>3. CASE ~ magic_value
    <3>1. stale[queue_idx] = 0
      BY <1>1, <2>1, QueuesAssumption DEF Queues
    <3>2. stale'[queue_idx] = 1 /\ \A q \in Queues \ {queue_idx} : stale'[q] = stale[q]
      BY <1>1, <2>1, <2>3, <3>1
    <3>3. \A q \in Queues : queue_idx < q => q # queue_idx /\ queue_idx <= q
      BY <1>1, QueuesAssumption DEF Queues
    <3>4. \A q \in Queues : stale'[q] <= 1
      BY <1>1, <3>2
    <3>5. \A q \in Queues : queue_idx < q => stale'[q] = 0
      BY <2>1, <3>2, <3>3
    <3>6. QED  BY <2>1, <2>3, <3>4, <3>5
  <2>4. QED  BY <2>2, <2>3
<1>6. CASE SetExit \/ UNCHANGED vars \/ DriverClaim \/ DriverCheckStatus
  <2>1. UNCHANGED <<magic_value, pc, queue_idx, stale>>
    BY <1>6 DEF SetExit, vars, DriverClaim, DriverCheckStatus, regs, history
  <2>2. QED  BY <2>1
<1>7. ASSUME NEW q \in Queues,
             \/ DriverPublish(q) \/ DriverTake(q) \/ DriverDrained(q)
             \/ \E c \in Chains(q) : DriverFill(q, c)
      PROVE  StaleInv'
  <2>1. UNCHANGED <<magic_value, pc, queue_idx, stale>>
    BY <1>7 DEF DriverPublish, DriverTake, DriverDrained, DriverFill, regs, history
  <2>2. QED  BY <2>1
<1>8. CASE ChipReset
  <2>1. magic_value' = FALSE /\ UNCHANGED <<pc, queue_idx, stale>>
    BY <1>8 DEF ChipReset, history
  <2>2. QED  BY <2>1
<1>9. QED
  BY <1>2, <1>3, <1>4, <1>5, <1>6, <1>7, <1>8 DEF Next, device_loop, Guest, IrqHandler

\* The loop looks at magic_value once a round, so what the memory of a reset
\* chip shows it is processed at most once on each queue (virtiodevice.hpp:300-310).
THEOREM StaleSafety == Spec => []StaleBounded
<1>1. Init => StaleInv
  BY DEF Init, StaleInv, StaleBounded
<1>2. TypeOK /\ StaleInv /\ [Next]_vars => StaleInv'
  BY StaleStep
<1>3. QueueInv => TypeOK
  BY DEF QueueInv
<1>4. StaleInv => StaleBounded
  BY DEF StaleInv
<1>5. QED  BY <1>1, <1>2, <1>3, <1>4, QueueSafety, PTL DEF Spec

-----------------------------------------------------------------------------
(* The abstract queue *)

\* Every step is a step of the abstract queue or leaves its histories alone.
LEMMA AbstractStep == QueueInv /\ [Next]_vars => [Abstract!Next]_<<submitted, served, returned>>
<1> SUFFICES ASSUME QueueInv, [Next]_vars
             PROVE  [Abstract!Next]_<<submitted, served, returned>>
  OBVIOUS
<1>1. TypeOK
  BY DEF QueueInv
<1>2. CASE LoopReturn \/ LoopEnter \/ PollIdle \/ PollBusy \/ Fetch \/ WalkNext
           \/ UsedWrite \/ UsedPublish \/ SetStatus \/ Pulse \/ Crash
  BY <1>2 DEF LoopReturn, LoopEnter, PollIdle, PollBusy, Fetch, WalkNext, UsedWrite,
              UsedPublish, SetStatus, Pulse, Crash, history
<1>3. CASE WalkLast
  <2>1. CASE magic_value
    <3>1. /\ queue_idx \in Queues /\ RequestCurrent(queue_idx) /\ pc = "walk"
          /\ served' = [served EXCEPT ![queue_idx] = Append(@, desc_idx_first)]
          /\ UNCHANGED <<submitted, returned>>
      BY <1>1, <1>3, <2>1, Counts DEF WalkLast, Served, TypeOK, QueueIntact
    <3>2. Abstract!Serve(queue_idx)
      BY <3>1 DEF RequestCurrent, Abstract!Serve
    <3>3. QED  BY <3>1, <3>2 DEF Abstract!Next
  <2>2. CASE ~ magic_value
    BY <1>3, <2>2 DEF WalkLast, Served
  <2>3. QED  BY <2>1, <2>2
<1>4. ASSUME NEW q \in Queues, DriverPublish(q)  PROVE Abstract!Next
  <2>1. /\ filled[q] # NoDesc /\ magic_value
        /\ submitted' = [submitted EXCEPT ![q] = Append(@, filled[q])]
        /\ UNCHANGED <<served, returned>>
    BY <1>4 DEF DriverPublish
  <2>2. filled[q] \in DescIds
    BY <1>1, <2>1 DEF TypeOK
  <2>3. Len(submitted[q]) < Len(returned[q]) + QueueSize
    <3> DEFINE S == Len(submitted[q])
               R == Len(returned[q])
    <3>1. S - R < QueueSize
      BY <2>1, Counts DEF QueueIntact, CountsOrdered, InFlight
    <3>2. S \in Nat /\ R \in Nat /\ QueueSize \in Nat
      BY <2>1, Counts, Sizes
    <3> HIDE DEF S, R
    <3>3. S < R + QueueSize
      BY <3>1, <3>2
    <3>4. QED  BY <3>3 DEF S, R
  <2>4. Abstract!Submit(q, filled[q])
    BY <2>1, <2>3 DEF Abstract!Submit
  <2>5. QED  BY <2>2, <2>4 DEF Abstract!Next
<1>5. ASSUME NEW q \in Queues, DriverTake(q)  PROVE Abstract!Next
  <2>1. /\ last_used[q] # used_idx[q] /\ magic_value
        /\ returned' = [returned EXCEPT
                          ![q] = Append(@, used_ring[q][last_used[q] % QueueSize])]
        /\ UNCHANGED <<submitted, served>>
    BY <1>5 DEF DriverTake
  <2>2. /\ Len(returned[q]) < Len(served[q])
        /\ used_ring[q][last_used[q] % QueueSize] = served[q][Len(returned[q]) + 1]
    BY <2>1, UsedEntry, Counts
  <2>3. Abstract!Return(q)
    BY <2>1, <2>2 DEF Abstract!Return
  <2>4. QED  BY <2>3 DEF Abstract!Next
<1>6. ASSUME NEW q \in Queues,
             DriverDrained(q) \/ \E c \in Chains(q) : DriverFill(q, c)
      PROVE  UNCHANGED <<submitted, served, returned>>
  BY <1>6 DEF DriverDrained, DriverFill, history
<1>7. CASE SetExit \/ ChipReset \/ DriverClaim \/ DriverCheckStatus \/ UNCHANGED vars
  BY <1>7 DEF SetExit, ChipReset, DriverClaim, DriverCheckStatus, vars, history
<1>8. QED
  BY <1>2, <1>3, <1>4, <1>5, <1>6, <1>7 DEF Next, device_loop, Guest, IrqHandler

\* device_loop and the driver together implement a queue of requests: each is
\* served once and in order, and returned once, after it was served, whenever
\* the chip is reset or the tool exits.
THEOREM QueueRefinement == Spec => ImplementsQueue
<1>1. Init => Abstract!Init
  BY DEF Init, Abstract!Init
<1>2. QED
  BY <1>1, AbstractStep, QueueSafety, PTL DEF Spec, ImplementsQueue, Abstract!Spec

-----------------------------------------------------------------------------
(* The chains of descriptors *)

\* The k-th request of a queue, from its entry in the avail ring on.
HeadOf(q, k) == IF k <= Len(submitted[q]) THEN submitted[q][k] ELSE filled[q]

\* The requests that have a chain: filled, submitted or served, not returned.
Live(q) ==
    Len(returned[q]) + 1 ..
        IF filled[q] = NoDesc THEN Len(submitted[q]) ELSE Len(submitted[q]) + 1

\* The descriptor table links the chain that starts at d, its header first.
ChainLinked(q, d) ==
    LET c == chain[q][d]
    IN  /\ Len(c) > 0 => c[1] = d
        /\ \A i, j \in 1 .. Len(c) : i # j => c[i] # c[j]
        /\ \A i \in 1 .. Len(c) :
              /\ desc[q][c[i]].next = IF i = Len(c) THEN NoNext ELSE c[i + 1]
              /\ i = 1 /\ i # Len(c) => desc[q][c[i]].len = HeaderSize

\* No descriptor is in two chains.
ChainsDisjoint(q) ==
    \A d, e \in DescIds : d # e =>
        \A i \in 1 .. Len(chain[q][d]), j \in 1 .. Len(chain[q][e]) :
            chain[q][d][i] # chain[q][e][j]

\* Every live request has a chain, and no two have the same.
LiveChains(q) ==
    /\ \A k \in Live(q) : HeadOf(q, k) \in DescIds /\ Len(chain[q][HeadOf(q, k)]) > 0
    /\ \A j, k \in Live(q) : j # k => HeadOf(q, j) # HeadOf(q, k)

\* The walk has made the calls for the first descriptors of the chain in hand
\* and is at the next one.
WalkInv(q) ==
    LET c == chain[q][desc_idx_first]
        n == Len(calls)
    IN  queue_idx = q =>
            /\ pc = "walk" =>
                  /\ n < Len(c) /\ desc_idx = c[n + 1]
                  /\ num_bytes_written = IF n = 0 THEN 0 ELSE HeaderSize
                  /\ \A i \in 1 .. n : calls[i] = <<IF i = 1 THEN "start" ELSE "data", c[i]>>
            /\ pc \in {"used", "publish"} => calls = CallsOf(c)

\* What holds of the chains of a queue while the chip is up.
QueueLinked(q) ==
    /\ \A d \in DescIds : ChainLinked(q, d)
    /\ ChainsDisjoint(q)
    /\ LiveChains(q)
    /\ WalkInv(q)

ChainInv == magic_value => \A q \in Queues : QueueLinked(q)


LEMMA ChainInit == Init => ChainInv
<1> SUFFICES ASSUME Init, NEW q \in Queues PROVE QueueLinked(q)
  BY DEF ChainInv
<1>1. /\ chain[q] = [d \in DescIds |-> << >>] /\ pc = "top"
      /\ Len(submitted[q]) = 0 /\ Len(returned[q]) = 0 /\ filled[q] = NoDesc
  BY DEF Init
<1>2. \A d \in DescIds : Len(chain[q][d]) = 0
  BY <1>1
<1>3. Live(q) = {}
  BY <1>1 DEF Live
<1>4. \A d \in DescIds : ChainLinked(q, d)
  BY <1>2 DEF ChainLinked
<1>5. ChainsDisjoint(q)
  BY <1>2 DEF ChainsDisjoint
<1>6. LiveChains(q) /\ WalkInv(q)
  BY <1>1, <1>3 DEF LiveChains, WalkInv
<1>7. QED  BY <1>4, <1>5, <1>6 DEF QueueLinked

\* The live requests are counted from the first that was not returned.
LEMMA LiveFacts ==
    ASSUME QueueInv, magic_value, NEW q \in Queues
    PROVE  /\ Live(q) \subseteq Nat
           /\ \A k \in Live(q) : k > Len(returned[q]) /\ k <= Len(submitted[q]) + 1
           /\ \A k \in Live(q) : k = Len(submitted[q]) + 1 => filled[q] # NoDesc
           /\ \A k \in Nat : k > Len(returned[q]) /\ k <= Len(submitted[q]) => k \in Live(q)
           /\ filled[q] # NoDesc => Len(submitted[q]) + 1 \in Live(q)
<1> DEFINE S == Len(submitted[q])
           R == Len(returned[q])
           F == filled[q]
<1>1. S \in Nat /\ R \in Nat /\ R <= S
  BY Counts
<1>2. Live(q) = R + 1 .. (IF F = NoDesc THEN S ELSE S + 1)
  BY DEF Live
<1> HIDE DEF S, R, F
<1>3. /\ Live(q) \subseteq Nat
      /\ \A k \in Live(q) : k > R /\ k <= S + 1
      /\ \A k \in Live(q) : k = S + 1 => F # NoDesc
      /\ \A k \in Nat : k > R /\ k <= S => k \in Live(q)
      /\ F # NoDesc => S + 1 \in Live(q)
  BY <1>1, <1>2
<1>4. QED  BY <1>3 DEF S, R, F

\* The chain of a live request.
LEMMA LiveChainFacts ==
    ASSUME QueueInv, magic_value, NEW q \in Queues, QueueLinked(q), NEW k \in Live(q)
    PROVE  LET c == chain[q][HeadOf(q, k)]
           IN  /\ HeadOf(q, k) \in DescIds
               /\ c \in Seq(DescIds) /\ Len(c) \in Nat /\ Len(c) > 0
               /\ c[1] = HeadOf(q, k)
               /\ \A i \in 1 .. Len(c) : c[i] \in DescIds
               /\ \A i, j \in 1 .. Len(c) : i # j => c[i] # c[j]
               /\ \A i \in 1 .. Len(c) :
                     /\ desc[q][c[i]].next = IF i = Len(c) THEN NoNext ELSE c[i + 1]
                     /\ i = 1 /\ i # Len(c) => desc[q][c[i]].len = HeaderSize
<1> DEFINE c == chain[q][HeadOf(q, k)]
<1>1. HeadOf(q, k) \in DescIds /\ Len(c) > 0
  BY DEF QueueLinked, LiveChains
<1>2. c \in Seq(DescIds)
  BY <1>1 DEF QueueInv, TypeOK
<1>3. ChainLinked(q, HeadOf(q, k))
  BY <1>1 DEF QueueLinked
<1>4. QED  BY <1>1, <1>2, <1>3 DEF ChainLinked

\* The request in hand is the one after those handed back.
LEMMA InHand ==
    ASSUME QueueInv, magic_value, pc \in {"walk", "used", "publish"}
    PROVE  /\ queue_idx \in Queues
           /\ Handed(queue_idx) \in Nat /\ Handed(queue_idx) + 1 \in Live(queue_idx)
           /\ Handed(queue_idx) + 1 <= Len(submitted[queue_idx])
           /\ HeadOf(queue_idx, Handed(queue_idx) + 1) = desc_idx_first
           /\ pc = "walk" => Handed(queue_idx) = Len(served[queue_idx])
           /\ pc # "walk" => Handed(queue_idx) + 1 = Len(served[queue_idx])
<1> DEFINE q == queue_idx
           S == Len(submitted[q])
           V == Len(served[q])
           R == Len(returned[q])
           m == Handed(queue_idx)
<1>1. q \in Queues
  BY DEF QueueInv, TypeOK
<1>2. /\ S \in Nat /\ V \in Nat /\ R \in Nat /\ m \in Nat
      /\ R <= m /\ m <= V /\ V <= S
  BY <1>1, Counts
<1>3. QueueIntact(q)
  BY <1>1, Counts
<1>4. CASE pc = "walk"
  <2>1. m = V /\ V < S /\ desc_idx_first = submitted[q][V + 1]
    BY <1>3, <1>4 DEF Handed, QueueIntact, RequestCurrent
  <2>2. m + 1 \in Nat /\ m + 1 > R /\ m + 1 <= S
    BY <1>2, <2>1
  <2>3. m + 1 \in Live(q)
    BY <1>1, <2>2, LiveFacts
  <2>4. QED  BY <1>1, <1>2, <1>4, <2>1, <2>2, <2>3 DEF HeadOf
<1>5. CASE pc \in {"used", "publish"}
  <2>1. m + 1 = V /\ desc_idx_first = served[q][V] /\ V > 0
    BY <1>2, <1>3, <1>5 DEF Handed, QueueIntact, RequestCurrent
  <2>2. served[q][V] = submitted[q][V]
    BY <1>2, <1>3, <2>1 DEF QueueIntact, InOrder
  <2>3. m + 1 \in Nat /\ m + 1 > R /\ m + 1 <= S
    BY <1>2, <2>1
  <2>4. m + 1 \in Live(q)
    BY <1>1, <2>3, LiveFacts
  <2>5. QED  BY <1>1, <1>2, <1>5, <2>1, <2>2, <2>3, <2>4 DEF HeadOf
<1>6. QED  BY <1>4, <1>5

\* Where the walk is: the descriptor it looks at is the next one of its chain.
LEMMA AtDesc ==
    ASSUME QueueInv, ChainInv, magic_value, pc = "walk"
    PROVE  LET c == chain[queue_idx][desc_idx_first]
               n == Len(calls)
           IN  /\ c \in Seq(DescIds) /\ Len(c) \in Nat
               /\ n \in Nat /\ n + 1 \in 1 .. Len(c)
               /\ desc_idx \in DescIds /\ desc_idx % QueueSize = desc_idx
               /\ desc_idx = c[n + 1]
               /\ CurrentDesc.next = IF n + 1 = Len(c) THEN NoNext ELSE c[n + 2]
               /\ n + 1 # Len(c) => CurrentDesc.next # NoNext
               /\ n = 0 /\ n + 1 # Len(c) => CurrentDesc.len = HeaderSize
               /\ num_bytes_written = IF n = 0 THEN 0 ELSE HeaderSize
               /\ \A i \in 1 .. n : calls[i] = <<IF i = 1 THEN "start" ELSE "data", c[i]>>
<1> DEFINE q == queue_idx
           c == chain[queue_idx][desc_idx_first]
           n == Len(calls)
           k == Handed(queue_idx) + 1
<1>1. q \in Queues /\ k \in Live(q) /\ HeadOf(q, k) = desc_idx_first
  BY InHand
<1>2. QueueLinked(q)
  BY <1>1 DEF ChainInv
<1>3. /\ c \in Seq(DescIds) /\ Len(c) \in Nat
      /\ \A i \in 1 .. Len(c) : c[i] \in DescIds
      /\ \A i \in 1 .. Len(c) :
             /\ desc[q][c[i]].next = IF i = Len(c) THEN NoNext ELSE c[i + 1]
             /\ i = 1 /\ i # Len(c) => desc[q][c[i]].len = HeaderSize
  BY <1>1, <1>2, LiveChainFacts
<1>4. n \in Nat
  BY DEF QueueInv, TypeOK
<1>5. /\ n < Len(c) /\ desc_idx = c[n + 1]
      /\ num_bytes_written = IF n = 0 THEN 0 ELSE HeaderSize
      /\ \A i \in 1 .. n : calls[i] = <<IF i = 1 THEN "start" ELSE "data", c[i]>>
  BY <1>2 DEF QueueLinked, WalkInv
<1> HIDE DEF c, n, k
<1>6. n + 1 \in 1 .. Len(c)
  BY <1>3, <1>4, <1>5
<1>7. desc_idx \in DescIds
  BY <1>3, <1>5, <1>6
<1>8. desc_idx % QueueSize = desc_idx
  BY <1>7, Sizes, ModSmall DEF DescIds
<1>9. CurrentDesc = desc[q][c[n + 1]]
  BY <1>5, <1>8 DEF CurrentDesc
<1>10. n + 1 # Len(c) => n + 2 \in 1 .. Len(c) /\ (n + 1) + 1 = n + 2
  BY <1>3, <1>4, <1>6
<1>11. CurrentDesc.next = IF n + 1 = Len(c) THEN NoNext ELSE c[n + 2]
  BY <1>3, <1>6, <1>9, <1>10
<1>12. n + 1 # Len(c) => CurrentDesc.next # NoNext
  <2>1. NoNext \notin DescIds
    BY Sizes DEF NoNext, DescIds
  <2>2. QED  BY <1>3, <1>10, <1>11, <2>1
<1>13. n = 0 /\ n + 1 # Len(c) => CurrentDesc.len = HeaderSize
  <2>1. SUFFICES ASSUME n = 0, n + 1 # Len(c)  PROVE CurrentDesc.len = HeaderSize
    OBVIOUS
  <2>2. n + 1 = 1 /\ 1 \in 1 .. Len(c) /\ 1 # Len(c)
    BY <2>1, <1>6
  <2>3. desc[q][c[1]].len = HeaderSize
    BY <2>2, <1>3
  <2>4. QED  BY <1>9, <2>2, <2>3
<1>14. QED  BY <1>3, <1>4, <1>5, <1>6, <1>7, <1>8, <1>11, <1>12, <1>13 DEF c, n

\* A step that leaves the driver's side of a queue alone leaves its chains.
LEMMA LinksKept ==
    ASSUME NEW q \in Queues, QueueLinked(q),
           UNCHANGED <<desc, chain, filled, submitted, returned>>
    PROVE  /\ \A d \in DescIds : ChainLinked(q, d)'
           /\ ChainsDisjoint(q)' /\ LiveChains(q)'
<1>1. \A d \in DescIds : ChainLinked(q, d)'
  BY DEF QueueLinked, ChainLinked
<1>2. ChainsDisjoint(q)'
  BY DEF QueueLinked, ChainsDisjoint
<1>3. LiveChains(q)'
  <2>1. Live(q)' = Live(q) /\ \A k : HeadOf(q, k)' = HeadOf(q, k)
    BY DEF Live, HeadOf
  <2>2. QED  BY <2>1 DEF QueueLinked, LiveChains
<1>4. QED  BY <1>1, <1>2, <1>3

\* The steps of the thread.
LEMMA ThreadLinks ==
    ASSUME QueueInv, ChainInv, device_loop
    PROVE  ChainInv'
<1> SUFFICES ASSUME magic_value', NEW q \in Queues  PROVE QueueLinked(q)'
  BY DEF ChainInv
<1>1. UNCHANGED <<desc, chain, filled, submitted, returned, magic_value>>
  BY DEF device_loop, LoopReturn, LoopEnter, PollIdle, PollBusy, Fetch, WalkNext, WalkLast,
         UsedWrite, UsedPublish, SetStatus, Pulse, Crash, dram, regs, driver, history
<1>2. magic_value /\ QueueLinked(q)
  BY <1>1 DEF ChainInv
<1>3. (\A d \in DescIds : ChainLinked(q, d)') /\ ChainsDisjoint(q)' /\ LiveChains(q)'
  BY <1>1, <1>2, LinksKept
<1>4. SUFFICES WalkInv(q)'
  BY <1>3 DEF QueueLinked
<1> DEFINE c == chain[queue_idx][desc_idx_first]
           n == Len(calls)
<1>5. CASE LoopReturn \/ LoopEnter \/ PollIdle \/ PollBusy \/ UsedPublish \/ SetStatus
           \/ Pulse \/ Crash
  <2>1. pc' \notin {"walk", "used", "publish"}
    BY <1>5 DEF LoopReturn, LoopEnter, PollIdle, PollBusy, UsedPublish, SetStatus, Pulse,
                Crash, NextQueue
  <2>2. QED  BY <2>1 DEF WalkInv
<1>6. CASE UsedWrite
  BY <1>2, <1>6 DEF UsedWrite, request, driver, QueueLinked, WalkInv
<1>7. CASE Fetch
  <2>1. /\ pc' = "walk" /\ calls' = << >> /\ num_bytes_written' = 0
        /\ desc_idx' = desc_idx_first' /\ queue_idx' = queue_idx
    BY <1>7 DEF Fetch
  <2>2. CASE queue_idx = q
    <3> DEFINE v == Len(served[q])
               h == desc_idx_first'
    <3>1. /\ v < Len(submitted[q]) /\ h = submitted[q][v + 1] /\ v \in Nat
          /\ Len(submitted[q]) \in Nat /\ Len(returned[q]) \in Nat /\ Len(returned[q]) <= v
      BY <1>2, <1>7, <2>2, FetchedHead, Counts DEF Fetch
    <3>2. v + 1 \in Live(q) /\ HeadOf(q, v + 1) = h
      <4>1. v + 1 \in Nat /\ v + 1 > Len(returned[q]) /\ v + 1 <= Len(submitted[q])
        BY <3>1
      <4>2. v + 1 \in Live(q)
        BY <1>2, <4>1, LiveFacts
      <4>3. QED  BY <3>1, <4>1, <4>2 DEF HeadOf
    <3> HIDE DEF h
    <3>3. Len(chain[q][h]) > 0 /\ chain[q][h][1] = h
      BY <1>2, <3>2, LiveChainFacts
    <3>4. Len(calls') = 0 /\ chain' = chain /\ h = desc_idx_first'
      BY <1>1, <2>1 DEF h
    <3>5. QED  BY <2>1, <2>2, <3>3, <3>4 DEF WalkInv
  <2>3. CASE queue_idx # q
    BY <2>1, <2>3 DEF WalkInv
  <2>4. QED  BY <2>2, <2>3
<1>8. CASE WalkNext
  <2>1. CASE queue_idx # q
    BY <1>8, <2>1 DEF WalkNext, WalkInv
  <2>2. CASE queue_idx = q
    <3>1. /\ pc = "walk" /\ pc' = "walk" /\ CurrentDesc.next # NoNext
          /\ calls' = Append(calls, <<HandlerOfNext, desc_idx % QueueSize>>)
          /\ num_bytes_written' = IF num_bytes_written + CurrentDesc.len < HeaderSize
                                  THEN num_bytes_written + CurrentDesc.len ELSE HeaderSize
          /\ desc_idx' = CurrentDesc.next
          /\ UNCHANGED <<queue_idx, desc_idx_first>>
      BY <1>2, <1>8 DEF WalkNext, Called, AddBytes
    <3>2. /\ c \in Seq(DescIds) /\ Len(c) \in Nat
          /\ n \in Nat /\ n + 1 \in 1 .. Len(c) /\ n + 1 # Len(c)
          /\ desc_idx \in Idx /\ desc_idx % QueueSize = c[n + 1]
          /\ CurrentDesc.next = c[n + 2]
          /\ n = 0 => CurrentDesc.len = HeaderSize
          /\ num_bytes_written = IF n = 0 THEN 0 ELSE HeaderSize
          /\ \A i \in 1 .. n : calls[i] = <<IF i = 1 THEN "start" ELSE "data", c[i]>>
      BY <1>2, <3>1, AtDesc, Sizes
    <3>3. CurrentDesc.len \in Nat /\ HeaderSize \in Nat /\ HeaderSize > 0
      BY CurrentDescType, BoundAssumption DEF QueueInv
    <3>4. num_bytes_written' = HeaderSize
      BY <3>1, <3>2, <3>3
    <3>5. HandlerOfNext = IF n = 0 THEN "start" ELSE "data"
      BY <3>2, <3>3 DEF HandlerOfNext
    <3>6. /\ Len(calls') = n + 1
          /\ calls'[n + 1] = <<IF n = 0 THEN "start" ELSE "data", c[n + 1]>>
          /\ \A i \in 1 .. n : calls'[i] = calls[i]
      <4>1. calls \in Seq(Handlers \X DescIds)
            /\ <<HandlerOfNext, desc_idx % QueueSize>> \in Handlers \X DescIds
        BY <3>2, <3>5, IncrType DEF QueueInv, TypeOK, Handlers
      <4>2. QED  BY <3>1, <3>2, <3>5, <4>1, AppendFacts
    <3> HIDE DEF c, n
    <3>7. \A i \in 1 .. n + 1 : calls'[i] = <<IF i = 1 THEN "start" ELSE "data", c[i]>>
      <4>1. ASSUME NEW i \in 1 .. n + 1
            PROVE  calls'[i] = <<IF i = 1 THEN "start" ELSE "data", c[i]>>
        <5>1. CASE i = n + 1
          BY <3>2, <3>6, <5>1
        <5>2. CASE i # n + 1
          <6>1. i \in 1 .. n
            BY <3>2, <4>1, <5>2
          <6>2. QED  BY <3>2, <3>6, <6>1
        <5>3. QED  BY <5>1, <5>2
      <4>2. QED  BY <4>1
    <3>8. n + 1 < Len(c) /\ n + 1 # 0 /\ (n + 1) + 1 = n + 2
      BY <3>2
    <3>9. chain'[queue_idx'][desc_idx_first'] = c
      BY <1>1, <3>1 DEF c
    <3>10. /\ Len(calls') < Len(c) /\ desc_idx' = c[Len(calls') + 1]
           /\ num_bytes_written' = IF Len(calls') = 0 THEN 0 ELSE HeaderSize
           /\ \A i \in 1 .. Len(calls') :
                 calls'[i] = <<IF i = 1 THEN "start" ELSE "data", c[i]>>
      BY <3>1, <3>2, <3>4, <3>6, <3>7, <3>8
    <3>11. QED  BY <2>2, <3>1, <3>9, <3>10 DEF WalkInv
  <2>3. QED  BY <2>1, <2>2
<1>9. CASE WalkLast
  <2>1. CASE queue_idx # q
    BY <1>9, <2>1 DEF WalkLast, WalkInv
  <2>2. CASE queue_idx = q
    <3>1. /\ pc = "walk" /\ pc' = "used" /\ CurrentDesc.next = NoNext
          /\ calls' = Append(calls, <<"complete", desc_idx % QueueSize>>)
          /\ UNCHANGED <<queue_idx, desc_idx_first>>
      BY <1>2, <1>9 DEF WalkLast, Called
    <3>2. /\ c \in Seq(DescIds) /\ Len(c) \in Nat
          /\ n \in Nat /\ n + 1 = Len(c)
          /\ desc_idx \in Idx /\ desc_idx % QueueSize = c[n + 1]
          /\ \A i \in 1 .. n : calls[i] = <<IF i = 1 THEN "start" ELSE "data", c[i]>>
      BY <1>2, <3>1, AtDesc, Sizes
    <3>3. /\ calls' \in Seq(Handlers \X DescIds) /\ Len(calls') = n + 1
          /\ calls'[n + 1] = <<"complete", c[n + 1]>>
          /\ \A i \in 1 .. n : calls'[i] = calls[i]
      <4>1. calls \in Seq(Handlers \X DescIds)
            /\ <<"complete", desc_idx % QueueSize>> \in Handlers \X DescIds
        BY <3>2, IncrType DEF QueueInv, TypeOK, Handlers
      <4>2. QED  BY <3>1, <3>2, <4>1, AppendFacts
    <3> HIDE DEF c, n
    <3>4. ASSUME NEW i \in 1 .. Len(c)  PROVE calls'[i] = CallsOf(c)[i]
      <4>1. CASE i = n + 1
        BY <3>2, <3>3, <4>1 DEF CallsOf
      <4>2. CASE i # n + 1
        <5>1. i \in 1 .. n /\ i # Len(c)
          BY <3>2, <3>4, <4>2
        <5>2. calls'[i] = <<IF i = 1 THEN "start" ELSE "data", c[i]>>
          BY <3>2, <3>3, <5>1
        <5>3. QED  BY <5>1, <5>2 DEF CallsOf
      <4>3. QED  BY <4>1, <4>2
    <3>5. calls' = CallsOf(c)
      <4>1. calls' = [i \in 1 .. Len(c) |-> calls'[i]]
        BY <3>2, <3>3
      <4>2. QED  BY <3>4, <4>1 DEF CallsOf
    <3>6. chain'[queue_idx'][desc_idx_first'] = c
      BY <1>1, <3>1 DEF c
    <3>7. QED  BY <2>2, <3>1, <3>5, <3>6 DEF WalkInv
  <2>3. QED  BY <2>1, <2>2
<1>10. QED
  BY <1>5, <1>6, <1>7, <1>8, <1>9 DEF device_loop


\* A step that leaves chain, calls and position of the request in hand alone.
LEMMA WalkKept ==
    ASSUME NEW q \in Queues, WalkInv(q),
           UNCHANGED <<pc, queue_idx, request>>,
           queue_idx = q /\ pc \in {"walk", "used", "publish"}
               => chain'[q][desc_idx_first] = chain[q][desc_idx_first]
    PROVE  WalkInv(q)'
BY DEF WalkInv, request

\* A new chain takes free descriptors: it becomes live beside the others.
LEMMA FillLinks ==
    ASSUME QueueInv, ChainInv, NEW q \in Queues, NEW c \in Chains(q), DriverFill(q, c)
    PROVE  ChainInv'
<1> DEFINE S == Len(submitted[q])
           h == c[1]
<1>1. /\ UNCHANGED <<pc, queue_idx, request, submitted, returned, magic_value>>
      /\ filled[q] = NoDesc /\ magic_value
      /\ chain' = [chain EXCEPT ![q][c[1]] = c]
      /\ filled' = [filled EXCEPT ![q] = c[1]]
  BY DEF DriverFill, regs, history
<1>2. TypeOK
  BY DEF QueueInv
<1>3. /\ c \in Seq(DescIds) /\ Len(c) \in Nat /\ Len(c) >= 1
      /\ \A i \in 1 .. Len(c) : c[i] \in DescIds \ Busy(q)
      /\ h \in DescIds \ Busy(q)
      /\ \A i, j \in 1 .. Len(c) : i # j => c[i] # c[j]
  BY ChainFacts
<1>4. /\ chain'[q][h] = c
      /\ \A d \in DescIds \ {h} : chain'[q][d] = chain[q][d]
      /\ \A p \in Queues \ {q} : chain'[p] = chain[p] /\ filled'[p] = filled[p]
      /\ filled'[q] = h
  BY <1>1, <1>2, <1>3 DEF TypeOK
<1>5. /\ \A i \in 1 .. Len(c) : desc'[q][c[i]] = DescOf(c, c[i])
      /\ \A d \in DescIds : (\A i \in 1 .. Len(c) : c[i] # d) => desc'[q][d] = desc[q][d]
      /\ \A p \in Queues \ {q} : desc'[p] = desc[p]
  BY <1>2, FillDesc
<1>6. ASSUME NEW p \in Queues, p # q  PROVE QueueLinked(p)'
  <2>1. QueueLinked(p)
    BY <1>1, <1>6 DEF ChainInv
  <2>2. /\ chain'[p] = chain[p] /\ desc'[p] = desc[p] /\ filled'[p] = filled[p]
        /\ UNCHANGED <<submitted, returned>>
    BY <1>1, <1>4, <1>5, <1>6
  <2>3. (\A d \in DescIds : ChainLinked(p, d)') /\ ChainsDisjoint(p)' /\ LiveChains(p)'
    <3>1. \A d \in DescIds : ChainLinked(p, d)'
      BY <2>1, <2>2 DEF QueueLinked, ChainLinked
    <3>2. ChainsDisjoint(p)'
      BY <2>1, <2>2 DEF QueueLinked, ChainsDisjoint
    <3>3. LiveChains(p)'
      BY <2>1, <2>2 DEF QueueLinked, LiveChains, Live, HeadOf
    <3>4. QED  BY <3>1, <3>2, <3>3
  <2>4. WalkInv(p)'
    BY <1>1, <2>1, <2>2, WalkKept DEF QueueLinked
  <2>5. QED  BY <2>3, <2>4 DEF QueueLinked
<1>7. QueueLinked(q)'
  <2>1. QueueLinked(q)
    BY <1>1 DEF ChainInv
  <2>2. Len(chain[q][h]) = 0
    <3>1. chain[q][h] \in Seq(DescIds)
      <4>1. chain \in [Queues -> [DescIds -> Seq(DescIds)]]
        BY <1>2 DEF TypeOK
      <4> HIDE DEF h
      <4>2. QED  BY <1>3, <4>1
    <3>2. Len(chain[q][h]) > 0 => chain[q][h][1] = h
      <4>1. ChainLinked(q, h)
        BY <1>3, <2>1 DEF QueueLinked
      <4>2. QED  BY <4>1 DEF ChainLinked
    <3>3. Len(chain[q][h]) > 0 => chain[q][h][1] \in Busy(q)
      BY <1>3, <3>1, BusyFacts
    <3>4. QED  BY <1>3, <3>1, <3>2, <3>3
  <2>3. ASSUME NEW d \in DescIds, d # h, NEW i \in 1 .. Len(chain[q][d])
        PROVE  /\ chain[q][d][i] \in DescIds
               /\ \A j \in 1 .. Len(c) : c[j] # chain[q][d][i]
               /\ desc'[q][chain[q][d][i]] = desc[q][chain[q][d][i]]
    <3>a. chain[q][d] \in Seq(DescIds)
      BY <1>2 DEF TypeOK
    <3>b. chain[q][d][i] \in DescIds
      BY <2>3, <3>a
    <3>1. chain[q][d][i] \in Busy(q) /\ chain[q][d][i] \in DescIds
      BY <2>3, <3>b, BusyFacts
    <3>2. \A j \in 1 .. Len(c) : c[j] # chain[q][d][i]
      BY <1>3, <3>1
    <3>3. QED  BY <1>5, <3>1, <3>2
  <2>4. ASSUME NEW d \in DescIds  PROVE ChainLinked(q, d)'
    <3>1. CASE d = h
      <4>1. ASSUME NEW i \in 1 .. Len(c)
            PROVE  /\ desc'[q][c[i]].next = IF i = Len(c) THEN NoNext ELSE c[i + 1]
                   /\ i = 1 /\ i # Len(c) => desc'[q][c[i]].len = HeaderSize
        <5>1. /\ DescOf(c, c[i]).len = IF i = 1 /\ Len(c) > 1 THEN HeaderSize ELSE 1
              /\ DescOf(c, c[i]).next = IF i = Len(c) THEN NoNext ELSE c[i + 1]
          <6>1. c \in Seq(DescIds) /\ \A a, b \in 1 .. Len(c) : a # b => c[a] # c[b]
            BY <1>3
          <6>2. QED  BY <4>1, <6>1, DescOfFacts
        <5>2. i = 1 /\ i # Len(c) => Len(c) > 1
          <6> DEFINE n == Len(c)
          <6>1. n \in Nat /\ n >= 1
            BY <1>3
          <6> HIDE DEF n
          <6>2. i = 1 /\ i # n => n > 1
            BY <6>1
          <6>3. QED  BY <6>2 DEF n
        <5>3. QED  BY <1>5, <5>1, <5>2
      <4>2. chain'[q][d] = c
        BY <1>4, <3>1
      <4> HIDE DEF h
      <4>3. QED  BY <1>3, <3>1, <4>1, <4>2 DEF ChainLinked, h
    <3>2. CASE d # h
      <4>1. ChainLinked(q, d) /\ chain'[q][d] = chain[q][d]
        BY <1>4, <2>1, <3>2 DEF QueueLinked
      <4>2. \A i \in 1 .. Len(chain[q][d]) : desc'[q][chain[q][d][i]] = desc[q][chain[q][d][i]]
        BY <2>3, <3>2
      <4>3. QED  BY <4>1, <4>2, SMTT(30) DEF ChainLinked
    <3>3. QED  BY <3>1, <3>2
  <2>5. ChainsDisjoint(q)'
    <3>1. ASSUME NEW d \in DescIds, NEW e \in DescIds, d # e,
                 NEW i \in 1 .. Len(chain'[q][d]), NEW j \in 1 .. Len(chain'[q][e])
          PROVE  chain'[q][d][i] # chain'[q][e][j]
      <4>1. CASE d = h
        <5>1. chain'[q][d] = c /\ chain'[q][e] = chain[q][e] /\ e # h
          BY <1>4, <3>1, <4>1
        <5>2. QED  BY <2>3, <3>1, <5>1
      <4>2. CASE e = h
        <5>1. chain'[q][e] = c /\ chain'[q][d] = chain[q][d] /\ d # h
          BY <1>4, <3>1, <4>2
        <5>2. QED  BY <2>3, <3>1, <5>1
      <4>3. CASE d # h /\ e # h
        <5>1. chain'[q][d] = chain[q][d] /\ chain'[q][e] = chain[q][e]
          BY <1>4, <4>3
        <5>2. QED  BY <2>1, <3>1, <5>1 DEF QueueLinked, ChainsDisjoint
      <4>4. QED  BY <4>1, <4>2, <4>3
    <3>2. QED  BY <3>1 DEF ChainsDisjoint
  <2> HIDE DEF h
  <2>6. S \in Nat /\ Len(returned[q]) \in Nat /\ NoDesc \notin DescIds
    BY <1>1, Counts, Sizes DEF NoDesc, DescIds
  <2>7. /\ \A k \in Live(q)' : k \in Live(q) \/ k = S + 1
        /\ S + 1 \notin Live(q)
        /\ Live(q) \subseteq Nat
    BY <1>1, <1>3, <1>4, <2>6 DEF Live
  <2>8. ASSUME NEW k \in Live(q)', k = S + 1  PROVE HeadOf(q, k)' = h
    BY <1>1, <1>4, <2>6, <2>8 DEF HeadOf
  <2>9. ASSUME NEW k \in Live(q)
        PROVE  /\ HeadOf(q, k)' = HeadOf(q, k) /\ HeadOf(q, k) \in DescIds
               /\ Len(chain[q][HeadOf(q, k)]) > 0 /\ HeadOf(q, k) # h
    <3>1. k <= S
      BY <1>1, <2>6, <2>7 DEF Live
    <3>2. HeadOf(q, k)' = HeadOf(q, k)
      BY <1>1, <3>1 DEF HeadOf
    <3>3. HeadOf(q, k) \in DescIds /\ Len(chain[q][HeadOf(q, k)]) > 0
      BY <2>1, <2>9 DEF QueueLinked, LiveChains
    <3>4. QED  BY <2>2, <3>2, <3>3
  <2>10. LiveChains(q)'
    <3>1. ASSUME NEW k \in Live(q)'
          PROVE  HeadOf(q, k)' \in DescIds /\ Len(chain'[q][HeadOf(q, k)']) > 0
      <4>1. CASE k \in Live(q)
        <5>1. HeadOf(q, k)' = HeadOf(q, k) /\ HeadOf(q, k) \in DescIds \ {h}
              /\ Len(chain[q][HeadOf(q, k)]) > 0
          BY <2>9, <4>1
        <5>2. QED  BY <1>4, <5>1
      <4>2. CASE k = S + 1
        <5>1. HeadOf(q, k)' = h
          BY <2>8, <3>1, <4>2
        <5>2. QED  BY <1>3, <1>4, <5>1 DEF h
      <4>3. QED  BY <2>7, <3>1, <4>1, <4>2
    <3>2. ASSUME NEW j \in Live(q)', NEW k \in Live(q)', j # k
          PROVE  HeadOf(q, j)' # HeadOf(q, k)'
      <4>1. CASE j \in Live(q) /\ k \in Live(q)
        BY <2>1, <2>9, <3>2, <4>1 DEF QueueLinked, LiveChains
      <4>2. CASE j = S + 1
        <5>1. HeadOf(q, j)' = h /\ k \in Live(q)
          BY <2>7, <2>8, <3>2, <4>2
        <5>2. HeadOf(q, k)' # h
          BY <2>9, <5>1
        <5>3. QED  BY <5>1, <5>2
      <4>3. CASE k = S + 1
        <5>1. HeadOf(q, k)' = h /\ j \in Live(q)
          BY <2>7, <2>8, <3>2, <4>3
        <5>2. HeadOf(q, j)' # h
          BY <2>9, <5>1
        <5>3. QED  BY <5>1, <5>2
      <4>4. QED  BY <2>7, <3>2, <4>1, <4>2, <4>3
    <3>3. QED  BY <3>1, <3>2 DEF LiveChains
  <2>11. WalkInv(q)'
    <3>1. ASSUME queue_idx = q, pc \in {"walk", "used", "publish"}
          PROVE  chain'[q][desc_idx_first] = chain[q][desc_idx_first]
      <4>1. Handed(q) + 1 \in Live(q) /\ HeadOf(q, Handed(q) + 1) = desc_idx_first
        BY <1>1, <3>1, InHand
      <4>2. desc_idx_first # h /\ desc_idx_first \in DescIds
        BY <2>9, <4>1
      <4>3. QED  BY <1>4, <4>2
    <3>2. QED  BY <1>1, <2>1, <3>1, WalkKept DEF QueueLinked
  <2>12. QED  BY <2>4, <2>5, <2>10, <2>11 DEF QueueLinked
<1>8. QED  BY <1>6, <1>7 DEF ChainInv

\* Publishing changes no request's head: the entry is already in the ring.
LEMMA PublishLinks ==
    ASSUME QueueInv, ChainInv, NEW q \in Queues, DriverPublish(q)
    PROVE  ChainInv'
<1>1. /\ UNCHANGED <<pc, queue_idx, request, desc, chain, returned, magic_value>>
      /\ filled[q] # NoDesc /\ magic_value
      /\ submitted' = [submitted EXCEPT ![q] = Append(submitted[q], filled[q])]
      /\ filled' = [filled EXCEPT ![q] = NoDesc]
  BY DEF DriverPublish, regs
<1>2. TypeOK
  BY DEF QueueInv
<1> DEFINE S == Len(submitted[q])
<1>3. /\ Len(submitted'[q]) = S + 1 /\ submitted'[q][S + 1] = filled[q]
      /\ \A k \in 1 .. S : submitted'[q][k] = submitted[q][k]
      /\ filled'[q] = NoDesc
      /\ S \in Nat /\ Len(returned[q]) \in Nat
      /\ \A p \in Queues \ {q} : submitted'[p] = submitted[p] /\ filled'[p] = filled[p]
  <2>1. /\ submitted \in [Queues -> Seq(DescIds)] /\ filled \in [Queues -> DescIds \cup {NoDesc}]
        /\ submitted[q] \in Seq(DescIds) /\ filled[q] \in DescIds
        /\ returned[q] \in Seq(DescIds)
    BY <1>1, <1>2 DEF TypeOK
  <2>2. submitted'[q] = Append(submitted[q], filled[q]) /\ filled'[q] = NoDesc
        /\ \A p \in Queues \ {q} : submitted'[p] = submitted[p] /\ filled'[p] = filled[p]
    BY <1>1, <2>1
  <2>3. QED  BY <2>1, <2>2, AppendFacts
<1>4. ASSUME NEW p \in Queues
      PROVE  Live(p)' = Live(p) /\ \A k \in Live(p) : HeadOf(p, k)' = HeadOf(p, k)
  <2>1. CASE p # q
    BY <1>1, <1>3, <2>1 DEF Live, HeadOf
  <2>2. CASE p = q
    <3>1. Live(q)' = Live(q)
      BY <1>1, <1>3 DEF Live
    <3>2. ASSUME NEW k \in Live(q)  PROVE HeadOf(q, k)' = HeadOf(q, k)
      <4>1. k \in Nat /\ k > Len(returned[q]) /\ k <= S + 1
        BY <1>1, LiveFacts
      <4>2. CASE k = S + 1
        BY <1>3, <4>2 DEF HeadOf
      <4>3. CASE k # S + 1
        <5>1. k \in 1 .. S /\ k <= S /\ k <= S + 1
          BY <1>3, <4>1, <4>3
        <5>2. QED  BY <1>3, <5>1 DEF HeadOf
      <4>4. QED  BY <4>2, <4>3
    <3>3. QED  BY <2>2, <3>1, <3>2
  <2>3. QED  BY <2>1, <2>2
<1>5. ASSUME NEW p \in Queues  PROVE QueueLinked(p)'
  <2>1. QueueLinked(p)
    BY <1>1 DEF ChainInv
  <2>2. (\A d \in DescIds : ChainLinked(p, d)') /\ ChainsDisjoint(p)'
    <3>1. \A d \in DescIds : ChainLinked(p, d)'
      BY <1>1, <2>1 DEF QueueLinked, ChainLinked
    <3>2. ChainsDisjoint(p)'
      BY <1>1, <2>1 DEF QueueLinked, ChainsDisjoint
    <3>3. QED  BY <3>1, <3>2
  <2>3. LiveChains(p)'
    BY <1>1, <1>4, <2>1 DEF QueueLinked, LiveChains
  <2>4. WalkInv(p)'
    BY <1>1, <2>1, WalkKept DEF QueueLinked
  <2>5. QED  BY <2>2, <2>3, <2>4 DEF QueueLinked
<1>6. QED  BY <1>5 DEF ChainInv

\* The used entry names the oldest live request, which is not the one in hand.
LEMMA TakenHead ==
    ASSUME QueueInv, magic_value, NEW q \in Queues, last_used[q] # used_idx[q]
    PROVE  LET k == Len(returned[q]) + 1
           IN  /\ k \in Live(q) /\ k \in Nat /\ k <= Handed(q)
               /\ HeadOf(q, k) = used_ring[q][last_used[q] % QueueSize]
<1> DEFINE R == Len(returned[q])
           m == Handed(q)
<1>1. /\ R \in Nat /\ m \in Nat /\ R < m /\ m <= Len(submitted[q]) /\ Len(submitted[q]) \in Nat
      /\ used_ring[q][last_used[q] % QueueSize] = submitted[q][R + 1]
  BY Counts, UsedEntry
<1>2. R + 1 \in Nat /\ R + 1 > R /\ R + 1 <= m /\ R + 1 <= Len(submitted[q])
  BY <1>1
<1>3. R + 1 \in Live(q)
  BY <1>2, LiveFacts
<1>4. QED  BY <1>1, <1>2, <1>3 DEF HeadOf

\* Taking a request ends its chain, and only that.
LEMMA TakeLinks ==
    ASSUME QueueInv, ChainInv, NEW q \in Queues, DriverTake(q)
    PROVE  ChainInv'
<1> DEFINE h == used_ring[q][last_used[q] % QueueSize]
           R == Len(returned[q])
<1>1. /\ UNCHANGED <<pc, queue_idx, request, desc, filled, submitted, magic_value>>
      /\ magic_value /\ last_used[q] # used_idx[q]
      /\ returned' = [returned EXCEPT ![q] = Append(returned[q], h)]
      /\ chain' = [chain EXCEPT ![q][h] = << >>]
  BY DEF DriverTake, dram, regs
<1>2. TypeOK
  BY DEF QueueInv
<1>3. R + 1 \in Live(q) /\ R + 1 <= Handed(q) /\ HeadOf(q, R + 1) = h /\ h \in DescIds
  BY <1>1, TakenHead, UsedEntry
<1> HIDE DEF h
<1>4. /\ Len(returned'[q]) = R + 1 /\ R \in Nat
      /\ chain'[q][h] = << >>
      /\ \A d \in DescIds \ {h} : chain'[q][d] = chain[q][d]
      /\ \A p \in Queues \ {q} : chain'[p] = chain[p] /\ returned'[p] = returned[p]
  <2>1. /\ returned \in [Queues -> Seq(DescIds)] /\ returned[q] \in Seq(DescIds)
        /\ chain \in [Queues -> [DescIds -> Seq(DescIds)]]
    BY <1>2 DEF TypeOK
  <2>2. returned'[q] = Append(returned[q], h) /\ chain'[q][h] = << >>
        /\ (\A d \in DescIds \ {h} : chain'[q][d] = chain[q][d])
        /\ \A p \in Queues \ {q} : chain'[p] = chain[p] /\ returned'[p] = returned[p]
    BY <1>1, <1>3, <2>1
  <2>3. QED  BY <1>3, <2>1, <2>2, AppendFacts
<1>5. ASSUME NEW p \in Queues, p # q  PROVE QueueLinked(p)'
  <2>1. QueueLinked(p)
    BY <1>1 DEF ChainInv
  <2>2. chain'[p] = chain[p] /\ returned'[p] = returned[p]
    BY <1>4, <1>5
  <2>3. (\A d \in DescIds : ChainLinked(p, d)') /\ ChainsDisjoint(p)' /\ LiveChains(p)'
    <3>1. ASSUME NEW d \in DescIds  PROVE ChainLinked(p, d)'
      <4>1. ChainLinked(p, d) /\ chain'[p][d] = chain[p][d] /\ desc' = desc
        BY <1>1, <2>1, <2>2 DEF QueueLinked
      <4>2. QED  BY <4>1 DEF ChainLinked
    <3>2. ChainsDisjoint(p)'
      BY <2>1, <2>2 DEF QueueLinked, ChainsDisjoint
    <3>3. Live(p)' = Live(p) /\ \A k : HeadOf(p, k)' = HeadOf(p, k)
      BY <1>1, <2>2 DEF Live, HeadOf
    <3>4. LiveChains(p)'
      BY <2>1, <2>2, <3>3 DEF QueueLinked, LiveChains
    <3>5. QED  BY <3>1, <3>2, <3>4
  <2>4. WalkInv(p)'
    BY <1>1, <2>1, <2>2, WalkKept DEF QueueLinked
  <2>5. QED  BY <2>3, <2>4 DEF QueueLinked
<1>6. QueueLinked(q)'
  <2>1. QueueLinked(q)
    BY <1>1 DEF ChainInv
  <2>2. Len(chain'[q][h]) = 0
    BY <1>4
  <2>3. ASSUME NEW d \in DescIds  PROVE ChainLinked(q, d)'
    <3>1. CASE d = h
      BY <2>2, <3>1 DEF ChainLinked
    <3>2. CASE d # h
      BY <1>1, <1>4, <2>1, <3>2 DEF QueueLinked, ChainLinked
    <3>3. QED  BY <3>1, <3>2
  <2>4. ChainsDisjoint(q)'
    <3>1. ASSUME NEW d \in DescIds, NEW e \in DescIds, d # e,
                 NEW i \in 1 .. Len(chain'[q][d]), NEW j \in 1 .. Len(chain'[q][e])
          PROVE  chain'[q][d][i] # chain'[q][e][j]
      <4>1. d # h /\ e # h
        BY <2>2, <3>1
      <4>2. chain'[q][d] = chain[q][d] /\ chain'[q][e] = chain[q][e]
        BY <1>4, <4>1
      <4>3. QED  BY <2>1, <3>1, <4>2 DEF QueueLinked, ChainsDisjoint
    <3>2. QED  BY <3>1 DEF ChainsDisjoint
  <2>5. /\ \A k \in Live(q)' : k \in Live(q) /\ k # R + 1
        /\ \A k \in Nat : HeadOf(q, k)' = HeadOf(q, k)
        /\ Live(q) \subseteq Nat
    <3>1. Len(submitted[q]) \in Nat
      BY <1>1, Counts
    <3>2. QED  BY <1>1, <1>4, <3>1 DEF Live, HeadOf
  <2>6. \A k \in Live(q)' : HeadOf(q, k) # h /\ HeadOf(q, k) \in DescIds
                            /\ Len(chain[q][HeadOf(q, k)]) > 0
    BY <1>3, <2>1, <2>5 DEF QueueLinked, LiveChains
  <2>7. LiveChains(q)'
    <3>1. \A k \in Live(q)' : HeadOf(q, k)' \in DescIds /\ Len(chain'[q][HeadOf(q, k)']) > 0
      BY <1>4, <2>5, <2>6
    <3>2. \A j, k \in Live(q)' : j # k => HeadOf(q, j)' # HeadOf(q, k)'
      BY <2>1, <2>5 DEF QueueLinked, LiveChains
    <3>3. QED  BY <3>1, <3>2 DEF LiveChains
  <2>8. WalkInv(q)'
    <3>1. ASSUME queue_idx = q, pc \in {"walk", "used", "publish"}
          PROVE  chain'[q][desc_idx_first] = chain[q][desc_idx_first]
      <4>1. Handed(q) + 1 \in Live(q) /\ HeadOf(q, Handed(q) + 1) = desc_idx_first
            /\ Handed(q) \in Nat
        BY <1>1, <3>1, InHand
      <4>2. Handed(q) + 1 # R + 1
        BY <1>3, <1>4, <4>1
      <4>3. desc_idx_first # h /\ desc_idx_first \in DescIds
        BY <1>3, <2>1, <4>1, <4>2 DEF QueueLinked, LiveChains
      <4>4. QED  BY <1>4, <4>3
    <3>2. QED  BY <1>1, <2>1, <3>1, WalkKept DEF QueueLinked
  <2>9. QED  BY <2>3, <2>4, <2>7, <2>8 DEF QueueLinked
<1>7. QED  BY <1>5, <1>6 DEF ChainInv

LEMMA ChainStep ==
    ASSUME QueueInv, ChainInv, [Next]_vars
    PROVE  ChainInv'
<1>1. CASE device_loop
  BY <1>1, ThreadLinks
<1>2. ASSUME NEW q \in Queues,
             DriverPublish(q) \/ DriverTake(q) \/ \E c \in Chains(q) : DriverFill(q, c)
      PROVE  ChainInv'
  BY <1>2, FillLinks, PublishLinks, TakeLinks
<1>3. CASE DriverClaim \/ DriverCheckStatus \/ SetExit \/ UNCHANGED vars
           \/ \E q \in Queues : DriverDrained(q)
  <2>1. UNCHANGED <<pc, queue_idx, request, desc, chain, filled, submitted, returned, magic_value>>
    BY <1>3 DEF DriverClaim, DriverCheckStatus, SetExit, DriverDrained, vars, dram, regs,
                driver, history
  <2>2. ASSUME NEW q \in Queues, magic_value  PROVE QueueLinked(q)'
    <3>1. QueueLinked(q)
      BY <2>2 DEF ChainInv
    <3>2. WalkInv(q)'
      BY <2>1, <3>1, WalkKept DEF QueueLinked
    <3>3. QED  BY <2>1, <3>1, <3>2, LinksKept DEF QueueLinked
  <2>3. QED  BY <2>1, <2>2 DEF ChainInv
<1>4. CASE ChipReset
  BY <1>4 DEF ChipReset, ChainInv
<1>5. QED
  BY <1>1, <1>2, <1>3, <1>4 DEF Next, Guest, IrqHandler

LEMMA ChainWalked == QueueInv /\ ChainInv => WalkComplete
BY DEF QueueInv, TypeOK, ChainInv, QueueLinked, WalkInv, WalkComplete

\* The walk over linked descriptors visits each descriptor of a request once,
\* in order, with the handler it is meant for, although the driver keeps
\* rewriting the table between its steps (virtiodevice.hpp:325-352).
THEOREM WalkSafety == Spec => []WalkComplete
<1>1. QueueInv /\ ChainInv /\ [Next]_vars => ChainInv'
  BY ChainStep
<1>2. QED
  BY <1>1, ChainInit, ChainWalked, QueueSafety, PTL DEF Spec


-----------------------------------------------------------------------------
(* The chains of live requests, for the devices *)

\* The descriptors of the k-th request of a queue.
ChainAt(q, k) == chain[q][HeadOf(q, k)]

\* A live request is as it was before the driver filled another one.
LEMMA LiveFilled ==
    ASSUME QueueInv, ChainInv, NEW p \in Queues, NEW c \in Chains(p), DriverFill(p, c),
           NEW q \in Queues, NEW k \in Live(q)'
    PROVE  \/ k \in Live(q) /\ ChainAt(q, k)' = ChainAt(q, k)
           \/ p = q /\ k = Len(submitted[q]) + 1 /\ ChainAt(q, k)' = c
<1> DEFINE Same == k \in Live(q) /\ ChainAt(q, k)' = ChainAt(q, k)
<1>0. TypeOK
  BY DEF QueueInv
<1> DEFINE S == Len(submitted[q])
<1>1. /\ UNCHANGED <<submitted, returned>> /\ magic_value /\ filled[p] = NoDesc
      /\ chain' = [chain EXCEPT ![p][c[1]] = c]
      /\ filled' = [filled EXCEPT ![p] = c[1]]
  BY DEF DriverFill, history
<1>2. /\ chain \in [Queues -> [DescIds -> Seq(DescIds)]]
      /\ filled \in [Queues -> DescIds \cup {NoDesc}]
      /\ c[1] \in DescIds \ Busy(p) /\ NoDesc \notin DescIds
  <2>1. /\ chain \in [Queues -> [DescIds -> Seq(DescIds)]]
        /\ filled \in [Queues -> DescIds \cup {NoDesc}]
    BY <1>0 DEF TypeOK
  <2>2. c[1] \in DescIds \ Busy(p)
    BY ChainFacts
  <2>3. NoDesc \notin DescIds
    BY Sizes DEF NoDesc, DescIds
  <2>4. QED  BY <2>1, <2>2, <2>3
<1>3. CASE p # q
  <2>1. chain'[q] = chain[q] /\ filled'[q] = filled[q]
    BY <1>1, <1>2, <1>3
  <2>2. Live(q)' = Live(q) /\ ChainAt(q, k)' = ChainAt(q, k)
    BY <1>1, <2>1 DEF Live, ChainAt, HeadOf
  <2>3. QED  BY <2>2
<1>4. CASE p = q
  <2>1. filled'[q] = c[1] /\ chain'[q][c[1]] = c
        /\ \A d \in DescIds \ {c[1]} : chain'[q][d] = chain[q][d]
    BY <1>1, <1>2, <1>4
  <2>2. S \in Nat /\ Len(returned[q]) \in Nat /\ Live(q) \subseteq Nat
    BY <1>1, Counts, LiveFacts
  <2>3. CASE k = S + 1
    <3>1. HeadOf(q, k)' = c[1]
      BY <1>1, <2>1, <2>2, <2>3 DEF HeadOf
    <3>2. QED  BY <1>4, <2>1, <2>3, <3>1 DEF ChainAt
  <2>4. CASE k # S + 1
    <3>1. k \in Live(q) /\ k <= S
      BY <1>1, <1>2, <1>4, <2>1, <2>2, <2>4 DEF Live
    <3>2. HeadOf(q, k)' = HeadOf(q, k)
      BY <1>1, <3>1 DEF HeadOf
    <3>3. /\ HeadOf(q, k) \in DescIds /\ Len(chain[q][HeadOf(q, k)]) > 0
          /\ chain[q][HeadOf(q, k)] \in Seq(DescIds)
          /\ chain[q][HeadOf(q, k)][1] = HeadOf(q, k)
      <4>1. QueueLinked(q)
        BY <1>1 DEF ChainInv
      <4>2. QED  BY <1>1, <3>1, <4>1, LiveChainFacts
    <3>4. HeadOf(q, k) \in Busy(q)
      BY <3>3, BusyFacts, 1 \in 1 .. Len(chain[q][HeadOf(q, k)])
    <3>5. HeadOf(q, k) # c[1]
      BY <1>2, <1>4, <3>4
    <3>6. QED  BY <2>1, <3>1, <3>2, <3>3, <3>5 DEF ChainAt
  <2>5. QED  BY <2>3, <2>4
<1>5. QED  BY <1>3, <1>4


\* A live request is as it was before any other step.
LEMMA LiveKept ==
    ASSUME QueueInv, ChainInv, [Next]_vars, magic_value',
           NEW q \in Queues, NEW k \in Live(q)', filled'[q] \in {filled[q], NoDesc}
    PROVE  k \in Live(q) /\ ChainAt(q, k)' = ChainAt(q, k)
<1> DEFINE Same == k \in Live(q) /\ ChainAt(q, k)' = ChainAt(q, k)
<1>1. TypeOK
  BY DEF QueueInv
<1>2. CASE UNCHANGED <<chain, filled, submitted, returned>>
  <2>1. Live(q)' = Live(q) /\ ChainAt(q, k)' = ChainAt(q, k)
    BY <1>2 DEF Live, ChainAt, HeadOf
  <2>2. QED  BY <2>1
<1>3. CASE device_loop \/ SetExit \/ UNCHANGED vars \/ DriverClaim \/ DriverCheckStatus
           \/ \E p \in Queues : DriverDrained(p)
  <2>1. CASE device_loop
    <3>1. UNCHANGED <<chain, filled, submitted, returned>>
      BY <2>1 DEF device_loop, LoopReturn, LoopEnter, PollIdle, PollBusy, Fetch, WalkNext,
         WalkLast, UsedWrite, UsedPublish, SetStatus, Pulse, Crash, driver, history
    <3>2. QED  BY <1>2, <3>1
  <2>2. CASE SetExit \/ UNCHANGED vars \/ DriverClaim \/ DriverCheckStatus
             \/ \E p \in Queues : DriverDrained(p)
    <3>1. UNCHANGED <<chain, filled, submitted, returned>>
      BY <2>2 DEF SetExit, DriverClaim, DriverCheckStatus, DriverDrained, vars, driver, history
    <3>2. QED  BY <1>2, <3>1
  <2>3. QED  BY <1>3, <2>1, <2>2
<1>4. ASSUME NEW p \in Queues, DriverPublish(p)  PROVE Same
  <2>1. /\ UNCHANGED <<chain, returned>> /\ magic_value /\ filled[p] # NoDesc
        /\ submitted' = [submitted EXCEPT ![p] = Append(submitted[p], filled[p])]
        /\ filled' = [filled EXCEPT ![p] = NoDesc]
    BY <1>4 DEF DriverPublish
  <2>2. submitted \in [Queues -> Seq(DescIds)] /\ filled \in [Queues -> DescIds \cup {NoDesc}]
    BY <1>1 DEF TypeOK
  <2>3. CASE p # q
    <3>1. /\ submitted'[q] = submitted[q] /\ filled'[q] = filled[q]
          /\ chain'[q] = chain[q] /\ returned'[q] = returned[q]
      BY <2>1, <2>2, <2>3
    <3>2. Live(q)' = Live(q)
      BY <3>1 DEF Live
    <3>3. ChainAt(q, k)' = ChainAt(q, k)
      BY <3>1 DEF ChainAt, HeadOf
    <3>4. QED  BY <3>2, <3>3
  <2>4. CASE p = q
    <3> DEFINE S == Len(submitted[q])
    <3>1. /\ submitted[q] \in Seq(DescIds) /\ filled[q] \in DescIds
          /\ submitted'[q] = Append(submitted[q], filled[q]) /\ filled'[q] = NoDesc
      BY <2>1, <2>2, <2>4
    <3>2. /\ Len(submitted'[q]) = S + 1 /\ submitted'[q][S + 1] = filled[q] /\ S \in Nat
          /\ \A j \in 1 .. S : submitted'[q][j] = submitted[q][j]
      BY <3>1, AppendFacts
    <3>3. Live(q)' = Live(q)
      BY <2>1, <2>4, <3>1, <3>2 DEF Live
    <3>4. k \in Live(q)
      BY <3>3
    <3>5. k \in Nat /\ k > Len(returned[q]) /\ k <= S + 1 /\ Len(returned[q]) \in Nat
      BY <2>1, <3>4, LiveFacts, Counts
    <3>6. CASE k = S + 1
      BY <2>1, <3>2, <3>4, <3>6 DEF ChainAt, HeadOf
    <3>7. CASE k # S + 1
      <4>1. k \in 1 .. S /\ k <= S /\ k <= S + 1
        BY <3>2, <3>5, <3>7
      <4>2. QED  BY <2>1, <3>2, <3>4, <4>1 DEF ChainAt, HeadOf
    <3>8. QED  BY <3>6, <3>7
  <2>5. QED  BY <2>3, <2>4
<1>5. ASSUME NEW p \in Queues, DriverTake(p)  PROVE Same
  <2> DEFINE h == used_ring[p][last_used[p] % QueueSize]
             R == Len(returned[p])
  <2>1. /\ UNCHANGED <<filled, submitted>>
        /\ magic_value /\ last_used[p] # used_idx[p]
        /\ returned' = [returned EXCEPT ![p] = Append(returned[p], h)]
        /\ chain' = [chain EXCEPT ![p][h] = << >>]
    BY <1>5 DEF DriverTake
  <2>2. R + 1 \in Live(p) /\ HeadOf(p, R + 1) = h /\ h \in DescIds
    BY <2>1, TakenHead, UsedEntry
  <2> HIDE DEF h
  <2>3. /\ returned \in [Queues -> Seq(DescIds)]
        /\ chain \in [Queues -> [DescIds -> Seq(DescIds)]]
    BY <1>1 DEF TypeOK
  <2>4. CASE p # q
    <3>1. chain'[q] = chain[q] /\ returned'[q] = returned[q]
      BY <2>1, <2>3, <2>4
    <3>2. Live(q)' = Live(q) /\ ChainAt(q, k)' = ChainAt(q, k)
      BY <2>1, <3>1 DEF Live, ChainAt, HeadOf
    <3>3. QED  BY <3>2
  <2>5. CASE p = q
    <3>1. Len(returned'[q]) = R + 1 /\ R \in Nat /\ Len(submitted[q]) \in Nat
      <4>1. returned'[q] = Append(returned[q], h) /\ returned[q] \in Seq(DescIds)
        BY <2>1, <2>3, <2>5
      <4>2. QED  BY <2>1, <2>2, <2>5, <4>1, AppendFacts, Counts
    <3>2. k \in Live(q) /\ k # R + 1
      BY <2>1, <2>5, <3>1 DEF Live
    <3>3. HeadOf(q, k) # h /\ HeadOf(q, k) \in DescIds
      BY <2>1, <2>2, <2>5, <3>2 DEF ChainInv, QueueLinked, LiveChains
    <3>4. chain'[q][HeadOf(q, k)] = chain[q][HeadOf(q, k)]
      BY <2>1, <2>2, <2>3, <2>5, <3>3
    <3>5. HeadOf(q, k)' = HeadOf(q, k)
      BY <2>1 DEF HeadOf
    <3>6. QED  BY <3>2, <3>4, <3>5 DEF ChainAt
  <2>6. QED  BY <2>4, <2>5
<1>6. ASSUME NEW p \in Queues, NEW c \in Chains(p), DriverFill(p, c)
      PROVE  Same
  <2>1. CASE p = q
    <3>1. filled[q] = NoDesc /\ filled' = [filled EXCEPT ![q] = c[1]] /\ c[1] \in DescIds
      BY <1>6, <2>1, ChainFacts DEF DriverFill
    <3>2. filled \in [Queues -> DescIds \cup {NoDesc}]
      BY <1>1 DEF TypeOK
    <3>3. NoDesc \notin DescIds
      BY Sizes DEF NoDesc, DescIds
    <3>4. filled'[q] = c[1]
      BY <3>1, <3>2
    <3>5. QED  BY <3>1, <3>3, <3>4
  <2>2. CASE p # q
    BY <1>6, <2>2, LiveFilled
  <2>3. QED  BY <2>1, <2>2
<1>7. CASE ChipReset
  BY <1>7 DEF ChipReset
<1>8. QED
  BY <1>3, <1>4, <1>5, <1>6, <1>7 DEF Next, Guest, IrqHandler

\* Two live requests share no descriptor.
LEMMA LiveDisjoint ==
    ASSUME ChainInv, magic_value, NEW q \in Queues,
           NEW j \in Live(q), NEW k \in Live(q), j # k,
           NEW a \in 1 .. Len(ChainAt(q, j)), NEW b \in 1 .. Len(ChainAt(q, k))
    PROVE  ChainAt(q, j)[a] # ChainAt(q, k)[b]
<1>1. QueueLinked(q)
  BY DEF ChainInv
<1>2. /\ HeadOf(q, j) \in DescIds /\ HeadOf(q, k) \in DescIds
      /\ HeadOf(q, j) # HeadOf(q, k)
  BY <1>1 DEF QueueLinked, LiveChains
<1>3. QED  BY <1>1, <1>2 DEF QueueLinked, ChainsDisjoint, ChainAt

\* The descriptors of a live request are of the table, busy, and not repeated.
LEMMA LiveDescs ==
    ASSUME QueueInv, ChainInv, magic_value, NEW q \in Queues, NEW k \in Live(q)
    PROVE  /\ ChainAt(q, k) \in Seq(DescIds)
           /\ Len(ChainAt(q, k)) \in Nat /\ Len(ChainAt(q, k)) > 0
           /\ Len(ChainAt(q, k)) \in 1 .. Len(ChainAt(q, k))
           /\ ChainAt(q, k)[1] = HeadOf(q, k)
           /\ \A i \in 1 .. Len(ChainAt(q, k)) :
                 ChainAt(q, k)[i] \in DescIds /\ ChainAt(q, k)[i] \in Busy(q)
           /\ \A i, j \in 1 .. Len(ChainAt(q, k)) :
                 i # j => ChainAt(q, k)[i] # ChainAt(q, k)[j]
<1> DEFINE c == ChainAt(q, k)
<1>1. QueueLinked(q)
  BY DEF ChainInv
<1>2. /\ HeadOf(q, k) \in DescIds
      /\ c \in Seq(DescIds) /\ Len(c) \in Nat /\ Len(c) > 0
      /\ c[1] = HeadOf(q, k)
      /\ \A i \in 1 .. Len(c) : c[i] \in DescIds
      /\ \A i, j \in 1 .. Len(c) : i # j => c[i] # c[j]
  BY <1>1, LiveChainFacts DEF ChainAt
<1>3. \A i \in 1 .. Len(c) : c[i] \in Busy(q)
  BY <1>2, BusyFacts DEF ChainAt
<1> HIDE DEF c
<1>4. Len(c) \in 1 .. Len(c)
  BY <1>2
<1>5. QED  BY <1>2, <1>3, <1>4 DEF c

\* The request in hand, by its number.
LEMMA HandChain ==
    ASSUME QueueInv, magic_value, pc = "walk"
    PROVE  LET k == Len(served[queue_idx]) + 1
           IN  /\ queue_idx \in Queues /\ k \in Nat
               /\ k \in Live(queue_idx) /\ k <= Len(submitted[queue_idx])
               /\ ChainAt(queue_idx, k) = chain[queue_idx][desc_idx_first]
<1>1. /\ queue_idx \in Queues /\ Handed(queue_idx) \in Nat
      /\ Handed(queue_idx) + 1 \in Live(queue_idx)
      /\ Handed(queue_idx) + 1 <= Len(submitted[queue_idx])
      /\ HeadOf(queue_idx, Handed(queue_idx) + 1) = desc_idx_first
      /\ Handed(queue_idx) = Len(served[queue_idx])
  BY InHand
<1>2. QED  BY <1>1 DEF ChainAt

-----------------------------------------------------------------------------
(* All of it, for the modules that extend the device *)

DeviceInv == QueueInv /\ StatusBeforeIrq /\ NoLostWakeup /\ StaleInv /\ ChainInv

LEMMA DeviceInit == Init => DeviceInv
<1> SUFFICES ASSUME Init PROVE DeviceInv
  OBVIOUS
<1>1. StatusBeforeIrq /\ NoLostWakeup /\ StaleInv
  BY DEF Init, StatusBeforeIrq, NoLostWakeup, StaleInv, StaleBounded
<1>2. QED  BY <1>1, QueueInit, ChainInit DEF DeviceInv

LEMMA DeviceStep == DeviceInv /\ [Next]_vars => DeviceInv'
<1> SUFFICES ASSUME DeviceInv, [Next]_vars PROVE DeviceInv'
  OBVIOUS
<1>1. QueueInv /\ StatusBeforeIrq /\ NoLostWakeup /\ StaleInv /\ ChainInv /\ TypeOK
  BY DEF DeviceInv, QueueInv
<1>2. QED
  BY <1>1, QueueStep, StatusStep, WakeupStep, StaleStep, ChainStep DEF DeviceInv


\* A driver that takes the lowest free descriptors takes free descriptors.
LEMMA LowChainsFree ==
    ASSUME NEW q \in Queues, NEW n, NEW c \in LowChains(q, n)
    PROVE  /\ c \in Chains(q) /\ n \in 1 .. MaxChain
           /\ n \in Nat /\ n >= 1 /\ Len(c) = n /\ c \in Seq(DescIds)
<1> DEFINE Free == DescIds \ Busy(q)
<1>1. /\ c \in [1 .. n -> Free] /\ n \in 1 .. MaxChain
      /\ \A i, j \in 1 .. n : i < j => c[j] < c[i]
  BY DEF LowChains
<1>2. n \in Nat /\ n >= 1 /\ n <= MaxChain
  BY <1>1, BoundAssumption
<1>3. c \in Seq(DescIds) /\ Len(c) = n
  BY <1>1, <1>2
<1>4. DescIds \subseteq Int
  BY SizeAssumption DEF DescIds
<1>5. ASSUME NEW i \in 1 .. n, NEW j \in 1 .. n, i # j  PROVE c[i] # c[j]
  <2>1. c[i] \in Int /\ c[j] \in Int /\ i \in Int /\ j \in Int
    <3>1. c[i] \in DescIds /\ c[j] \in DescIds
      BY <1>1
    <3>2. c[i] \in Int /\ c[j] \in Int
      BY <1>4, <3>1, Zenon
    <3>3. QED  BY <1>2, <3>2
  <2>2. CASE i < j
    BY <1>1, <2>1, <2>2
  <2>3. CASE j < i
    BY <1>1, <2>1, <2>3
  <2>4. QED  BY <1>5, <2>1, <2>2, <2>3
<1>6. c \in UNION {[1 .. m -> DescIds \ Busy(q)] : m \in 1 .. MaxChain}
  BY <1>1
<1>7. c \in Chains(q)
  BY <1>3, <1>5, <1>6 DEF Chains
<1>8. QED  BY <1>1, <1>2, <1>3, <1>7


\* Only a chip reset loses the magic value.
LEMMA MagicKept ==
    ASSUME [Next]_vars, magic_value'
    PROVE  magic_value
<1>1. CASE device_loop
  BY <1>1 DEF device_loop, LoopReturn, LoopEnter, PollIdle, PollBusy, Fetch, WalkNext, WalkLast,
     UsedWrite, UsedPublish, SetStatus, Pulse, Crash, regs
<1>2. CASE Guest \/ SetExit \/ UNCHANGED vars
  BY <1>2 DEF Guest, IrqHandler, DriverFill, DriverPublish, DriverClaim, DriverCheckStatus,
     DriverTake, DriverDrained, SetExit, regs, vars
<1>3. CASE ChipReset
  BY <1>3 DEF ChipReset
<1>4. QED  BY <1>1, <1>2, <1>3 DEF Next

\* The last step of a walk: it is at the last descriptor of the request in hand,
\* which is the next one in the order of submission.
LEMMA CompleteAt ==
    ASSUME QueueInv, ChainInv, magic_value, WalkLast
    PROVE  LET q == queue_idx
               k == Len(served[q]) + 1
               c == ChainAt(q, k)
           IN  /\ q \in Queues /\ k \in Nat /\ k \in Live(q) /\ k <= Len(submitted[q])
               /\ desc_idx % QueueSize = c[Len(c)] /\ c[Len(c)] \in DescIds
               /\ Len(calls) + 1 = Len(c)
               /\ \A i \in 1 .. Len(calls) :
                     calls[i] = <<IF i = 1 THEN "start" ELSE "data", c[i]>>
               /\ calls' = Append(calls, <<"complete", desc_idx % QueueSize>>)
               /\ Len(calls') = Len(calls) + 1
               /\ Len(served'[q]) = k
               /\ \A p \in Queues \ {q} : served'[p] = served[p]
<1> DEFINE q == queue_idx
           k == Len(served[q]) + 1
           c == ChainAt(q, k)
<1>1. /\ pc = "walk" /\ CurrentDesc.next = NoNext
      /\ calls' = Append(calls, <<"complete", desc_idx % QueueSize>>)
      /\ served' = [served EXCEPT ![queue_idx] = Append(served[queue_idx], desc_idx_first)]
  BY DEF WalkLast, Called, Served
<1>2. /\ q \in Queues /\ k \in Nat /\ k \in Live(q) /\ k <= Len(submitted[q])
      /\ c = chain[queue_idx][desc_idx_first]
  BY <1>1, HandChain
<1>3. /\ c \in Seq(DescIds) /\ Len(c) \in Nat
      /\ Len(calls) \in Nat /\ Len(calls) + 1 \in 1 .. Len(c)
      /\ desc_idx \in DescIds /\ desc_idx % QueueSize = desc_idx
      /\ desc_idx = c[Len(calls) + 1]
      /\ Len(calls) + 1 # Len(c) => CurrentDesc.next # NoNext
      /\ \A i \in 1 .. Len(calls) : calls[i] = <<IF i = 1 THEN "start" ELSE "data", c[i]>>
  BY <1>1, <1>2, AtDesc
<1>4. Len(calls) + 1 = Len(c)
  BY <1>1, <1>3
<1>5. desc_idx % QueueSize = c[Len(c)] /\ c[Len(c)] \in DescIds
  BY <1>3, <1>4
<1>6. Len(calls') = Len(calls) + 1
  <2>1. calls \in Seq(Handlers \X DescIds)
        /\ <<"complete", desc_idx % QueueSize>> \in Handlers \X DescIds
    BY <1>3 DEF QueueInv, TypeOK, Handlers
  <2>2. QED  BY <1>1, <2>1, AppendFacts
<1>7. served \in [Queues -> Seq(DescIds)] /\ desc_idx_first \in DescIds
  <2>1. served \in [Queues -> Seq(DescIds)]
    BY DEF QueueInv, TypeOK
  <2>2. HeadOf(q, k) \in DescIds /\ HeadOf(q, k) = desc_idx_first
    <3>1. Handed(q) = Len(served[q]) /\ HeadOf(q, Handed(q) + 1) = desc_idx_first
      BY <1>1, InHand
    <3>2. QueueLinked(q)
      BY <1>2 DEF ChainInv
    <3>3. QED  BY <1>2, <3>1, <3>2 DEF QueueLinked, LiveChains
  <2>3. QED  BY <2>1, <2>2
<1>8. Len(served'[q]) = k /\ \A p \in Queues \ {q} : served'[p] = served[p]
  <2>1. served'[q] = Append(served[q], desc_idx_first) /\ served[q] \in Seq(DescIds)
    BY <1>1, <1>2, <1>7
  <2>2. Len(served'[q]) = k
    BY <1>7, <2>1, AppendFacts
  <2>3. \A p \in Queues \ {q} : served'[p] = served[p]
    BY <1>1, <1>7
  <2>4. QED  BY <2>2, <2>3
<1>9. QED  BY <1>1, <1>2, <1>3, <1>4, <1>5, <1>6, <1>8

=============================================================================
