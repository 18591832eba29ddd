-------------------------- MODULE VirtioBlk_proofs --------------------------
(***************************************************************************)
(* The block device of console/disk.hpp, for every image, queue size and   *)
(* number of requests: the image, the buffers and the status bytes are     *)
(* what the requests ask for, and a chip reset spares the image.           *)
(***************************************************************************)
EXTENDS VirtioBlk, VirtioDevice_proofs

\* What the driver asks for.
Transfers == [type : {"in", "out"}, sector : Sectors]
Requests == Transfers \cup [type : {"flush"}, sector : {0}]

BlkTypeOK ==
    /\ hdr \in [DescIds -> Requests \cup {NoOp, Zeros, Ones}]
    /\ buf \in [DescIds -> Int]
    /\ image \in [Sectors -> Int]
    /\ asked \in Seq(Requests)

\* Once a header was counted, req points into the descriptor table.
ReqInv ==
    /\ pc = "walk" /\ num_bytes_written > 0 => req \in DescIds
    /\ op # NoOp => req \in DescIds

\* What the thread still writes after a reset: the headers it reads are no
\* writes, and what they say of a sector is the first or none.
ResetInv ==
    ~ magic_value =>
        /\ \A d \in DescIds : hdr[d] \in {Zeros, Ones}
        /\ op.type = "out" =>
              /\ atReset.op.type = "out"
              /\ \/ op.sector = atReset.op.sector
                 \/ atReset.op.sector = Unread /\ op.sector \in {0, Outside}
        /\ ResetSparesImage

\* Every request is asked for once, when its chain is filled.
AskedInv ==
    magic_value =>
        Len(asked) = IF filled[0] = NoDesc THEN Len(submitted[0]) ELSE Len(submitted[0]) + 1

\* Contents, for any sequence of requests: the last of the writes.
Writes(a, n, s) == {k \in 1 .. n : a[k].type = "out" /\ a[k].sector = s}
Latest(W) == IF W = {} THEN Original ELSE CHOOSE k \in W : \A j \in W : j <= k
Data(a, n, s) == Latest(Writes(a, n, s))

\* The k-th request of a, c its descriptors: the header and the data to write
\* stay what the driver put there; the data read is there once m requests are
\* applied, and the status, once n are served.
Held(h, b, a, n, m, k, c) ==
    /\ Len(c) = IF a[k] \in Transfers THEN 3 ELSE 2
    /\ h[c[1]] = a[k]
    /\ a[k].type = "out" => b[c[2]] = k
    /\ a[k].type = "in" /\ k <= m => b[c[2]] = Data(a, k, a[k].sector)
    /\ k <= n => b[c[Len(c)]] = StatusOk

LiveInv ==
    magic_value => \A k \in Live(0) :
        Held(hdr, buf, asked, Len(served[0]), Applied, k, ChainAt(0, k))

\* What process_queue_data has read of the header of r is what r asks for.
OpFor(o, r) ==
    /\ r \in Transfers
    /\ o = Entered \/ (o.type = r.type /\ o.sector \in {Unread, r.sector})

\* The request in hand: req points to its header once the header was counted,
\* and a copy still to come is of its data descriptor.
HandInv ==
    magic_value =>
        LET k == Len(served[0]) + 1
        IN  IF pc = "walk"
            THEN /\ Len(calls) > 0 => req = desc_idx_first
                 /\ op # NoOp => Len(calls) = 1 /\ OpFor(op, asked[k])
            ELSE op = NoOp

BlkInv ==
    /\ DeviceInv /\ BlkTypeOK
    /\ ReqInv /\ ResetInv
    /\ AskedInv /\ LiveInv /\ HandInv /\ DiskCurrent

-----------------------------------------------------------------------------
(* What a sector holds *)

LEMMA ContentsData ==
    ASSUME NEW n, NEW s
    PROVE  Contents(n, s) = Data(asked, n, s)
BY DEF Contents, Data, Writes, Latest

\* Requests that come later do not matter.
LEMMA DataSame ==
    ASSUME NEW a, NEW b, NEW n \in Nat, NEW s, \A k \in 1 .. n : a[k] = b[k]
    PROVE  Data(a, n, s) = Data(b, n, s)
<1>1. \A k : k \in Writes(a, n, s) <=> k \in Writes(b, n, s)
  BY DEF Writes
<1>2. Writes(a, n, s) = Writes(b, n, s)
  BY <1>1, SetExtensionality
<1>3. QED  BY <1>2 DEF Data

\* The next request overwrites the sector it writes, and no other.
LEMMA DataNext ==
    ASSUME NEW a, NEW n \in Nat, NEW s
    PROVE  Data(a, n + 1, s) = IF a[n + 1].type = "out" /\ a[n + 1].sector = s
                               THEN n + 1 ELSE Data(a, n, s)
<1> DEFINE W == Writes(a, n + 1, s)
<1>1. CASE a[n + 1].type = "out" /\ a[n + 1].sector = s
  <2>1. n + 1 \in W /\ \A j \in W : j \in Int /\ j <= n + 1
    BY <1>1 DEF Writes
  <2> HIDE DEF W
  <2>2. \A k \in W : (\A j \in W : j <= k) => k = n + 1
    BY <2>1
  <2>3. Latest(W) = n + 1
    BY <2>1, <2>2 DEF Latest
  <2>4. QED  BY <1>1, <2>3 DEF Data, W
<1>2. CASE ~ (a[n + 1].type = "out" /\ a[n + 1].sector = s)
  <2>1. \A k : k \in W <=> k \in Writes(a, n, s)
    BY <1>2 DEF Writes
  <2>2. W = Writes(a, n, s)
    BY <2>1, SetExtensionality
  <2>3. QED  BY <1>2, <2>2 DEF Data
<1>3. QED  BY <1>1, <1>2

-----------------------------------------------------------------------------
(* The steps *)

LEMMA BlkQueues == Queues = {0} /\ 0 \in Queues
BY BlkAssumption DEF Queues

\* How many requests the driver has filled.
Filled == IF filled[0] = NoDesc THEN Len(submitted[0]) ELSE Len(submitted[0]) + 1

\* What a step does in which neither a handler nor the driver touches data.
BlkQuiet ==
    /\ UNCHANGED <<hdr, buf, image, req, op, asked, atReset>>
    /\ UNCHANGED <<magic_value, served>>
    /\ filled'[0] \in {filled[0], NoDesc} /\ Filled' = Filled
    /\ pc' = "walk" =>
          \/ pc = "walk" /\ UNCHANGED <<calls, num_bytes_written, desc_idx_first>>
          \/ pc # "walk" /\ calls' = << >> /\ num_bytes_written' = 0
    /\ pc = "walk" /\ magic_value => pc' = "walk"

\* The driver's requests.
BlkFill(r, c) ==
    /\ Len(c) = IF r \in Transfers THEN 3 ELSE 2
    /\ BlkSubmit(r.type, r.sector, c)

\* The steps of process_queue_data before its copy.
BlkRead == BlkEnter \/ BlkDispatch \/ BlkLocate

LEMMA BlkFrame ==
    ASSUME TypeOK, [BlkNext]_<<vars, blkvars>>
    PROVE  \/ BlkWalkStart \/ BlkRead \/ BlkWalkData \/ BlkWalkZeroed \/ BlkWalkLast
           \/ BlkReset \/ BlkQuiet
           \/ \E c \in Chains(0), r \in Requests : BlkFill(r, c)
<1>1. CASE /\ UNCHANGED blkvars
           /\ \/ LoopReturn \/ LoopEnter \/ PollIdle \/ PollBusy \/ Fetch
              \/ UsedWrite \/ UsedPublish \/ SetStatus \/ Pulse \/ Crash
  <2>1. CASE LoopReturn \/ LoopEnter \/ PollIdle \/ PollBusy
    BY <1>1, <2>1 DEF LoopReturn, LoopEnter, PollIdle, PollBusy, NextQueue, regs, driver, history,
       blkvars, BlkQuiet, Filled
  <2>2. CASE Fetch \/ UsedWrite \/ UsedPublish
    BY <1>1, <2>2 DEF Fetch, UsedWrite, UsedPublish, regs, driver, history, blkvars, BlkQuiet,
       Filled
  <2>3. CASE SetStatus \/ Pulse \/ Crash
    BY <1>1, <2>3 DEF SetStatus, Pulse, Crash, NextQueue, regs, driver, history, blkvars, BlkQuiet,
       Filled
  <2>4. QED  BY <1>1, <2>1, <2>2, <2>3
<1>2. CASE (IrqHandler \/ SetExit) /\ UNCHANGED blkvars
  <2>1. UNCHANGED <<magic_value, served, filled, submitted, pc, request>>
    BY <1>2 DEF IrqHandler, DriverClaim, DriverCheckStatus, DriverTake, DriverDrained, SetExit,
       regs, history, driver, request
  <2>2. QED  BY <1>2, <2>1 DEF blkvars, request, BlkQuiet, Filled
<1>3. CASE DriverPublish(0) /\ UNCHANGED blkvars
  <2>1. /\ filled[0] # NoDesc
        /\ filled' = [filled EXCEPT ![0] = NoDesc]
        /\ submitted' = [submitted EXCEPT ![0] = Append(submitted[0], filled[0])]
        /\ UNCHANGED <<magic_value, served, pc, request>>
    BY <1>3 DEF DriverPublish, regs, request
  <2>2. submitted \in [Queues -> Seq(DescIds)] /\ filled \in [Queues -> DescIds \cup {NoDesc}]
    BY DEF TypeOK
  <2>3. /\ filled'[0] = NoDesc /\ filled[0] \in DescIds /\ submitted[0] \in Seq(DescIds)
        /\ submitted'[0] = Append(submitted[0], filled[0])
    BY <2>1, <2>2, BlkQueues
  <2>4. Len(submitted'[0]) = Len(submitted[0]) + 1
    BY <2>3, AppendFacts
  <2>5. Filled' = Filled
    BY <2>1, <2>3, <2>4 DEF Filled
  <2>6. QED  BY <1>3, <2>1, <2>3, <2>5 DEF blkvars, request, BlkQuiet
<1>4. CASE UNCHANGED <<vars, blkvars>>
  BY <1>4 DEF vars, blkvars, regs, history, driver, request, BlkQuiet, Filled
<1>5. ASSUME NEW c \in LowChains(0, 3), NEW s \in Sectors, NEW t \in {"in", "out"},
             BlkSubmit(t, s, c)
      PROVE  \E e \in Chains(0), r \in Requests : BlkFill(r, e)
  <2> DEFINE r == [type |-> t, sector |-> s]
  <2>1. c \in Chains(0) /\ Len(c) = 3
    BY LowChainsFree, BlkQueues
  <2>2. r \in Transfers /\ r \in Requests /\ r.type = t /\ r.sector = s
    BY DEF Transfers, Requests
  <2> HIDE DEF r
  <2>3. BlkFill(r, c)
    BY <1>5, <2>1, <2>2 DEF BlkFill
  <2>4. QED  BY <2>1, <2>2, <2>3
<1>6. ASSUME NEW c \in LowChains(0, 2), BlkSubmit("flush", 0, c)
      PROVE  \E e \in Chains(0), r \in Requests : BlkFill(r, e)
  <2> DEFINE r == [type |-> "flush", sector |-> 0]
  <2>1. c \in Chains(0) /\ Len(c) = 2
    BY LowChainsFree, BlkQueues
  <2>2. r \notin Transfers /\ r \in Requests /\ r.type = "flush" /\ r.sector = 0
    BY DEF Transfers, Requests
  <2> HIDE DEF r
  <2>3. BlkFill(r, c)
    BY <1>6, <2>1, <2>2 DEF BlkFill
  <2>4. QED  BY <2>1, <2>2, <2>3
<1>7. QED
  BY <1>1, <1>2, <1>3, <1>4, <1>5, <1>6 DEF BlkNext, blk_loop, BlkRead

-----------------------------------------------------------------------------
(* The request in hand *)

\* The request the driver filled as the k-th is the k-th it asked for.
LEMMA AskedFacts ==
    ASSUME BlkInv, magic_value, NEW k \in Live(0)
    PROVE  /\ k \in Nat /\ k > 0 /\ k \in 1 .. Len(asked) /\ asked[k] \in Requests
           /\ Len(asked) = Filled /\ Len(asked) \in Nat
           /\ Len(submitted[0]) \in Nat /\ Len(submitted[0]) <= Len(asked)
           /\ Held(hdr, buf, asked, Len(served[0]), Applied, k, ChainAt(0, k))
<1>1. QueueInv /\ asked \in Seq(Requests) /\ Held(hdr, buf, asked, Len(served[0]), Applied, k, ChainAt(0, k))
  BY DEF BlkInv, DeviceInv, BlkTypeOK, LiveInv
<1>2. /\ k \in Nat /\ k > Len(returned[0]) /\ k <= Len(submitted[0]) + 1
      /\ k = Len(submitted[0]) + 1 => filled[0] # NoDesc
      /\ Len(returned[0]) \in Nat /\ Len(submitted[0]) \in Nat
  BY <1>1, LiveFacts, Counts, BlkQueues
<1>3. Len(asked) = Filled
  BY DEF BlkInv, AskedInv, Filled
<1>4. k > 0 /\ k <= Len(asked) /\ Len(asked) \in Nat /\ Len(submitted[0]) <= Len(asked)
  BY <1>2, <1>3 DEF Filled
<1>5. asked[k] \in Requests /\ k \in 1 .. Len(asked)
  BY <1>1, <1>2, <1>4
<1>6. QED  BY <1>1, <1>2, <1>3, <1>4, <1>5

LEMMA HandFacts ==
    ASSUME BlkInv, magic_value, pc = "walk"
    PROVE  LET k == Len(served[0]) + 1
               c == ChainAt(0, k)
               n == Len(calls)
           IN  /\ k \in Nat /\ k \in Live(0)
               /\ Len(c) = IF asked[k] \in Transfers THEN 3 ELSE 2
               /\ n \in {0, 1, 2} /\ n + 1 <= Len(c)
               /\ Here = c[n + 1] /\ Here \in DescIds
               /\ CurrentDesc.next = NoNext <=> n + 1 = Len(c)
               /\ HandlerOfNext = "start" <=> n = 0
               /\ n > 0 => req = c[1]
               /\ op # NoOp => n = 1 /\ OpFor(op, asked[k])
               /\ Applied = IF n = 2 THEN k ELSE k - 1
<1> DEFINE k == Len(served[0]) + 1
           c == ChainAt(0, k)
           n == Len(calls)
<1>1. QueueInv /\ ChainInv /\ TypeOK
  BY DEF BlkInv, DeviceInv, QueueInv
<1>2. queue_idx = 0
  BY <1>1, BlkQueues DEF TypeOK
<1>3. k \in Nat /\ k \in Live(0) /\ c = chain[queue_idx][desc_idx_first]
  BY <1>1, <1>2, HandChain
<1>4. /\ Len(c) \in Nat /\ n \in Nat /\ n + 1 \in 1 .. Len(c)
      /\ desc_idx \in DescIds /\ desc_idx % QueueSize = desc_idx
      /\ desc_idx = c[n + 1]
      /\ CurrentDesc.next = IF n + 1 = Len(c) THEN NoNext ELSE c[n + 2]
      /\ n + 1 # Len(c) => CurrentDesc.next # NoNext
      /\ num_bytes_written = IF n = 0 THEN 0 ELSE HeaderSize
      /\ \A i \in 1 .. n : calls[i] = <<IF i = 1 THEN "start" ELSE "data", c[i]>>
  BY <1>1, <1>3, AtDesc
<1>5. Held(hdr, buf, asked, Len(served[0]), Applied, k, c)
  BY <1>3, AskedFacts
<1>6. Len(c) = IF asked[k] \in Transfers THEN 3 ELSE 2
  BY <1>5 DEF Held
<1>7. /\ n > 0 => req = c[1]
      /\ op # NoOp => n = 1 /\ OpFor(op, asked[k])
  <2>1. /\ n > 0 => req = desc_idx_first
        /\ op # NoOp => n = 1 /\ OpFor(op, asked[k])
    BY DEF BlkInv, HandInv
  <2>2. c[1] = desc_idx_first
    <3>1. Handed(0) + 1 = k /\ HeadOf(0, Handed(0) + 1) = desc_idx_first
      BY <1>1, <1>2, InHand
    <3>2. HeadOf(0, k) = c[1]
      BY <1>1, <1>3, BlkQueues, LiveDescs
    <3>3. QED  BY <3>1, <3>2
  <2>3. QED  BY <2>1, <2>2
<1> HIDE DEF c, n, k
<1>8. n \in {0, 1, 2} /\ n + 1 <= Len(c)
  BY <1>4, <1>6
<1>9. HandlerOfNext = "start" <=> n = 0
  BY <1>4, BoundAssumption DEF HandlerOfNext
<1>10. Applied = IF n = 2 THEN k ELSE k - 1
  <2>1. (\E i \in 1 .. n : calls[i][1] = "data") <=> n = 2
    <3>1. CASE n = 0
      BY <3>1
    <3>2. CASE n = 1
      BY <1>4, <3>2
    <3>3. CASE n = 2
      <4>1. 2 \in 1 .. n /\ calls[2][1] = "data"
        BY <1>4, <3>3
      <4>2. QED  BY <3>3, <4>1
    <3>4. QED  BY <1>8, <3>1, <3>2, <3>3
  <2>2. Applied = Len(served[0]) + IF n = 2 THEN 1 ELSE 0
    BY <2>1 DEF Applied, n
  <2> DEFINE S == Len(served[0])
  <2>3. S \in Nat /\ k = S + 1 /\ Applied = S + IF n = 2 THEN 1 ELSE 0
    BY <1>1, <2>2, Counts, BlkQueues DEF k
  <2> HIDE DEF S
  <2>4. QED  BY <2>3
<1>11. QED
  BY <1>3, <1>4, <1>6, <1>7, <1>8, <1>9, <1>10 DEF c, n, k, Here

\* While the chip is up, a copy that was dispatched finds its descriptor again.
LEMMA CopyHasNext ==
    ASSUME BlkInv, magic_value, pc = "walk", op # NoOp
    PROVE  CurrentDesc.next # NoNext
<1> DEFINE k == Len(served[0]) + 1
           m == Len(ChainAt(0, k))
           n == Len(calls)
<1>1. /\ m = IF asked[k] \in Transfers THEN 3 ELSE 2
      /\ CurrentDesc.next = NoNext <=> n + 1 = m
      /\ n = 1 /\ asked[k] \in Transfers
  BY HandFacts DEF OpFor
<1> HIDE DEF k, m, n
<1>2. m = 3 /\ n + 1 # m
  BY <1>1
<1>3. QED  BY <1>1, <1>2

\* Every step is one of the device loop and a driver, but for the copy that ends
\* in memory full of zeros.
\* Something was entered when a copy can be made.
LEMMA CopyEntered == CanCopy => op # NoOp /\ op # Entered
<1>1. NoOp.type = "none" /\ Entered.type = "entered"
  BY DEF NoOp, Entered
<1>2. QED  BY <1>1 DEF CanCopy

LEMMA BlkStepIsStep ==
    ASSUME BlkInv, [BlkNext]_<<vars, blkvars>>
    PROVE  [Next]_vars \/ (BlkWalkZeroed /\ ~ magic_value /\ ~ magic_value')
<1>1. CASE blk_loop
  <2>1. device_loop \/ BlkRead \/ BlkWalkZeroed
    BY <1>1 DEF blk_loop, BlkWalkStart, BlkWalkData, BlkWalkLast, device_loop, BlkRead
  <2>2. CASE device_loop
    BY <2>2 DEF Next
  <2>3. CASE BlkRead
    BY <2>3 DEF BlkRead, BlkEnter, BlkDispatch, BlkLocate
  <2>4. CASE BlkWalkZeroed
    <3>1. pc = "walk" /\ CurrentDesc.next = NoNext /\ op # NoOp /\ magic_value' = magic_value
      BY <2>4, CopyEntered DEF BlkWalkZeroed, regs
    <3>2. ~ magic_value
      BY <3>1, CopyHasNext
    <3>3. magic_value \in BOOLEAN
      BY DEF BlkInv, DeviceInv, QueueInv, TypeOK
    <3>4. QED  BY <2>4, <3>1, <3>2, <3>3
  <2>5. QED  BY <2>1, <2>2, <2>3, <2>4
<1>2. ASSUME NEW c, NEW n, c \in LowChains(0, n), DriverFill(0, c)  PROVE [Next]_vars
  <2>1. c \in Chains(0)
    BY <1>2, LowChainsFree, BlkQueues
  <2>2. QED  BY <1>2, <2>1, BlkQueues DEF Next, Guest
<1>3. CASE \E c \in LowChains(0, 3), s \in Sectors, t \in {"in", "out"} : BlkSubmit(t, s, c)
  BY <1>2, <1>3 DEF BlkSubmit
<1>4. CASE \E c \in LowChains(0, 2) : BlkSubmit("flush", 0, c)
  BY <1>2, <1>4 DEF BlkSubmit
<1>5. CASE (DriverPublish(0) \/ IrqHandler \/ SetExit) /\ UNCHANGED blkvars
  BY <1>5, BlkQueues DEF Next, Guest
<1>6. CASE BlkReset
  BY <1>6 DEF BlkReset, Next
<1>7. CASE UNCHANGED <<vars, blkvars>>
  BY <1>7
<1>8. QED
  BY <1>1, <1>3, <1>4, <1>5, <1>6, <1>7 DEF BlkNext


LEMMA BlkDeviceStep ==
    ASSUME BlkInv, [BlkNext]_<<vars, blkvars>>
    PROVE  DeviceInv'
<1>1. DeviceInv /\ TypeOK /\ StaleInv
  BY DEF BlkInv, DeviceInv, QueueInv
<1>2. CASE [Next]_vars
  BY <1>1, <1>2, DeviceStep
<1>3. CASE BlkWalkZeroed /\ ~ magic_value /\ ~ magic_value'
  <2>1. /\ desc_idx' = 0
        /\ UNCHANGED <<dram, regs, exit_thread_flag, pc, queue_idx, processed,
                       desc_idx_first, num_bytes_written, calls, plic_pending,
                       driver, history>>
    BY <1>3 DEF BlkWalkZeroed
  <2>2. 0 \in Idx
    BY Sizes
  <2>3. TypeOK'
    BY <1>1, <2>1, <2>2 DEF TypeOK, dram, regs, driver, history
  <2>4. StaleInv'
    BY <1>1, <2>1 DEF StaleInv, StaleBounded, regs, history
  <2>5. QED
    BY <1>3, <2>3, <2>4 DEF DeviceInv, QueueInv, StatusBeforeIrq, NoLostWakeup, ChainInv
<1>4. QED  BY <1>2, <1>3, BlkStepIsStep

LEMMA HereType == TypeOK => Here \in DescIds
BY IncrType DEF TypeOK, Here

\* What a copy leaves in the buffer and the image.
LEMMA CopyTypes ==
    ASSUME BlkInv, pc = "walk", CanCopy, Copy
    PROVE  buf' \in [DescIds -> Int] /\ image' \in [Sectors -> Int]
<1>1. Here \in DescIds /\ buf \in [DescIds -> Int] /\ image \in [Sectors -> Int]
  BY HereType DEF BlkInv, DeviceInv, QueueInv, BlkTypeOK
<1>2. CASE op.type = "in"
  <2>1. /\ buf' = [buf EXCEPT ![Here] = IF magic_value THEN image[op.sector] ELSE buf[Here]]
        /\ image' = image
    BY <1>2 DEF Copy
  <2>2. magic_value => op.sector \in Sectors
    <3> DEFINE k == Len(served[0]) + 1
    <3>1. magic_value => OpFor(op, asked[k])
      BY HandFacts, CopyEntered
    <3> HIDE DEF k
    <3>2. magic_value => asked[k] \in Transfers /\ op.sector = asked[k].sector
      BY <1>2, <3>1, CopyEntered DEF OpFor, CanCopy
    <3>3. QED  BY <3>2 DEF Transfers
  <2>3. (IF magic_value THEN image[op.sector] ELSE buf[Here]) \in Int
    BY <1>1, <2>2
  <2>4. QED  BY <1>1, <2>1, <2>3
<1>3. CASE op.type = "out"
  <2>1. (image' = [image EXCEPT ![op.sector] = buf[Here]] \/ image' = image) /\ buf' = buf
    BY <1>3 DEF Copy
  <2>2. QED  BY <1>1, <2>1
<1>4. CASE op.type \notin {"in", "out"}
  BY <1>1, <1>4 DEF Copy
<1>5. QED  BY <1>2, <1>3, <1>4

LEMMA BlkTypeStep ==
    ASSUME BlkInv, [BlkNext]_<<vars, blkvars>>
    PROVE  BlkTypeOK'
<1>1. /\ hdr \in [DescIds -> Requests \cup {NoOp, Zeros, Ones}]
      /\ buf \in [DescIds -> Int] /\ image \in [Sectors -> Int] /\ asked \in Seq(Requests)
      /\ Here \in DescIds /\ TypeOK
  BY HereType DEF BlkInv, DeviceInv, QueueInv, BlkTypeOK
<1>2. CASE BlkWalkStart \/ BlkRead \/ BlkQuiet
  <2>1. UNCHANGED <<hdr, buf, image, asked>>
    BY <1>2 DEF BlkWalkStart, BlkRead, BlkEnter, BlkDispatch, BlkLocate, BlkQuiet
  <2>2. QED  BY <1>1, <2>1 DEF BlkTypeOK
<1>3. CASE BlkWalkData \/ BlkWalkZeroed
  <2>1. pc = "walk" /\ CanCopy /\ Copy /\ UNCHANGED <<hdr, asked>>
    BY <1>3 DEF BlkWalkData, BlkWalkZeroed, CallsHandler
  <2>2. QED  BY <1>1, <2>1, CopyTypes DEF BlkTypeOK
<1>4. CASE BlkWalkLast
  <2>1. /\ buf' = [buf EXCEPT ![Here] = IF magic_value THEN StatusOk ELSE buf[Here]]
        /\ UNCHANGED <<hdr, image, asked>>
    BY <1>4 DEF BlkWalkLast, process_queue_complete
  <2>2. (IF magic_value THEN StatusOk ELSE buf[Here]) \in Int
    BY <1>1 DEF StatusOk
  <2>3. buf' \in [DescIds -> Int]
    BY <1>1, <2>1, <2>2
  <2>4. QED  BY <1>1, <2>1, <2>3 DEF BlkTypeOK
<1>5. ASSUME NEW c \in Chains(0), NEW r \in Requests, BlkFill(r, c)  PROVE BlkTypeOK'
  <2> DEFINE k == Len(submitted[0]) + 1
  <2>1. /\ hdr' = [hdr EXCEPT ![c[1]] = [type |-> r.type, sector |-> r.sector]]
        /\ buf' = [d \in DescIds |->
                      IF \A i \in 2 .. Len(c) : c[i] # d THEN buf[d]
                      ELSE IF r.type = "out" /\ d = c[2] THEN k ELSE Blank]
        /\ asked' = Append(asked, [type |-> r.type, sector |-> r.sector])
        /\ image' = image
    BY <1>5 DEF BlkFill, BlkSubmit
  <2>2. [type |-> r.type, sector |-> r.sector] = r
    BY DEF Requests, Transfers
  <2>3. k \in Int /\ Blank \in Int
    <3>1. submitted[0] \in Seq(DescIds)
      BY <1>1, BlkQueues DEF TypeOK
    <3>2. Len(submitted[0]) \in Nat
      BY <3>1
    <3>3. QED  BY <3>2 DEF Blank
  <2>4. asked' \in Seq(Requests) /\ hdr' \in [DescIds -> Requests \cup {NoOp, Zeros, Ones}]
    BY <1>1, <2>1, <2>2, AppendFacts
  <2> HIDE DEF k
  <2>5. buf' \in [DescIds -> Int]
    BY <1>1, <2>1, <2>3
  <2>6. QED  BY <1>1, <2>1, <2>4, <2>5 DEF BlkTypeOK
<1>6. CASE BlkReset
  <2>1. /\ hdr' = [d \in DescIds |-> IF avail_idx'[0] = 0 THEN Zeros ELSE Ones]
        /\ buf' = [d \in DescIds |-> Garbage]
        /\ UNCHANGED <<image, asked>>
    BY <1>6 DEF BlkReset
  <2>2. Garbage \in Int
    BY DEF Garbage
  <2>3. buf' \in [DescIds -> Int] /\ hdr' \in [DescIds -> Requests \cup {NoOp, Zeros, Ones}]
    BY <2>1, <2>2
  <2>4. QED  BY <1>1, <2>1, <2>3 DEF BlkTypeOK
<1>7. QED
  BY <1>1, <1>2, <1>3, <1>4, <1>5, <1>6, BlkFrame

\* The header is counted in the step that takes its address.
LEMMA ReqStep ==
    ASSUME BlkInv, [BlkNext]_<<vars, blkvars>>
    PROVE  ReqInv'
<1>1. /\ TypeOK /\ Here \in DescIds
      /\ pc = "walk" /\ num_bytes_written > 0 => req \in DescIds
      /\ op # NoOp => req \in DescIds
  BY HereType DEF BlkInv, DeviceInv, QueueInv, ReqInv
<1>2. CASE BlkWalkStart
  BY <1>1, <1>2 DEF BlkWalkStart, process_queue_start, ReqInv
<1>3. ASSUME pc = "walk", HandlerOfNext = "data"
      PROVE  req \in DescIds
  <2>1. ~ (num_bytes_written < HeaderSize) /\ num_bytes_written \in Nat
    BY <1>1, <1>3 DEF HandlerOfNext, TypeOK
  <2>2. num_bytes_written > 0
    BY <2>1, BoundAssumption
  <2>3. QED  BY <1>1, <1>3, <2>2
<1>4. CASE BlkWalkData \/ BlkWalkZeroed
  <2>1. req' = req /\ CanCopy
    BY <1>4 DEF BlkWalkData, BlkWalkZeroed
  <2>2. req \in DescIds
    BY <1>1, <2>1, CopyEntered
  <2>3. QED  BY <2>1, <2>2 DEF ReqInv
<1>5. CASE BlkRead
  <2>1. /\ req' = req
        /\ op # NoOp \/ (pc = "walk" /\ HandlerOfNext = "data")
    BY <1>5 DEF BlkRead, BlkEnter, BlkDispatch, BlkLocate, CallsHandler, NoOp, Entered
  <2>2. req \in DescIds
    BY <1>1, <1>3, <2>1
  <2>3. QED  BY <2>1, <2>2 DEF ReqInv
<1>6. CASE BlkWalkLast
  BY <1>1, <1>6 DEF BlkWalkLast, WalkLast, ReqInv
<1>7. CASE BlkQuiet
  BY <1>1, <1>7 DEF BlkQuiet, ReqInv
<1>8. ASSUME NEW c \in Chains(0), NEW r \in Requests, BlkFill(r, c)  PROVE ReqInv'
  BY <1>1, <1>8 DEF BlkFill, BlkSubmit, DriverFill, request, ReqInv
<1>9. CASE BlkReset
  BY <1>1, <1>9 DEF BlkReset, ChipReset, request, ReqInv
<1>10. QED
  BY <1>1, <1>2, <1>4, <1>5, <1>6, <1>7, <1>8, <1>9, BlkFrame

\* After a reset no header that is read is a write.
LEMMA ResetStep ==
    ASSUME BlkInv, [BlkNext]_<<vars, blkvars>>
    PROVE  ResetInv'
<1>1. TypeOK /\ Here \in DescIds /\ image \in [Sectors -> Int] /\ ReqInv
  BY HereType DEF BlkInv, DeviceInv, QueueInv, BlkTypeOK
<1>2. CASE BlkReset
  <2>1. /\ hdr' = [d \in DescIds |-> IF avail_idx'[0] = 0 THEN Zeros ELSE Ones]
        /\ op' = op /\ image' = image
        /\ atReset' = [image |-> image, op |-> op]
    BY <1>2 DEF BlkReset
  <2>2. QED  BY <2>1 DEF ResetInv, ResetSparesImage
<1>3. ASSUME magic_value' = magic_value, UNCHANGED <<hdr, image, op, atReset>>
      PROVE  ResetInv'
  BY <1>3 DEF BlkInv, ResetInv, ResetSparesImage
<1>4. CASE BlkWalkStart \/ BlkWalkLast \/ BlkQuiet
  <2>1. magic_value' = magic_value /\ UNCHANGED <<hdr, image, op, atReset>>
    BY <1>4 DEF BlkWalkStart, WalkNext, BlkWalkLast, WalkLast, regs, BlkQuiet
  <2>2. QED  BY <1>3, <2>1
<1>5. ASSUME NEW c \in Chains(0), NEW r \in Requests, BlkFill(r, c)  PROVE ResetInv'
  <2>1. magic_value'
    BY <1>5 DEF BlkFill, BlkSubmit, DriverFill, regs
  <2>2. QED  BY <2>1 DEF ResetInv
<1>6. CASE BlkWalkData \/ BlkWalkZeroed
  <2>1. /\ magic_value' = magic_value /\ UNCHANGED <<hdr, atReset>>
        /\ op' = NoOp /\ CanCopy /\ Copy
    BY <1>6 DEF BlkWalkData, WalkNext, BlkWalkZeroed, regs
  <2>2. CASE magic_value
    BY <2>1, <2>2 DEF ResetInv
  <2>3. CASE ~ magic_value
    <3>1. /\ \A d \in DescIds : hdr[d] \in {Zeros, Ones}
          /\ op.type = "out" =>
                /\ atReset.op.type = "out"
                /\ \/ op.sector = atReset.op.sector
                   \/ atReset.op.sector = Unread /\ op.sector \in {0, Outside}
          /\ \A z \in Sectors :
                \/ image[z] = atReset.image[z]
                \/ /\ atReset.op.type = "out"
                   /\ z = IF atReset.op.sector = Unread THEN 0 ELSE atReset.op.sector
      BY <2>3 DEF BlkInv, ResetInv, ResetSparesImage
    <3>2. \/ image' = image
          \/ /\ op.type = "out" /\ op.sector # Outside /\ op.sector # Unread
             /\ image' = [image EXCEPT ![op.sector] = buf[Here]]
      BY <2>1 DEF Copy, CanCopy
    <3>3. \A z \in Sectors :
             \/ image'[z] = image[z]
             \/ op.type = "out" /\ op.sector # Outside /\ op.sector # Unread /\ z = op.sector
      BY <1>1, <3>2
    <3>4. ResetSparesImage'
      BY <2>1, <3>1, <3>3 DEF ResetSparesImage
    <3>5. op'.type # "out"
      BY <2>1 DEF NoOp
    <3>6. QED  BY <2>1, <3>1, <3>4, <3>5 DEF ResetInv
  <2>4. QED  BY <2>2, <2>3
<1>7. CASE BlkRead
  <2>1. magic_value' = magic_value /\ UNCHANGED <<hdr, image, atReset>>
    BY <1>7 DEF BlkRead, BlkEnter, BlkDispatch, BlkLocate, vars, regs
  <2>2. CASE magic_value
    BY <2>1, <2>2 DEF ResetInv
  <2>3. CASE ~ magic_value
    <3>1. /\ \A d \in DescIds : hdr[d] \in {Zeros, Ones}
          /\ op.type = "out" =>
                /\ atReset.op.type = "out"
                /\ \/ op.sector = atReset.op.sector
                   \/ atReset.op.sector = Unread /\ op.sector \in {0, Outside}
          /\ ResetSparesImage
      BY <2>3 DEF BlkInv, ResetInv
    <3>2. op'.type = "out" =>
              /\ atReset.op.type = "out"
              /\ \/ op'.sector = atReset.op.sector
                 \/ atReset.op.sector = Unread /\ op'.sector \in {0, Outside}
      <4>1. CASE BlkEnter
        BY <4>1 DEF BlkEnter, Entered
      <4>2. CASE BlkDispatch
        <5>1. op' = [type |-> Switch(hdr[req].type), sector |-> Unread] /\ req \in DescIds
          BY <1>1, <4>2 DEF BlkDispatch, ReqInv, NoOp, Entered
        <5>2. hdr[req].type \in {"in", "ones"}
          BY <3>1, <5>1 DEF Zeros, Ones
        <5>3. QED  BY <5>1, <5>2 DEF Switch
      <4>3. CASE BlkLocate
        <5>1. /\ op.sector = Unread /\ op.type \in {"in", "out"} /\ req \in DescIds
              /\ \E s \in Begins(hdr[req].sector) : op' = [type |-> op.type, sector |-> s]
          BY <1>1, <4>3 DEF BlkLocate, ReqInv, NoOp
        <5>2. hdr[req].sector \in {0, Outside}
          BY <3>1, <5>1 DEF Zeros, Ones
        <5>3. op'.type = op.type /\ op'.sector \in {0, Outside}
          BY <5>1, <5>2 DEF Begins
        <5>4. 0 # Unread /\ Outside # Unread
          BY DEF Outside, Unread
        <5>5. QED  BY <3>1, <5>1, <5>3, <5>4
      <4>4. QED  BY <1>7, <4>1, <4>2, <4>3 DEF BlkRead
    <3>3. QED  BY <2>1, <3>1, <3>2 DEF ResetInv, ResetSparesImage
  <2>4. QED  BY <2>2, <2>3
<1>8. QED
  BY <1>1, <1>2, <1>4, <1>5, <1>6, <1>7, BlkFrame

-----------------------------------------------------------------------------
(* The requests and the image while the chip is up *)

BlkHeld == AskedInv /\ LiveInv /\ HandInv /\ DiskCurrent

LEMMA DiskData ==
    /\ DiskCurrent <=> (magic_value => \A s \in Sectors : image[s] = Data(asked, Applied, s))
    /\ DiskCurrent' <=> (magic_value' => \A s \in Sectors : image'[s] = Data(asked', Applied', s))
BY DEF DiskCurrent, Contents, Data, Writes, Latest

\* How many requests are applied, outside and inside a walk.
LEMMA AppliedFacts ==
    ASSUME BlkInv, magic_value
    PROVE  /\ Len(served[0]) \in Nat /\ Applied \in Nat
           /\ pc # "walk" => Applied = Len(served[0])
           /\ Applied <= Len(asked)
<1>1. QueueInv /\ AskedInv
  BY DEF BlkInv, DeviceInv
<1>2. /\ Len(served[0]) \in Nat /\ Len(submitted[0]) \in Nat
      /\ Len(served[0]) <= Len(submitted[0])
  BY <1>1, Counts, BlkQueues
<1>3. pc # "walk" => Applied = Len(served[0])
  BY <1>2 DEF Applied
<1>4. Len(submitted[0]) <= Len(asked) /\ Len(asked) \in Nat
  BY <1>1, <1>2 DEF AskedInv
<1>5. CASE pc # "walk"
  BY <1>2, <1>3, <1>4, <1>5
<1>6. CASE pc = "walk"
  <2> DEFINE k == Len(served[0]) + 1
  <2>1. k \in Live(0) /\ k \in Nat /\ Applied = IF Len(calls) = 2 THEN k ELSE k - 1
    BY <1>6, HandFacts
  <2>2. k \in 1 .. Len(asked)
    BY <2>1, AskedFacts
  <2> HIDE DEF k
  <2>3. Applied \in Nat /\ Applied <= Len(asked)
    BY <1>4, <2>1, <2>2
  <2>4. QED  BY <1>2, <1>6, <2>3
<1>7. QED  BY <1>5, <1>6

\* The steps that move no data.
LEMMA QuietHeld ==
    ASSUME BlkInv, magic_value, [Next]_vars, BlkQuiet
    PROVE  BlkHeld'
<1>1. QueueInv /\ ChainInv /\ AskedInv /\ LiveInv /\ HandInv /\ DiskCurrent
  BY DEF BlkInv, DeviceInv
<1>2. /\ UNCHANGED <<hdr, buf, image, req, op, asked, magic_value, served>>
      /\ filled'[0] \in {filled[0], NoDesc} /\ Filled' = Filled
      /\ pc' = "walk" => \/ pc = "walk" /\ UNCHANGED <<calls, desc_idx_first>>
                         \/ pc # "walk" /\ calls' = << >>
      /\ pc = "walk" => pc' = "walk"
  BY DEF BlkQuiet
<1>3. Applied' = Applied
  <2>1. CASE pc' = "walk" /\ pc = "walk"
    BY <1>2, <2>1 DEF Applied
  <2>2. CASE pc' = "walk" /\ pc # "walk"
    <3>1. calls' = << >>
      BY <1>2, <2>2
    <3>2. ~ \E i \in 1 .. Len(calls') : calls'[i][1] = "data"
      BY <3>1
    <3>3. QED  BY <1>2, <2>2, <3>2 DEF Applied
  <2>3. CASE pc' # "walk"
    BY <1>2, <2>3 DEF Applied
  <2>4. QED  BY <2>1, <2>2, <2>3
<1>4. AskedInv'
  BY <1>1, <1>2 DEF AskedInv, Filled
<1>5. LiveInv'
  <2> SUFFICES ASSUME NEW k \in Live(0)'
               PROVE  Held(hdr', buf', asked', Len(served'[0]), Applied', k, ChainAt(0, k)')
    BY DEF LiveInv
  <2>1. k \in Live(0) /\ ChainAt(0, k)' = ChainAt(0, k)
    BY <1>1, <1>2, LiveKept, BlkQueues
  <2>2. QED  BY <1>1, <1>2, <1>3, <2>1 DEF LiveInv
<1>6. HandInv'
  <2>1. CASE pc = "walk"
    BY <1>1, <1>2, <2>1 DEF HandInv
  <2>2. CASE pc # "walk"
    <3>1. op' = NoOp
      BY <1>1, <1>2, <2>2 DEF HandInv
    <3>2. pc' = "walk" => Len(calls') = 0
      BY <1>2, <2>2
    <3>3. QED  BY <3>1, <3>2 DEF HandInv
  <2>3. QED  BY <2>1, <2>2
<1>7. DiskCurrent'
  BY <1>1, <1>2, <1>3, DiskData
<1>8. QED  BY <1>4, <1>5, <1>6, <1>7 DEF BlkHeld

\* The header's address is taken: nothing is applied yet.
LEMMA StartHeld ==
    ASSUME BlkInv, magic_value, [Next]_vars, BlkWalkStart
    PROVE  BlkHeld'
<1> DEFINE e == <<"start", Here>>
           n == Len(calls)
           k == Len(served[0]) + 1
<1>1. QueueInv /\ ChainInv /\ TypeOK /\ AskedInv /\ LiveInv /\ HandInv /\ DiskCurrent
  BY DEF BlkInv, DeviceInv, QueueInv
<1>2. /\ pc = "walk" /\ pc' = "walk" /\ HandlerOfNext = "start" /\ CurrentDesc.next # NoNext
      /\ req' = Here /\ calls' = Append(calls, e)
      /\ UNCHANGED <<hdr, buf, image, op, asked, magic_value, filled, submitted, served,
                     returned, desc_idx_first>>
  BY DEF BlkWalkStart, CallsHandler, process_queue_start, WalkNext, Called, Here, regs, driver,
     history
<1>3. /\ n = 0 /\ Here = ChainAt(0, k)[n + 1] /\ Here \in DescIds /\ op = NoOp
      /\ Applied = k - 1 /\ k \in Nat /\ k \in Live(0)
  <2>1. /\ n = 0 /\ Here = ChainAt(0, k)[n + 1] /\ Here \in DescIds
        /\ op # NoOp => n = 1
        /\ Applied = IF n = 2 THEN k ELSE k - 1
        /\ k \in Nat /\ k \in Live(0)
    BY <1>2, HandFacts
  <2> HIDE DEF n
  <2>2. QED  BY <2>1
<1>4. Here = desc_idx_first
  <2>1. Handed(0) + 1 = k /\ HeadOf(0, Handed(0) + 1) = desc_idx_first
    <3>1. queue_idx = 0
      BY <1>1, BlkQueues DEF TypeOK
    <3>2. QED  BY <1>1, <1>2, <3>1, InHand
  <2>2. HeadOf(0, k) = ChainAt(0, k)[1]
    BY <1>1, <1>3, BlkQueues, LiveDescs
  <2>3. QED  BY <1>3, <2>1, <2>2
<1>5. Len(calls') = 1 /\ calls'[1][1] = "start"
  <2>1. e \in Handlers \X DescIds /\ calls \in Seq(Handlers \X DescIds)
    BY <1>1, <1>3 DEF TypeOK, Handlers
  <2>2. Len(calls') = n + 1 /\ calls'[n + 1] = e
    BY <1>2, <2>1, AppendFacts
  <2>3. QED  BY <1>3, <2>2
<1>6. Applied' = Applied
  <2>1. ~ \E i \in 1 .. Len(calls') : calls'[i][1] = "data"
    BY <1>5
  <2>2. Applied' = Len(served[0]) + 0
    BY <1>2, <2>1 DEF Applied
  <2>3. Len(served[0]) \in Nat
    BY AppliedFacts
  <2>4. QED  BY <1>3, <2>2, <2>3
<1>7. AskedInv'
  BY <1>1, <1>2 DEF AskedInv
<1>8. LiveInv'
  <2> SUFFICES ASSUME NEW j \in Live(0)'
               PROVE  Held(hdr', buf', asked', Len(served'[0]), Applied', j, ChainAt(0, j)')
    BY DEF LiveInv
  <2>1. j \in Live(0) /\ ChainAt(0, j)' = ChainAt(0, j)
    BY <1>1, <1>2, LiveKept, BlkQueues
  <2>2. QED  BY <1>1, <1>2, <1>6, <2>1 DEF LiveInv
<1>9. HandInv'
  BY <1>2, <1>3, <1>4 DEF HandInv
<1>10. DiskCurrent'
  BY <1>1, <1>2, <1>6, DiskData
<1>11. QED  BY <1>7, <1>8, <1>9, <1>10 DEF BlkHeld


\* The header that is read is the one of the request in hand.
LEMMA ReadHeld ==
    ASSUME BlkInv, magic_value, BlkRead
    PROVE  BlkHeld'
<1> DEFINE n == Len(calls)
           k == Len(served[0]) + 1
           c == ChainAt(0, k)
           m == Len(c)
<1>1. QueueInv /\ ChainInv /\ TypeOK /\ AskedInv /\ LiveInv /\ HandInv /\ DiskCurrent
  BY DEF BlkInv, DeviceInv, QueueInv
<1>2. pc = "walk" /\ UNCHANGED <<vars, hdr, buf, image, req, asked>>
  BY DEF BlkRead, BlkEnter, BlkDispatch, BlkLocate, CallsHandler
<1>3. UNCHANGED <<magic_value, pc, calls, desc_idx_first, chain, filled, submitted, served, returned>>
  BY <1>2 DEF vars, regs, request, driver, history
<1>4. /\ k \in Live(0) /\ m = IF asked[k] \in Transfers THEN 3 ELSE 2
      /\ n \in {0, 1, 2} /\ n + 1 <= m
      /\ CurrentDesc.next = NoNext <=> n + 1 = m
      /\ HandlerOfNext = "start" <=> n = 0
      /\ n > 0 => req = c[1]
      /\ op # NoOp => n = 1 /\ OpFor(op, asked[k])
  BY <1>2, HandFacts
<1>5. hdr[c[1]] = asked[k]
  BY <1>4, AskedFacts DEF Held
<1>6. n = 1 /\ OpFor(op', asked[k])
  <2> HIDE DEF n, m, c, k
  <2>1. CASE BlkEnter
    <3>1. HandlerOfNext = "data" /\ CurrentDesc.next # NoNext /\ op' = Entered
      BY <2>1 DEF BlkEnter, CallsHandler
    <3>2. n # 0 /\ n + 1 # m
      BY <1>4, <3>1
    <3>3. n = 1 /\ asked[k] \in Transfers
      BY <1>4, <3>2
    <3>4. QED  BY <3>1, <3>3 DEF OpFor
  <2>2. CASE BlkDispatch
    <3>1. op # NoOp /\ op' = [type |-> Switch(hdr[req].type), sector |-> Unread]
      BY <2>2 DEF BlkDispatch, NoOp, Entered
    <3>2. n = 1 /\ asked[k] \in Transfers /\ hdr[req] = asked[k]
      BY <1>4, <1>5, <3>1 DEF OpFor
    <3>3. Switch(asked[k].type) = asked[k].type
      BY <3>2 DEF Transfers, Switch
    <3>4. QED  BY <3>1, <3>2, <3>3 DEF OpFor
  <2>3. CASE BlkLocate
    <3>1. /\ op.type \in {"in", "out"} /\ op # NoOp /\ op # Entered
          /\ \E s \in Begins(hdr[req].sector) : op' = [type |-> op.type, sector |-> s]
      BY <2>3 DEF BlkLocate, NoOp, Entered
    <3>2. /\ n = 1 /\ asked[k] \in Transfers /\ hdr[req] = asked[k]
          /\ op.type = asked[k].type
      BY <1>4, <1>5, <3>1 DEF OpFor
    <3>3. asked[k].sector # Outside
      BY <3>2, BlkAssumption DEF Transfers, Outside
    <3>4. op' = [type |-> asked[k].type, sector |-> asked[k].sector]
      BY <3>1, <3>2, <3>3 DEF Begins
    <3>5. QED  BY <3>2, <3>4 DEF OpFor
  <2>4. QED  BY <2>1, <2>2, <2>3 DEF BlkRead
<1>7. Applied' = Applied
  BY <1>3 DEF Applied
<1>8. AskedInv' /\ DiskCurrent'
  BY <1>1, <1>2, <1>3, <1>7, DiskData DEF AskedInv
<1>9. LiveInv'
  <2>1. Live(0)' = Live(0) /\ \A j \in Live(0) : ChainAt(0, j)' = ChainAt(0, j)
    BY <1>3 DEF Live, ChainAt, HeadOf
  <2>2. QED  BY <1>1, <1>2, <1>3, <1>7, <2>1 DEF LiveInv
<1>10. HandInv'
  <2>1. Len(calls) > 0 => req = desc_idx_first
    BY <1>1, <1>2, <1>3 DEF BlkInv, HandInv
  <2>2. QED  BY <1>2, <1>3, <1>6, <2>1 DEF HandInv
<1>11. QED  BY <1>8, <1>9, <1>10 DEF BlkHeld

\* Where the data and the status of requests are: nowhere else.
LEMMA DataDescs ==
    ASSUME BlkInv, magic_value, NEW k \in Live(0)
    PROVE  LET c == ChainAt(0, k)
           IN  /\ Len(c) \in {2, 3}
               /\ c[1] \in DescIds /\ c[2] \in DescIds /\ c[Len(c)] \in DescIds
               /\ c[1] \in Busy(0) /\ c[2] \in Busy(0) /\ c[Len(c)] \in Busy(0)
               /\ Len(c) = 3 => c[2] # c[Len(c)]
               /\ \A j \in Live(0) \ {k} :
                     LET d == ChainAt(0, j)
                     IN  /\ d[2] # c[2] /\ d[Len(d)] # c[2]
                         /\ d[2] # c[Len(c)] /\ d[Len(d)] # c[Len(c)]
<1>1. QueueInv /\ ChainInv /\ 0 \in Queues
  BY BlkQueues DEF BlkInv, DeviceInv
<1>2. ASSUME NEW j \in Live(0)
      PROVE  /\ Len(ChainAt(0, j)) \in {2, 3}
             /\ {1, 2, Len(ChainAt(0, j))} \subseteq 1 .. Len(ChainAt(0, j))
  <2>1. Held(hdr, buf, asked, Len(served[0]), Applied, j, ChainAt(0, j))
    BY AskedFacts
  <2> DEFINE m == Len(ChainAt(0, j))
  <2>2. m \in {2, 3}
    BY <2>1 DEF Held
  <2> HIDE DEF m
  <2>3. {1, 2, m} \subseteq 1 .. m
    BY <2>2
  <2>4. QED  BY <2>2, <2>3 DEF m
<1> DEFINE c == ChainAt(0, k)
           m == Len(c)
<1>3. /\ m \in {2, 3} /\ 1 \in 1 .. m /\ 2 \in 1 .. m /\ m \in 1 .. m
  BY <1>2
<1>4. /\ \A i \in 1 .. m : c[i] \in DescIds /\ c[i] \in Busy(0)
      /\ \A i, j \in 1 .. m : i # j => c[i] # c[j]
  BY <1>1, LiveDescs
<1>5. ASSUME NEW j \in Live(0) \ {k}
      PROVE  LET d == ChainAt(0, j)
             IN  /\ d[2] # c[2] /\ d[Len(d)] # c[2]
                 /\ d[2] # c[Len(c)] /\ d[Len(d)] # c[Len(c)]
  <2> DEFINE d == ChainAt(0, j)
             l == Len(d)
  <2>1. 2 \in 1 .. l /\ l \in 1 .. l
    BY <1>2
  <2>2. \A a \in 1 .. l, b \in 1 .. m : d[a] # c[b]
    BY <1>1, LiveDisjoint
  <2> HIDE DEF d, c, l, m
  <2>3. d[2] # c[2] /\ d[l] # c[2] /\ d[2] # c[m] /\ d[l] # c[m]
    BY <1>3, <2>1, <2>2
  <2>4. QED  BY <2>3 DEF d, c, l, m
<1> HIDE DEF m
<1>6. m = 3 => c[2] # c[m]
  BY <1>3, <1>4
<1>7. /\ c[1] \in DescIds /\ c[2] \in DescIds /\ c[m] \in DescIds
      /\ c[1] \in Busy(0) /\ c[2] \in Busy(0) /\ c[m] \in Busy(0)
  BY <1>3, <1>4
<1>8. QED  BY <1>3, <1>5, <1>6, <1>7 DEF m


\* The copy is the one the request in hand asks for, from or to its own buffer.
LEMMA DataHeld ==
    ASSUME BlkInv, magic_value, [Next]_vars, BlkWalkData
    PROVE  BlkHeld'
<1> DEFINE n == Len(calls)
           k == Len(served[0]) + 1
           c == ChainAt(0, k)
           m == Len(c)
           e == <<"data", Here>>
           s == asked[k].sector
<1>1. /\ QueueInv /\ ChainInv /\ TypeOK /\ AskedInv /\ LiveInv /\ HandInv /\ DiskCurrent
      /\ buf \in [DescIds -> Int] /\ image \in [Sectors -> Int]
  BY DEF BlkInv, DeviceInv, QueueInv, BlkTypeOK
<1>2. /\ pc = "walk" /\ pc' = "walk" /\ HandlerOfNext = "data" /\ CurrentDesc.next # NoNext
      /\ CanCopy /\ op' = NoOp /\ Copy
      /\ calls' = Append(calls, e)
      /\ UNCHANGED <<hdr, req, asked, magic_value, filled, submitted, served,
                     returned, desc_idx_first>>
  BY DEF BlkWalkData, CallsHandler, WalkNext, Called, Here, regs, driver, history
<1>3. /\ k \in Nat /\ k \in Live(0) /\ m = IF asked[k] \in Transfers THEN 3 ELSE 2
      /\ Here = c[n + 1] /\ Here \in DescIds
      /\ n = 1 /\ OpFor(op, asked[k])
      /\ n > 0 => req = c[1]
      /\ Applied = IF n = 2 THEN k ELSE k - 1
  BY <1>2, HandFacts, CopyEntered
<1>4. /\ m = 3 /\ Here = c[2] /\ Applied = k - 1 /\ s \in Sectors
      /\ asked[k].type \in {"in", "out"} /\ Len(served[0]) = k - 1
      /\ op.type = asked[k].type /\ op.sector = s /\ s # Outside
  <2>1. /\ asked[k] \in Transfers /\ asked[k].type \in {"in", "out"} /\ s \in Sectors
        /\ op.type = asked[k].type /\ op.sector \in {Unread, s}
    BY <1>2, <1>3, CopyEntered DEF Transfers, OpFor
  <2>2. op.sector = s /\ s # Outside
    BY <1>2, <2>1, BlkAssumption DEF CanCopy, Outside
  <2>3. Len(served[0]) \in Nat
    BY AppliedFacts
  <2>4. Len(served[0]) = k - 1
    BY <2>3
  <2> HIDE DEF n, k, m, c
  <2>5. m = 3 /\ Here = c[2] /\ Applied = k - 1
    BY <1>3, <2>1
  <2>6. QED  BY <2>1, <2>4, <2>5, <2>2
<1>5. Applied' = k
  <2>1. e \in Handlers \X DescIds /\ calls \in Seq(Handlers \X DescIds)
    BY <1>1, <1>3 DEF TypeOK, Handlers
  <2>2. Len(calls') = n + 1 /\ calls'[n + 1] = e
    BY <1>2, <2>1, AppendFacts
  <2>3. 2 \in 1 .. Len(calls') /\ calls'[2][1] = "data"
    BY <1>3, <2>2
  <2>4. QED  BY <1>2, <2>3 DEF Applied
<1>6. \A z \in Sectors : image[z] = Data(asked, k - 1, z)
  BY <1>1, <1>4, DiskData
<1>7. \A z : Data(asked, k, z) = IF asked[k].type = "out" /\ s = z
                                 THEN k ELSE Data(asked, k - 1, z)
  <2> HIDE DEF k
  <2>1. k - 1 \in Nat /\ (k - 1) + 1 = k
    BY <1>3, AskedFacts
  <2>2. QED  BY <2>1, DataNext
<1>8. AskedInv'
  BY <1>1, <1>2 DEF AskedInv
<1>9. \A j \in Live(0)' : j \in Live(0) /\ ChainAt(0, j)' = ChainAt(0, j)
  BY <1>1, <1>2, LiveKept, BlkQueues
<1>10. HandInv'
  <2>1. req = desc_idx_first
    BY <1>1, <1>2, <1>3 DEF HandInv
  <2>2. QED  BY <1>2, <2>1 DEF HandInv
<1>11. ASSUME NEW j \in Live(0)
       PROVE  /\ Held(hdr, buf, asked, Len(served[0]), Applied, j, ChainAt(0, j))
              /\ j \in Nat /\ (j # k /\ j <= k => j <= Applied)
              /\ ChainAt(0, j)[2] \in DescIds
              /\ ChainAt(0, j)[Len(ChainAt(0, j))] \in DescIds
              /\ j # k => ChainAt(0, j)[2] # Here
              /\ ChainAt(0, j)[Len(ChainAt(0, j))] # Here
  <2>1. Held(hdr, buf, asked, Len(served[0]), Applied, j, ChainAt(0, j)) /\ j \in Nat
    BY AskedFacts
  <2>2. j # k /\ j <= k => j <= Applied
    <3> HIDE DEF k
    <3>1. QED  BY <1>3, <1>4, <2>1
  <2>3. /\ ChainAt(0, j)[2] \in DescIds /\ ChainAt(0, j)[Len(ChainAt(0, j))] \in DescIds
        /\ j = k => ChainAt(0, j)[Len(ChainAt(0, j))] # c[2]
    BY <1>3, <1>4, DataDescs
  <2>4. j # k => ChainAt(0, j)[2] # c[2] /\ ChainAt(0, j)[Len(ChainAt(0, j))] # c[2]
    <3>1. j # k => j \in Live(0) \ {k}
      OBVIOUS
    <3>2. QED  BY <1>3, <3>1, DataDescs
  <2>5. QED  BY <1>4, <2>1, <2>2, <2>3, <2>4
<1> HIDE DEF k, c, m, n, e, s
<1>12. CASE asked[k].type = "in"
  <2>1. buf' = [buf EXCEPT ![Here] = image[s]] /\ image' = image
    BY <1>2, <1>4, <1>12 DEF Copy
  <2>2. DiskCurrent'
    BY <1>2, <1>5, <1>6, <1>7, <1>12, <2>1, DiskData
  <2>3. LiveInv'
    <3> SUFFICES ASSUME NEW j \in Live(0)'
                 PROVE  Held(hdr, buf', asked, Len(served[0]), k, j, ChainAt(0, j))
      BY <1>2, <1>5, <1>9 DEF LiveInv
    <3>1. j \in Live(0)
      BY <1>9
    <3>2. CASE j # k
      <4>1. /\ buf'[ChainAt(0, j)[2]] = buf[ChainAt(0, j)[2]]
            /\ buf'[ChainAt(0, j)[Len(ChainAt(0, j))]] = buf[ChainAt(0, j)[Len(ChainAt(0, j))]]
        BY <1>1, <1>3, <1>11, <2>1, <3>1, <3>2
      <4>2. QED  BY <1>11, <3>1, <3>2, <4>1 DEF Held
    <3>3. CASE j = k
      <4>1. buf'[ChainAt(0, k)[2]] = Data(asked, k, s)
        BY <1>1, <1>3, <1>4, <1>6, <1>7, <1>12, <2>1 DEF c
      <4>2. ~ (k <= Len(served[0]))
        BY <1>3, <1>4
      <4>3. QED  BY <1>3, <1>11, <1>12, <3>3, <4>1, <4>2 DEF Held, s
    <3>4. QED  BY <3>2, <3>3
  <2>4. QED  BY <1>8, <1>10, <2>2, <2>3 DEF BlkHeld
<1>13. CASE asked[k].type = "out"
  <2>1. image' = [image EXCEPT ![s] = buf[Here]] /\ buf' = buf
    BY <1>2, <1>4, <1>13 DEF Copy
  <2>2. buf[Here] = k
    BY <1>3, <1>4, <1>11, <1>13 DEF Held, c
  <2>3. DiskCurrent'
    <3>1. \A z \in Sectors : image'[z] = Data(asked, k, z)
      BY <1>1, <1>4, <1>6, <1>7, <1>13, <2>1, <2>2
    <3>2. QED  BY <1>2, <1>5, <3>1, DiskData
  <2>4. LiveInv'
    <3> SUFFICES ASSUME NEW j \in Live(0)'
                 PROVE  Held(hdr, buf, asked, Len(served[0]), k, j, ChainAt(0, j))
      BY <1>2, <1>5, <1>9, <2>1 DEF LiveInv
    <3>1. j \in Live(0)
      BY <1>9
    <3>2. CASE j # k
      BY <1>11, <3>1, <3>2 DEF Held
    <3>3. CASE j = k
      BY <1>11, <1>13, <3>1, <3>3 DEF Held
    <3>4. QED  BY <3>2, <3>3
  <2>5. QED  BY <1>8, <1>10, <2>3, <2>4 DEF BlkHeld
<1>14. QED  BY <1>4, <1>12, <1>13


\* The status goes to the request in hand, when its data has been copied.
LEMMA LastHeld ==
    ASSUME BlkInv, magic_value, [Next]_vars, BlkWalkLast
    PROVE  BlkHeld'
<1> DEFINE n == Len(calls)
           k == Len(served[0]) + 1
           c == ChainAt(0, k)
           m == Len(c)
<1>1. /\ QueueInv /\ ChainInv /\ TypeOK /\ AskedInv /\ LiveInv /\ HandInv /\ DiskCurrent
      /\ buf \in [DescIds -> Int] /\ image \in [Sectors -> Int]
  BY DEF BlkInv, DeviceInv, QueueInv, BlkTypeOK
<1>2. /\ pc = "walk" /\ pc' = "used" /\ CurrentDesc.next = NoNext
      /\ op = NoOp /\ op' = op
      /\ buf' = [buf EXCEPT ![Here] = StatusOk]
      /\ UNCHANGED <<hdr, image, asked, magic_value, filled, submitted, returned>>
  BY DEF BlkWalkLast, process_queue_complete, WalkLast, regs, driver
<1>3. /\ k \in Nat /\ k \in Live(0) /\ m = IF asked[k] \in Transfers THEN 3 ELSE 2
      /\ n \in {0, 1, 2}
      /\ Here = c[n + 1] /\ Here \in DescIds
      /\ CurrentDesc.next = NoNext <=> n + 1 = m
      /\ Applied = IF n = 2 THEN k ELSE k - 1
  BY <1>2, HandFacts
<1>4. Len(served'[0]) = k
  <2>1. queue_idx = 0 /\ WalkLast
    BY <1>1, BlkQueues DEF TypeOK, BlkWalkLast
  <2>2. QED  BY <1>1, <2>1, CompleteAt
<1>5. Applied' = k
  BY <1>2, <1>4 DEF Applied
<1>6. Here = c[m] /\ Applied = (IF asked[k] \in Transfers THEN k ELSE k - 1)
  <2> HIDE DEF n, k, m, c
  <2>1. n + 1 = m
    BY <1>2, <1>3
  <2>2. QED  BY <1>3, <2>1
<1>7. \A z \in Sectors : Data(asked, Applied, z) = Data(asked, k, z)
  <2>1. CASE asked[k] \in Transfers
    BY <1>6, <2>1
  <2>2. CASE asked[k] \notin Transfers
    <3>1. asked[k].type # "out"
      <4>1. asked[k] \in Requests
        BY <1>3, AskedFacts
      <4>2. QED  BY <2>2, <4>1 DEF Requests
    <3>2. k > 0
      BY <1>3, AskedFacts
    <3> HIDE DEF k
    <3>3. k - 1 \in Nat /\ (k - 1) + 1 = k
      BY <1>3, <3>2
    <3>4. QED  BY <1>6, <2>2, <3>1, <3>3, DataNext
  <2>3. QED  BY <2>1, <2>2
<1>8. DiskCurrent'
  BY <1>1, <1>2, <1>5, <1>7, DiskData
<1>9. AskedInv' /\ HandInv'
  BY <1>1, <1>2 DEF AskedInv, HandInv
<1>10. \A j \in Live(0)' : j \in Live(0) /\ ChainAt(0, j)' = ChainAt(0, j)
  BY <1>1, <1>2, LiveKept, BlkQueues
<1>11. LiveInv'
  <2> SUFFICES ASSUME NEW j \in Live(0)'
               PROVE  Held(hdr, buf', asked, k, k, j, ChainAt(0, j))
    BY <1>2, <1>4, <1>5, <1>10 DEF LiveInv
  <2> DEFINE d == ChainAt(0, j)
             l == Len(d)
  <2>1. /\ j \in Live(0) /\ j \in Nat /\ asked[j] \in Requests
        /\ Held(hdr, buf, asked, Len(served[0]), Applied, j, d)
    BY <1>10, AskedFacts
  <2>2. /\ d[2] \in DescIds /\ d[l] \in DescIds
        /\ l = 3 => d[2] # d[l]
    BY <2>1, DataDescs
  <2>3. Len(served[0]) \in Nat /\ Len(served[0]) = k - 1
    BY AppliedFacts
  <2>4. CASE j # k
    <3>1. d[2] # Here /\ d[l] # Here
      <4>1. j \in Live(0) \ {k}
        BY <2>1, <2>4
      <4>2. QED  BY <1>3, <1>6, <4>1, DataDescs
    <3> HIDE DEF d, l
    <3>2. buf'[d[2]] = buf[d[2]] /\ buf'[d[l]] = buf[d[l]]
      BY <1>1, <1>2, <1>3, <2>2, <3>1
    <3> HIDE DEF k
    <3>3. (j <= k => j <= Len(served[0]) /\ j <= Applied)
      BY <1>3, <1>6, <2>1, <2>3, <2>4
    <3>4. QED  BY <2>1, <3>2, <3>3 DEF Held, d, l
  <2>5. CASE j = k
    <3>1. d = c /\ l = m
      BY <2>5
    <3> HIDE DEF d, l, m, c, k
    <3>2. buf'[d[l]] = StatusOk
      BY <1>1, <1>2, <1>3, <1>6, <3>1
    <3>3. CASE asked[j] \in Transfers
      <4>1. l = 3 /\ Applied = k
        BY <1>3, <1>6, <2>5, <3>1, <3>3
      <4>2. buf'[d[2]] = buf[d[2]]
        BY <1>1, <1>2, <1>3, <1>6, <2>2, <3>1, <4>1
      <4>3. QED  BY <2>1, <2>5, <3>2, <4>1, <4>2 DEF Held, d, l
    <3>4. CASE asked[j] \notin Transfers
      <4>1. asked[j].type \notin {"in", "out"}
        BY <2>1, <3>4 DEF Requests
      <4>2. QED  BY <2>1, <3>2, <4>1 DEF Held, d, l
    <3>5. QED  BY <3>3, <3>4
  <2>6. QED  BY <2>4, <2>5
<1>12. QED  BY <1>8, <1>9, <1>11 DEF BlkHeld

\* A new request takes descriptors that no other has.
LEMMA FillHeld ==
    ASSUME BlkInv, magic_value, NEW c \in Chains(0), NEW r \in Requests, BlkFill(r, c)
    PROVE  BlkHeld'
<1> DEFINE k == Len(submitted[0]) + 1
           m == Len(c)
<1>1. /\ QueueInv /\ ChainInv /\ TypeOK /\ AskedInv /\ LiveInv /\ HandInv /\ DiskCurrent
      /\ buf \in [DescIds -> Int] /\ asked \in Seq(Requests)
      /\ hdr \in [DescIds -> Requests \cup {NoOp, Zeros, Ones}]
  BY DEF BlkInv, DeviceInv, QueueInv, BlkTypeOK
<1>2. [type |-> r.type, sector |-> r.sector] = r
  BY DEF Requests, Transfers
<1>3. /\ DriverFill(0, c)
      /\ m = IF r \in Transfers THEN 3 ELSE 2
      /\ hdr' = [hdr EXCEPT ![c[1]] = r]
      /\ buf' = [d \in DescIds |->
                    IF \A i \in 2 .. m : c[i] # d THEN buf[d]
                    ELSE IF r.type = "out" /\ d = c[2] THEN k ELSE Blank]
      /\ asked' = Append(asked, r)
      /\ UNCHANGED <<image, req, op>>
  BY <1>2 DEF BlkFill, BlkSubmit
<1>4. /\ filled[0] = NoDesc /\ filled' = [filled EXCEPT ![0] = c[1]]
      /\ UNCHANGED <<magic_value, pc, calls, desc_idx_first, submitted, served>>
  BY <1>3 DEF DriverFill, regs, request, history
<1>5. k \in Nat /\ Len(asked) + 1 = k /\ Len(asked) \in Nat
  <2>1. Len(submitted[0]) \in Nat /\ Len(asked) = Len(submitted[0])
    BY <1>1, <1>4, Counts, BlkQueues DEF AskedInv
  <2>2. QED  BY <2>1
<1>6. /\ Len(asked') = k /\ asked'[k] = r
      /\ \A j \in 1 .. Len(asked) : asked'[j] = asked[j]
  BY <1>1, <1>3, <1>5, AppendFacts
<1>7. Applied' = Applied /\ Applied \in Nat /\ Applied <= Len(asked) /\ Len(served[0]) <= Len(asked)
      /\ Len(served[0]) \in Nat
  <2>1. Applied' = Applied
    BY <1>4 DEF Applied
  <2>2. Applied \in Nat /\ Applied <= Len(asked) /\ Len(served[0]) \in Nat
    BY AppliedFacts
  <2>3. Len(served[0]) <= Len(submitted[0]) /\ Len(submitted[0]) = Len(asked)
    BY <1>1, <1>4, Counts, BlkQueues DEF AskedInv
  <2>4. QED  BY <2>1, <2>2, <2>3
<1>8. /\ m \in {2, 3} /\ c[1] \in DescIds /\ 2 \in 2 .. m /\ c[2] \in DescIds
      /\ \A i \in 1 .. m : c[i] \in DescIds \ Busy(0)
  <2>1. c[1] \in DescIds /\ \A i \in 1 .. m : c[i] \in DescIds \ Busy(0)
    BY BlkQueues, ChainFacts
  <2>2. m \in {2, 3}
    BY <1>3
  <2> HIDE DEF m
  <2>3. 2 \in 1 .. m /\ 2 \in 2 .. m
    BY <2>2
  <2>4. QED  BY <2>1, <2>2, <2>3
<1>9. AskedInv'
  <2>1. filled'[0] = c[1] /\ c[1] # NoDesc
    <3>1. filled \in [Queues -> DescIds \cup {NoDesc}]
      BY <1>1 DEF TypeOK
    <3>2. NoDesc \notin DescIds
      BY Sizes DEF NoDesc, DescIds
    <3>3. QED  BY <1>4, <1>8, <3>1, <3>2, BlkQueues
  <2>2. QED  BY <1>4, <1>6, <2>1 DEF AskedInv
<1>10. ASSUME NEW j \in Nat, j <= Len(asked), NEW z
       PROVE  Data(asked', j, z) = Data(asked, j, z)
  <2>1. \A i \in 1 .. j : asked'[i] = asked[i]
    BY <1>5, <1>6, <1>10
  <2>2. QED  BY <2>1, DataSame
<1>11. DiskCurrent'
  BY <1>1, <1>3, <1>4, <1>7, <1>10, DiskData
<1>12. HandInv'
  <2> DEFINE h == Len(served[0]) + 1
  <2>1. CASE pc = "walk"
    <3>1. h \in Live(0)
      BY <2>1, HandFacts
    <3>2. h \in 1 .. Len(asked)
      BY <3>1, AskedFacts
    <3>3. asked'[h] = asked[h]
      BY <1>6, <3>2
    <3>4. QED  BY <1>1, <1>3, <1>4, <2>1, <3>3 DEF HandInv
  <2>2. CASE pc # "walk"
    BY <1>1, <1>3, <1>4, <2>2 DEF HandInv
  <2>3. QED  BY <2>1, <2>2
<1>13. LiveInv'
  <2> SUFFICES ASSUME NEW j \in Live(0)'
               PROVE  Held(hdr', buf', asked', Len(served[0]), Applied, j, ChainAt(0, j)')
    BY <1>4, <1>7 DEF LiveInv
  <2>1. CASE j \in Live(0) /\ ChainAt(0, j)' = ChainAt(0, j)
    <3> DEFINE d == ChainAt(0, j)
               l == Len(d)
    <3>1. /\ j \in Nat /\ j \in 1 .. Len(asked)
          /\ Held(hdr, buf, asked, Len(served[0]), Applied, j, d)
      BY <2>1, AskedFacts
    <3>2. /\ d[1] \in DescIds /\ d[2] \in DescIds /\ d[l] \in DescIds
          /\ d[1] \in Busy(0) /\ d[2] \in Busy(0) /\ d[l] \in Busy(0)
      BY <2>1, DataDescs
    <3> HIDE DEF d, l
    <3>3. hdr'[d[1]] = hdr[d[1]]
      <4>1. d[1] # c[1]
        BY <3>2, BlkQueues, ChainFacts
      <4>2. QED  BY <1>1, <1>3, <1>8, <3>2, <4>1
    <3>4. buf'[d[2]] = buf[d[2]] /\ buf'[d[l]] = buf[d[l]]
      <4>1. \A i \in 2 .. m : i \in 1 .. m
        BY <1>8
      <4> HIDE DEF m
      <4>2. \A i \in 2 .. m : c[i] # d[2] /\ c[i] # d[l]
        BY <1>8, <3>2, <4>1
      <4>3. QED  BY <1>3, <3>2, <4>2
    <3>5. asked'[j] = asked[j]
      BY <1>6, <3>1
    <3>6. Data(asked', j, asked[j].sector) = Data(asked, j, asked[j].sector)
      BY <1>5, <1>10, <3>1
    <3>7. Held(hdr', buf', asked', Len(served[0]), Applied, j, d)
      BY <3>1, <3>3, <3>4, <3>5, <3>6 DEF Held, l
    <3>8. QED  BY <2>1, <3>7 DEF d
  <2>2. CASE j = k /\ ChainAt(0, j)' = c
    <3>1. hdr'[c[1]] = r
      BY <1>1, <1>3, <1>8
    <3>2. r.type = "out" => buf'[c[2]] = k
      BY <1>3, <1>8
    <3>3. ~ (k <= Applied) /\ ~ (k <= Len(served[0]))
      <4> HIDE DEF k
      <4>1. QED  BY <1>5, <1>7
    <3> HIDE DEF k, m
    <3>4. Held(hdr', buf', asked', Len(served[0]), Applied, k, c)
      BY <1>3, <1>6, <3>1, <3>2, <3>3 DEF Held, m
    <3>5. QED  BY <2>2, <3>4
  <2>3. QED
    BY <1>1, <1>3, <2>1, <2>2, LiveFilled, BlkQueues
<1>14. QED  BY <1>9, <1>11, <1>12, <1>13 DEF BlkHeld


-----------------------------------------------------------------------------
(* The theorems *)

LEMMA BlkInvInit == BlkInit => BlkInv
<1> SUFFICES ASSUME BlkInit PROVE BlkInv
  OBVIOUS
<1>1. Init /\ DeviceInv
  BY DeviceInit DEF BlkInit
<1>2. /\ magic_value = TRUE /\ pc = "top" /\ op = NoOp /\ Len(asked) = 0 /\ asked = << >>
      /\ submitted[0] = << >> /\ served[0] = << >> /\ returned[0] = << >>
      /\ filled[0] = NoDesc
  BY <1>1, BlkQueues DEF BlkInit, Init
<1>3. Len(submitted[0]) = 0 /\ Len(served[0]) = 0 /\ Len(returned[0]) = 0
  BY <1>2
<1>4. BlkTypeOK
  <2>1. hdr \in [DescIds -> Requests \cup {NoOp, Zeros, Ones}]
    BY DEF BlkInit
  <2>2. buf \in [DescIds -> Int] /\ image \in [Sectors -> Int]
    BY DEF BlkInit, Blank, Original
  <2>3. asked \in Seq(Requests)
    BY <1>2
  <2>4. QED  BY <2>1, <2>2, <2>3 DEF BlkTypeOK
<1>5. ReqInv /\ ResetInv /\ AskedInv /\ HandInv
  BY <1>2, <1>3 DEF ReqInv, ResetInv, AskedInv, HandInv
<1>6. LiveInv
  <2>1. Live(0) = {}
    BY <1>2, <1>3 DEF Live
  <2>2. QED  BY <2>1 DEF LiveInv
<1>7. DiskCurrent
  <2>1. Applied = 0
    BY <1>2, <1>3 DEF Applied
  <2>2. \A s : Data(asked, 0, s) = Original
    <3>1. \A s : Writes(asked, 0, s) = {}
      BY DEF Writes
    <3>2. QED  BY <3>1 DEF Data, Latest
  <2>3. \A s \in Sectors : image[s] = Original
    BY DEF BlkInit
  <2>4. QED  BY <2>1, <2>2, <2>3, DiskData
<1>8. QED  BY <1>1, <1>4, <1>5, <1>6, <1>7 DEF BlkInv

LEMMA BlkInvStep == BlkInv /\ [BlkNext]_<<vars, blkvars>> => BlkInv'
<1> SUFFICES ASSUME BlkInv, [BlkNext]_<<vars, blkvars>> PROVE BlkInv'
  OBVIOUS
<1>1. DeviceInv' /\ BlkTypeOK' /\ ReqInv' /\ ResetInv'
  BY BlkDeviceStep, BlkTypeStep, ReqStep, ResetStep
<1>2. ASSUME ~ magic_value'
      PROVE  BlkHeld'
  BY <1>2 DEF BlkHeld, AskedInv, LiveInv, HandInv, DiskCurrent
<1>3. ASSUME magic_value'
      PROVE  BlkHeld'
  <2>1. [Next]_vars /\ magic_value /\ TypeOK
    BY <1>3, BlkStepIsStep, MagicKept DEF BlkInv, DeviceInv, QueueInv
  <2>2. ~ BlkWalkZeroed
    BY <2>1, CopyHasNext, CopyEntered DEF BlkWalkZeroed
  <2>3. ~ BlkReset
    BY <1>3 DEF BlkReset, ChipReset
  <2>4. CASE BlkWalkStart
    BY <2>1, <2>4, StartHeld
  <2>5. CASE BlkRead
    BY <2>1, <2>5, ReadHeld
  <2>6. CASE BlkWalkData
    BY <2>1, <2>6, DataHeld
  <2>7. CASE BlkWalkLast
    BY <2>1, <2>7, LastHeld
  <2>8. CASE BlkQuiet
    BY <2>1, <2>8, QuietHeld
  <2>9. ASSUME NEW c \in Chains(0), NEW r \in Requests, BlkFill(r, c)
        PROVE  BlkHeld'
    BY <2>1, <2>9, FillHeld
  <2>10. QED
    BY <2>1, <2>2, <2>3, <2>4, <2>5, <2>6, <2>7, <2>8, <2>9, BlkFrame
<1>4. BlkHeld'
  BY <1>2, <1>3
<1>5. QED  BY <1>1, <1>4 DEF BlkInv, BlkHeld

LEMMA BlkInvariant == BlkSpec => []BlkInv
<1>1. BlkInit => BlkInv
  BY BlkInvInit
<1>2. BlkInv /\ [BlkNext]_<<vars, blkvars>> => BlkInv'
  BY BlkInvStep
<1>3. QED  BY <1>1, <1>2, PTL DEF BlkSpec

\* The walk over a block request makes each handler call once, in order
\* (virtiodevice.hpp:325-352), the dispatch and the copy being steps of their own.
THEOREM BlkWalkSafety == BlkSpec => []WalkComplete
<1>1. BlkInv => WalkComplete
  BY ChainWalked DEF BlkInv, DeviceInv
<1>2. QED  BY <1>1, BlkInvariant, PTL

\* While the chip is up the image holds what the requests carried out so far
\* make of it, in the order of submission (disk.hpp:86-118).
THEOREM DiskSafety == BlkSpec => []DiskCurrent
<1>1. BlkInv => DiskCurrent
  BY DEF BlkInv
<1>2. QED  BY <1>1, BlkInvariant, PTL

\* A request handed back to the driver has its status, and a read the contents
\* of its sector when its turn came, until the driver takes it.
THEOREM ReadSafety == BlkSpec => []ReadsRight
<1>1. BlkInv => ReadsRight
  <2> SUFFICES ASSUME BlkInv, magic_value, NEW k \in Len(returned[0]) + 1 .. Handed(0)
               PROVE  LET c == chain[0][submitted[0][k]]
                      IN  /\ buf[c[Len(c)]] = StatusOk
                          /\ asked[k].type = "in" => buf[c[2]] = Contents(k, asked[k].sector)
    BY DEF ReadsRight
  <2>1. QueueInv
    BY DEF BlkInv, DeviceInv
  <2>2. /\ Len(returned[0]) \in Nat /\ Handed(0) \in Nat /\ Handed(0) <= Len(served[0])
        /\ Len(served[0]) \in Nat /\ Len(served[0]) <= Len(submitted[0])
        /\ Len(submitted[0]) \in Nat
    BY <2>1, Counts, BlkQueues
  <2>3. k \in Nat /\ k > Len(returned[0]) /\ k <= Len(submitted[0]) /\ k <= Len(served[0])
    BY <2>2
  <2>4. k \in Live(0)
    BY <2>1, <2>3, LiveFacts, BlkQueues
  <2>5. ChainAt(0, k) = chain[0][submitted[0][k]]
    BY <2>3 DEF ChainAt, HeadOf
  <2>6. Held(hdr, buf, asked, Len(served[0]), Applied, k, ChainAt(0, k))
    BY <2>4, AskedFacts
  <2>7. k <= Applied
    <3> DEFINE n == Len(served[0])
    <3>1. Applied = n + 0 \/ Applied = n + 1
      BY DEF Applied
    <3>2. n \in Nat /\ k \in Nat /\ k <= n
      BY <2>2, <2>3
    <3> HIDE DEF n
    <3>3. QED  BY <3>1, <3>2
  <2>8. QED  BY <2>3, <2>5, <2>6, <2>7, ContentsData DEF Held
<1>2. QED  BY <1>1, BlkInvariant, PTL

\* After a chip reset the thread overwrites at most one more sector, and only
\* when it had read that the request is a write: the sector asked for, or the
\* first one if it had not read the sector yet (disk.hpp:117-123).
THEOREM ResetSafety == BlkSpec => []ResetSparesImage
<1>1. BlkInv => ResetSparesImage
  BY DEF BlkInv, ResetInv, ResetSparesImage
<1>2. QED  BY <1>1, BlkInvariant, PTL

=============================================================================
