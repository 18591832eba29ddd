-------------------------- MODULE VirtioNet_proofs --------------------------
(***************************************************************************)
(* The network device of console/network.hpp, for every queue size, every  *)
(* number of requests and of packets: it is a device loop, so that what    *)
(* VirtioDevice_proofs establishes holds of it, and the packets that go    *)
(* through its two queues are the right ones.                              *)
(***************************************************************************)
EXTENDS VirtioNet, VirtioDevice_proofs

NetTypeOK ==
    /\ header_processed \in BOOLEAN
    /\ slirp_in \in Seq(Nat)
    /\ buf \in [Queues -> [DescIds -> Nat]]
    /\ wire \in Seq([packet : Nat, excess : Nat])
    /\ arrived \in Nat /\ received \in Seq(Nat)

\* The descriptor that holds the packet of the k-th request of a queue.
LastDesc(q, k) == ChainAt(q, k)[Len(ChainAt(q, k))]

\* A packet to send is in its descriptor until it is sent; a packet received is
\* in its descriptor until the driver takes it.
BufInv ==
    magic_value =>
        /\ \A k \in Live(Tx) : k > Len(served[Tx]) => buf[Tx][LastDesc(Tx, k)] = k
        /\ \A k \in Live(Rx) : k <= Len(served[Rx]) => buf[Rx][LastDesc(Rx, k)] = k

\* What slirp has ready is what arrived and is not received; the thread enters
\* a receive request only if there is something.
SlirpInv ==
    magic_value =>
        /\ Len(served[Rx]) + Len(slirp_in) = arrived
        /\ \A i \in 1 .. Len(slirp_in) : slirp_in[i] = Len(served[Rx]) + i
        /\ queue_idx = Rx /\ pc \in {"fetch", "walk"} => Len(slirp_in) > 0

\* What the driver has received is what it has taken from the receive queue.
ReceivedInv ==
    /\ \A k \in 1 .. Len(received) : received[k] = k
    /\ magic_value => Len(received) = Len(returned[Rx])

NetInv ==
    /\ DeviceInv /\ NetTypeOK
    /\ HeaderOwn /\ SendsAll
    /\ BufInv /\ SlirpInv /\ ReceivedInv

-----------------------------------------------------------------------------
(* The network device is a device loop *)

LEMMA NetQueues == Queues = {Rx, Tx} /\ Rx \in Queues /\ Tx \in Queues /\ Rx # Tx
BY NetAssumption DEF Queues, Rx, Tx

LEMMA NetStepIsStep == [NetNext]_netall => [Next]_vars
<1> SUFFICES ASSUME [NetNext]_netall PROVE [Next]_vars
  OBVIOUS
<1>1. CASE net_loop
  <2>1. device_loop
    BY <1>1 DEF net_loop, NetPollIdle, NetPollBusy, NetWalkNext, NetWalkLast, NetOther,
       device_loop
  <2>2. QED  BY <2>1 DEF Next
<1>2. CASE NetIrq
  <2>1. IrqHandler
    BY <1>2 DEF NetIrq, NetTake, IrqHandler
  <2>2. QED  BY <2>1 DEF Next, Guest
<1>3. CASE PacketArrives \/ UNCHANGED netall
  BY <1>3 DEF PacketArrives, netall
<1>4. CASE NetReset
  BY <1>4 DEF NetReset, Next
<1>5. CASE \E q \in Queues : \E n \in 1 .. 2 : \E c \in LowChains(q, n) : NetFill(q, c)
  <2>1. PICK q \in Queues, n \in 1 .. 2 : \E c \in LowChains(q, n) : NetFill(q, c)
    BY <1>5
  <2> PICK c \in LowChains(q, n) : NetFill(q, c)
    BY <2>1
  <2>2. c \in Chains(q) /\ DriverFill(q, c)
    BY <2>1, LowChainsFree DEF NetFill
  <2>3. QED  BY <2>2 DEF Next, Guest
<1>6. CASE SetExit \/ \E q \in Queues : DriverPublish(q)
  BY <1>6 DEF Next, Guest
<1>7. QED
  BY <1>1, <1>2, <1>3, <1>4, <1>5, <1>6 DEF NetNext

\* Every behaviour of the network device is one of the device loop and a driver
\* (network.hpp only overrides the handlers).
THEOREM NetIsDevice == NetSpec => Init /\ [][Next]_vars
<1>1. NetInit => Init
  BY DEF NetInit
<1>2. [NetNext]_netall => [Next]_vars
  BY NetStepIsStep
<1>3. QED  BY <1>1, <1>2, PTL DEF NetSpec

LEMMA NetDevice == NetSpec => []DeviceInv
<1>1. Init => DeviceInv
  BY DeviceInit
<1>2. DeviceInv /\ [Next]_vars => DeviceInv'
  BY DeviceStep
<1>3. QED  BY <1>1, <1>2, NetIsDevice, PTL

\* No used entry of either queue is left without an interrupt that the driver
\* heeds (virtiodevice.hpp:185-230), whatever slirp does.
THEOREM NetWakeupSafety == NetSpec => []NoLostWakeup
<1>1. DeviceInv => NoLostWakeup
  BY DEF DeviceInv
<1>2. QED  BY <1>1, NetDevice, PTL

\* The receive and the send queue each process at most one request that the
\* memory of a reset chip shows (virtiodevice.hpp:300-310).
THEOREM NetStaleSafety == NetSpec => []StaleBounded
<1>1. DeviceInv => StaleBounded
  BY DEF DeviceInv, StaleInv
<1>2. QED  BY <1>1, NetDevice, PTL


-----------------------------------------------------------------------------
(* Types *)

\* What the handlers leave of the device's variables, and what they read.
LEMMA NetWalkNextFacts ==
    ASSUME TypeOK, NetWalkNext
    PROVE  /\ pc = "walk" /\ pc' = "walk" /\ CurrentDesc.next # NoNext
           /\ HandlerOfNext \in {"start", "data"} /\ desc_idx % QueueSize \in DescIds
           /\ calls' = IF magic_value
                       THEN Append(calls, <<HandlerOfNext, desc_idx % QueueSize>>) ELSE calls
           /\ header_processed' = (header_processed \/ HandlerOfNext = "start")
           /\ UNCHANGED <<magic_value, queue_idx, chain, submitted, served, returned, filled>>
           /\ UNCHANGED <<slirp_in, buf, wire, arrived, received>>
<1>1. /\ pc = "walk" /\ CurrentDesc.next # NoNext
      /\ Called(HandlerOfNext)
      /\ UNCHANGED <<pc, magic_value, queue_idx, chain, submitted, served, returned, filled>>
      /\ header_processed' = (header_processed \/ HandlerOfNext = "start")
      /\ UNCHANGED <<slirp_in, buf, wire, arrived, received>>
  BY DEF NetWalkNext, WalkNext, regs, driver, history
<1>2. HandlerOfNext \in {"start", "data"}
  BY DEF HandlerOfNext
<1>3. desc_idx % QueueSize \in DescIds
  BY IncrType DEF TypeOK
<1>4. QED  BY <1>1, <1>2, <1>3 DEF Called

\* The descriptor the driver takes a packet from is the last one of the oldest
\* request that was handed back.
LEMMA TakenDesc ==
    ASSUME DeviceInv, NEW q \in Queues, NetTake(q)
    PROVE  LET c == chain[q][used_ring[q][last_used[q] % QueueSize]]
               k == Len(returned[q]) + 1
           IN  /\ magic_value
               /\ k \in Live(q) /\ k \in Nat /\ k <= Len(served[q])
               /\ c[Len(c)] = LastDesc(q, k) /\ LastDesc(q, k) \in DescIds
               /\ Len(returned'[q]) = k
<1> DEFINE k == Len(returned[q]) + 1
           h == used_ring[q][last_used[q] % QueueSize]
<1>1. /\ magic_value /\ last_used[q] # used_idx[q]
      /\ returned' = [returned EXCEPT ![q] = Append(returned[q], h)]
  BY DEF NetTake, DriverTake
<1>2. QueueInv /\ ChainInv /\ TypeOK
  BY DEF DeviceInv, QueueInv
<1>3. k \in Live(q) /\ k \in Nat /\ k <= Handed(q) /\ HeadOf(q, k) = h
  BY <1>1, <1>2, TakenHead
<1>4. Handed(q) <= Len(served[q]) /\ Handed(q) \in Nat /\ Len(served[q]) \in Nat
  BY <1>1, <1>2, Counts
<1>5. chain[q][h] = ChainAt(q, k)
  BY <1>3 DEF ChainAt
<1>6. LastDesc(q, k) \in DescIds
  BY <1>1, <1>2, <1>3, LiveDescs DEF LastDesc
<1>7. Len(returned'[q]) = k
  <2>1. returned \in [Queues -> Seq(DescIds)] /\ h \in DescIds
    BY <1>1, <1>2, UsedEntry DEF TypeOK
  <2>2. returned'[q] = Append(returned[q], h) /\ returned[q] \in Seq(DescIds)
    BY <1>1, <2>1
  <2>3. QED  BY <2>1, <2>2, AppendFacts
<1> HIDE DEF k
<1>8. k <= Len(served[q])
  BY <1>3, <1>4
<1>9. QED
  BY <1>1, <1>3, <1>5, <1>6, <1>7, <1>8 DEF LastDesc, k

LEMMA NetTypeStep ==
    ASSUME DeviceInv, NetTypeOK, [NetNext]_netall
    PROVE  NetTypeOK'
<1> TypeOK
  BY DEF DeviceInv, QueueInv
<1>1. /\ header_processed \in BOOLEAN
      /\ slirp_in \in Seq(Nat)
      /\ buf \in [Queues -> [DescIds -> Nat]]
      /\ wire \in Seq([packet : Nat, excess : Nat])
      /\ arrived \in Nat /\ received \in Seq(Nat)
  BY DEF NetTypeOK
<1>2. CASE UNCHANGED netvars
  BY <1>1, <1>2 DEF netvars, NetTypeOK
<1>3. CASE NetWalkNext
  BY <1>1, <1>3, NetWalkNextFacts DEF NetTypeOK
<1>4. CASE NetWalkLast
  <2> DEFINE d == desc_idx % QueueSize
             m == [packet |-> buf[Tx][d], excess |-> Excess]
  <2>1. d \in DescIds
    BY IncrType DEF TypeOK
  <2>2. header_processed' = FALSE /\ UNCHANGED <<arrived, received>>
    BY <1>4 DEF NetWalkLast, FlagAfter
  <2>3. CASE Receive(d) /\ UNCHANGED wire
    <3>1. CASE slirp_in = << >>
      BY <1>1, <2>2, <2>3, <3>1 DEF Receive, NetTypeOK
    <3>2. CASE slirp_in # << >>
      <4>1. /\ buf' = [buf EXCEPT ![Rx][d] = Head(slirp_in)]
            /\ slirp_in' = Tail(slirp_in)
        BY <2>3, <3>2 DEF Receive
      <4>2. Head(slirp_in) \in Nat /\ Tail(slirp_in) \in Seq(Nat)
        BY <1>1, <3>2
      <4>3. buf' \in [Queues -> [DescIds -> Nat]]
        BY <1>1, <2>1, <4>1, <4>2
      <4>4. QED  BY <1>1, <2>2, <2>3, <4>1, <4>2, <4>3 DEF NetTypeOK
    <3>3. QED  BY <3>1, <3>2
  <2>4. CASE Sent(d) /\ UNCHANGED <<buf, slirp_in>>
    <3>1. m \in [packet : Nat, excess : Nat]
      <4>1. Excess \in Nat
        BY BoundAssumption DEF Excess
      <4>2. buf[Tx][d] \in Nat
        BY <1>1, <2>1, NetQueues
      <4>3. QED  BY <4>1, <4>2
    <3>2. wire' \in Seq([packet : Nat, excess : Nat])
      BY <1>1, <2>4, <3>1, AppendFacts DEF Sent
    <3>3. QED  BY <1>1, <2>2, <2>4, <3>2 DEF NetTypeOK
  <2>5. QED  BY <1>4, <2>3, <2>4 DEF NetWalkLast
<1>5. CASE PacketArrives
  <2>1. arrived' \in Nat /\ slirp_in' \in Seq(Nat)
    BY <1>1, <1>5, AppendFacts DEF PacketArrives
  <2>2. UNCHANGED <<header_processed, buf, wire, received>>
    BY <1>5 DEF PacketArrives
  <2>3. QED  BY <1>1, <2>1, <2>2 DEF NetTypeOK
<1>6. ASSUME NEW q \in Queues, NEW n \in 1 .. 2, NEW c \in LowChains(q, n), NetFill(q, c)
      PROVE  NetTypeOK'
  <2> DEFINE v == IF q = Tx THEN Len(submitted[Tx]) + 1 ELSE NoPacket
  <2>1. /\ buf' = [buf EXCEPT ![q][c[Len(c)]] = v]
        /\ UNCHANGED <<header_processed, slirp_in, wire, arrived, received>>
    BY <1>6 DEF NetFill
  <2>2. v \in Nat
    <3>1. submitted[Tx] \in Seq(DescIds)
      BY NetQueues DEF TypeOK
    <3>2. Len(submitted[Tx]) \in Nat
      BY <3>1
    <3>3. QED  BY <3>2 DEF NoPacket
  <2> HIDE DEF v
  <2>3. buf' \in [Queues -> [DescIds -> Nat]]
    BY <1>1, <2>1, <2>2
  <2>4. QED  BY <1>1, <2>1, <2>3 DEF NetTypeOK
<1>7. ASSUME NEW q \in Queues, NetTake(q)  PROVE NetTypeOK'
  <2> DEFINE c == chain[q][used_ring[q][last_used[q] % QueueSize]]
  <2>1. /\ received' = IF q = Rx THEN Append(received, buf[q][c[Len(c)]]) ELSE received
        /\ UNCHANGED <<header_processed, slirp_in, buf, wire, arrived>>
    BY <1>7 DEF NetTake
  <2>2. c[Len(c)] \in DescIds
    BY <1>7, TakenDesc
  <2>3. received' \in Seq(Nat)
    <3> DEFINE p == buf[q][c[Len(c)]]
    <3>1. p \in Nat
      BY <1>1, <2>2
    <3>2. received \in Seq(Nat)
      BY <1>1
    <3>3. received' = IF q = Rx THEN Append(received, p) ELSE received
      BY <2>1
    <3> HIDE DEF p
    <3>4. Append(received, p) \in Seq(Nat)
      BY <3>1, <3>2, AppendFacts
    <3>5. QED  BY <3>2, <3>3, <3>4
  <2>4. QED  BY <1>1, <2>1, <2>3 DEF NetTypeOK
<1>8. CASE NetReset
  <2>1. buf' = [q \in Queues |-> [d \in DescIds |-> NoPacket]] /\ NoPacket \in Nat
    BY <1>8 DEF NetReset, NoPacket
  <2>2. UNCHANGED <<header_processed, slirp_in, wire, arrived, received>>
    BY <1>8 DEF NetReset
  <2>3. QED  BY <1>1, <2>1, <2>2 DEF NetTypeOK
<1>9. QED
  BY <1>2, <1>3, <1>4, <1>5, <1>6, <1>7, <1>8
  DEF NetNext, net_loop, NetPollIdle, NetPollBusy, NetOther, NetIrq, netall


-----------------------------------------------------------------------------
(* The header flag *)

LEMMA HeaderStep ==
    ASSUME TypeOK, NetTypeOK, HeaderOwn, [NetNext]_netall
    PROVE  HeaderOwn'
<1> DEFINE Given == \E i \in 1 .. Len(calls) : calls[i][1] = "start"
<1>1. CASE NetWalkNext
  <2> DEFINE e == <<HandlerOfNext, desc_idx % QueueSize>>
  <2>1. /\ pc = "walk" /\ pc' = "walk" /\ magic_value' = magic_value
        /\ HandlerOfNext \in {"start", "data"} /\ desc_idx % QueueSize \in DescIds
        /\ calls' = IF magic_value THEN Append(calls, e) ELSE calls
        /\ header_processed' = (header_processed \/ HandlerOfNext = "start")
    BY <1>1, NetWalkNextFacts
  <2>2. e \in Handlers \X DescIds /\ e[1] = HandlerOfNext
    BY <2>1 DEF Handlers
  <2> HIDE DEF e
  <2>3. CASE magic_value
    <3>1. calls \in Seq(Handlers \X DescIds) /\ calls' = Append(calls, e)
      BY <2>1, <2>3 DEF TypeOK
    <3> DEFINE n == Len(calls)
    <3>2. /\ Len(calls') = n + 1 /\ calls'[n + 1] = e
          /\ \A k \in 1 .. n : calls'[k] = calls[k]
      BY <2>2, <3>1, AppendFacts
    <3>3. n \in Nat
      BY <3>1
    <3> HIDE DEF n
    <3>4. 1 .. n + 1 = (1 .. n) \cup {n + 1}
      BY <3>3
    <3>5. Given' <=> Given \/ HandlerOfNext = "start"
      <4>1. Given <=> \E i \in 1 .. n : calls[i][1] = "start"
        BY DEF n
      <4>2. Given' <=> \E i \in 1 .. n + 1 : calls'[i][1] = "start"
        BY <3>2
      <4> HIDE DEF Given
      <4>3. QED  BY <2>2, <3>2, <3>4, <4>1, <4>2
    <3> HIDE DEF Given
    <3>6. header_processed <=> Given
      BY <2>1, <2>3 DEF HeaderOwn, Given
    <3>7. header_processed' <=> (pc' = "walk" /\ Given')
      BY <2>1, <3>5, <3>6
    <3>8. QED  BY <3>7 DEF HeaderOwn, Given
  <2>4. CASE ~ magic_value
    BY <2>1, <2>4 DEF HeaderOwn
  <2>5. QED  BY <2>3, <2>4
<1>2. CASE NetWalkLast
  BY <1>2 DEF NetWalkLast, WalkLast, FlagAfter, HeaderOwn
<1>3. CASE /\ LoopReturn \/ LoopEnter \/ PollIdle \/ PollBusy
              \/ UsedWrite \/ UsedPublish \/ SetStatus \/ Pulse
           /\ UNCHANGED netvars
  <2>1. pc # "walk" /\ pc' # "walk" /\ magic_value' = magic_value
        /\ header_processed' = header_processed
    BY <1>3 DEF LoopReturn, LoopEnter, PollIdle, PollBusy, NextQueue, UsedWrite, UsedPublish,
       SetStatus, Pulse, regs, netvars
  <2>2. QED  BY <2>1 DEF HeaderOwn
<1>4. CASE Fetch /\ UNCHANGED netvars
  <2>1. pc = "fetch" /\ calls' = << >> /\ magic_value' = magic_value
        /\ header_processed' = header_processed
    BY <1>4 DEF Fetch, regs, netvars
  <2>2. ~ Given'
    BY <2>1
  <2>3. QED  BY <2>1, <2>2 DEF HeaderOwn
<1>5. CASE Crash
  BY <1>5 DEF Crash, regs, HeaderOwn
<1>6. CASE UNCHANGED <<pc, calls, header_processed, magic_value>>
  BY <1>6 DEF HeaderOwn
<1>7. ASSUME \/ NetIrq \/ PacketArrives \/ UNCHANGED netall
             \/ \E q \in Queues : \E n \in 1 .. 2 : \E c \in LowChains(q, n) : NetFill(q, c)
             \/ (SetExit \/ \E q \in Queues : DriverPublish(q)) /\ UNCHANGED netvars
      PROVE  UNCHANGED <<pc, calls, header_processed, magic_value>>
  <2>1. CASE NetIrq
    BY <2>1 DEF NetIrq, NetTake, DriverTake, DriverClaim, DriverCheckStatus, DriverDrained,
       regs, request, netvars
  <2>2. CASE \E q \in Queues : \E n \in 1 .. 2 : \E c \in LowChains(q, n) : NetFill(q, c)
    BY <2>2 DEF NetFill, DriverFill, regs, request
  <2>3. CASE (SetExit \/ \E q \in Queues : DriverPublish(q)) /\ UNCHANGED netvars
    BY <2>3 DEF SetExit, DriverPublish, regs, request, netvars
  <2>4. CASE PacketArrives \/ UNCHANGED netall
    BY <2>4 DEF PacketArrives, netall, netvars, vars, regs, request
  <2>5. QED  BY <1>7, <2>1, <2>2, <2>3, <2>4
<1>8. CASE NetReset
  BY <1>8 DEF NetReset, ChipReset, HeaderOwn
<1>9. CASE net_loop
  BY <1>9, <1>1, <1>2, <1>3, <1>4, <1>5 DEF net_loop, NetPollIdle, NetPollBusy, NetOther
<1>10. QED
  BY <1>6, <1>7, <1>8, <1>9 DEF NetNext

LEMMA NetTypeInit == NetInit => NetTypeOK /\ HeaderOwn
<1> SUFFICES ASSUME NetInit PROVE NetTypeOK /\ HeaderOwn
  OBVIOUS
<1>1. NetTypeOK
  <2>1. buf \in [Queues -> [DescIds -> Nat]]
    BY DEF NetInit, NoPacket
  <2>2. /\ header_processed = FALSE /\ slirp_in = << >> /\ wire = << >>
        /\ arrived = 0 /\ received = << >>
    BY DEF NetInit
  <2>3. << >> \in Seq([packet : Nat, excess : Nat]) /\ << >> \in Seq(Nat)
    OBVIOUS
  <2>4. QED  BY <2>1, <2>2, <2>3 DEF NetTypeOK
<1>2. HeaderOwn
  BY DEF NetInit, Init, HeaderOwn
<1>3. QED  BY <1>1, <1>2

\* No request inherits the header of another, of either queue, through the flag
\* that both share (network.hpp:80-115).
THEOREM HeaderSafety == NetSpec => []HeaderOwn
<1>1. NetInit => NetTypeOK /\ HeaderOwn
  BY NetTypeInit
<1>2. DeviceInv /\ NetTypeOK /\ HeaderOwn /\ [NetNext]_netall => NetTypeOK' /\ HeaderOwn'
  BY NetTypeStep, HeaderStep DEF DeviceInv, QueueInv
<1>3. QED  BY <1>1, <1>2, NetDevice, PTL DEF NetSpec


-----------------------------------------------------------------------------
(* The packets *)

\* What a step does that moves no packet and hands none over.
NetQuiet ==
    /\ UNCHANGED <<wire, served, returned, buf, slirp_in, arrived, received>>
    /\ \A q \in Queues : filled'[q] \in {filled[q], NoDesc}
    /\ pc' \in {"used", "publish"} =>
          pc \in {"used", "publish"} /\ UNCHANGED <<queue_idx, calls>>
    /\ pc' \in {"fetch", "walk"} => pc \in {"fetch", "walk"} /\ UNCHANGED queue_idx

LEMMA NetFrame ==
    ASSUME TypeOK, [NetNext]_netall, magic_value'
    PROVE  \/ NetWalkLast \/ PacketArrives \/ NetPollBusy \/ NetQuiet
           \/ \E q \in Queues : NetTake(q)
           \/ \E q \in Queues : \E c \in Chains(q) : NetFill(q, c)
<1>1. CASE NetWalkNext
  BY <1>1 DEF NetWalkNext, WalkNext, driver, history, NetQuiet
<1>2. CASE NetPollIdle
  BY <1>2 DEF NetPollIdle, PollIdle, NextQueue, driver, history, request, netvars, NetQuiet
<1>3. CASE NetOther
  <2>1. CASE LoopReturn \/ LoopEnter
    BY <1>3, <2>1 DEF NetOther, LoopReturn, LoopEnter, driver, history, netvars, NetQuiet
  <2>2. CASE Fetch \/ UsedWrite \/ UsedPublish
    BY <1>3, <2>2 DEF NetOther, Fetch, UsedWrite, UsedPublish, driver, history, request,
       netvars, NetQuiet
  <2>3. CASE SetStatus \/ Pulse \/ Crash
    BY <1>3, <2>3 DEF NetOther, SetStatus, Pulse, Crash, NextQueue, driver, history, netvars,
       NetQuiet
  <2>4. QED  BY <1>3, <2>1, <2>2, <2>3 DEF NetOther
<1>4. CASE NetIrq
  <2>1. CASE DriverClaim /\ UNCHANGED netvars
    BY <2>1 DEF DriverClaim, history, request, netvars, NetQuiet
  <2>2. CASE DriverCheckStatus /\ UNCHANGED netvars
    BY <2>2 DEF DriverCheckStatus, history, request, netvars, NetQuiet
  <2>3. CASE (\E q \in Queues : DriverDrained(q)) /\ UNCHANGED netvars
    BY <2>3 DEF DriverDrained, history, request, netvars, NetQuiet
  <2>4. QED  BY <1>4, <2>1, <2>2, <2>3 DEF NetIrq
<1>5. CASE \E q \in Queues : \E n \in 1 .. 2 : \E c \in LowChains(q, n) : NetFill(q, c)
  BY <1>5, LowChainsFree
<1>6. CASE SetExit /\ UNCHANGED netvars
  BY <1>6 DEF SetExit, driver, history, request, netvars, NetQuiet
<1>7. CASE (\E q \in Queues : DriverPublish(q)) /\ UNCHANGED netvars
  <2>1. PICK p \in Queues : DriverPublish(p)
    BY <1>7
  <2>2. /\ filled' = [filled EXCEPT ![p] = NoDesc]
        /\ UNCHANGED <<pc, queue_idx, calls, served, returned>>
    BY <2>1 DEF DriverPublish, request
  <2>3. \A q \in Queues : filled'[q] \in {filled[q], NoDesc}
    BY <2>2 DEF TypeOK
  <2>4. QED  BY <1>7, <2>2, <2>3 DEF netvars, NetQuiet
<1>8. CASE NetReset
  BY <1>8 DEF NetReset, ChipReset
<1>9. CASE UNCHANGED netall
  BY <1>9 DEF netall, vars, netvars, driver, history, request, NetQuiet
<1>10. QED
  BY <1>1, <1>2, <1>3, <1>4, <1>5, <1>6, <1>7, <1>8, <1>9 DEF NetNext, net_loop

\* The descriptor of a packet belongs to its request alone.
LEMMA LastDescFacts ==
    ASSUME QueueInv, ChainInv, magic_value, NEW q \in Queues, NEW k \in Live(q)
    PROVE  /\ LastDesc(q, k) \in DescIds /\ LastDesc(q, k) \in Busy(q)
           /\ \A j \in Live(q) : j # k => LastDesc(q, j) # LastDesc(q, k)
<1>1. \A j \in Live(q) : Len(ChainAt(q, j)) \in 1 .. Len(ChainAt(q, j))
  BY LiveDescs
<1>2. LastDesc(q, k) \in DescIds /\ LastDesc(q, k) \in Busy(q)
  BY LiveDescs DEF LastDesc
<1>3. ASSUME NEW j \in Live(q), j # k  PROVE LastDesc(q, j) # LastDesc(q, k)
  BY <1>1, <1>3, LiveDisjoint DEF LastDesc
<1>4. QED  BY <1>2, <1>3


\* The steps that start or end the walk over a request.
LEMMA NetWalkLastFacts ==
    ASSUME DeviceInv, magic_value, NetWalkLast
    PROVE  LET q == queue_idx
               k == Len(served[q]) + 1
           IN  /\ q \in Queues /\ k \in Nat /\ k \in Live(q)
               /\ desc_idx % QueueSize = LastDesc(q, k)
               /\ Len(served'[q]) = k
               /\ \A p \in Queues \ {q} : served'[p] = served[p]
               /\ pc' = "used" /\ pc = "walk"
               /\ Len(calls) \in Nat /\ Len(calls') = Len(calls) + 1
               /\ Len(calls) > 0 => calls[1][1] = "start"
               /\ UNCHANGED <<queue_idx, filled, returned, arrived, received, magic_value>>
               /\ \/ q = Rx /\ Receive(desc_idx % QueueSize) /\ UNCHANGED wire
                  \/ q = Tx /\ Sent(desc_idx % QueueSize) /\ UNCHANGED <<buf, slirp_in>>
<1> DEFINE q == queue_idx
           k == Len(served[q]) + 1
           c == ChainAt(q, k)
<1>1. QueueInv /\ ChainInv /\ TypeOK
  BY DEF DeviceInv, QueueInv
<1>2. WalkLast
  BY DEF NetWalkLast
<1>3. /\ q \in Queues /\ k \in Nat /\ k \in Live(q)
      /\ desc_idx % QueueSize = c[Len(c)]
      /\ \A i \in 1 .. Len(calls) : calls[i] = <<IF i = 1 THEN "start" ELSE "data", c[i]>>
      /\ Len(calls') = Len(calls) + 1
      /\ Len(served'[q]) = k
      /\ \A p \in Queues \ {q} : served'[p] = served[p]
  BY <1>1, <1>2, CompleteAt
<1>4. Len(calls) \in Nat
  BY <1>1 DEF TypeOK
<1>5. Len(calls) > 0 => calls[1][1] = "start"
  <2>1. Len(calls) > 0 => 1 \in 1 .. Len(calls)
    BY <1>4
  <2>2. QED  BY <1>3, <2>1
<1>6. /\ pc' = "used" /\ pc = "walk"
      /\ UNCHANGED <<queue_idx, filled, returned, magic_value>>
  BY <1>2 DEF WalkLast, regs, driver
<1>7. UNCHANGED <<arrived, received>>
  BY DEF NetWalkLast
<1>8. \/ q = Rx /\ Receive(desc_idx % QueueSize) /\ UNCHANGED wire
      \/ q = Tx /\ Sent(desc_idx % QueueSize) /\ UNCHANGED <<buf, slirp_in>>
  BY DEF NetWalkLast
<1>9. QED
  BY <1>3, <1>4, <1>5, <1>6, <1>7, <1>8 DEF LastDesc

\* A send passes on the packet of the request whose turn it is, without the
\* bytes of a header that had a descriptor of its own.
LEMMA SendsStep ==
    ASSUME DeviceInv, NetTypeOK, HeaderOwn, SendsAll, BufInv, [NetNext]_netall
    PROVE  SendsAll'
<1> SUFFICES ASSUME magic_value' PROVE SendsAll'
  BY DEF SendsAll
<1>1. magic_value /\ TypeOK
  BY NetStepIsStep, MagicKept DEF DeviceInv, QueueInv
<1>2. /\ Len(wire) = Len(served[Tx])
      /\ \A k \in 1 .. Len(wire) : wire[k].packet = k
      /\ pc \in {"used", "publish"} /\ queue_idx = Tx /\ Len(calls) > 1
            => wire[Len(wire)].excess = 0
  BY <1>1 DEF SendsAll
<1>3. ASSUME UNCHANGED <<wire, served>>,
             pc' \in {"used", "publish"} =>
                pc \in {"used", "publish"} /\ UNCHANGED <<queue_idx, calls>>
      PROVE  SendsAll'
  BY <1>2, <1>3 DEF SendsAll
<1>4. CASE NetQuiet
  BY <1>3, <1>4 DEF NetQuiet
<1>5. CASE PacketArrives \/ NetPollBusy
  <2>1. UNCHANGED <<wire, served>> /\ (pc' \in {"used", "publish"} => UNCHANGED <<pc, queue_idx, calls>>)
    BY <1>5 DEF PacketArrives, NetPollBusy, PollBusy, vars, history, request, netvars
  <2>2. QED  BY <1>3, <2>1
<1>6. ASSUME NEW q \in Queues, NetTake(q) \/ \E c \in Chains(q) : NetFill(q, c)
      PROVE  SendsAll'
  <2>1. UNCHANGED <<wire, served, pc, queue_idx, calls>>
    BY <1>6 DEF NetTake, DriverTake, NetFill, DriverFill, history, request
  <2>2. QED  BY <1>3, <2>1
<1>7. CASE NetWalkLast
  <2> DEFINE k == Len(served[queue_idx]) + 1
             d == desc_idx % QueueSize
             e == [packet |-> buf[Tx][d], excess |-> Excess]
             n == Len(wire)
  <2>1. /\ queue_idx \in Queues /\ k \in Nat /\ k \in Live(queue_idx)
        /\ d = LastDesc(queue_idx, k) /\ Len(served'[queue_idx]) = k
        /\ \A p \in Queues \ {queue_idx} : served'[p] = served[p]
        /\ pc = "walk" /\ queue_idx' = queue_idx
        /\ Len(calls) \in Nat /\ Len(calls') = Len(calls) + 1
        /\ Len(calls) > 0 => calls[1][1] = "start"
        /\ \/ queue_idx = Rx /\ UNCHANGED wire
           \/ queue_idx = Tx /\ Sent(d)
    BY <1>1, <1>7, NetWalkLastFacts
  <2>2. CASE queue_idx = Rx
    <3>1. served'[Tx] = served[Tx] /\ queue_idx' # Tx /\ wire' = wire
      BY <2>1, <2>2, NetQueues
    <3>2. QED  BY <1>2, <3>1 DEF SendsAll
  <2>3. CASE queue_idx = Tx
    <3>1. wire' = Append(wire, e)
      BY <2>1, <2>3, NetQueues DEF Sent
    <3>2. e \in [packet : Nat, excess : Nat] /\ wire \in Seq([packet : Nat, excess : Nat])
      <4>1. Excess \in Nat
        BY BoundAssumption DEF Excess
      <4>2. d \in DescIds
        BY <1>1, IncrType DEF TypeOK
      <4>3. buf[Tx][d] \in Nat
        BY <4>2, NetQueues DEF NetTypeOK
      <4>4. QED  BY <4>1, <4>3 DEF NetTypeOK
    <3>3. /\ Len(wire') = n + 1 /\ wire'[n + 1] = e /\ n \in Nat
          /\ \A i \in 1 .. n : wire'[i] = wire[i]
      BY <3>1, <3>2, AppendFacts
    <3>4. n + 1 = k
      BY <1>2, <2>3
    <3>5. e.packet = k
      <4>1. buf[Tx][LastDesc(Tx, k)] = k
        <5>1. k > Len(served[Tx]) /\ k \in Live(Tx)
          BY <2>1, <2>3
        <5>2. QED  BY <1>1, <5>1 DEF BufInv
      <4>2. QED  BY <2>1, <2>3, <4>1
    <3>6. Len(calls') > 1 => e.excess = 0
      <4>1. Len(calls') > 1 => 1 \in 1 .. Len(calls) /\ calls[1][1] = "start"
        BY <2>1
      <4>2. Len(calls') > 1 => header_processed
        BY <1>1, <2>1, <4>1 DEF HeaderOwn
      <4>3. QED  BY <4>2 DEF Excess
    <3> HIDE DEF e, n, k
    <3>7. \A i \in 1 .. n + 1 : wire'[i].packet = i
      <4>1. \A i \in 1 .. n : wire[i].packet = i
        BY <1>2 DEF n
      <4>2. QED  BY <3>3, <3>4, <3>5, <4>1
    <3>8. Len(wire') = Len(served'[Tx])
      BY <2>1, <2>3, <3>3, <3>4
    <3>9. Len(calls') > 1 => wire'[Len(wire')].excess = 0
      BY <3>3, <3>6
    <3>10. QED  BY <3>3, <3>7, <3>8, <3>9 DEF SendsAll
  <2>4. QED  BY <2>1, <2>2, <2>3
<1>8. QED
  BY <1>1, <1>4, <1>5, <1>6, <1>7, NetFrame


\* The driver and the device write only into descriptors of their own request.
LEMMA BufStep ==
    ASSUME DeviceInv, NetTypeOK, BufInv, SlirpInv, [NetNext]_netall
    PROVE  BufInv'
<1> SUFFICES ASSUME magic_value', NEW q \in Queues, NEW k \in Live(q)',
                    IF q = Tx THEN k > Len(served'[q]) ELSE k <= Len(served'[q])
             PROVE  buf'[q][LastDesc(q, k)'] = k
  BY NetQueues DEF BufInv
<1>1. magic_value /\ QueueInv /\ ChainInv /\ TypeOK /\ [Next]_vars
  BY NetStepIsStep, MagicKept DEF DeviceInv, QueueInv
<1>2. ASSUME k \in Live(q), IF q = Tx THEN k > Len(served[q]) ELSE k <= Len(served[q])
      PROVE  buf[q][LastDesc(q, k)] = k
  BY <1>1, <1>2, NetQueues DEF BufInv
<1>3. ASSUME filled'[q] \in {filled[q], NoDesc}
      PROVE  k \in Live(q) /\ LastDesc(q, k)' = LastDesc(q, k)
  BY <1>1, <1>3, LiveKept DEF LastDesc
<1>4. CASE UNCHANGED <<buf, served>> /\ filled'[q] \in {filled[q], NoDesc}
  BY <1>2, <1>3, <1>4
<1>5. CASE NetQuiet
  BY <1>4, <1>5 DEF NetQuiet
<1>6. CASE PacketArrives \/ NetPollBusy
  <2>1. UNCHANGED <<buf, served, filled>>
    BY <1>6 DEF PacketArrives, NetPollBusy, PollBusy, vars, driver, history, netvars
  <2>2. QED  BY <1>4, <2>1
<1>7. ASSUME NEW p \in Queues, NetTake(p)  PROVE buf'[q][LastDesc(q, k)'] = k
  <2>1. UNCHANGED <<buf, served, filled>>
    BY <1>7 DEF NetTake, DriverTake
  <2>2. QED  BY <1>4, <2>1
<1>8. ASSUME NEW p \in Queues, NEW c \in Chains(p), NetFill(p, c)
      PROVE  buf'[q][LastDesc(q, k)'] = k
  <2> DEFINE d == c[Len(c)]
             v == IF p = Tx THEN Len(submitted[Tx]) + 1 ELSE NoPacket
  <2>1. /\ DriverFill(p, c) /\ served' = served
        /\ buf' = [buf EXCEPT ![p][d] = v]
    BY <1>8 DEF NetFill, DriverFill, history
  <2>2. d \in DescIds /\ d \notin Busy(p)
    <3>1. Len(c) \in 1 .. Len(c) /\ \A i \in 1 .. Len(c) : c[i] \in DescIds \ Busy(p)
      BY ChainFacts
    <3>2. QED  BY <3>1
  <2>3. buf \in [Queues -> [DescIds -> Nat]]
    BY DEF NetTypeOK
  <2>4. CASE k \in Live(q) /\ ChainAt(q, k)' = ChainAt(q, k)
    <3>1. LastDesc(q, k)' = LastDesc(q, k)
      BY <2>4 DEF LastDesc
    <3>2. LastDesc(q, k) \in DescIds /\ LastDesc(q, k) \in Busy(q)
      BY <1>1, <2>4, LastDescFacts
    <3>3. p # q \/ LastDesc(q, k) # d
      BY <2>2, <3>2
    <3>4. buf'[q][LastDesc(q, k)] = buf[q][LastDesc(q, k)]
      BY <2>1, <2>2, <2>3, <3>2, <3>3
    <3>5. QED  BY <1>2, <2>1, <2>4, <3>1, <3>4
  <2>5. CASE p = q /\ k = Len(submitted[q]) + 1 /\ ChainAt(q, k)' = c
    <3>1. LastDesc(q, k)' = d
      BY <2>5 DEF LastDesc
    <3>2. Len(served[q]) <= Len(submitted[q]) /\ Len(submitted[q]) \in Nat /\ Len(served[q]) \in Nat
      BY <1>1, Counts
    <3>3. q = Tx
      BY <2>1, <2>5, <3>2
    <3>4. buf'[q][d] = v /\ v = k
      BY <2>1, <2>2, <2>3, <2>5, <3>3
    <3>5. QED  BY <3>1, <3>4
  <2>6. QED  BY <1>1, <2>1, <2>4, <2>5, LiveFilled
<1>9. CASE NetWalkLast
  <2> DEFINE j == Len(served[queue_idx]) + 1
             d == desc_idx % QueueSize
  <2>1. /\ queue_idx \in Queues /\ j \in Nat /\ j \in Live(queue_idx)
        /\ d = LastDesc(queue_idx, j) /\ Len(served'[queue_idx]) = j
        /\ \A p \in Queues \ {queue_idx} : served'[p] = served[p]
        /\ pc = "walk" /\ filled' = filled
        /\ \/ queue_idx = Rx /\ Receive(d)
           \/ queue_idx = Tx /\ UNCHANGED buf
    BY <1>1, <1>9, NetWalkLastFacts
  <2>2. k \in Live(q) /\ LastDesc(q, k)' = LastDesc(q, k)
    BY <1>3, <2>1
  <2>3. k \in Nat /\ Len(served[q]) \in Nat
    BY <1>1, <2>2, LiveFacts, Counts
  <2>4. CASE queue_idx = Tx
    <3>1. buf' = buf
      BY <2>1, <2>4, NetQueues
    <3>2. IF q = Tx THEN k > Len(served[q]) ELSE k <= Len(served[q])
      BY <2>1, <2>3, <2>4
    <3>3. QED  BY <1>2, <2>2, <3>1, <3>2
  <2>5. CASE queue_idx = Rx
    <3>1. Len(slirp_in) > 0 /\ \A i \in 1 .. Len(slirp_in) : slirp_in[i] = Len(served[Rx]) + i
      BY <1>1, <2>1, <2>5 DEF SlirpInv
    <3>2. slirp_in \in Seq(Nat) /\ buf \in [Queues -> [DescIds -> Nat]]
      BY DEF NetTypeOK
    <3>3. slirp_in # << >> /\ Head(slirp_in) = j
      <4>1. slirp_in # << >> /\ 1 \in 1 .. Len(slirp_in) /\ Head(slirp_in) = slirp_in[1]
        BY <3>1, <3>2
      <4>2. slirp_in[1] = Len(served[Rx]) + 1
        BY <3>1, <4>1
      <4>3. QED  BY <2>5, <4>1, <4>2
    <3>4. buf' = [buf EXCEPT ![Rx][d] = j]
      BY <2>1, <2>5, <3>3, NetQueues DEF Receive
    <3>5. d \in DescIds
      BY <1>1, IncrType DEF TypeOK
    <3>6. LastDesc(q, k) \in DescIds
      BY <1>1, <2>2, LastDescFacts
    <3> HIDE DEF d, j
    <3>7. CASE q = Tx
      <4>1. buf'[q][LastDesc(q, k)] = buf[q][LastDesc(q, k)]
        BY <3>2, <3>4, <3>5, <3>6, <3>7, NetQueues
      <4>2. served'[q] = served[q]
        BY <2>1, <2>5, <3>7, NetQueues
      <4>3. QED  BY <1>2, <2>2, <3>7, <4>1, <4>2
    <3>8. CASE q = Rx /\ k = j
      BY <2>1, <2>2, <2>5, <3>2, <3>4, <3>5, <3>8, NetQueues
    <3>9. CASE q = Rx /\ k # j
      <4>1. LastDesc(q, k) # d
        BY <1>1, <2>1, <2>2, <2>5, <3>9, LastDescFacts
      <4>2. buf'[q][LastDesc(q, k)] = buf[q][LastDesc(q, k)]
        BY <3>2, <3>4, <3>5, <3>6, <3>9, <4>1
      <4>3. k <= Len(served[q]) /\ q # Tx
        <5>1. k <= j /\ j = Len(served[q]) + 1
          BY <2>1, <2>5, <3>9, NetQueues DEF j
        <5>2. QED  BY <2>3, <3>9, <5>1, NetQueues
      <4>4. QED  BY <1>2, <2>2, <4>2, <4>3
    <3>10. QED  BY <3>7, <3>8, <3>9, NetQueues
  <2>6. QED  BY <2>1, <2>4, <2>5
<1>10. QED
  BY <1>1, <1>5, <1>6, <1>7, <1>8, <1>9, NetFrame


\* slirp's packets are counted by the receive requests served, and a receive
\* request that the thread has begun keeps its packet: nobody else takes one.
LEMMA SlirpStep ==
    ASSUME DeviceInv, NetTypeOK, SlirpInv, [NetNext]_netall
    PROVE  SlirpInv'
<1> SUFFICES ASSUME magic_value' PROVE SlirpInv'
  BY DEF SlirpInv
<1>1. magic_value /\ QueueInv /\ TypeOK
  BY NetStepIsStep, MagicKept DEF DeviceInv, QueueInv
<1>2. /\ Len(served[Rx]) + Len(slirp_in) = arrived
      /\ \A i \in 1 .. Len(slirp_in) : slirp_in[i] = Len(served[Rx]) + i
      /\ queue_idx = Rx /\ pc \in {"fetch", "walk"} => Len(slirp_in) > 0
  BY <1>1 DEF SlirpInv
<1>3. /\ slirp_in \in Seq(Nat) /\ Len(slirp_in) \in Nat /\ arrived \in Nat
      /\ Len(served[Rx]) \in Nat
  <2>1. slirp_in \in Seq(Nat) /\ arrived \in Nat
    BY DEF NetTypeOK
  <2>2. Len(slirp_in) \in Nat
    BY <2>1
  <2>3. Len(served[Rx]) \in Nat
    BY <1>1, Counts, NetQueues
  <2>4. QED  BY <2>1, <2>2, <2>3
<1>4. ASSUME UNCHANGED <<slirp_in, served, arrived>>,
             pc' \in {"fetch", "walk"} =>
                pc \in {"fetch", "walk"} /\ UNCHANGED queue_idx
      PROVE  SlirpInv'
  BY <1>2, <1>4 DEF SlirpInv
<1>5. CASE NetQuiet
  BY <1>4, <1>5 DEF NetQuiet
<1>6. ASSUME NEW q \in Queues, NetTake(q) \/ \E c \in Chains(q) : NetFill(q, c)
      PROVE  SlirpInv'
  <2>1. UNCHANGED <<slirp_in, served, arrived, pc, queue_idx>>
    BY <1>6 DEF NetTake, DriverTake, NetFill, DriverFill, history
  <2>2. QED  BY <1>4, <2>1
<1>7. CASE NetPollBusy
  <2>1. UNCHANGED <<slirp_in, served, arrived, queue_idx>> /\ HasPacket(queue_idx)
    BY <1>7 DEF NetPollBusy, PollBusy, history, netvars
  <2>2. queue_idx = Rx => Len(slirp_in) > 0
    <3>1. queue_idx = Rx => slirp_in # << >>
      BY <2>1, NetQueues DEF HasPacket
    <3>2. QED  BY <1>3, <3>1
  <2>3. QED  BY <1>2, <2>1, <2>2 DEF SlirpInv
<1>8. CASE PacketArrives
  <2> DEFINE n == Len(slirp_in)
             S == Len(served[Rx])
  <2>1. /\ arrived' = arrived + 1 /\ slirp_in' = Append(slirp_in, arrived + 1)
        /\ UNCHANGED <<served, pc, queue_idx>>
    BY <1>8 DEF PacketArrives, vars, history
  <2>2. /\ Len(slirp_in') = n + 1 /\ slirp_in'[n + 1] = arrived + 1
        /\ \A i \in 1 .. n : slirp_in'[i] = slirp_in[i]
    BY <1>3, <2>1, AppendFacts
  <2>3. n \in Nat /\ S \in Nat /\ S + n = arrived
        /\ \A i \in 1 .. n : slirp_in[i] = S + i
    BY <1>2, <1>3
  <2>4. Len(served'[Rx]) = S
    BY <2>1
  <2> HIDE DEF n, S
  <2>5. ASSUME NEW i \in 1 .. n + 1  PROVE slirp_in'[i] = S + i
    <3>1. CASE i = n + 1
      BY <2>2, <2>3, <3>1
    <3>2. CASE i # n + 1
      <4>1. i \in 1 .. n
        BY <2>3, <3>2
      <4>2. QED  BY <2>2, <2>3, <4>1
    <3>3. QED  BY <3>1, <3>2
  <2>6. S + (n + 1) = arrived + 1 /\ n + 1 > 0
    BY <2>3
  <2>7. QED  BY <2>1, <2>2, <2>4, <2>5, <2>6 DEF SlirpInv
<1>9. CASE NetWalkLast
  <2> DEFINE j == Len(served[queue_idx]) + 1
             d == desc_idx % QueueSize
  <2>1. /\ queue_idx \in Queues
        /\ Len(served'[queue_idx]) = j
        /\ \A p \in Queues \ {queue_idx} : served'[p] = served[p]
        /\ pc = "walk" /\ pc' = "used" /\ arrived' = arrived
        /\ \/ queue_idx = Rx /\ Receive(d)
           \/ queue_idx = Tx /\ UNCHANGED slirp_in
    BY <1>1, <1>9, NetWalkLastFacts
  <2>2. CASE queue_idx = Tx
    <3>1. UNCHANGED slirp_in /\ served'[Rx] = served[Rx]
      BY <2>1, <2>2, NetQueues
    <3>2. QED  BY <1>2, <2>1, <3>1 DEF SlirpInv
  <2>3. CASE queue_idx = Rx
    <3> DEFINE n == Len(slirp_in)
               S == Len(served[Rx])
    <3>1. n > 0 /\ n \in Nat /\ S \in Nat
      BY <1>2, <1>3, <2>1, <2>3
    <3>2. slirp_in # << >>
      BY <1>3, <3>1
    <3>3. slirp_in' = Tail(slirp_in)
      BY <2>1, <2>3, <3>2, NetQueues DEF Receive
    <3>4. Len(slirp_in') = n - 1 /\ \A i \in 1 .. n - 1 : slirp_in'[i] = slirp_in[i + 1]
      BY <1>3, <3>2, <3>3
    <3>5. S + n = arrived /\ \A i \in 1 .. n : slirp_in[i] = S + i
      BY <1>2
    <3>6. Len(served'[Rx]) = S + 1
      BY <2>1, <2>3
    <3> HIDE DEF n, S
    <3>7. \A i \in 1 .. n - 1 : slirp_in'[i] = (S + 1) + i
      <4> SUFFICES ASSUME NEW i \in 1 .. n - 1 PROVE slirp_in'[i] = (S + 1) + i
        OBVIOUS
      <4>1. i + 1 \in 1 .. n /\ S + (i + 1) = (S + 1) + i
        BY <3>1
      <4>2. QED  BY <3>4, <3>5, <4>1
    <3>8. (S + 1) + (n - 1) = arrived
      BY <3>1, <3>5
    <3>9. QED  BY <2>1, <3>4, <3>6, <3>7, <3>8 DEF SlirpInv
  <2>4. QED  BY <2>1, <2>2, <2>3
<1>10. QED
  BY <1>1, <1>5, <1>6, <1>7, <1>8, <1>9, NetFrame

\* The driver takes a packet out of the buffer it was received in.
LEMMA ReceivedStep ==
    ASSUME DeviceInv, NetTypeOK, BufInv, ReceivedInv, [NetNext]_netall
    PROVE  ReceivedInv'
<1>1. QueueInv /\ TypeOK /\ [Next]_vars /\ (magic_value' => magic_value)
  BY NetStepIsStep, MagicKept DEF DeviceInv, QueueInv
<1>2. /\ \A k \in 1 .. Len(received) : received[k] = k
      /\ magic_value => Len(received) = Len(returned[Rx])
  BY DEF ReceivedInv
<1>3. CASE UNCHANGED <<received, returned>>
  BY <1>1, <1>2, <1>3 DEF ReceivedInv
<1>4. CASE UNCHANGED received /\ ~ magic_value'
  BY <1>2, <1>4 DEF ReceivedInv
<1>5. ASSUME NEW q \in Queues, NetTake(q)  PROVE ReceivedInv'
  <2> DEFINE c == chain[q][used_ring[q][last_used[q] % QueueSize]]
             k == Len(returned[q]) + 1
             n == Len(received)
  <2>1. /\ magic_value /\ k \in Live(q) /\ k \in Nat /\ k <= Len(served[q])
        /\ c[Len(c)] = LastDesc(q, k) /\ LastDesc(q, k) \in DescIds
        /\ Len(returned'[q]) = k
    BY <1>5, TakenDesc
  <2>2. /\ received' = IF q = Rx THEN Append(received, buf[q][c[Len(c)]]) ELSE received
        /\ \A p \in Queues \ {q} : returned'[p] = returned[p]
    BY <1>1, <1>5 DEF NetTake, DriverTake, TypeOK
  <2>3. CASE q = Tx
    BY <1>2, <2>1, <2>2, <2>3, NetQueues DEF ReceivedInv
  <2>4. CASE q = Rx
    <3>1. buf[q][c[Len(c)]] = k
      BY <2>1, <2>4 DEF BufInv
    <3>2. received \in Seq(Nat)
      BY DEF NetTypeOK
    <3>3. received' = Append(received, k) /\ n + 1 = k
      BY <1>2, <2>1, <2>2, <2>4, <3>1
    <3>4. /\ Len(received') = n + 1 /\ received'[n + 1] = k /\ n \in Nat
          /\ \A i \in 1 .. n : received'[i] = received[i]
      BY <2>1, <3>2, <3>3, AppendFacts
    <3>5. \A i \in 1 .. n : received[i] = i
      BY <1>2
    <3>6. Len(received') = Len(returned'[Rx])
      BY <2>1, <2>4, <3>3, <3>4
    <3>7. n + 1 = k
      BY <3>3
    <3> HIDE DEF n, k
    <3>8. \A i \in 1 .. n + 1 : received'[i] = i
      BY <3>4, <3>5, <3>7
    <3>9. QED  BY <3>4, <3>6, <3>8 DEF ReceivedInv
  <2>5. QED  BY <2>3, <2>4, NetQueues
<1>6. CASE PacketArrives \/ NetPollBusy \/ NetQuiet \/ NetWalkLast
  <2>1. UNCHANGED <<received, returned>>
    BY <1>6 DEF PacketArrives, vars, history, NetPollBusy, PollBusy, netvars, NetQuiet,
       NetWalkLast, WalkLast
  <2>2. QED  BY <1>3, <2>1
<1>7. ASSUME NEW q \in Queues, NEW c \in Chains(q), NetFill(q, c)  PROVE ReceivedInv'
  <2>1. UNCHANGED <<received, returned>>
    BY <1>7 DEF NetFill, DriverFill, history
  <2>2. QED  BY <1>3, <2>1
<1>8. CASE magic_value'
  BY <1>1, <1>5, <1>6, <1>7, <1>8, NetFrame
<1>9. CASE ~ magic_value'
  <2>1. (\E q \in Queues : NetTake(q)) \/ UNCHANGED received
    BY DEF NetNext, net_loop, NetPollIdle, NetPollBusy, NetWalkNext, NetWalkLast, NetOther,
       NetIrq, PacketArrives, NetReset, NetFill, netvars, netall
  <2>2. QED  BY <1>4, <1>5, <1>9, <2>1
<1>10. QED  BY <1>8, <1>9

-----------------------------------------------------------------------------
(* The theorems about packets *)

LEMMA NetInvInit == NetInit => NetInv
<1> SUFFICES ASSUME NetInit PROVE NetInv
  OBVIOUS
<1>1. Init /\ DeviceInv
  BY DeviceInit DEF NetInit
<1>2. NetTypeOK /\ HeaderOwn
  BY NetTypeInit
<1>3. /\ wire = << >> /\ received = << >> /\ slirp_in = << >> /\ arrived = 0
      /\ pc = "top" /\ \A q \in Queues : served[q] = << >> /\ returned[q] = << >>
                                         /\ submitted[q] = << >> /\ filled[q] = NoDesc
  BY <1>1 DEF NetInit, Init
<1>4. Len(wire) = 0 /\ Len(received) = 0 /\ Len(slirp_in) = 0
      /\ \A q \in Queues : Len(served[q]) = 0 /\ Len(returned[q]) = 0 /\ Len(submitted[q]) = 0
  BY <1>3
<1>5. SendsAll
  BY <1>3, <1>4, NetQueues DEF SendsAll
<1>6. \A q \in Queues : Live(q) = {}
  BY <1>3, <1>4 DEF Live
<1>7. BufInv
  BY <1>6, NetQueues DEF BufInv
<1>8. SlirpInv /\ ReceivedInv
  BY <1>3, <1>4, NetQueues DEF SlirpInv, ReceivedInv
<1>9. QED  BY <1>1, <1>2, <1>5, <1>7, <1>8 DEF NetInv

LEMMA NetInvStep == NetInv /\ [NetNext]_netall => NetInv'
<1> SUFFICES ASSUME NetInv, [NetNext]_netall PROVE NetInv'
  OBVIOUS
<1>1. /\ DeviceInv /\ NetTypeOK /\ HeaderOwn /\ SendsAll
      /\ BufInv /\ SlirpInv /\ ReceivedInv
  BY DEF NetInv
<1>2. TypeOK
  BY <1>1 DEF DeviceInv, QueueInv
<1>3. DeviceInv'
  BY <1>1, NetStepIsStep, DeviceStep
<1>4. NetTypeOK' /\ HeaderOwn' /\ SendsAll'
  BY <1>1, <1>2, NetTypeStep, HeaderStep, SendsStep
<1>5. BufInv' /\ SlirpInv' /\ ReceivedInv'
  BY <1>1, BufStep, SlirpStep, ReceivedStep
<1>6. QED  BY <1>3, <1>4, <1>5 DEF NetInv

LEMMA NetInvariant == NetSpec => []NetInv
<1>1. NetInit => NetInv
  BY NetInvInit
<1>2. NetInv /\ [NetNext]_netall => NetInv'
  BY NetInvStep
<1>3. QED  BY <1>1, <1>2, PTL DEF NetSpec

\* The packets the guest submits reach slirp once, in order, and with their own
\* length if their header has its own descriptor (network.hpp:93-116).
THEOREM SendSafety == NetSpec => []SendsAll
<1>1. NetInv => SendsAll
  BY DEF NetInv
<1>2. QED  BY <1>1, NetInvariant, PTL

\* The packets that arrive reach the guest's driver in order, one in each buffer,
\* none lost and no buffer empty (network.hpp:93-134): what select promised is
\* still there when the walk ends.
THEOREM ReceiveSafety == NetSpec => []ReceivesAll
<1>1. NetInv => ReceivesAll
  BY DEF NetInv, SlirpInv, ReceivedInv, ReceivesAll
<1>2. QED  BY <1>1, NetInvariant, PTL

=============================================================================
