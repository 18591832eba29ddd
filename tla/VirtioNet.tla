----------------------------- MODULE VirtioNet -----------------------------
(***************************************************************************)
(* The network device of console/network.hpp: queue 0 receives from slirp, *)
(* queue 1 sends to it.  The guest's driver puts the header of a packet in *)
(* a descriptor of its own or in front of the packet in one descriptor;    *)
(* which of the two a request is, the device finds out by header_processed,*)
(* a flag that both queues share.  slirp is external: packets arrive when  *)
(* they will, and what is sent is taken.  A packet is its number.          *)
(***************************************************************************)
EXTENDS VirtioDevice

CONSTANT MaxPackets      \* bound: packets that arrive

\* num_queues is 2 (network.hpp:60).
ASSUME NetAssumption == NumQueues = 2 /\ MaxPackets \in Nat

Rx == 0
Tx == 1

VARIABLES
    header_processed,
    slirp_in,      \* packets slirp has ready for the guest
    buf,           \* guest DRAM: per queue and descriptor, the packet in it
    wire,          \* what vdeslirp_send was given: packet, and excess bytes
    arrived,       \* history: the number of packets that arrived
    received       \* history: what the driver found in returned rx buffers

netvars == <<header_processed, slirp_in, buf, wire, arrived, received>>

NoPacket == 0

NetInit ==
    /\ Init
    /\ header_processed = FALSE
    /\ slirp_in = << >> /\ wire = << >>
    /\ buf = [q \in Queues |-> [d \in DescIds |-> NoPacket]]
    /\ arrived = 0 /\ received = << >>

-----------------------------------------------------------------------------
(* The handlers *)

\* Mutant of HasPacket: the receive queue is served like the other.
HasPacketAlways(q) == TRUE

\* queue_has_data: select says whether slirp has a packet; sending never waits.
HasPacket(q) == q = Tx \/ slirp_in # << >>

NetPollIdle ==
    /\ PollIdle
    /\ QueueLags(queue_idx) => ~ HasPacket(queue_idx)
    /\ UNCHANGED netvars

NetPollBusy ==
    /\ PollBusy
    /\ HasPacket(queue_idx)
    /\ UNCHANGED netvars

\* process_queue_start notes the header (and fills it in, for a receive
\* buffer); process_queue_data does nothing.
NetWalkNext ==
    /\ WalkNext
    /\ header_processed' = (header_processed \/ HandlerOfNext = "start")
    /\ UNCHANGED <<slirp_in, buf, wire, arrived, received>>

\* A descriptor with the header in front: addr moves past the header, but len
\* stays, so that a send passes on as many bytes more.
Excess == IF header_processed THEN 0 ELSE HeaderSize

\* Mutant of Sent: the packet is looked for in the first descriptor.
SentFromHead(d) ==
    wire' = Append(wire, [packet |-> buf[Tx][desc_idx_first], excess |-> Excess])

\* vdeslirp_send.
Sent(d) == wire' = Append(wire, [packet |-> buf[Tx][d], excess |-> Excess])

\* vdeslirp_recv into the buffer; nothing to copy if slirp has nothing.
Receive(d) ==
    \/ /\ slirp_in # << >>
       /\ buf' = [buf EXCEPT ![Rx][d] = Head(slirp_in)]
       /\ slirp_in' = Tail(slirp_in)
    \/ slirp_in = << >> /\ UNCHANGED <<buf, slirp_in>>

\* Mutant of FlagAfter: the flag is not reset.
FlagSticks == TRUE

\* header_processed at the end of process_queue_complete.
FlagAfter == FALSE

\* process_queue_complete: the packet is in the last, or only, descriptor.
NetWalkLast ==
    /\ WalkLast
    /\ \/ queue_idx = Rx /\ Receive(desc_idx % QueueSize) /\ UNCHANGED wire
       \/ queue_idx = Tx /\ Sent(desc_idx % QueueSize) /\ UNCHANGED <<buf, slirp_in>>
    /\ header_processed' = FlagAfter
    /\ UNCHANGED <<arrived, received>>

\* The steps of the loop that call no handler.
NetOther ==
    /\ \/ LoopReturn \/ LoopEnter \/ Fetch
       \/ UsedWrite \/ UsedPublish \/ SetStatus \/ Pulse \/ Crash
    /\ UNCHANGED netvars

net_loop ==
    NetPollIdle \/ NetPollBusy \/ NetWalkNext \/ NetWalkLast \/ NetOther

-----------------------------------------------------------------------------
(* slirp and the guest's network driver (external) *)

PacketArrives ==
    /\ arrived < MaxPackets
    /\ arrived' = arrived + 1
    /\ slirp_in' = Append(slirp_in, arrived')
    /\ UNCHANGED <<vars, header_processed, buf, wire, received>>

\* A request is one descriptor, or a header and the packet's descriptor.  The
\* k-th send carries packet k; a receive buffer is empty.
NetFill(q, c) ==
    /\ DriverFill(q, c)
    /\ buf' = [buf EXCEPT ![q][c[Len(c)]] =
                 IF q = Tx THEN Len(submitted[Tx]) + 1 ELSE NoPacket]
    /\ UNCHANGED <<header_processed, slirp_in, wire, arrived, received>>

\* The driver takes a used buffer; from a receive buffer it takes the packet.
NetTake(q) ==
    LET c == chain[q][used_ring[q][last_used[q] % QueueSize]]
    IN  /\ DriverTake(q)
        /\ received' = IF q = Rx THEN Append(received, buf[q][c[Len(c)]]) ELSE received
        /\ UNCHANGED <<header_processed, slirp_in, buf, wire, arrived>>

NetIrq ==
    \/ \E q \in Queues : NetTake(q)
    \/ /\ DriverClaim \/ DriverCheckStatus \/ \E q \in Queues : DriverDrained(q)
       /\ UNCHANGED netvars

NetReset ==
    /\ ChipReset
    /\ buf' = [q \in Queues |-> [d \in DescIds |-> NoPacket]]
    /\ UNCHANGED <<header_processed, slirp_in, wire, arrived, received>>

NetNext ==
    \/ net_loop \/ NetIrq \/ PacketArrives \/ NetReset
    \/ \E q \in Queues : \E n \in 1 .. 2 : \E c \in LowChains(q, n) : NetFill(q, c)
    \/ (SetExit \/ \E q \in Queues : DriverPublish(q)) /\ UNCHANGED netvars

netall == <<vars, netvars>>

\* As for the device loop; slirp owes nobody a packet.
NetSpec == NetInit /\ [][NetNext]_netall /\ WF_netall(net_loop) /\ WF_netall(NetIrq)

-----------------------------------------------------------------------------
(* Properties *)

\* No request inherits the header of another one, of either queue: while the
\* chip is up the flag is set exactly when the request being walked has given
\* its header away in a descriptor of its own.
HeaderOwn ==
    magic_value =>
        (header_processed <=>
            /\ pc = "walk"
            /\ \E i \in 1 .. Len(calls) : calls[i][1] = "start")

\* While the chip is up, the packets sent are those submitted, each once and
\* in order, and a packet with its own descriptor is sent with its own length.
SendsAll ==
    magic_value =>
        /\ Len(wire) = Len(served[Tx])
        /\ \A k \in 1 .. Len(wire) : wire[k].packet = k
        /\ pc \in {"used", "publish"} /\ queue_idx = Tx /\ Len(calls) > 1
              => wire[Len(wire)].excess = 0

\* What the driver finds in its receive buffers is the packets that arrived,
\* in order, one in each: none is lost, and no buffer comes back empty.
ReceivesAll ==
    /\ \A k \in 1 .. Len(received) : received[k] = k
    /\ magic_value => Len(served[Rx]) + Len(slirp_in) = arrived

\* A packet has arrived for which the driver has a buffer, or the driver waits
\* for a packet to be sent.
Owed ==
    \/ \E k \in 1 .. MaxPackets : arrived >= k /\ Len(submitted[Rx]) >= k /\ Len(received) < k
    \/ Len(returned[Tx]) < Len(submitted[Tx])

\* The device catches up: every packet for which there is a buffer reaches the
\* driver and every packet to send is sent, although sending and receiving
\* share the thread, unless the tool exits or the chip is reset.
CatchesUp == Owed ~> (~ Owed \/ exit_thread_flag \/ ~ magic_value)
=============================================================================
