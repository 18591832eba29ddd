----------------------------- MODULE VirtioBlk -----------------------------
(***************************************************************************)
(* The block device of console/disk.hpp: the three handlers that           *)
(* device_loop calls for the descriptors of a request, on an image that is *)
(* mapped into the tool.  The guest's block driver is external: it sends a *)
(* header, at most one data descriptor (the device does not offer SEG_MAX) *)
(* and a status descriptor.  A sector or a buffer holds the number of the  *)
(* request whose data it is; a sector stands for what one request moves.   *)
(*                                                                         *)
(* The header stays in guest DRAM: process_queue_data reads its type, then *)
(* its sector, then copies, and a chip reset may come before each of them. *)
(***************************************************************************)
EXTENDS VirtioDevice

CONSTANTS Sectors      \* the sectors of the image

\* num_queues is 1 (disk.hpp:49); an image that could be mapped has a sector.
ASSUME BlkAssumption == NumQueues = 1 /\ Sectors \subseteq Nat /\ 0 \in Sectors

Original == 0          \* what the image held before the first request
Blank == -1            \* a buffer the device has not filled
Garbage == -2          \* what a buffer reads as once the chip is reset
StatusOk == -3         \* the status byte 0, VIRTIO_BLK_S_OK

Unread == -1           \* req->sector has not been read
Outside == -2          \* the sector 2^64 - 1: mapped_data - 512
NoOp == [type |-> "none", sector |-> Unread]
Entered == [type |-> "entered", sector |-> Unread]

\* A header of a reset chip: the type 0 is VIRTIO_BLK_T_IN, all ones are none.
Zeros == [type |-> "in", sector |-> 0]
Ones == [type |-> "ones", sector |-> Outside]

VARIABLES
    hdr, buf,     \* guest DRAM behind each descriptor: header; data or status
    image,        \* mapped_data: per sector, whose data it holds
    req,          \* the descriptor that req points to
    op,           \* how far process_queue_data has come, and what it has read
    asked,        \* history: the requests, as the driver meant them
    atReset       \* history: image and op when the chip was reset

blkvars == <<hdr, buf, image, req, op, asked, atReset>>

BlkInit ==
    /\ Init
    /\ hdr = [d \in DescIds |-> NoOp] /\ buf = [d \in DescIds |-> Blank]
    /\ image = [s \in Sectors |-> Original]
    /\ req = NoDesc /\ op = NoOp
    /\ asked = << >>
    /\ atReset = [image |-> image, op |-> NoOp]

-----------------------------------------------------------------------------
(* The handlers *)

Here == desc_idx % QueueSize
CallsHandler(h) == pc = "walk" /\ CurrentDesc.next # NoNext /\ HandlerOfNext = h

\* Mutant of process_queue_start: the header of the first request is kept.
StartOnce == req' = IF req = NoDesc THEN Here ELSE req

\* Only the address is taken; the header is read when it is needed.
process_queue_start == req' = Here

BlkWalkStart ==
    /\ CallsHandler("start")
    /\ WalkNext
    /\ process_queue_start
    /\ UNCHANGED <<hdr, buf, image, op, asked, atReset>>

\* process_queue_data is called ...
BlkEnter ==
    /\ CallsHandler("data") /\ op = NoOp
    /\ op' = Entered
    /\ UNCHANGED <<vars, hdr, buf, image, req, asked, atReset>>

\* Mutant of Switch: an else branch where the code has a default.
SwitchElse(type) == IF type = "in" THEN "in" ELSE "out"

\* The cases of switch (req->type).
Switch(type) == IF type \in {"in", "out"} THEN type ELSE "default"

\* ... reads the type through req ...
BlkDispatch ==
    /\ pc = "walk" /\ op = Entered
    /\ op' = [type |-> Switch(hdr[req].type), sector |-> Unread]
    /\ UNCHANGED <<vars, hdr, buf, image, req, asked, atReset>>

\* Where the data goes: a transfer that begins 512 bytes before the image may
\* end there too, or reach into its first sectors.
Begins(s) == IF s = Outside THEN {Outside, 0} ELSE {s}

\* ... then, in the two cases that copy, the sector ...
BlkLocate ==
    /\ pc = "walk" /\ op.type \in {"in", "out"} /\ op.sector = Unread
    /\ \E s \in Begins(hdr[req].sector) : op' = [type |-> op.type, sector |-> s]
    /\ UNCHANGED <<vars, hdr, buf, image, req, asked, atReset>>

\* ... and copies between the sector and the buffer; the default only prints.
Copy ==
    \/ /\ op.type = "in"
       /\ buf' = [buf EXCEPT ![Here] = IF magic_value THEN image[op.sector] ELSE @]
       /\ UNCHANGED image
    \/ /\ op.type = "out" /\ op.sector # Outside
       /\ image' = [image EXCEPT ![op.sector] = buf[Here]]
       /\ UNCHANGED buf
    \/ /\ op.type = "default" \/ (op.type = "out" /\ op.sector = Outside)
       /\ UNCHANGED <<buf, image>>

CanCopy == op.type = "default" \/ (op.type \in {"in", "out"} /\ op.sector # Unread)

BlkWalkData ==
    /\ CallsHandler("data") /\ CanCopy
    /\ WalkNext
    /\ Copy
    /\ op' = NoOp
    /\ UNCHANGED <<hdr, req, asked, atReset>>

\* The copy of a handler that was called before the chip came back with zeros:
\* the next descriptor it then reads is number 0.
BlkWalkZeroed ==
    /\ pc = "walk" /\ CurrentDesc.next = NoNext /\ CanCopy
    /\ Copy
    /\ op' = NoOp /\ desc_idx' = 0
    /\ UNCHANGED <<dram, regs, exit_thread_flag, pc, queue_idx, processed,
                   desc_idx_first, num_bytes_written, calls, plic_pending,
                   driver, history, hdr, req, asked, atReset>>

\* Mutant of process_queue_complete: the status is left to the driver.
CompleteSilent == UNCHANGED buf

\* Success, whatever the request was.
process_queue_complete ==
    buf' = [buf EXCEPT ![Here] = IF magic_value THEN StatusOk ELSE @]

BlkWalkLast ==
    /\ op = NoOp
    /\ WalkLast
    /\ process_queue_complete
    /\ UNCHANGED <<hdr, image, req, op, asked, atReset>>

blk_loop ==
    \/ BlkWalkStart \/ BlkEnter \/ BlkDispatch \/ BlkLocate
    \/ BlkWalkData \/ BlkWalkZeroed \/ BlkWalkLast
    \/ /\ \/ LoopReturn \/ LoopEnter \/ PollIdle \/ PollBusy \/ Fetch
          \/ UsedWrite \/ UsedPublish \/ SetStatus \/ Pulse \/ Crash
       /\ UNCHANGED blkvars

-----------------------------------------------------------------------------
(* The guest's block driver (external) *)

\* A read or write with its data descriptor, or another request without one.
BlkSubmit(type, sector, c) ==
    LET k == Len(submitted[0]) + 1
    IN  /\ DriverFill(0, c)
        /\ hdr' = [hdr EXCEPT ![c[1]] = [type |-> type, sector |-> sector]]
        /\ buf' = [d \in DescIds |->
                      IF \A i \in 2 .. Len(c) : c[i] # d THEN buf[d]
                      ELSE IF type = "out" /\ d = c[2] THEN k ELSE Blank]
        /\ asked' = Append(asked, [type |-> type, sector |-> sector])
        /\ UNCHANGED <<image, req, op, atReset>>

BlkReset ==
    /\ ChipReset
    /\ hdr' = [d \in DescIds |-> IF avail_idx'[0] = 0 THEN Zeros ELSE Ones]
    /\ buf' = [d \in DescIds |-> Garbage]
    /\ atReset' = [image |-> image, op |-> op]
    /\ UNCHANGED <<image, req, op, asked>>

BlkNext ==
    \/ blk_loop
    \/ \E c \in LowChains(0, 3), s \in Sectors, t \in {"in", "out"} : BlkSubmit(t, s, c)
    \/ \E c \in LowChains(0, 2) : BlkSubmit("flush", 0, c)
    \/ (DriverPublish(0) \/ IrqHandler \/ SetExit) /\ UNCHANGED blkvars
    \/ BlkReset

BlkSpec == BlkInit /\ [][BlkNext]_<<vars, blkvars>>

-----------------------------------------------------------------------------
(* Properties *)

\* What sector s holds once the first n requests have been carried out: the
\* data of the last write among them.
Contents(n, s) ==
    LET W == {k \in 1 .. n : asked[k].type = "out" /\ asked[k].sector = s}
    IN  IF W = {} THEN Original ELSE CHOOSE k \in W : \A j \in W : j <= k

\* The requests whose data has been copied.
Applied ==
    Len(served[0]) +
        IF pc = "walk" /\ \E i \in 1 .. Len(calls) : calls[i][1] = "data" THEN 1 ELSE 0

\* While the chip is up the image is what the requests served so far make of
\* it, in their order: no handler acts on the header of another request.
DiskCurrent ==
    magic_value => \A s \in Sectors : image[s] = Contents(Applied, s)

\* A request that was handed back and that the driver has not taken yet has
\* its status byte set, and if it is a read, its buffer holds what the sector
\* held when its turn came, whatever the device has done since.
ReadsRight ==
    magic_value =>
        \A k \in Len(returned[0]) + 1 .. Handed(0) :
            LET c == chain[0][submitted[0][k]]
            IN  /\ buf[c[Len(c)]] = StatusOk
                /\ asked[k].type = "in" => buf[c[2]] = Contents(k, asked[k].sector)

\* After a chip reset the thread goes on with what the memory then shows it,
\* but at most one more sector is overwritten, and only by a call that had read
\* VIRTIO_BLK_T_OUT before the reset: the sector of that request if it was read
\* in time too, else the first, where a header of zeros or ones sends the data.
ResetSparesImage ==
    ~ magic_value => \A s \in Sectors :
        \/ image[s] = atReset.image[s]
        \/ /\ atReset.op.type = "out"
           /\ s = IF atReset.op.sector = Unread THEN 0 ELSE atReset.op.sector
=============================================================================
