------------------------------ MODULE HostTool -----------------------------
(***************************************************************************)
(* The process console/tt-bh-linux: main, the console thread and the device*)
(* threads, from the creation of their L2CPU objects to the order in which *)
(* their destructors run, while the chip may be reset under them.  What the*)
(* console and the devices do in between is the business of Console,       *)
(* VirtioSetup and VirtioDevice.                                           *)
(*                                                                         *)
(* An L2CPU object reserves 8 GB of address space and puts two windows of  *)
(* 4 GB over them.  ~L2CPU unmaps the 8 GB and closes the file; only then  *)
(* are its members destroyed, and each window unmaps its 4 GB and frees its*)
(* TLB again, at an address and through a file number that another thread  *)
(* may have been given meanwhile.                                          *)
(***************************************************************************)
EXTENDS Integers, FiniteSets

CONSTANTS NumDevices,   \* device threads: disk, network, cloud-init disk
          Slots,        \* places of 8 GB in the address space
          Pool,         \* 4 GB windows that the chip has
          MaxResets     \* bound: chip resets

Devices == 0 .. NumDevices - 1
Console == NumDevices
Threads == 0 .. NumDevices

ASSUME ToolAssumption ==
    /\ NumDevices \in 1 .. 3 /\ MaxResets \in Nat /\ Pool \in Nat
    /\ Slots \subseteq Nat \ {0}

NoOne == -1
NoSlot == 0

VARIABLES
    process,        \* how the process is
    pc,             \* per thread, where it is
    exit_thread_flag,
    quit,           \* uart_loop did not return -EAGAIN
    base,           \* per thread, the slot of its L2CPU object's memory
    space,          \* per slot, who owns its two halves of 4 GB
    held,           \* the threads whose open file has its two windows of 4 GB
    lock,           \* who holds interrupt_register_lock
    \* the chip
    chip,           \* "up", or "down" and reading as all ones
    boot,           \* history: how often the guest has been booted
    register,       \* interrupt_register, as the set of its bits
    magic,          \* per thread, its registers or its UART have their magic
    device_id,      \* per device, its device_id is set
    shaken,         \* history: per device, the boot whose driver set it up
    \* histories
    heirs,          \* <<t, u>>: u has opened its file since ~L2CPU closed t's
    late,           \* per device, its rounds in the guest of a later boot, up to 2
    deaf            \* devices whose registers vanished before device_loop

objects == <<base, space, held, heirs>>
registers == <<magic, device_id, shaken, late, deaf>>
vars == <<process, pc, exit_thread_flag, quit, objects, lock, chip, boot,
          register, registers>>

Init ==
    /\ process = "running"
    /\ pc = [t \in Threads |-> "check"]
    /\ exit_thread_flag = FALSE /\ quit = FALSE
    /\ base = [t \in Threads |-> NoSlot]
    /\ space = [s \in Slots |-> [h \in 1 .. 2 |-> NoOne]]
    /\ held = {}
    /\ lock = NoOne
    /\ chip = "up" /\ boot = 1 /\ register = {}
    /\ magic = [t \in Threads |-> FALSE]
    /\ device_id = [t \in Devices |-> FALSE]
    /\ shaken = [t \in Devices |-> 0]
    /\ heirs = {} /\ late = [t \in Devices |-> 0] /\ deaf = {}

\* Thread t, at the point from, goes on to the point to.
Goes(t, from, to) ==
    /\ process = "running"
    /\ pc[t] = from /\ pc' = [pc EXCEPT ![t] = to]

\* exit(1), or a signal, in thread t: all of them stop where they are, and the
\* kernel takes back what they had.
Dies(how) ==
    /\ process' = how
    /\ pc' = [t \in Threads |-> "done"]
    /\ base' = [t \in Threads |-> NoSlot]
    /\ space' = [s \in Slots |-> [h \in 1 .. 2 |-> NoOne]]
    /\ held' = {}
    /\ lock' = NoOne /\ heirs' = {}
    /\ UNCHANGED <<exit_thread_flag, quit, chip, boot, register, registers>>

-----------------------------------------------------------------------------
(* L2CPU and its windows *)

\* How many windows are allocated.
Held == 2 * Cardinality(held)

\* Where the kernel's mmap puts 8 GB: the first place that is free.
FirstFit ==
    {s \in Slots : /\ \A h \in 1 .. 2 : space[s][h] = NoOne
                   /\ \A r \in Slots : r < s => \E h \in 1 .. 2 : space[r][h] # NoOne}

Dying == {u \in Threads : pc[u] = "free"}

\* The thread's loop goes on: L2CPU::L2CPU from the open of the file, which may
\* get the number of any that was closed, to the mmap of PROT_NONE.
Create(t) ==
    /\ Goes(t, "check", "windows") /\ ~ exit_thread_flag
    /\ \E s \in FirstFit :
          /\ base' = [base EXCEPT ![t] = s]
          /\ space' = [space EXCEPT ![s] = [h \in 1 .. 2 |-> t]]
    /\ heirs' = heirs \cup (Dying \X {t})
    /\ UNCHANGED <<process, exit_thread_flag, quit, held, lock, chip, boot,
                   register, registers>>

\* TlbHandle::TlbHandle for first and second, over the reservation.
Windows(t) ==
    /\ Goes(t, "windows", "construct")
    /\ Held + 2 <= Pool
    /\ held' = held \cup {t}
    /\ space' = [space EXCEPT ![base[t]] = [h \in 1 .. 2 |-> t]]
    /\ UNCHANGED <<process, exit_thread_flag, quit, base, heirs, lock, chip,
                   boot, register, registers>>

\* A window cannot be had: none is left, or the chip does not answer.
WindowFails(t) ==
    /\ process = "running"
    /\ \/ pc[t] = "windows" /\ Held + 2 > Pool
       \/ pc[t] \in {"windows", "construct"} /\ chip = "down"
       \/ pc[t] = "check" /\ ~ exit_thread_flag /\ chip = "down"
    /\ Dies("exit 1")

\* Mutant of Closed: the file stays open.
ClosedNever(t) == held

\* close(fd): what the file had allocated goes back to the chip.
Closed(t) == held \ {t}

\* The scope that holds the object ends, in a device thread after 100 ms.
\* ~L2CPU: munmap of the 8 GB, and close.
Destroy(t, from) ==
    /\ Goes(t, from, "free")
    /\ space' = [space EXCEPT ![base[t]] = [h \in 1 .. 2 |-> NoOne]]
    /\ held' = Closed(t)
    /\ heirs' = {p \in heirs : p[2] # t}
    /\ UNCHANGED base

\* ~TlbHandle of both members: their 4 GB are unmapped, whoever has them by now,
\* and FREE_TLB goes to a closed file number: to nobody, or to the file of a
\* thread that has the number now and loses its windows, if the driver frees a
\* window in use.  A console that was not told to retry ends the tool.
Free(t) ==
    /\ Goes(t, "free", IF t = Console /\ quit THEN "done" ELSE "check")
    /\ space' = [space EXCEPT ![base[t]] = [h \in 1 .. 2 |-> NoOne]]
    /\ base' = [base EXCEPT ![t] = NoSlot]
    /\ held' \in {held} \cup {held \ {u} : u \in {v \in held : <<t, v>> \in heirs}}
    /\ heirs' = {p \in heirs : p[1] # t}
    /\ exit_thread_flag' = (exit_thread_flag \/ (t = Console /\ quit))
    /\ UNCHANGED <<process, quit, lock, chip, boot, register, registers>>

\* FREE_TLB hits a window that another thread has allocated and not mapped yet:
\* its next ioctl, or its mmap, fails.
FreeStrikes(t) ==
    /\ process = "running" /\ pc[t] = "free"
    /\ \E u \in Threads : <<t, u>> \in heirs /\ pc[u] = "windows"
    /\ Dies("exit 1")

\* while (!exit_thread_flag) ends.
Leave(t) ==
    /\ Goes(t, "check", "done") /\ exit_thread_flag
    /\ UNCHANGED <<process, exit_thread_flag, quit, objects, lock, chip, boot,
                   register, registers>>

Object(t) ==
    Leave(t) \/ Create(t) \/ Windows(t) \/ Free(t)

-----------------------------------------------------------------------------
(* Regions and interrupts *)

\* main gives the disk, the network and the second disk their regions, by the
\* distance in units of 2 MB from the end of the guest's memory, and interrupts.
RegionOffset(t) == t + 1
Irq(t) == 33 - t

\* boot.py gives the guest's device tree its nodes in the same terms.  (The end of
\* the memory is in the tool's tables for the one, l2cpu.cpp, and in the memory
\* node of the device tree for the other.)
Nodes == 0 .. 3
NodeOffset(i) == i + 1
NodeIrq(i) == 33 - i

\* Mutant of Bit: the interrupts counted from 0.
BitFromZero(irq) == irq

\* The bit of interrupt_register for an interrupt.
Bit(irq) == irq - 5

-----------------------------------------------------------------------------
(* disk_main and network_main *)

\* The constructors of VirtioDevice and of its subclass: the register region
\* is cleared, the magic number written, and device_id too, unless the image
\* of a disk cannot be opened.  Writes to a chip that is down are lost.
Construct(t) ==
    /\ Goes(t, "construct", "setup")
    /\ magic' = [magic EXCEPT ![t] = (chip = "up")]
    /\ \E opened \in IF t = 1 THEN {TRUE} ELSE BOOLEAN :
          device_id' = [device_id EXCEPT ![t] = (chip = "up" /\ opened)]
    /\ UNCHANGED <<shaken, late>>
    /\ deaf' = IF chip = "up" THEN deaf \ {t} ELSE deaf \cup {t}
    /\ UNCHANGED <<process, exit_thread_flag, quit, objects, lock, chip, boot, register>>

\* device_setup, with a guest that finds the device; see VirtioSetup.
Setup(t) ==
    /\ Goes(t, "setup", "loop")
    /\ chip = "up" /\ magic[t] /\ device_id[t]
    /\ shaken' = [shaken EXCEPT ![t] = boot]
    /\ UNCHANGED <<process, exit_thread_flag, quit, objects, lock, chip, boot,
                   register, magic, device_id, late, deaf>>

\* Mutant of GivesUp: its loops do not look at the flag.
GivesUpNever(t) == FALSE

\* Its loops look at the exit flag, all of them.
GivesUp(t) == exit_thread_flag

SetupExit(t) ==
    /\ Goes(t, "setup", "loop")
    /\ GivesUp(t)
    /\ UNCHANGED <<process, exit_thread_flag, quit, objects, lock, chip, boot,
                   register, registers>>

\* DRIVER_OK is set in a status that reads as all ones: the last of its loops
\* ends ...
SetupPasses(t) ==
    /\ Goes(t, "setup", "loop")
    /\ chip = "down"
    /\ UNCHANGED <<process, exit_thread_flag, quit, objects, lock, chip, boot,
                   register, registers>>

\* ... but in the loops before it all ones are used as an index.
SetupWild(t) ==
    /\ process = "running" /\ pc[t] = "setup" /\ chip = "down"
    /\ Dies("crashed")

\* Mutant of Alive: the magic number is not looked at.
AliveAlways(t) == TRUE

\* What device_loop asks once per round, besides the flag.
Alive(t) == magic[t]

Round(t) ==
    /\ \/ /\ ~ exit_thread_flag /\ Alive(t)
          /\ Goes(t, "loop", "serve") /\ UNCHANGED <<objects, shaken, late, deaf>>
       \/ /\ exit_thread_flag \/ ~ Alive(t)
          /\ Destroy(t, "loop")
          /\ shaken' = [shaken EXCEPT ![t] = 0] /\ late' = [late EXCEPT ![t] = 0]
          /\ deaf' = deaf \ {t}
    /\ UNCHANGED <<process, exit_thread_flag, quit, lock, chip, boot, register,
                   magic, device_id>>

\* A round over the virtqueues, with a request or without; see VirtioDevice.
Serve(t) ==
    /\ \E to \in {"loop", "raise"} : Goes(t, "serve", to)
    /\ late' = IF shaken[t] = boot \/ late[t] = 2 THEN late ELSE [late EXCEPT ![t] = @ + 1]
    /\ UNCHANGED <<process, exit_thread_flag, quit, objects, lock, chip, boot,
                   register, magic, device_id, shaken, deaf>>

Intact(t) == \A h \in 1 .. 2 : space[base[t]][h] = t

\* It dies of a missing window, or of the addresses that a reset leaves.
ServeWild(t) ==
    /\ process = "running" /\ pc[t] = "serve"
    /\ ~ Intact(t) \/ t \notin held \/ ~ magic[t]
    /\ Dies("crashed")

\* Mutant of Locks: no lock.
LocksNot(t) == TRUE

\* interrupt_register_lock is free.
Locks(t) == lock = NoOne

\* set_interrupt: under the lock, our bit and no other ...
Raise(t) ==
    /\ Goes(t, "raise", "lower")
    /\ Locks(t) /\ lock' = t
    /\ register' = IF chip = "up" THEN {Bit(Irq(t))} ELSE register
    /\ UNCHANGED <<process, exit_thread_flag, quit, objects, chip, boot, registers>>

\* ... and 0 again.
Lower(t) ==
    /\ Goes(t, "lower", "loop")
    /\ register' = {} /\ lock' = NoOne
    /\ UNCHANGED <<process, exit_thread_flag, quit, objects, chip, boot, registers>>

device_main(t) ==
    Construct(t) \/ SetupExit(t) \/ Round(t) \/ Lower(t)

-----------------------------------------------------------------------------
(* console_main *)

\* uart_loop finds the virtual UART, or returns for good.
Attach ==
    /\ \/ /\ chip = "up" /\ Goes(Console, "construct", "serve")
          /\ magic' = [magic EXCEPT ![Console] = TRUE]
          /\ UNCHANGED <<objects, quit>>
       \/ /\ Destroy(Console, "construct")
          /\ quit' = TRUE
          /\ UNCHANGED magic
    /\ UNCHANGED <<process, exit_thread_flag, lock, chip, boot, register,
                   device_id, shaken, late, deaf>>

\* The user's Ctrl-A x, or -EAGAIN because the UART's magic number has gone.
Detach ==
    /\ Destroy(Console, "serve")
    /\ quit' \in IF magic[Console] THEN {TRUE} ELSE {TRUE, FALSE}
    /\ UNCHANGED <<process, exit_thread_flag, lock, chip, boot, register, registers>>

-----------------------------------------------------------------------------
(* main, and the world *)

\* main has joined every thread.
Join ==
    /\ process = "running"
    /\ \A t \in Threads : pc[t] = "done"
    /\ process' = "finished"
    /\ UNCHANGED <<pc, exit_thread_flag, quit, objects, lock, chip, boot,
                   register, registers>>

\* Somebody resets the chip (boot.py or tt-smi) ...
ChipReset ==
    /\ process = "running" /\ chip = "up" /\ boot <= MaxResets
    /\ chip' = "down" /\ register' = {}
    /\ magic' = [t \in Threads |-> FALSE]
    /\ device_id' = [t \in Devices |-> FALSE]
    /\ deaf' = deaf \cup {t \in Devices : pc[t] = "setup"}
    /\ UNCHANGED <<process, pc, exit_thread_flag, quit, objects, lock, boot, shaken, late>>

\* ... and boots the guest again.
ChipBoot ==
    /\ process = "running" /\ chip = "down"
    /\ chip' = "up" /\ boot' = boot + 1
    /\ UNCHANGED <<process, pc, exit_thread_flag, quit, objects, lock, register,
                   registers>>

Steps(t) ==
    \/ Object(t) \/ WindowFails(t)
    \/ t # Console /\ (device_main(t) \/ (chip = "up" /\ Serve(t)))
    \/ t = Console /\ Attach

Next ==
    \/ \E t \in Threads : Steps(t) \/ FreeStrikes(t)
    \/ \E t \in Devices : Setup(t) \/ SetupPasses(t) \/ SetupWild(t)
    \/ \E t \in Devices : Serve(t) \/ ServeWild(t) \/ Raise(t)
    \/ Detach \/ Join \/ ChipReset \/ ChipBoot

\* The threads run; a lock that is free between rounds is had in the end.  The
\* walk over a reset chip's descriptors need not end, nor uart_loop (its pop_char
\* may spin, see Console), and nothing is promised of the user, of the guest, and
\* of those who reset the chip.
Spec ==
    /\ Init /\ [][Next]_vars
    /\ \A t \in Threads : WF_vars(Steps(t))
    /\ \A t \in Devices : SF_vars(Raise(t))
    /\ WF_vars(Join)

-----------------------------------------------------------------------------
(* Properties *)

Busy == {"construct", "setup", "loop", "serve", "raise", "lower"}

\* The type of every variable.
TypeOK ==
    /\ process \in {"running", "exit 1", "crashed", "finished"}
    /\ pc \in [Threads -> Busy \cup {"check", "windows", "free", "done"}]
    /\ exit_thread_flag \in BOOLEAN /\ quit \in BOOLEAN
    /\ base \in [Threads -> Slots \cup {NoSlot}]
    /\ space \in [Slots -> [1 .. 2 -> Threads \cup {NoOne}]]
    /\ held \subseteq Threads
    /\ lock \in Devices \cup {NoOne}
    /\ chip \in {"up", "down"} /\ boot \in 1 .. MaxResets + 1
    /\ register \subseteq 0 .. 31
    /\ magic \in [Threads -> BOOLEAN] /\ device_id \in [Devices -> BOOLEAN]
    /\ shaken \in [Devices -> 0 .. MaxResets + 1]
    /\ heirs \subseteq Threads \X Threads
    /\ late \in [Devices -> 0 .. 2] /\ deaf \subseteq Devices

\* Everything has its type, and two windows per thread are enough for ever: no
\* restart finds the windows of an earlier object still allocated.
PoolSuffices ==
    /\ TypeOK
    /\ \A t \in Threads : pc[t] = "windows" => Held + 2 <= Pool

\* From the first store of set_interrupt to the second, the register has one
\* bit alone, that of the interrupt which the guest's device tree gives to the
\* region that the thread serves; and it has no bit at any other time.
PulseWhole ==
    /\ \A t \in Devices : pc[t] = "lower" /\ magic[t] =>
          \E i \in Nodes : /\ NodeOffset(i) = RegionOffset(t)
                           /\ register = {NodeIrq(i) - 5}
    /\ register # {} /\ process = "running" => \E t \in Devices : pc[t] = "lower"

\* A round that a device was in when the chip was reset may go on in the guest of
\* the next boot, with the addresses that the earlier guest's driver set up.  It
\* is the only one: no device begins a round in a guest that has not set it up, and
\* none gets through two of them there.
OneStaleRound ==
    [][\A t \in Devices :
          /\ pc[t] = "loop" /\ pc'[t] = "serve" => shaken[t] = boot
          /\ late'[t] <= 1]_vars

\* The exit flag ends the process, unless the chip is down for good and a device
\* walks through its memory for ever.
ExitEnds ==
    exit_thread_flag ~> \/ process # "running"
                        \/ [](chip = "down" /\ \E t \in Devices : pc[t] = "serve")

\* A device that the guest cannot find although the chip is up.
Missing(t) ==
    /\ chip = "up" /\ ~ magic[t] /\ t \notin deaf
    /\ ~ exit_thread_flag /\ process = "running"

\* At the start and after a reset, every device offers itself (again), unless
\* the tool ends, or the chip was down when it tried, or reset in its setup.
ComesBack == (\E t \in Devices : Missing(t)) ~> (\A t \in Devices : ~ Missing(t))
=============================================================================
