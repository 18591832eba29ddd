---------------------------- MODULE VirtioSetup ----------------------------
(***************************************************************************)
(* VirtioDevice::device_setup of console/virtiodevice.hpp: the handshake   *)
(* by which the device thread offers its features and learns where the     *)
(* driver put the virtqueues.  The registers are plain DRAM, so the device *)
(* cannot see a write happen.  The driver therefore adds one to            *)
(* sel_generation after each batch of writes and waits; the device, which  *)
(* remembers the value it last wrote, answers and adds one in turn.        *)
(*                                                                         *)
(* The driver is the guest kernel's (not in this repository); its steps    *)
(* are those that the device's reads, and its clearing of queue_ready,     *)
(* presuppose: select, check that queue_ready is 0, write the addresses    *)
(* one register at a time, set queue_ready, add one to sel_generation,     *)
(* wait.  The device reads the same registers one at a time.               *)
(*                                                                         *)
(* Each loop of device_setup also ends when exit_thread_flag is set; the   *)
(* thread then falls through the stages that are left.                     *)
(***************************************************************************)
EXTENDS Integers, Sequences

CONSTANTS NumQueues,     \* num_queues
          AddrRegs,      \* the registers of a queue's addresses, 6 in the code
          FeatureWords,  \* the feature words the driver asks for, in order
          Pacing         \* the values paced may have

Queues == 0 .. NumQueues - 1
Regs == 1 .. AddrRegs     \* queue_desc_high, queue_desc_low, queue_avail_high, ...

ASSUME SetupAssumption ==
    /\ NumQueues \in Nat /\ NumQueues > 0
    /\ AddrRegs \in Nat /\ AddrRegs > 0
    /\ FeatureWords \in Seq(0 .. 1) /\ Len(FeatureWords) > 0
    /\ Pacing \subseteq BOOLEAN

NoAddr == -1        \* the vectors start out as 0
NoWord == -1        \* device_features before the first answer

VARIABLES
    \* the registers, in guest DRAM
    status,              \* the status bits this handshake looks at
    sel_generation,
    device_features_sel, \* which word the driver asks for
    device_features,     \* the word the device put there: word w stands for its value
    queue_select, queue_ready,
    queue_addr,          \* the address registers: q stands for a part of q's address
    \* the device thread
    exit_thread_flag,
    pc, curr_sel_generation, prev_sel_generation, queue_select_val,
    reg,                 \* the address register it reads next
    addresses,           \* descriptor_table_address, available_ring_address and
                         \* used_ring_address, in the parts they are read in
    \* the driver
    dpc,
    step,        \* the feature word or the queue it is at
    wreg,        \* the address register it writes next
    awaited,     \* the generation it wrote
    got,         \* the feature words it read, in order
    paced        \* TRUE: slow enough that its first queue is not ready before
                 \* the device has seen FEATURES_OK

registers == <<status, sel_generation, device_features_sel, device_features,
               queue_select, queue_addr, queue_ready>>
selection == <<status, device_features_sel, queue_select, queue_addr>>
device == <<exit_thread_flag, pc, curr_sel_generation, prev_sel_generation,
            queue_select_val, reg, addresses>>
locals == <<curr_sel_generation, prev_sel_generation, queue_select_val, reg,
            addresses>>
driver == <<dpc, step, wreg, awaited, got, paced>>
vars == <<registers, device, driver>>

\* The constructor has cleared the registers (memset at line 121).
Init ==
    /\ status = {} /\ sel_generation = 0
    /\ device_features_sel = 0 /\ device_features = NoWord
    /\ queue_select = 0 /\ queue_ready = FALSE
    /\ queue_addr = [r \in Regs |-> NoAddr]
    /\ exit_thread_flag = FALSE
    /\ pc = "wait_driver"
    /\ curr_sel_generation = 0 /\ prev_sel_generation = 0 /\ queue_select_val = 0
    /\ reg = 1 /\ addresses = [q \in Queues |-> [r \in Regs |-> NoAddr]]
    /\ dpc = "probe" /\ step = 0 /\ wreg = 1 /\ awaited = 0 /\ got = << >>
    /\ paced \in Pacing

-----------------------------------------------------------------------------
(* The device thread *)

\* A loop that waits for a status bit: it ends on the bit or on the exit flag.
AwaitStatus(here, bit, next) ==
    /\ pc = here
    /\ exit_thread_flag \/ bit \in status
    /\ pc' = next
    /\ UNCHANGED <<registers, exit_thread_flag, locals, driver>>

WaitDriver == AwaitStatus("wait_driver", "DRIVER", "f_read")

WaitDriverOk == AwaitStatus("wait_driver_ok", "DRIVER_OK", "done")

\* A round of the first stage: a generation that is not ours is a request.
FeatureRead ==
    /\ pc = "f_read"
    /\ IF exit_thread_flag
       THEN pc' = "q_read" /\ UNCHANGED curr_sel_generation
       ELSE /\ curr_sel_generation' = sel_generation
            /\ pc' = IF sel_generation # prev_sel_generation THEN "f_answer" ELSE "f_status"
    /\ UNCHANGED <<registers, exit_thread_flag, prev_sel_generation, queue_select_val,
                   reg, addresses, driver>>

\* Mutant of AnsweredWord: the selector ignored.
AnsweredWordFixed == 0

\* device_features_list[*device_features_sel].
AnsweredWord == device_features_sel

\* The store to driver_features that follows is left out: nobody reads it back.
FeatureAnswer ==
    /\ pc = "f_answer"
    /\ device_features' = AnsweredWord
    /\ pc' = "f_ack"
    /\ UNCHANGED <<selection, sel_generation, queue_ready, exit_thread_flag, locals,
                   driver>>

\* Mutant of Acknowledge: our own acknowledgement is taken for a request.
AcknowledgeNoMemory(next) ==
    /\ sel_generation' = curr_sel_generation + 1
    /\ pc' = next
    /\ UNCHANGED <<prev_sel_generation, selection, device_features, queue_ready,
                   exit_thread_flag, curr_sel_generation, queue_select_val,
                   reg, addresses, driver>>

\* sel_generation and prev_sel_generation become the generation read plus one.
Acknowledge(next) ==
    /\ sel_generation' = curr_sel_generation + 1
    /\ prev_sel_generation' = curr_sel_generation + 1
    /\ pc' = next
    /\ UNCHANGED <<selection, device_features, queue_ready, exit_thread_flag,
                   curr_sel_generation, queue_select_val, reg, addresses,
                   driver>>

FeatureAck == pc = "f_ack" /\ Acknowledge("f_status")

FeatureStatus ==
    /\ pc = "f_status"
    /\ pc' = IF "FEATURES_OK" \in status THEN "q_read" ELSE "f_read"
    /\ UNCHANGED <<registers, exit_thread_flag, locals, driver>>

QueueRead ==
    /\ pc = "q_read"
    /\ IF exit_thread_flag
       THEN pc' = "wait_driver_ok" /\ UNCHANGED curr_sel_generation
       ELSE curr_sel_generation' = sel_generation /\ pc' = "q_clear"
    /\ UNCHANGED <<registers, exit_thread_flag, prev_sel_generation, queue_select_val,
                   reg, addresses, driver>>

\* *queue_ready = 0 in every round, whether or not there is a request.
ReadyAfterPoll == FALSE

\* Mutant of Requested: every round taken for a request.
RequestedAlways == TRUE

\* A generation that is not ours is a request.
Requested == curr_sel_generation # prev_sel_generation

QueueClear ==
    /\ pc = "q_clear"
    /\ queue_ready' = ReadyAfterPoll
    /\ pc' = IF Requested THEN "q_select" ELSE "q_read"
    /\ UNCHANGED <<selection, sel_generation, device_features, exit_thread_flag, locals,
                   driver>>

QueueSelect ==
    /\ pc = "q_select"
    /\ queue_select_val' = queue_select
    /\ reg' = 1
    /\ pc' = "q_address"
    /\ UNCHANGED <<registers, exit_thread_flag, curr_sel_generation,
                   prev_sel_generation, addresses, driver>>

\* Mutant of LastRegister: the last register is not read.
LastRegisterEarly == reg >= AddrRegs - 1

LastRegister == reg = AddrRegs

\* One of the loads of lines 265-267, and its place in the vectors.
QueueAddress ==
    /\ pc = "q_address"
    /\ addresses' = [addresses EXCEPT ![queue_select_val][reg] = queue_addr[reg]]
    /\ IF LastRegister THEN pc' = "q_ack" /\ UNCHANGED reg
                       ELSE reg' = reg + 1 /\ UNCHANGED pc
    /\ UNCHANGED <<registers, exit_thread_flag, curr_sel_generation,
                   prev_sel_generation, queue_select_val, driver>>

\* Mutant of LastQueue: the stage ends at the first queue.
FirstQueueIsLast == TRUE

LastQueue == queue_select_val = NumQueues - 1

QueueAck ==
    /\ pc = "q_ack"
    /\ Acknowledge(IF LastQueue THEN "wait_driver_ok" ELSE "q_read")

device_setup ==
    \/ WaitDriver \/ FeatureRead \/ FeatureAnswer \/ FeatureAck \/ FeatureStatus
    \/ QueueRead \/ QueueClear \/ QueueSelect \/ QueueAddress \/ QueueAck
    \/ WaitDriverOk

-----------------------------------------------------------------------------
(* The driver (external) *)

DriverProbe ==
    /\ dpc = "probe"
    /\ status' = status \cup {"DRIVER"}
    /\ dpc' = "select" /\ step' = 1
    /\ UNCHANGED <<sel_generation, device_features_sel, device_features, queue_select,
                   queue_addr, queue_ready, device, wreg, awaited, got, paced>>

DriverSelect ==
    /\ dpc = "select"
    /\ device_features_sel' = FeatureWords[step]
    /\ dpc' = "bump"
    /\ UNCHANGED <<status, sel_generation, device_features, queue_select, queue_addr,
                   queue_ready, device, step, wreg, awaited, got, paced>>

\* One more on sel_generation; then wait for the device's one more.
Bump(here, next) ==
    /\ dpc = here
    /\ sel_generation' = sel_generation + 1 /\ awaited' = sel_generation + 1
    /\ dpc' = next
    /\ UNCHANGED <<selection, device_features, queue_ready, device, step, wreg, got, paced>>

DriverBump == Bump("bump", "await")

DriverRead ==
    /\ dpc = "await" /\ sel_generation # awaited
    /\ got' = Append(got, device_features)
    /\ step' = step + 1
    /\ dpc' = IF step < Len(FeatureWords) THEN "select" ELSE "features_ok"
    /\ UNCHANGED <<registers, device, wreg, awaited, paced>>

DriverFeaturesOk ==
    /\ dpc = "features_ok"
    /\ status' = status \cup {"FEATURES_OK"}
    /\ dpc' = "queue" /\ step' = 0
    /\ UNCHANGED <<sel_generation, device_features_sel, device_features, queue_select,
                   queue_addr, queue_ready, device, wreg, awaited, got, paced>>

DriverQueue ==
    /\ dpc = "queue"
    /\ queue_select' = step
    /\ dpc' = "check"
    /\ UNCHANGED <<status, sel_generation, device_features_sel, device_features,
                   queue_addr, queue_ready, device, step, wreg, awaited, got, paced>>

\* The queue must not be in use already: else the driver gives up.
DriverCheck ==
    /\ dpc = "check"
    /\ IF queue_ready THEN dpc' = "failed" /\ UNCHANGED wreg
                      ELSE dpc' = "address" /\ wreg' = 1
    /\ UNCHANGED <<registers, device, step, awaited, got, paced>>

DriverAddress ==
    /\ dpc = "address"
    /\ queue_addr' = [queue_addr EXCEPT ![wreg] = step]
    /\ IF wreg = AddrRegs THEN dpc' = "ready" /\ UNCHANGED wreg
                          ELSE wreg' = wreg + 1 /\ UNCHANGED dpc
    /\ UNCHANGED <<status, sel_generation, device_features_sel, device_features,
                   queue_select, queue_ready, device, step, awaited, got, paced>>

DriverReady ==
    /\ dpc = "ready"
    /\ queue_ready' = TRUE
    /\ dpc' = "queue_bump"
    /\ UNCHANGED <<selection, sel_generation, device_features, device, step, wreg, awaited, got, paced>>

InFeatureStage == pc \in {"wait_driver", "f_read", "f_answer", "f_ack", "f_status"}

DriverQueueBump ==
    /\ paced => ~ InFeatureStage
    /\ Bump("queue_bump", "queue_await")

DriverQueueDone ==
    /\ dpc = "queue_await" /\ sel_generation # awaited
    /\ IF step < NumQueues - 1
       THEN dpc' = "queue" /\ step' = step + 1
       ELSE dpc' = "driver_ok" /\ UNCHANGED step
    /\ UNCHANGED <<registers, device, wreg, awaited, got, paced>>

DriverOk ==
    /\ dpc = "driver_ok"
    /\ status' = status \cup {"DRIVER_OK"}
    /\ dpc' = "running"
    /\ UNCHANGED <<sel_generation, device_features_sel, device_features, queue_select,
                   queue_addr, queue_ready, device, step, wreg, awaited, got, paced>>

DriverStep ==
    \/ DriverProbe \/ DriverSelect \/ DriverBump \/ DriverRead \/ DriverFeaturesOk
    \/ DriverQueue \/ DriverCheck \/ DriverAddress \/ DriverReady \/ DriverQueueBump
    \/ DriverQueueDone \/ DriverOk

SetExit ==
    /\ ~ exit_thread_flag
    /\ exit_thread_flag' = TRUE
    /\ UNCHANGED <<registers, pc, locals, driver>>

Next == device_setup \/ DriverStep \/ SetExit

\* The device thread and the driver both keep running.
Spec == Init /\ [][Next]_vars /\ WF_vars(device_setup) /\ WF_vars(DriverStep)

-----------------------------------------------------------------------------
(* Properties *)

\* The type of every variable.
TypeOK ==
    /\ status \subseteq {"DRIVER", "FEATURES_OK", "DRIVER_OK"}
    /\ sel_generation \in Nat
    /\ device_features_sel \in 0 .. 1 /\ device_features \in 0 .. 1 \cup {NoWord}
    /\ queue_select \in Queues /\ queue_addr \in [Regs -> Queues \cup {NoAddr}]
    /\ queue_ready \in BOOLEAN /\ exit_thread_flag \in BOOLEAN
    /\ pc \in {"wait_driver", "f_read", "f_answer", "f_ack", "f_status", "q_read",
               "q_clear", "q_select", "q_address", "q_ack", "wait_driver_ok", "done"}
    /\ curr_sel_generation \in Nat /\ prev_sel_generation \in Nat
    /\ queue_select_val \in Queues /\ reg \in Regs
    /\ addresses \in [Queues -> [Regs -> Queues \cup {NoAddr}]]
    /\ dpc \in {"probe", "select", "bump", "await", "features_ok", "queue", "check",
                "address", "ready", "queue_bump", "queue_await", "driver_ok", "running",
                "failed"}
    /\ step \in Nat /\ wreg \in Regs /\ awaited \in Nat
    /\ got \in Seq(0 .. 1 \cup {NoWord}) /\ paced \in Pacing

DriverWaits == dpc \in {"await", "queue_await"} /\ sel_generation = awaited

\* The two sides take turns on sel_generation: the device stores to it only
\* while the driver waits for exactly that, so neither store is lost.
TurnTaking ==
    /\ sel_generation # prev_sel_generation => DriverWaits
    /\ pc \in {"f_answer", "f_ack", "q_select", "q_address", "q_ack"}
          => DriverWaits /\ curr_sel_generation = sel_generation

\* Each feature word the driver reads is the one it asked for, never an
\* earlier answer.
FeaturesMatch ==
    \A i \in 1 .. Len(got) : got[i] = FeatureWords[i]

\* What is recorded under a queue's number was written for that queue, part by
\* part: the loads of queue_select and of the address registers never straddle
\* the driver's stores for the next queue, whatever the two sides' speeds.
AddressesNotMixed ==
    \A q \in Queues, r \in Regs : addresses[q][r] \in {q, NoAddr}

\* A paced driver never finds queue_ready still set from the queue before: the
\* store of 0 comes before the acknowledgement that lets the driver go on.
ReadyCleared == paced => dpc # "failed"

\* What the second stage is for, in the words of its comment: "Stage where we
\* get virtqueue addresses from driver".  A setup that ended, and not by the
\* exit flag, has the addresses of all queues.
AddressesRecorded ==
    pc = "done" /\ ~ exit_thread_flag
        => \A q \in Queues, r \in Regs : addresses[q][r] = q

\* The second stage of device_setup does what it is for with a paced driver.
RecordedWhenPaced == paced => AddressesRecorded

\* A paced driver and the device get through the handshake, or the tool is told
\* to exit; with the exit flag the device thread gets through in any case.
SetupCompletes ==
    /\ paced => <>(exit_thread_flag \/ dpc = "running")
    /\ (paced \/ exit_thread_flag) ~> (pc = "done")
=============================================================================
