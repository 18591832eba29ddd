------------------------ MODULE VirtioSetup_proofs -------------------------
(***************************************************************************)
(* The handshake of device_setup is safe for every number of queues, of    *)
(* address registers and every list of feature words.                      *)
(*                                                                         *)
(* The heart is TurnTaking: sel_generation differs from what the device    *)
(* last wrote exactly while the driver waits.  Around it the invariant     *)
(* says what the registers hold at each side's steps (Stages, Words,       *)
(* Selected), and, for a paced driver, how far the device has got when the *)
(* driver moves on (Progress).                                             *)
(***************************************************************************)
EXTENDS VirtioSetup, TLAPS

QueueSteps == {"queue", "check", "address", "ready", "queue_bump", "queue_await",
               "driver_ok", "running", "failed"}

\* All parts of queue q's addresses are recorded.
Whole(q) == \A r \in Regs : addresses[q][r] = q

\* What each side knows of the other's stage.
Stages ==
    /\ "FEATURES_OK" \in status => dpc \in QueueSteps
    /\ pc \in {"q_clear", "q_select", "q_address", "q_ack"} => "FEATURES_OK" \in status
    /\ pc = "q_read" => "FEATURES_OK" \in status \/ exit_thread_flag
    /\ pc = "q_clear" /\ curr_sel_generation # prev_sel_generation
          => DriverWaits /\ curr_sel_generation = sel_generation

\* An answered selection is answered with the selected word.
Words ==
    /\ dpc = "probe" => got = << >>
    /\ dpc \in {"select", "bump", "await"}
          => step \in 1 .. Len(FeatureWords) /\ Len(got) = step - 1
    /\ dpc \in {"bump", "await"} => device_features_sel = FeatureWords[step]
    /\ dpc = "await" /\ (pc = "f_ack" \/ sel_generation # awaited)
          => device_features = device_features_sel
    /\ Len(got) <= Len(FeatureWords)

\* The registers hold one queue's number and addresses while the device reads.
Selected ==
    /\ dpc \in QueueSteps => step \in Queues
    /\ dpc \in {"check", "address", "ready", "queue_bump", "queue_await"}
          => queue_select = step
    /\ dpc = "address" => \A r \in Regs : r < wreg => queue_addr[r] = step
    /\ dpc \in {"ready", "queue_bump", "queue_await"}
          => \A r \in Regs : queue_addr[r] = step
    /\ pc \in {"q_address", "q_ack"} => queue_select_val = step
    /\ pc = "q_address" => \A r \in Regs : r < reg => addresses[step][r] = step
    /\ pc = "q_ack" => Whole(step)

\* With a paced driver: what is done when the driver moves on.
Progress ==
    /\ dpc = "queue_await" => ~ InFeatureStage
    /\ dpc \notin QueueSteps => ~ queue_ready
    /\ dpc \in {"queue", "check"} => ~ queue_ready
    /\ dpc # "failed"
    /\ pc \in {"q_select", "q_address", "q_ack"} => ~ queue_ready
    /\ dpc = "queue_await" /\ sel_generation # awaited
          => ~ queue_ready /\ Whole(step)
    /\ dpc \in QueueSteps => \A q \in Queues : q < step => Whole(q)
    /\ pc \in {"wait_driver_ok", "done"} /\ ~ exit_thread_flag
          => \A q \in Queues : Whole(q)

SetupInv ==
    /\ TypeOK /\ TurnTaking /\ FeaturesMatch /\ AddressesNotMixed
    /\ Stages /\ Words /\ Selected
    /\ paced => Progress

-----------------------------------------------------------------------------

\* The constructor's registers and fresh locals satisfy the invariant.
LEMMA SetupInvInit == Init => SetupInv
<1> SUFFICES ASSUME Init PROVE SetupInv
  OBVIOUS
<1>1. TypeOK
  BY SetupAssumption DEF Init, TypeOK, Queues, Regs, NoAddr, NoWord
<1>2. /\ TurnTaking /\ FeaturesMatch /\ AddressesNotMixed
  BY SetupAssumption
     DEF Init, TurnTaking, FeaturesMatch, AddressesNotMixed, DriverWaits, NoAddr, NoWord
<1>3. Stages /\ Words /\ Selected
  BY SetupAssumption
     DEF Init, Stages, Words, Selected, QueueSteps, DriverWaits, InFeatureStage, NoWord
<1>4. Progress
  BY SetupAssumption
     DEF Init, Progress, QueueSteps, DriverWaits, InFeatureStage, Queues, Regs, Whole
<1>5. QED  BY <1>1, <1>2, <1>3, <1>4 DEF SetupInv

\* The device's steps keep the invariant: an acknowledgement is given only
\* while the driver waits for it.
LEMMA DeviceKeeps == SetupInv /\ device_setup => SetupInv'
<1> SUFFICES ASSUME SetupInv, device_setup PROVE SetupInv'
  OBVIOUS
<1> USE SetupAssumption
    DEF SetupInv, TypeOK, TurnTaking, FeaturesMatch, AddressesNotMixed, Stages,
        Words, Selected, Progress, QueueSteps, DriverWaits, InFeatureStage, Queues,
        NoAddr, NoWord, Regs, Whole, registers, selection, locals, driver
<1>1. CASE WaitDriver    BY <1>1 DEF WaitDriver, AwaitStatus
<1>2. CASE FeatureRead
  <2>1. TypeOK'          BY <1>2 DEF FeatureRead
  <2>2. Stages'          BY <1>2 DEF FeatureRead
  <2>3. QED              BY <1>2, <2>1, <2>2 DEF FeatureRead
<1>3. CASE FeatureAnswer BY <1>3 DEF FeatureAnswer, AnsweredWord
<1>4. CASE FeatureAck    BY <1>4 DEF FeatureAck, Acknowledge
<1>5. CASE FeatureStatus BY <1>5 DEF FeatureStatus
<1>6. CASE QueueRead     BY <1>6 DEF QueueRead
<1>7. CASE QueueClear
  <2>1. ~ queue_ready'   BY <1>7 DEF QueueClear, ReadyAfterPoll
  <2>2. TypeOK'          BY <1>7 DEF QueueClear, ReadyAfterPoll
  <2>3. QED              BY <1>7, <2>1, <2>2 DEF QueueClear, Requested
<1>8. CASE QueueSelect   BY <1>8 DEF QueueSelect
<1>9. CASE QueueAddress
  <2>1. TypeOK'          BY <1>9 DEF QueueAddress, LastRegister
  <2>2. Selected'        BY <1>9 DEF QueueAddress, LastRegister
  <2>3. AddressesNotMixed'
    BY <1>9 DEF QueueAddress
  <2>4. TurnTaking' /\ FeaturesMatch' /\ Stages' /\ Words'
    BY <1>9 DEF QueueAddress, LastRegister
  <2>5. ASSUME paced' PROVE Progress'
    <3>1. /\ paced /\ pc = "q_address" /\ pc' \in {"q_address", "q_ack"} /\ Progress
          /\ UNCHANGED <<dpc, step, exit_thread_flag, queue_ready, sel_generation, awaited>>
      BY <1>9, <2>5 DEF QueueAddress
    <3>2. queue_addr[reg] = queue_select_val
      BY <1>9 DEF QueueAddress
    <3>3. \A q \in Queues : Whole(q) => Whole(q)'
      BY <1>9, <3>2 DEF QueueAddress
    <3>4. dpc \in QueueSteps => step \in Queues
      BY <3>1
    <3> HIDE DEF Whole, TypeOK, TurnTaking, FeaturesMatch, AddressesNotMixed, Stages,
                 Words, Selected, SetupInv
    <3>5. QED  BY <3>1, <3>3, <3>4
  <2>6. QED
    <3> HIDE DEF TypeOK, Stages, TurnTaking, FeaturesMatch, AddressesNotMixed, Words,
                 Selected, Progress
    <3>1. QED  BY <2>1, <2>2, <2>3, <2>4, <2>5
<1>10. CASE QueueAck     BY <1>10 DEF QueueAck, Acknowledge, LastQueue
<1>11. CASE WaitDriverOk BY <1>11 DEF WaitDriverOk, AwaitStatus
<1>12. QED
  BY <1>1, <1>2, <1>3, <1>4, <1>5, <1>6, <1>7, <1>8, <1>9, <1>10, <1>11 DEF device_setup

\* The driver's steps keep the invariant: it writes sel_generation and the
\* registers it covers only when the device has acknowledged its last write.
LEMMA DriverKeeps == SetupInv /\ DriverStep => SetupInv'
<1> SUFFICES ASSUME SetupInv, DriverStep PROVE SetupInv'
  OBVIOUS
<1> USE SetupAssumption
    DEF SetupInv, TypeOK, TurnTaking, FeaturesMatch, AddressesNotMixed, Stages,
        Words, Selected, Progress, QueueSteps, DriverWaits, InFeatureStage, Queues,
        NoAddr, NoWord, Regs, Whole, registers, selection, device
<1>1. CASE DriverProbe      BY <1>1 DEF DriverProbe
<1>2. CASE DriverSelect     BY <1>2 DEF DriverSelect
<1>3. CASE DriverBump       BY <1>3 DEF DriverBump, Bump
<1>4. CASE DriverRead       BY <1>4 DEF DriverRead
<1>5. CASE DriverFeaturesOk BY <1>5 DEF DriverFeaturesOk
<1>6. CASE DriverQueue      BY <1>6 DEF DriverQueue
<1>7. CASE DriverCheck      BY <1>7 DEF DriverCheck
<1>8. CASE DriverAddress    BY <1>8 DEF DriverAddress
<1>9. CASE DriverReady      BY <1>9 DEF DriverReady
<1>10. CASE DriverQueueBump BY <1>10 DEF DriverQueueBump, Bump
<1>11. CASE DriverQueueDone
  <2>1. TypeOK'             BY <1>11 DEF DriverQueueDone
  <2>2. Stages'             BY <1>11 DEF DriverQueueDone
  <2>3. TurnTaking' /\ FeaturesMatch' /\ AddressesNotMixed'
    BY <1>11 DEF DriverQueueDone
  <2>4. Words' /\ Selected'  BY <1>11 DEF DriverQueueDone
  <2>5. ASSUME paced' PROVE Progress'
    <3>1. /\ paced /\ dpc = "queue_await" /\ sel_generation # awaited
          /\ UNCHANGED <<pc, exit_thread_flag, queue_ready, sel_generation, awaited,
                         addresses>>
      BY <1>11, <2>5 DEF DriverQueueDone
    <3>2. dpc' \in {"queue", "driver_ok"} /\ \A q \in Queues : q < step' => q < step \/ q = step
      BY <1>11 DEF DriverQueueDone
    <3>3. Progress
      BY <3>1
    <3>4. ~ queue_ready /\ \A q \in Queues : q < step' => Whole(q)
      BY <3>1, <3>2, <3>3
    <3>5. \A q \in Queues : q < step' => Whole(q)'
      BY <3>1, <3>4
    <3>6. (\A q \in Queues : Whole(q)) => (\A q \in Queues : Whole(q))'
      BY <3>1
    <3> HIDE DEF Whole, TypeOK, TurnTaking, FeaturesMatch, AddressesNotMixed, Stages,
                 Words, Selected, SetupInv
    <3>7. QED  BY <3>1, <3>2, <3>3, <3>4, <3>5, <3>6
  <2>6. QED
    <3> HIDE DEF TypeOK, Stages, TurnTaking, FeaturesMatch, AddressesNotMixed, Words,
                 Selected, Progress
    <3>1. QED  BY <2>1, <2>2, <2>3, <2>4, <2>5
<1>12. CASE DriverOk        BY <1>12 DEF DriverOk
<1>13. QED
  BY <1>1, <1>2, <1>3, <1>4, <1>5, <1>6, <1>7, <1>8, <1>9, <1>10, <1>11, <1>12
     DEF DriverStep

\* So do setting the exit flag and stuttering.
LEMMA SetupInvNext == SetupInv /\ [Next]_vars => SetupInv'
<1> SUFFICES ASSUME SetupInv, [Next]_vars PROVE SetupInv'
  OBVIOUS
<1>1. CASE device_setup BY <1>1, DeviceKeeps
<1>2. CASE DriverStep   BY <1>2, DriverKeeps
<1>3. CASE SetExit
  BY <1>3 DEF SetExit, SetupInv, TypeOK, TurnTaking, FeaturesMatch,
     AddressesNotMixed, Stages, Words, Selected, Progress, QueueSteps, DriverWaits,
     InFeatureStage, Whole, registers, locals, driver
<1>4. CASE UNCHANGED vars
  BY <1>4 DEF vars, SetupInv, TypeOK, TurnTaking, FeaturesMatch,
     AddressesNotMixed, Stages, Words, Selected, Progress, QueueSteps, DriverWaits,
     InFeatureStage, Whole, registers, device, driver
<1>5. QED
  BY <1>1, <1>2, <1>3, <1>4 DEF Next

\* The invariant of device_setup and its driver.
LEMMA SetupInvAlways == Spec => []SetupInv
BY SetupInvInit, SetupInvNext, PTL DEF Spec

\* The two sides of device_setup's handshake take turns on sel_generation,
\* whatever their speeds.
THEOREM HandshakeTakesTurns == Spec => []TurnTaking
<1>1. SetupInv => TurnTaking
  BY DEF SetupInv
<1>2. QED
  BY <1>1, SetupInvAlways, PTL

\* The driver reads exactly the feature words it selected (line 233).
THEOREM FeaturesAreMatched == Spec => []FeaturesMatch
<1>1. SetupInv => FeaturesMatch
  BY DEF SetupInv
<1>2. QED
  BY <1>1, SetupInvAlways, PTL

\* No queue is ever recorded with a part of another queue's addresses, although
\* the seven loads of lines 262-267 are not one step.
THEOREM AddressesAreNotMixed == Spec => []AddressesNotMixed
<1>1. SetupInv => AddressesNotMixed
  BY DEF SetupInv
<1>2. QED
  BY <1>1, SetupInvAlways, PTL

\* With a paced driver, a setup that ended has every queue's addresses, however
\* many queues there are.
THEOREM PacedSetupRecords == Spec => []RecordedWhenPaced
<1>1. SetupInv => RecordedWhenPaced
  BY DEF SetupInv, Progress, RecordedWhenPaced, AddressesRecorded, Whole
<1>2. QED
  BY <1>1, SetupInvAlways, PTL

\* A paced driver never finds a queue still marked ready (line 260).
THEOREM PacedSetupClearsReady == Spec => []ReadyCleared
<1>1. SetupInv => ReadyCleared
  BY DEF SetupInv, Progress, ReadyCleared
<1>2. QED
  BY <1>1, SetupInvAlways, PTL
=============================================================================
