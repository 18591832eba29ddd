--------------------------- MODULE HostTool_proofs --------------------------
(***************************************************************************)
(* The process of console/tt-bh-linux, for every number of devices and of  *)
(* chip resets, with windows of the chip that are enough: a restart finds  *)
(* its windows, the guest sees the pulse of one thread alone, and at most  *)
(* one round of a device outlives the guest whose driver set it up.        *)
(***************************************************************************)
EXTENDS HostTool, FiniteSetTheorems, TLAPS

Serving == {"loop", "serve", "raise", "lower"}

\* The memory of a thread is reserved from Create until Free.
BaseInv == \A t \in Threads : base[t] = NoSlot <=> pc[t] \in {"check", "done"}

\* An open file has its windows from Windows until the destructor.
HeldInv == \A t \in held : pc[t] \in Busy

\* The lock is held from the first store of set_interrupt to the second.
LockInv == \A t \in Threads : pc[t] = "lower" <=> lock = t

RegisterInv ==
    /\ \A t \in Devices : pc[t] = "lower" /\ magic[t] => register = {Bit(Irq(t))}
    /\ register # {} /\ process = "running" => lock # NoOne

\* A chip that is down has no magic numbers, and boots once more.
ChipInv ==
    /\ \A t \in Threads : magic[t] => chip = "up"
    /\ chip = "down" => boot <= MaxResets

\* A device in its loop was set up by the guest that runs, or its magic number
\* has gone, or the tool ends.
ShakenInv ==
    \A t \in Devices :
        pc[t] \in Serving /\ magic[t] /\ ~ exit_thread_flag => shaken[t] = boot

\* A round in the guest of a later boot was the first, and the next look at the
\* magic number, or at the flag, ends the loop.
LateInv ==
    \A t \in Devices : late[t] # 0 =>
        /\ late[t] = 1 /\ pc[t] \in {"loop", "raise", "lower", "done"}
        /\ ~ magic[t] \/ exit_thread_flag

ToolInv ==
    /\ TypeOK
    /\ BaseInv /\ HeldInv
    /\ LockInv /\ RegisterInv /\ ChipInv /\ ShakenInv /\ LateInv

-----------------------------------------------------------------------------
(* The steps *)

LEMMA ToolSets ==
    /\ Devices \subseteq Threads /\ Console \in Threads /\ Console \notin Devices
    /\ NoOne \notin Threads /\ NoSlot \notin Slots
    /\ \A t \in Threads : t \in Nat
    /\ \A t \in Devices : t \in 0 .. 2
BY ToolAssumption DEF Devices, Threads, Console, NoOne, NoSlot

\* The actions, each for the threads that take it.
DeviceSteps(t) ==
    \/ Construct(t) \/ Setup(t) \/ SetupExit(t) \/ SetupPasses(t) \/ SetupWild(t)
    \/ Round(t) \/ Serve(t) \/ ServeWild(t) \/ Raise(t) \/ Lower(t)

ThreadSteps(t) ==
    \/ Leave(t) \/ Create(t) \/ Windows(t) \/ Free(t)
    \/ WindowFails(t) \/ FreeStrikes(t)

World == Attach \/ Detach \/ Join \/ ChipReset \/ ChipBoot

LEMMA ToolSteps ==
    ASSUME Next
    PROVE  \/ \E t \in Threads : ThreadSteps(t)
           \/ \E t \in Devices : DeviceSteps(t)
           \/ World
<1>1. CASE \E t \in Threads : Steps(t) \/ FreeStrikes(t)
  <2> SUFFICES ASSUME NEW t \in Threads, Steps(t) \/ FreeStrikes(t)
               PROVE  ThreadSteps(t) \/ (t \in Devices /\ DeviceSteps(t)) \/ World
    BY <1>1
  <2>1. t # Console => t \in Devices
    BY ToolAssumption DEF Threads, Devices, Console
  <2>2. QED  BY <2>1 DEF Steps, Object, device_main, ThreadSteps, DeviceSteps, World
<1>2. CASE ~ \E t \in Threads : Steps(t) \/ FreeStrikes(t)
  BY <1>2 DEF Next, DeviceSteps, World
<1>3. QED  BY <1>1, <1>2

\* What a step does to the objects: nothing, or one of the steps of an object's
\* life, or the end of the process.
Elsewhere ==
    /\ UNCHANGED objects
    /\ \A t \in Threads :
          \/ pc'[t] = pc[t]
          \/ pc[t] \in Busy /\ pc'[t] \in Busy
          \/ pc[t] = "check" /\ pc'[t] = "done"

Ends == \E how \in {"exit 1", "crashed"} : Dies(how)

LEMMA ObjectSteps ==
    ASSUME TypeOK, [Next]_vars
    PROVE  \/ Elsewhere \/ Ends
           \/ \E t \in Threads :
                 Create(t) \/ Windows(t) \/ Free(t) \/ \E from \in Busy : Destroy(t, from)
<1>1. ASSUME NEW t \in Threads, ThreadSteps(t)
      PROVE  Elsewhere \/ Ends \/ Create(t) \/ Windows(t) \/ Free(t)
  <2>1. CASE Leave(t)
    BY <2>1 DEF Leave, Goes, Elsewhere, TypeOK
  <2>2. CASE WindowFails(t) \/ FreeStrikes(t)
    BY <2>2 DEF WindowFails, FreeStrikes, Ends
  <2>3. QED  BY <1>1, <2>1, <2>2 DEF ThreadSteps
<1>2. ASSUME NEW t \in Devices, DeviceSteps(t)
      PROVE  Elsewhere \/ Ends \/ \E from \in Busy : Destroy(t, from)
  <2>1. CASE Construct(t)
    BY <2>1 DEF Construct, Goes, Elsewhere, TypeOK, Busy
  <2>2. CASE Setup(t) \/ SetupExit(t) \/ SetupPasses(t)
    BY <2>2 DEF Setup, SetupExit, SetupPasses, Goes, Elsewhere, TypeOK, Busy
  <2>3. CASE SetupWild(t) \/ ServeWild(t)
    BY <2>3 DEF SetupWild, ServeWild, Ends
  <2>4. CASE Round(t)
    BY <2>4 DEF Round, Goes, Elsewhere, TypeOK, Busy
  <2>5. CASE Serve(t)
    BY <2>5 DEF Serve, Goes, Elsewhere, TypeOK, Busy
  <2>6. CASE Raise(t) \/ Lower(t)
    BY <2>6 DEF Raise, Lower, Goes, Elsewhere, TypeOK, Busy
  <2>7. QED  BY <1>2, <2>1, <2>2, <2>3, <2>4, <2>5, <2>6 DEF DeviceSteps
<1>3. ASSUME World
      PROVE  Elsewhere \/ \E from \in Busy : Destroy(Console, from)
  <2>1. CASE Attach
    BY <2>1 DEF Attach, Goes, Elsewhere, TypeOK, Busy
  <2>2. CASE Detach
    BY <2>2 DEF Detach, Busy
  <2>3. CASE Join \/ ChipReset \/ ChipBoot
    BY <2>3 DEF Join, ChipReset, ChipBoot, Elsewhere
  <2>4. QED  BY <1>3, <2>1, <2>2, <2>3 DEF World
<1>4. CASE UNCHANGED vars
  BY <1>4 DEF vars, Elsewhere
<1>5. QED  BY <1>1, <1>2, <1>3, <1>4, ToolSteps, ToolSets


-----------------------------------------------------------------------------
(* Types *)

LEMMA ToolTypeInit == Init => TypeOK
<1> SUFFICES ASSUME Init PROVE TypeOK
  OBVIOUS
<1>1. /\ process = "running" /\ exit_thread_flag = FALSE /\ quit = FALSE
      /\ held = {} /\ lock = NoOne /\ chip = "up" /\ boot = 1 /\ register = {}
      /\ heirs = {} /\ deaf = {} /\ MaxResets \in Nat
  BY ToolAssumption DEF Init
<1>2. /\ pc \in [Threads -> Busy \cup {"check", "windows", "free", "done"}]
      /\ base \in [Threads -> Slots \cup {NoSlot}]
      /\ space \in [Slots -> [1 .. 2 -> Threads \cup {NoOne}]]
  BY DEF Init
<1>3. /\ magic \in [Threads -> BOOLEAN] /\ device_id \in [Devices -> BOOLEAN]
      /\ shaken \in [Devices -> 0 .. MaxResets + 1] /\ late \in [Devices -> 0 .. 2]
  BY <1>1 DEF Init
<1>4. boot \in 1 .. MaxResets + 1
  BY <1>1
<1>5. QED  BY <1>1, <1>2, <1>3, <1>4 DEF TypeOK

\* The objects' part of the types.
ObjectTypes ==
    /\ pc \in [Threads -> Busy \cup {"check", "windows", "free", "done"}]
    /\ base \in [Threads -> Slots \cup {NoSlot}]
    /\ space \in [Slots -> [1 .. 2 -> Threads \cup {NoOne}]]
    /\ held \subseteq Threads /\ heirs \subseteq Threads \X Threads

LEMMA FreshSlot ==
    ASSUME NEW s \in FirstFit
    PROVE  s \in Slots /\ \A h \in 1 .. 2 : space[s][h] = NoOne
BY DEF FirstFit

LEMMA MoveType ==
    ASSUME TypeOK, [Next]_vars
    PROVE  /\ pc' \in [Threads -> Busy \cup {"check", "windows", "free", "done"}]
           /\ process' \in {"running", "exit 1", "crashed", "finished"}
<1> USE DEF TypeOK, Goes, Busy
<1>1. ASSUME NEW t \in Threads, ThreadSteps(t)
      PROVE  /\ pc' \in [Threads -> Busy \cup {"check", "windows", "free", "done"}]
             /\ process' \in {"running", "exit 1", "crashed", "finished"}
  BY <1>1 DEF ThreadSteps, Leave, Create, Windows, Free, WindowFails, FreeStrikes, Dies
<1>2. ASSUME NEW t \in Devices, DeviceSteps(t)
      PROVE  /\ pc' \in [Threads -> Busy \cup {"check", "windows", "free", "done"}]
             /\ process' \in {"running", "exit 1", "crashed", "finished"}
  <2>1. CASE SetupWild(t) \/ ServeWild(t)
    BY <2>1 DEF SetupWild, ServeWild, Dies
  <2>2. CASE Construct(t) \/ Setup(t) \/ SetupExit(t) \/ SetupPasses(t)
    BY <2>2, ToolSets DEF Construct, Setup, SetupExit, SetupPasses
  <2>3. CASE Round(t)
    BY <2>3, ToolSets DEF Round, Destroy
  <2>4. CASE Serve(t)
    BY <2>4, ToolSets DEF Serve
  <2>5. CASE Raise(t) \/ Lower(t)
    BY <2>5, ToolSets DEF Raise, Lower
  <2>6. QED  BY <1>2, <2>1, <2>2, <2>3, <2>4, <2>5 DEF DeviceSteps
<1>3. ASSUME World
      PROVE  /\ pc' \in [Threads -> Busy \cup {"check", "windows", "free", "done"}]
             /\ process' \in {"running", "exit 1", "crashed", "finished"}
  BY <1>3, ToolSets DEF World, Attach, Detach, Join, ChipReset, ChipBoot, Destroy
<1>4. QED  BY <1>1, <1>2, <1>3, ToolSteps DEF vars

LEMMA ObjectType ==
    ASSUME TypeOK, [Next]_vars
    PROVE  ObjectTypes'
<1>1. pc' \in [Threads -> Busy \cup {"check", "windows", "free", "done"}]
  BY MoveType
<1>2. CASE Elsewhere
  BY <1>1, <1>2 DEF Elsewhere, objects, ObjectTypes, TypeOK
<1>3. CASE Ends
  <2>1. /\ base' = [t \in Threads |-> NoSlot] /\ held' = {} /\ heirs' = {}
        /\ space' = [s \in Slots |-> [h \in 1 .. 2 |-> NoOne]]
    BY <1>3 DEF Ends, Dies
  <2>2. base' \in [Threads -> Slots \cup {NoSlot}]
    BY <2>1
  <2>3. space' \in [Slots -> [1 .. 2 -> Threads \cup {NoOne}]]
    BY <2>1
  <2>4. QED  BY <1>1, <2>1, <2>2, <2>3 DEF ObjectTypes
<1>4. ASSUME NEW t \in Threads, Create(t)
      PROVE  ObjectTypes'
  <2>1. PICK s \in FirstFit :
           /\ base' = [base EXCEPT ![t] = s]
           /\ space' = [space EXCEPT ![s] = [h \in 1 .. 2 |-> t]]
    BY <1>4 DEF Create
  <2>2. s \in Slots
    BY FreshSlot
  <2>3. held' = held /\ heirs' \subseteq Threads \X Threads
    BY <1>4 DEF Create, Dying, TypeOK
  <2>4. QED  BY <1>1, <2>1, <2>2, <2>3 DEF ObjectTypes, TypeOK
<1>5. ASSUME NEW t \in Threads, Windows(t)
      PROVE  ObjectTypes'
  BY <1>1, <1>5 DEF Windows, ObjectTypes, TypeOK
<1>6. ASSUME NEW t \in Threads, Free(t) \/ \E from \in Busy : Destroy(t, from)
      PROVE  ObjectTypes'
  <2>1. /\ space' = [space EXCEPT ![base[t]] = [h \in 1 .. 2 |-> NoOne]]
        /\ base' \in {base, [base EXCEPT ![t] = NoSlot]}
        /\ held' \subseteq held /\ heirs' \subseteq heirs
    BY <1>6 DEF Free, Destroy, Closed
  <2>2. [h \in 1 .. 2 |-> NoOne] \in [1 .. 2 -> Threads \cup {NoOne}]
    OBVIOUS
  <2>3. space' \in [Slots -> [1 .. 2 -> Threads \cup {NoOne}]]
    BY <2>1, <2>2 DEF TypeOK
  <2>4. base' \in [Threads -> Slots \cup {NoSlot}]
    BY <2>1 DEF TypeOK
  <2>5. QED  BY <1>1, <2>1, <2>3, <2>4 DEF ObjectTypes, TypeOK
<1>7. QED  BY <1>2, <1>3, <1>4, <1>5, <1>6, ObjectSteps

\* The rest of the types.
OtherTypes ==
    /\ exit_thread_flag \in BOOLEAN /\ quit \in BOOLEAN
    /\ lock \in Devices \cup {NoOne}
    /\ chip \in {"up", "down"} /\ boot \in 1 .. MaxResets + 1
    /\ register \subseteq 0 .. 31
    /\ magic \in [Threads -> BOOLEAN] /\ device_id \in [Devices -> BOOLEAN]
    /\ shaken \in [Devices -> 0 .. MaxResets + 1]
    /\ late \in [Devices -> 0 .. 2] /\ deaf \subseteq Devices

LEMMA PulseBit ==
    ASSUME NEW t \in Devices
    PROVE  Bit(Irq(t)) \in 0 .. 31
BY ToolSets DEF Bit, Irq

LEMMA LateBound == 0 \in 0 .. 2
OBVIOUS

LEMMA BootBound == 0 \in 0 .. MaxResets + 1
BY ToolAssumption

LEMMA OtherType ==
    ASSUME TypeOK, ChipInv, [Next]_vars
    PROVE  OtherTypes'
<1> USE DEF TypeOK, OtherTypes, Goes
<1>1. ASSUME NEW t \in Threads, ThreadSteps(t)
      PROVE  OtherTypes'
  BY <1>1 DEF ThreadSteps, Leave, Create, Windows, Free, WindowFails, FreeStrikes, Dies, registers
<1>2. ASSUME NEW t \in Devices, DeviceSteps(t)
      PROVE  OtherTypes'
  <2>1. CASE Construct(t)
    BY <2>1, ToolSets DEF Construct
  <2>2. CASE Setup(t)
    BY <2>2 DEF Setup
  <2>3. CASE SetupExit(t) \/ SetupPasses(t)
    BY <2>3 DEF SetupExit, SetupPasses, registers
  <2>9. CASE Serve(t)
    <3>1. late' \in [Devices -> 0 .. 2]
      BY <2>9 DEF Serve
    <3>2. QED  BY <2>9, <3>1 DEF Serve
  <2>4. CASE SetupWild(t) \/ ServeWild(t)
    BY <2>4 DEF SetupWild, ServeWild, Dies, registers
  <2>5. CASE Round(t)
    <3>1. /\ shaken' \in {shaken, [shaken EXCEPT ![t] = 0]}
          /\ late' \in {late, [late EXCEPT ![t] = 0]} /\ deaf' \subseteq deaf
          /\ UNCHANGED <<exit_thread_flag, quit, lock, chip, boot, register, magic, device_id>>
      BY <2>5 DEF Round
    <3>2. shaken' \in [Devices -> 0 .. MaxResets + 1]
      <4> DEFINE B == 0 .. MaxResets + 1
      <4>1. 0 \in B
        BY BootBound
      <4>2. shaken \in [Devices -> B]
        OBVIOUS
      <4> HIDE DEF B
      <4>3. shaken' \in [Devices -> B]
        BY <3>1, <4>1, <4>2
      <4>4. QED  BY <4>3 DEF B
    <3>3. late' \in [Devices -> 0 .. 2]
      <4> DEFINE R == 0 .. 2
      <4>1. 0 \in R
        BY LateBound
      <4>2. late \in [Devices -> R]
        OBVIOUS
      <4> HIDE DEF R
      <4>3. late' \in [Devices -> R]
        BY <3>1, <4>1, <4>2
      <4>4. QED  BY <4>3 DEF R
    <3>4. QED  BY <3>1, <3>2, <3>3
  <2>6. CASE Raise(t)
    BY <2>6, PulseBit DEF Raise, registers
  <2>7. CASE Lower(t)
    BY <2>7 DEF Lower, registers
  <2>8. QED  BY <1>2, <2>1, <2>2, <2>3, <2>4, <2>5, <2>6, <2>7, <2>9 DEF DeviceSteps
<1>3. ASSUME World
      PROVE  OtherTypes'
  <2>1. CASE Attach
    BY <2>1, ToolSets DEF Attach, Destroy
  <2>2. CASE Detach
    BY <2>2 DEF Detach, Destroy, registers
  <2>3. CASE Join
    BY <2>3 DEF Join, registers
  <2>4. CASE ChipReset
    BY <2>4 DEF ChipReset
  <2>5. CASE ChipBoot
    BY <2>5, ToolAssumption DEF ChipBoot, ChipInv, registers
  <2>6. QED  BY <1>3, <2>1, <2>2, <2>3, <2>4, <2>5 DEF World
<1>4. QED  BY <1>1, <1>2, <1>3, ToolSteps DEF vars, registers

LEMMA ToolTypeStep ==
    ASSUME TypeOK, ChipInv, [Next]_vars
    PROVE  TypeOK'
BY MoveType, ObjectType, OtherType DEF TypeOK, ObjectTypes, OtherTypes


-----------------------------------------------------------------------------
(* The objects and their memory *)

LEMMA BaseStep ==
    ASSUME ToolInv, [Next]_vars
    PROVE  BaseInv'
<1>1. TypeOK /\ BaseInv
  BY DEF ToolInv
<1>2. CASE Elsewhere
  BY <1>1, <1>2 DEF Elsewhere, objects, BaseInv, TypeOK, Busy
<1>3. CASE Ends
  BY <1>3 DEF Ends, Dies, BaseInv
<1>4. ASSUME NEW t \in Threads, Create(t)
      PROVE  BaseInv'
  <2>1. PICK s \in FirstFit : base' = [base EXCEPT ![t] = s]
    BY <1>4 DEF Create
  <2>2. s # NoSlot
    BY FreshSlot, ToolSets
  <2>3. QED  BY <1>1, <1>4, <2>1, <2>2 DEF Create, Goes, BaseInv, TypeOK
<1>5. ASSUME NEW t \in Threads, Windows(t)
      PROVE  BaseInv'
  BY <1>1, <1>5 DEF Windows, Goes, BaseInv, TypeOK
<1>6. ASSUME NEW t \in Threads, NEW from \in Busy, Destroy(t, from)
      PROVE  BaseInv'
  BY <1>1, <1>6 DEF Destroy, Goes, BaseInv, TypeOK, Busy
<1>7. ASSUME NEW t \in Threads, Free(t)
      PROVE  BaseInv'
  BY <1>1, <1>7 DEF Free, Goes, BaseInv, TypeOK
<1>8. QED  BY <1>1, <1>2, <1>3, <1>4, <1>5, <1>6, <1>7, ObjectSteps

LEMMA HeldStep ==
    ASSUME ToolInv, [Next]_vars
    PROVE  HeldInv'
<1>1. TypeOK /\ HeldInv
  BY DEF ToolInv
<1>2. CASE Elsewhere
  BY <1>1, <1>2 DEF Elsewhere, objects, HeldInv, TypeOK, Busy
<1>3. CASE Ends
  BY <1>3 DEF Ends, Dies, HeldInv
<1>4. ASSUME NEW t \in Threads, Create(t) \/ Free(t)
      PROVE  HeldInv'
  <2>1. /\ held' \subseteq held /\ pc[t] \in {"check", "free"}
        /\ \E to : pc' = [pc EXCEPT ![t] = to]
    <3>1. CASE Create(t)
      BY <3>1 DEF Create, Goes
    <3>2. CASE Free(t)
      <4>1. held' \subseteq held
        BY <3>2 DEF Free
      <4>2. QED  BY <3>2, <4>1 DEF Free, Goes
    <3>3. QED  BY <1>4, <3>1, <3>2
  <2>2. t \notin held
    BY <1>1, <2>1 DEF HeldInv, Busy
  <2>3. QED  BY <1>1, <2>1, <2>2 DEF HeldInv, TypeOK
<1>5. ASSUME NEW t \in Threads, Windows(t)
      PROVE  HeldInv'
  BY <1>1, <1>5 DEF Windows, Goes, HeldInv, TypeOK, Busy
<1>6. ASSUME NEW t \in Threads, NEW from \in Busy, Destroy(t, from)
      PROVE  HeldInv'
  BY <1>1, <1>6 DEF Destroy, Closed, Goes, HeldInv, TypeOK
<1>7. QED  BY <1>1, <1>2, <1>3, <1>4, <1>5, <1>6, ObjectSteps


-----------------------------------------------------------------------------
(* The lock, the register, the chip and the driver's setup *)

LEMMA LockStep ==
    ASSUME ToolInv, [Next]_vars
    PROVE  LockInv'
<1> USE DEF LockInv, Goes
<1>1. TypeOK /\ LockInv
  BY DEF ToolInv
<1>2. ASSUME Ends
      PROVE  LockInv'
  BY <1>2, ToolSets DEF Ends, Dies
<1>3. ASSUME lock' = lock, NEW t \in Threads, NEW to, to # "lower", pc[t] # "lower",
             pc' = [pc EXCEPT ![t] = to]
      PROVE  LockInv'
  BY <1>1, <1>3 DEF TypeOK
<1>4. ASSUME NEW t \in Threads, ThreadSteps(t)
      PROVE  LockInv'
  <2>1. CASE WindowFails(t) \/ FreeStrikes(t)
    BY <1>2, <2>1 DEF WindowFails, FreeStrikes, Ends
  <2>2. CASE Leave(t) \/ Create(t) \/ Windows(t) \/ Free(t)
    <3>1. lock' = lock /\ pc[t] # "lower" /\ \E to : to # "lower" /\ pc' = [pc EXCEPT ![t] = to]
      BY <2>2 DEF Leave, Create, Windows, Free
    <3>2. QED  BY <1>3, <3>1
  <2>3. QED  BY <1>4, <2>1, <2>2 DEF ThreadSteps
<1>5. ASSUME NEW t \in Devices, DeviceSteps(t)
      PROVE  LockInv'
  <2>1. CASE SetupWild(t) \/ ServeWild(t)
    BY <1>2, <2>1 DEF SetupWild, ServeWild, Ends
  <2>2. CASE Construct(t) \/ Setup(t) \/ SetupExit(t) \/ SetupPasses(t) \/ Round(t) \/ Serve(t)
    <3>1. lock' = lock /\ pc[t] # "lower" /\ \E to : to # "lower" /\ pc' = [pc EXCEPT ![t] = to]
      BY <2>2 DEF Construct, Setup, SetupExit, SetupPasses, Round, Serve, Destroy
    <3>2. QED  BY <1>3, <3>1, ToolSets
  <2>3. CASE Raise(t)
    BY <1>1, <2>3, ToolSets DEF Raise, Locks, TypeOK
  <2>4. CASE Lower(t)
    BY <1>1, <2>4, ToolSets DEF Lower, TypeOK
  <2>5. QED  BY <1>5, <2>1, <2>2, <2>3, <2>4 DEF DeviceSteps
<1>6. ASSUME World
      PROVE  LockInv'
  <2>1. CASE Attach \/ Detach
    <3>1. /\ lock' = lock /\ pc[Console] # "lower"
          /\ \E to : to # "lower" /\ pc' = [pc EXCEPT ![Console] = to]
      BY <2>1 DEF Attach, Detach, Destroy
    <3>2. QED  BY <1>3, <3>1, ToolSets
  <2>2. CASE Join \/ ChipReset \/ ChipBoot
    BY <1>1, <2>2 DEF Join, ChipReset, ChipBoot
  <2>3. QED  BY <1>6, <2>1, <2>2 DEF World
<1>7. QED  BY <1>1, <1>4, <1>5, <1>6, ToolSteps DEF vars

LEMMA ChipStep ==
    ASSUME ToolInv, [Next]_vars
    PROVE  ChipInv'
<1> USE DEF ChipInv, TypeOK
<1>1. TypeOK /\ ChipInv
  BY DEF ToolInv
<1>2. ASSUME NEW t \in Threads, ThreadSteps(t)
      PROVE  ChipInv'
  BY <1>1, <1>2 DEF ThreadSteps, Leave, Create, Windows, Free, WindowFails, FreeStrikes, Dies, registers
<1>3. ASSUME NEW t \in Devices, DeviceSteps(t)
      PROVE  ChipInv'
  <2>1. CASE Construct(t)
    BY <1>1, <2>1, ToolSets DEF Construct
  <2>2. CASE ~ Construct(t)
    BY <1>1, <1>3, <2>2 DEF DeviceSteps, Setup, SetupExit, SetupPasses, SetupWild, Round,
       Serve, ServeWild, Raise, Lower, Dies, registers
  <2>3. QED  BY <2>1, <2>2
<1>4. ASSUME World
      PROVE  ChipInv'
  <2>1. CASE Attach
    BY <1>1, <2>1, ToolSets DEF Attach
  <2>2. CASE Detach \/ Join
    BY <1>1, <2>2 DEF Detach, Join, registers
  <2>3. CASE ChipReset \/ ChipBoot
    BY <1>1, <2>3 DEF ChipReset, ChipBoot
  <2>4. QED  BY <1>4, <2>1, <2>2, <2>3 DEF World
<1>5. QED  BY <1>1, <1>2, <1>3, <1>4, ToolSteps DEF vars, registers

\* A step after which nobody new is inside set_interrupt, nor has its magic
\* number, leaves the register right if it leaves it alone.
LEMMA RegisterSame ==
    ASSUME RegisterInv, UNCHANGED <<register, lock>>, process' = "running" => process = "running",
           \A t \in Devices : pc'[t] = "lower" /\ magic'[t] => pc[t] = "lower" /\ magic[t]
    PROVE  RegisterInv'
BY DEF RegisterInv

LEMMA RegisterStep ==
    ASSUME ToolInv, [Next]_vars
    PROVE  RegisterInv'
<1> USE DEF Goes
<1>1. TypeOK /\ LockInv /\ RegisterInv /\ ChipInv
  BY DEF ToolInv
<1>2. ASSUME Ends
      PROVE  RegisterInv'
  BY <1>2, ToolSets DEF Ends, Dies, RegisterInv
<1>3. ASSUME NEW t \in Threads, ThreadSteps(t)
      PROVE  RegisterInv'
  <2>1. CASE WindowFails(t) \/ FreeStrikes(t)
    BY <1>2, <2>1 DEF WindowFails, FreeStrikes, Ends
  <2>2. CASE Leave(t) \/ Create(t) \/ Windows(t) \/ Free(t)
    <3>1. /\ UNCHANGED <<register, lock, process, magic>>
          /\ \E to : to # "lower" /\ pc' = [pc EXCEPT ![t] = to]
      BY <2>2 DEF Leave, Create, Windows, Free, registers
    <3>2. \A u \in Devices : pc'[u] = "lower" => pc[u] = "lower"
      BY <1>1, <3>1, ToolSets DEF TypeOK
    <3>3. QED  BY <1>1, <3>1, <3>2, RegisterSame
  <2>3. QED  BY <1>3, <2>1, <2>2 DEF ThreadSteps
<1>4. ASSUME NEW t \in Devices, DeviceSteps(t)
      PROVE  RegisterInv'
  <2>1. CASE SetupWild(t) \/ ServeWild(t)
    BY <1>2, <2>1 DEF SetupWild, ServeWild, Ends
  <2>2. CASE Construct(t) \/ Setup(t) \/ SetupExit(t) \/ SetupPasses(t) \/ Round(t) \/ Serve(t)
    <3>1. /\ UNCHANGED <<register, lock, process>>
          /\ \E m \in BOOLEAN : magic' \in {magic, [magic EXCEPT ![t] = m]}
          /\ \E to : to # "lower" /\ pc' = [pc EXCEPT ![t] = to]
      BY <2>2 DEF Construct, Setup, SetupExit, SetupPasses, Round, Serve, Destroy, registers
    <3>2. \A u \in Devices : pc'[u] = "lower" => u # t /\ pc[u] = "lower"
      BY <1>1, <3>1, ToolSets DEF TypeOK
    <3>3. \A u \in Devices : u # t => magic'[u] = magic[u]
      BY <1>1, <3>1, ToolSets DEF TypeOK
    <3>4. QED  BY <1>1, <3>1, <3>2, <3>3, RegisterSame
  <2>3. CASE Raise(t)
    <3>1. /\ lock = NoOne /\ lock' = t /\ magic' = magic
          /\ pc' = [pc EXCEPT ![t] = "lower"]
          /\ register' = IF chip = "up" THEN {Bit(Irq(t))} ELSE register
      BY <2>3 DEF Raise, Locks, registers
    <3>2. \A u \in Devices : pc'[u] = "lower" => u = t
      BY <1>1, <3>1, ToolSets DEF TypeOK, LockInv
    <3>3. magic[t] => chip = "up"
      BY <1>1, ToolSets DEF ChipInv
    <3>4. QED  BY <3>1, <3>2, <3>3, ToolSets DEF RegisterInv
  <2>4. CASE Lower(t)
    <3>1. /\ lock' = NoOne /\ register' = {} /\ pc[t] = "lower"
          /\ pc' = [pc EXCEPT ![t] = "loop"]
      BY <2>4 DEF Lower
    <3>2. \A u \in Devices : pc'[u] # "lower"
      BY <1>1, <3>1, ToolSets DEF TypeOK, LockInv
    <3>3. QED  BY <3>1, <3>2 DEF RegisterInv
  <2>5. QED  BY <1>4, <2>1, <2>2, <2>3, <2>4 DEF DeviceSteps
<1>5. ASSUME World
      PROVE  RegisterInv'
  <2>1. CASE Attach \/ Detach
    <3>1. /\ UNCHANGED <<register, lock, process>>
          /\ magic' \in {magic, [magic EXCEPT ![Console] = TRUE]}
          /\ \E to : pc' = [pc EXCEPT ![Console] = to]
      BY <2>1 DEF Attach, Detach, Destroy, registers
    <3>2. \A u \in Devices : pc'[u] = pc[u] /\ magic'[u] = magic[u]
      BY <1>1, <3>1, ToolSets DEF TypeOK
    <3>3. QED  BY <1>1, <3>1, <3>2, RegisterSame
  <2>2. CASE ChipReset
    BY <2>2, ToolSets DEF ChipReset, RegisterInv
  <2>3. CASE Join \/ ChipBoot
    BY <1>1, <2>3 DEF Join, ChipBoot, registers, RegisterInv
  <2>4. QED  BY <1>5, <2>1, <2>2, <2>3 DEF World
<1>6. CASE UNCHANGED vars
  BY <1>1, <1>6, RegisterSame DEF vars, registers
<1>7. QED  BY <1>3, <1>4, <1>5, <1>6, ToolSteps


\* A step that neither boots the guest nor takes a device into its loop nor
\* gives a magic number.
LEMMA ShakenSame ==
    ASSUME ShakenInv, boot' = boot, exit_thread_flag => exit_thread_flag',
           \A t \in Devices : pc'[t] \in Serving /\ magic'[t] =>
              pc[t] \in Serving /\ magic[t] /\ shaken'[t] = shaken[t]
    PROVE  ShakenInv'
BY DEF ShakenInv

LEMMA ShakenStep ==
    ASSUME ToolInv, [Next]_vars
    PROVE  ShakenInv'
<1> USE DEF Goes
<1>1. TypeOK /\ ShakenInv /\ ChipInv
  BY DEF ToolInv
<1>2. ASSUME Ends
      PROVE  ShakenInv'
  BY <1>2, ToolSets DEF Ends, Dies, ShakenInv, Serving
<1>3. ASSUME NEW t \in Threads, ThreadSteps(t)
      PROVE  ShakenInv'
  <2>1. CASE WindowFails(t) \/ FreeStrikes(t)
    BY <1>2, <2>1 DEF WindowFails, FreeStrikes, Ends
  <2>2. CASE Leave(t) \/ Create(t) \/ Windows(t) \/ Free(t)
    <3>1. /\ UNCHANGED <<magic, shaken, boot>>
          /\ \E to : to \notin Serving /\ pc' = [pc EXCEPT ![t] = to]
      BY <2>2 DEF Leave, Create, Windows, Free, registers, Serving
    <3>2. exit_thread_flag => exit_thread_flag'
      BY <2>2 DEF Leave, Create, Windows, Free
    <3>3. \A u \in Devices : pc'[u] \in Serving => pc[u] \in Serving
      BY <1>1, <3>1, ToolSets DEF TypeOK
    <3>4. QED  BY <1>1, <3>1, <3>2, <3>3, ShakenSame
  <2>3. QED  BY <1>3, <2>1, <2>2 DEF ThreadSteps
<1>4. ASSUME NEW t \in Devices, DeviceSteps(t)
      PROVE  ShakenInv'
  <2>1. CASE SetupWild(t) \/ ServeWild(t)
    BY <1>2, <2>1 DEF SetupWild, ServeWild, Ends
  <2>2. CASE Construct(t) \/ (Round(t) /\ pc'[t] = "free")
    <3>1. /\ UNCHANGED <<boot, exit_thread_flag>>
          /\ \E m \in BOOLEAN : magic' \in {magic, [magic EXCEPT ![t] = m]}
          /\ shaken' \in {shaken, [shaken EXCEPT ![t] = 0]}
          /\ \E to : to \notin Serving /\ pc' = [pc EXCEPT ![t] = to]
      BY <1>1, <2>2, ToolSets DEF Construct, Round, Destroy, Serving, TypeOK
    <3>2. \A u \in Devices : pc'[u] \in Serving => u # t /\ pc[u] \in Serving
      BY <1>1, <3>1, ToolSets DEF TypeOK
    <3>3. \A u \in Devices : u # t => magic'[u] = magic[u] /\ shaken'[u] = shaken[u]
      BY <1>1, <3>1, ToolSets DEF TypeOK
    <3>4. QED  BY <1>1, <3>1, <3>2, <3>3, ShakenSame
  <2>3. CASE Serve(t) \/ Raise(t) \/ Lower(t) \/ (Round(t) /\ pc'[t] # "free")
    <3>1. /\ UNCHANGED <<boot, exit_thread_flag, magic, shaken>> /\ pc[t] \in Serving
          /\ \E to \in Serving : pc' = [pc EXCEPT ![t] = to]
      BY <1>1, <2>3, ToolSets DEF Serve, Raise, Lower, Round, Destroy, registers, Serving, TypeOK
    <3>2. \A u \in Devices : pc'[u] \in Serving => pc[u] \in Serving
      BY <1>1, <3>1, ToolSets DEF TypeOK
    <3>3. QED  BY <1>1, <3>1, <3>2, ShakenSame
  <2>4. CASE Setup(t)
    <3>1. /\ UNCHANGED <<boot, exit_thread_flag, magic>>
          /\ shaken' = [shaken EXCEPT ![t] = boot]
          /\ pc' = [pc EXCEPT ![t] = "loop"]
      BY <2>4 DEF Setup
    <3>2. \A u \in Devices : IF u = t THEN shaken'[u] = boot
                                      ELSE pc'[u] = pc[u] /\ shaken'[u] = shaken[u]
      BY <1>1, <3>1, ToolSets DEF TypeOK
    <3>3. QED  BY <1>1, <3>1, <3>2 DEF ShakenInv
  <2>5. CASE SetupExit(t) \/ SetupPasses(t)
    <3>1. /\ UNCHANGED <<boot, exit_thread_flag, magic, shaken>>
          /\ pc' = [pc EXCEPT ![t] = "loop"]
          /\ exit_thread_flag \/ chip = "down"
      BY <2>5 DEF SetupExit, GivesUp, SetupPasses, registers
    <3>2. \A u \in Devices : u # t => pc'[u] = pc[u]
      BY <1>1, <3>1, ToolSets DEF TypeOK
    <3>3. exit_thread_flag' \/ ~ magic'[t]
      BY <1>1, <3>1, ToolSets DEF ChipInv
    <3>4. QED  BY <1>1, <3>1, <3>2, <3>3 DEF ShakenInv
  <2>6. QED  BY <1>4, <2>1, <2>2, <2>3, <2>4, <2>5 DEF DeviceSteps
<1>5. ASSUME World
      PROVE  ShakenInv'
  <2>1. CASE Attach \/ Detach
    <3>1. /\ UNCHANGED <<shaken, boot, exit_thread_flag>>
          /\ magic' \in {magic, [magic EXCEPT ![Console] = TRUE]}
          /\ \E to : pc' = [pc EXCEPT ![Console] = to]
      BY <2>1 DEF Attach, Detach, Destroy, registers
    <3>2. \A u \in Devices : pc'[u] = pc[u] /\ magic'[u] = magic[u]
      BY <1>1, <3>1, ToolSets DEF TypeOK
    <3>3. QED  BY <1>1, <3>1, <3>2, ShakenSame
  <2>2. CASE Join
    BY <1>1, <2>2, ShakenSame DEF Join, registers
  <2>3. CASE ChipReset
    BY <2>3, ToolSets DEF ChipReset, ShakenInv
  <2>4. CASE ChipBoot
    BY <1>1, <2>4, ToolSets DEF ChipBoot, registers, ShakenInv, ChipInv
  <2>5. QED  BY <1>5, <2>1, <2>2, <2>3, <2>4 DEF World
<1>6. CASE UNCHANGED vars
  BY <1>1, <1>6, ShakenSame DEF vars, registers
<1>7. QED  BY <1>3, <1>4, <1>5, <1>6, ToolSteps

\* A step that neither serves, nor gives a magic number, nor takes a device out of
\* its loop but to the end.
LEMMA LateSame ==
    ASSUME LateInv, late' = late, exit_thread_flag => exit_thread_flag',
           \A t \in Devices : late[t] # 0 =>
              /\ magic'[t] => magic[t]
              /\ pc'[t] = pc[t] \/ pc'[t] \in {"loop", "raise", "lower", "done"}
    PROVE  LateInv'
BY DEF LateInv

LEMMA LateStep ==
    ASSUME ToolInv, [Next]_vars
    PROVE  LateInv'
<1> USE DEF Goes
<1>1. TypeOK /\ ShakenInv /\ LateInv
  BY DEF ToolInv
<1>2. ASSUME Ends
      PROVE  LateInv'
  <2>1. /\ UNCHANGED <<late, magic, exit_thread_flag>>
        /\ pc' = [t \in Threads |-> "done"]
    BY <1>2 DEF Ends, Dies, registers
  <2>2. \A t \in Devices : pc'[t] = "done"
    BY <2>1, ToolSets
  <2>3. QED  BY <1>1, <2>1, <2>2, LateSame
<1>3. ASSUME NEW t \in Threads, ThreadSteps(t)
      PROVE  LateInv'
  <2>1. CASE WindowFails(t) \/ FreeStrikes(t)
    BY <1>2, <2>1 DEF WindowFails, FreeStrikes, Ends
  <2>2. CASE Leave(t) \/ Create(t) \/ Windows(t) \/ Free(t)
    <3>1. /\ UNCHANGED <<magic, late>> /\ pc[t] \in {"check", "windows", "free"}
          /\ \E to : pc' = [pc EXCEPT ![t] = to]
      BY <2>2 DEF Leave, Create, Windows, Free, registers
    <3>2. exit_thread_flag => exit_thread_flag'
      BY <2>2 DEF Leave, Create, Windows, Free
    <3>3. \A u \in Devices : late[u] # 0 => pc'[u] = pc[u]
      BY <1>1, <3>1, ToolSets DEF TypeOK, LateInv
    <3>4. QED  BY <1>1, <3>1, <3>2, <3>3, LateSame
  <2>3. QED  BY <1>3, <2>1, <2>2 DEF ThreadSteps
<1>4. ASSUME NEW t \in Devices, DeviceSteps(t)
      PROVE  LateInv'
  <2>1. CASE SetupWild(t) \/ ServeWild(t)
    BY <1>2, <2>1 DEF SetupWild, ServeWild, Ends
  <2>2. CASE Construct(t) \/ Setup(t) \/ SetupExit(t) \/ SetupPasses(t)
    <3>1. /\ UNCHANGED <<late, exit_thread_flag>> /\ pc[t] \in {"construct", "setup"}
          /\ \E m \in BOOLEAN : magic' \in {magic, [magic EXCEPT ![t] = m]}
          /\ \E to : pc' = [pc EXCEPT ![t] = to]
      BY <2>2 DEF Construct, Setup, SetupExit, SetupPasses, registers
    <3>2. \A u \in Devices : late[u] # 0 => u # t
      BY <1>1, <3>1 DEF LateInv
    <3>3. \A u \in Devices : u # t => pc'[u] = pc[u] /\ magic'[u] = magic[u]
      BY <1>1, <3>1, ToolSets DEF TypeOK
    <3>4. QED  BY <1>1, <3>1, <3>2, <3>3, LateSame
  <2>3. CASE Raise(t) \/ Lower(t)
    <3>1. /\ UNCHANGED <<late, magic, exit_thread_flag>>
          /\ \E to \in {"lower", "loop"} : pc' = [pc EXCEPT ![t] = to]
      BY <2>3 DEF Raise, Lower, registers
    <3>2. \A u \in Devices : pc'[u] = pc[u] \/ pc'[u] \in {"loop", "lower"}
      BY <1>1, <3>1, ToolSets DEF TypeOK
    <3>3. QED  BY <1>1, <3>1, <3>2, LateSame
  <2>4. CASE Round(t)
    <3>1. CASE ~ exit_thread_flag /\ magic[t]
      <4>1. /\ UNCHANGED <<late, magic, exit_thread_flag>>
            /\ pc' = [pc EXCEPT ![t] = "serve"]
        BY <2>4, <3>1 DEF Round, Alive
      <4>2. late[t] = 0
        BY <1>1, <3>1 DEF LateInv
      <4>3. \A u \in Devices : late[u] # 0 => pc'[u] = pc[u]
        BY <1>1, <4>1, <4>2, ToolSets DEF TypeOK
      <4>4. QED  BY <1>1, <4>1, <4>3, LateSame
    <3>2. CASE ~ (~ exit_thread_flag /\ magic[t])
      <4>1. /\ UNCHANGED <<magic, exit_thread_flag>>
            /\ late' = [late EXCEPT ![t] = 0]
            /\ pc' = [pc EXCEPT ![t] = "free"]
        BY <2>4, <3>2 DEF Round, Alive, Destroy
      <4>2. \A u \in Devices : IF u = t THEN late'[u] = 0
                                ELSE late'[u] = late[u] /\ pc'[u] = pc[u]
        BY <1>1, <4>1, ToolSets DEF TypeOK
      <4>3. QED  BY <1>1, <4>1, <4>2 DEF LateInv
    <3>3. QED  BY <3>1, <3>2
  <2>5. CASE Serve(t)
    <3>1. /\ UNCHANGED <<magic, exit_thread_flag, shaken, boot>> /\ pc[t] = "serve"
          /\ \E to \in {"loop", "raise"} : pc' = [pc EXCEPT ![t] = to]
      BY <2>5 DEF Serve
    <3>2. late[t] = 0
      BY <1>1, <3>1 DEF LateInv
    <3>3. \A u \in Devices : u # t => pc'[u] = pc[u]
      BY <1>1, <3>1, ToolSets DEF TypeOK
    <3>4. pc'[t] \in {"loop", "raise"}
      BY <1>1, <3>1, ToolSets DEF TypeOK
    <3>5. CASE shaken[t] = boot
      <4>1. late' = late
        BY <2>5, <3>5 DEF Serve
      <4>2. QED  BY <1>1, <3>1, <3>3, <3>4, <4>1, LateSame
    <3>6. CASE shaken[t] # boot
      <4>1. late' = [late EXCEPT ![t] = 1]
        BY <2>5, <3>2, <3>6 DEF Serve
      <4>2. \A u \in Devices : late'[u] = IF u = t THEN 1 ELSE late[u]
        BY <1>1, <4>1 DEF TypeOK
      <4>3. ~ magic[t] \/ exit_thread_flag
        BY <1>1, <3>1, <3>6 DEF ShakenInv, Serving
      <4>4. QED  BY <1>1, <3>1, <3>3, <3>4, <4>2, <4>3 DEF LateInv
    <3>7. QED  BY <3>5, <3>6
  <2>6. QED  BY <1>4, <2>1, <2>2, <2>3, <2>4, <2>5 DEF DeviceSteps
<1>5. ASSUME World
      PROVE  LateInv'
  <2>1. CASE Attach \/ Detach
    <3>1. /\ UNCHANGED <<late, exit_thread_flag>>
          /\ magic' \in {magic, [magic EXCEPT ![Console] = TRUE]}
          /\ \E to : pc' = [pc EXCEPT ![Console] = to]
      BY <2>1 DEF Attach, Detach, Destroy, registers
    <3>2. \A u \in Devices : pc'[u] = pc[u] /\ magic'[u] = magic[u]
      BY <1>1, <3>1, ToolSets DEF TypeOK
    <3>3. QED  BY <1>1, <3>1, <3>2, LateSame
  <2>2. CASE Join \/ ChipBoot
    BY <1>1, <2>2, LateSame DEF Join, ChipBoot, registers
  <2>3. CASE ChipReset
    BY <1>1, <2>3, ToolSets, LateSame DEF ChipReset
  <2>4. QED  BY <1>5, <2>1, <2>2, <2>3 DEF World
<1>6. CASE UNCHANGED vars
  BY <1>1, <1>6, LateSame DEF vars, registers
<1>7. QED  BY <1>3, <1>4, <1>5, <1>6, ToolSteps

-----------------------------------------------------------------------------
(* The theorems *)

LEMMA ToolInvInit == Init => ToolInv
<1> SUFFICES ASSUME Init PROVE ToolInv
  OBVIOUS
<1>1. TypeOK
  BY ToolTypeInit
<1>2. /\ \A t \in Threads : pc[t] = "check" /\ base[t] = NoSlot /\ magic[t] = FALSE
      /\ held = {} /\ lock = NoOne /\ register = {} /\ chip = "up"
  BY DEF Init
<1>3. BaseInv /\ HeldInv
  BY <1>2 DEF BaseInv, HeldInv
<1>4. LockInv /\ RegisterInv /\ ChipInv /\ ShakenInv
  BY <1>2, ToolSets DEF LockInv, RegisterInv, ChipInv, ShakenInv
<1>5. LateInv
  BY DEF Init, LateInv
<1>6. QED  BY <1>1, <1>3, <1>4, <1>5 DEF ToolInv

LEMMA ToolInvStep == ToolInv /\ [Next]_vars => ToolInv'
<1> SUFFICES ASSUME ToolInv, [Next]_vars PROVE ToolInv'
  OBVIOUS
<1>1. TypeOK'
  BY ToolTypeStep DEF ToolInv
<1>2. QED
  BY <1>1, BaseStep, HeldStep, LockStep, RegisterStep, ChipStep, ShakenStep, LateStep
     DEF ToolInv

LEMMA ToolInvariant == Spec => []ToolInv
BY ToolInvInit, ToolInvStep, PTL DEF Spec

\* With two windows of the chip for each thread, no restart finds the windows
\* of an earlier object still allocated and ends the tool (tlb.cpp:14-17).
THEOREM PoolSafety ==
    ASSUME Pool >= 2 * (NumDevices + 1)
    PROVE  Spec => []PoolSuffices
<1>1. ToolInv => PoolSuffices
  <2> SUFFICES ASSUME ToolInv, NEW t \in Threads, pc[t] = "windows"
               PROVE  Held + 2 <= Pool
    BY DEF PoolSuffices, ToolInv
  <2>1. held \subseteq Threads \ {t}
    BY DEF ToolInv, HeldInv, TypeOK, Busy
  <2>2. IsFiniteSet(Threads) /\ Cardinality(Threads) = NumDevices + 1
    <3>1. NumDevices \in Int /\ 0 \in Int /\ ~ (0 > NumDevices) /\ NumDevices - 0 + 1 = NumDevices + 1
      BY ToolAssumption
    <3>2. QED  BY <3>1, FS_Interval DEF Threads
  <2>3. IsFiniteSet(Threads \ {t}) /\ Cardinality(Threads \ {t}) = NumDevices
    BY <2>2, FS_RemoveElement, ToolAssumption
  <2>4. IsFiniteSet(held) /\ Cardinality(held) <= NumDevices
    BY <2>1, <2>3, FS_Subset
  <2>5. Cardinality(held) \in Nat
    BY <2>4, FS_CardinalityType
  <2>6. QED  BY <2>4, <2>5, ToolAssumption DEF Held
<1>2. QED  BY <1>1, ToolInvariant, PTL

\* From the first store of set_interrupt to the second, the register has the
\* bit of the interrupt that the device tree gives to the thread's device, and
\* no bit at any other time (virtiodevice.hpp:206-217, boot.py:190-192).
THEOREM PulseSafety == Spec => []PulseWhole
<1>1. ToolInv => PulseWhole
  <2> SUFFICES ASSUME ToolInv PROVE PulseWhole
    OBVIOUS
  <2>1. ASSUME NEW t \in Devices, pc[t] = "lower", magic[t]
        PROVE  \E i \in Nodes : /\ NodeOffset(i) = RegionOffset(t)
                                /\ register = {NodeIrq(i) - 5}
    <3>1. register = {Bit(Irq(t))}
      BY <2>1 DEF ToolInv, RegisterInv
    <3>2. t \in Nodes
      BY ToolSets DEF Nodes
    <3>3. QED  BY <3>1, <3>2 DEF NodeOffset, RegionOffset, NodeIrq, Irq, Bit
  <2>2. register # {} /\ process = "running" => \E t \in Devices : pc[t] = "lower"
    BY ToolSets DEF ToolInv, RegisterInv, LockInv, TypeOK
  <2>3. QED  BY <2>1, <2>2 DEF PulseWhole
<1>2. QED  BY <1>1, ToolInvariant, PTL

\* No device begins a round in a guest whose driver has not set it up, and of the
\* rounds under way at a reset at most one goes on in the guest of the next boot
\* (virtiodevice.hpp:294-296).
THEOREM BootSafety == Spec => OneStaleRound
<1>1. ASSUME ToolInv, [Next]_vars, NEW t \in Devices, pc[t] = "loop", pc'[t] = "serve"
      PROVE  shaken[t] = boot
  <2>1. TypeOK /\ ShakenInv
    BY <1>1 DEF ToolInv
  <2>2. pc[t] \in Serving
    BY <1>1 DEF Serving
  <2>3. ~ exit_thread_flag /\ magic[t]
    <3> USE <1>1, <2>1, ToolSets DEF TypeOK, Goes
    <3>1. ASSUME NEW u \in Threads, ThreadSteps(u)
          PROVE  FALSE
      BY <3>1 DEF ThreadSteps, Leave, Create, Windows, Free, WindowFails, FreeStrikes, Dies
    <3>2. ASSUME NEW u \in Devices, DeviceSteps(u), u # t \/ ~ Round(u)
          PROVE  FALSE
      BY <3>2 DEF DeviceSteps, Construct, Setup, SetupExit, SetupPasses, SetupWild, Round,
         Serve, ServeWild, Raise, Lower, Destroy, Dies
    <3>3. ~ World
      BY DEF World, Attach, Detach, Join, ChipReset, ChipBoot, Destroy
    <3>4. CASE Round(t)
      BY <3>4 DEF Round, Alive, Destroy
    <3>5. QED  BY <3>1, <3>2, <3>3, <3>4, ToolSteps DEF vars
  <2>4. QED  BY <2>1, <2>2, <2>3 DEF ShakenInv
<1>2. ASSUME ToolInv', NEW t \in Devices
      PROVE  late'[t] <= 1
  BY <1>2 DEF ToolInv, LateInv
<1>3. ToolInv /\ ToolInv' /\ [Next]_vars =>
        [\A t \in Devices :
            /\ pc[t] = "loop" /\ pc'[t] = "serve" => shaken[t] = boot
            /\ late'[t] <= 1]_vars
  BY <1>1, <1>2
<1>4. QED  BY <1>3, ToolInvariant, PTL DEF Spec, OneStaleRound

=============================================================================
