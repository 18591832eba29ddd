-------------------------------- MODULE Pll --------------------------------
(***************************************************************************)
(* Setting PLL4, the clock of the L2CPUs: L2CPU::set_frequency in          *)
(* console/l2cpu.cpp and set_l2cpu_pll in clock.py, which are the same     *)
(* algorithm.  A setter reads both registers once, then moves its copies   *)
(* one unit at a time towards its target and stores the whole copy after   *)
(* each unit: first the postdivs that must go up, then fbdiv, then the     *)
(* postdivs that must go down.                                             *)
(*                                                                         *)
(* Output i of the PLL runs at a frequency proportional to                 *)
(* fbdiv / postdiv[i].                                                     *)
(*                                                                         *)
(* The constructor of every L2CPU object calls set_frequency, so the       *)
(* threads of the tool run it side by side on the same two registers,      *)
(* without a lock; boot.py calls set_l2cpu_pll.                            *)
(***************************************************************************)
EXTENDS Integers

CONSTANTS Setters,    \* the threads (or the script) that set the clock
          Outputs,    \* the postdiv indices, 0 .. 3 in the code
          Target,     \* Target[s]: fbdiv and postdivs that setter s wants
          Initial     \* the settings the registers may start with

ASSUME PllAssumption ==
    /\ Outputs \subseteq Nat
    /\ \A s \in Setters :
         Target[s].fbdiv \in Nat /\ Target[s].postdiv \in [Outputs -> Nat \ {0}]
    /\ \A i \in Initial :
         i.fbdiv \in Nat /\ i.postdiv \in [Outputs -> Nat \ {0}]

VARIABLES fbdiv,      \* the field of PLL_CNTL_1
          postdiv,    \* PLL_CNTL_5
          pc,         \* per setter
          my_fbdiv, my_postdiv,  \* per setter: current_fbdiv, current_postdivs
          initial     \* history: the setting at the start

vars == <<fbdiv, postdiv, pc, my_fbdiv, my_postdiv, initial>>

Init ==
    /\ initial \in Initial
    /\ fbdiv = initial.fbdiv /\ postdiv = initial.postdiv
    /\ pc = [s \in Setters |-> "read_postdiv"]
    /\ my_fbdiv = [s \in Setters |-> initial.fbdiv]
    /\ my_postdiv = [s \in Setters |-> initial.postdiv]

ReadPostdiv(s) ==
    /\ pc[s] = "read_postdiv"
    /\ my_postdiv' = [my_postdiv EXCEPT ![s] = postdiv]
    /\ pc' = [pc EXCEPT ![s] = "read_fbdiv"]
    /\ UNCHANGED <<fbdiv, postdiv, my_fbdiv, initial>>

ReadFbdiv(s) ==
    /\ pc[s] = "read_fbdiv"
    /\ my_fbdiv' = [my_fbdiv EXCEPT ![s] = fbdiv]
    /\ pc' = [pc EXCEPT ![s] = "step"]
    /\ UNCHANGED <<fbdiv, postdiv, my_postdiv, initial>>

Below(s) == {i \in Outputs : my_postdiv[s][i] < Target[s].postdiv[i]}

\* Mutant of Above: a postdiv that has arrived is lowered once more.
NotBelow(s) == {i \in Outputs : my_postdiv[s][i] >= Target[s].postdiv[i]}

Above(s) == {i \in Outputs : my_postdiv[s][i] > Target[s].postdiv[i]}

\* The for loop over the postdivs is at the first one that is not done.
First(i, S) == i \in S /\ \A j \in S : i <= j

\* Mutant of StepPostdiv: the copy is stored before it is changed.
StepPostdivLate(s, i, by) ==
    /\ my_postdiv' = [my_postdiv EXCEPT ![s][i] = @ + by]
    /\ postdiv' = my_postdiv[s]
    /\ UNCHANGED <<fbdiv, pc, my_fbdiv, initial>>

\* One unit on one postdiv of the copy; the whole copy is stored.
StepPostdiv(s, i, by) ==
    /\ my_postdiv' = [my_postdiv EXCEPT ![s][i] = @ + by]
    /\ postdiv' = my_postdiv'[s]
    /\ UNCHANGED <<fbdiv, pc, my_fbdiv, initial>>

\* Step 1: increase postdivs that need to go up.
RaisePostdiv(s) ==
    /\ pc[s] = "step"
    /\ \E i \in Outputs : First(i, Below(s)) /\ StepPostdiv(s, i, 1)

\* Mutant of OneStep: the whole way at once.
OneStepAll(s) == Target[s].fbdiv - my_fbdiv[s]

OneStep(s) == IF Target[s].fbdiv > my_fbdiv[s] THEN 1 ELSE -1

\* Step 2: adjust fbdiv.
StepFbdiv(s) ==
    /\ pc[s] = "step" /\ Below(s) = {} /\ my_fbdiv[s] # Target[s].fbdiv
    /\ my_fbdiv' = [my_fbdiv EXCEPT ![s] = @ + OneStep(s)]
    /\ fbdiv' = my_fbdiv'[s]
    /\ UNCHANGED <<postdiv, pc, my_postdiv, initial>>

\* Mutants of FbdivDone: step 3 before step 2, and never.
FbdivNotAwaited(s) == TRUE
FbdivPassed(s) == my_fbdiv[s] > Target[s].fbdiv

FbdivDone(s) == my_fbdiv[s] = Target[s].fbdiv

\* Step 3: decrease postdivs that need to go down.
LowerPostdiv(s) ==
    /\ pc[s] = "step" /\ Below(s) = {} /\ FbdivDone(s)
    /\ \E i \in Outputs : First(i, Above(s)) /\ StepPostdiv(s, i, -1)

Reached(s) == Below(s) = {} /\ Above(s) = {} /\ my_fbdiv[s] = Target[s].fbdiv

Return(s) ==
    /\ pc[s] = "step" /\ Reached(s)
    /\ pc' = [pc EXCEPT ![s] = "done"]
    /\ UNCHANGED <<fbdiv, postdiv, my_fbdiv, my_postdiv, initial>>

set_frequency(s) ==
    \/ ReadPostdiv(s) \/ ReadFbdiv(s) \/ RaisePostdiv(s) \/ StepFbdiv(s)
    \/ LowerPostdiv(s) \/ Return(s)

Next == \E s \in Setters : set_frequency(s)

\* Nothing in the loops blocks.
Spec == Init /\ [][Next]_vars /\ \A s \in Setters : WF_vars(set_frequency(s))

-----------------------------------------------------------------------------
(* Properties *)

\* The type of every variable; no postdiv ever becomes zero.
TypeOK ==
    /\ initial \in Initial
    /\ fbdiv \in Nat /\ postdiv \in [Outputs -> Nat \ {0}]
    /\ pc \in [Setters -> {"read_postdiv", "read_fbdiv", "step", "done"}]
    /\ my_fbdiv \in [Setters -> Nat]
    /\ my_postdiv \in [Setters -> [Outputs -> Nat \ {0}]]

\* Output i is at most as fast as under setting t.
NotFaster(i, t) == fbdiv * t.postdiv[i] <= t.fbdiv * postdiv[i]

\* No second setter has started yet (two can interleave: see Settled).
OneStarted ==
    \A s, t \in Setters : pc[s] # "read_postdiv" /\ pc[t] # "read_postdiv" => s = t

\* While one setter is at work no output ever runs faster than it did at the
\* start or will under a target: this is what the order of the three steps of
\* set_frequency is for.
NoOvershoot ==
    OneStarted =>
        \A i \in Outputs :
            \/ NotFaster(i, initial)
            \/ \E s \in Setters : NotFaster(i, Target[s])

\* A setter at work alone changes one divider at a time, by one: its copies of
\* the two registers stay equal to them.
OneUnitAtATime ==
    [][OneStarted =>
         \/ /\ postdiv' = postdiv
            /\ fbdiv' - fbdiv \in {-1, 0, 1}
         \/ /\ fbdiv' = fbdiv
            /\ \E i \in Outputs :
                 /\ postdiv'[i] - postdiv[i] \in {-1, 1}
                 /\ \A j \in Outputs \ {i} : postdiv'[j] = postdiv[j]]_vars

SameTarget == \A s, t \in Setters : Target[s] = Target[t]

\* Setters that want the same setting leave it behind when all have returned,
\* although each stores copies read before the others wrote.
Settled ==
    SameTarget /\ (\A s \in Setters : pc[s] = "done")
        => \A s \in Setters : fbdiv = Target[s].fbdiv /\ postdiv = Target[s].postdiv

\* Every setter returns: its loops compare with # and move by one.
Returns == <>(\A s \in Setters : pc[s] = "done")
=============================================================================
