----------------------------- MODULE Pll_proofs ----------------------------
(***************************************************************************)
(* set_frequency for any number of setters and outputs and any settings.   *)
(*                                                                         *)
(* A setter at work alone: its copies equal the registers (Fresh), and     *)
(* each output is bounded by one of the two settings in both dividers at   *)
(* once (Bounded); that is more than NoOvershoot says, and what the order  *)
(* of the three steps maintains.                                           *)
(*                                                                         *)
(* Setters at work together: a register that is not at the target yet is   *)
(* still to be written by someone (Pending).                               *)
(***************************************************************************)
EXTENDS Pll, TLAPS

Fresh(s) ==
    /\ pc[s] # "read_postdiv" => my_postdiv[s] = postdiv
    /\ pc[s] \in {"step", "done"} => my_fbdiv[s] = fbdiv

Within(i, t) == fbdiv <= t.fbdiv /\ t.postdiv[i] <= postdiv[i]

Bounded ==
    \A i \in Outputs : Within(i, initial) \/ \E s \in Setters : Within(i, Target[s])

AloneInv == OneStarted => Bounded /\ \A s \in Setters : Fresh(s)

PendingFbdiv(s) ==
    \/ pc[s] \in {"read_postdiv", "read_fbdiv"}
    \/ pc[s] = "step" /\ my_fbdiv[s] # Target[s].fbdiv

PendingPostdiv(s) ==
    \/ pc[s] = "read_postdiv"
    \/ pc[s] \in {"read_fbdiv", "step"} /\ my_postdiv[s] # Target[s].postdiv

Pending ==
    SameTarget => \A s \in Setters :
        /\ fbdiv = Target[s].fbdiv \/ \E t \in Setters : PendingFbdiv(t)
        /\ postdiv = Target[s].postdiv \/ \E t \in Setters : PendingPostdiv(t)

PllInv == TypeOK /\ AloneInv /\ Pending

-----------------------------------------------------------------------------

\* Bounded in both dividers is bounded in frequency.
LEMMA SlowerInBoth ==
    ASSUME NEW f \in Nat, NEW g \in Nat, NEW p \in Nat, NEW q \in Nat, f <= g, p <= q
    PROVE  f * p <= g * q
<1>1. f * p <= g * p
  OBVIOUS
<1>2. g * p <= g * q
  OBVIOUS
<1>3. QED
  BY <1>1, <1>2

\* What the end of the loop that raises postdivs says of every postdiv.
LEMMA NoneBelow ==
    ASSUME TypeOK, NEW s \in Setters, Below(s) = {}
    PROVE  \A i \in Outputs : Target[s].postdiv[i] <= my_postdiv[s][i]
<1>1. \A i \in Outputs : Target[s].postdiv[i] \in Nat /\ my_postdiv[s][i] \in Nat
  BY PllAssumption DEF TypeOK
<1>2. \A i \in Outputs : ~ (my_postdiv[s][i] < Target[s].postdiv[i])
  BY DEF Below
<1>3. QED
  BY <1>1, <1>2

\* The same for the loop that lowers them.
LEMMA NoneAbove ==
    ASSUME TypeOK, NEW s \in Setters, Above(s) = {}
    PROVE  \A i \in Outputs : my_postdiv[s][i] <= Target[s].postdiv[i]
<1>1. \A i \in Outputs : Target[s].postdiv[i] \in Nat /\ my_postdiv[s][i] \in Nat
  BY PllAssumption DEF TypeOK
<1>2. \A i \in Outputs : ~ (my_postdiv[s][i] > Target[s].postdiv[i])
  BY DEF Above
<1>3. QED
  BY <1>1, <1>2

\* A setter at work never comes back to its first read.
LEMMA StartedStays ==
    ASSUME TypeOK, NEW s \in Setters, set_frequency(s), OneStarted'
    PROVE  /\ OneStarted
           /\ \A t \in Setters \ {s} : pc[t] = "read_postdiv"
BY DEF TypeOK, set_frequency, OneStarted, ReadPostdiv, ReadFbdiv, RaisePostdiv,
       StepPostdiv, StepFbdiv, LowerPostdiv, Return

\* The invariant holds when nobody has started.
LEMMA PllInvInit == Init => PllInv
<1> SUFFICES ASSUME Init PROVE PllInv
  OBVIOUS
<1>1. TypeOK
  BY PllAssumption DEF Init, TypeOK
<1>2. \A i \in Outputs : Within(i, initial)
  <2>1. fbdiv \in Nat /\ \A i \in Outputs : postdiv[i] \in Nat
    BY <1>1 DEF TypeOK
  <2>2. QED
    BY <2>1 DEF Init, Within
<1>3. AloneInv
  BY <1>2 DEF Init, AloneInv, Bounded, Fresh
<1>4. Pending
  BY DEF Init, Pending, PendingFbdiv, PendingPostdiv
<1>5. QED
  BY <1>1, <1>3, <1>4 DEF PllInv

\* Every step of a setter keeps the types: a postdiv is lowered only when it is
\* above a target that is not zero.
LEMMA TypeKept ==
    ASSUME PllInv, NEW s \in Setters, set_frequency(s)
    PROVE  TypeOK'
<1> USE PllAssumption DEF PllInv, TypeOK
<1>1. CASE ReadPostdiv(s)  BY <1>1 DEF ReadPostdiv
<1>2. CASE ReadFbdiv(s)    BY <1>2 DEF ReadFbdiv
<1>3. CASE RaisePostdiv(s) BY <1>3 DEF RaisePostdiv, StepPostdiv
<1>4. CASE StepFbdiv(s)    BY <1>4 DEF StepFbdiv, OneStep
<1>5. CASE LowerPostdiv(s) BY <1>5 DEF LowerPostdiv, StepPostdiv, First, Above
<1>6. CASE Return(s)       BY <1>6 DEF Return
<1>7. QED
  BY <1>1, <1>2, <1>3, <1>4, <1>5, <1>6 DEF set_frequency

\* Every step of a setter keeps the bounds while no second one has started.
LEMMA AloneKept ==
    ASSUME PllInv, NEW s \in Setters, set_frequency(s)
    PROVE  AloneInv'
<1> SUFFICES ASSUME OneStarted' PROVE Bounded' /\ \A t \in Setters : Fresh(t)'
  BY DEF AloneInv
<1>1. Bounded /\ Fresh(s) /\ \A t \in Setters \ {s} : pc[t] = "read_postdiv"
  BY StartedStays DEF PllInv, AloneInv
<1> USE PllAssumption DEF PllInv, TypeOK, Bounded, Within, Fresh
<1>2. CASE ReadPostdiv(s)  BY <1>1, <1>2 DEF ReadPostdiv
<1>3. CASE ReadFbdiv(s)    BY <1>1, <1>3 DEF ReadFbdiv
<1>4. CASE RaisePostdiv(s) BY <1>1, <1>4 DEF RaisePostdiv, StepPostdiv
<1>5. CASE StepFbdiv(s)
  <2>1. \A t \in Setters : Fresh(t)'
    BY <1>1, <1>5 DEF StepFbdiv
  <2>2. \A i \in Outputs : Target[s].postdiv[i] <= postdiv[i]
    BY <1>1, <1>5, NoneBelow DEF StepFbdiv
  <2>3. fbdiv \in Nat /\ Target[s].fbdiv \in Nat /\ fbdiv # Target[s].fbdiv
    BY <1>1, <1>5 DEF StepFbdiv
  <2>4. \/ fbdiv < Target[s].fbdiv /\ fbdiv' = fbdiv + 1
        \/ fbdiv > Target[s].fbdiv /\ fbdiv' = fbdiv - 1
    <3>1. my_fbdiv[s] = fbdiv /\ fbdiv' = my_fbdiv[s] + OneStep(s)
      BY <1>1, <1>5 DEF StepFbdiv
    <3>2. CASE Target[s].fbdiv > fbdiv
      BY ONLY <2>3, <3>1, <3>2 DEF OneStep
    <3>3. CASE ~ (Target[s].fbdiv > fbdiv)
      <4>1. OneStep(s) = -1
        BY <3>1, <3>3 DEF OneStep
      <4>2. QED
        BY ONLY <2>3, <3>1, <3>3, <4>1
    <3>4. QED
      BY <3>2, <3>3
  <2>5. initial' = initial /\ postdiv' = postdiv
    BY <1>5 DEF StepFbdiv
  <2>6. CASE fbdiv < Target[s].fbdiv
    BY <2>1, <2>2, <2>3, <2>4, <2>5, <2>6
  <2>7. CASE fbdiv > Target[s].fbdiv
    <3>1. \A n \in Nat : fbdiv <= n => fbdiv' <= n
      BY <2>3, <2>4, <2>7
    <3>2. QED
      BY <1>1, <2>1, <2>5, <3>1
  <2>8. QED
    BY <2>4, <2>6, <2>7
<1>6. CASE LowerPostdiv(s)
                           BY <1>1, <1>6 DEF LowerPostdiv, StepPostdiv, First, Above, FbdivDone
<1>7. CASE Return(s)       BY <1>1, <1>7 DEF Return
<1>8. QED
  BY <1>2, <1>3, <1>4, <1>5, <1>6, <1>7 DEF set_frequency

\* A setter that stores something else than the target is not done yet.
LEMMA PendingKept ==
    ASSUME PllInv, NEW s \in Setters, set_frequency(s)
    PROVE  Pending'
<1> SUFFICES ASSUME SameTarget PROVE Pending'
  BY DEF Pending, SameTarget
<1> USE PllAssumption DEF PllInv, TypeOK, Pending, SameTarget, PendingFbdiv, PendingPostdiv
<1>1. CASE ReadPostdiv(s)  BY <1>1 DEF ReadPostdiv
<1>2. CASE ReadFbdiv(s)    BY <1>2 DEF ReadFbdiv
<1>3. CASE RaisePostdiv(s) BY <1>3 DEF RaisePostdiv, StepPostdiv
<1>4. CASE StepFbdiv(s)    BY <1>4 DEF StepFbdiv, OneStep
<1>5. CASE LowerPostdiv(s) BY <1>5 DEF LowerPostdiv, StepPostdiv
<1>6. CASE Return(s)
  <2>1. \A i \in Outputs : my_postdiv[s][i] = Target[s].postdiv[i]
    <3>1. \A i \in Outputs : my_postdiv[s][i] \in Nat
      OBVIOUS
    <3>2. \A i \in Outputs : Target[s].postdiv[i] \in Nat
      BY ONLY PllAssumption, s \in Setters
    <3>3. \A i \in Outputs : /\ Target[s].postdiv[i] <= my_postdiv[s][i]
                             /\ my_postdiv[s][i] <= Target[s].postdiv[i]
      BY <1>6, NoneBelow, NoneAbove DEF Return, Reached
    <3>4. QED
      BY ONLY <3>1, <3>2, <3>3
  <2>2. my_postdiv[s] = Target[s].postdiv
    BY <2>1
  <2>3. QED
    BY <1>6, <2>2 DEF Return, Reached
<1>7. QED
  BY <1>1, <1>2, <1>3, <1>4, <1>5, <1>6 DEF set_frequency

\* The invariant of set_frequency.
LEMMA PllInvAlways == Spec => []PllInv
<1>1. PllInv /\ [Next]_vars => PllInv'
  <2> SUFFICES ASSUME PllInv, [Next]_vars PROVE PllInv'
    OBVIOUS
  <2>1. CASE Next
    BY <2>1, TypeKept, AloneKept, PendingKept DEF Next, PllInv
  <2>2. CASE UNCHANGED vars
    BY <2>2 DEF vars, PllInv, TypeOK, AloneInv, OneStarted, Bounded, Within, Fresh,
                Pending, PendingFbdiv, PendingPostdiv
  <2>3. QED
    BY <2>1, <2>2
<1>2. QED
  BY <1>1, PllInvInit, PTL DEF Spec

-----------------------------------------------------------------------------

\* No postdiv register ever becomes zero, and fbdiv stays a number, whoever sets
\* the clock.
THEOREM PllTypeCorrect == Spec => []TypeOK
<1>1. PllInv => TypeOK
  BY DEF PllInv
<1>2. QED
  BY <1>1, PllInvAlways, PTL

\* The order of set_frequency's three steps keeps every output of the PLL at or
\* below its old or its new frequency, for all settings.
THEOREM NeverOvershoots == Spec => []NoOvershoot
<1>1. PllInv => NoOvershoot
  <2> SUFFICES ASSUME PllInv, OneStarted, NEW i \in Outputs
               PROVE  NotFaster(i, initial) \/ \E s \in Setters : NotFaster(i, Target[s])
    BY DEF NoOvershoot
  <2>1. fbdiv \in Nat /\ postdiv[i] \in Nat
    BY DEF PllInv, TypeOK
  <2>2. initial.fbdiv \in Nat /\ initial.postdiv[i] \in Nat
    BY PllAssumption DEF PllInv, TypeOK
  <2>3. \A s \in Setters : Target[s].fbdiv \in Nat /\ Target[s].postdiv[i] \in Nat
    BY PllAssumption
  <2>4. CASE Within(i, initial)
    BY <2>1, <2>2, <2>4, SlowerInBoth DEF Within, NotFaster
  <2>5. ASSUME NEW s \in Setters, Within(i, Target[s]) PROVE NotFaster(i, Target[s])
    BY <2>1, <2>3, <2>5, SlowerInBoth DEF Within, NotFaster
  <2>6. QED
    BY <2>4, <2>5 DEF PllInv, AloneInv, Bounded
<1>2. QED
  BY <1>1, PllInvAlways, PTL

\* Threads that run set_frequency at once, on copies that others overtake, still
\* leave the setting they all want.
THEOREM ThreadsSettle == Spec => []Settled
<1>1. PllInv => Settled
  BY DEF PllInv, Settled, Pending, PendingFbdiv, PendingPostdiv
<1>2. QED
  BY <1>1, PllInvAlways, PTL

\* A setter at work alone moves one divider by one unit per store.
THEOREM StepsAreUnits == Spec => OneUnitAtATime
<1> DEFINE Unit == OneStarted =>
         \/ /\ postdiv' = postdiv
            /\ fbdiv' - fbdiv \in {-1, 0, 1}
         \/ /\ fbdiv' = fbdiv
            /\ \E i \in Outputs :
                 /\ postdiv'[i] - postdiv[i] \in {-1, 1}
                 /\ \A j \in Outputs \ {i} : postdiv'[j] = postdiv[j]
<1>1. PllInv /\ [Next]_vars => [Unit]_vars
  <2> SUFFICES ASSUME PllInv, NEW s \in Setters, set_frequency(s), OneStarted PROVE Unit
    BY DEF Next
  <2> USE DEF PllInv, TypeOK
  <2>1. Fresh(s)
    BY DEF AloneInv
  <2>2. CASE postdiv' = postdiv /\ fbdiv' = fbdiv
    BY <2>2
  <2>3. CASE StepFbdiv(s)
    <3>1. fbdiv \in Nat /\ fbdiv' = fbdiv + OneStep(s) /\ postdiv' = postdiv
      BY <2>1, <2>3 DEF StepFbdiv, Fresh
    <3>2. OneStep(s) = 1 \/ OneStep(s) = -1
      BY DEF OneStep
    <3>3. fbdiv' - fbdiv = OneStep(s)
      BY ONLY <3>1, <3>2
    <3>4. QED
      BY <3>1, <3>2, <3>3
  <2>4. ASSUME NEW i \in Outputs, NEW by \in {-1, 1}, pc[s] = "step",
               StepPostdiv(s, i, by)
        PROVE  Unit
    <3>1. postdiv' = [postdiv EXCEPT ![i] = @ + by] /\ fbdiv' = fbdiv
      BY <2>1, <2>4 DEF StepPostdiv, Fresh
    <3>2. postdiv[i] \in Nat /\ postdiv'[i] = postdiv[i] + by
      BY <3>1
    <3>3. postdiv'[i] - postdiv[i] \in {-1, 1}
      BY ONLY <3>2, by \in {-1, 1}
    <3>4. \A j \in Outputs \ {i} : postdiv'[j] = postdiv[j]
      BY <3>1
    <3>5. QED
      BY <3>1, <3>3, <3>4
  <2>5. QED
    BY <2>2, <2>3, <2>4
    DEF set_frequency, ReadPostdiv, ReadFbdiv, RaisePostdiv, LowerPostdiv, Return
<1>2. QED
  BY <1>1, PllInvAlways, PTL DEF Spec, OneUnitAtATime
=============================================================================
