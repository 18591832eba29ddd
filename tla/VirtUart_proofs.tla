-------------------------- MODULE VirtUart_proofs --------------------------
(***************************************************************************)
(* The ring of console/console.hpp is a FIFO for every BUFFER_SIZE, every  *)
(* set of characters and every number of kills.                            *)
(***************************************************************************)
EXTENDS VirtUart, TLAPS

(* Counts taken modulo the size of a ring.  The provers know division only *)
(* through DivMod.                                                         *)

\* A count is its ring size times its lap number plus its slot.
LEMMA DivMod ==
    ASSUME NEW n \in Nat, n > 0, NEW x \in Nat
    PROVE  /\ x \div n \in Nat
           /\ x % n \in 0 .. n - 1
           /\ x = n * (x \div n) + (x % n)
BY SMT

\* A count equal to p laps plus s is in slot s.
LEMMA ModIs ==
    ASSUME NEW n \in Nat, n > 0, NEW x \in Nat, NEW p \in Int,
           NEW s \in 0 .. n - 1, x = n * p + s
    PROVE  x % n = s
BY SMT

\* Incrementing the slot with wrap-around follows the count.
LEMMA ModSucc ==
    ASSUME NEW n \in Nat, n > 0, NEW x \in Nat
    PROVE  ((x % n) + 1) % n = (x + 1) % n
<1> DEFINE q == x \div n
           r == x % n
<1>1. q \in Nat /\ r \in 0 .. n - 1 /\ x = n * q + r
  BY DivMod
<1> HIDE DEF q, r
<1>2. x + 1 \in Nat
  OBVIOUS
<1>3. CASE r = n - 1
  <2>1. x + 1 = n * (q + 1) + 0
    BY <1>1, <1>3, SMT
  <2>2. (x + 1) % n = 0
    BY <1>1, <1>2, <2>1, ModIs, q + 1 \in Int, 0 \in 0 .. n - 1
  <2>3. n = n * 1 + 0 /\ n % n = 0
    BY ModIs, 0 \in 0 .. n - 1
  <2>4. QED  BY <2>2, <2>3, <1>3, (n - 1) + 1 = n DEF r
<1>4. CASE r # n - 1
  <2>1. x + 1 = n * q + (r + 1) /\ r + 1 \in 0 .. n - 1
    BY <1>1, <1>4, SMT
  <2>2. (x + 1) % n = r + 1
    BY <1>1, <1>2, <2>1, ModIs
  <2>3. r + 1 = n * 0 + (r + 1) /\ r + 1 \in Nat
    BY <2>1, SMT
  <2>4. (r + 1) % n = r + 1
    BY <2>1, <2>3, ModIs
  <2>5. QED  BY <2>2, <2>4 DEF r
<1>5. QED  BY <1>3, <1>4

\* A slot is its own remainder.
LEMMA ModSmall ==
    ASSUME NEW n \in Nat, n > 0, NEW r \in 0 .. n - 1
    PROVE  r % n = r
BY SMT

\* A whole lap leads back to the same slot.
LEMMA ModLap ==
    ASSUME NEW n \in Nat, n > 0, NEW x \in Nat
    PROVE  (x + n) % n = x % n
<1> DEFINE q == x \div n
           r == x % n
<1>1. q \in Nat /\ r \in 0 .. n - 1 /\ x = n * q + r
  BY DivMod
<1> HIDE DEF q, r
<1>2. x + n \in Nat /\ q + 1 \in Int /\ x + n = n * (q + 1) + r
  BY <1>1, SMT
<1>3. (x + n) % n = r
  BY <1>1, <1>2, ModIs
<1>4. QED  BY <1>3 DEF r

\* Two counts less than a lap apart are in different slots.
LEMMA ModDistinct ==
    ASSUME NEW n \in Nat, n > 0, NEW a \in Nat, NEW b \in Nat,
           a < b, b < a + n
    PROVE  a % n # b % n
<1> DEFINE q == a \div n
           p == b \div n
           r == a % n
           s == b % n
<1>1. q \in Nat /\ r \in 0 .. n - 1 /\ a = n * q + r
  BY DivMod
<1>2. p \in Nat /\ s \in 0 .. n - 1 /\ b = n * p + s
  BY DivMod
<1> HIDE DEF q, p, r, s
<1>3. ASSUME r = s  PROVE FALSE
  <2>1. b - a = n * (p - q)
    BY <1>1, <1>2, <1>3, SMT
  <2>2. CASE p - q >= 1
    <3>1. n * (p - q) >= n
      BY <1>1, <1>2, <2>2, SMT
    <3>2. QED  BY <2>1, <3>1, SMT
  <2>3. CASE p - q <= 0
    <3>1. n * (p - q) <= 0
      BY <1>1, <1>2, <2>3, SMT
    <3>2. QED  BY <2>1, <3>1, SMT
  <2>4. QED  BY <1>1, <1>2, <2>2, <2>3, SMT
<1>4. QED  BY <1>3 DEF r, s

-----------------------------------------------------------------------------
\* What Append does, in the form in which the steps below use it.
LEMMA AppendFacts ==
    ASSUME NEW S, NEW s \in Seq(S), NEW e \in S
    PROVE  /\ Append(s, e) \in Seq(S)
           /\ Len(Append(s, e)) = Len(s) + 1
           /\ Append(s, e)[Len(s) + 1] = e
           /\ \A k \in 1 .. Len(s) : Append(s, e)[k] = s[k]
OBVIOUS

\* Every character of a history is a character.
LEMMA HistoryTypes ==
    ASSUME RingInv
    PROVE  /\ Len(sent) \in Nat /\ Len(received) \in Nat
           /\ Len(received) <= Len(sent)
           /\ \A k \in 1 .. Len(sent) : sent[k] \in Chars
           /\ Len(sent) <= Len(received) + N - 1
           /\ N \in Nat /\ N > 0 /\ N > 1
BY NAssumption DEF RingInv, TypeOK, ReceivedIsPrefix, OneSlotFree, Pending

\* The check of push_char: when it passes, two slots are free, so one stays
\* free after the push.
LEMMA CanPushMeansRoom ==
    ASSUME RingInv, can_push
    PROVE  Pending <= N - 2
<1> DEFINE S == Len(sent)
           R == Len(received)
<1>1. S \in Nat /\ R \in Nat /\ R <= S /\ S <= R + N - 1 /\ N \in Nat /\ N > 0
  BY HistoryTypes
<1>2. head = S % N /\ tail = R % N
  BY DEF RingInv, IndicesCount
<1>a. head \in 0 .. N - 1 /\ tail \in 0 .. N - 1
  BY DEF RingInv, TypeOK, Slots
<1>b. head % N = head /\ tail % N = tail
  BY <1>1, <1>a, ModSmall
<1> HIDE DEF S, R
<1>3. (S + 1) % N # R % N
  <2>1. ((head % N) + 1) % N # tail % N
    BY DEF can_push
  <2>2. ((S % N) + 1) % N = (S + 1) % N
    BY <1>1, ModSucc
  <2>3. QED  BY <1>2, <1>b, <2>1, <2>2
<1>4. (R + N) % N = R % N
  BY <1>1, ModLap
<1>5. S + 1 # R + N
  BY <1>3, <1>4
<1>6. QED  BY <1>1, <1>5 DEF Pending, S, R

\* The check of pop_char: when it passes, a character is pending.
LEMMA CanPopMeansPending ==
    ASSUME RingInv, can_pop
    PROVE  Len(received) < Len(sent)
<1>1. Len(sent) # Len(received)
  BY DEF RingInv, IndicesCount, can_pop
<1>2. QED  BY <1>1, HistoryTypes

\* The empty ring satisfies the invariant.
LEMMA InitInv == Init => RingInv
<1> SUFFICES ASSUME Init PROVE RingInv
  OBVIOUS
<1> USE NAssumption
<1>1. Len(sent) = 0 /\ Len(received) = 0 /\ sent \in Seq(Chars) /\ received \in Seq(Chars)
  BY DEF Init
<1>2. 0 % N = 0
  BY ModSmall, 0 \in 0 .. N - 1
<1>3. TypeOK
  BY <1>1 DEF Init, TypeOK, Slots
<1>4. IndicesCount /\ OneSlotFree /\ PendingIntact /\ LocalsCurrent /\ ReceivedIsPrefix
  BY <1>1, <1>2 DEF Init, IndicesCount, OneSlotFree, Pending, PendingIntact,
                    LocalsCurrent, ReceivedIsPrefix
<1>5. QED  BY <1>3, <1>4 DEF RingInv

\* A step that leaves ring and histories alone disturbs only the locals.
LEMMA LocalStep ==
    ASSUME RingInv, UNCHANGED <<ringVars, histVars>>,
           ppc' \in {"idle", "spin", "write", "publish"},
           pchar' \in Chars \cup {NoChar},
           cpc' \in {"idle", "read", "publish"},
           cchar' \in Chars \cup {NoChar},
           kills' \in Nat,
           ppc' \in {"write", "publish"} => Pending <= N - 2,
           LocalsCurrent'
    PROVE  RingInv'
BY DEF RingInv, TypeOK, IndicesCount, OneSlotFree, Pending, PendingIntact,
       ReceivedIsPrefix, ringVars, histVars

\* push_char's store to the buffer hits no pending slot.
LEMMA PushWriteInv == RingInv /\ PushWrite => RingInv'
<1> SUFFICES ASSUME RingInv, PushWrite PROVE RingInv'
  OBVIOUS
<1> DEFINE S == Len(sent)
           R == Len(received)
<1>1. S \in Nat /\ R \in Nat /\ R <= S /\ N \in Nat /\ N > 0
  BY HistoryTypes
<1>2. S <= R + N - 2
  BY <1>1 DEF RingInv, OneSlotFree, Pending, PushWrite
<1>3. head = S % N /\ head \in 0 .. N - 1 /\ pchar \in Chars
      /\ buf \in [0 .. N - 1 -> Chars \cup {NoChar}]
  BY DEF RingInv, IndicesCount, TypeOK, Slots, LocalsCurrent, PushWrite
<1>4. head % N = head
  BY <1>1, <1>3, ModSmall
<1>5. buf' = [buf EXCEPT ![head] = pchar]
  BY <1>4 DEF PushWrite
<1>6. UNCHANGED <<head, tail, sent, received, pchar, cpc, cchar, kills>> /\ ppc' = "publish"
  BY DEF PushWrite, consVars, histVars
<1>7. TypeOK'
  BY <1>3, <1>5, <1>6 DEF RingInv, TypeOK, Slots
<1>8. ASSUME NEW k \in R .. S - 1  PROVE buf'[k % N] = sent[k + 1]
  <2>1. k \in Nat /\ k < S /\ S < k + N
    BY <1>1, <1>2
  <2>2. k % N # S % N
    BY <1>1, <2>1, ModDistinct
  <2>3. k % N \in 0 .. N - 1
    BY <1>1, <2>1, DivMod
  <2>4. buf'[k % N] = buf[k % N]
    BY <1>3, <1>5, <2>2, <2>3
  <2>5. QED  BY <2>4 DEF RingInv, PendingIntact
<1>9. PendingIntact'
  BY <1>8, <1>6 DEF PendingIntact
<1>10. LocalsCurrent'
  BY <1>3, <1>5, <1>6 DEF RingInv, LocalsCurrent
<1>11. IndicesCount' /\ OneSlotFree' /\ ReceivedIsPrefix'
  BY <1>1, <1>2, <1>6 DEF RingInv, IndicesCount, OneSlotFree, Pending, ReceivedIsPrefix
<1>12. QED  BY <1>7, <1>9, <1>10, <1>11 DEF RingInv

\* push_char's store to head publishes the slot just written.
LEMMA PushPublishInv == RingInv /\ PushPublish => RingInv'
<1> SUFFICES ASSUME RingInv, PushPublish PROVE RingInv'
  OBVIOUS
<1> DEFINE S == Len(sent)
           R == Len(received)
<1>1. S \in Nat /\ R \in Nat /\ R <= S /\ N \in Nat /\ N > 0
  BY HistoryTypes
<1>2. S <= R + N - 2
  BY <1>1 DEF RingInv, OneSlotFree, Pending, PushPublish
<1>3. pchar \in Chars /\ sent \in Seq(Chars) /\ buf[S % N] = pchar /\ head = S % N
  BY DEF RingInv, IndicesCount, TypeOK, LocalsCurrent, PushPublish
<1>4. /\ sent' \in Seq(Chars) /\ Len(sent') = S + 1 /\ sent'[S + 1] = pchar
      /\ \A k \in 1 .. S : sent'[k] = sent[k]
  <2>1. sent' = Append(sent, pchar)
    BY DEF PushPublish
  <2>2. QED  BY <1>3, <2>1, AppendFacts
<1>5. head' = (S + 1) % N
  <2>1. ((S % N) + 1) % N = (S + 1) % N
    BY <1>1, ModSucc
  <2>2. QED  BY <1>3, <2>1 DEF PushPublish, Advance
<1>6. (S + 1) % N \in 0 .. N - 1
  BY <1>1, DivMod, S + 1 \in Nat
<1>7. UNCHANGED <<buf, tail, received, cpc, cchar, kills>> /\ ppc' = "idle" /\ pchar' = NoChar
  BY DEF PushPublish, consVars
<1>8. TypeOK'
  BY <1>4, <1>5, <1>6, <1>7 DEF RingInv, TypeOK, Slots
<1>9. ASSUME NEW k \in R .. S  PROVE buf[k % N] = sent'[k + 1]
  <2>1. CASE k = S
    BY <1>3, <1>4, <2>1
  <2>2. CASE k # S
    <3>1. k \in R .. S - 1 /\ k + 1 \in 1 .. S
      BY <1>1, <2>2
    <3>2. QED  BY <1>4, <3>1 DEF RingInv, PendingIntact
  <2>3. QED  BY <2>1, <2>2
<1>10. PendingIntact'
  BY <1>1, <1>4, <1>7, <1>9 DEF PendingIntact
<1>11. LocalsCurrent'
  BY <1>1, <1>4, <1>7 DEF RingInv, LocalsCurrent
<1>12. IndicesCount' /\ OneSlotFree'
  <2>1. IndicesCount'
    BY <1>4, <1>5, <1>7 DEF RingInv, IndicesCount
  <2>2. OneSlotFree'
    BY <1>1, <1>2, <1>4, <1>7 DEF OneSlotFree, Pending
  <2>3. QED  BY <2>1, <2>2
<1>13. ReceivedIsPrefix'
  BY <1>1, <1>4, <1>7 DEF RingInv, ReceivedIsPrefix
<1>14. QED  BY <1>8, <1>10, <1>11, <1>12, <1>13 DEF RingInv

\* pop_char's store to tail receives the oldest pending character.
LEMMA PopPublishInv == RingInv /\ PopPublish => RingInv'
<1> SUFFICES ASSUME RingInv, PopPublish PROVE RingInv'
  OBVIOUS
<1> DEFINE S == Len(sent)
           R == Len(received)
<1>1. S \in Nat /\ R \in Nat /\ R < S /\ S <= R + N - 1 /\ N \in Nat /\ N > 0
      /\ \A k \in 1 .. S : sent[k] \in Chars
  BY HistoryTypes DEF RingInv, LocalsCurrent, PopPublish
<1>2. cchar = sent[R + 1] /\ cchar \in Chars
  BY <1>1 DEF RingInv, LocalsCurrent, PopPublish
<1>3. received \in Seq(Chars) /\ tail = R % N
  BY DEF RingInv, TypeOK, IndicesCount
<1>4. /\ received' \in Seq(Chars) /\ Len(received') = R + 1 /\ received'[R + 1] = cchar
      /\ \A k \in 1 .. R : received'[k] = received[k]
  <2>1. received' = Append(received, cchar)
    BY DEF PopPublish
  <2>2. QED  BY <1>2, <1>3, <2>1, AppendFacts
<1>5. tail' = (R + 1) % N
  <2>1. ((R % N) + 1) % N = (R + 1) % N
    BY <1>1, ModSucc
  <2>2. QED  BY <1>3, <2>1 DEF PopPublish, Advance
<1>6. (R + 1) % N \in 0 .. N - 1
  BY <1>1, DivMod, R + 1 \in Nat
<1>7. UNCHANGED <<buf, head, sent, ppc, pchar, kills>> /\ cpc' = "idle" /\ cchar' = NoChar
  BY DEF PopPublish, prodVars
<1>8. TypeOK'
  BY <1>4, <1>5, <1>6, <1>7 DEF RingInv, TypeOK, Slots
<1>9. PendingIntact'
  BY <1>1, <1>4, <1>7 DEF RingInv, PendingIntact
<1>10. LocalsCurrent'
  BY <1>7 DEF RingInv, LocalsCurrent
<1>11. IndicesCount' /\ OneSlotFree'
  BY <1>1, <1>4, <1>5, <1>7 DEF RingInv, IndicesCount, OneSlotFree, Pending
<1>12. ASSUME NEW k \in 1 .. R + 1  PROVE received'[k] = sent[k]
  <2>1. CASE k = R + 1
    BY <1>2, <1>4, <2>1
  <2>2. CASE k # R + 1
    BY <1>1, <1>4, <2>2 DEF RingInv, ReceivedIsPrefix
  <2>3. QED  BY <2>1, <2>2
<1>13. ReceivedIsPrefix'
  BY <1>1, <1>4, <1>7, <1>12 DEF ReceivedIsPrefix
<1>14. QED  BY <1>8, <1>9, <1>10, <1>11, <1>13 DEF RingInv

\* Every step of the ring preserves the invariant.
LEMMA NextInv == RingInv /\ [Next]_vars => RingInv'
<1> SUFFICES ASSUME RingInv, [Next]_vars PROVE RingInv'
  OBVIOUS
<1>1. ASSUME NEW c \in Chars, PushCall(c)  PROVE RingInv'
  <2>1. LocalsCurrent'
    BY <1>1 DEF RingInv, LocalsCurrent, PushCall, ringVars, consVars, histVars
  <2>2. QED
    BY <1>1, <2>1, LocalStep DEF PushCall, RingInv, TypeOK, consVars
<1>2. CASE PushCheck
  <2>1. Pending <= N - 2
    BY <1>2, CanPushMeansRoom DEF PushCheck
  <2>2. LocalsCurrent'
    BY <1>2 DEF RingInv, LocalsCurrent, PushCheck, ringVars, consVars, histVars
  <2>3. QED
    BY <1>2, <2>1, <2>2, LocalStep DEF PushCheck, RingInv, TypeOK, consVars
<1>3. CASE PushWrite
  BY <1>3, PushWriteInv
<1>4. CASE PushPublish
  BY <1>4, PushPublishInv
<1>5. CASE PopCheck
  <2>1. Len(received) < Len(sent)
    BY <1>5, CanPopMeansPending DEF PopCheck
  <2>2. LocalsCurrent'
    BY <1>5, <2>1 DEF RingInv, LocalsCurrent, PopCheck, ringVars, prodVars, histVars
  <2>3. QED
    BY <1>5, <2>2, LocalStep DEF PopCheck, RingInv, TypeOK, prodVars, OneSlotFree
<1>6. CASE PopRead
  <2> DEFINE R == Len(received)
  <2>1. R \in Nat /\ R < Len(sent) /\ Len(sent) \in Nat
        /\ \A k \in 1 .. Len(sent) : sent[k] \in Chars
    BY <1>6, HistoryTypes DEF RingInv, LocalsCurrent, PopRead
  <2>2. tail = R % N /\ tail % N = tail
    BY HistoryTypes, ModSmall DEF RingInv, IndicesCount, TypeOK, Slots
  <2>3. cchar' = sent[R + 1]
    BY <1>6, <2>1, <2>2 DEF PopRead, RingInv, PendingIntact
  <2>4. sent[R + 1] \in Chars
    BY <2>1
  <2>5. LocalsCurrent'
    BY <1>6, <2>1, <2>3 DEF RingInv, LocalsCurrent, PopRead, ringVars, prodVars, histVars
  <2>6. QED
    BY <1>6, <2>3, <2>4, <2>5, LocalStep DEF PopRead, RingInv, TypeOK, prodVars, OneSlotFree
<1>7. CASE PopPublish
  BY <1>7, PopPublishInv
<1>8. CASE ProducerKilled
  <2>1. LocalsCurrent'
    BY <1>8 DEF RingInv, LocalsCurrent, ProducerKilled, ringVars, consVars, histVars
  <2>2. QED
    BY <1>8, <2>1, LocalStep DEF ProducerKilled, RingInv, TypeOK, consVars
<1>9. CASE ConsumerKilled
  <2>1. LocalsCurrent'
    BY <1>9 DEF RingInv, LocalsCurrent, ConsumerKilled, ringVars, prodVars, histVars
  <2>2. QED
    BY <1>9, <2>1, LocalStep DEF ConsumerKilled, RingInv, TypeOK, prodVars, OneSlotFree
<1>10. CASE UNCHANGED vars
  BY <1>10 DEF vars, RingInv, TypeOK, IndicesCount, OneSlotFree, Pending,
               PendingIntact, LocalsCurrent, ReceivedIsPrefix
<1>11. QED
  BY <1>1, <1>2, <1>3, <1>4, <1>5, <1>6, <1>7, <1>8, <1>9, <1>10 DEF Next, Push, Pop

\* The ring invariant holds in every reachable state, for every BUFFER_SIZE.
THEOREM RingCorrect == Spec => []RingInv
BY InitInv, NextInv, PTL DEF Spec

\* The variables keep their types: no index leaves the buffer.
THEOREM TypeCorrect == Spec => []TypeOK
<1>1. RingInv => TypeOK
  BY DEF RingInv
<1>2. QED  BY <1>1, RingCorrect, PTL

\* No store overwrites a character that is still to be received.
THEOREM NeverOverwrites == Spec => NoOverwrite
<1> DEFINE Safe == \A i \in Slots :
                     (\E k \in Len(received) .. Len(sent) - 1 : k % N = i)
                        => buf'[i] = buf[i]
<1>1. RingInv /\ [Next]_vars => [Safe]_vars
  <2> SUFFICES ASSUME RingInv, Next PROVE Safe
    BY DEF vars
  <2>1. CASE PushWrite
    <3> SUFFICES ASSUME NEW k \in Len(received) .. Len(sent) - 1,
                        k % N \in Slots
                 PROVE  buf'[k % N] = buf[k % N]
      OBVIOUS
    <3>1. k \in Nat /\ k < Len(sent) /\ Len(sent) < k + N /\ N \in Nat /\ N > 0
          /\ Len(sent) \in Nat
      BY <2>1, HistoryTypes DEF RingInv, OneSlotFree, Pending, PushWrite
    <3>2. k % N # Len(sent) % N
      BY <3>1, ModDistinct
    <3>3. head = Len(sent) % N /\ head % N = head
      BY HistoryTypes, ModSmall DEF RingInv, IndicesCount, TypeOK, Slots
    <3>4. QED
      BY <2>1, <3>2, <3>3 DEF PushWrite, RingInv, TypeOK, Slots
  <2>2. CASE ~ PushWrite
    <3>1. buf' = buf
      BY <2>2 DEF Next, Push, Pop, PushCall, PushCheck, PushPublish, PopCheck, PopRead,
                  PopPublish, ProducerKilled, ConsumerKilled, ringVars
    <3>2. QED  BY <3>1
  <2>3. QED  BY <2>1, <2>2
<1>2. QED
  BY <1>1, RingCorrect, PTL DEF Spec, NoOverwrite

\* The ring implements the bounded FIFO channel: published characters are
\* received once each and in order, at most BUFFER_SIZE - 1 pending.
THEOREM RingImplementsFifo == Spec => ImplementsFifo
<1>1. Init => Fifo!Init
  BY DEF Init, Fifo!Init
<1>2. RingInv /\ [Next]_vars => [Fifo!Next]_<<sent, received>>
  <2> SUFFICES ASSUME RingInv, [Next]_vars, ~ UNCHANGED <<sent, received>>
               PROVE  Fifo!Next
    OBVIOUS
  <2>1. PushPublish \/ PopPublish
    BY DEF Next, vars, Push, Pop, PushCall, PushCheck, PushWrite, PopCheck, PopRead,
           ProducerKilled, ConsumerKilled, histVars
  <2>2. CASE PushPublish
    <3>1. pchar \in Chars /\ Len(sent) < Len(received) + (N - 1)
      BY <2>2, HistoryTypes DEF RingInv, LocalsCurrent, OneSlotFree, Pending, PushPublish
    <3>2. Fifo!Send(pchar)
      BY <2>2, <3>1 DEF PushPublish, Fifo!Send
    <3>3. QED  BY <3>1, <3>2 DEF Fifo!Next
  <2>3. CASE PopPublish
    <3>1. cchar = sent[Len(received) + 1] /\ Len(received) < Len(sent)
      BY <2>3 DEF RingInv, LocalsCurrent, PopPublish
    <3>2. Fifo!Receive
      BY <2>3, <3>1 DEF PopPublish, Fifo!Receive
    <3>3. QED  BY <3>2 DEF Fifo!Next
  <2>4. QED  BY <2>1, <2>2, <2>3
<1>3. QED
  BY <1>1, <1>2, RingCorrect, PTL DEF Spec, ImplementsFifo, Fifo!Spec
=============================================================================
