-------------------------- MODULE Console_proofs --------------------------
(***************************************************************************)
(* The console thread: its terminal mode, over any number of chip resets;  *)
(* and, until the chip is reset, what it prints and what it sends, for     *)
(* every BUFFER_SIZE.  The rings' own theorems are those of VirtUart_proofs*)
(* for each of the two rings.                                              *)
(***************************************************************************)
EXTENDS Console, SequenceTheorems, WellFoundedInduction, TLAPS

RxP == INSTANCE VirtUart_proofs WITH
        buf <- rx_buf, head <- rx_head, tail <- rx_tail, ppc <- rx_ppc, pchar <- rx_pchar,
        cpc <- rx_cpc, cchar <- rx_cchar, sent <- rx_sent, received <- rx_received,
        kills <- 0, Chars <- KeyChars, MaxSent <- MaxKeys, MaxKills <- 0

TxP == INSTANCE VirtUart_proofs WITH
        buf <- tx_buf, head <- tx_head, tail <- tx_tail, ppc <- tx_ppc, pchar <- tx_pchar,
        cpc <- tx_cpc, cchar <- tx_cchar, sent <- tx_sent, received <- tx_received,
        kills <- 0, Chars <- OutChars, MaxSent <- MaxOut, MaxKills <- 0

\* What Append does.
LEMMA AppendFacts ==
    ASSUME NEW S, NEW s \in Seq(S), NEW e \in S
    PROVE  /\ Append(s, e) \in Seq(S)
           /\ Len(Append(s, e)) = Len(s) + 1
           /\ Append(s, e)[Len(s) + 1] = e
           /\ \A k \in 1 .. Len(s) : Append(s, e)[k] = s[k]
OBVIOUS

-----------------------------------------------------------------------------
(* The recursion of Decode *)

\* The natural numbers are well-founded: of a set of them one is the least.
\* Applied to the set of lengths at which a fact about keys fails, it proves
\* the fact by induction.
LEMMA LeastElement ==
    ASSUME NEW T, T \subseteq Nat, T # {}
    PROVE  \E x \in T : \A y \in T : ~ (y < x)
<1> DEFINE R == {ss \in Nat \X Nat : ss[1] < ss[2]}
<1>1. IsWellFoundedOn(R, Nat)
  BY NatLessThanWellFounded DEF OpToRel
<1>2. \E x \in T : \A y \in T : ~ (<<y, x>> \in R)
  <2> HIDE DEF R
  <2>1. QED  BY <1>1, WFMin, Zenon
<1>3. QED  BY <1>2

Typed == Seq(KeyChars \cup {CtrlA})

\* What one more key does to the decoder.
Decoded(before, key) ==
    IF before.quit THEN before
    ELSE IF before.esc
    THEN [before EXCEPT !.esc = FALSE, !.quit = (key = Quit)]
    ELSE IF key = CtrlA THEN [before EXCEPT !.esc = TRUE]
    ELSE [before EXCEPT !.out = Append(@, key)]

Nothing == [out |-> << >>, esc |-> FALSE, quit |-> FALSE]

ButLast(keys) == SubSeq(keys, 1, Len(keys) - 1)

\* The right-hand side of Decode's definition, with f for Decode.
Unfold(f, keys) ==
    IF keys = << >> THEN Nothing ELSE Decoded(f[ButLast(keys)], keys[Len(keys)])

UpTo(n) == {keys \in Typed : Len(keys) <= n}

Solves(f, n) == f = [keys \in UpTo(n) |-> Unfold(f, keys)]

LEMMA ShorterKeys ==
    ASSUME NEW keys \in Typed, keys # << >>
    PROVE  /\ ButLast(keys) \in Typed
           /\ Len(keys) \in Nat /\ Len(keys) > 0
           /\ Len(ButLast(keys)) = Len(keys) - 1
<1> DEFINE K == KeyChars \cup {CtrlA}
<1>1. keys \in Seq(K)
  BY DEF Typed
<1> HIDE DEF K
<1>2. Len(keys) \in Nat /\ Len(keys) > 0 /\ \A i \in 1 .. Len(keys) : keys[i] \in K
  BY <1>1
<1>3. /\ SubSeq(keys, 1, Len(keys) - 1) \in Seq(K)
      /\ Len(SubSeq(keys, 1, Len(keys) - 1)) = Len(keys) - 1
  <2> DEFINE m == Len(keys) - 1
  <2>1. 1 \in Int /\ m \in Int /\ m >= 0 /\ \A i \in 1 .. m : keys[i] \in K
    BY <1>2
  <2> HIDE DEF m
  <2>2. /\ SubSeq(keys, 1, m) \in Seq(K)
        /\ Len(SubSeq(keys, 1, m)) = IF 1 <= m THEN m - 1 + 1 ELSE 0
    BY <2>1, SubSeqProperties
  <2>3. Len(SubSeq(keys, 1, m)) = m
    BY <2>1, <2>2
  <2>4. QED  BY <2>2, <2>3 DEF m
<1>4. QED  BY <1>2, <1>3 DEF Typed, ButLast, K

\* There is a solution for the keys up to any length ...
LEMMA Solvable ==
    ASSUME NEW n \in Nat
    PROVE  \E f : Solves(f, n)
<1> DEFINE T == {m \in Nat : ~ \E f : Solves(f, m)}
<1>1. SUFFICES ASSUME T # {}  PROVE FALSE
  OBVIOUS
<1>2. PICK m \in T : \A y \in T : ~ (y < m)
  <2>1. T \subseteq Nat
    OBVIOUS
  <2> HIDE DEF T
  <2>2. QED  BY <1>1, <2>1, LeastElement
<1>3. ASSUME NEW f, \A k \in UpTo(m) : k # << >> => f[ButLast(k)] = Unfold(f, ButLast(k))
      PROVE  FALSE
  <2> DEFINE g == [k \in UpTo(m) |-> Unfold(f, k)]
  <2>1. ASSUME NEW k \in UpTo(m)  PROVE Unfold(g, k) = Unfold(f, k)
    <3>1. CASE k = << >>
      BY <3>1 DEF Unfold
    <3>2. CASE k # << >>
      <4>1. ButLast(k) \in UpTo(m)
        BY <3>2, ShorterKeys DEF UpTo
      <4>2. g[ButLast(k)] = f[ButLast(k)]
        BY <1>3, <3>2, <4>1
      <4>3. QED  BY <3>2, <4>2 DEF Unfold
    <3>3. QED  BY <3>1, <3>2
  <2>2. g = [k \in UpTo(m) |-> Unfold(g, k)]
    <3> DEFINE h == [k \in UpTo(m) |-> Unfold(g, k)]
    <3>1. \A k \in UpTo(m) : g[k] = h[k]
      BY <2>1
    <3>2. QED  BY <3>1
  <2>3. Solves(g, m)
    <3> HIDE DEF g
    <3>1. QED  BY <2>2 DEF Solves
  <2>4. QED  BY <2>3
<1>4. CASE m = 0
  <2>1. \A k \in UpTo(m) : k = << >>
    BY <1>4 DEF UpTo, Typed
  <2>2. \A k \in UpTo(m) : k # << >> => Nothing[ButLast(k)] = Unfold(Nothing, ButLast(k))
    BY <2>1
  <2>3. QED  BY <1>3, <2>2
<1>5. CASE m # 0
  <2>1. m \in Nat /\ m - 1 \in Nat /\ m - 1 < m
    BY <1>5
  <2>2. PICK f : Solves(f, m - 1)
    BY <1>2, <2>1
  <2>3. ASSUME NEW k \in UpTo(m), k # << >>  PROVE f[ButLast(k)] = Unfold(f, ButLast(k))
    <3>1. ButLast(k) \in UpTo(m - 1)
      BY <2>1, <2>3, ShorterKeys DEF UpTo
    <3>2. QED  BY <2>2, <3>1 DEF Solves
  <2>4. QED  BY <1>3, <2>3
<1>6. QED  BY <1>4, <1>5

\* ... and any two agree where both are defined ...
LEMMA Agree ==
    ASSUME NEW n \in Nat, NEW m \in Nat, NEW f, NEW g, Solves(f, n), Solves(g, m),
           NEW keys \in Typed, Len(keys) <= n, Len(keys) <= m
    PROVE  f[keys] = g[keys]
<1> DEFINE Differ == {k \in Typed : Len(k) <= n /\ Len(k) <= m /\ f[k] # g[k]}
           T == {Len(k) : k \in Differ}
<1>1. SUFFICES ASSUME Differ # {}  PROVE FALSE
  OBVIOUS
<1>2. T \subseteq Nat /\ T # {}
  <2>1. \A k \in Differ : Len(k) \in Nat
    BY DEF Typed
  <2>2. QED  BY <1>1, <2>1
<1>3. PICK x \in T : \A y \in T : ~ (y < x)
  <2> HIDE DEF T
  <2>1. QED  BY <1>2, LeastElement
<1>4. PICK k \in Differ : x = Len(k)
  OBVIOUS
<1>5. k \in Typed /\ k \in UpTo(n) /\ k \in UpTo(m) /\ f[k] # g[k]
  BY <1>4 DEF UpTo
<1>6. f[k] = Unfold(f, k) /\ g[k] = Unfold(g, k)
  BY <1>5 DEF Solves
<1>7. k # << >>
  BY <1>5, <1>6 DEF Unfold
<1>8. /\ ButLast(k) \in Typed /\ Len(k) \in Nat
      /\ Len(ButLast(k)) = Len(k) - 1
  BY <1>5, <1>7, ShorterKeys
<1>9. ButLast(k) \notin Differ
  <2>1. Len(ButLast(k)) < x
    BY <1>4, <1>8
  <2>2. ASSUME ButLast(k) \in Differ  PROVE FALSE
    <3>1. Len(ButLast(k)) \in T
      BY <2>2
    <3>2. QED  BY <1>3, <2>1, <3>1
  <2>3. QED  BY <2>2
<1>10. f[ButLast(k)] = g[ButLast(k)]
  <2>1. Len(ButLast(k)) <= n /\ Len(ButLast(k)) <= m
    BY <1>5, <1>8 DEF UpTo
  <2>2. QED  BY <1>8, <1>9, <2>1
<1>11. QED  BY <1>5, <1>6, <1>10 DEF Unfold

\* ... so that together they are the function that Decode names.
LEMMA DecodeUnfolds ==
    ASSUME NEW keys \in Typed
    PROVE  Decode[keys] = Unfold(Decode, keys)
<1> DEFINE Part(n) == CHOOSE f : Solves(f, n)
           Whole == [k \in Typed |-> Part(Len(k))[k]]
<1>1. \A n \in Nat : Solves(Part(n), n)
  BY Solvable
<1> HIDE DEF Part
<1>2. ASSUME NEW k \in Typed  PROVE Whole[k] = Unfold(Whole, k)
  <2>1. Len(k) \in Nat /\ k \in UpTo(Len(k)) /\ Whole[k] = Part(Len(k))[k]
    BY <1>2 DEF UpTo, Typed
  <2>2. Whole[k] = Unfold(Part(Len(k)), k)
    BY <1>1, <2>1 DEF Solves
  <2>3. CASE k = << >>
    BY <2>2, <2>3 DEF Unfold
  <2>4. CASE k # << >>
    <3>1. /\ ButLast(k) \in Typed /\ Len(ButLast(k)) \in Nat
          /\ Len(ButLast(k)) <= Len(k)
      BY <2>4, ShorterKeys
    <3>2. Part(Len(ButLast(k)))[ButLast(k)] = Part(Len(k))[ButLast(k)]
      <4>1. /\ Solves(Part(Len(ButLast(k))), Len(ButLast(k)))
            /\ Solves(Part(Len(k)), Len(k))
        BY <1>1, <2>1, <3>1
      <4>2. Len(ButLast(k)) <= Len(ButLast(k))
        BY <3>1
      <4>3. QED  BY <2>1, <3>1, <4>1, <4>2, Agree
    <3>3. Whole[ButLast(k)] = Part(Len(k))[ButLast(k)]
      BY <3>1, <3>2
    <3>4. QED
      <4> HIDE DEF Whole
      <4>1. QED  BY <2>2, <2>4, <3>3 DEF Unfold
  <2>5. QED  BY <2>3, <2>4
<1>3. Whole = [k \in Typed |-> Unfold(Whole, k)]
  <2> DEFINE h == [k \in Typed |-> Unfold(Whole, k)]
  <2>1. \A k \in Typed : Whole[k] = h[k]
    BY <1>2
  <2>2. QED  BY <2>1
<1> HIDE DEF Whole
<1>4. Decode = [k \in Typed |-> Unfold(Decode, k)]
  BY <1>3 DEF Decode, Typed, Unfold, Decoded, Nothing, ButLast
<1>5. QED  BY <1>4


Decoding == [out : Seq(KeyChars), esc : BOOLEAN, quit : BOOLEAN]

LEMMA DecodedType ==
    ASSUME NEW d \in Decoding, NEW key \in KeyChars \cup {CtrlA}
    PROVE  Decoded(d, key) \in Decoding
<1>1. CASE key = CtrlA
  BY <1>1 DEF Decoding, Decoded
<1>2. CASE key # CtrlA
  <2>1. Append(d.out, key) \in Seq(KeyChars)
    BY <1>2, AppendFacts DEF Decoding
  <2>2. QED  BY <1>2, <2>1 DEF Decoding, Decoded
<1>3. QED  BY <1>1, <1>2

\* By induction on the number of keys.
LEMMA DecodeType ==
    ASSUME NEW keys \in Typed
    PROVE  Decode[keys] \in Decoding
<1> DEFINE Bad == {k \in Typed : Decode[k] \notin Decoding}
           T == {Len(k) : k \in Bad}
<1>1. SUFFICES ASSUME Bad # {}  PROVE FALSE
  OBVIOUS
<1>2. T \subseteq Nat /\ T # {}
  <2>1. \A k \in Bad : Len(k) \in Nat
    BY DEF Typed
  <2>2. QED  BY <1>1, <2>1
<1>3. PICK x \in T : \A y \in T : ~ (y < x)
  <2> HIDE DEF T
  <2>1. QED  BY <1>2, LeastElement
<1>4. PICK k \in Bad : x = Len(k)
  OBVIOUS
<1>5. k \in Typed /\ Decode[k] \notin Decoding /\ Decode[k] = Unfold(Decode, k)
  BY <1>4, DecodeUnfolds
<1>6. Nothing \in Decoding
  BY DEF Nothing, Decoding
<1>7. k # << >>
  BY <1>5, <1>6 DEF Unfold
<1>8. /\ ButLast(k) \in Typed /\ Len(k) \in Nat /\ Len(k) > 0
      /\ Len(ButLast(k)) = Len(k) - 1
  BY <1>5, <1>7, ShorterKeys
<1>9. Decode[ButLast(k)] \in Decoding
  <2>1. Len(ButLast(k)) < x
    BY <1>4, <1>8
  <2>2. ASSUME ButLast(k) \in Bad  PROVE FALSE
    <3>1. Len(ButLast(k)) \in T
      BY <2>2
    <3>2. QED  BY <1>3, <2>1, <3>1
  <2>3. QED  BY <1>8, <2>2
<1>10. k[Len(k)] \in KeyChars \cup {CtrlA}
  BY <1>5, <1>8 DEF Typed
<1>11. QED  BY <1>5, <1>7, <1>9, <1>10, DecodedType DEF Unfold

\* The prefix of a sequence: of every length, one longer, and undisturbed when
\* the sequence grows.
LEMMA PrefixFacts ==
    ASSUME NEW S, NEW s \in Seq(S), NEW n \in 0 .. Len(s)
    PROVE  /\ SubSeq(s, 1, n) \in Seq(S)
           /\ Len(SubSeq(s, 1, n)) = n
           /\ \A i \in 1 .. n : SubSeq(s, 1, n)[i] = s[i]
<1>1. /\ n \in Int /\ 1 \in Int /\ n \in Nat
      /\ \A i \in 1 .. n : s[i] \in S
  OBVIOUS
<1>2. /\ SubSeq(s, 1, n) \in Seq(S)
      /\ Len(SubSeq(s, 1, n)) = IF 1 <= n THEN n - 1 + 1 ELSE 0
      /\ \A i \in 1 .. n - 1 + 1 : SubSeq(s, 1, n)[i] = s[1 + i - 1]
  BY <1>1, SubSeqProperties
<1>3. Len(SubSeq(s, 1, n)) = n
  BY <1>1, <1>2
<1>4. ASSUME NEW i \in 1 .. n  PROVE SubSeq(s, 1, n)[i] = s[i]
  <2>1. i \in 1 .. n - 1 + 1 /\ 1 + i - 1 = i
    BY <1>1
  <2>2. QED  BY <1>2, <2>1
<1>5. QED  BY <1>2, <1>3, <1>4

LEMMA PrefixLonger ==
    ASSUME NEW S, NEW s \in Seq(S), NEW n \in Nat, n < Len(s)
    PROVE  SubSeq(s, 1, n + 1) = Append(SubSeq(s, 1, n), s[n + 1])
<1> DEFINE p == SubSeq(s, 1, n)
           q == SubSeq(s, 1, n + 1)
           e == s[n + 1]
<1>1. n \in 0 .. Len(s) /\ n + 1 \in 0 .. Len(s) /\ e \in S /\ n \in Nat
  OBVIOUS
<1>2. p \in Seq(S) /\ Len(p) = n /\ \A i \in 1 .. n : p[i] = s[i]
  BY <1>1, PrefixFacts
<1>3. q \in Seq(S) /\ Len(q) = n + 1 /\ \A i \in 1 .. n + 1 : q[i] = s[i]
  BY <1>1, PrefixFacts
<1> HIDE DEF p, q
<1>4. /\ Append(p, e) \in Seq(S) /\ Len(Append(p, e)) = n + 1
      /\ Append(p, e)[n + 1] = e
      /\ \A i \in 1 .. n : Append(p, e)[i] = p[i]
  <2> HIDE DEF e
  <2>1. QED  BY <1>1, <1>2, AppendFacts
<1>5. ASSUME NEW i \in 1 .. n + 1  PROVE q[i] = Append(p, e)[i]
  <2>1. CASE i = n + 1
    BY <1>3, <1>4, <2>1
  <2>2. CASE i # n + 1
    <3>1. i \in 1 .. n
      BY <1>1, <2>2
    <3>2. QED  BY <1>2, <1>3, <1>4, <3>1
  <2>3. QED  BY <2>1, <2>2
<1>6. q = Append(p, e)
  <2> HIDE DEF e
  <2>1. QED  BY <1>3, <1>4, <1>5, SeqEqual
<1>7. QED  BY <1>6 DEF p, q

LEMMA PrefixKept ==
    ASSUME NEW S, NEW s \in Seq(S), NEW e \in S, NEW n \in 0 .. Len(s)
    PROVE  SubSeq(Append(s, e), 1, n) = SubSeq(s, 1, n)
<1> DEFINE t == Append(s, e)
<1>1. t \in Seq(S) /\ Len(t) = Len(s) + 1 /\ \A i \in 1 .. Len(s) : t[i] = s[i]
  BY AppendFacts
<1> HIDE DEF t
<1>2. n \in 0 .. Len(t)
  BY <1>1
<1>3. /\ SubSeq(t, 1, n) \in Seq(S) /\ Len(SubSeq(t, 1, n)) = n
      /\ \A i \in 1 .. n : SubSeq(t, 1, n)[i] = t[i]
  BY <1>1, <1>2, PrefixFacts
<1>4. /\ SubSeq(s, 1, n) \in Seq(S) /\ Len(SubSeq(s, 1, n)) = n
      /\ \A i \in 1 .. n : SubSeq(s, 1, n)[i] = s[i]
  BY PrefixFacts
<1>5. \A i \in 1 .. n : SubSeq(t, 1, n)[i] = SubSeq(s, 1, n)[i]
  BY <1>1, <1>3, <1>4
<1>6. SubSeq(t, 1, n) = SubSeq(s, 1, n)
  BY <1>3, <1>4, <1>5, SeqEqual
<1>7. QED  BY <1>6 DEF t


\* What TCSAFLUSH leaves has the same beginning.
LEMMA PrefixOfPrefix ==
    ASSUME NEW S, NEW s \in Seq(S), NEW n \in 0 .. Len(s)
    PROVE  SubSeq(SubSeq(s, 1, n), 1, n) = SubSeq(s, 1, n)
<1> DEFINE p == SubSeq(s, 1, n)
<1>1. p \in Seq(S) /\ Len(p) = n
  BY PrefixFacts
<1> HIDE DEF p
<1>2. SubSeq(p, 1, Len(p)) = p
  BY <1>1, SubSeqFull
<1>3. QED  BY <1>1, <1>2 DEF p

LEMMA DecodeNext ==
    ASSUME NEW keys \in Typed, NEW key \in KeyChars \cup {CtrlA}
    PROVE  Decode[Append(keys, key)] = Decoded(Decode[keys], key)
<1> DEFINE K == KeyChars \cup {CtrlA}
           n == Len(keys)
           more == Append(keys, key)
<1>1. keys \in Seq(K) /\ key \in K /\ n \in 0 .. Len(keys)
  BY DEF Typed
<1> HIDE DEF K
<1>2. more \in Seq(K) /\ Len(more) = n + 1 /\ more[n + 1] = key
  BY <1>1, AppendFacts
<1>3. SubSeq(more, 1, n) = keys
  <2>1. SubSeq(more, 1, n) = SubSeq(keys, 1, n)
    BY <1>1, PrefixKept
  <2>2. SubSeq(keys, 1, n) = keys
    BY <1>1, SubSeqFull
  <2>3. QED  BY <2>1, <2>2
<1>4. more \in Typed /\ more # << >>
  BY <1>1, <1>2 DEF Typed, K
<1> HIDE DEF more
<1>5. n \in Nat /\ Len(more) - 1 = n
  BY <1>1, <1>2
<1>6. Decode[more] = Decoded(Decode[ButLast(more)], more[Len(more)])
  BY <1>4, DecodeUnfolds DEF Unfold
<1>7. ButLast(more) = keys
  BY <1>3, <1>5 DEF ButLast
<1>8. QED  BY <1>2, <1>6, <1>7 DEF more

\* The keys the thread has read, decoded.
Read == Decode[SubSeq(typed, 1, nread)]

-----------------------------------------------------------------------------
(* The inductive invariants *)

\* What the ring from the guest holds, after a reset in the middle of a pop
\* as well.
OutputTypes ==
    /\ tx_buf \in [0 .. N - 1 -> OutChars \cup {NoChar}]
    /\ tx_pchar \in OutChars \cup {NoChar}
    /\ tx_cchar \in OutChars \cup {NoChar}

\* Over any number of resets: the mode that will be restored is the user's.
ThreadInv ==
    /\ TypeOK
    /\ OutputTypes
    /\ TerminalRestored
    /\ InLoop => orig_termios = "cooked"

\* Until the first reset: both rings are sound, the screen shows what has been
\* popped, what the thread has pushed is what the keys it has read decode to,
\* its one flag is the decoder's state, and pop_char is called for a character
\* that only pop_char can take away.
BootInv ==
    resets = 0 =>
        /\ boot = "up"
        /\ Rx!RingInv
        /\ Tx!RingInv
        /\ screen = tx_received
        /\ KeysForwarded
        /\ InLoop => ctrl_a_pressed = Read.esc /\ ~ Read.quit
        /\ tpc \in {"main", "attach", "eye", "base"} => nread = 0
        /\ PopSpins => Len(tx_received) < Len(tx_sent)

ConsoleInv == ThreadInv /\ BootInv


-----------------------------------------------------------------------------
(* Steps of the rings *)

\* What a step does to the two rings: nothing, a step of one of them, or, in a
\* reset or when OpenSBI initialises the queues, their loss.
LEMMA RingKinds ==
    ASSUME TypeOK, [Next]_vars
    PROVE  \/ UNCHANGED <<rx, tx>>
           \/ Rx!Next /\ UNCHANGED tx
           \/ Tx!Next /\ UNCHANGED rx
           \/ /\ RingsCleared(0) \/ RingsCleared(AllOnes)
              /\ boot = "loading" \/ resets' = resets + 1
<1>1. CASE \/ MainLoop \/ Attach \/ DescriptorMissing \/ EyeCatcherFound \/ UartFound
           \/ LoopTop \/ NoInput \/ ReadQuit \/ ReadEscaped \/ ReadCtrlA \/ NoOutput
           \/ SeesOutput
  BY <1>1 DEF MainLoop, Attach, DescriptorMissing, EyeCatcherFound, UartFound, LoopTop,
              NoInput, ReadQuit, ReadEscaped, ReadCtrlA, NoOutput, SeesOutput
<1>2. CASE ReadKey
  <2>1. Input \in KeyChars
    <3>1. typed \in Seq(KeyChars \cup {CtrlA}) /\ nread \in 0 .. Len(typed) /\ nread < Len(typed)
      BY <1>2 DEF TypeOK, ReadKey, ReadsInput
    <3>2. nread + 1 \in 1 .. Len(typed)
      BY <3>1
    <3>3. typed[nread + 1] \in KeyChars \cup {CtrlA}
      BY <3>1, <3>2
    <3>4. QED  BY <1>2, <3>3 DEF ReadKey, Input
  <2>2. Rx!PushCall(Input) /\ UNCHANGED tx
    BY <1>2 DEF ReadKey
  <2>3. QED  BY <2>1, <2>2 DEF Rx!Next
<1>3. CASE PushKey
  BY <1>3 DEF PushKey, Rx!Next
<1>4. CASE PopOutput
  BY <1>4 DEF PopOutput, Tx!Next, Tx!Pop
<1>5. CASE OpenSBIPut
  BY <1>5 DEF OpenSBIPut, Tx!Next
<1>6. CASE OpenSBIGet
  BY <1>6 DEF OpenSBIGet, Rx!Next
<1>7. CASE ChipReset \/ InitOpenSBI
  BY <1>7 DEF ChipReset, InitOpenSBI
<1>8. CASE \/ \E k \in KeyChars \cup {CtrlA} : Type(k)
           \/ LoadOpenSBI \/ AttachFails \/ OtherThreadExits
  BY <1>8 DEF Type, LoadOpenSBI, AttachFails, OtherThreadExits
<1>9. CASE UNCHANGED vars
  BY <1>9 DEF vars
<1>10. QED
  BY <1>1, <1>2, <1>3, <1>4, <1>5, <1>6, <1>7, <1>8, <1>9
  DEF Next, console_main, Environment

LEMMA SlotFacts ==
    /\ N \in Nat /\ N > 1 /\ 0 \in 0 .. N - 1
    /\ AllOnes \in Nat
    /\ \A i \in Nat : i % N \in 0 .. N - 1 /\ (i + 1) % N \in 0 .. N - 1
BY NAssumption DEF AllOnes

Indices == (0 .. N - 1) \cup {AllOnes}

\* The indices stay in the buffers or dead, and what is in them in their sets.
LEMMA RingTypeStep ==
    ASSUME TypeOK, OutputTypes, [Next]_vars
    PROVE  /\ {rx_head', rx_tail', tx_head', tx_tail'} \subseteq Indices
           /\ OutputTypes'
<1>1. /\ rx_head \in Indices /\ rx_tail \in Indices
      /\ tx_head \in Indices /\ tx_tail \in Indices
  BY DEF TypeOK, Rx!Slots, Indices
<1>n. \A i \in Indices : i % N \in 0 .. N - 1 /\ (i + 1) % N \in Indices
  BY SlotFacts DEF Indices
<1>2. CASE UNCHANGED <<rx, tx>>
  BY <1>1, <1>2 DEF rx, tx, OutputTypes
<1>3. CASE Rx!Next /\ UNCHANGED tx
  <2>1. rx_head' \in Indices /\ rx_tail' \in Indices
    BY <1>1, <1>n, <1>3
    DEF Rx!Next, Rx!Push, Rx!Pop, Rx!PushCall, Rx!PushCheck, Rx!PushWrite, Rx!PushPublish,
        Rx!PopCheck, Rx!PopRead, Rx!PopPublish, Rx!ProducerKilled, Rx!ConsumerKilled,
        Rx!ringVars, Rx!Advance
  <2>2. QED  BY <1>1, <1>3, <2>1 DEF tx, OutputTypes
<1>4. CASE Tx!Next /\ UNCHANGED rx
  <2>1. tx_head' \in Indices /\ tx_tail' \in Indices
    BY <1>1, <1>n, <1>4
    DEF Tx!Next, Tx!Push, Tx!Pop, Tx!PushCall, Tx!PushCheck, Tx!PushWrite, Tx!PushPublish,
        Tx!PopCheck, Tx!PopRead, Tx!PopPublish, Tx!ProducerKilled, Tx!ConsumerKilled,
        Tx!ringVars, Tx!Advance
  <2>2. OutputTypes'
    <3>1. ASSUME NEW c \in OutChars, Tx!PushCall(c)  PROVE OutputTypes'
      BY <3>1 DEF OutputTypes, Tx!PushCall, Tx!ringVars, Tx!consVars
    <3>2. CASE Tx!PushCheck
      BY <3>2 DEF OutputTypes, Tx!PushCheck, Tx!ringVars, Tx!consVars
    <3>3. CASE Tx!PushWrite
      BY <3>3 DEF OutputTypes, Tx!PushWrite, Tx!consVars
    <3>4. CASE Tx!PushPublish
      BY <3>4 DEF OutputTypes, Tx!PushPublish, Tx!consVars
    <3>5. CASE Tx!PopCheck
      BY <3>5 DEF OutputTypes, Tx!PopCheck, Tx!ringVars, Tx!prodVars
    <3>6. CASE Tx!PopRead
      <4>1. tx_tail % N \in 0 .. N - 1
        BY <1>1, <1>n
      <4>2. QED  BY <3>6, <4>1 DEF OutputTypes, Tx!PopRead, Tx!ringVars, Tx!prodVars
    <3>7. CASE Tx!PopPublish
      BY <3>7 DEF OutputTypes, Tx!PopPublish, Tx!prodVars
    <3>8. CASE Tx!ProducerKilled \/ Tx!ConsumerKilled
      BY <3>8 DEF Tx!ProducerKilled, Tx!ConsumerKilled
    <3>9. QED
      BY <1>4, <3>1, <3>2, <3>3, <3>4, <3>5, <3>6, <3>7, <3>8 DEF Tx!Next, Tx!Push, Tx!Pop
  <2>3. QED  BY <1>1, <1>4, <2>1, <2>2 DEF rx
<1>5. CASE RingsCleared(0) \/ RingsCleared(AllOnes)
  BY <1>5, SlotFacts DEF RingsCleared, Rx!Slots, OutputTypes, Indices
<1>6. QED  BY <1>2, <1>3, <1>4, <1>5, RingKinds


-----------------------------------------------------------------------------
(* The thread and its terminal *)

\* The part of TypeOK that is not about the rings' indices.
ThreadTypes ==
    /\ boot \in {"up", "reset", "loading"}
    /\ tpc \in {"main", "attach", "eye", "base", "loop", "input", "push", "output",
                "pop", "returned", "exited"}
    /\ ctrl_a_pressed \in BOOLEAN /\ exit_thread_flag \in BOOLEAN /\ vanished \in BOOLEAN
    /\ debug_descriptor \in BOOLEAN
    /\ tty \in {"cooked", "raw"} /\ orig_termios \in {"cooked", "raw"}

KeyTypes ==
    /\ typed \in Seq(KeyChars \cup {CtrlA})
    /\ nread \in 0 .. Len(typed)
    /\ screen \in Seq(OutChars \cup {NoChar})
    /\ resets \in Nat

Terminal == TerminalRestored /\ (InLoop => orig_termios = "cooked")

\* Every way out of the loop restores the mode saved on the way in.
LEMMA TerminalStep ==
    ASSUME ThreadTypes, Terminal, [Next]_vars
    PROVE  ThreadTypes' /\ Terminal'
<1> USE DEF ThreadTypes, Terminal, TerminalRestored, InLoop
<1>1. CASE MainLoop \/ Attach \/ AttachFails
  BY <1>1 DEF MainLoop, Attach, AttachFails
<1>2. CASE DescriptorMissing \/ EyeCatcherFound
  BY <1>2 DEF DescriptorMissing, DescriptorBad, EyeCatcherFound
<1>3. CASE UartFound
  BY <1>3 DEF UartFound
<1>4. CASE LoopTop
  BY <1>4 DEF LoopTop, ReturnFinal, ReturnAgain, RestoredMode
<1>5. CASE NoInput \/ NoOutput \/ SeesOutput
  BY <1>5 DEF NoInput, NoOutput, SeesOutput
<1>6. CASE ReadQuit
  BY <1>6 DEF ReadQuit, ReadsInput, ReturnFinal, RestoredMode
<1>7. CASE ReadEscaped \/ ReadCtrlA
  BY <1>7 DEF ReadEscaped, ReadCtrlA, ReadsInput, EscapeAfter
<1>8. CASE ReadKey
  BY <1>8 DEF ReadKey, ReadsInput
<1>9. CASE PushKey
  BY <1>9 DEF PushKey
<1>10. CASE PopOutput
  BY <1>10 DEF PopOutput
<1>11. CASE OpenSBIPut \/ OpenSBIGet \/ \E k \in KeyChars \cup {CtrlA} : Type(k)
  BY <1>11 DEF OpenSBIPut, OpenSBIGet, Type, thread
<1>12. CASE ChipReset \/ LoadOpenSBI \/ InitOpenSBI
  BY <1>12 DEF ChipReset, LoadOpenSBI, InitOpenSBI, thread
<1>13. CASE OtherThreadExits
  BY <1>13 DEF OtherThreadExits
<1>14. CASE UNCHANGED vars
  BY <1>14 DEF vars, thread
<1>15. QED
  BY <1>1, <1>2, <1>3, <1>4, <1>5, <1>6, <1>7, <1>8, <1>9, <1>10, <1>11, <1>12, <1>13,
     <1>14 DEF Next, console_main, Environment

LEMMA KeyTypeStep ==
    ASSUME KeyTypes, OutputTypes, [Next]_vars
    PROVE  KeyTypes'
<1>1. CASE UNCHANGED <<typed, nread, screen, resets>>
  BY <1>1 DEF KeyTypes
<1>2. CASE ReadEscaped \/ ReadCtrlA \/ ReadKey
  <2>1. /\ UNCHANGED <<typed, screen, resets>>
        /\ nread < Len(typed) /\ nread' = nread + 1
    BY <1>2 DEF ReadEscaped, ReadCtrlA, ReadKey, ReadsInput
  <2>2. QED  BY <2>1 DEF KeyTypes
<1>3. ASSUME NEW k \in KeyChars \cup {CtrlA}, Type(k)  PROVE KeyTypes'
  <2> DEFINE K == KeyChars \cup {CtrlA}
  <2>1. k \in K /\ typed \in Seq(K) /\ typed' = Append(typed, k)
        /\ UNCHANGED <<nread, screen, resets>>
    BY <1>3 DEF Type, KeyTypes, thread
  <2> HIDE DEF K
  <2>2. typed' \in Seq(K) /\ Len(typed') = Len(typed) + 1 /\ Len(typed) \in Nat
    BY <2>1, AppendFacts
  <2>3. nread' \in 0 .. Len(typed')
    BY <2>1, <2>2 DEF KeyTypes
  <2>4. QED  BY <2>1, <2>2, <2>3 DEF KeyTypes, K
<1>4. CASE PopOutput
  <2>1. UNCHANGED <<typed, nread, resets>>
        /\ (UNCHANGED screen \/ screen' = Append(screen, tx_cchar))
    BY <1>4 DEF PopOutput, keyboard
  <2>2. Append(screen, tx_cchar) \in Seq(OutChars \cup {NoChar})
    <3> DEFINE O == OutChars \cup {NoChar}
    <3>1. screen \in Seq(O) /\ tx_cchar \in O
      BY DEF KeyTypes, OutputTypes
    <3> HIDE DEF O
    <3>2. Append(screen, tx_cchar) \in Seq(O)
      BY <3>1, AppendFacts
    <3>3. QED  BY <3>2 DEF O
  <2>3. QED  BY <2>1, <2>2 DEF KeyTypes
<1>5. CASE ChipReset
  BY <1>5 DEF ChipReset, KeyTypes, thread, keyboard
<1>6. CASE \/ MainLoop \/ Attach \/ DescriptorMissing \/ EyeCatcherFound
           \/ NoInput \/ PushKey \/ NoOutput \/ SeesOutput \/ OpenSBIPut \/ OpenSBIGet
           \/ LoadOpenSBI \/ InitOpenSBI \/ AttachFails \/ OtherThreadExits
  <2>1. UNCHANGED <<typed, nread, screen, resets>>
    BY <1>6 DEF MainLoop, Attach, DescriptorMissing, EyeCatcherFound,
                NoInput, PushKey, NoOutput, SeesOutput, OpenSBIPut, OpenSBIGet, LoadOpenSBI,
                InitOpenSBI, AttachFails, OtherThreadExits, thread, keyboard
  <2>2. QED  BY <1>1, <2>1
<1>7. CASE UNCHANGED vars
  BY <1>1, <1>7 DEF vars, thread, keyboard
<1>8. CASE UartFound
  <2>1. typed' = << >> /\ nread' = 0 /\ UNCHANGED <<screen, resets>>
    BY <1>8 DEF UartFound
  <2>2. << >> \in Seq(KeyChars \cup {CtrlA}) /\ Len(<< >>) = 0
    BY EmptySeq
  <2>3. QED  BY <2>1, <2>2 DEF KeyTypes
<1>9. ASSUME NEW n \in 0 .. Len(typed), Flushed(n), UNCHANGED <<screen, resets>>
      PROVE  KeyTypes'
  <2>1. SubSeq(typed, 1, n) \in Seq(KeyChars \cup {CtrlA}) /\ Len(SubSeq(typed, 1, n)) = n
    BY <1>9, PrefixFacts DEF KeyTypes
  <2>2. QED  BY <1>9, <2>1 DEF KeyTypes, Flushed
<1>10. CASE ReadQuit
  <2>1. Flushed(nread + 1) /\ nread < Len(typed) /\ UNCHANGED <<screen, resets>>
    BY <1>10 DEF ReadQuit, ReadsInput, ReturnFinal
  <2>2. nread + 1 \in 0 .. Len(typed)
    BY <2>1 DEF KeyTypes
  <2>3. QED  BY <1>9, <2>1, <2>2
<1>11. CASE LoopTop
  <2>1. /\ UNCHANGED keyboard \/ Flushed(nread)
        /\ UNCHANGED <<screen, resets>>
    BY <1>11 DEF LoopTop, ReturnFinal, ReturnAgain
  <2>2. nread \in 0 .. Len(typed)
    BY DEF KeyTypes
  <2>3. QED  BY <1>1, <1>9, <2>1, <2>2 DEF keyboard
<1>12. QED
  BY <1>2, <1>3, <1>4, <1>5, <1>6, <1>7, <1>8, <1>10, <1>11
  DEF Next, console_main, Environment

\* The types and the terminal hold at the start and survive every step.
LEMMA ThreadInit == Init => ThreadInv
<1> SUFFICES ASSUME Init  PROVE ThreadInv
  OBVIOUS
<1>1. /\ {rx_head, rx_tail, tx_head, tx_tail} \subseteq Indices
      /\ OutputTypes
  BY SlotFacts DEF Init, Rx!Init, Tx!Init, OutputTypes, Tx!Slots, Indices
<1>2. ThreadTypes /\ Terminal
  BY DEF Init, ThreadTypes, Terminal, TerminalRestored, InLoop
<1>3. KeyTypes
  <2>1. << >> \in Seq(KeyChars \cup {CtrlA}) /\ << >> \in Seq(OutChars \cup {NoChar})
        /\ Len(<< >>) = 0
    BY EmptySeq
  <2>2. QED  BY <2>1 DEF Init, KeyTypes
<1>4. QED  BY <1>1, <1>2, <1>3 DEF ThreadInv, TypeOK, ThreadTypes, KeyTypes, Terminal, Rx!Slots, Indices

LEMMA ThreadStep == ThreadInv /\ [Next]_vars => ThreadInv'
<1> SUFFICES ASSUME ThreadInv, [Next]_vars  PROVE ThreadInv'
  OBVIOUS
<1>1. TypeOK /\ OutputTypes /\ ThreadTypes /\ KeyTypes /\ Terminal
  BY DEF ThreadInv, TypeOK, ThreadTypes, KeyTypes, Terminal
<1>2. /\ {rx_head', rx_tail', tx_head', tx_tail'} \subseteq Indices
      /\ OutputTypes'
  BY <1>1, RingTypeStep
<1>3. ThreadTypes' /\ Terminal'
  BY <1>1, TerminalStep
<1>4. KeyTypes'
  BY <1>1, KeyTypeStep
<1>5. QED
  BY <1>2, <1>3, <1>4 DEF ThreadInv, TypeOK, ThreadTypes, KeyTypes, Terminal, Rx!Slots, Indices


-----------------------------------------------------------------------------
(* Until the first reset *)

\* The ring's own theorem, for the ring to the guest and the one from it.
LEMMA RxStep ==
    ASSUME Rx!RingInv, Rx!Next \/ UNCHANGED rx
    PROVE  Rx!RingInv'
<1>1. RxP!RingInv
  BY DEF Rx!RingInv, Rx!TypeOK, Rx!IndicesCount, Rx!OneSlotFree, Rx!PendingIntact,
         Rx!LocalsCurrent, Rx!ReceivedIsPrefix, Rx!Slots, Rx!Pending,
         RxP!RingInv, RxP!TypeOK, RxP!IndicesCount, RxP!OneSlotFree, RxP!PendingIntact,
         RxP!LocalsCurrent, RxP!ReceivedIsPrefix, RxP!Slots, RxP!Pending
<1>2. [RxP!Next]_RxP!vars
  <2>1. CASE UNCHANGED rx
    BY <2>1 DEF rx, RxP!vars
  <2>2. CASE Rx!Next
    BY <2>2
    DEF Rx!Next, Rx!Push, Rx!Pop, Rx!PushCall, Rx!PushCheck, Rx!PushWrite, Rx!PushPublish,
        Rx!PopCheck, Rx!PopRead, Rx!PopPublish, Rx!ProducerKilled, Rx!ConsumerKilled,
        Rx!ringVars, Rx!prodVars, Rx!consVars, Rx!histVars, Rx!Advance, Rx!can_push, Rx!can_pop,
        RxP!Next, RxP!Push, RxP!Pop, RxP!PushCall, RxP!PushCheck, RxP!PushWrite,
        RxP!PushPublish, RxP!PopCheck, RxP!PopRead, RxP!PopPublish, RxP!ProducerKilled,
        RxP!ConsumerKilled, RxP!ringVars, RxP!prodVars, RxP!consVars, RxP!histVars,
        RxP!Advance, RxP!can_push, RxP!can_pop
  <2>3. QED  BY <2>1, <2>2
<1>3. RxP!RingInv'
  BY <1>1, <1>2, RxP!NextInv, NAssumption, NoCharAssumption, BoundAssumption
<1>4. QED
  BY <1>3
  DEF Rx!RingInv, Rx!TypeOK, Rx!IndicesCount, Rx!OneSlotFree, Rx!PendingIntact,
      Rx!LocalsCurrent, Rx!ReceivedIsPrefix, Rx!Slots, Rx!Pending,
      RxP!RingInv, RxP!TypeOK, RxP!IndicesCount, RxP!OneSlotFree, RxP!PendingIntact,
      RxP!LocalsCurrent, RxP!ReceivedIsPrefix, RxP!Slots, RxP!Pending


LEMMA TxStep ==
    ASSUME Tx!RingInv, Tx!Next \/ UNCHANGED tx
    PROVE  Tx!RingInv'
<1>1. TxP!RingInv
  BY DEF Tx!RingInv, Tx!TypeOK, Tx!IndicesCount, Tx!OneSlotFree, Tx!PendingIntact,
         Tx!LocalsCurrent, Tx!ReceivedIsPrefix, Tx!Slots, Tx!Pending,
         TxP!RingInv, TxP!TypeOK, TxP!IndicesCount, TxP!OneSlotFree, TxP!PendingIntact,
         TxP!LocalsCurrent, TxP!ReceivedIsPrefix, TxP!Slots, TxP!Pending
<1>2. [TxP!Next]_TxP!vars
  <2>1. CASE UNCHANGED tx
    BY <2>1 DEF tx, TxP!vars
  <2>2. CASE Tx!Next
    BY <2>2
    DEF Tx!Next, Tx!Push, Tx!Pop, Tx!PushCall, Tx!PushCheck, Tx!PushWrite, Tx!PushPublish,
        Tx!PopCheck, Tx!PopRead, Tx!PopPublish, Tx!ProducerKilled, Tx!ConsumerKilled,
        Tx!ringVars, Tx!prodVars, Tx!consVars, Tx!histVars, Tx!Advance, Tx!can_push, Tx!can_pop,
        TxP!Next, TxP!Push, TxP!Pop, TxP!PushCall, TxP!PushCheck, TxP!PushWrite,
        TxP!PushPublish, TxP!PopCheck, TxP!PopRead, TxP!PopPublish, TxP!ProducerKilled,
        TxP!ConsumerKilled, TxP!ringVars, TxP!prodVars, TxP!consVars, TxP!histVars,
        TxP!Advance, TxP!can_push, TxP!can_pop
  <2>3. QED  BY <2>1, <2>2
<1>3. TxP!RingInv'
  BY <1>1, <1>2, TxP!NextInv, NAssumption, NoCharAssumption, BoundAssumption
<1>4. QED
  BY <1>3
  DEF Tx!RingInv, Tx!TypeOK, Tx!IndicesCount, Tx!OneSlotFree, Tx!PendingIntact,
      Tx!LocalsCurrent, Tx!ReceivedIsPrefix, Tx!Slots, Tx!Pending,
      TxP!RingInv, TxP!TypeOK, TxP!IndicesCount, TxP!OneSlotFree, TxP!PendingIntact,
      TxP!LocalsCurrent, TxP!ReceivedIsPrefix, TxP!Slots, TxP!Pending


LEMMA RingsInit ==
    ASSUME Init
    PROVE  Rx!RingInv /\ Tx!RingInv
<1>1. RxP!Init /\ TxP!Init
  BY DEF Init, Rx!Init, Tx!Init, RxP!Init, TxP!Init, Rx!Slots, Tx!Slots, RxP!Slots, TxP!Slots
<1>2. RxP!RingInv /\ TxP!RingInv
  BY <1>1, RxP!InitInv, TxP!InitInv, NAssumption, NoCharAssumption, BoundAssumption
<1>3. Rx!RingInv
  BY <1>2
  DEF Rx!RingInv, Rx!TypeOK, Rx!IndicesCount, Rx!OneSlotFree, Rx!PendingIntact,
      Rx!LocalsCurrent, Rx!ReceivedIsPrefix, Rx!Slots, Rx!Pending,
      RxP!RingInv, RxP!TypeOK, RxP!IndicesCount, RxP!OneSlotFree, RxP!PendingIntact,
      RxP!LocalsCurrent, RxP!ReceivedIsPrefix, RxP!Slots, RxP!Pending
<1>4. Tx!RingInv
  BY <1>2
  DEF Tx!RingInv, Tx!TypeOK, Tx!IndicesCount, Tx!OneSlotFree, Tx!PendingIntact,
      Tx!LocalsCurrent, Tx!ReceivedIsPrefix, Tx!Slots, Tx!Pending,
      TxP!RingInv, TxP!TypeOK, TxP!IndicesCount, TxP!OneSlotFree, TxP!PendingIntact,
      TxP!LocalsCurrent, TxP!ReceivedIsPrefix, TxP!Slots, TxP!Pending
<1>5. QED  BY <1>3, <1>4

\* A step that leaves no reset behind is taken on a running X280.
LEMMA StillUp ==
    ASSUME ConsoleInv, [Next]_vars, resets' = 0
    PROVE  /\ resets = 0 /\ boot = "up" /\ boot' = "up"
           /\ ~ ChipReset /\ ~ InitOpenSBI
           /\ \/ UNCHANGED <<rx, tx>>
              \/ Rx!Next /\ UNCHANGED tx
              \/ Tx!Next /\ UNCHANGED rx
<1>1. TypeOK /\ resets \in Nat
  BY DEF ConsoleInv, ThreadInv, TypeOK
<1>2. (UNCHANGED resets \/ resets' = resets + 1)
      /\ (UNCHANGED boot \/ ChipReset \/ LoadOpenSBI \/ InitOpenSBI)
  BY DEF Next, console_main, Environment, MainLoop, Attach, DescriptorMissing,
         EyeCatcherFound, UartFound, LoopTop, NoInput, ReadQuit, ReadEscaped, ReadCtrlA,
         ReadKey, ReadsInput, PushKey, NoOutput, SeesOutput, PopOutput, Type, OpenSBIPut, OpenSBIGet,
         ChipReset, LoadOpenSBI, InitOpenSBI, AttachFails, OtherThreadExits, vars
<1>3. resets = 0
  BY <1>1, <1>2
<1>4. boot = "up"
  BY <1>3 DEF ConsoleInv, BootInv
<1>5. ~ ChipReset /\ ~ LoadOpenSBI /\ ~ InitOpenSBI
  BY <1>1, <1>3, <1>4 DEF ChipReset, LoadOpenSBI, InitOpenSBI
<1>6. ~ (boot = "loading" \/ resets' = resets + 1)
  BY <1>3, <1>4
<1>7. QED  BY <1>1, <1>2, <1>3, <1>4, <1>5, <1>6, RingKinds

LEMMA RingsStep ==
    ASSUME ConsoleInv, [Next]_vars, resets' = 0
    PROVE  Rx!RingInv' /\ Tx!RingInv'
<1>1. Rx!RingInv /\ Tx!RingInv
  BY StillUp DEF ConsoleInv, BootInv
<1>2. Rx!Next \/ UNCHANGED rx
  BY StillUp
<1>3. Tx!Next \/ UNCHANGED tx
  BY StillUp
<1>4. QED  BY <1>1, <1>2, <1>3, RxStep, TxStep


\* The thread prints what it pops.
LEMMA ScreenStep ==
    ASSUME screen = tx_received, [Next]_vars, ~ ChipReset, ~ InitOpenSBI
    PROVE  screen' = tx_received'
<1>1. CASE PopOutput
  BY <1>1 DEF PopOutput, Tx!PopCheck, Tx!PopRead, Tx!PopPublish, Tx!histVars
<1>2. CASE OpenSBIPut
  BY <1>2 DEF OpenSBIPut, thread, Tx!PushCall, Tx!Push, Tx!PushCheck, Tx!PushWrite,
              Tx!PushPublish, Tx!histVars
<1>3. CASE \/ OpenSBIGet \/ LoadOpenSBI \/ \E k \in KeyChars \cup {CtrlA} : Type(k)
  BY <1>3 DEF OpenSBIGet, LoadOpenSBI, Type, thread, tx
<1>4. CASE \/ MainLoop \/ Attach \/ DescriptorMissing \/ EyeCatcherFound \/ UartFound
           \/ LoopTop \/ NoInput \/ ReadQuit \/ ReadEscaped \/ ReadCtrlA \/ ReadKey
           \/ PushKey \/ NoOutput \/ SeesOutput \/ AttachFails \/ OtherThreadExits
  BY <1>4 DEF MainLoop, Attach, DescriptorMissing, EyeCatcherFound, UartFound, LoopTop,
              NoInput, ReadQuit, ReadEscaped, ReadCtrlA, ReadKey, ReadsInput, PushKey,
              NoOutput, SeesOutput, AttachFails, OtherThreadExits, tx
<1>5. CASE UNCHANGED vars
  BY <1>5 DEF vars, thread, tx
<1>6. QED
  BY <1>1, <1>2, <1>3, <1>4, <1>5 DEF Next, console_main, Environment

\* The character that uart_loop has seen stays there until pop_char takes it:
\* OpenSBI only adds to the ring, and nobody else takes from it.
LEMMA PopStep ==
    ASSUME Tx!RingInv, PopSpins => Len(tx_received) < Len(tx_sent), [Next]_vars,
           ~ ChipReset, ~ InitOpenSBI
    PROVE  PopSpins' => Len(tx_received') < Len(tx_sent')
<1> USE DEF PopSpins
<1>1. CASE SeesOutput
  <2>1. UNCHANGED tx /\ Tx!can_pop
    BY <1>1 DEF SeesOutput, OutputReady
  <2>2. TxP!RingInv /\ TxP!can_pop
    BY <2>1 DEF Tx!RingInv, Tx!TypeOK, Tx!IndicesCount, Tx!OneSlotFree, Tx!PendingIntact,
         Tx!LocalsCurrent, Tx!ReceivedIsPrefix, Tx!Slots, Tx!Pending, Tx!can_pop,
         TxP!RingInv, TxP!TypeOK, TxP!IndicesCount, TxP!OneSlotFree, TxP!PendingIntact,
         TxP!LocalsCurrent, TxP!ReceivedIsPrefix, TxP!Slots, TxP!Pending, TxP!can_pop
  <2>3. Len(tx_received) < Len(tx_sent)
    BY <2>2, TxP!CanPopMeansPending, NAssumption, NoCharAssumption, BoundAssumption
  <2>4. QED  BY <2>1, <2>3 DEF tx
<1>2. CASE PopOutput
  BY <1>2 DEF PopOutput, Tx!PopCheck, Tx!PopRead, Tx!PopPublish
<1>3. CASE OpenSBIPut
  <2>1. tpc' = tpc /\ tx_cpc' = tx_cpc /\ tx_received' = tx_received
        /\ (tx_sent' = tx_sent \/ tx_sent' = Append(tx_sent, tx_pchar))
    BY <1>3 DEF OpenSBIPut, thread, Tx!PushCall, Tx!Push, Tx!PushCheck, Tx!PushWrite,
              Tx!PushPublish, Tx!histVars, Tx!consVars
  <2>2. tx_sent \in Seq(OutChars) /\ tx_received \in Seq(OutChars)
    BY DEF Tx!RingInv, Tx!TypeOK
  <2>3. Len(tx_sent) \in Nat /\ Len(Append(tx_sent, tx_pchar)) = Len(tx_sent) + 1
        /\ Len(tx_received) \in Nat
    BY <2>2
  <2>4. QED  BY <2>1, <2>3
<1>4. CASE \/ OpenSBIGet \/ LoadOpenSBI \/ \E k \in KeyChars \cup {CtrlA} : Type(k)
  BY <1>4 DEF OpenSBIGet, LoadOpenSBI, Type, thread, tx
<1>5. CASE \/ MainLoop \/ Attach \/ DescriptorMissing \/ EyeCatcherFound \/ UartFound
           \/ LoopTop \/ NoInput \/ ReadQuit \/ ReadEscaped \/ ReadCtrlA \/ ReadKey
           \/ PushKey \/ NoOutput \/ AttachFails \/ OtherThreadExits
  <2>1. tpc' # "pop"
    BY <1>5 DEF MainLoop, Attach, DescriptorMissing, EyeCatcherFound, UartFound, LoopTop,
              NoInput, ReadQuit, ReadEscaped, ReadCtrlA, ReadKey, ReadsInput, PushKey,
              NoOutput, AttachFails, OtherThreadExits, ReturnAgain, ReturnFinal
  <2>2. QED  BY <2>1
<1>6. CASE UNCHANGED vars
  BY <1>6 DEF vars, thread, tx
<1>7. QED
  BY <1>1, <1>2, <1>3, <1>4, <1>5, <1>6 DEF Next, console_main, Environment

\* The part of BootInv about the keys.
KeysInv ==
    /\ KeysForwarded
    /\ InLoop => ctrl_a_pressed = Read.esc /\ ~ Read.quit
    /\ tpc \in {"main", "attach", "eye", "base"} => nread = 0

\* Reading a key decodes it.
LEMMA ReadNext ==
    ASSUME TypeOK, ReadsInput, typed' = typed \/ typed' = SubSeq(typed, 1, nread + 1)
    PROVE  /\ Read \in Decoding /\ Input \in KeyChars \cup {CtrlA}
           /\ Read' = Decoded(Read, Input)
<1> DEFINE K == KeyChars \cup {CtrlA}
           past == SubSeq(typed, 1, nread)
<1>1. /\ typed \in Seq(K) /\ nread \in Nat /\ nread < Len(typed) /\ nread \in 0 .. Len(typed)
      /\ nread' = nread + 1
      /\ typed' = typed \/ typed' = SubSeq(typed, 1, nread + 1)
  BY DEF TypeOK, ReadsInput
<1> HIDE DEF K
<1>2. Input \in K
  BY <1>1 DEF Input
<1>3. past \in Seq(K)
  BY <1>1, PrefixFacts
<1>4. SubSeq(typed', 1, nread') = Append(past, Input)
  <2>1. SubSeq(typed, 1, nread + 1) = Append(past, Input)
    BY <1>1, PrefixLonger DEF Input
  <2>2. nread + 1 \in 0 .. Len(typed)
    BY <1>1
  <2>3. SubSeq(SubSeq(typed, 1, nread + 1), 1, nread + 1) = SubSeq(typed, 1, nread + 1)
    BY <1>1, <2>2, PrefixOfPrefix
  <2>4. QED  BY <1>1, <2>1, <2>3
<1> HIDE DEF past
<1>5. Decode[past] \in Decoding
  BY <1>3, DecodeType DEF Typed, K
<1>6. Decode[Append(past, Input)] = Decoded(Decode[past], Input)
  BY <1>2, <1>3, DecodeNext DEF Typed, K
<1>7. QED  BY <1>2, <1>4, <1>5, <1>6 DEF Read, past, K

\* Keys typed meanwhile do not change what has been read.
LEMMA ReadKept ==
    ASSUME TypeOK, NEW k \in KeyChars \cup {CtrlA}, Type(k)
    PROVE  Read' = Read
<1> DEFINE K == KeyChars \cup {CtrlA}
<1>1. typed \in Seq(K) /\ nread \in 0 .. Len(typed) /\ k \in K
      /\ typed' = Append(typed, k) /\ nread' = nread
  BY DEF TypeOK, Type, keyboard
<1> HIDE DEF K
<1>2. SubSeq(Append(typed, k), 1, nread) = SubSeq(typed, 1, nread)
  BY <1>1, PrefixKept
<1>3. QED  BY <1>1, <1>2 DEF Read

\* Nor does discarding those not read.
LEMMA ReadFlushed ==
    ASSUME TypeOK, Flushed(nread)
    PROVE  Read' = Read
<1>1. typed \in Seq(KeyChars \cup {CtrlA}) /\ nread \in 0 .. Len(typed)
  BY DEF TypeOK
<1>2. SubSeq(SubSeq(typed, 1, nread), 1, nread) = SubSeq(typed, 1, nread)
  BY <1>1, PrefixOfPrefix
<1>3. QED  BY <1>2 DEF Read, Flushed

Pushing == IF rx_ppc = "idle" THEN << >> ELSE <<rx_pchar>>

LEMMA AppendEmpty ==
    ASSUME NEW S, NEW s \in Seq(S), NEW e \in S
    PROVE  s \o << >> = s /\ Append(s, e) \o << >> = s \o <<e>>
<1>1. s \o << >> = s
  BY ConcatEmptySeq
<1>2. Append(s, e) \in Seq(S) /\ Append(s, e) = s \o <<e>>
  BY AppendFacts, AppendIsConcat
<1>3. Append(s, e) \o << >> = Append(s, e)
  BY <1>2, ConcatEmptySeq
<1>4. QED  BY <1>1, <1>2, <1>3


LEMMA ReadNothing ==
    /\ nread = 0 => Read = Nothing
    /\ nread' = 0 => Read' = Nothing
<1>1. SubSeq(typed, 1, 0) = << >> /\ SubSeq(typed', 1, 0) = << >>
  BY SubSeqEmpty
<1>2. << >> \in Typed
  BY EmptySeq DEF Typed
<1>3. Decode[<< >>] = Nothing
  BY <1>2, DecodeUnfolds DEF Unfold
<1>4. QED  BY <1>1, <1>3 DEF Read

\* What is forwarded is what the keys decode to.
LEMMA KeysStep ==
    ASSUME TypeOK, Rx!RingInv, KeysInv, boot = "up", boot' = "up", [Next]_vars
    PROVE  KeysInv'
<1> DEFINE Same == UNCHANGED <<rx_ppc, rx_pchar, rx_sent, typed, nread, ctrl_a_pressed>>
           Early(p) == p \in {"main", "attach", "eye", "base"}
           Looping(p) == p \in {"loop", "input", "push", "output", "pop"}
<1>a. /\ rx_sent \o Pushing = Read.out
      /\ Looping(tpc) => ctrl_a_pressed = Read.esc /\ ~ Read.quit
      /\ Early(tpc) => nread = 0
  BY DEF KeysInv, KeysForwarded, Read, InLoop, Pushing
<1>b. SUFFICES /\ rx_sent' \o Pushing' = Read'.out
               /\ Looping(tpc') => ctrl_a_pressed' = Read'.esc /\ ~ Read'.quit
               /\ Early(tpc') => nread' = 0
  BY DEF KeysInv, KeysForwarded, Read, InLoop, Pushing
<1>c. rx_sent \in Seq(KeyChars) /\ (rx_ppc # "idle" => rx_pchar \in KeyChars)
  BY DEF Rx!RingInv, Rx!TypeOK, Rx!LocalsCurrent
<1>d. Same => Pushing' = Pushing /\ Read' = Read
  BY DEF Pushing, Read
\* The keys, the ring's producer and the flag are left alone.
<1>1. ASSUME Same, Looping(tpc') => Looping(tpc), Early(tpc') => Early(tpc)
      PROVE  /\ rx_sent' \o Pushing' = Read'.out
             /\ Looping(tpc') => ctrl_a_pressed' = Read'.esc /\ ~ Read'.quit
             /\ Early(tpc') => nread' = 0
  BY <1>1, <1>a, <1>d
<1>2. CASE MainLoop \/ Attach \/ DescriptorMissing \/ EyeCatcherFound
  <2>1. Same /\ (Looping(tpc') => Looping(tpc)) /\ (Early(tpc') => Early(tpc))
    BY <1>2 DEF MainLoop, Attach, DescriptorMissing, DescriptorBad, EyeCatcherFound, rx, keyboard
  <2>2. QED  BY <2>1, <1>1
<1>3. CASE LoopTop
  <2>1. /\ UNCHANGED <<rx_ppc, rx_pchar, rx_sent, ctrl_a_pressed>>
        /\ tpc = "loop" /\ tpc' \in {"returned", "input"}
        /\ UNCHANGED keyboard \/ Flushed(nread)
    BY <1>3 DEF LoopTop, MagicLost, ReturnFinal, rx
  <2>2. Read' = Read
    BY <2>1, ReadFlushed DEF Read, keyboard
  <2>3. Pushing' = Pushing
    BY <2>1 DEF Pushing
  <2>4. QED  BY <1>a, <2>1, <2>2, <2>3
<1>4. CASE NoInput \/ NoOutput \/ SeesOutput \/ PopOutput
  <2>1. Same /\ (Looping(tpc') => Looping(tpc)) /\ (Early(tpc') => Early(tpc))
    BY <1>4 DEF NoInput, NoOutput, SeesOutput, PopOutput, rx, keyboard
  <2>2. QED  BY <2>1, <1>1
<1>5. CASE OpenSBIPut \/ OpenSBIGet
  <2>1. Same /\ tpc' = tpc
    BY <1>5 DEF OpenSBIPut, OpenSBIGet, thread, keyboard, rx, Rx!Pop, Rx!PopCheck, Rx!PopRead,
                Rx!PopPublish, Rx!prodVars, Rx!histVars
  <2>2. QED  BY <2>1, <1>1
<1>6. CASE ChipReset \/ LoadOpenSBI \/ InitOpenSBI \/ AttachFails \/ OtherThreadExits
  BY <1>6 DEF ChipReset, LoadOpenSBI, InitOpenSBI, AttachFails, OtherThreadExits
<1>7. CASE UNCHANGED vars
  <2>1. Same /\ tpc' = tpc
    BY <1>7 DEF vars, thread, keyboard, rx
  <2>2. QED  BY <2>1, <1>1
<1>8. ASSUME NEW k \in KeyChars \cup {CtrlA}, Type(k)
      PROVE  /\ rx_sent' \o Pushing' = Read'.out
             /\ Looping(tpc') => ctrl_a_pressed' = Read'.esc /\ ~ Read'.quit
             /\ Early(tpc') => nread' = 0
  <2>1. UNCHANGED <<rx_ppc, rx_pchar, rx_sent, nread, ctrl_a_pressed, tpc>>
    BY <1>8 DEF Type, thread, rx
  <2>2. Read' = Read /\ Pushing' = Pushing
    BY <1>8, <2>1, ReadKept DEF Pushing
  <2>3. QED  BY <1>a, <2>1, <2>2
<1>9. CASE UartFound
  <2>1. /\ UNCHANGED <<rx_ppc, rx_pchar, rx_sent>> /\ nread' = 0
        /\ tpc = "base" /\ tpc' = "loop" /\ ctrl_a_pressed' = FALSE
    BY <1>9 DEF UartFound, rx
  <2>2. Pushing' = Pushing
    BY <2>1 DEF Pushing
  <2>3. Read = Nothing /\ Read' = Nothing
    BY <1>a, <2>1, ReadNothing
  <2>4. QED  BY <1>a, <2>1, <2>2, <2>3 DEF Nothing
<1>10. CASE ReadQuit \/ ReadEscaped \/ ReadCtrlA
  <2>1. /\ UNCHANGED <<rx_ppc, rx_pchar, rx_sent>> /\ ReadsInput /\ tpc = "input"
        /\ tpc' \in {"returned", "output"}
        /\ typed' = typed \/ typed' = SubSeq(typed, 1, nread + 1)
    BY <1>10 DEF ReadQuit, ReadEscaped, ReadCtrlA, ReadsInput, ReturnFinal, Flushed, rx
  <2>2. /\ Read \in Decoding /\ Read' = Decoded(Read, Input)
        /\ ~ Read.quit /\ ctrl_a_pressed = Read.esc /\ Pushing' = Pushing
    BY <1>a, <2>1, ReadNext DEF Pushing
  <2>3. CASE ReadQuit
    <3>1. ctrl_a_pressed /\ tpc' = "returned"
      BY <2>3 DEF ReadQuit, ReturnFinal
    <3>2. Read'.out = Read.out
      BY <2>2, <3>1 DEF Decoded, Decoding
    <3>3. QED  BY <1>a, <2>1, <2>2, <3>1, <3>2
  <2>4. CASE ReadEscaped
    <3>1. ctrl_a_pressed /\ Input # Quit /\ ctrl_a_pressed' = FALSE /\ tpc' = "output"
      BY <2>4 DEF ReadEscaped, EscapeAfter
    <3>2. Read'.out = Read.out /\ Read'.esc = FALSE /\ Read'.quit = FALSE
      BY <2>2, <3>1 DEF Decoded, Decoding
    <3>3. QED  BY <1>a, <2>1, <2>2, <3>1, <3>2
  <2>5. CASE ReadCtrlA
    <3>1. ~ ctrl_a_pressed /\ Input = CtrlA /\ ctrl_a_pressed' = TRUE /\ tpc' = "output"
      BY <2>5 DEF ReadCtrlA
    <3>2. Read'.out = Read.out /\ Read'.esc = TRUE /\ ~ Read'.quit
      BY <2>2, <3>1 DEF Decoded, Decoding
    <3>3. QED  BY <1>a, <2>1, <2>2, <3>1, <3>2
  <2>6. QED  BY <1>10, <2>3, <2>4, <2>5
<1>11. CASE ReadKey
  <2>1. /\ ReadsInput /\ tpc = "input" /\ tpc' = "push" /\ ~ ctrl_a_pressed
        /\ Input # CtrlA /\ ctrl_a_pressed' = ctrl_a_pressed
        /\ typed' = typed
        /\ rx_ppc = "idle" /\ rx_ppc' = "spin" /\ rx_pchar' = Input /\ rx_sent' = rx_sent
    BY <1>11 DEF ReadKey, ReadsInput, Rx!PushCall, Rx!histVars
  <2>2. /\ Read \in Decoding /\ Read' = Decoded(Read, Input) /\ Input \in KeyChars
        /\ ~ Read.quit /\ ~ Read.esc
    BY <1>a, <2>1, ReadNext
  <2>3. Read'.out = Append(Read.out, Input) /\ Read'.esc = Read.esc /\ Read'.quit = Read.quit
    BY <2>1, <2>2 DEF Decoded, Decoding
  <2>4. Pushing = << >> /\ Pushing' = <<Input>>
    BY <2>1 DEF Pushing
  <2>5. rx_sent = Read.out
    BY <1>a, <1>c, <2>2, <2>4, AppendEmpty
  <2>6. rx_sent' \o Pushing' = Read'.out
    BY <1>c, <2>1, <2>2, <2>3, <2>4, <2>5, AppendIsConcat
  <2>7. QED  BY <1>a, <2>1, <2>3, <2>6
<1>12. CASE PushKey
  <2>1. /\ UNCHANGED <<typed, nread, ctrl_a_pressed>> /\ tpc = "push"
        /\ tpc' \in {"output", "push"} /\ Rx!Push
    BY <1>12 DEF PushKey, keyboard
  <2>2. Read' = Read
    BY <2>1 DEF Read
  <2>3. rx_sent' \o Pushing' = rx_sent \o Pushing
    <3>1. CASE Rx!PushCheck \/ Rx!PushWrite
      BY <3>1 DEF Rx!PushCheck, Rx!PushWrite, Rx!histVars, Pushing
    <3>2. CASE Rx!PushPublish
      <4>1. /\ Pushing = <<rx_pchar>> /\ Pushing' = << >> /\ rx_pchar \in KeyChars
            /\ rx_sent' = Append(rx_sent, rx_pchar)
        BY <1>c, <3>2 DEF Rx!PushPublish, Pushing
      <4>2. QED  BY <1>c, <4>1, AppendEmpty
    <3>3. QED  BY <2>1, <3>1, <3>2 DEF Rx!Push
  <2>4. QED  BY <1>a, <2>1, <2>2, <2>3
<1>13. QED
  BY <1>2, <1>3, <1>4, <1>5, <1>6, <1>7, <1>8, <1>9, <1>10, <1>11, <1>12
  DEF Next, console_main, Environment


-----------------------------------------------------------------------------
(* The theorems *)

LEMMA ConsoleInit == Init => ConsoleInv
<1> SUFFICES ASSUME Init  PROVE ConsoleInv
  OBVIOUS
<1>1. ThreadInv
  BY ThreadInit
<1>2. Rx!RingInv /\ Tx!RingInv
  BY RingsInit
<1>3. screen = tx_received /\ boot = "up" /\ nread = 0 /\ tpc = "main"
      /\ rx_sent = << >> /\ rx_ppc = "idle"
  BY DEF Init, Tx!Init, Rx!Init
<1>4. KeysForwarded
  <2>1. Read.out = << >>
    BY <1>3, ReadNothing DEF Nothing
  <2>2. << >> \o << >> = << >>
    BY EmptySeq, ConcatEmptySeq
  <2>3. QED  BY <1>3, <2>1, <2>2 DEF KeysForwarded, Read
<1>5. QED  BY <1>1, <1>2, <1>3, <1>4 DEF ConsoleInv, BootInv, InLoop, PopSpins

LEMMA ConsoleStep == ConsoleInv /\ [Next]_vars => ConsoleInv'
<1> SUFFICES ASSUME ConsoleInv, [Next]_vars  PROVE ConsoleInv'
  OBVIOUS
<1>1. ThreadInv'
  BY ThreadStep DEF ConsoleInv
<1>2. ASSUME resets' = 0
      PROVE  /\ boot' = "up" /\ Rx!RingInv' /\ Tx!RingInv'
             /\ screen' = tx_received' /\ KeysInv'
             /\ PopSpins' => Len(tx_received') < Len(tx_sent')
  <2>1. resets = 0 /\ boot = "up" /\ boot' = "up"
    BY <1>2, StillUp
  <2>2. TypeOK /\ Rx!RingInv /\ screen = tx_received /\ KeysInv
    BY <2>1 DEF ConsoleInv, ThreadInv, BootInv, KeysInv
  <2>3. screen' = tx_received'
    BY <1>2, <2>2, StillUp, ScreenStep
  <2>4. PopSpins' => Len(tx_received') < Len(tx_sent')
    BY <1>2, <2>1, StillUp, PopStep DEF ConsoleInv, BootInv
  <2>5. QED  BY <1>2, <2>1, <2>2, <2>3, <2>4, RingsStep, KeysStep
<1>3. QED  BY <1>1, <1>2 DEF ConsoleInv, BootInv, KeysInv

\* For every BUFFER_SIZE and number of resets.
THEOREM ConsoleSafety == Spec => []ConsoleInv
BY ConsoleInit, ConsoleStep, PTL DEF Spec

\* Whenever uart_loop has returned, for whatever reason and however often it is
\* called again, TerminalRawMode has put the user's mode back.
THEOREM TerminalSafety == Spec => []TerminalRestored
<1>1. ConsoleInv => TerminalRestored
  BY DEF ConsoleInv, ThreadInv
<1>2. QED  BY <1>1, ConsoleSafety, PTL

\* Until the first reset the screen shows what the guest has printed up to some
\* point: every character once and in order.
THEOREM ScreenSafety == Spec => [](resets = 0 => ScreenFaithful)
<1>1. ASSUME ConsoleInv, resets = 0  PROVE ScreenFaithful
  <2> DEFINE n == Len(screen)
             shown == SubSeq(tx_sent, 1, n)
  <2>1. /\ screen = tx_received /\ screen \in Seq(OutChars) /\ tx_sent \in Seq(OutChars)
        /\ n <= Len(tx_sent) /\ \A k \in 1 .. n : screen[k] = tx_sent[k]
    BY <1>1 DEF ConsoleInv, BootInv, Tx!RingInv, Tx!TypeOK, Tx!ReceivedIsPrefix
  <2>2. n \in 0 .. Len(tx_sent)
    BY <2>1
  <2>3. /\ shown \in Seq(OutChars) /\ Len(shown) = n
        /\ \A k \in 1 .. n : shown[k] = tx_sent[k]
    BY <2>1, <2>2, PrefixFacts
  <2> HIDE DEF shown
  <2>4. screen = shown
    BY <2>1, <2>3, SeqEqual
  <2>5. QED  BY <2>1, <2>4 DEF ScreenFaithful, shown
<1>2. ConsoleInv => (resets = 0 => ScreenFaithful)
  BY <1>1
<1>3. QED  BY <1>2, ConsoleSafety, PTL

\* Until the first reset the guest is sent exactly the keys that the escape
\* code of uart_loop lets through, once each and in order.
THEOREM KeysSafety == Spec => [](resets = 0 => KeysForwarded)
<1>1. ConsoleInv => (resets = 0 => KeysForwarded)
  BY DEF ConsoleInv, BootInv
<1>2. QED  BY <1>1, ConsoleSafety, PTL


\* Until the first reset pop_char finds the character that uart_loop saw before
\* it called pop_char: its spin ends at the first look.
THEOREM PopSafety == Spec => []PopNeverWaits
<1>1. ASSUME ConsoleInv, resets = 0, PopSpins  PROVE Tx!can_pop
  <2> DEFINE r == Len(tx_received)
             n == Len(tx_sent)
  <2>1. /\ Tx!TypeOK /\ tx_head = n % N /\ tx_tail = r % N
        /\ n - r <= N - 1 /\ r < n
    BY <1>1 DEF ConsoleInv, BootInv, Tx!RingInv, Tx!IndicesCount, Tx!OneSlotFree, Tx!Pending
  <2>2. n \in Nat /\ r \in Nat
    BY <2>1 DEF Tx!TypeOK
  <2> HIDE DEF n, r
  <2>3. n % N # r % N
    <3>1. N \in Nat /\ N > 0 /\ n < r + N
      BY <2>1, <2>2, NAssumption
    <3>2. r % N # n % N
      BY <2>1, <2>2, <3>1, TxP!ModDistinct, NAssumption, NoCharAssumption, BoundAssumption
    <3>3. QED  BY <3>2
  <2>4. tx_head \in 0 .. N - 1 /\ tx_tail \in 0 .. N - 1
    BY <2>1 DEF Tx!TypeOK, Tx!Slots
  <2>5. tx_head % N = tx_head /\ tx_tail % N = tx_tail
    BY <2>4, NAssumption, TxP!ModSmall
  <2>6. QED  BY <2>1, <2>3, <2>5 DEF Tx!can_pop
<1>2. ConsoleInv => PopNeverWaits
  BY <1>1 DEF PopNeverWaits
<1>3. QED  BY <1>2, ConsoleSafety, PTL

\* What OpenSBI has received is the beginning of what the keys decode to.
GuestFaithful ==
    /\ Len(rx_received) <= Len(Read.out)
    /\ \A k \in 1 .. Len(rx_received) : rx_received[k] = Read.out[k]

\* From the keyboard through the escape code and the ring to the guest, until
\* the first reset: nothing is lost, doubled or reordered.
THEOREM GuestSafety == Spec => [](resets = 0 => GuestFaithful)
<1>1. ASSUME ConsoleInv, resets = 0  PROVE GuestFaithful
  <2>1. /\ rx_sent \in Seq(KeyChars) /\ rx_received \in Seq(KeyChars)
        /\ Len(rx_received) <= Len(rx_sent)
        /\ \A k \in 1 .. Len(rx_received) : rx_received[k] = rx_sent[k]
        /\ rx_ppc # "idle" => rx_pchar \in KeyChars
    BY <1>1 DEF ConsoleInv, BootInv, Rx!RingInv, Rx!TypeOK, Rx!ReceivedIsPrefix,
                Rx!LocalsCurrent
  <2>2. Pushing \in Seq(KeyChars)
    BY <2>1 DEF Pushing
  <2>3. rx_sent \o Pushing = Read.out
    BY <1>1 DEF ConsoleInv, BootInv, KeysForwarded, Read, Pushing
  <2>4. /\ Len(Read.out) = Len(rx_sent) + Len(Pushing)
        /\ \A k \in 1 .. Len(rx_sent) : Read.out[k] = rx_sent[k]
    <3>1. /\ Len(rx_sent \o Pushing) = Len(rx_sent) + Len(Pushing)
          /\ \A k \in 1 .. Len(rx_sent) + Len(Pushing) :
               (rx_sent \o Pushing)[k] =
                 IF k <= Len(rx_sent) THEN rx_sent[k] ELSE Pushing[k - Len(rx_sent)]
      BY <2>1, <2>2, ConcatProperties
    <3>2. Len(rx_sent) \in Nat /\ Len(Pushing) \in Nat
      BY <2>1, <2>2
    <3>3. QED  BY <2>3, <3>1, <3>2
  <2>5. Len(rx_sent) \in Nat /\ Len(Pushing) \in Nat /\ Len(rx_received) \in Nat
    BY <2>1, <2>2
  <2>6. QED  BY <2>1, <2>4, <2>5 DEF GuestFaithful
<1>2. ConsoleInv => (resets = 0 => GuestFaithful)
  BY <1>1
<1>3. QED  BY <1>2, ConsoleSafety, PTL

===========================================================================
