------------------------------ MODULE Console ------------------------------
(***************************************************************************)
(* The console thread of the tool: console_main (tt-bh-linux.cpp) calling  *)
(* uart_loop (console.hpp), between the user's terminal and the two rings  *)
(* of the virtual UART.  The host is the producer of rx and the consumer of*)
(* tx; OpenSBI is the other end of both.  The rings are two instances of   *)
(* VirtUart, whose actions the thread's steps contain.                     *)
(*                                                                         *)
(* A chip reset ends what runs on the X280 and loses its DRAM: the magic   *)
(* and the eye catcher are gone and every index reads as all ones.  Booting*)
(* first loads the OpenSBI image, whose descriptor is there but has no     *)
(* virtuart_base yet, and then initialises the queues.                     *)
(*                                                                         *)
(* A failing TLB ioctl ends the whole process (exit(1) in tlb.cpp), so the *)
(* catch block of console_main is not reached from it; nothing else in     *)
(* uart_loop throws once the arguments of main are valid.                  *)
(***************************************************************************)
EXTENDS Integers, Sequences

CONSTANTS N,           \* BUFFER_SIZE
          KeyChars,    \* the keys other than Ctrl-A, "x" among them
          OutChars,    \* what the guest prints
          NoChar,
          MaxKeys,     \* bound: keys typed
          MaxOut,      \* bound: characters the guest prints
          MaxResets    \* bound: chip resets

CtrlA == "^A"
Quit == "x"

ASSUME NAssumption == N \in Nat /\ N > 1
ASSUME KeysAssumption == Quit \in KeyChars /\ CtrlA \notin KeyChars
ASSUME NoCharAssumption == NoChar \notin KeyChars /\ NoChar \notin OutChars
ASSUME BoundAssumption == MaxKeys \in Nat /\ MaxOut \in Nat /\ MaxResets \in Nat

VARIABLES
    rx_buf, rx_head, rx_tail, rx_ppc, rx_pchar, rx_cpc, rx_cchar, rx_sent, rx_received,
    tx_buf, tx_head, tx_tail, tx_ppc, tx_pchar, tx_cpc, tx_cchar, tx_sent, tx_received,
    boot,              \* "up", "reset", "loading"
    tpc,               \* where the console thread is
    ctrl_a_pressed,
    exit_thread_flag,
    debug_descriptor,  \* the pointer to OpenSBI's descriptor was read from live memory
    tty, orig_termios, \* the terminal's mode, and the one that was saved
    typed,             \* the keys typed since the terminal's input was last flushed
    nread,             \* how many of them the thread has read
    screen,            \* what the thread has printed
    vanished,          \* uart_loop has returned -EAGAIN
    resets             \* bounds the resets

rx == <<rx_buf, rx_head, rx_tail, rx_ppc, rx_pchar, rx_cpc, rx_cchar, rx_sent, rx_received>>
tx == <<tx_buf, tx_head, tx_tail, tx_ppc, tx_pchar, tx_cpc, tx_cchar, tx_sent, tx_received>>
thread == <<tpc, ctrl_a_pressed, exit_thread_flag, debug_descriptor, tty, orig_termios,
            screen, vanished>>
keyboard == <<typed, nread>>
vars == <<rx, tx, boot, thread, keyboard, resets>>

Rx == INSTANCE VirtUart WITH
        buf <- rx_buf, head <- rx_head, tail <- rx_tail, ppc <- rx_ppc, pchar <- rx_pchar,
        cpc <- rx_cpc, cchar <- rx_cchar, sent <- rx_sent, received <- rx_received,
        kills <- 0, Chars <- KeyChars, MaxSent <- MaxKeys, MaxKills <- 0

Tx == INSTANCE VirtUart WITH
        buf <- tx_buf, head <- tx_head, tail <- tx_tail, ppc <- tx_ppc, pchar <- tx_pchar,
        cpc <- tx_cpc, cchar <- tx_cchar, sent <- tx_sent, received <- tx_received,
        kills <- 0, Chars <- OutChars, MaxSent <- MaxOut, MaxKills <- 0

Init ==
    /\ Rx!Init /\ Tx!Init
    /\ boot = "up"
    /\ tpc = "main" /\ ctrl_a_pressed = FALSE /\ exit_thread_flag = FALSE
    /\ debug_descriptor = TRUE /\ tty = "cooked" /\ orig_termios = "cooked"
    /\ typed = << >> /\ nread = 0 /\ screen = << >>
    /\ vanished = FALSE /\ resets = 0

-----------------------------------------------------------------------------
(* The console thread *)

\* The while loop of console_main: exit, or call uart_loop.
MainLoop ==
    /\ tpc = "main"
    /\ tpc' = IF exit_thread_flag THEN "returned" ELSE "attach"
    /\ UNCHANGED <<rx, tx, boot, ctrl_a_pressed, exit_thread_flag, debug_descriptor, tty,
                   orig_termios, screen, vanished, keyboard, resets>>

\* The constructor of L2CPU, the pointer to the debug descriptor and the window
\* there; on a chip in reset an ioctl may fail, and the process exits.
Attach ==
    /\ tpc = "attach"
    /\ debug_descriptor' = (boot # "reset")
    /\ tpc' = "eye"
    /\ UNCHANGED <<rx, tx, boot, ctrl_a_pressed, exit_thread_flag, tty, orig_termios,
                   screen, vanished, keyboard, resets>>

AttachFails ==
    /\ tpc = "attach" /\ boot = "reset"
    /\ tpc' = "exited"
    /\ UNCHANGED <<rx, tx, boot, ctrl_a_pressed, exit_thread_flag, debug_descriptor, tty,
                   orig_termios, screen, vanished, keyboard, resets>>

\* Mutant of RestoredMode: the destructor's tcsetattr is missing.
NotRestoredMode == tty

\* What ~TerminalRawMode leaves behind.
RestoredMode == orig_termios

\* TCSAFLUSH: the first n keys have been read, the others are discarded.
Flushed(n) == typed' = SubSeq(typed, 1, n) /\ nread' = n

\* uart_loop returns r after n keys (after the destructors), and console_main
\* looks at it.
ReturnAgain(n) ==
    /\ vanished' = TRUE /\ tty' = RestoredMode /\ Flushed(n)
    /\ tpc' = "main"
    /\ UNCHANGED exit_thread_flag

ReturnFinal(n) ==
    /\ exit_thread_flag' = TRUE /\ tty' = RestoredMode /\ Flushed(n)
    /\ tpc' = "returned"
    /\ UNCHANGED vanished

\* The debug descriptor: eye catcher, then virtuart_base; either missing makes
\* uart_loop return 1, before the terminal is touched.
DescriptorBad ==
    \/ tpc = "eye" /\ (boot = "reset" \/ ~ debug_descriptor)
    \/ tpc = "base" /\ boot # "up"

DescriptorMissing ==
    /\ DescriptorBad
    /\ exit_thread_flag' = TRUE /\ tpc' = "returned"
    /\ UNCHANGED <<rx, tx, boot, ctrl_a_pressed, debug_descriptor, tty, orig_termios,
                   screen, vanished, keyboard, resets>>

EyeCatcherFound ==
    /\ tpc = "eye" /\ ~ DescriptorBad
    /\ tpc' = "base"
    /\ UNCHANGED <<rx, tx, boot, ctrl_a_pressed, exit_thread_flag, debug_descriptor, tty,
                   orig_termios, screen, vanished, keyboard, resets>>

\* The queues' window, and the constructor of TerminalRawMode, whose TCSAFLUSH
\* discards what was typed before.
UartFound ==
    /\ tpc = "base" /\ ~ DescriptorBad
    /\ orig_termios' = tty /\ tty' = "raw"
    /\ typed' = << >> /\ nread' = 0
    /\ ctrl_a_pressed' = FALSE
    /\ tpc' = "loop"
    /\ UNCHANGED <<rx, tx, boot, exit_thread_flag, debug_descriptor, screen, vanished, resets>>


\* q->magic is not VIRTUAL_UART_MAGIC.
MagicLost == boot # "up"

LoopTop ==
    /\ tpc = "loop"
    /\ \/ exit_thread_flag /\ ReturnFinal(nread)
       \/ ~ exit_thread_flag /\ MagicLost /\ ReturnAgain(nread)
       \/ /\ ~ exit_thread_flag /\ ~ MagicLost
          /\ tpc' = "input"
          /\ UNCHANGED <<exit_thread_flag, tty, vanished, keyboard>>
    /\ UNCHANGED <<rx, tx, boot, ctrl_a_pressed, debug_descriptor, orig_termios, screen,
                   resets>>

NoInput ==
    /\ tpc = "input" /\ nread = Len(typed)
    /\ tpc' = "output"
    /\ UNCHANGED <<rx, tx, boot, ctrl_a_pressed, exit_thread_flag, debug_descriptor, tty,
                   orig_termios, screen, vanished, keyboard, resets>>

Input == typed[nread + 1]

ReadsInput ==
    /\ tpc = "input" /\ nread < Len(typed)
    /\ nread' = nread + 1
    /\ UNCHANGED <<boot, debug_descriptor, orig_termios, screen, resets>>

\* "x" after Ctrl-A: break, return 0.
ReadQuit ==
    /\ ReadsInput
    /\ ctrl_a_pressed /\ Input = Quit
    /\ ReturnFinal(nread + 1)
    /\ UNCHANGED <<rx, tx, ctrl_a_pressed>>

\* Mutant of EscapeAfter: a key after Ctrl-A does not end the escape.
EscapeSticks == TRUE

\* ctrl_a_pressed once the key after Ctrl-A has been read.
EscapeAfter == FALSE

\* Any other key after Ctrl-A is dropped, a second Ctrl-A included.
ReadEscaped ==
    /\ ReadsInput
    /\ ctrl_a_pressed /\ Input # Quit
    /\ ctrl_a_pressed' = EscapeAfter
    /\ tpc' = "output"
    /\ UNCHANGED <<rx, tx, exit_thread_flag, tty, vanished, typed>>

ReadCtrlA ==
    /\ ReadsInput
    /\ ~ ctrl_a_pressed /\ Input = CtrlA
    /\ ctrl_a_pressed' = TRUE
    /\ tpc' = "output"
    /\ UNCHANGED <<rx, tx, exit_thread_flag, tty, vanished, typed>>

\* Any other key goes to push_char.
ReadKey ==
    /\ ReadsInput
    /\ ~ ctrl_a_pressed /\ Input # CtrlA
    /\ Rx!PushCall(Input)
    /\ tpc' = "push"
    /\ UNCHANGED <<tx, ctrl_a_pressed, exit_thread_flag, tty, vanished, typed>>

PushKey ==
    /\ tpc = "push"
    /\ Rx!Push
    /\ tpc' = IF rx_ppc = "publish" THEN "output" ELSE "push"
    /\ UNCHANGED <<tx, boot, ctrl_a_pressed, exit_thread_flag, debug_descriptor, tty,
                   orig_termios, screen, vanished, keyboard, resets>>

\* Mutant of OutputReady: pop_char is called without a look at the ring.
OutputAssumed == TRUE

\* What uart_loop asks before it calls pop_char.
OutputReady == Tx!can_pop

NoOutput ==
    /\ tpc = "output" /\ ~ OutputReady
    /\ tpc' = "loop"
    /\ UNCHANGED <<rx, tx, boot, ctrl_a_pressed, exit_thread_flag, debug_descriptor, tty,
                   orig_termios, screen, vanished, keyboard, resets>>

\* pop_char is called.
SeesOutput ==
    /\ tpc = "output" /\ OutputReady
    /\ tpc' = "pop"
    /\ UNCHANGED <<rx, tx, boot, ctrl_a_pressed, exit_thread_flag, debug_descriptor, tty,
                   orig_termios, screen, vanished, keyboard, resets>>

\* pop_char, which spins on can_pop itself, and printf.
PopOutput ==
    /\ tpc = "pop"
    /\ \/ (Tx!PopCheck \/ Tx!PopRead) /\ UNCHANGED <<tpc, screen>>
       \/ Tx!PopPublish /\ tpc' = "loop" /\ screen' = Append(screen, tx_cchar)
    /\ UNCHANGED <<rx, boot, ctrl_a_pressed, exit_thread_flag, debug_descriptor, tty,
                   orig_termios, vanished, keyboard, resets>>

console_main ==
    \/ MainLoop \/ Attach \/ DescriptorMissing \/ EyeCatcherFound \/ UartFound
    \/ LoopTop \/ NoInput \/ ReadQuit \/ ReadEscaped \/ ReadCtrlA \/ ReadKey \/ PushKey
    \/ NoOutput \/ SeesOutput \/ PopOutput

-----------------------------------------------------------------------------
(* OpenSBI, the user and the chip *)

\* OpenSBI's putc and getc: the same ring code on the other end.
OpenSBIPut ==
    /\ boot = "up"
    /\ (\E c \in OutChars : Tx!PushCall(c)) \/ Tx!Push
    /\ UNCHANGED <<rx, boot, thread, keyboard, resets>>

OpenSBIGet ==
    /\ boot = "up"
    /\ Rx!Pop
    /\ UNCHANGED <<tx, boot, thread, keyboard, resets>>

Type(k) ==
    /\ Len(typed) < MaxKeys
    /\ typed' = Append(typed, k)
    /\ UNCHANGED <<rx, tx, boot, thread, nread, resets>>

\* An index in dead memory: like 0xffffffff, the last one of a buffer modulo its
\* size, and followed by 0.
AllOnes == 2 * N - 1

\* The memory of both rings is lost or initialised, every index then reads i; the
\* histories start anew.  The host's thread knows nothing of it: a push or a pop
\* under way goes on.  (What it stores in dead memory is kept here, which nobody
\* can tell: it looks at the magic before it reads the index again.)
RingsCleared(i) ==
    /\ rx_buf' = [n \in Rx!Slots |-> NoChar] /\ rx_head' = i /\ rx_tail' = i
    /\ rx_cpc' = "idle" /\ rx_cchar' = NoChar /\ rx_sent' = << >> /\ rx_received' = << >>
    /\ tx_buf' = [n \in Rx!Slots |-> NoChar] /\ tx_head' = i /\ tx_tail' = i
    /\ tx_ppc' = "idle" /\ tx_pchar' = NoChar /\ tx_sent' = << >> /\ tx_received' = << >>
    /\ UNCHANGED <<rx_ppc, rx_pchar, tx_cpc, tx_cchar>>

ChipReset ==
    /\ resets < MaxResets /\ boot' = "reset" /\ resets' = resets + 1
    /\ RingsCleared(AllOnes)
    /\ UNCHANGED <<thread, keyboard>>

LoadOpenSBI ==
    /\ boot = "reset" /\ boot' = "loading"
    /\ UNCHANGED <<rx, tx, thread, keyboard, resets>>

InitOpenSBI ==
    /\ boot = "loading" /\ boot' = "up"
    /\ RingsCleared(0)
    /\ UNCHANGED <<thread, keyboard, resets>>

\* The disk or the network thread notices the reset too and fails to get its
\* TLB windows: exit(1), while the console thread is anywhere.
OtherThreadExits ==
    /\ boot = "reset" /\ tpc \notin {"returned", "exited"}
    /\ tpc' = "exited"
    /\ UNCHANGED <<rx, tx, boot, ctrl_a_pressed, exit_thread_flag, debug_descriptor, tty,
                   orig_termios, screen, vanished, keyboard, resets>>

Environment ==
    \/ \E k \in KeyChars \cup {CtrlA} : Type(k)
    \/ OpenSBIPut \/ OpenSBIGet
    \/ ChipReset \/ LoadOpenSBI \/ InitOpenSBI
    \/ AttachFails \/ OtherThreadExits

Next == console_main \/ Environment

\* The thread polls and never blocks outside push_char's and pop_char's spins.
HostFairness == WF_vars(console_main)

\* The guest reads what is sent to it.
GuestFairness == WF_vars(OpenSBIGet)

Spec == Init /\ [][Next]_vars /\ HostFairness /\ GuestFairness

\* A guest that may hang.
SpecGuestMayHang == Init /\ [][Next]_vars /\ HostFairness

-----------------------------------------------------------------------------
(* Properties *)

InLoop == tpc \in {"loop", "input", "push", "output", "pop"}

\* The type of every variable outside the rings.
TypeOK ==
    /\ {rx_head, rx_tail, tx_head, tx_tail} \subseteq Rx!Slots \cup {AllOnes}
    /\ boot \in {"up", "reset", "loading"}
    /\ tpc \in {"main", "attach", "eye", "base", "loop", "input", "push", "output",
                "pop", "returned", "exited"}
    /\ ctrl_a_pressed \in BOOLEAN /\ exit_thread_flag \in BOOLEAN /\ vanished \in BOOLEAN
    /\ debug_descriptor \in BOOLEAN
    /\ tty \in {"cooked", "raw"} /\ orig_termios \in {"cooked", "raw"}
    /\ typed \in Seq(KeyChars \cup {CtrlA})
    /\ nread \in 0 .. Len(typed)
    /\ screen \in Seq(OutChars \cup {NoChar})
    /\ resets \in Nat

\* The escape code of the console as a function of the keys read: what is to
\* be forwarded, whether the last key was Ctrl-A, whether to quit.
Decode[keys \in Seq(KeyChars \cup {CtrlA})] ==
    IF keys = << >>
    THEN [out |-> << >>, esc |-> FALSE, quit |-> FALSE]
    ELSE LET before == Decode[SubSeq(keys, 1, Len(keys) - 1)]
             key == keys[Len(keys)]
         IN  IF before.quit THEN before
             ELSE IF before.esc
             THEN [before EXCEPT !.esc = FALSE, !.quit = (key = Quit)]
             ELSE IF key = CtrlA THEN [before EXCEPT !.esc = TRUE]
             ELSE [before EXCEPT !.out = Append(@, key)]

\* The guest is sent exactly the keys that are not part of an escape, once
\* each and in order; the one in push_char is the last of them.
KeysForwarded ==
    LET pushing == IF rx_ppc = "idle" THEN << >> ELSE <<rx_pchar>>
    IN  rx_sent \o pushing = Decode[SubSeq(typed, 1, nread)].out

\* What is on the screen is what the guest printed, up to some point.
ScreenFaithful ==
    /\ Len(screen) <= Len(tx_sent)
    /\ screen = SubSeq(tx_sent, 1, Len(screen))

\* The terminal is in the user's mode when the console thread has returned or
\* is between two calls of uart_loop, and raw in its loop, over any number of
\* resets and retries.
TerminalRestored ==
    /\ InLoop => tty = "raw"
    /\ ~ InLoop /\ tpc # "exited" => tty = "cooked"

\* Ctrl-A x ends a running console, whatever was typed before ("Quit with
\* `Ctrl-A x`", README.md:33).
QuitWorks ==
    (InLoop /\ Decode[typed].quit) ~> (tpc \in {"returned", "exited"})

\* A key that is to be forwarded, typed at a running console, reaches the guest,
\* unless the console ends.
KeysDelivered ==
    \A k \in 1 .. MaxKeys :
        (InLoop /\ Len(Decode[typed].out) >= k)
            ~> (Len(rx_received) >= k \/ tpc \in {"returned", "exited"})

\* pop_char has been called and is in its own spin on can_pop.
PopSpins == tpc = "pop" /\ tx_cpc = "idle"

\* Until a reset the character uart_loop has seen is still there when pop_char
\* looks for it: pop_char does not wait.
PopNeverWaits == resets = 0 /\ PopSpins => Tx!can_pop



\* After "Error (UART vanished) -- was the chip reset?  Retrying..."
\* (tt-bh-linux.cpp:24) the tool goes on until the user quits.
RetriesAfterVanish ==
    vanished /\ exit_thread_flag => Decode[SubSeq(typed, 1, nread)].quit
=============================================================================
