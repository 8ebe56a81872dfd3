-------------------------------- MODULE Console -------------------------------
(***************************************************************************)
(* kernel/console.c over kernel/uart.c: input lines, buffered output and    *)
(* the interrupt handler they share with the device.                        *)
(*                                                                          *)
(* A step is a critical section of cons.lock or uart_tx_lock, or one pass   *)
(* of a loop inside it.  The device is external: it receives a character,   *)
(* or becomes idle, and raises its interrupt each time.  An echo, the three *)
(* characters of an erasure included, is one use of the transmitter.        *)
(***************************************************************************)
EXTENDS Integers, Sequences, FiniteSets

CONSTANTS
  Readers, Writers, Killable, \* processes
  Reads, Writes,             \* sizes of read() and write()
  Keys,                      \* what is typed
  INPUT_BUF, UART_TX_BUF_SIZE,
  WRAP, First,               \* the indices count modulo WRAP; where a run starts
  MaxTyped, MaxCalls

ASSUME ConsoleAssumption ==
  /\ INPUT_BUF \in Nat \ {0} /\ UART_TX_BUF_SIZE \in Nat \ {0}
  /\ WRAP % INPUT_BUF = 0 /\ WRAP % UART_TX_BUF_SIZE = 0
  /\ First \in 0 .. WRAP - 1
  /\ WRAP > INPUT_BUF /\ WRAP > UART_TX_BUF_SIZE

VARIABLES
  buf, r, w, e,             \* cons
  cons_lock,
  tx_buf, tx_r, tx_w,       \* the output ring
  tx_lock,
  thr, rhr, irq,            \* the device: transmitting, received (or None), interrupt
  intr,                     \* where uartintr() is
  pc, n, got,               \* each process: its place, bytes still wanted, bytes read
  killed,
  sent,                     \* history: the byte of the ring last sent
  eofs,                     \* history: ends of file typed and not yet returned as 0 bytes
  typed, calls              \* bounds

cons    == <<buf, r, w, e>>
tx      == <<tx_buf, tx_r, tx_w, sent>>
uart    == <<thr, rhr, irq, intr>>
process == <<pc, n, got, killed, calls>>
vars    == <<cons, cons_lock, tx, tx_lock, uart, process, eofs, typed>>

Proc == Readers \cup Writers
None == "none"
Uart == "uartintr"

Inc(i, k)     == (i + k) % WRAP
Between(i, j) == (j - i) % WRAP

Goto(p, place) == pc' = [pc EXCEPT ![p] = place]

\* wakeup(): the processes asleep at place go back to their loop.
wakeup(place, next) == [p \in Proc |-> IF pc[p] = place THEN next ELSE pc[p]]

-------------------------------------------------------------------------------
(* Mutations.                                                               *)

\* consoleintr() lets the ring overflow by one.
RoomForOneMore == Between(r, e) <= INPUT_BUF

\* Backspace and ^U may erase what consoleread() can already take.
ErasableToRead == Between(r, e)

\* consoleread() does not put ^D back after a part of a line.
EofEaten(p) == Inc(r, 1)

\* uartputc() lets the ring overflow.
NeverFull == FALSE

\* uartstart() does not wake the writers, or consoleintr() the readers.
NoWakeup == pc

-------------------------------------------------------------------------------
(* consoleread().                                                           *)

ReturnRead(p) ==
  /\ Goto(p, "idle")
  /\ cons_lock' = None
  /\ n' = [n EXCEPT ![p] = 0]
  /\ got' = [got EXCEPT ![p] = 0]

read_call(p) ==
  /\ p \in Readers
  /\ pc[p] = "idle" /\ calls < MaxCalls
  /\ cons_lock = None
  /\ cons_lock' = p
  /\ Goto(p, "read")
  /\ \E k \in Reads : n' = [n EXCEPT ![p] = k]
  /\ calls' = calls + 1
  /\ UNCHANGED <<cons, tx, tx_lock, uart, got, killed, eofs, typed>>

\* Nothing to read: sleep on cons.r, or give up when killed.
read_wait(p) ==
  /\ pc[p] = "read"
  /\ r = w
  /\ IF p \in killed
       THEN ReturnRead(p)
       ELSE Goto(p, "asleep_r") /\ cons_lock' = None /\ UNCHANGED <<n, got>>
  /\ UNCHANGED <<cons, tx, tx_lock, uart, killed, calls, eofs, typed>>

\* sleep() takes the lock again.
read_woken(p) ==
  /\ pc[p] = "woken_r"
  /\ cons_lock = None
  /\ cons_lock' = p
  /\ Goto(p, "read")
  /\ UNCHANGED <<cons, tx, tx_lock, uart, n, got, killed, calls, eofs, typed>>

\* Save ^D for next time, so that the caller gets a 0-byte result.
AfterEof(p) == IF got[p] > 0 THEN r ELSE Inc(r, 1)

\* c = cons.buf[cons.r++ % INPUT_BUF].  The call ends at ^D, at a newline, with
\* the last byte wanted, or when either_copyout() fails (the byte is gone then).
read_char(p) ==
  LET c == buf[r % INPUT_BUF] IN
  /\ pc[p] = "read"
  /\ r # w
  /\ IF c = "^D"
       THEN /\ r' = AfterEof(p)
            /\ eofs' = IF got[p] = 0 THEN eofs - 1 ELSE eofs
            /\ ReturnRead(p)
       ELSE /\ r' = Inc(r, 1)
            /\ \/ ReturnRead(p)
               \/ /\ c # "nl" /\ n[p] > 1
                  /\ got' = [got EXCEPT ![p] = @ + 1]
                  /\ n' = [n EXCEPT ![p] = @ - 1]
                  /\ UNCHANGED <<pc, cons_lock>>
            /\ UNCHANGED eofs
  /\ UNCHANGED <<buf, w, e, tx, tx_lock, uart, killed, calls, typed>>

-------------------------------------------------------------------------------
(* consolewrite(): uartputc() of each character.                            *)

write_call(p) ==
  /\ p \in Writers
  /\ pc[p] = "idle" /\ calls < MaxCalls
  /\ \E k \in Writes : n' = [n EXCEPT ![p] = k]
  /\ Goto(p, "write")
  /\ calls' = calls + 1
  /\ UNCHANGED <<cons, cons_lock, tx, tx_lock, uart, got, killed, eofs, typed>>

\* All has been written.
write_return(p) ==
  /\ pc[p] = "write" /\ n[p] = 0
  /\ Goto(p, "idle")
  /\ UNCHANGED <<cons, cons_lock, tx, tx_lock, uart, n, got, killed, calls, eofs, typed>>

\* either_copyin() fails.
write_fault(p) ==
  /\ pc[p] = "write" /\ n[p] > 0
  /\ Goto(p, "idle")
  /\ n' = [n EXCEPT ![p] = 0]
  /\ UNCHANGED <<cons, cons_lock, tx, tx_lock, uart, got, killed, calls, eofs, typed>>

Full == tx_w = Inc(tx_r, UART_TX_BUF_SIZE)

\* uartputc(): the ring is full, sleep on uart_tx_r.
uartputc_full(p) ==
  /\ pc[p] = "write" /\ n[p] > 0
  /\ tx_lock = None
  /\ Full
  /\ Goto(p, "asleep_w")
  /\ UNCHANGED <<cons, cons_lock, tx, tx_lock, uart, n, got, killed, calls, eofs, typed>>

\* uartputc(): put the character in the ring, and uartstart().
uartputc(p) ==
  /\ pc[p] = "write" /\ n[p] > 0
  /\ tx_lock = None
  /\ ~ Full
  /\ tx_buf' = [tx_buf EXCEPT ![tx_w % UART_TX_BUF_SIZE] = p]
  /\ tx_w' = Inc(tx_w, 1)
  /\ tx_lock' = p
  /\ Goto(p, "start")
  /\ n' = [n EXCEPT ![p] = @ - 1]
  /\ UNCHANGED <<cons, cons_lock, tx_r, sent, uart, got, killed, calls, eofs, typed>>

\* kill() marks a process and makes a sleeper runnable; uartputc() tests again.
kill(p) ==
  /\ p \in Killable \ killed
  /\ killed' = killed \cup {p}
  /\ pc' = [pc EXCEPT ![p] = IF @ = "asleep_r" THEN "woken_r" ELSE IF @ = "asleep_w" THEN "write" ELSE @]
  /\ UNCHANGED <<cons, cons_lock, tx, tx_lock, uart, n, got, calls, eofs, typed>>

-------------------------------------------------------------------------------
(* uartstart(), with uart_tx_lock held by a process or by uartintr().       *)

NothingToSend == tx_r = tx_w \/ thr

Woken == wakeup("asleep_w", "write")

uartstart ==
  /\ tx_lock # None
  /\ ~ NothingToSend
  /\ sent' = tx_buf[tx_r % UART_TX_BUF_SIZE]
  /\ tx_r' = Inc(tx_r, 1)
  /\ thr' = TRUE
  /\ pc' = Woken
  /\ UNCHANGED <<cons, cons_lock, tx_buf, tx_w, tx_lock, rhr, irq, intr, n, got, killed, calls, eofs, typed>>

\* The ring is empty or the transmitter busy: release(&uart_tx_lock).
uartstart_return ==
  /\ tx_lock # None
  /\ NothingToSend
  /\ tx_lock' = None
  /\ IF tx_lock = Uart
       THEN intr' = "idle" /\ UNCHANGED pc
       ELSE Goto(tx_lock, "write") /\ UNCHANGED intr
  /\ UNCHANGED <<cons, cons_lock, tx, thr, rhr, irq, n, got, killed, calls, eofs, typed>>

-------------------------------------------------------------------------------
(* uartintr() and consoleintr().                                            *)

\* devintr(): the interrupt is claimed.
uartintr ==
  /\ irq /\ intr = "idle"
  /\ irq' = FALSE
  /\ intr' = "getc"
  /\ UNCHANGED <<cons, cons_lock, tx, tx_lock, thr, rhr, process, eofs, typed>>

\* uartgetc() finds nothing: acquire(&uart_tx_lock).
uartgetc_none ==
  /\ intr = "getc" /\ rhr = None
  /\ tx_lock = None
  /\ tx_lock' = Uart
  /\ intr' = "start"
  /\ UNCHANGED <<cons, cons_lock, tx, thr, rhr, irq, process, eofs, typed>>

Room == Between(r, e) < INPUT_BUF

\* How far back the line may be erased.
Erasable == Between(w, e)

\* ^U erases back to w, or to a newline.
LineStart == CHOOSE k \in 0 .. Erasable :
  /\ \A i \in 1 .. k : buf[(e - i) % INPUT_BUF] # "nl"
  /\ k = Erasable \/ buf[(e - k - 1) % INPUT_BUF] = "nl"

Erased(c) == IF c = "^U" THEN LineStart ELSE IF Erasable > 0 THEN 1 ELSE 0

\* consoleintr() of ^U or backspace: the echo waits for the transmitter.
consoleintr_erase ==
  /\ intr = "getc" /\ rhr \in {"^U", "^H"}
  /\ cons_lock = None
  /\ Erased(rhr) = 0 \/ ~ thr
  /\ e' = (e - Erased(rhr)) % WRAP
  /\ thr' = (thr \/ Erased(rhr) > 0)
  /\ rhr' = None
  /\ UNCHANGED <<buf, r, w, cons_lock, tx, tx_lock, irq, intr, process, eofs, typed>>

ReadersWoken == wakeup("asleep_r", "woken_r")

\* consoleintr() of any other character; '\r' counts as a newline.
consoleintr ==
  LET c == IF rhr = "cr" THEN "nl" ELSE rhr IN
  /\ intr = "getc" /\ rhr \notin {None, "^U", "^H"}
  /\ cons_lock = None
  /\ rhr' = None
  /\ IF rhr # "nul" /\ Room
       THEN /\ ~ thr /\ thr' = TRUE
            /\ buf' = [buf EXCEPT ![e % INPUT_BUF] = c]
            /\ e' = Inc(e, 1)
            /\ IF c \in {"nl", "^D"} \/ e' = Inc(r, INPUT_BUF)
                 THEN w' = e' /\ pc' = ReadersWoken
                 ELSE UNCHANGED <<w, pc>>
            /\ eofs' = IF c = "^D" THEN eofs + 1 ELSE eofs
       ELSE UNCHANGED <<buf, w, e, thr, pc, eofs>>
  /\ UNCHANGED <<r, cons_lock, tx, tx_lock, irq, intr, n, got, killed, calls, typed>>

-------------------------------------------------------------------------------
(* The device.                                                              *)

dev_receive ==
  /\ rhr = None /\ typed < MaxTyped
  /\ rhr' \in Keys
  /\ typed' = typed + 1
  /\ irq' = TRUE
  /\ UNCHANGED <<cons, cons_lock, tx, tx_lock, thr, intr, process, eofs>>

dev_idle ==
  /\ thr
  /\ thr' = FALSE
  /\ irq' = TRUE
  /\ UNCHANGED <<cons, cons_lock, tx, tx_lock, rhr, intr, process, eofs, typed>>

-------------------------------------------------------------------------------

\* consoleinit() and uartinit(); the indices are wherever empty rings have left
\* them.
Init ==
  /\ buf = [i \in 0 .. INPUT_BUF - 1 |-> "nul"]
  /\ r = First /\ w = First /\ e = First
  /\ tx_buf = [i \in 0 .. UART_TX_BUF_SIZE - 1 |-> None]
  /\ sent = None
  /\ tx_r = First /\ tx_w = First
  /\ cons_lock = None /\ tx_lock = None
  /\ thr = FALSE /\ rhr = None /\ irq = FALSE /\ intr = "idle"
  /\ pc = [p \in Proc |-> "idle"]
  /\ n = [p \in Proc |-> 0]
  /\ got = [p \in Proc |-> 0]
  /\ killed = {}
  /\ eofs = 0
  /\ typed = 0 /\ calls = 0

\* What goes on by itself once a call is made or a key typed.
Progress ==
  \/ \E p \in Proc : \/ read_wait(p) \/ read_woken(p) \/ read_char(p)
                     \/ write_return(p) \/ uartputc_full(p) \/ uartputc(p)
  \/ uartstart \/ uartstart_return
  \/ uartintr \/ uartgetc_none \/ consoleintr_erase \/ consoleintr
  \/ dev_idle

Next ==
  \/ \E p \in Proc : read_call(p) \/ write_call(p) \/ kill(p) \/ write_fault(p)
  \/ dev_receive
  \/ Progress

\* The kernel and the device do not stop while there is something to do.
Spec == Init /\ [][Next]_vars /\ WF_vars(Progress)

-------------------------------------------------------------------------------
(* Properties.                                                              *)

Places == {"idle", "read", "asleep_r", "woken_r", "write", "asleep_w", "start"}

\* Types, with the order r <= w <= e <= r + INPUT_BUF of the input indices and
\* the fill of the output ring, where the counters wrap.
TypeOK ==
  /\ {r, w, e, tx_r, tx_w} \subseteq 0 .. WRAP - 1
  /\ Between(r, w) + Between(w, e) <= INPUT_BUF
  /\ Between(tx_r, tx_w) <= UART_TX_BUF_SIZE
  /\ cons_lock \in Proc \cup {None}
  /\ tx_lock \in Proc \cup {None, Uart}
  /\ pc \in [Proc -> Places]
  /\ n \in [Proc -> Nat]
  /\ intr \in {"idle", "getc", "start"}
  /\ thr \in BOOLEAN /\ irq \in BOOLEAN

Slice(ring, i, j, size) == [k \in 1 .. Between(i, j) |-> ring[(i + k - 1) % size]]

Ready == Slice(buf, r, w, INPUT_BUF)

\* The input ring with its three indices is a line editor in front of a queue:
\* whatever the interleaving of interrupts and readers, only the line being
\* edited can be erased, and ended lines are read in the order typed.
T == INSTANCE Terminal WITH ready <- Ready, line <- Slice(buf, w, e, INPUT_BUF),
                            Capacity <- INPUT_BUF
ConsoleIsTerminal == T!Spec

\* The output ring is a bounded queue: what uartputc() puts in is sent once, in
\* order, by whichever of the writers and the interrupt handler runs uartstart().
F == INSTANCE Fifo WITH queue <- Slice(tx_buf, tx_r, tx_w, UART_TX_BUF_SIZE), taken <- sent,
                        readopen <- TRUE, Byte <- Proc \cup {None}, Capacity <- UART_TX_BUF_SIZE
UartIsFifo == F!Spec

\* Each ^D typed makes exactly one read return 0 bytes: one that ends a part of a
\* line is kept for the next read(), one at the start of a line is taken.
EofOnce == eofs = Cardinality({k \in DOMAIN Ready : Ready[k] = "^D"})

\* A process asleep in consoleread() has nothing to read, one asleep in
\* uartputc() has no room, and characters in the output ring have something that
\* will send them: a busy transmitter, an interrupt to come, or uartstart().
SleepersHaveReason ==
  /\ \A p \in Proc : pc[p] = "asleep_r" => r = w
  /\ \A p \in Proc : pc[p] = "asleep_w" => Full
  /\ tx_r # tx_w => thr \/ irq \/ intr # "idle" \/ tx_lock # None

\* A write() to the console is not held up for ever.
WritersFinish == \A p \in Proc : pc[p] \in {"write", "asleep_w", "start"} ~> pc[p] = "idle"

Reading == {p \in Proc : pc[p] \in {"read", "asleep_r", "woken_r"}}

\* A line that has been ended is taken as long as somebody reads.
LinesAreTaken == (Reading # {} /\ r # w) ~> (Reading = {} \/ r = w)

\* What every state of the console satisfies beside reads, writes, kill() and
\* both interrupts: the indices are in order where they wrap, each ^D is
\* delivered once, and no wakeup is lost.
ConsoleInv == TypeOK /\ EofOnce /\ SleepersHaveReason

\* Neither a writer nor an ended line is held up for ever.
ConsoleGoesOn == WritersFinish /\ LinesAreTaken
===============================================================================
