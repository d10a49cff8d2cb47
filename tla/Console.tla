------------------------------- MODULE Console -------------------------------
(***************************************************************************)
(* The console's interrupt queues, from devices/intq.c, input.c, serial.c  *)
(* and kbd.c: keys go from the keyboard's and the serial port's handlers   *)
(* through `buffer' to threads in input_getc(), characters from threads in *)
(* serial_putc() through `txq' to the serial port's handler.  Everything   *)
(* runs with interrupts off, so a thread's step lasts until it sleeps; it  *)
(* sleeps for a queue's lock, or, holding that lock, as the queue's waiter.*)
(* console.c admits one writing thread at a time.                          *)
(***************************************************************************)
EXTENDS Integers, Sequences, FiniteSets

CONSTANTS
  Readers,       \* the threads that may read keys
  Crowds,        \* those that do, in a run of the kernel
  Writer,        \* the thread that has the console's lock
  Keys, Characters,
  BufSize,       \* INTQ_BUFSIZE
  MaxPolled,     \* bound on the characters written with interrupts off
  NoByte, NoThread

ASSUME ConsoleAssumption ==
  /\ BufSize \in Nat \ {0, 1}
  /\ MaxPolled \in Nat
  /\ Writer \notin Readers /\ NoThread \notin Readers \cup {Writer}
  /\ Crowds \subseteq SUBSET Readers
  /\ NoByte \notin Keys \cup Characters

Threads == Readers \cup {Writer}
Queues == {"buffer", "txq"}
Bytes == Keys \cup Characters

VARIABLES
  readers,       \* the threads that read in this run of the kernel
  pc,            \* what each thread is doing
  byte,          \* the character the writer has been given
  buf, head, tail,
  waiter,        \* the thread in not_empty of buffer, in not_full of txq
  value, lock_waiters,  \* the semaphore of the queue's lock
  taken,         \* the byte intq_getc() last returned
  mode, ier,     \* of the serial port
  rbr, thre,     \* its receive register; is its transmit register empty
  polled,        \* how many characters were written with interrupts off
  power          \* on, off or panic

queue == <<buf, head, tail, waiter, taken>>
lock == <<value, lock_waiters>>
port == <<ier, rbr, thre>>
vars == <<readers, pc, byte, queue, lock, mode, port, polled, power>>

Init ==
  /\ readers \in Crowds
  /\ pc = [t \in Threads |-> "idle"]
  /\ byte = NoByte
  /\ buf = [q \in Queues |-> [i \in 0..(BufSize - 1) |-> NoByte]]
  /\ head = [q \in Queues |-> 0] /\ tail = [q \in Queues |-> 0]
  /\ waiter = [q \in Queues |-> NoThread]
  /\ value = [q \in Queues |-> 1]
  /\ lock_waiters = [q \in Queues |-> <<>>]
  /\ taken = [q \in Queues |-> NoByte]
  /\ mode = "POLL"
  /\ ier = [recv |-> FALSE, xmit |-> FALSE]
  /\ rbr = NoByte /\ thre = TRUE
  /\ polled = 0
  /\ power = "on"

-----------------------------------------------------------------------------
(* intq.c *)

next(pos) == (pos + 1) % BufSize

intq_empty(q) == head[q] = tail[q]

\* Mutant: nobody looks whether there is room.
NeverFull(q) == FALSE

intq_full(q) == next(head[q]) = tail[q]

(* What a place holds that has been read is never read again. *)
Removed(q) == [buf EXCEPT ![q][tail[q]] = NoByte]

intq_getc(q) ==
  /\ taken' = [taken EXCEPT ![q] = buf[q][tail[q]]]
  /\ buf' = Removed(q)
  /\ tail' = [tail EXCEPT ![q] = next(tail[q])]
  /\ UNCHANGED head

intq_putc(q, b) ==
  /\ buf' = [buf EXCEPT ![q][head[q]] = b]
  /\ head' = [head EXCEPT ![q] = next(head[q])]
  /\ UNCHANGED <<tail, taken>>

(* What the waiter of q waits for to end. *)
MustWait(q) == IF q = "buffer" THEN intq_empty(q) ELSE intq_full(q)

\* Mutant: the waiter is forgotten and not woken.
ForgetsWaiter(q) ==
  /\ waiter' = [waiter EXCEPT ![q] = NoThread]
  /\ UNCHANGED pc

(***************************************************************************)
(* signal() wakes the waiter, if there is one, and forgets it.  Nobody     *)
(* ever waits in not_full of buffer or in not_empty of txq.                *)
(***************************************************************************)
signal(q) ==
  /\ waiter' = [waiter EXCEPT ![q] = NoThread]
  /\ pc' = [t \in Threads |-> IF t = waiter[q] THEN "woken" ELSE pc[t]]

(* serial.c: write_ier(), once the queues are what they will be. *)
\* Mutant: the transmit interrupt is never enabled.
ArmedToReceive == [recv |-> ~intq_full("buffer"), xmit |-> FALSE]

Armed == [recv |-> ~intq_full("buffer"), xmit |-> ~intq_empty("txq")]
write_ier == ier' = IF mode = "QUEUE" THEN Armed' ELSE ier

\* Mutant: the port is not told that the input buffer has changed.
NotNotified == UNCHANGED ier

serial_notify == write_ier

Goto(t, place) == pc' = [pc EXCEPT ![t] = place]

-----------------------------------------------------------------------------
(***************************************************************************)
(* A thread in intq_getc() or intq_putc() looks at the queue; if it must   *)
(* wait it takes the lock, or sleeps for it, and becomes the waiter.       *)
(***************************************************************************)
QueueOf(t) == IF t = Writer THEN "txq" ELSE "buffer"

(* The rest of input_getc() and serial_putc(). *)
Transfer(t, b) ==
  /\ IF t = Writer THEN intq_putc("txq", b) /\ write_ier
     ELSE intq_getc("buffer") /\ serial_notify
  /\ byte' = IF t = Writer THEN NoByte ELSE byte

Wait(t) ==
  /\ value' = [value EXCEPT ![QueueOf(t)] = 0]
  /\ waiter' = [waiter EXCEPT ![QueueOf(t)] = t]

SleepForLock(t) ==
  /\ value[QueueOf(t)] = 0
  /\ lock_waiters' = [lock_waiters EXCEPT ![QueueOf(t)] = Append(@, t)]
  /\ Goto(t, "locking")
  /\ UNCHANGED <<queue, value, ier>>

Call(t, b) ==
  LET q == QueueOf(t)
  IN /\ power = "on" /\ mode = "QUEUE" /\ pc[t] = "idle"
     /\ \/ /\ ~MustWait(q)
           /\ Transfer(t, b)
           /\ UNCHANGED <<pc, waiter, lock>>
        \/ /\ MustWait(q) /\ value[q] = 1
           /\ Wait(t)
           /\ Goto(t, "waiting")
           /\ byte' = b
           /\ UNCHANGED <<buf, head, tail, taken, lock_waiters, ier>>
        \/ /\ MustWait(q)
           /\ SleepForLock(t)
           /\ byte' = b
     /\ UNCHANGED <<readers, mode, rbr, thre, polled, power>>

input_getc(t) == t \in readers /\ Call(t, byte)
serial_putc == \E b \in Characters : Call(Writer, b)

(***************************************************************************)
(* The thread that was woken for the lock does not look at the queue again *)
(* before wait() asserts that it must wait.                                *)
(***************************************************************************)
GetLock(t) ==
  LET q == QueueOf(t)
  IN /\ power = "on" /\ pc[t] = "lock_ready"
     /\ \/ SleepForLock(t) /\ UNCHANGED power
        \/ /\ value[q] = 1 /\ MustWait(q)
           /\ Wait(t)
           /\ Goto(t, "waiting")
           /\ UNCHANGED <<buf, head, tail, taken, lock_waiters, ier, power>>
        \/ /\ value[q] = 1 /\ ~MustWait(q)
           /\ power' = "panic"
           /\ UNCHANGED <<pc, queue, lock, ier>>
     /\ UNCHANGED <<readers, byte, mode, rbr, thre, polled>>

(* How many threads sema_up() takes off the waiters of the lock. *)
Popped(q) == IF lock_waiters[q] = <<>> THEN 0 ELSE 1

(* The waiter that was signalled releases the lock and looks again. *)
Woken(t) ==
  LET q == QueueOf(t)
      first == {lock_waiters[q][i] : i \in 1..Popped(q)}
      resume(place) == pc' = [u \in Threads |->
        IF u = t THEN place ELSE IF u \in first THEN "lock_ready" ELSE pc[u]]
  IN /\ power = "on" /\ pc[t] = "woken"
     /\ lock_waiters' = [lock_waiters EXCEPT
          ![q] = SubSeq(@, Popped(q) + 1, Len(@))]
     /\ \/ /\ ~MustWait(q)
           /\ Transfer(t, byte)
           /\ value' = [value EXCEPT ![q] = 1]
           /\ resume("idle")
           /\ UNCHANGED waiter
        \/ /\ MustWait(q)
           /\ Wait(t)
           /\ resume("waiting")
           /\ UNCHANGED <<buf, head, tail, taken, byte, ier>>
     /\ UNCHANGED <<readers, mode, rbr, thre, polled, power>>

-----------------------------------------------------------------------------
(***************************************************************************)
(* The handlers.  An iteration of either loop of serial_interrupt() is a   *)
(* step: what a thread could see between two of them it would also see had *)
(* the port become ready a little later.                                   *)
(***************************************************************************)
input_putc(b) ==
  /\ ~intq_full("buffer")
  /\ intq_putc("buffer", b)
  /\ signal("buffer")
  /\ serial_notify

keyboard_interrupt(b) ==
  /\ power = "on"
  /\ input_putc(b)
  /\ UNCHANGED <<readers, byte, lock, mode, rbr, thre, polled, power>>

Interrupt ==
  /\ power = "on" /\ mode = "QUEUE"
  /\ (ier.recv /\ rbr # NoByte) \/ (ier.xmit /\ thre)

Receive ==
  /\ Interrupt
  /\ rbr # NoByte
  /\ input_putc(rbr)
  /\ rbr' = NoByte
  /\ UNCHANGED <<readers, byte, lock, mode, thre, polled, power>>

Transmit ==
  /\ Interrupt
  /\ ~intq_empty("txq") /\ thre
  /\ intq_getc("txq")
  /\ signal("txq")
  /\ thre' = FALSE
  /\ write_ier
  /\ UNCHANGED <<readers, byte, lock, mode, rbr, polled, power>>

Oldest == buf["txq"][tail["txq"]]

(* serial_putc() with interrupts off: a full queue gives one up first. *)
PutcPolled(b) ==
  LET full == intq_full("txq")
  IN /\ power = "on" /\ mode = "QUEUE"
     /\ polled < MaxPolled
     /\ polled' = polled + 1
     /\ taken' = IF full THEN [taken EXCEPT !["txq"] = Oldest] ELSE taken
     /\ buf' = [IF full THEN Removed("txq") ELSE buf
                EXCEPT !["txq"][head["txq"]] = b]
     /\ tail' = IF full THEN [tail EXCEPT !["txq"] = next(@)] ELSE tail
     /\ head' = [head EXCEPT !["txq"] = next(@)]
     /\ IF full THEN signal("txq") ELSE UNCHANGED <<waiter, pc>>
     /\ thre' = (thre /\ ~full)
     /\ write_ier
     /\ UNCHANGED <<readers, byte, lock, mode, rbr, power>>

serial_init_queue ==
  /\ power = "on" /\ mode = "POLL"
  /\ mode' = "QUEUE"
  /\ ier' = Armed
  /\ UNCHANGED <<readers, pc, byte, queue, lock, rbr, thre, polled, power>>

(* serial_flush(), on the way to powering the machine off. *)
serial_flush ==
  /\ power = "on"
  /\ power' = "off"
  /\ IF intq_empty("txq") THEN UNCHANGED <<buf, tail, taken, waiter, pc>>
     ELSE /\ taken' = [taken EXCEPT
               !["txq"] = buf["txq"][(head["txq"] + BufSize - 1) % BufSize]]
          /\ buf' = [buf EXCEPT !["txq"] = [i \in 0..(BufSize - 1) |-> NoByte]]
          /\ tail' = [tail EXCEPT !["txq"] = head["txq"]]
          /\ signal("txq")
  /\ UNCHANGED <<readers, byte, head, lock, mode, port, polled>>

(* The serial line. *)
Arrives(b) ==
  /\ power = "on" /\ rbr = NoByte
  /\ rbr' = b
  /\ UNCHANGED <<readers, pc, byte, queue, lock, mode, ier, thre, polled, power>>

Sent ==
  /\ power = "on" /\ ~thre
  /\ thre' = TRUE
  /\ UNCHANGED <<readers, pc, byte, queue, lock, mode, ier, rbr, polled, power>>

-----------------------------------------------------------------------------
Runs(t) == GetLock(t) \/ Woken(t)

Next ==
  \/ serial_init_queue \/ serial_putc \/ serial_flush
  \/ Receive \/ Transmit \/ Sent
  \/ \E t \in Readers : input_getc(t)
  \/ \E t \in Threads : Runs(t)
  \/ \E b \in Keys : keyboard_interrupt(b) \/ Arrives(b)
  \/ \E b \in Characters : PutcPolled(b)

(***************************************************************************)
(* A thread that can run does run, the port sends what it has been given,  *)
(* and the interrupts that are enabled come.                               *)
(***************************************************************************)
Fairness ==
  /\ WF_vars(Sent) /\ WF_vars(Transmit)
  /\ \A t \in Threads : WF_vars(Runs(t))

Spec == Init /\ [][Next]_vars /\ Fairness
=============================================================================
