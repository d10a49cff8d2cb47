-------------------------- MODULE ConsoleProperties --------------------------
(* What must hold of the console's queues of Console. *)
EXTENDS Console

Positions == 0..(BufSize - 1)

(* The type of every variable. *)
TypeOK ==
  /\ readers \subseteq Readers
  /\ pc \in [Threads -> {"idle", "locking", "lock_ready", "waiting", "woken"}]
  /\ byte \in Bytes \cup {NoByte}
  /\ buf \in [Queues -> [Positions -> Bytes \cup {NoByte}]]
  /\ head \in [Queues -> Positions] /\ tail \in [Queues -> Positions]
  /\ waiter \in [Queues -> Threads \cup {NoThread}]
  /\ value \in [Queues -> {0, 1}]
  /\ \A q \in Queues : \A i \in DOMAIN lock_waiters[q] :
       lock_waiters[q][i] \in Threads /\ pc[lock_waiters[q][i]] = "locking"
  /\ taken \in [Queues -> Bytes \cup {NoByte}]
  /\ mode \in {"POLL", "QUEUE"}
  /\ ier \in [recv : BOOLEAN, xmit : BOOLEAN]
  /\ rbr \in Bytes \cup {NoByte} /\ thre \in BOOLEAN
  /\ polled \in 0..MaxPolled
  /\ power \in {"on", "off", "panic"}

(***************************************************************************)
(* No wakeup is lost: a thread sleeps in wait() only while the queue gives *)
(* it a reason to, and is the one that signal() will wake.                 *)
(***************************************************************************)
SleepsForReason ==
  \A t \in Threads : pc[t] = "waiting" =>
    MustWait(QueueOf(t)) /\ waiter[QueueOf(t)] = t

(* Who sleeps for a queue's lock sleeps while someone has it or is woken. *)
LockServed ==
  \A q \in Queues : lock_waiters[q] # <<>> =>
    value[q] = 0 \/ \E t \in Threads : QueueOf(t) = q /\ pc[t] = "lock_ready"

(* Nobody is left asleep, on a queue or on its lock. *)
NobodyForgotten == SleepsForReason /\ LockServed

(***************************************************************************)
(* The port interrupts exactly when there is something to do for it: no    *)
(* character stays queued unsent, no key stays unread although there is    *)
(* room, and a full buffer does not let the port interrupt for ever.       *)
(***************************************************************************)
PortArmed == power = "on" /\ mode = "QUEUE" => ier = Armed

(* Both rings implement BoundedQueue. *)
Contents(q) ==
  [i \in 1..((head[q] + BufSize - tail[q]) % BufSize) |->
    buf[q][(tail[q] + i - 1) % BufSize]]

Typed == INSTANCE BoundedQueue WITH
  Items <- Bytes, Capacity <- BufSize - 1,
  items <- Contents("buffer"), last <- taken["buffer"], closed <- FALSE

Printed == INSTANCE BoundedQueue WITH
  Items <- Bytes, Capacity <- BufSize - 1,
  items <- Contents("txq"), last <- taken["txq"], closed <- (power = "off")

KeysInOrder == Typed!Spec
CharactersInOrder == Printed!Spec
BytesInOrder == KeysInOrder /\ CharactersInOrder

(***************************************************************************)
(* serial_putc() returns: a full queue drains, and the thread that sleeps  *)
(* for room in it is woken.                                                *)
(***************************************************************************)
WriterServed ==
  pc[Writer] # "idle" ~> pc[Writer] = "idle" \/ power # "on"

(* A key in the buffer reaches one of the threads if all wait for one. *)
AllRead == readers # {} /\ \A t \in readers : pc[t] # "idle"

KeyServed ==
  AllRead /\ ~intq_empty("buffer") ~> ~AllRead \/ power # "on"

(* Both: whoever calls for a byte or for room for one gets it. *)
CallersServed == WriterServed /\ KeyServed

(***************************************************************************)
(* devices/intq.c:91, the assertion in wait(): a thread that goes to sleep *)
(* as the waiter of a queue has a reason to.                               *)
(***************************************************************************)
WaitsForReason == power # "panic"
=============================================================================
