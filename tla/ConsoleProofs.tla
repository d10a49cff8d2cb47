--------------------------- MODULE ConsoleProofs ---------------------------
(***************************************************************************)
(* Nobody sleeps for nothing on the console's queues or for their locks,   *)
(* the port's interrupts are enabled as the queues require, and bytes      *)
(* leave both queues in the order they came, for any number of readers,    *)
(* any keys and characters and any size of the rings.                      *)
(***************************************************************************)
EXTENDS ConsoleProperties, SequenceTheorems, TLAPS

USE ConsoleAssumption

Places == {"idle", "locking", "lock_ready", "waiting", "woken"}

Types ==
  /\ readers \subseteq Readers
  /\ pc \in [Threads -> Places]
  /\ head \in [Queues -> Int] /\ tail \in [Queues -> Int]
  /\ waiter \in [Queues -> Threads \cup {NoThread}]
  /\ value \in [Queues -> {0, 1}]
  /\ lock_waiters \in [Queues -> Seq(Threads)]

Holds(t) == pc[t] \in {"waiting", "woken"}

(* Who is inside intq's wait() has the queue's lock, and nobody else has.  *)
OneHolder ==
  /\ \A t \in Threads : Holds(t) => value[QueueOf(t)] = 0
  /\ \A t, u \in Threads : Holds(t) /\ Holds(u) /\ QueueOf(t) = QueueOf(u) => t = u

(* The waiter that is recorded is one that sleeps in wait(). *)
WaiterWaits ==
  \A q \in Queues : waiter[q] # NoThread => pc[waiter[q]] = "waiting" /\ QueueOf(waiter[q]) = q

(* The semaphore's waiters are distinct threads that sleep for this lock.  *)
Queued ==
  \A q \in Queues :
    /\ \A i \in 1..Len(lock_waiters[q]) :
         pc[lock_waiters[q][i]] = "locking" /\ QueueOf(lock_waiters[q][i]) = q
    /\ \A i, j \in 1..Len(lock_waiters[q]) : lock_waiters[q][i] = lock_waiters[q][j] => i = j

Core == Types /\ OneHolder /\ WaiterWaits /\ Queued /\ SleepsForReason /\ LockServed

ConsoleInv == Core /\ PortArmed

-----------------------------------------------------------------------------
LEMMA QueueOfType == \A t \in Threads : QueueOf(t) \in Queues
  BY DEF QueueOf, Queues

LEMMA NextType == \A k \in Int : next(k) \in Int
  BY DEF next

-----------------------------------------------------------------------------
(* What a step may change without harm to the sleepers. *)

(* No thread moves, and only rings nobody waits for change. *)
LEMMA QuietKeeps ==
  ASSUME Core, UNCHANGED <<readers, pc, waiter, value, lock_waiters>>,
         head' \in [Queues -> Int], tail' \in [Queues -> Int],
         \A t \in Threads : pc[t] = "waiting" =>
           head'[QueueOf(t)] = head[QueueOf(t)] /\ tail'[QueueOf(t)] = tail[QueueOf(t)]
  PROVE  Core'
<1>1. Types'
  BY DEF Core, Types
<1>2. OneHolder' /\ WaiterWaits' /\ Queued' /\ LockServed'
  BY DEF Core, OneHolder, Holds, WaiterWaits, Queued, LockServed
<1>3. SleepsForReason'
  <2> SUFFICES ASSUME NEW t \in Threads, pc'[t] = "waiting"
               PROVE  MustWait(QueueOf(t))' /\ waiter'[QueueOf(t)] = t
    BY DEF SleepsForReason, QueueOf
  <2>1. MustWait(QueueOf(t)) /\ waiter[QueueOf(t)] = t
    BY DEF Core, SleepsForReason
  <2> QED
    BY <2>1 DEF MustWait, QueueOf, intq_empty, intq_full, next
<1> QED
  BY <1>1, <1>2, <1>3 DEF Core

(* signal() after a change of the ring. *)
LEMMA SignalKeeps ==
  ASSUME Core, NEW q \in Queues, signal(q), UNCHANGED <<readers, value, lock_waiters>>,
         head' \in [Queues -> Int], tail' \in [Queues -> Int],
         \A r \in Queues \ {q} : head'[r] = head[r] /\ tail'[r] = tail[r]
  PROVE  Core'
<1>1. Types'
  BY DEF Core, Types, signal, Places
<1>2. \A t \in Threads : pc'[t] = IF t = waiter[q] THEN "woken" ELSE pc[t]
  BY DEF signal
<1>3. \A t \in Threads : t = waiter[q] => pc[t] = "waiting" /\ QueueOf(t) = q
  BY DEF Core, WaiterWaits, Types, Threads
<1>4. \A r \in Queues : waiter'[r] = IF r = q THEN NoThread ELSE waiter[r]
  BY DEF signal, Core, Types
<1>5. \A t \in Threads : pc'[t] = "waiting" => pc[t] = "waiting" /\ QueueOf(t) # q
  <2> SUFFICES ASSUME NEW t \in Threads, pc'[t] = "waiting"
               PROVE  pc[t] = "waiting" /\ QueueOf(t) # q
    OBVIOUS
  <2>1. pc[t] = "waiting" /\ t # waiter[q]
    BY <1>2
  <2> QED
    BY <2>1 DEF Core, SleepsForReason
<1>6. \A t \in Threads : Holds(t)' <=> Holds(t)
  BY <1>2, <1>3 DEF Holds
<1>7. OneHolder'
  <2>1. \A t \in Threads : QueueOf(t)' = QueueOf(t)
    BY DEF QueueOf
  <2> QED
    BY <1>6, <2>1 DEF Core, OneHolder
<1>8. WaiterWaits'
  <2> SUFFICES ASSUME NEW r \in Queues, waiter'[r] # NoThread
               PROVE  pc'[waiter'[r]] = "waiting" /\ QueueOf(waiter'[r]) = r
    BY DEF WaiterWaits, QueueOf
  <2>1. r # q /\ waiter'[r] = waiter[r]
    BY <1>4
  <2>2. waiter[r] \in Threads /\ pc[waiter[r]] = "waiting" /\ QueueOf(waiter[r]) = r
    BY <2>1 DEF Core, WaiterWaits, Types
  <2> QED
    BY <1>2, <1>3, <2>1, <2>2
<1>9. Queued'
  <2>1. \A t \in Threads : pc[t] = "locking" => pc'[t] = "locking"
    BY <1>2, <1>3
  <2>2. \A r \in Queues : \A i \in 1..Len(lock_waiters[r]) : lock_waiters[r][i] \in Threads
    BY DEF Core, Types
  <2> QED
    BY <2>1, <2>2 DEF Core, Queued, QueueOf
<1>10. SleepsForReason'
  <2> SUFFICES ASSUME NEW t \in Threads, pc'[t] = "waiting"
               PROVE  MustWait(QueueOf(t))' /\ waiter'[QueueOf(t)] = t
    BY DEF SleepsForReason, QueueOf
  <2>1. pc[t] = "waiting" /\ QueueOf(t) \in Queues \ {q}
    BY <1>5, QueueOfType
  <2>2. MustWait(QueueOf(t)) /\ waiter[QueueOf(t)] = t
    BY <2>1 DEF Core, SleepsForReason
  <2> QED
    BY <1>4, <2>1, <2>2 DEF MustWait, QueueOf, intq_empty, intq_full, next
<1>11. LockServed'
  BY <1>2, <1>3 DEF Core, LockServed, QueueOf
<1> QED
  BY <1>1, <1>7, <1>8, <1>9, <1>10, <1>11 DEF Core

(* A thread that has reason to becomes the waiter, with the lock. *)
LEMMA WaitKeeps ==
  ASSUME Core, NEW t \in Threads, pc[t] \in {"idle", "lock_ready"}, value[QueueOf(t)] = 1,
         MustWait(QueueOf(t)), Wait(t), Goto(t, "waiting"),
         UNCHANGED <<readers, head, tail, lock_waiters>>
  PROVE  Core'
<1> DEFINE q == QueueOf(t)
<1>0. q \in Queues
  BY QueueOfType
<1>1. Types'
  BY <1>0 DEF Core, Types, Wait, Goto, Places
<1>2. \A u \in Threads : pc'[u] = IF u = t THEN "waiting" ELSE pc[u]
  BY DEF Core, Types, Goto
<1>3. \A r \in Queues : value'[r] = (IF r = q THEN 0 ELSE value[r])
                       /\ waiter'[r] = (IF r = q THEN t ELSE waiter[r])
  BY DEF Core, Types, Wait
<1>4. \A u \in Threads : Holds(u) => QueueOf(u) # q
  BY DEF Core, OneHolder
<1>5. OneHolder'
  <2>1. \A u \in Threads : Holds(u)' => u = t \/ (Holds(u) /\ QueueOf(u) # q)
    BY <1>2, <1>4 DEF Holds
  <2>2. \A u \in Threads : QueueOf(u)' = QueueOf(u)
    BY DEF QueueOf
  <2>3. \A u \in Threads : Holds(u)' => value'[QueueOf(u)] = 0
    BY <1>3, <2>1, QueueOfType DEF Core, OneHolder
  <2>4. \A u, v \in Threads : Holds(u)' /\ Holds(v)' /\ QueueOf(u) = QueueOf(v) => u = v
    BY <2>1 DEF Core, OneHolder
  <2> QED
    BY <2>2, <2>3, <2>4 DEF OneHolder
<1>6. WaiterWaits'
  <2> SUFFICES ASSUME NEW r \in Queues, waiter'[r] # NoThread
               PROVE  pc'[waiter'[r]] = "waiting" /\ QueueOf(waiter'[r]) = r
    BY DEF WaiterWaits, QueueOf
  <2>1. CASE r = q
    BY <1>2, <1>3, <2>1
  <2>2. CASE r # q
    <3>1. waiter'[r] = waiter[r] /\ waiter[r] \in Threads
      BY <1>3, <2>2 DEF Core, Types
    <3> QED
      BY <1>2, <3>1 DEF Core, WaiterWaits
  <2> QED
    BY <2>1, <2>2
<1>7. Queued'
  <2>1. \A u \in Threads : pc[u] = "locking" => pc'[u] = "locking"
    BY <1>2
  <2>2. \A r \in Queues : \A i \in 1..Len(lock_waiters[r]) : lock_waiters[r][i] \in Threads
    BY DEF Core, Types
  <2> QED
    BY <2>1, <2>2 DEF Core, Queued, QueueOf
<1>8. SleepsForReason'
  <2> SUFFICES ASSUME NEW u \in Threads, pc'[u] = "waiting"
               PROVE  MustWait(QueueOf(u)) /\ waiter'[QueueOf(u)] = u
    BY DEF SleepsForReason, QueueOf, MustWait, intq_empty, intq_full, next
  <2>1. CASE u = t
    BY <1>0, <1>3, <2>1
  <2>2. CASE u # t
    <3>1. pc[u] = "waiting" /\ QueueOf(u) # q /\ QueueOf(u) \in Queues
      BY <1>2, <1>4, <2>2, QueueOfType DEF Holds
    <3> QED
      BY <1>3, <3>1 DEF Core, SleepsForReason
  <2> QED
    BY <2>1, <2>2
<1>9. LockServed'
  <2> SUFFICES ASSUME NEW r \in Queues, lock_waiters[r] # <<>>
               PROVE  value'[r] = 0 \/ \E u \in Threads : QueueOf(u) = r /\ pc'[u] = "lock_ready"
    BY DEF LockServed, QueueOf
  <2> QED
    BY <1>2, <1>3 DEF Core, LockServed
<1> QED
  BY <1>1, <1>5, <1>6, <1>7, <1>8, <1>9 DEF Core

(* A thread goes to sleep for the lock, which another has. *)
LEMMA SleepKeeps ==
  ASSUME Core, NEW t \in Threads, pc[t] \in {"idle", "lock_ready"}, SleepForLock(t),
         UNCHANGED readers
  PROVE  Core'
<1> DEFINE q == QueueOf(t)
<1>0. q \in Queues
  BY QueueOfType
<1>1. Types'
  BY <1>0 DEF Core, Types, SleepForLock, Goto, Places, queue
<1>2. \A u \in Threads : pc'[u] = IF u = t THEN "locking" ELSE pc[u]
  BY DEF Core, Types, Goto, SleepForLock
<1>3. UNCHANGED <<head, tail, waiter, value>> /\ value[q] = 0
  BY DEF SleepForLock, queue
<1>4. \A u \in Threads : (Holds(u)' <=> Holds(u)) /\ QueueOf(u)' = QueueOf(u)
  BY <1>2 DEF Holds, QueueOf
<1>5. OneHolder'
  BY <1>3, <1>4 DEF Core, OneHolder
<1>6. WaiterWaits'
  <2> SUFFICES ASSUME NEW r \in Queues, waiter[r] # NoThread
               PROVE  pc'[waiter[r]] = "waiting" /\ QueueOf(waiter[r]) = r
    BY <1>3 DEF WaiterWaits, QueueOf
  <2>1. waiter[r] \in Threads /\ pc[waiter[r]] = "waiting" /\ QueueOf(waiter[r]) = r
    BY DEF Core, WaiterWaits, Types
  <2> QED
    BY <1>2, <2>1
<1>7. Queued'
  <2> SUFFICES ASSUME NEW r \in Queues
        PROVE  /\ \A i \in 1..Len(lock_waiters'[r]) :
                    pc'[lock_waiters'[r][i]] = "locking" /\ QueueOf(lock_waiters'[r][i]) = r
               /\ \A i, j \in 1..Len(lock_waiters'[r]) :
                    lock_waiters'[r][i] = lock_waiters'[r][j] => i = j
    BY DEF Queued, QueueOf
  <2> DEFINE w == lock_waiters[r]
  <2>1. w \in Seq(Threads)
    BY DEF Core, Types
  <2>2. \A i \in 1..Len(w) : w[i] \in Threads /\ w[i] # t /\ pc'[w[i]] = "locking" /\ QueueOf(w[i]) = r
    BY <1>2, <2>1 DEF Core, Queued
  <2>3. \A i, j \in 1..Len(w) : w[i] = w[j] => i = j
    BY DEF Core, Queued
  <2>4. CASE r = q
    <3>1. lock_waiters'[r] = Append(w, t)
      BY <2>4 DEF SleepForLock, Core, Types
    <3>2. Len(Append(w, t)) = Len(w) + 1 /\ Append(w, t)[Len(w) + 1] = t
            /\ \A i \in 1..Len(w) : Append(w, t)[i] = w[i]
      BY <2>1
    <3>3. \A i \in 1..(Len(w) + 1) : i = Len(w) + 1 \/ i \in 1..Len(w)
      BY <2>1
    <3> HIDE DEF w
    <3> QED
      BY <1>2, <2>2, <2>3, <2>4, <3>1, <3>2, <3>3
  <2>5. CASE r # q
    <3>1. lock_waiters'[r] = w
      BY <2>5 DEF SleepForLock, Core, Types
    <3> QED
      BY <2>2, <2>3, <3>1
  <2> QED
    BY <2>4, <2>5
<1>8. SleepsForReason'
  BY <1>2, <1>3 DEF Core, SleepsForReason, QueueOf, MustWait, intq_empty, intq_full, next
<1>9. LockServed'
  <2> SUFFICES ASSUME NEW r \in Queues, lock_waiters'[r] # <<>>
               PROVE  value[r] = 0 \/ \E u \in Threads : QueueOf(u) = r /\ pc'[u] = "lock_ready"
    BY <1>3 DEF LockServed, QueueOf
  <2>1. CASE r = q
    BY <1>3, <2>1
  <2>2. CASE r # q
    <3>1. lock_waiters'[r] = lock_waiters[r]
      BY <2>2 DEF SleepForLock, Core, Types
    <3> QED
      BY <1>2, <2>2, <3>1 DEF Core, LockServed
  <2> QED
    BY <2>1, <2>2
<1> QED
  BY <1>1, <1>5, <1>6, <1>7, <1>8, <1>9 DEF Core

(* The thread that was signalled hands the lock to the first that sleeps   *)
(* for it, and goes on to `place'.                                         *)
LEMMA WokenKeeps ==
  ASSUME Core, NEW t \in Threads, Woken(t)
  PROVE  Core'
<1> DEFINE q == QueueOf(t)
           L == lock_waiters[q]
           n == Popped(q)
           first == {L[i] : i \in 1..n}
           place == IF MustWait(q) THEN "waiting" ELSE "idle"
<1>0. q \in Queues /\ pc[t] = "woken" /\ L \in Seq(Threads)
  BY QueueOfType DEF Woken, Core, Types
<1>1. \A u \in Threads : pc'[u] = IF u = t THEN place ELSE IF u \in first THEN "lock_ready" ELSE pc[u]
  BY DEF Woken
<1>2. (L = <<>> => n = 0) /\ (L # <<>> => n = 1 /\ Len(L) >= 1)
  BY <1>0 DEF Popped
<1>3. \A i \in 1..Len(L) : L[i] \in Threads /\ pc[L[i]] = "locking" /\ QueueOf(L[i]) = q
  BY <1>0 DEF Core, Queued
<1>4. \A u \in first : u \in Threads /\ pc[u] = "locking" /\ QueueOf(u) = q
  BY <1>2, <1>3
<1>5. \A u \in Threads : Holds(u) /\ QueueOf(u) = q => u = t
  BY <1>0 DEF Core, OneHolder, Holds
<1>6. \A r \in Queues : value'[r] = IF r = q THEN (IF MustWait(q) THEN 0 ELSE 1) ELSE value[r]
  BY <1>0 DEF Woken, Wait, Core, Types
<1>7. \A r \in Queues : waiter'[r] = IF r = q /\ MustWait(q) THEN t ELSE waiter[r]
  BY <1>0 DEF Woken, Wait, Core, Types
<1>8. \A r \in Queues : lock_waiters'[r] = IF r = q THEN SubSeq(L, n + 1, Len(L)) ELSE lock_waiters[r]
  BY <1>0 DEF Woken, Core, Types
<1>9. /\ head' \in [Queues -> Int] /\ tail' \in [Queues -> Int]
      /\ \A r \in Queues \ {q} : head'[r] = head[r] /\ tail'[r] = tail[r]
  <2>1. CASE MustWait(q)
    BY <2>1 DEF Woken, Core, Types
  <2>2. CASE ~MustWait(q)
    BY <1>0, <2>2, NextType DEF Woken, Transfer, intq_putc, intq_getc, QueueOf, Queues, Core, Types
  <2> QED
    BY <2>1, <2>2
<1>10. MustWait(q) => UNCHANGED <<head, tail>>
  BY DEF Woken
<1>11. SubSeq(L, n + 1, Len(L)) \in Seq(Threads)
  BY <1>0, <1>2
<1>12. Types'
  <2>1. pc' \in [Threads -> Places]
    <3>1. DOMAIN pc' = Threads /\ pc' = [u \in Threads |-> pc'[u]]
      BY DEF Woken
    <3>2. \A u \in Threads : pc'[u] \in Places
      BY <1>1 DEF Core, Types, Places
    <3> QED
      BY <3>1, <3>2
  <2>2. waiter' \in [Queues -> Threads \cup {NoThread}]
    <3>1. waiter' = [waiter EXCEPT ![q] = t] \/ waiter' = waiter
      BY DEF Woken, Wait
    <3>2. waiter \in [Queues -> Threads \cup {NoThread}]
      BY DEF Core, Types
    <3> HIDE DEF q
    <3> QED
      BY <1>0, <3>1, <3>2
  <2>3. value' \in [Queues -> {0, 1}]
    BY <1>0 DEF Woken, Wait, Core, Types
  <2>4. lock_waiters' \in [Queues -> Seq(Threads)]
    BY <1>0, <1>11 DEF Woken, Core, Types
  <2> QED
    BY <1>9, <2>1, <2>2, <2>3, <2>4 DEF Woken, Core, Types
<1>13. \A u \in Threads : Holds(u)' => (u = t /\ MustWait(q)) \/ (u # t /\ Holds(u) /\ QueueOf(u) # q)
  BY <1>1, <1>5 DEF Holds
<1>14. \A u \in Threads : QueueOf(u)' = QueueOf(u)
  BY DEF QueueOf
<1>15. OneHolder'
  <2>1. \A u \in Threads : Holds(u)' => value'[QueueOf(u)] = 0
    BY <1>6, <1>13, QueueOfType DEF Core, OneHolder
  <2>2. \A u, v \in Threads : Holds(u)' /\ Holds(v)' /\ QueueOf(u) = QueueOf(v) => u = v
    BY <1>13 DEF Core, OneHolder
  <2> QED
    BY <1>14, <2>1, <2>2 DEF OneHolder
<1>16. WaiterWaits'
  <2> SUFFICES ASSUME NEW r \in Queues, waiter'[r] # NoThread
               PROVE  pc'[waiter'[r]] = "waiting" /\ QueueOf(waiter'[r]) = r
    BY DEF WaiterWaits, QueueOf
  <2>1. CASE r = q /\ MustWait(q)
    BY <1>1, <1>7, <2>1
  <2>2. CASE ~(r = q /\ MustWait(q))
    <3>1. waiter'[r] = waiter[r] /\ waiter[r] \in Threads
      BY <1>7, <2>2 DEF Core, Types
    <3>2. pc[waiter[r]] = "waiting" /\ QueueOf(waiter[r]) = r
      BY <3>1 DEF Core, WaiterWaits
    <3> QED
      BY <1>0, <1>1, <1>4, <3>1, <3>2
  <2> QED
    BY <2>1, <2>2
<1>17. Queued'
  <2> SUFFICES ASSUME NEW r \in Queues
        PROVE  /\ \A i \in 1..Len(lock_waiters'[r]) :
                    pc'[lock_waiters'[r][i]] = "locking" /\ QueueOf(lock_waiters'[r][i]) = r
               /\ \A i, j \in 1..Len(lock_waiters'[r]) :
                    lock_waiters'[r][i] = lock_waiters'[r][j] => i = j
    BY DEF Queued, QueueOf
  <2>1. CASE r = q
    <3> DEFINE w == SubSeq(L, n + 1, Len(L))
    <3>1. lock_waiters'[r] = w
      BY <1>8, <2>1
    <3>2. Len(w) = Len(L) - n /\ \A i \in 1..Len(w) : w[i] = L[i + n] /\ i + n \in 1..Len(L)
      BY <1>0, <1>2
    <3>3. \A i, j \in 1..Len(L) : L[i] = L[j] => i = j
      BY <1>0 DEF Core, Queued
    <3>4. \A i \in 1..Len(w) : L[i + n] \notin first
      <4> SUFFICES ASSUME NEW i \in 1..Len(w), NEW j \in 1..n, L[i + n] = L[j]
                   PROVE  FALSE
        OBVIOUS
      <4>1. i + n \in 1..Len(L) /\ j \in 1..Len(L)
        BY <1>0, <1>2, <3>2
      <4>2. i + n = j
        BY <3>3, <4>1
      <4> QED
        BY <1>0, <1>2, <4>2
    <3>5. \A i \in 1..Len(w) : w[i] \in Threads /\ pc'[w[i]] = "locking" /\ QueueOf(w[i]) = r
      <4> SUFFICES ASSUME NEW i \in 1..Len(w)
                   PROVE  w[i] \in Threads /\ pc'[w[i]] = "locking" /\ QueueOf(w[i]) = r
        OBVIOUS
      <4>1. w[i] = L[i + n] /\ i + n \in 1..Len(L)
        BY <3>2
      <4>2. L[i + n] \in Threads /\ pc[L[i + n]] = "locking" /\ QueueOf(L[i + n]) = q
        BY <1>3, <4>1
      <4>3. L[i + n] \notin first
        BY <3>4
      <4>4. L[i + n] # t
        BY <1>0, <4>2
      <4> HIDE DEF w, first
      <4> QED
        BY <1>1, <2>1, <4>1, <4>2, <4>3, <4>4
    <3>6. \A i, j \in 1..Len(w) : w[i] = w[j] => i = j
      <4> SUFFICES ASSUME NEW i \in 1..Len(w), NEW j \in 1..Len(w), w[i] = w[j]
                   PROVE  i = j
        OBVIOUS
      <4>1. i + n = j + n
        BY <3>2, <3>3
      <4> QED
        BY <1>0, <1>2, <3>2, <4>1
    <3> QED
      BY <3>1, <3>5, <3>6
  <2>2. CASE r # q
    <3>1. lock_waiters'[r] = lock_waiters[r]
      BY <1>8, <2>2
    <3>2. \A i \in 1..Len(lock_waiters[r]) : lock_waiters[r][i] \in Threads
            /\ pc[lock_waiters[r][i]] = "locking" /\ QueueOf(lock_waiters[r][i]) = r
      BY DEF Core, Types, Queued
    <3>3. \A i, j \in 1..Len(lock_waiters[r]) : lock_waiters[r][i] = lock_waiters[r][j] => i = j
      BY DEF Core, Queued
    <3> QED
      BY <1>0, <1>1, <1>4, <2>2, <3>1, <3>2, <3>3
  <2> QED
    BY <2>1, <2>2
<1>18. SleepsForReason'
  <2> SUFFICES ASSUME NEW u \in Threads, pc'[u] = "waiting"
               PROVE  MustWait(QueueOf(u))' /\ waiter'[QueueOf(u)] = u
    BY DEF SleepsForReason, QueueOf
  <2>1. CASE u = t
    <3>1. MustWait(q)
      BY <1>1, <2>1
    <3>2. MustWait(q)'
      BY <1>10, <3>1 DEF MustWait, QueueOf, intq_empty, intq_full, next
    <3> QED
      BY <1>0, <1>7, <2>1, <3>1, <3>2 DEF QueueOf
  <2>2. CASE u # t
    <3>1. pc[u] = "waiting" /\ QueueOf(u) # q /\ QueueOf(u) \in Queues
      BY <1>1, <1>5, <2>2, QueueOfType DEF Holds
    <3>2. MustWait(QueueOf(u)) /\ waiter[QueueOf(u)] = u
      BY <3>1 DEF Core, SleepsForReason
    <3>3. MustWait(QueueOf(u))'
      BY <1>9, <3>1, <3>2 DEF MustWait, QueueOf, intq_empty, intq_full, next
    <3> QED
      BY <1>7, <3>1, <3>2, <3>3
  <2> QED
    BY <2>1, <2>2
<1>19. LockServed'
  <2> SUFFICES ASSUME NEW r \in Queues, lock_waiters'[r] # <<>>
               PROVE  value'[r] = 0 \/ \E u \in Threads : QueueOf(u) = r /\ pc'[u] = "lock_ready"
    BY DEF LockServed, QueueOf
  <2>1. CASE r = q
    <3>1. L # <<>>
      <4> SUFFICES ASSUME L = <<>> PROVE FALSE
        OBVIOUS
      <4>1. SubSeq(L, n + 1, Len(L)) = <<>>
        BY <1>2
      <4> QED
        BY <1>8, <2>1, <4>1
    <3>2. L[1] \in first /\ L[1] \in Threads /\ L[1] # t
      BY <1>0, <1>2, <1>4, <3>1
    <3> QED
      BY <1>1, <1>4, <2>1, <3>2
  <2>2. CASE r # q
    <3>1. lock_waiters[r] # <<>> /\ value'[r] = value[r]
      BY <1>6, <1>8, <2>2
    <3> QED
      BY <1>0, <1>1, <2>2, <3>1 DEF Core, LockServed
  <2> QED
    BY <2>1, <2>2
<1> QED
  BY <1>12, <1>15, <1>16, <1>17, <1>18, <1>19 DEF Core

-----------------------------------------------------------------------------
(* Whatever changes a ring writes the port's interrupt enables at its end. *)

LEMMA ArmedByWrite ==
  ASSUME write_ier, mode' = mode
  PROVE  PortArmed'
  BY DEF write_ier, PortArmed

LEMMA ArmedUnchanged ==
  ASSUME PortArmed, UNCHANGED <<head, tail, ier, mode>>, power' = "on" => power = "on"
  PROVE  PortArmed'
  BY DEF PortArmed, Armed, intq_empty, intq_full, next

LEMMA CallKeeps ==
  ASSUME ConsoleInv, NEW t \in Threads, NEW b, Call(t, b)
  PROVE  ConsoleInv'
<1> DEFINE q == QueueOf(t)
<1>1. CASE ~MustWait(q) /\ Transfer(t, b) /\ UNCHANGED <<pc, waiter, lock>>
  <2>1. \A u \in Threads : pc[u] = "waiting" => QueueOf(u) # q
    BY <1>1 DEF ConsoleInv, Core, SleepsForReason
  <2>2. /\ head' \in [Queues -> Int] /\ tail' \in [Queues -> Int]
        /\ \A r \in Queues \ {q} : head'[r] = head[r] /\ tail'[r] = tail[r]
    BY <1>1, NextType DEF Transfer, intq_putc, intq_getc, QueueOf, Queues, ConsoleInv, Core, Types
  <2>3. Core'
    <3>1. UNCHANGED <<readers, pc, waiter, value, lock_waiters>>
      BY <1>1 DEF Call, lock
    <3> QED
      BY <2>1, <2>2, <3>1, QuietKeeps, QueueOfType DEF ConsoleInv
  <2>4. write_ier /\ mode' = mode
    BY <1>1 DEF Transfer, serial_notify, Call
  <2> QED
    BY <2>3, <2>4, ArmedByWrite DEF ConsoleInv
<1>2. CASE /\ MustWait(q) /\ value[q] = 1
           /\ Wait(t)
           /\ Goto(t, "waiting")
           /\ UNCHANGED <<buf, head, tail, taken, lock_waiters, ier>>
  <2>1. Core'
    BY <1>2, WaitKeeps DEF ConsoleInv, Call
  <2>2. PortArmed'
    BY <1>2, ArmedUnchanged DEF ConsoleInv, Call
  <2> QED
    BY <2>1, <2>2 DEF ConsoleInv
<1>3. CASE SleepForLock(t)
  <2>1. Core'
    BY <1>3, SleepKeeps DEF ConsoleInv, Call
  <2>2. PortArmed'
    BY <1>3, ArmedUnchanged DEF ConsoleInv, Call, SleepForLock, queue
  <2> QED
    BY <2>1, <2>2 DEF ConsoleInv
<1> QED
  BY <1>1, <1>2, <1>3 DEF Call

LEMMA RunsKeeps ==
  ASSUME ConsoleInv, NEW t \in Threads, Runs(t)
  PROVE  ConsoleInv'
<1> DEFINE q == QueueOf(t)
<1>1. CASE Woken(t)
  <2>1. Core'
    BY <1>1, WokenKeeps DEF ConsoleInv
  <2>2. CASE MustWait(q)
    BY <1>1, <2>1, <2>2, ArmedUnchanged DEF ConsoleInv, Woken
  <2>3. CASE ~MustWait(q)
    BY <1>1, <2>1, <2>3, ArmedByWrite DEF ConsoleInv, Woken, Transfer, serial_notify
  <2> QED
    BY <2>2, <2>3
<1>2. CASE GetLock(t)
  <2>1. pc[t] = "lock_ready" /\ UNCHANGED <<readers, mode>> /\ power = "on"
    BY <1>2 DEF GetLock
  <2>2. CASE SleepForLock(t) /\ UNCHANGED power
    BY <2>1, <2>2, SleepKeeps, ArmedUnchanged DEF ConsoleInv, SleepForLock, queue
  <2>3. CASE /\ value[q] = 1 /\ MustWait(q) /\ Wait(t) /\ Goto(t, "waiting")
             /\ UNCHANGED <<buf, head, tail, taken, lock_waiters, ier, power>>
    BY <2>1, <2>3, WaitKeeps, ArmedUnchanged DEF ConsoleInv
  <2>4. CASE power' = "panic" /\ UNCHANGED <<pc, queue, lock, ier>>
    <3>1. Core'
      BY <2>1, <2>4, QuietKeeps DEF ConsoleInv, Core, Types, queue, lock
    <3> QED
      BY <2>1, <2>4, <3>1, ArmedUnchanged DEF ConsoleInv, queue
  <2> QED
    BY <1>2, <2>2, <2>3, <2>4 DEF GetLock
<1> QED
  BY <1>1, <1>2 DEF Runs

(* The handlers: both rings' signal() comes with the byte. *)
LEMMA HandlerKeeps ==
  ASSUME ConsoleInv, NEW q \in Queues, signal(q),
         (\E b : intq_putc(q, b)) \/ intq_getc(q),
         write_ier, UNCHANGED <<readers, mode, lock>>
  PROVE  ConsoleInv'
<1>1. /\ head' \in [Queues -> Int] /\ tail' \in [Queues -> Int]
      /\ \A r \in Queues \ {q} : head'[r] = head[r] /\ tail'[r] = tail[r]
  BY NextType DEF intq_putc, intq_getc, ConsoleInv, Core, Types
<1>2. Core'
  BY <1>1, SignalKeeps DEF ConsoleInv, lock
<1> QED
  BY <1>2, ArmedByWrite DEF ConsoleInv

LEMMA PolledKeeps ==
  ASSUME ConsoleInv, NEW b, PutcPolled(b)
  PROVE  ConsoleInv'
<1>1. "txq" \in Queues
  BY DEF Queues
<1>2. /\ head' \in [Queues -> Int] /\ tail' \in [Queues -> Int]
      /\ \A r \in Queues \ {"txq"} : head'[r] = head[r] /\ tail'[r] = tail[r]
  BY <1>1, NextType DEF PutcPolled, ConsoleInv, Core, Types
<1>3. UNCHANGED <<readers, value, lock_waiters>>
  BY DEF PutcPolled, lock
<1>4. Core'
  <2>1. CASE intq_full("txq")
    BY <1>1, <1>2, <1>3, <2>1, SignalKeeps DEF PutcPolled, ConsoleInv
  <2>2. CASE ~intq_full("txq")
    <3>1. \A u \in Threads : pc[u] = "waiting" => QueueOf(u) # "txq"
      BY <2>2 DEF ConsoleInv, Core, SleepsForReason, MustWait
    <3>2. UNCHANGED <<pc, waiter>>
      BY <2>2 DEF PutcPolled
    <3> QED
      BY <1>2, <1>3, <3>1, <3>2, QuietKeeps, QueueOfType DEF ConsoleInv
  <2> QED
    BY <2>1, <2>2
<1> QED
  BY <1>4, ArmedByWrite DEF ConsoleInv, PutcPolled

LEMMA FlushKeeps ==
  ASSUME ConsoleInv, serial_flush
  PROVE  ConsoleInv'
<1>1. UNCHANGED <<readers, head, value, lock_waiters>> /\ "txq" \in Queues
  BY DEF serial_flush, lock, Queues
<1>2. CASE intq_empty("txq")
  BY <1>1, <1>2, QuietKeeps DEF serial_flush, ConsoleInv, Core, Types, PortArmed
<1>3. CASE ~intq_empty("txq")
  <2>1. signal("txq") /\ tail' = [tail EXCEPT !["txq"] = head["txq"]]
    BY <1>3 DEF serial_flush
  <2>2. tail' \in [Queues -> Int] /\ \A r \in Queues \ {"txq"} : tail'[r] = tail[r]
    BY <1>1, <2>1 DEF ConsoleInv, Core, Types
  <2>3. head' \in [Queues -> Int]
    BY <1>1 DEF ConsoleInv, Core, Types
  <2>4. Core'
    BY <1>1, <2>1, <2>2, <2>3, SignalKeeps DEF ConsoleInv
  <2>5. PortArmed'
    BY DEF serial_flush, PortArmed
  <2> QED
    BY <2>4, <2>5 DEF ConsoleInv
<1> QED
  BY <1>2, <1>3

LEMMA InitInv == Init => ConsoleInv
<1> SUFFICES ASSUME Init PROVE ConsoleInv
  OBVIOUS
<1>1. \A q \in Queues : lock_waiters[q] = <<>> /\ Len(lock_waiters[q]) = 0 /\ waiter[q] = NoThread
  BY DEF Init
<1>2. \A t \in Threads : pc[t] = "idle"
  BY DEF Init
<1>3. Types
  BY DEF Init, Types, Places
<1>4. OneHolder /\ WaiterWaits /\ SleepsForReason /\ LockServed
  BY <1>1, <1>2 DEF OneHolder, Holds, WaiterWaits, SleepsForReason, LockServed
<1>5. Queued
  BY <1>1 DEF Queued
<1>6. PortArmed
  BY DEF Init, PortArmed
<1> QED
  BY <1>3, <1>4, <1>5, <1>6 DEF ConsoleInv, Core

LEMMA NextKeeps == ConsoleInv /\ [Next]_vars => ConsoleInv'
<1> SUFFICES ASSUME ConsoleInv, [Next]_vars PROVE ConsoleInv'
  OBVIOUS
<1> USE DEF ConsoleInv
<1>q. ASSUME UNCHANGED <<readers, pc, queue, lock>> PROVE Core'
  BY <1>q, QuietKeeps DEF Core, Types, queue, lock
<1>1. CASE UNCHANGED vars
  BY <1>1, <1>q, ArmedUnchanged DEF vars, queue, port
<1>2. CASE serial_init_queue
  BY <1>2, <1>q DEF serial_init_queue, PortArmed, Armed, intq_empty, intq_full, next, queue
<1>3. CASE serial_putc \/ \E t \in Readers : input_getc(t)
  BY <1>3, CallKeeps DEF serial_putc, input_getc, Threads
<1>4. CASE serial_flush
  BY <1>4, FlushKeeps
<1>5. CASE Receive \/ \E b \in Keys : keyboard_interrupt(b)
  BY <1>5, HandlerKeeps DEF Receive, keyboard_interrupt, input_putc, serial_notify, Queues
<1>6. CASE Transmit
  BY <1>6, HandlerKeeps DEF Transmit, Queues
<1>7. CASE Sent \/ \E b \in Keys : Arrives(b)
  BY <1>7, <1>q, ArmedUnchanged DEF Sent, Arrives, queue
<1>8. CASE \E t \in Threads : Runs(t)
  BY <1>8, RunsKeeps
<1>9. CASE \E b \in Characters : PutcPolled(b)
  BY <1>9, PolledKeeps
<1> QED
  BY <1>1, <1>2, <1>3, <1>4, <1>5, <1>6, <1>7, <1>8, <1>9 DEF Next

(***************************************************************************)
(* No wakeup of intq.c is lost: who sleeps in wait() has a reason to and   *)
(* is the one signal() will wake, and who sleeps for a queue's lock sleeps *)
(* while another has it, or is about to take it.                           *)
(***************************************************************************)
THEOREM NobodyIsForgotten == Spec => []NobodyForgotten
<1>1. ConsoleInv => NobodyForgotten
  BY DEF ConsoleInv, Core, NobodyForgotten
<1> QED
  BY InitInv, NextKeeps, <1>1, PTL DEF Spec

(* serial.c keeps the port's interrupt enables true to both queues. *)
THEOREM PortStaysArmed == Spec => []PortArmed
<1>1. ConsoleInv => PortArmed
  BY DEF ConsoleInv
<1> QED
  BY InitInv, NextKeeps, <1>1, PTL DEF Spec

-----------------------------------------------------------------------------
Symbols == Bytes \cup {NoByte}

(* The ring of a queue: what is between tail t and head h of a buffer r.   *)
Ring(h, t, r) ==
  [i \in 1..((h + BufSize - t) % BufSize) |-> r[(t + i - 1) % BufSize]]

LEMMA Wrap ==
  ASSUME NEW x \in 0..(2 * BufSize - 1)
  PROVE  x % BufSize = IF x < BufSize THEN x ELSE x - BufSize
<1> DEFINE b == BufSize
<1>1. b \in Nat \ {0} /\ x \in Nat /\ x < 2 * b
  OBVIOUS
<1> HIDE DEF b
<1>2. PICK q, r : q = x \div b /\ r = x % b
  OBVIOUS
<1>3. q \in Int /\ r \in 0..(b - 1) /\ x = b * q + r
  BY <1>1, <1>2
<1>4. q = 0 \/ q = 1
  <2>1. ~(q >= 2)
    <3> SUFFICES ASSUME q >= 2 PROVE FALSE
      OBVIOUS
    <3>1. PICK m \in Nat : q = 2 + m
      BY <1>3
    <3>2. b * q = 2 * b + b * m /\ b * m \in Nat
      BY <1>1, <3>1
    <3> QED
      BY <1>1, <1>3, <3>2
  <2>2. ~(q < 0)
    <3> SUFFICES ASSUME q < 0 PROVE FALSE
      OBVIOUS
    <3>1. PICK m \in Nat : q = -1 - m
      BY <1>3
    <3>2. b * q = -b - b * m /\ b * m \in Nat
      BY <1>1, <3>1
    <3> QED
      BY <1>1, <1>3, <3>2
  <2> QED
    BY <1>3, <2>1, <2>2
<1>5. CASE q = 0
  BY <1>1, <1>2, <1>3, <1>5 DEF b
<1>6. CASE q = 1
  BY <1>1, <1>2, <1>3, <1>6 DEF b
<1> QED
  BY <1>4, <1>5, <1>6

LEMMA NextIs ==
  ASSUME NEW h \in Positions
  PROVE  next(h) = (IF h + 1 < BufSize THEN h + 1 ELSE 0) /\ next(h) \in Positions
<1>1. h + 1 \in 0..(2 * BufSize - 1)
  BY DEF Positions
<1> QED
  BY <1>1, Wrap DEF next, Positions

(* Its length and its elements, without the remainders. *)
Filled(h, t) == IF h >= t THEN h - t ELSE h + BufSize - t
Place(t, i) == IF t + i - 1 < BufSize THEN t + i - 1 ELSE t + i - 1 - BufSize

LEMMA FilledIs ==
  ASSUME NEW h \in Positions, NEW t \in Positions
  PROVE  Filled(h, t) \in 0..(BufSize - 1) /\ (h + BufSize - t) % BufSize = Filled(h, t)
<1>1. PICK x : x = h + BufSize - t
  OBVIOUS
<1>2. x \in 0..(2 * BufSize - 1)
  BY <1>1 DEF Positions
<1>3. x % BufSize = IF x < BufSize THEN x ELSE x - BufSize
  BY <1>2, Wrap
<1>4. Filled(h, t) = IF x < BufSize THEN x ELSE x - BufSize
  BY <1>1 DEF Filled, Positions
<1>5. Filled(h, t) \in 0..(BufSize - 1)
  BY DEF Filled, Positions
<1> QED
  BY <1>1, <1>3, <1>4, <1>5

LEMMA PlaceIs ==
  ASSUME NEW t \in Positions, NEW i \in 1..(BufSize - 1)
  PROVE  (t + i - 1) % BufSize = Place(t, i) /\ Place(t, i) \in Positions
<1>1. PICK x : x = t + i - 1
  OBVIOUS
<1>2. x \in 0..(2 * BufSize - 1)
  BY <1>1 DEF Positions
<1>3. x % BufSize = IF x < BufSize THEN x ELSE x - BufSize
  BY <1>2, Wrap
<1>4. Place(t, i) = IF x < BufSize THEN x ELSE x - BufSize
  BY <1>1 DEF Place, Positions
<1>5. Place(t, i) \in Positions
  BY <1>2, <1>4 DEF Positions
<1> QED
  BY <1>1, <1>3, <1>4, <1>5

LEMMA RingIs ==
  ASSUME NEW h \in Positions, NEW t \in Positions, NEW r \in [Positions -> Symbols],
         NEW s, s = Ring(h, t, r), NEW n, n = Filled(h, t)
  PROVE  /\ n \in 0..(BufSize - 1) /\ s \in Seq(Symbols) /\ Len(s) = n
         /\ \A i \in 1..n : Place(t, i) \in Positions /\ s[i] = r[Place(t, i)]
<1>1. n \in 0..(BufSize - 1) /\ (h + BufSize - t) % BufSize = n
  BY FilledIs
<1>2. s = [i \in 1..n |-> r[(t + i - 1) % BufSize]]
  BY <1>1 DEF Ring
<1>3. \A i \in 1..n : (t + i - 1) % BufSize = Place(t, i) /\ Place(t, i) \in Positions
  BY <1>1, PlaceIs
<1>4. \A i \in 1..n : Place(t, i) \in Positions /\ s[i] = r[Place(t, i)]
  BY <1>2, <1>3
<1>5. s \in Seq(Symbols) /\ Len(s) = n
  <2>1. n \in Nat /\ DOMAIN s = 1..n /\ s = [i \in 1..n |-> s[i]] /\ \A i \in 1..n : s[i] \in Symbols
    BY <1>1, <1>2, <1>4
  <2> QED
    BY <2>1
<1> QED
  BY <1>1, <1>4, <1>5

LEMMA RingEmptyFull ==
  ASSUME NEW h \in Positions, NEW t \in Positions, NEW r \in [Positions -> Symbols]
  PROVE  /\ h = t <=> Ring(h, t, r) = <<>>
         /\ next(h) = t <=> Len(Ring(h, t, r)) = BufSize - 1
         /\ Len(Ring(h, t, r)) <= BufSize - 1
<1>1. /\ Ring(h, t, r) \in Seq(Symbols) /\ Len(Ring(h, t, r)) = Filled(h, t)
      /\ Filled(h, t) \in 0..(BufSize - 1)
  BY RingIs
<1>2. Filled(h, t) = 0 <=> h = t
  BY DEF Filled, Positions
<1>3. Filled(h, t) = BufSize - 1 <=> next(h) = t
  BY NextIs DEF Filled, Positions
<1>4. Ring(h, t, r) = <<>> <=> Len(Ring(h, t, r)) = 0
  BY <1>1
<1> QED
  BY <1>1, <1>2, <1>3, <1>4

(* What a ring is after a byte has been put in or taken out. *)
After(h, u) == u = next(h)
Stored(r, k, x, v) == v = [r EXCEPT ![k] = x]

LEMMA RingPut ==
  ASSUME NEW h \in Positions, NEW t \in Positions, NEW r \in [Positions -> Symbols],
         NEW x \in Symbols, next(h) # t,
         NEW u \in Positions, After(h, u), NEW r1 \in [Positions -> Symbols], Stored(r, h, x, r1)
  PROVE  Ring(u, t, r1) = Append(Ring(h, t, r), x)
<1> DEFINE n == Filled(h, t)
           s == Ring(h, t, r)
           s1 == Ring(u, t, r1)
<1>2. s \in Seq(Symbols) /\ Len(s) = n /\ n \in 0..(BufSize - 1)
      /\ \A i \in 1..n : Place(t, i) \in Positions /\ s[i] = r[Place(t, i)]
  BY RingIs, SMTT(60)
<1>3. s1 \in Seq(Symbols) /\ Len(s1) = Filled(u, t) /\ Filled(u, t) \in 0..(BufSize - 1)
      /\ \A i \in 1..Filled(u, t) : Place(t, i) \in Positions /\ s1[i] = r1[Place(t, i)]
  BY RingIs
<1>a. u = IF h + 1 < BufSize THEN h + 1 ELSE 0
  BY NextIs DEF After
<1>4. Filled(u, t) = n + 1
  BY <1>a, NextIs DEF Filled, Positions
<1>5. Place(t, n + 1) = h /\ \A i \in 1..n : Place(t, i) # h
  BY DEF Place, Filled, Positions
<1> HIDE DEF n, s, s1
<1>6. ASSUME NEW i \in 1..(n + 1) PROVE s1[i] = Append(s, x)[i]
  <2>1. CASE i = n + 1
    BY <1>2, <1>3, <1>4, <1>5, <2>1 DEF Stored
  <2>2. CASE i \in 1..n
    <3>1. s1[i] = r[Place(t, i)]
      BY <1>2, <1>3, <1>4, <1>5, <2>2 DEF Stored
    <3> QED
      BY <1>2, <2>2, <3>1
  <2> QED
    BY <1>2, <2>1, <2>2
<1>7. Append(s, x) \in Seq(Symbols) /\ Len(Append(s, x)) = n + 1
  BY <1>2
<1>8. s1 = Append(s, x)
  BY <1>2, <1>3, <1>4, <1>6, <1>7, SeqEqual
<1> QED
  BY <1>8 DEF s, s1

LEMMA RingTake ==
  ASSUME NEW h \in Positions, NEW t \in Positions, NEW r \in [Positions -> Symbols],
         NEW x \in Symbols, h # t,
         NEW u \in Positions, After(t, u), NEW r1 \in [Positions -> Symbols], Stored(r, t, x, r1)
  PROVE  /\ Ring(h, t, r) # <<>> /\ Head(Ring(h, t, r)) = r[t]
         /\ Ring(h, u, r1) = Tail(Ring(h, t, r))
<1> DEFINE n == Filled(h, t)
           s == Ring(h, t, r)
           s1 == Ring(h, u, r1)
<1>2. s \in Seq(Symbols) /\ Len(s) = n /\ n \in 0..(BufSize - 1)
      /\ \A i \in 1..n : Place(t, i) \in Positions /\ s[i] = r[Place(t, i)]
  BY RingIs, SMTT(60)
<1>3. s1 \in Seq(Symbols) /\ Len(s1) = Filled(h, u) /\ Filled(h, u) \in 0..(BufSize - 1)
      /\ \A i \in 1..Filled(h, u) : Place(u, i) \in Positions /\ s1[i] = r1[Place(u, i)]
  BY RingIs
<1>a. u = IF t + 1 < BufSize THEN t + 1 ELSE 0
  BY NextIs DEF After
<1>4. Filled(h, u) = n - 1 /\ n >= 1
  BY <1>a DEF Filled, Positions
<1>5. /\ Place(t, 1) = t
      /\ \A i \in 1..(n - 1) : Place(u, i) = Place(t, i + 1) /\ Place(t, i + 1) # t
  <2>1. n <= BufSize - 1 /\ n \in Nat
    BY <1>2
  <2> HIDE DEF n
  <2> QED
    BY <1>a, <2>1 DEF Place, Positions
<1> HIDE DEF n, s, s1
<1>6. s # <<>> /\ Head(s) = r[t]
  BY <1>2, <1>4, <1>5
<1>7. Tail(s) \in Seq(Symbols) /\ Len(Tail(s)) = n - 1 /\ \A i \in 1..(n - 1) : Tail(s)[i] = s[i + 1]
  BY <1>2, <1>4, <1>6
<1>8. ASSUME NEW i \in 1..(n - 1) PROVE s1[i] = Tail(s)[i]
  <2>1. i + 1 \in 1..n
    BY <1>2
  <2>2. s1[i] = r[Place(t, i + 1)]
    BY <1>2, <1>3, <1>4, <1>5, <2>1 DEF Stored
  <2> QED
    BY <1>2, <1>7, <2>1, <2>2
<1>9. s1 = Tail(s)
  BY <1>3, <1>4, <1>7, <1>8, SeqEqual
<1> QED
  BY <1>6, <1>9 DEF s, s1

LEMMA RingLast ==
  ASSUME NEW h \in Positions, NEW t \in Positions, NEW r \in [Positions -> Symbols], h # t
  PROVE  Ring(h, t, r)[Len(Ring(h, t, r))] = r[(h + BufSize - 1) % BufSize]
<1> DEFINE n == Filled(h, t)
<1>1. Len(Ring(h, t, r)) = n /\ n \in 0..(BufSize - 1)
      /\ \A i \in 1..n : Place(t, i) \in Positions /\ Ring(h, t, r)[i] = r[Place(t, i)]
  BY RingIs
<1>2. (h + BufSize - 1) % BufSize = IF h = 0 THEN BufSize - 1 ELSE h - 1
  <2>1. PICK x : x = h + BufSize - 1
    OBVIOUS
  <2>2. x \in 0..(2 * BufSize - 1)
    BY <2>1 DEF Positions
  <2>3. x % BufSize = IF x < BufSize THEN x ELSE x - BufSize
    BY <2>2, Wrap
  <2>4. (IF x < BufSize THEN x ELSE x - BufSize) = IF h = 0 THEN BufSize - 1 ELSE h - 1
    BY <2>1 DEF Positions
  <2> QED
    BY <2>1, <2>3, <2>4
<1>3. n \in 1..n /\ Place(t, n) = IF h = 0 THEN BufSize - 1 ELSE h - 1
  BY DEF Place, Filled, Positions
<1> QED
  BY <1>1, <1>2, <1>3
-----------------------------------------------------------------------------
(* What the rings and the registers hold: positions and bytes. *)
Rings ==
  /\ buf \in [Queues -> [Positions -> Symbols]]
  /\ head \in [Queues -> Positions] /\ tail \in [Queues -> Positions]
  /\ taken \in [Queues -> Symbols]
  /\ rbr \in Keys \cup {NoByte}

(* A writer that waits for room has its character with it. *)
HasByte == pc[Writer] # "idle" => byte \in Characters

RingInv == Rings /\ HasByte

LEMMA ContentsIs == \A q : Contents(q) = Ring(head[q], tail[q], buf[q])
BY DEF Contents, Ring

LEMMA ContentsIsNow == \A q : Contents(q)' = Ring(head'[q], tail'[q], buf'[q])
BY DEF Contents, Ring

(* What may become of a queue in a step. *)
Same(q) == UNCHANGED <<head[q], tail[q], buf[q], taken[q]>>
Puts(q, b) ==
  /\ next(head[q]) # tail[q] /\ buf'[q] = [buf[q] EXCEPT ![head[q]] = b]
  /\ head'[q] = next(head[q]) /\ tail'[q] = tail[q] /\ taken'[q] = taken[q]
Takes(q) ==
  /\ head[q] # tail[q] /\ buf'[q] = [buf[q] EXCEPT ![tail[q]] = NoByte]
  /\ taken'[q] = buf[q][tail[q]] /\ tail'[q] = next(tail[q]) /\ head'[q] = head[q]
Replaces(q, b) ==
  /\ next(head[q]) = tail[q]
  /\ buf'[q] = [[buf[q] EXCEPT ![tail[q]] = NoByte] EXCEPT ![head[q]] = b]
  /\ taken'[q] = buf[q][tail[q]]
  /\ tail'[q] = next(tail[q]) /\ head'[q] = next(head[q])

LEMMA SameIs ==
  ASSUME NEW q, Same(q)
  PROVE  Contents(q)' = Contents(q) /\ taken'[q] = taken[q]
BY ContentsIs, ContentsIsNow DEF Same

LEMMA PutsIs ==
  ASSUME Rings, NEW q \in Queues, NEW b \in Bytes, Puts(q, b)
  PROVE  /\ Len(Contents(q)) < BufSize - 1 /\ Contents(q)' = Append(Contents(q), b)
         /\ taken'[q] = taken[q]
<1>1. PICK h \in Positions, t \in Positions, r \in [Positions -> Symbols] :
        h = head[q] /\ t = tail[q] /\ r = buf[q]
  BY DEF Rings
<1>2. b \in Symbols /\ next(h) # t
  BY <1>1 DEF Symbols, Puts
<1>3. PICK u \in Positions, r1 \in [Positions -> Symbols] : After(h, u) /\ Stored(r, h, b, r1)
  BY <1>2, NextIs DEF After, Stored
<1>4. Ring(u, t, r1) = Append(Ring(h, t, r), b)
  BY <1>2, <1>3, RingPut
<1>5. Len(Ring(h, t, r)) < BufSize - 1
  <2>1. Len(Ring(h, t, r)) <= BufSize - 1 /\ Len(Ring(h, t, r)) # BufSize - 1
    BY <1>2, RingEmptyFull
  <2>2. Len(Ring(h, t, r)) \in Nat
    BY RingIs
  <2> QED
    BY <2>1, <2>2
<1>6. Contents(q) = Ring(h, t, r) /\ Contents(q)' = Ring(u, t, r1)
  BY <1>1, <1>3, ContentsIs, ContentsIsNow DEF Puts, After, Stored
<1> QED
  BY <1>4, <1>5, <1>6 DEF Puts

LEMMA TakesIs ==
  ASSUME Rings, NEW q \in Queues, Takes(q)
  PROVE  /\ Contents(q) # <<>> /\ taken'[q] = Head(Contents(q))
         /\ Contents(q)' = Tail(Contents(q))
<1>1. PICK h \in Positions, t \in Positions, r \in [Positions -> Symbols] :
        h = head[q] /\ t = tail[q] /\ r = buf[q]
  BY DEF Rings
<1>2. NoByte \in Symbols /\ h # t
  BY <1>1 DEF Symbols, Takes
<1>3. PICK u \in Positions, r1 \in [Positions -> Symbols] :
        After(t, u) /\ Stored(r, t, NoByte, r1)
  BY <1>2, NextIs DEF After, Stored
<1>4. /\ Ring(h, t, r) # <<>> /\ Head(Ring(h, t, r)) = r[t]
      /\ Ring(h, u, r1) = Tail(Ring(h, t, r))
  BY <1>2, <1>3, RingTake
<1>5. Contents(q) = Ring(h, t, r) /\ Contents(q)' = Ring(h, u, r1)
  BY <1>1, <1>3, ContentsIs, ContentsIsNow DEF Takes, After, Stored
<1> QED
  BY <1>1, <1>4, <1>5 DEF Takes

LEMMA ReplacesIs ==
  ASSUME Rings, NEW q \in Queues, NEW b \in Bytes, Replaces(q, b)
  PROVE  /\ Len(Contents(q)) = BufSize - 1 /\ taken'[q] = Head(Contents(q))
         /\ Contents(q)' = Append(Tail(Contents(q)), b)
<1>1. PICK h \in Positions, t \in Positions, r \in [Positions -> Symbols] :
        h = head[q] /\ t = tail[q] /\ r = buf[q]
  BY DEF Rings
<1>2. NoByte \in Symbols /\ b \in Symbols /\ next(h) = t /\ h # t
  <2>1. next(h) # h
    BY NextIs DEF Positions
  <2> QED
    BY <1>1, <2>1 DEF Symbols, Replaces
<1>3. PICK u \in Positions, v \in [Positions -> Symbols] :
        After(t, u) /\ Stored(r, t, NoByte, v)
  BY <1>2, NextIs DEF After, Stored
<1>4. Head(Ring(h, t, r)) = r[t] /\ Ring(h, u, v) = Tail(Ring(h, t, r))
  BY <1>2, <1>3, RingTake
<1>5. next(h) # u
  BY <1>2, <1>3, NextIs DEF Positions, After
<1>6. PICK k \in Positions, w \in [Positions -> Symbols] : After(h, k) /\ Stored(v, h, b, w)
  BY <1>2, NextIs DEF After, Stored
<1>7. Ring(k, u, w) = Append(Ring(h, u, v), b)
  BY <1>2, <1>5, <1>6, RingPut
<1>8. Len(Ring(h, t, r)) = BufSize - 1
  BY <1>2, RingEmptyFull
<1>9. Contents(q) = Ring(h, t, r) /\ Contents(q)' = Ring(k, u, w)
  BY <1>1, <1>3, <1>6, ContentsIs, ContentsIsNow DEF Replaces, After, Stored
<1> QED
  BY <1>1, <1>4, <1>7, <1>8, <1>9 DEF Replaces

-----------------------------------------------------------------------------
(* The steps of intq.c. *)
RingTypes ==
  /\ buf \in [Queues -> [Positions -> Symbols]]
  /\ head \in [Queues -> Positions] /\ tail \in [Queues -> Positions]
  /\ taken \in [Queues -> Symbols]

Moves(q) == Same(q) \/ Takes(q) \/ \E b \in Bytes : Puts(q, b) \/ Replaces(q, b)
AllMove == RingTypes' /\ \A q \in Queues : Moves(q)

LEMMA Still ==
  ASSUME RingTypes, UNCHANGED <<buf, head, tail, taken>>
  PROVE  AllMove
BY DEF RingTypes, AllMove, Moves, Same

LEMMA PutcMoves ==
  ASSUME RingTypes, NEW q \in Queues, NEW b \in Bytes, ~intq_full(q), intq_putc(q, b)
  PROVE  AllMove
<1>1. head[q] \in Positions /\ next(head[q]) \in Positions /\ next(head[q]) # tail[q]
  BY NextIs DEF RingTypes, intq_full
<1>2. [buf[q] EXCEPT ![head[q]] = b] \in [Positions -> Symbols]
  BY <1>1 DEF RingTypes, Symbols
<1>3. buf' = [buf EXCEPT ![q] = [buf[q] EXCEPT ![head[q]] = b]]
  BY DEF intq_putc, RingTypes
<1>4. RingTypes'
  BY <1>1, <1>2, <1>3 DEF RingTypes, intq_putc
<1>5. Puts(q, b)
  BY <1>1, <1>3 DEF RingTypes, intq_putc, Puts
<1>6. \A p \in Queues \ {q} : Same(p)
  BY <1>3 DEF RingTypes, intq_putc, Same
<1> QED
  BY <1>4, <1>5, <1>6 DEF AllMove, Moves

LEMMA GetcMoves ==
  ASSUME RingTypes, NEW q \in Queues, ~intq_empty(q), intq_getc(q)
  PROVE  AllMove
<1>1. tail[q] \in Positions /\ next(tail[q]) \in Positions /\ head[q] # tail[q]
  BY NextIs DEF RingTypes, intq_empty
<1>2. [buf[q] EXCEPT ![tail[q]] = NoByte] \in [Positions -> Symbols] /\ buf[q][tail[q]] \in Symbols
  BY <1>1 DEF RingTypes, Symbols
<1>3. buf' = [buf EXCEPT ![q] = [buf[q] EXCEPT ![tail[q]] = NoByte]]
  BY DEF intq_getc, Removed, RingTypes
<1>4. RingTypes'
  BY <1>1, <1>2, <1>3 DEF RingTypes, intq_getc
<1>5. Takes(q)
  BY <1>1, <1>3 DEF RingTypes, intq_getc, Takes
<1>6. \A p \in Queues \ {q} : Same(p)
  BY <1>3 DEF RingTypes, intq_getc, Same
<1> QED
  BY <1>4, <1>5, <1>6 DEF AllMove, Moves

LEMMA PolledMoves ==
  ASSUME RingTypes, NEW b \in Characters, PutcPolled(b)
  PROVE  AllMove
<1>1. "txq" \in Queues /\ b \in Bytes
  BY DEF Queues, Bytes
<1>2. CASE ~intq_full("txq")
  <2>1. intq_putc("txq", b)
    BY <1>2 DEF PutcPolled, intq_putc
  <2> QED
    BY <1>1, <1>2, <2>1, PutcMoves
<1>3. CASE intq_full("txq")
  <2> DEFINE q == "txq"
             r1 == [buf[q] EXCEPT ![tail[q]] = NoByte]
             r2 == [r1 EXCEPT ![head[q]] = b]
  <2>1. /\ head[q] \in Positions /\ tail[q] \in Positions /\ next(head[q]) \in Positions
        /\ next(tail[q]) \in Positions /\ next(head[q]) = tail[q]
    BY <1>1, <1>3, NextIs DEF RingTypes, intq_full
  <2>2. r1 \in [Positions -> Symbols] /\ r2 \in [Positions -> Symbols]
        /\ buf[q][tail[q]] \in Symbols
    BY <1>1, <2>1 DEF RingTypes, Symbols
  <2>3. PICK r : r = r1
    OBVIOUS
  <2>4. Removed(q) = [buf EXCEPT ![q] = r]
    BY <1>1, <2>3 DEF Removed, RingTypes
  <2>5. buf' = [buf EXCEPT ![q] = r2]
    <3>1. buf' = [[buf EXCEPT ![q] = r] EXCEPT ![q][head[q]] = b]
      BY <1>3, <2>4 DEF PutcPolled
    <3> QED
      BY <1>1, <2>3, <3>1 DEF RingTypes
  <2>6. RingTypes'
    <3>1. buf' \in [Queues -> [Positions -> Symbols]]
      BY <1>1, <2>2, <2>5 DEF RingTypes
    <3>2. head' \in [Queues -> Positions] /\ tail' \in [Queues -> Positions]
      BY <1>1, <1>3, <2>1 DEF RingTypes, PutcPolled
    <3>3. taken' \in [Queues -> Symbols]
      BY <1>1, <1>3, <2>2 DEF RingTypes, PutcPolled, Oldest
    <3> QED
      BY <3>1, <3>2, <3>3 DEF RingTypes
  <2>7. Replaces(q, b)
    BY <1>1, <1>3, <2>1, <2>5 DEF RingTypes, PutcPolled, Oldest, Replaces
  <2>8. \A p \in Queues \ {q} : Same(p)
    BY <1>3, <2>5 DEF RingTypes, PutcPolled, Same
  <2> QED
    BY <1>1, <2>6, <2>7, <2>8 DEF AllMove, Moves
<1> QED
  BY <1>2, <1>3

LEMMA TransferMoves ==
  ASSUME RingInv, NEW t \in Threads, NEW b, t = Writer => b \in Bytes,
         ~MustWait(QueueOf(t)), Transfer(t, b)
  PROVE  AllMove
<1>1. RingTypes /\ "txq" \in Queues /\ "buffer" \in Queues
  BY DEF RingInv, Rings, RingTypes, Queues
<1>2. CASE t = Writer
  BY <1>1, <1>2, PutcMoves DEF Transfer, MustWait, QueueOf
<1>3. CASE t # Writer
  BY <1>1, <1>3, GetcMoves DEF Transfer, MustWait, QueueOf
<1> QED
  BY <1>2, <1>3

(* What else a step leaves as the invariant wants it. *)
Keeps == AllMove /\ RingInv' /\ (power' = "off" <=> power = "off")

LEMMA SignalledWriter ==
  ASSUME ConsoleInv, NEW q \in Queues, signal(q), pc'[Writer] # "idle"
  PROVE  pc[Writer] # "idle"
BY DEF ConsoleInv, Core, Types, WaiterWaits, signal, Threads

LEMMA CallMoves ==
  ASSUME ConsoleInv, RingInv, NEW t \in Threads, NEW b, Call(t, b),
         IF t = Writer THEN b \in Characters ELSE b = byte
  PROVE  Keeps
<1>1. RingTypes /\ Writer \in Threads /\ (b \in Characters => b \in Bytes)
  BY DEF RingInv, Rings, RingTypes, Threads, Bytes
<1>2. AllMove
  <2>1. CASE ~MustWait(QueueOf(t)) /\ Transfer(t, b)
    BY <1>1, <2>1, TransferMoves
  <2>2. CASE UNCHANGED <<buf, head, tail, taken>>
    BY <1>1, <2>2, Still
  <2> QED
    BY <2>1, <2>2 DEF Call, SleepForLock, queue
<1>3. HasByte'
  <2>1. CASE UNCHANGED pc
    <3>1. pc[Writer] # "idle" => t # Writer
      BY DEF Call
    <3>2. t # Writer => byte' = byte
      BY DEF Call, Transfer
    <3> QED
      BY <2>1, <3>1, <3>2 DEF RingInv, HasByte
  <2>2. CASE byte' = b /\ \A u \in Threads \ {t} : pc'[u] = pc[u]
    BY <1>1, <2>2 DEF RingInv, HasByte
  <2> QED
    BY <2>1, <2>2 DEF Call, SleepForLock, Goto, ConsoleInv, Core, Types
<1> QED
  BY <1>2, <1>3 DEF Call, Keeps, AllMove, RingTypes, RingInv, Rings

LEMMA RunsMoves ==
  ASSUME ConsoleInv, RingInv, NEW t \in Threads, Runs(t)
  PROVE  Keeps
<1>1. RingTypes /\ Writer \in Threads
  BY DEF RingInv, Rings, RingTypes, Threads
<1>2. AllMove
  <2>1. CASE ~MustWait(QueueOf(t)) /\ Transfer(t, byte) /\ Woken(t)
    <3>1. t = Writer => byte \in Bytes
      BY <2>1 DEF RingInv, HasByte, Woken, Bytes
    <3> QED
      BY <2>1, <3>1, TransferMoves
  <2>2. CASE UNCHANGED <<buf, head, tail, taken>>
    BY <1>1, <2>2, Still
  <2> QED
    BY <2>1, <2>2 DEF Runs, Woken, GetLock, SleepForLock, queue
<1>3. HasByte'
  <2> SUFFICES ASSUME pc'[Writer] # "idle" PROVE byte' \in Characters
    BY DEF HasByte
  <2>1. pc[Writer] # "idle"
    <3>1. CASE GetLock(t)
      BY <1>1, <3>1 DEF GetLock, SleepForLock, Goto, ConsoleInv, Core, Types
    <3>2. CASE Woken(t)
      <4> DEFINE q == QueueOf(t)
                 first == {lock_waiters[q][i] : i \in 1..Popped(q)}
      <4>1. q \in Queues /\ lock_waiters[q] \in Seq(Threads)
        BY QueueOfType DEF ConsoleInv, Core, Types
      <4>2. \A u \in first : pc[u] = "locking"
        <5>1. \A i \in 1..Popped(q) : i \in 1..Len(lock_waiters[q])
          BY <4>1 DEF Popped
        <5> QED
          BY <4>1, <5>1 DEF ConsoleInv, Core, Queued
      <4>3. pc'[Writer] = pc[Writer] \/ Writer = t \/ Writer \in first
        BY <1>1, <3>2 DEF Woken
      <4> QED
        BY <3>2, <4>2, <4>3 DEF Woken
    <3> QED
      BY <3>1, <3>2 DEF Runs
  <2>2. byte' = byte
    <3>1. CASE t = Writer /\ Woken(t) /\ ~MustWait(QueueOf(t))
      <4>1. pc'[Writer] = "idle"
        BY <1>1, <3>1 DEF Woken
      <4> QED
        BY <4>1
    <3>2. CASE ~(t = Writer /\ Woken(t) /\ ~MustWait(QueueOf(t)))
      BY <3>2 DEF Runs, Woken, GetLock, Transfer
    <3> QED
      BY <3>1, <3>2
  <2> QED
    BY <2>1, <2>2 DEF RingInv, HasByte
<1>4. (power' = "off" <=> power = "off") /\ rbr' = rbr
  BY DEF Runs, Woken, GetLock
<1> QED
  BY <1>2, <1>3, <1>4 DEF Keeps, AllMove, RingTypes, RingInv, Rings

LEMMA HandlerMoves ==
  ASSUME ConsoleInv, RingInv, NEW q \in Queues, signal(q), AllMove,
         byte' = byte, power' = power, rbr' \in Keys \cup {NoByte}
  PROVE  Keeps
<1>1. HasByte'
  BY SignalledWriter DEF RingInv, HasByte
<1> QED
  BY <1>1 DEF Keeps, AllMove, RingTypes, RingInv, Rings

LEMMA InputMoves ==
  ASSUME ConsoleInv, RingInv, NEW b \in Keys, input_putc(b),
         byte' = byte, power' = power, rbr' \in Keys \cup {NoByte}
  PROVE  Keeps
<1>1. "buffer" \in Queues /\ b \in Bytes /\ RingTypes
  BY DEF Queues, Bytes, RingInv, Rings, RingTypes
<1>2. AllMove /\ signal("buffer")
  BY <1>1, PutcMoves DEF input_putc
<1> QED
  BY <1>1, <1>2, HandlerMoves

LEMMA PolledKeepsRings ==
  ASSUME ConsoleInv, RingInv, NEW b \in Characters, PutcPolled(b)
  PROVE  Keeps
<1>1. "txq" \in Queues /\ AllMove
  BY PolledMoves DEF Queues, RingInv, Rings, RingTypes
<1>2. byte' = byte /\ power' = power /\ rbr' \in Keys \cup {NoByte}
  BY DEF PutcPolled, RingInv, Rings
<1>3. CASE signal("txq")
  BY <1>1, <1>2, <1>3, HandlerMoves
<1>4. CASE UNCHANGED pc
  BY <1>1, <1>2, <1>4 DEF Keeps, AllMove, RingTypes, RingInv, Rings, HasByte
<1> QED
  BY <1>3, <1>4 DEF PutcPolled

(* serial_flush() sends what there is, in order. *)
LEMMA FlushMoves ==
  ASSUME ConsoleInv, RingInv, serial_flush
  PROVE  /\ RingInv' /\ Same("buffer") /\ power # "off" /\ power' = "off"
         /\ Contents("txq")' = <<>>
         /\ IF Contents("txq") = <<>> THEN taken'["txq"] = taken["txq"]
            ELSE taken'["txq"] = Contents("txq")[Len(Contents("txq"))]
<1> DEFINE q == "txq"
<1>1. PICK h \in Positions, t \in Positions, r \in [Positions -> Symbols] :
        h = head[q] /\ t = tail[q] /\ r = buf[q]
  BY DEF RingInv, Rings, Queues
<1>2. q \in Queues /\ power # "off" /\ power' = "off" /\ head' = head
  BY DEF Queues, serial_flush
<1>3. Contents(q) = Ring(h, t, r)
  BY <1>1, ContentsIs
<1>4. CASE h = t
  <2>1. UNCHANGED <<buf, head, tail, taken, pc, byte, rbr>>
    BY <1>1, <1>4 DEF serial_flush, intq_empty, port
  <2>2. Contents(q)' = Ring(h, t, r)
    BY <1>1, <2>1, ContentsIsNow
  <2>3. Ring(h, t, r) = <<>>
    BY <1>4, RingEmptyFull
  <2> QED
    BY <1>2, <1>3, <2>1, <2>2, <2>3 DEF RingInv, Rings, HasByte, Same
<1>5. CASE h # t
  <2>1. /\ taken' = [taken EXCEPT ![q] = buf[q][(head[q] + BufSize - 1) % BufSize]]
        /\ buf' = [buf EXCEPT ![q] = [i \in 0..(BufSize - 1) |-> NoByte]]
        /\ tail' = [tail EXCEPT ![q] = head[q]]
        /\ signal(q) /\ byte' = byte /\ rbr' = rbr
    BY <1>1, <1>5 DEF serial_flush, intq_empty, port
  <2>2. PICK v \in [Positions -> Symbols] : v = [i \in 0..(BufSize - 1) |-> NoByte]
    BY DEF Positions, Symbols
  <2>3. Ring(h, h, v) = <<>> /\ Ring(h, t, r) # <<>>
    BY <1>5, RingEmptyFull
  <2>4. Contents(q)' = Ring(h, h, v)
    BY <1>1, <1>2, <2>1, <2>2, ContentsIsNow DEF RingInv, Rings
  <2>5. PICK x : x = r[(h + BufSize - 1) % BufSize]
    OBVIOUS
  <2>6. Ring(h, t, r)[Len(Ring(h, t, r))] = x
    BY <1>5, <2>5, RingLast
  <2>7. taken' = [taken EXCEPT ![q] = x]
    BY <1>1, <2>1, <2>5
  <2>8. x \in Symbols
    <3>1. Len(Ring(h, t, r)) \in Nat /\ Ring(h, t, r) \in Seq(Symbols)
      BY RingIs
    <3> QED
      BY <2>3, <2>6, <3>1
  <2>9. HasByte'
    BY <1>2, <2>1, SignalledWriter DEF RingInv, HasByte
  <2>10. Rings'
    <3>1. buf' \in [Queues -> [Positions -> Symbols]]
      BY <2>1, <2>2 DEF RingInv, Rings
    <3>2. tail' \in [Queues -> Positions] /\ head' \in [Queues -> Positions]
      BY <1>1, <1>2, <2>1 DEF RingInv, Rings
    <3>3. taken' \in [Queues -> Symbols]
      BY <2>7, <2>8 DEF RingInv, Rings
    <3> QED
      BY <2>1, <3>1, <3>2, <3>3 DEF RingInv, Rings
  <2>11. taken'[q] = x /\ Same("buffer")
    BY <1>2, <2>1, <2>7 DEF RingInv, Rings, Same, Queues
  <2> QED
    BY <1>2, <1>3, <2>3, <2>4, <2>6, <2>9, <2>10, <2>11 DEF RingInv
<1> QED
  BY <1>4, <1>5

(* What the two BoundedQueues see of a step. *)
LEMMA QueueSees ==
  ASSUME Rings, NEW q \in Queues, Moves(q)
  PROVE  \/ Contents(q)' = Contents(q) /\ taken'[q] = taken[q]
         \/ /\ Contents(q) # <<>> /\ taken'[q] = Head(Contents(q))
            /\ Contents(q)' = Tail(Contents(q))
         \/ \E b \in Bytes :
              \/ /\ Len(Contents(q)) < BufSize - 1 /\ Contents(q)' = Append(Contents(q), b)
                 /\ taken'[q] = taken[q]
              \/ /\ Len(Contents(q)) = BufSize - 1 /\ taken'[q] = Head(Contents(q))
                 /\ Contents(q)' = Append(Tail(Contents(q)), b)
<1>1. CASE Same(q)
  BY <1>1, SameIs
<1>2. CASE Takes(q)
  BY <1>2, TakesIs
<1>3. ASSUME NEW b \in Bytes, Puts(q, b)
      PROVE  /\ Len(Contents(q)) < BufSize - 1 /\ Contents(q)' = Append(Contents(q), b)
             /\ taken'[q] = taken[q]
  BY <1>3, PutsIs
<1>4. ASSUME NEW b \in Bytes, Replaces(q, b)
      PROVE  /\ Len(Contents(q)) = BufSize - 1 /\ taken'[q] = Head(Contents(q))
             /\ Contents(q)' = Append(Tail(Contents(q)), b)
  BY <1>4, ReplacesIs
<1> QED
  BY <1>1, <1>2, <1>3, <1>4 DEF Moves

LEMMA TypedMoves ==
  ASSUME Rings, Moves("buffer")
  PROVE  [Typed!Next]_(Typed!vars)
<1>1. "buffer" \in Queues
  BY DEF Queues
<1> QED
  BY <1>1, QueueSees DEF Typed!Next, Typed!vars, Typed!Take, Typed!Put, Typed!Replace

LEMMA PrintedMoves ==
  ASSUME Rings, Moves("txq"), power' = "off" <=> power = "off"
  PROVE  [Printed!Next]_(Printed!vars)
<1>1. "txq" \in Queues /\ (power = "off")' = (power = "off")
  BY DEF Queues
<1> QED
  BY <1>1, QueueSees DEF Printed!Next, Printed!vars, Printed!Take, Printed!Put, Printed!Replace

LEMMA KeepsBoth ==
  ASSUME RingInv, Keeps
  PROVE  RingInv' /\ [Typed!Next]_(Typed!vars) /\ [Printed!Next]_(Printed!vars)
BY TypedMoves, PrintedMoves DEF Keeps, AllMove, RingInv, Queues

LEMMA FlushBoth ==
  ASSUME ConsoleInv, RingInv, serial_flush
  PROVE  RingInv' /\ [Typed!Next]_(Typed!vars) /\ [Printed!Next]_(Printed!vars)
<1>1. [Typed!Next]_(Typed!vars)
  BY FlushMoves, TypedMoves DEF Moves, RingInv
<1>2. Printed!Close
  BY FlushMoves DEF Printed!Close
<1> QED
  BY <1>1, <1>2, FlushMoves DEF Printed!Next

LEMMA NextMoves ==
  ConsoleInv /\ RingInv /\ [Next]_vars =>
    RingInv' /\ [Typed!Next]_(Typed!vars) /\ [Printed!Next]_(Printed!vars)
<1> SUFFICES ASSUME ConsoleInv, RingInv, [Next]_vars
             PROVE  RingInv' /\ [Typed!Next]_(Typed!vars) /\ [Printed!Next]_(Printed!vars)
  OBVIOUS
<1>1. RingTypes /\ "txq" \in Queues /\ Writer \in Threads
  BY DEF RingInv, Rings, RingTypes, Queues, Threads
<1>2. CASE UNCHANGED vars \/ serial_init_queue \/ Sent
  <2>1. UNCHANGED <<buf, head, tail, taken, pc, byte, rbr, power>>
    BY <1>2 DEF vars, queue, port, serial_init_queue, Sent
  <2>2. Keeps
    BY <1>1, <2>1, Still DEF Keeps, RingInv, Rings, HasByte
  <2> QED
    BY <2>2, KeepsBoth
<1>3. CASE serial_putc
  BY <1>1, <1>3, CallMoves, KeepsBoth DEF serial_putc
<1>4. CASE serial_flush
  BY <1>4, FlushBoth
<1>5. CASE Receive
  <2>1. rbr \in Keys /\ input_putc(rbr) /\ byte' = byte /\ power' = power /\ rbr' = NoByte
    BY <1>5 DEF Receive, RingInv, Rings
  <2>2. PICK b \in Keys : b = rbr
    BY <2>1
  <2> QED
    BY <2>1, <2>2, InputMoves, KeepsBoth
<1>6. CASE Transmit
  <2>1. AllMove /\ signal("txq") /\ byte' = byte /\ power' = power /\ rbr' = rbr
    BY <1>1, <1>6, GetcMoves DEF Transmit
  <2> QED
    BY <1>1, <2>1, HandlerMoves, KeepsBoth DEF RingInv, Rings
<1>7. ASSUME NEW t \in Readers, input_getc(t)
      PROVE  RingInv' /\ [Typed!Next]_(Typed!vars) /\ [Printed!Next]_(Printed!vars)
  BY <1>7, CallMoves, KeepsBoth DEF input_getc, Threads
<1>8. CASE \E t \in Threads : Runs(t)
  BY <1>8, RunsMoves, KeepsBoth
<1>9. ASSUME NEW b \in Keys, keyboard_interrupt(b)
      PROVE  RingInv' /\ [Typed!Next]_(Typed!vars) /\ [Printed!Next]_(Printed!vars)
  <2>1. input_putc(b) /\ byte' = byte /\ power' = power /\ rbr' = rbr
    BY <1>9 DEF keyboard_interrupt
  <2> QED
    BY <2>1, InputMoves, KeepsBoth DEF RingInv, Rings
<1>10. ASSUME NEW b \in Keys, Arrives(b)
       PROVE  RingInv' /\ [Typed!Next]_(Typed!vars) /\ [Printed!Next]_(Printed!vars)
  <2>1. UNCHANGED <<buf, head, tail, taken, pc, byte, power>> /\ rbr' = b
    BY <1>10 DEF Arrives, queue
  <2>2. Keeps
    BY <1>1, <2>1, Still DEF Keeps, RingInv, Rings, HasByte
  <2> QED
    BY <2>2, KeepsBoth
<1>11. CASE \E b \in Characters : PutcPolled(b)
  BY <1>11, PolledKeepsRings, KeepsBoth
<1> QED
  BY <1>2, <1>3, <1>4, <1>5, <1>6, <1>7, <1>8, <1>9, <1>10, <1>11 DEF Next

LEMMA InitRings == Init => RingInv /\ Typed!Init /\ Printed!Init
<1> SUFFICES ASSUME Init PROVE RingInv /\ Typed!Init /\ Printed!Init
  OBVIOUS
<1>1. Rings /\ HasByte
  BY DEF Init, Rings, HasByte, Positions, Symbols, Threads
<1>2. \A q \in Queues : Contents(q) = <<>>
  <2> SUFFICES ASSUME NEW q \in Queues PROVE Contents(q) = <<>>
    OBVIOUS
  <2>1. PICK h \in Positions, r \in [Positions -> Symbols] :
          h = head[q] /\ h = tail[q] /\ r = buf[q]
    BY <1>1 DEF Init, Rings
  <2>2. Ring(h, h, r) = <<>>
    BY RingEmptyFull
  <2> QED
    BY <2>1, <2>2, ContentsIs
<1> QED
  BY <1>1, <1>2 DEF RingInv, Queues, Init, Typed!Init, Printed!Init

(***************************************************************************)
(* Keys reach the readers and characters the line in the order they came,  *)
(* none lost or repeated, for rings of any size: both interrupt queues     *)
(* implement BoundedQueue (intq_getc(), intq_putc(), serial_flush() and    *)
(* serial_putc() with interrupts off).                                     *)
(***************************************************************************)
THEOREM BytesStayInOrder == Spec => BytesInOrder
<1>1. Init => ConsoleInv /\ RingInv /\ Typed!Init /\ Printed!Init
  BY InitInv, InitRings
<1>2. ConsoleInv /\ RingInv /\ [Next]_vars =>
        ConsoleInv' /\ RingInv' /\ [Typed!Next]_(Typed!vars) /\ [Printed!Next]_(Printed!vars)
  BY NextKeeps, NextMoves
<1> QED
  BY <1>1, <1>2, PTL DEF Spec, BytesInOrder, KeysInOrder, CharactersInOrder, Typed!Spec, Printed!Spec
=============================================================================
