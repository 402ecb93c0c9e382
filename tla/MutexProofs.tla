----------------------------- MODULE MutexProofs -----------------------------
(***************************************************************************)
(* For every number of threads, priorities and mutexes: a mutex has one    *)
(* owner at a time and loses no waiter, and as long as no thread locks a   *)
(* mutex while it has another, the owner runs at the priority of the       *)
(* highest waiter at least and gets its own priority back.                 *)
(***************************************************************************)
EXTENDS Mutex, SchedulerProofs

VarsOK ==
  /\ lock \in [Mutexes -> [owner : Threads \cup {NoThread}, owner_prio : Prios,
                           waiters : Seq(Threads)]]
  /\ wants \in [Threads -> Mutexes \cup {NoMutex}]
  /\ holds \in [Threads -> SUBSET Mutexes]
  /\ base \in [Threads -> Prios]

(* Thread t has mutex mx: it has the guard, or release() has made it the   *)
(* owner and its lock() has not returned yet.                              *)
Has(t, mx) == mx \in holds[t] \/ (wants[t] = mx /\ k.state[t] = Running)

(* The owner is the one that has the mutex; no owner, no waiters.          *)
OwnersOK ==
  \A mx \in Mutexes :
    /\ \A t \in Threads : Has(t, mx) <=> lock[mx].owner = t
    /\ lock[mx].owner = NoThread => lock[mx].waiters = <<>>

(* The waiters are those that block in lock(), in one list and once.       *)
WaitersOK ==
  /\ \A mx \in Mutexes :
       /\ NoDup(lock[mx].waiters)
       /\ \A t \in Threads :
            In(lock[mx].waiters, t) <=> wants[t] = mx /\ k.state[t] = LockBlocked
  /\ \A t \in Threads :
       /\ k.state[t] = LockBlocked => wants[t] # NoMutex
       /\ k.state[t] \in {Invalid, Parked} => wants[t] = NoMutex /\ holds[t] = {}
       /\ wants[t] \notin holds[t]

MInv == KInv(States, k) /\ VarsOK /\ OwnersOK /\ WaitersOK

-----------------------------------------------------------------------------

(* The thread states are different.                                        *)
LEMMA StatesDiffer ==
  /\ Running # Invalid /\ Running # Parked /\ Running # LockBlocked
  /\ LockBlocked # Invalid /\ LockBlocked # Parked /\ Parked # Invalid
  /\ {Invalid, Running, Parked, LockBlocked} = States
  BY DEF Running, Invalid, Parked, LockBlocked, States

(* Typing, field by field.                                                 *)
LEMMA Fields ==
  ASSUME MInv
  PROVE  /\ k.state \in [Threads -> States]
         /\ k.prio \in [Threads -> Queues]
         /\ lock \in [Mutexes -> [owner : Threads \cup {NoThread}, owner_prio : Queues,
                                  waiters : Seq(Threads)]]
         /\ wants \in [Threads -> Mutexes \cup {NoMutex}]
         /\ holds \in [Threads -> SUBSET Mutexes]
         /\ base \in [Threads -> Queues]
         /\ NoThread \notin Threads
  BY SentinelNotThread DEF MInv, KInv, SchedulerType, VarsOK, Prios, NoThread

(* The thread that runs.                                                   *)
LEMMA RunsFacts ==
  ASSUME MInv, NEW t, Runs(t), t \in Threads
  PROVE  k.cur = t /\ k.cur # NoThread /\ ~k.pend /\ k.state[t] = Running
  <1>1. k.cur = t /\ ~k.pend /\ k.cur # NoThread
    BY Fields DEF Runs
  <1> QED
    BY <1>1, CurrentFacts DEF MInv

(* What the invariant says of mutexes depends on the thread states only    *)
(* through which threads run and which block in lock().                    *)
LEMMA SameMutexes ==
  ASSUME MInv, UNCHANGED <<lock, wants, holds>>, KInv(States, k'), VarsOK',
         \A u \in Threads :
           \/ k'.state[u] = k.state[u]
           \/ /\ wants[u] = NoMutex /\ holds[u] = {}
              /\ k.state[u] # LockBlocked /\ k'.state[u] # LockBlocked
  PROVE  MInv'
  <1>1. \A u \in Threads, mx \in Mutexes : Has(u, mx)' <=> Has(u, mx)
    BY MutexesAssumption DEF Has
  <1>2. OwnersOK'
    BY <1>1 DEF MInv, OwnersOK
  <1>3. WaitersOK'
    <2>1. ASSUME NEW mx \in Mutexes
          PROVE  /\ NoDup(lock'[mx].waiters)
                 /\ \A t \in Threads : In(lock'[mx].waiters, t) <=>
                                         wants'[t] = mx /\ k'.state[t] = LockBlocked
      BY MutexesAssumption DEF MInv, WaitersOK
    <2>2. ASSUME NEW t \in Threads
          PROVE  /\ k'.state[t] = LockBlocked => wants'[t] # NoMutex
                 /\ k'.state[t] \in {Invalid, Parked} => wants'[t] = NoMutex /\ holds'[t] = {}
                 /\ wants'[t] \notin holds'[t]
      BY DEF MInv, WaitersOK
    <2> QED
      BY <2>1, <2>2 DEF WaitersOK
  <1> QED
    BY <1>2, <1>3 DEF MInv

-----------------------------------------------------------------------------
(* What lock() and release() do, field by field.                           *)

(* lock() of a free mutex.                                                 *)
LockFreeEffect(t, mx) ==
  /\ k.state[t] = Running /\ wants[t] = NoMutex
  /\ UNCHANGED <<k, wants, base>>
  /\ lock[mx].owner = NoThread
  /\ lock'[mx].owner = t
  /\ lock'[mx].owner_prio = k.prio[t]
  /\ lock'[mx].waiters = <<>>
  /\ \A m \in Mutexes : m # mx => lock'[m] = lock[m]
  /\ \A u \in Threads : holds'[u] = IF u = t THEN holds[t] \cup {mx} ELSE holds[u]
  /\ VarsOK'

LEMMA LockFreeStep ==
  ASSUME MInv, NEW t \in Threads, NEW mx \in Mutexes, LockFree(t, mx)
  PROVE  LockFreeEffect(t, mx)
  <1>1. k.state[t] = Running /\ wants[t] = NoMutex
    BY RunsFacts DEF LockFree, Calls
  <1>2. lock[mx].owner = NoThread
    BY DEF LockFree, IsLocked
  <1>3. LockedBy(t) \in [owner : Threads \cup {NoThread}, owner_prio : Queues,
                         waiters : Seq(Threads)]
    BY Fields DEF LockedBy
  <1>4. /\ LockedBy(t).owner = t
        /\ LockedBy(t).owner_prio = k.prio[t]
        /\ LockedBy(t).waiters = <<>>
    BY DEF LockedBy
  <1>5. /\ lock' = [lock EXCEPT ![mx] = LockedBy(t)]
        /\ holds' = [holds EXCEPT ![t] = @ \cup {mx}]
        /\ UNCHANGED <<k, wants, base>>
    BY DEF LockFree
  <1>6. /\ lock'[mx] = LockedBy(t)
        /\ \A m \in Mutexes : m # mx => lock'[m] = lock[m]
        /\ \A u \in Threads : holds'[u] = IF u = t THEN holds[t] \cup {mx} ELSE holds[u]
    BY <1>5, Fields
  <1>7. VarsOK'
    BY <1>3, <1>5, Fields DEF VarsOK, Prios
  <1> QED
    BY <1>1, <1>2, <1>4, <1>5, <1>6, <1>7 DEF LockFreeEffect

(* lock() of a mutex that another thread has: the caller blocks and enters *)
(* the list, and the owner may get the caller's priority.                  *)
LockBlockEffect(t, mx) ==
  LET l == lock[mx]
      raise == BecomesHead(k, l.waiters) /\ k.prio[t] > l.owner_prio
  IN  /\ k.cur = t /\ k.state[t] = Running /\ wants[t] = NoMutex
      /\ mx \notin holds[t]
      /\ l.owner \in Threads /\ l.owner # t
      /\ ~In(l.waiters, t)
      /\ KInv(States, k')
      /\ k'.state = [k.state EXCEPT ![t] = LockBlocked]
      /\ k'.prio = IF raise THEN [k.prio EXCEPT ![l.owner] = k.prio[t]] ELSE k.prio
      /\ lock'[mx].owner = l.owner
      /\ lock'[mx].owner_prio = l.owner_prio
      /\ lock'[mx].waiters = WithCurrent(k, l.waiters)
      /\ \A m \in Mutexes : m # mx => lock'[m] = lock[m]
      /\ \A u \in Threads : wants'[u] = IF u = t THEN mx ELSE wants[u]
      /\ UNCHANGED <<holds, base>>
      /\ VarsOK'

LEMMA LockBlockStep ==
  ASSUME MInv, NEW t \in Threads, NEW mx \in Mutexes, LockBlock(t, mx)
  PROVE  LockBlockEffect(t, mx)
  <1> DEFINE l == lock[mx]
             raise == BecomesHead(k, l.waiters) /\ k.prio[t] > l.owner_prio
             kb == Block(k, LockBlocked)
  <1>1. /\ k.cur = t /\ k.cur # NoThread /\ ~k.pend
        /\ k.state[t] = Running /\ wants[t] = NoMutex /\ mx \notin holds[t]
    BY RunsFacts DEF LockBlock, Calls
  <1>2. l.owner \in Threads /\ l.owner # t /\ l.waiters \in Seq(Threads)
    <2>1. l.owner # NoThread /\ l.owner \in Threads \cup {NoThread} /\ l.waiters \in Seq(Threads)
      BY Fields DEF LockBlock, IsLocked
    <2>2. ~Has(t, mx)
      BY <1>1, MutexesAssumption DEF Has
    <2> QED
      BY <2>1, <2>2 DEF MInv, OwnersOK
  <1>3. ~In(l.waiters, t)
    BY <1>1, StatesDiffer DEF MInv, WaitersOK
  <1>4. /\ KInv(States, kb)
        /\ kb.state = [k.state EXCEPT ![t] = LockBlocked]
        /\ kb.prio = k.prio
    <2>1. LockBlocked \in States /\ LockBlocked # Running
      BY StatesDiffer
    <2>2. KInv(States, k)
      BY DEF MInv
    <2> QED
      BY <1>1, <2>1, <2>2, StopStep DEF Block
  <1>5. k' = IF raise THEN SetPriority(kb, l.owner, k.prio[t]) ELSE kb
    BY DEF LockBlock, Inherit
  <1> HIDE DEF kb, raise
  <1>6. /\ KInv(States, k')
        /\ k'.state = [k.state EXCEPT ![t] = LockBlocked]
        /\ k'.prio = IF raise THEN [k.prio EXCEPT ![l.owner] = k.prio[t]] ELSE k.prio
    <2>1. CASE raise
      <3> DEFINE o == l.owner
                 p == k.prio[t]
      <3>1. o \in Threads /\ p \in Queues
        BY <1>2, Fields
      <3>2. IsValid(kb, o)
        <4>1. Has(o, mx)
          BY <1>2 DEF MInv, OwnersOK
        <4>2. k.state[o] \in {Running, LockBlocked}
          BY <1>2, <4>1, Fields, StatesDiffer DEF Has, MInv, WaitersOK
        <4> QED
          BY <1>2, <1>4, <4>2, Fields, StatesDiffer DEF IsValid
      <3>3. k' = SetPriority(kb, o, p)
        BY <1>5, <2>1
      <3> HIDE DEF o, p
      <3>4. /\ KInv(States, k')
            /\ k'.state = kb.state
            /\ k'.prio = [kb.prio EXCEPT ![o] = p]
        BY <1>4, <3>1, <3>2, <3>3, SetPriorityStep
      <3> QED
        BY <1>4, <2>1, <3>4 DEF o, p
    <2>2. CASE ~raise
      BY <1>4, <1>5, <2>2
    <2> QED
      BY <2>1, <2>2
  <1>7. WithCurrent(k, l.waiters) \in Seq(Threads)
    BY <1>1, <1>2, Fields, InsertFacts
  <1>8. /\ lock' = [lock EXCEPT ![mx].waiters = WithCurrent(k, l.waiters)]
        /\ wants' = [wants EXCEPT ![t] = mx]
        /\ UNCHANGED <<holds, base>>
    BY DEF LockBlock
  <1>9. /\ lock'[mx].owner = l.owner
        /\ lock'[mx].owner_prio = l.owner_prio
        /\ lock'[mx].waiters = WithCurrent(k, l.waiters)
        /\ \A m \in Mutexes : m # mx => lock'[m] = lock[m]
        /\ \A u \in Threads : wants'[u] = IF u = t THEN mx ELSE wants[u]
    BY <1>8, Fields
  <1>10. VarsOK'
    BY <1>7, <1>8, Fields DEF VarsOK, Prios
  <1> QED
    BY <1>1, <1>2, <1>3, <1>6, <1>8, <1>9, <1>10 DEF raise, LockBlockEffect

(* What release() does in any case: the owner gets the priority back that  *)
(* it had when it became the owner.                                        *)
ReleaseEffect(t, mx) ==
  /\ k.state[t] = Running /\ wants[t] = NoMutex
  /\ mx \in holds[t] /\ lock[mx].owner = t
  /\ lock[mx].waiters \in Seq(Threads) /\ NoDup(lock[mx].waiters)
  /\ KInv(States, SetPriority(k, t, lock[mx].owner_prio))
  /\ SetPriority(k, t, lock[mx].owner_prio).state = k.state
  /\ SetPriority(k, t, lock[mx].owner_prio).prio =
       [k.prio EXCEPT ![t] = lock[mx].owner_prio]
  /\ \A m \in Mutexes : m # mx => lock'[m] = lock[m]
  /\ \A u \in Threads : holds'[u] = IF u = t THEN holds[t] \ {mx} ELSE holds[u]
  /\ lock'[mx] = HandOver(lock[mx], k')
  /\ UNCHANGED <<wants, base>>

LEMMA ReleaseStep ==
  ASSUME MInv, NEW t \in Threads, NEW mx \in Mutexes, Release(t, mx)
  PROVE  ReleaseEffect(t, mx)
  <1> DEFINE l == lock[mx]
             k1 == SetPriority(k, t, l.owner_prio)
  <1>1. k.state[t] = Running /\ wants[t] = NoMutex /\ mx \in holds[t]
    BY RunsFacts DEF Release, Calls
  <1>2. /\ l.owner = t
        /\ l.owner_prio \in Queues
        /\ l.waiters \in Seq(Threads)
        /\ NoDup(l.waiters)
    BY <1>1, Fields DEF MInv, OwnersOK, WaitersOK, Has
  <1>3. /\ lock' = [lock EXCEPT ![mx] = HandOver(l, k')]
        /\ holds' = [holds EXCEPT ![t] = @ \ {mx}]
        /\ UNCHANGED <<wants, base>>
    BY DEF Release
  <1> HIDE DEF l
  <1>4. /\ KInv(States, k1)
        /\ k1.state = k.state
        /\ k1.prio = [k.prio EXCEPT ![t] = l.owner_prio]
    <2>1. IsValid(k, t)
      BY <1>1, StatesDiffer DEF IsValid
    <2>2. KInv(States, k)
      BY DEF MInv
    <2> QED
      BY <1>2, <2>1, <2>2, SetPriorityStep
  <1>5. /\ lock'[mx] = HandOver(l, k')
        /\ \A m \in Mutexes : m # mx => lock'[m] = lock[m]
        /\ \A u \in Threads : holds'[u] = IF u = t THEN holds[t] \ {mx} ELSE holds[u]
    BY <1>3, Fields
  <1> QED
    BY <1>1, <1>2, <1>3, <1>4, <1>5 DEF l, ReleaseEffect

(* A mutex that nobody waits for becomes free.                             *)
ReleaseLastEffect(t, mx) ==
  /\ KInv(States, k') /\ VarsOK'
  /\ k'.state = k.state
  /\ k'.prio = [k.prio EXCEPT ![t] = lock[mx].owner_prio]
  /\ lock'[mx].owner = NoThread
  /\ lock'[mx].waiters = <<>>

LEMMA ReleaseLast ==
  ASSUME MInv, NEW t \in Threads, NEW mx \in Mutexes, Release(t, mx),
         lock[mx].waiters = <<>>
  PROVE  ReleaseLastEffect(t, mx)
  <1>0. ReleaseEffect(t, mx)
    BY ReleaseStep
  <1>1. lock[mx].owner = t /\ lock'[mx] = HandOver(lock[mx], k')
    BY <1>0 DEF ReleaseEffect
  <1>2. k' = SetPriority(k, t, lock[mx].owner_prio)
    BY <1>1 DEF Release
  <1>3. /\ KInv(States, k')
        /\ k'.state = k.state
        /\ k'.prio = [k.prio EXCEPT ![t] = lock[mx].owner_prio]
    BY <1>2, <1>0 DEF ReleaseEffect
  <1>4. HandOver(lock[mx], k') = Unlocked
    BY DEF HandOver
  <1>5. Unlocked \in [owner : Threads \cup {NoThread}, owner_prio : Queues,
                      waiters : Seq(Threads)]
    BY SizeAssumption DEF Unlocked, Queues
  <1>6. VarsOK'
    BY <1>4, <1>5, Fields DEF Release, VarsOK, Prios
  <1>7. lock'[mx].owner = NoThread /\ lock'[mx].waiters = <<>>
    BY <1>1, <1>4 DEF Unlocked
  <1> QED
    BY <1>3, <1>6, <1>7 DEF ReleaseLastEffect

(* A mutex with waiters goes to the first of them.                         *)
ReleaseHandsEffect(t, mx, h) ==
  /\ KInv(States, k') /\ VarsOK'
  /\ h \in Threads /\ h # t /\ wants[h] = mx /\ k.state[h] = LockBlocked
  /\ k'.state = [k.state EXCEPT ![h] = Running]
  /\ k'.prio = [k.prio EXCEPT ![t] = lock[mx].owner_prio]
  /\ lock'[mx].owner = h
  /\ lock'[mx].owner_prio = k.prio[h]
  /\ lock'[mx].waiters = Tail(lock[mx].waiters)

LEMMA ReleaseHands ==
  ASSUME MInv, NEW t \in Threads, NEW mx \in Mutexes, Release(t, mx),
         lock[mx].waiters # <<>>,
         NEW h, h = Head(lock[mx].waiters)
  PROVE  ReleaseHandsEffect(t, mx, h)
  <1> DEFINE l == lock[mx]
             k1 == SetPriority(k, t, l.owner_prio)
  <1>0. ReleaseEffect(t, mx)
    BY ReleaseStep
  <1>1. /\ l.waiters \in Seq(Threads) /\ NoDup(l.waiters)
        /\ lock'[mx] = HandOver(l, k')
        /\ l.owner = t /\ k.state[t] = Running
    BY <1>0 DEF ReleaseEffect
  <1>2. /\ KInv(States, k1)
        /\ k1.state = k.state
        /\ k1.prio = [k.prio EXCEPT ![t] = l.owner_prio]
    BY <1>0 DEF ReleaseEffect
  <1>3. k' = WakeHead(k1, l.waiters)
    BY <1>1 DEF Release
  <1> HIDE DEF k1
  <1>4. l.waiters # <<>> /\ h = Head(l.waiters) /\ l.owner_prio \in Queues
    BY Fields
  <1>5. lock' = [lock EXCEPT ![mx] = HandOver(l, k')] /\ wants' = wants /\ base' = base
    BY DEF Release
  <1>6. holds' = [holds EXCEPT ![t] = @ \ {mx}]
    BY DEF Release
  <1>7. \A u \in Threads : In(l.waiters, u) <=> wants[u] = mx /\ k.state[u] = LockBlocked
    BY DEF MInv, WaitersOK
  <1> HIDE DEF l
  <1>8. h \in Threads /\ In(l.waiters, h) /\ Tail(l.waiters) \in Seq(Threads)
    BY <1>1, <1>4, PopListFacts
  <1>9. wants[h] = mx /\ k.state[h] = LockBlocked /\ h # t
    BY <1>1, <1>7, <1>8, StatesDiffer
  <1>10. k' = SetState(k1, h, Running)
    BY <1>3, <1>4 DEF WakeHead
  <1>11. Running \in States /\ k1.state[h] # Running
    BY <1>2, <1>9, StatesDiffer
  <1>12. /\ KInv(States, k')
         /\ k'.state = [k1.state EXCEPT ![h] = Running]
         /\ k'.prio = k1.prio
    <2>1. KInv(States, k1) /\ h \in Threads /\ Running \in States /\ k1.state[h] # Running
      BY <1>2, <1>8, <1>11
    <2>2. ASSUME NEW j, KInv(States, j), NEW u \in Threads, Running \in States, j.state[u] # Running
          PROVE  /\ KInv(States, SetState(j, u, Running))
                 /\ SetState(j, u, Running).state = [j.state EXCEPT ![u] = Running]
                 /\ SetState(j, u, Running).prio = j.prio
      BY <2>2, WakeStep
    <2>3. /\ KInv(States, SetState(k1, h, Running))
          /\ SetState(k1, h, Running).state = [k1.state EXCEPT ![h] = Running]
          /\ SetState(k1, h, Running).prio = k1.prio
      BY <2>1, <2>2
    <2> QED
      BY <1>10, <2>3
  <1>13. k'.prio[h] = k.prio[h] /\ k'.prio[h] \in Queues
    BY <1>2, <1>4, <1>8, <1>9, <1>12, Fields
  <1>14. HandOver(l, k') = [owner |-> h, owner_prio |-> k'.prio[h], waiters |-> Tail(l.waiters)]
    BY <1>4 DEF HandOver
  <1>15. /\ lock'[mx].owner = h
         /\ lock'[mx].owner_prio = k.prio[h]
         /\ lock'[mx].waiters = Tail(l.waiters)
    BY <1>1, <1>13, <1>14
  <1>16. VarsOK'
    <2>1. HandOver(l, k') \in [owner : Threads \cup {NoThread}, owner_prio : Queues,
                               waiters : Seq(Threads)]
      BY <1>8, <1>13, <1>14
    <2> QED
      BY <1>5, <1>6, <2>1, Fields DEF VarsOK, Prios
  <1> QED
    BY <1>2, <1>8, <1>9, <1>12, <1>15, <1>16 DEF l, ReleaseHandsEffect

-----------------------------------------------------------------------------
(* Every action preserves MInv.                                            *)

(* The next states of the owners and of the lists, mutex by mutex.         *)
LEMMA MInvByMutex ==
  ASSUME KInv(States, k'), VarsOK',
         \A mx \in Mutexes, t \in Threads :
           /\ Has(t, mx)' <=> lock'[mx].owner = t
           /\ In(lock'[mx].waiters, t) <=> wants'[t] = mx /\ k'.state[t] = LockBlocked,
         \A mx \in Mutexes :
           /\ lock'[mx].owner = NoThread => lock'[mx].waiters = <<>>
           /\ NoDup(lock'[mx].waiters),
         \A t \in Threads :
           /\ k'.state[t] = LockBlocked => wants'[t] # NoMutex
           /\ k'.state[t] \in {Invalid, Parked} => wants'[t] = NoMutex /\ holds'[t] = {}
           /\ wants'[t] \notin holds'[t]
  PROVE  MInv'
  BY DEF MInv, OwnersOK, WaitersOK

(* lock() of a free mutex.                                                 *)
LEMMA LockFreeKeeps ==
  ASSUME MInv, NEW t \in Threads, NEW mx \in Mutexes, LockFree(t, mx)
  PROVE  MInv'
  <1>0. LockFreeEffect(t, mx)
    BY LockFreeStep
  <1>1. k'.state = k.state /\ wants' = wants /\ k.state[t] = Running /\ wants[t] = NoMutex
    BY <1>0 DEF LockFreeEffect
  <1>2. /\ lock[mx].owner = NoThread
        /\ lock[mx].waiters = <<>>
        /\ lock'[mx].owner = t
        /\ lock'[mx].waiters = <<>>
        /\ \A m \in Mutexes : m # mx => lock'[m] = lock[m]
    <2>1. lock[mx].owner = NoThread /\ lock'[mx].owner = t /\ lock'[mx].waiters = <<>>
      BY <1>0 DEF LockFreeEffect
    <2>2. \A m \in Mutexes : m # mx => lock'[m] = lock[m]
      BY <1>0 DEF LockFreeEffect
    <2>3. lock[mx].waiters = <<>>
      BY <2>1 DEF MInv, OwnersOK
    <2> QED
      BY <2>1, <2>2, <2>3
  <1>3. \A u \in Threads : holds'[u] = IF u = t THEN holds[t] \cup {mx} ELSE holds[u]
    BY <1>0 DEF LockFreeEffect
  <1>4. ASSUME NEW m \in Mutexes, NEW u \in Threads
        PROVE  /\ Has(u, m)' <=> lock'[m].owner = u
               /\ In(lock'[m].waiters, u) <=> wants'[u] = m /\ k'.state[u] = LockBlocked
    <2>1. /\ Has(u, m) <=> lock[m].owner = u
          /\ In(lock[m].waiters, u) <=> wants[u] = m /\ k.state[u] = LockBlocked
      BY DEF MInv, OwnersOK, WaitersOK
    <2>2. Has(u, m)' <=> Has(u, m) \/ (u = t /\ m = mx)
      BY <1>1, <1>3 DEF Has
    <2>3. u # NoThread
      BY Fields
    <2> QED
      BY <1>1, <1>2, <2>1, <2>2, <2>3
  <1>5. ASSUME NEW m \in Mutexes
        PROVE  /\ lock'[m].owner = NoThread => lock'[m].waiters = <<>>
               /\ NoDup(lock'[m].waiters)
    <2>1. /\ lock[m].owner = NoThread => lock[m].waiters = <<>>
          /\ NoDup(lock[m].waiters)
      BY DEF MInv, OwnersOK, WaitersOK
    <2> QED
      BY <1>2, <2>1
  <1>6. ASSUME NEW u \in Threads
        PROVE  /\ k'.state[u] = LockBlocked => wants'[u] # NoMutex
               /\ k'.state[u] \in {Invalid, Parked} => wants'[u] = NoMutex /\ holds'[u] = {}
               /\ wants'[u] \notin holds'[u]
    <2>1. /\ k.state[u] = LockBlocked => wants[u] # NoMutex
          /\ k.state[u] \in {Invalid, Parked} => wants[u] = NoMutex /\ holds[u] = {}
          /\ wants[u] \notin holds[u]
      BY DEF MInv, WaitersOK
    <2> QED
      BY <1>1, <1>3, <2>1, StatesDiffer, MutexesAssumption
  <1>7. KInv(States, k') /\ VarsOK'
    BY <1>0 DEF MInv, LockFreeEffect
  <1> QED
    BY <1>4, <1>5, <1>6, <1>7, MInvByMutex

(* lock() of a mutex that another thread has.                              *)
LEMMA LockBlockKeeps ==
  ASSUME MInv, NEW t \in Threads, NEW mx \in Mutexes, LockBlock(t, mx)
  PROVE  MInv'
  <1> DEFINE w == lock[mx].waiters
  <1>0. LockBlockEffect(t, mx)
    BY LockBlockStep
  <1>1. /\ k.cur = t /\ k.state[t] = Running /\ wants[t] = NoMutex /\ mx \notin holds[t]
        /\ ~In(w, t)
    BY <1>0 DEF LockBlockEffect
  <1>2. \A u \in Threads : k'.state[u] = IF u = t THEN LockBlocked ELSE k.state[u]
    <2>1. k'.state = [k.state EXCEPT ![t] = LockBlocked]
      BY <1>0 DEF LockBlockEffect
    <2> QED
      BY <2>1, Fields
  <1>3. /\ \A u \in Threads : wants'[u] = IF u = t THEN mx ELSE wants[u]
        /\ holds' = holds
    BY <1>0 DEF LockBlockEffect
  <1>4. /\ lock'[mx].waiters = WithCurrent(k, w)
        /\ \A m \in Mutexes : m # mx => lock'[m] = lock[m]
        /\ \A m \in Mutexes : lock'[m].owner = lock[m].owner
        /\ lock[mx].owner # NoThread
    <2>1. lock'[mx].waiters = WithCurrent(k, w) /\ lock'[mx].owner = lock[mx].owner
      BY <1>0 DEF LockBlockEffect
    <2>2. \A m \in Mutexes : m # mx => lock'[m] = lock[m]
      BY <1>0 DEF LockBlockEffect
    <2>3. lock[mx].owner \in Threads
      BY <1>0 DEF LockBlockEffect
    <2> QED
      BY <2>1, <2>2, <2>3, Fields
  <1>5. /\ NoDup(lock'[mx].waiters)
        /\ \A u : In(lock'[mx].waiters, u) <=> In(w, u) \/ u = t
    <2>1. w \in Seq(Threads) /\ NoDup(w) /\ k.prio \in [Threads -> Queues]
      BY Fields DEF MInv, WaitersOK
    <2> HIDE DEF w
    <2> QED
      BY <1>1, <1>4, <2>1, InsertFacts, InsertKeeps
  <1>6. ASSUME NEW m \in Mutexes, NEW u \in Threads
        PROVE  /\ Has(u, m)' <=> lock'[m].owner = u
               /\ In(lock'[m].waiters, u) <=> wants'[u] = m /\ k'.state[u] = LockBlocked
    <2>1. /\ Has(u, m) <=> lock[m].owner = u
          /\ In(lock[m].waiters, u) <=> wants[u] = m /\ k.state[u] = LockBlocked
      BY DEF MInv, OwnersOK, WaitersOK
    <2>2. Has(u, m)' <=> Has(u, m)
      BY <1>1, <1>2, <1>3, StatesDiffer, MutexesAssumption DEF Has
    <2>3. In(lock'[m].waiters, u) <=> wants'[u] = m /\ k'.state[u] = LockBlocked
      <3>1. CASE m = mx
        BY <1>1, <1>2, <1>3, <1>5, <2>1, <3>1
      <3>2. CASE m # mx
        BY <1>1, <1>2, <1>3, <1>4, <2>1, <3>2, StatesDiffer
      <3> QED
        BY <3>1, <3>2
    <2> QED
      BY <1>4, <2>1, <2>2, <2>3
  <1>7. ASSUME NEW m \in Mutexes
        PROVE  /\ lock'[m].owner = NoThread => lock'[m].waiters = <<>>
               /\ NoDup(lock'[m].waiters)
    <2>1. /\ lock[m].owner = NoThread => lock[m].waiters = <<>>
          /\ NoDup(lock[m].waiters)
      BY DEF MInv, OwnersOK, WaitersOK
    <2> QED
      BY <1>4, <1>5, <2>1
  <1>8. ASSUME NEW u \in Threads
        PROVE  /\ k'.state[u] = LockBlocked => wants'[u] # NoMutex
               /\ k'.state[u] \in {Invalid, Parked} => wants'[u] = NoMutex /\ holds'[u] = {}
               /\ wants'[u] \notin holds'[u]
    <2>1. /\ k.state[u] = LockBlocked => wants[u] # NoMutex
          /\ k.state[u] \in {Invalid, Parked} => wants[u] = NoMutex /\ holds[u] = {}
          /\ wants[u] \notin holds[u]
      BY DEF MInv, WaitersOK
    <2> QED
      BY <1>1, <1>2, <1>3, <2>1, StatesDiffer, MutexesAssumption
  <1>9. KInv(States, k') /\ VarsOK'
    BY <1>0 DEF LockBlockEffect
  <1> QED
    BY <1>6, <1>7, <1>8, <1>9, MInvByMutex

(* The rest of a lock() that blocked.                                      *)
LEMMA LockReturnKeeps ==
  ASSUME MInv, NEW t \in Threads, LockReturn(t)
  PROVE  MInv'
  <1>1. k.state[t] = Running /\ wants[t] # NoMutex /\ wants[t] \in Mutexes
    BY RunsFacts, Fields DEF LockReturn
  <1>2. /\ UNCHANGED <<k, lock, base>>
        /\ \A u \in Threads : holds'[u] = IF u = t THEN holds[t] \cup {wants[t]} ELSE holds[u]
        /\ \A u \in Threads : wants'[u] = IF u = t THEN NoMutex ELSE wants[u]
    BY Fields DEF LockReturn
  <1>3. KInv(States, k') /\ VarsOK'
    BY <1>1, <1>2, Fields DEF LockReturn, MInv, VarsOK, Prios
  <1>4. ASSUME NEW m \in Mutexes, NEW u \in Threads
        PROVE  /\ Has(u, m)' <=> lock'[m].owner = u
               /\ In(lock'[m].waiters, u) <=> wants'[u] = m /\ k'.state[u] = LockBlocked
    <2>1. /\ Has(u, m) <=> lock[m].owner = u
          /\ In(lock[m].waiters, u) <=> wants[u] = m /\ k.state[u] = LockBlocked
      BY DEF MInv, OwnersOK, WaitersOK
    <2>2. Has(u, m)' <=> Has(u, m)
      BY <1>1, <1>2, MutexesAssumption DEF Has
    <2> QED
      BY <1>1, <1>2, <2>1, <2>2, StatesDiffer, MutexesAssumption
  <1>5. ASSUME NEW m \in Mutexes
        PROVE  /\ lock'[m].owner = NoThread => lock'[m].waiters = <<>>
               /\ NoDup(lock'[m].waiters)
    BY <1>2 DEF MInv, OwnersOK, WaitersOK
  <1>6. ASSUME NEW u \in Threads
        PROVE  /\ k'.state[u] = LockBlocked => wants'[u] # NoMutex
               /\ k'.state[u] \in {Invalid, Parked} => wants'[u] = NoMutex /\ holds'[u] = {}
               /\ wants'[u] \notin holds'[u]
    <2>1. /\ k.state[u] = LockBlocked => wants[u] # NoMutex
          /\ k.state[u] \in {Invalid, Parked} => wants[u] = NoMutex /\ holds[u] = {}
          /\ wants[u] \notin holds[u]
          /\ NoMutex \notin holds[u]
      BY Fields, MutexesAssumption DEF MInv, WaitersOK
    <2> QED
      BY <1>1, <1>2, <2>1, StatesDiffer
  <1> QED
    BY <1>3, <1>4, <1>5, <1>6, MInvByMutex

(* release().                                                              *)
LEMMA ReleaseKeeps ==
  ASSUME MInv, NEW t \in Threads, NEW mx \in Mutexes, Release(t, mx)
  PROVE  MInv'
  <1> DEFINE w == lock[mx].waiters
             h == Head(w)
  <1>0. ReleaseEffect(t, mx)
    BY ReleaseStep
  <1>1. k.state[t] = Running /\ wants[t] = NoMutex /\ mx \in holds[t] /\ lock[mx].owner = t
    BY <1>0 DEF ReleaseEffect
  <1>2. /\ UNCHANGED wants
        /\ \A u \in Threads : holds'[u] = IF u = t THEN holds[t] \ {mx} ELSE holds[u]
        /\ \A m \in Mutexes : m # mx => lock'[m] = lock[m]
    <2>1. UNCHANGED wants
      BY <1>0 DEF ReleaseEffect
    <2>2. \A u \in Threads : holds'[u] = IF u = t THEN holds[t] \ {mx} ELSE holds[u]
      BY <1>0 DEF ReleaseEffect
    <2>3. \A m \in Mutexes : m # mx => lock'[m] = lock[m]
      BY <1>0 DEF ReleaseEffect
    <2> QED
      BY <2>1, <2>2, <2>3
  <1>3. ASSUME NEW m \in Mutexes, NEW u \in Threads
        PROVE  /\ Has(u, m) <=> lock[m].owner = u
               /\ In(lock[m].waiters, u) <=> wants[u] = m /\ k.state[u] = LockBlocked
    BY DEF MInv, OwnersOK, WaitersOK
  <1>4. ASSUME NEW m \in Mutexes
        PROVE  /\ lock[m].owner = NoThread => lock[m].waiters = <<>>
               /\ NoDup(lock[m].waiters)
    BY DEF MInv, OwnersOK, WaitersOK
  <1>5. ASSUME NEW u \in Threads
        PROVE  /\ k.state[u] = LockBlocked => wants[u] # NoMutex
               /\ k.state[u] \in {Invalid, Parked} => wants[u] = NoMutex /\ holds[u] = {}
               /\ wants[u] \notin holds[u]
    BY DEF MInv, WaitersOK
  <1>6. w \in Seq(Threads)
    BY Fields
  <1>8. CASE w = <<>>
    <2>0. ReleaseLastEffect(t, mx)
      BY <1>8, ReleaseLast
    <2>1. /\ k'.state = k.state
          /\ lock'[mx].owner = NoThread
          /\ lock'[mx].waiters = <<>>
      BY <2>0 DEF ReleaseLastEffect
    <2>2. ASSUME NEW m \in Mutexes, NEW u \in Threads
          PROVE  /\ Has(u, m)' <=> lock'[m].owner = u
                 /\ In(lock'[m].waiters, u) <=> wants'[u] = m /\ k'.state[u] = LockBlocked
      <3>1. CASE m = mx
        <4>1. ~Has(u, mx)'
          <5>1. u # t => ~Has(u, mx)
            BY <1>1, <1>3
          <5> QED
            BY <1>1, <1>2, <2>1, <5>1, MutexesAssumption DEF Has
        <4> QED
          BY <1>2, <1>3, <1>8, <2>1, <3>1, <4>1, Fields
      <3>2. CASE m # mx
        <4>1. Has(u, m)' <=> Has(u, m)
          BY <1>2, <2>1, <3>2 DEF Has
        <4> QED
          BY <1>2, <1>3, <2>1, <3>2, <4>1
      <3> QED
        BY <3>1, <3>2
    <2>3. ASSUME NEW m \in Mutexes
          PROVE  /\ lock'[m].owner = NoThread => lock'[m].waiters = <<>>
                 /\ NoDup(lock'[m].waiters)
      BY <1>2, <1>4, <1>8, <2>1
    <2>4. ASSUME NEW u \in Threads
          PROVE  /\ k'.state[u] = LockBlocked => wants'[u] # NoMutex
                 /\ k'.state[u] \in {Invalid, Parked} => wants'[u] = NoMutex /\ holds'[u] = {}
                 /\ wants'[u] \notin holds'[u]
      BY <1>1, <1>2, <1>5, <2>1
    <2>5. KInv(States, k') /\ VarsOK'
      BY <2>0 DEF ReleaseLastEffect
    <2> QED
      BY <2>5, <2>2, <2>3, <2>4, MInvByMutex
  <1>9. CASE w # <<>>
    <2>0. ReleaseHandsEffect(t, mx, h)
      BY <1>9, ReleaseHands
    <2>1. /\ h \in Threads /\ h # t /\ wants[h] = mx /\ k.state[h] = LockBlocked
          /\ k'.state = [k.state EXCEPT ![h] = Running]
          /\ lock'[mx].owner = h
          /\ lock'[mx].waiters = Tail(w)
      BY <2>0 DEF ReleaseHandsEffect
    <2>2. /\ NoDup(Tail(w))
          /\ \A u : In(Tail(w), u) <=> In(w, u) /\ u # h
      BY <1>4, <1>6, <1>9, PopListFacts
    <2> HIDE DEF h, w
    <2>3. \A u \in Threads : k'.state[u] = IF u = h THEN Running ELSE k.state[u]
      BY <2>1, Fields
    <2>4. ASSUME NEW m \in Mutexes, NEW u \in Threads
          PROVE  /\ Has(u, m)' <=> lock'[m].owner = u
                 /\ In(lock'[m].waiters, u) <=> wants'[u] = m /\ k'.state[u] = LockBlocked
      <3>1. CASE m = mx
        <4>1. Has(u, mx)' <=> u = h
          <5>1. u # t => ~Has(u, mx)
            BY <1>1, <1>3
          <5> QED
            BY <1>1, <1>2, <2>1, <2>3, <5>1, MutexesAssumption DEF Has
        <4>2. In(Tail(w), u) <=> wants[u] = mx /\ k'.state[u] = LockBlocked
          BY <1>3, <2>2, <2>3, StatesDiffer DEF w
        <4> QED
          BY <1>2, <2>1, <3>1, <4>1, <4>2
      <3>2. CASE m # mx
        <4>1. Has(u, m)' <=> Has(u, m)
          BY <1>2, <2>1, <2>3, <3>2, StatesDiffer DEF Has
        <4>2. k'.state[u] = LockBlocked /\ wants[u] = m <=> k.state[u] = LockBlocked /\ wants[u] = m
          BY <2>1, <2>3, <3>2, StatesDiffer
        <4> QED
          BY <1>2, <1>3, <3>2, <4>1, <4>2
      <3> QED
        BY <3>1, <3>2
    <2>5. ASSUME NEW m \in Mutexes
          PROVE  /\ lock'[m].owner = NoThread => lock'[m].waiters = <<>>
                 /\ NoDup(lock'[m].waiters)
      <3>1. h # NoThread
        BY <2>1, Fields
      <3> QED
        BY <1>2, <1>4, <2>1, <2>2, <3>1
    <2>6. ASSUME NEW u \in Threads
          PROVE  /\ k'.state[u] = LockBlocked => wants'[u] # NoMutex
                 /\ k'.state[u] \in {Invalid, Parked} => wants'[u] = NoMutex /\ holds'[u] = {}
                 /\ wants'[u] \notin holds'[u]
      BY <1>1, <1>2, <1>5, <2>1, <2>3, StatesDiffer
    <2>7. KInv(States, k') /\ VarsOK'
      BY <2>0 DEF ReleaseHandsEffect
    <2> QED
      BY <2>4, <2>5, <2>6, <2>7, MInvByMutex
  <1> QED
    BY <1>8, <1>9

(* The actions without a mutex: they move a thread that has none and waits *)
(* for none, or set the priority of one.                                   *)
Elsewhere ==
  /\ UNCHANGED <<lock, wants, holds>>
  /\ KInv(States, k')
  /\ VarsOK'
  /\ \A u \in Threads :
       \/ k'.state[u] = k.state[u]
       \/ /\ wants[u] = NoMutex /\ holds[u] = {}
          /\ k.state[u] # LockBlocked /\ k'.state[u] # LockBlocked
  /\ \/ k'.prio = k.prio /\ base' = base
     \/ \E t \in Threads, p \in Queues :
          /\ wants[t] = NoMutex /\ holds[t] = {}
          /\ k'.prio = [k.prio EXCEPT ![t] = p]
          /\ base' = [base EXCEPT ![t] = p]

LEMMA StartThreadingElsewhere ==
  ASSUME MInv, StartThreading
  PROVE  Elsewhere
  <1>1. k' = Schedule(k) /\ UNCHANGED <<lock, wants, holds, base>>
    BY DEF StartThreading
  <1>2. KInv(States, k') /\ k'.state = k.state /\ k'.prio = k.prio
    BY <1>1, ScheduleStep DEF MInv
  <1>3. VarsOK'
    BY <1>1 DEF MInv, VarsOK
  <1> QED
    BY <1>1, <1>2, <1>3 DEF Elsewhere

LEMMA ContextSwitchElsewhere ==
  ASSUME MInv, ContextSwitch
  PROVE  Elsewhere
  <1>1. k' = Sched(k) /\ UNCHANGED <<lock, wants, holds, base>>
    BY DEF ContextSwitch
  <1>2. KInv(States, k') /\ k'.state = k.state /\ k'.prio = k.prio
    BY <1>1, SchedStep DEF MInv
  <1>3. VarsOK'
    BY <1>1 DEF MInv, VarsOK
  <1> QED
    BY <1>1, <1>2, <1>3 DEF Elsewhere

LEMMA DoParkElsewhere ==
  ASSUME MInv, NEW t \in Threads, DoPark(t)
  PROVE  Elsewhere
  <1>1. k.cur = t /\ k.cur # NoThread /\ ~k.pend /\ k.state[t] = Running
    BY RunsFacts DEF DoPark, Calls
  <1>2. /\ k' = SetState(k, k.cur, Parked)
        /\ wants[t] = NoMutex /\ holds[t] = {}
        /\ UNCHANGED <<lock, wants, holds, base>>
    BY DEF DoPark, Calls, Park
  <1>3. KInv(States, k) /\ Parked \in States /\ Parked # Running
    BY StatesDiffer DEF MInv
  <1>4. KInv(States, k') /\ k'.state = [k.state EXCEPT ![k.cur] = Parked] /\ k'.prio = k.prio
    BY <1>1, <1>2, <1>3, StopStep
  <1>5. VarsOK'
    BY <1>2 DEF MInv, VarsOK
  <1>6. \A u \in Threads : k'.state[u] = IF u = t THEN Parked ELSE k.state[u]
    BY <1>1, <1>4, Fields
  <1> QED
    BY <1>1, <1>2, <1>4, <1>5, <1>6, StatesDiffer DEF Elsewhere

LEMMA DoUnparkElsewhere ==
  ASSUME MInv, NEW t \in Threads, DoUnpark(t)
  PROVE  Elsewhere
  <1>1. /\ k' = SetState(k, t, Running)
        /\ k.state[t] = Parked
        /\ UNCHANGED <<lock, wants, holds, base>>
    BY DEF DoUnpark, Unpark
  <1>2. wants[t] = NoMutex /\ holds[t] = {}
    BY <1>1 DEF MInv, WaitersOK
  <1>3. KInv(States, k) /\ Running \in States /\ k.state[t] # Running
    BY <1>1, StatesDiffer DEF MInv
  <1>4. KInv(States, k') /\ k'.state = [k.state EXCEPT ![t] = Running] /\ k'.prio = k.prio
    BY <1>1, <1>3, WakeStep
  <1>5. VarsOK'
    BY <1>1 DEF MInv, VarsOK
  <1>6. \A u \in Threads : k'.state[u] = IF u = t THEN Running ELSE k.state[u]
    BY <1>4, Fields
  <1> QED
    BY <1>1, <1>2, <1>4, <1>5, <1>6, StatesDiffer DEF Elsewhere

LEMMA DoSetPriorityElsewhere ==
  ASSUME MInv, NEW t \in Threads, NEW p \in Prios, DoSetPriority(t, p)
  PROVE  Elsewhere
  <1>1. /\ k' = SetPriority(k, t, p)
        /\ IsValid(k, t) /\ wants[t] = NoMutex /\ holds[t] = {}
        /\ base' = [base EXCEPT ![t] = p]
        /\ UNCHANGED <<lock, wants, holds>>
    BY DEF DoSetPriority
  <1>2. p \in Queues /\ KInv(States, k)
    BY DEF Prios, MInv
  <1>3. KInv(States, k') /\ k'.state = k.state /\ k'.prio = [k.prio EXCEPT ![t] = p]
    BY <1>1, <1>2, SetPriorityStep
  <1>4. VarsOK'
    BY <1>1, <1>2 DEF MInv, VarsOK, Prios
  <1> QED
    BY <1>1, <1>2, <1>3, <1>4 DEF Elsewhere

LEMMA BootCreateElsewhere ==
  ASSUME MInv, NEW p \in Prios, BootCreate(p)
  PROVE  Elsewhere
  <1> DEFINE t == FirstUnused(k)
  <1>1. /\ k' = Create(k, p)
        /\ Unused(k) # {}
        /\ base' = [base EXCEPT ![t] = p]
        /\ UNCHANGED <<lock, wants, holds>>
    BY DEF BootCreate
  <1>2. p \in Queues /\ KInv(States, k) /\ Running \in States /\ Parked \in States
    BY StatesDiffer DEF Prios, MInv
  <1>3. t \in Threads /\ k.state[t] = Invalid
    BY <1>1, <1>2, CreateStep
  <1>4. /\ KInv(States, k')
        /\ k'.state = [k.state EXCEPT ![t] = Running]
        /\ k'.prio = [k.prio EXCEPT ![t] = p]
    BY <1>1, <1>2, CreateStep
  <1> HIDE DEF t
  <1>5. wants[t] = NoMutex /\ holds[t] = {}
    BY <1>3 DEF MInv, WaitersOK
  <1>6. VarsOK'
    BY <1>1, <1>2, <1>3 DEF MInv, VarsOK, Prios
  <1>7. \A u \in Threads : k'.state[u] = IF u = t THEN Running ELSE k.state[u]
    BY <1>3, <1>4, Fields
  <1>8. \A u \in Threads :
          \/ k'.state[u] = k.state[u]
          \/ /\ wants[u] = NoMutex /\ holds[u] = {}
             /\ k.state[u] # LockBlocked /\ k'.state[u] # LockBlocked
    BY <1>3, <1>5, <1>7, StatesDiffer
  <1> QED
    BY <1>1, <1>2, <1>3, <1>4, <1>5, <1>6, <1>8 DEF Elsewhere

(* A step is one of lock(), its return, release(), or has nothing to do    *)
(* with a mutex.                                                           *)
LEMMA StepCases ==
  ASSUME MInv, [Next]_vars
  PROVE  \/ Elsewhere
         \/ \E t \in Threads, mx \in Mutexes :
              LockFree(t, mx) \/ LockBlock(t, mx) \/ Release(t, mx)
         \/ \E t \in Threads : LockReturn(t)
  <1>1. CASE Next
    <2>1. CASE StartThreading
      BY <2>1, StartThreadingElsewhere
    <2>2. CASE \E p \in Prios : BootCreate(p)
      BY <2>2, BootCreateElsewhere
    <2>3. CASE ContextSwitch
      BY <2>3, ContextSwitchElsewhere
    <2>4. CASE \E t \in Threads : LockReturn(t) \/ DoPark(t) \/ DoUnpark(t)
      BY <2>4, DoParkElsewhere, DoUnparkElsewhere
    <2>5. CASE \E t \in Threads, p \in Prios : DoSetPriority(t, p)
      BY <2>5, DoSetPriorityElsewhere
    <2> QED
      BY <1>1, <2>1, <2>2, <2>3, <2>4, <2>5 DEF Next
  <1>2. CASE UNCHANGED vars
    <2>1. UNCHANGED <<k, lock, wants, holds, base>>
      BY <1>2 DEF vars
    <2>2. KInv(States, k') /\ VarsOK'
      BY <2>1 DEF MInv, VarsOK
    <2> QED
      BY <2>1, <2>2 DEF Elsewhere
  <1> QED
    BY <1>1, <1>2

(* The state before the first thread is created.                           *)
LEMMA InitMInv == Init => MInv
  <1> SUFFICES ASSUME Init PROVE MInv
    OBVIOUS
  <1>1. KInv(States, k)
    BY NewSchedulerFacts, StatesDiffer DEF Init
  <1>2. \A mx \in Mutexes : lock[mx].owner = NoThread /\ lock[mx].waiters = <<>>
    BY DEF Init, Unlocked
  <1>3. VarsOK
    <2>1. 0 \in Queues
      BY SizeAssumption DEF Queues
    <2> QED
      BY <2>1 DEF VarsOK, Init, Unlocked, Prios
  <1>4. \A t \in Threads : wants[t] = NoMutex /\ holds[t] = {} /\ k.state[t] = Invalid
    BY DEF Init, NewScheduler
  <1>5. NoThread \notin Threads
    BY SentinelNotThread DEF NoThread
  <1>6. OwnersOK
    BY <1>2, <1>4, <1>5, MutexesAssumption DEF OwnersOK, Has
  <1>7. WaitersOK
    <2>1. \A mx \in Mutexes : NoDup(lock[mx].waiters) /\ \A t : ~In(lock[mx].waiters, t)
      BY <1>2 DEF NoDup, In
    <2> QED
      BY <1>4, <2>1, StatesDiffer, MutexesAssumption DEF WaitersOK
  <1> QED
    BY <1>1, <1>3, <1>6, <1>7 DEF MInv

LEMMA NextMInv == MInv /\ [Next]_vars => MInv'
  <1> SUFFICES ASSUME MInv, [Next]_vars PROVE MInv'
    OBVIOUS
  <1>1. CASE Elsewhere
    BY <1>1, SameMutexes DEF Elsewhere
  <1>2. CASE \E t \in Threads, mx \in Mutexes :
               LockFree(t, mx) \/ LockBlock(t, mx) \/ Release(t, mx)
    BY <1>2, LockFreeKeeps, LockBlockKeeps, ReleaseKeeps
  <1>3. CASE \E t \in Threads : LockReturn(t)
    BY <1>3, LockReturnKeeps
  <1> QED
    BY <1>1, <1>2, <1>3, StepCases

LEMMA Invariance == Spec => []MInv
  BY InitMInv, NextMInv, PTL DEF Spec

LEMMA MInvSound == MInv => MutexSound
  <1> SUFFICES ASSUME MInv PROVE MutexSound
    OBVIOUS
  <1>1. TypeOK /\ NoFault
    BY DEF MInv, KInv, VarsOK, TypeOK, NoFault
  <1>2. MutualExclusion
    BY Fields DEF MutualExclusion, MInv, OwnersOK, Has
  <1>3. WaitersBlocked
    <2>1. ASSUME NEW t \in Threads, wants[t] # NoMutex, k.state[t] = LockBlocked
          PROVE  In(lock[wants[t]].waiters, t) /\ IsLocked(wants[t])
      <3>1. wants[t] \in Mutexes /\ In(lock[wants[t]].waiters, t)
        BY <2>1, Fields DEF MInv, WaitersOK
      <3>2. lock[wants[t]].waiters # <<>>
        BY <3>1 DEF In
      <3> QED
        BY <3>1, <3>2 DEF MInv, OwnersOK, IsLocked
    <2>2. ASSUME NEW mx \in Mutexes, NEW i \in DOMAIN lock[mx].waiters,
                 NEW j \in DOMAIN lock[mx].waiters
          PROVE  LET t == lock[mx].waiters[i]
                 IN  /\ wants[t] = mx /\ k.state[t] = LockBlocked
                     /\ lock[mx].waiters[j] = t => i = j
      <3> DEFINE w == lock[mx].waiters
      <3>1. w \in Seq(Threads) /\ NoDup(w)
        BY Fields DEF MInv, WaitersOK
      <3>2. \A u \in Threads : In(w, u) => wants[u] = mx /\ k.state[u] = LockBlocked
        BY DEF MInv, WaitersOK
      <3>3. i \in DOMAIN w /\ j \in DOMAIN w
        OBVIOUS
      <3> HIDE DEF w
      <3>4. w[i] \in Threads /\ In(w, w[i])
        BY <3>1, <3>3, ListFacts DEF In
      <3>5. wants[w[i]] = mx /\ k.state[w[i]] = LockBlocked /\ (w[j] = w[i] => i = j)
        BY <3>1, <3>2, <3>3, <3>4 DEF NoDup
      <3> QED
        BY <3>5 DEF w
    <2> QED
      BY <2>1, <2>2 DEF WaitersBlocked
  <1> QED
    BY <1>1, <1>2, <1>3 DEF MutexSound

(* lock() and release() keep their promises for every number of threads,   *)
(* priorities and mutexes: a guard means exclusive access, a thread blocked*)
(* in lock() is in the list of a locked mutex exactly once, and no         *)
(* assertion of the scheduler fails.                                       *)
THEOREM MutexIsSound == Spec => []MutexSound
  BY Invariance, MInvSound, PTL

-----------------------------------------------------------------------------
(* Priority inheritance.                                                   *)

(* No thread locks a mutex while it has another.                           *)
Unnested ==
  \A t \in Threads : /\ wants[t] # NoMutex => holds[t] = {}
                     /\ \A a, b \in holds[t] : a = b

Owns(t) == \E mx \in Mutexes : lock[mx].owner = t

(* The owner remembers the priority to go back to, and has at least that   *)
(* of every waiter.                                                        *)
Lent(mx, t) ==
  /\ lock[mx].owner_prio = base[t]
  /\ k.prio[t] >= base[t]
  /\ \A w \in Threads : In(lock[mx].waiters, w) => k.prio[t] >= k.prio[w]

(* The invariant behind OwnerInherits and PriorityRestored: an owner is    *)
(* raised only for a new first waiter, so the lists have to be in order.   *)
PInv ==
  /\ \A t \in Threads : ~Owns(t) => k.prio[t] = base[t]
  /\ \A mx \in Mutexes : \A t \in Threads : lock[mx].owner = t => Lent(mx, t)
  /\ \A mx \in Mutexes : ByPriority(k.prio, lock[mx].waiters)

(* Without nesting a thread owns one mutex at most, and none while it      *)
(* waits.                                                                  *)
LEMMA OwnsOne ==
  ASSUME MInv, Unnested
  PROVE  /\ \A t \in Threads : \A a, b \in Mutexes :
              lock[a].owner = t /\ lock[b].owner = t => a = b
         /\ \A t \in Threads, mx \in Mutexes : In(lock[mx].waiters, t) => ~Owns(t)
  <1>1. \A t \in Threads, mx \in Mutexes : Has(t, mx) <=> lock[mx].owner = t
    BY DEF MInv, OwnersOK
  <1>2. ASSUME NEW t \in Threads, NEW a \in Mutexes, NEW b \in Mutexes, Has(t, a), Has(t, b)
        PROVE  a = b
    BY <1>2, MutexesAssumption DEF Has, Unnested
  <1>3. ASSUME NEW t \in Threads, NEW mx \in Mutexes, In(lock[mx].waiters, t)
        PROVE  ~Owns(t)
    <2>1. wants[t] = mx /\ k.state[t] = LockBlocked
      BY <1>3 DEF MInv, WaitersOK
    <2>2. \A m \in Mutexes : ~Has(t, m)
      BY <2>1, StatesDiffer, MutexesAssumption DEF Has, Unnested
    <2> QED
      BY <1>1, <2>2 DEF Owns
  <1> QED
    BY <1>1, <1>2, <1>3

(* A thread that has and wants no mutex owns none and is in no list.       *)
LEMMA OwnsNone ==
  ASSUME MInv, NEW t \in Threads, wants[t] = NoMutex, holds[t] = {}
  PROVE  ~Owns(t) /\ \A mx \in Mutexes : lock[mx].owner # t /\ ~In(lock[mx].waiters, t)
  <1>1. \A mx \in Mutexes : ~Has(t, mx)
    BY MutexesAssumption DEF Has
  <1>2. \A mx \in Mutexes : lock[mx].owner # t
    BY <1>1 DEF MInv, OwnersOK
  <1>3. \A mx \in Mutexes : ~In(lock[mx].waiters, t)
    BY MutexesAssumption DEF MInv, WaitersOK
  <1> QED
    BY <1>2, <1>3 DEF Owns

LEMMA ElsewherePrio ==
  ASSUME MInv, PInv, Elsewhere
  PROVE  PInv'
  <1>1. lock' = lock
    BY DEF Elsewhere
  <1>2. CASE k'.prio = k.prio /\ base' = base
    BY <1>1, <1>2 DEF PInv, Lent, Owns
  <1>3. CASE \E t \in Threads, p \in Queues :
               /\ wants[t] = NoMutex /\ holds[t] = {}
               /\ k'.prio = [k.prio EXCEPT ![t] = p]
               /\ base' = [base EXCEPT ![t] = p]
    <2>1. PICK t \in Threads, p \in Queues :
               /\ wants[t] = NoMutex /\ holds[t] = {}
               /\ k'.prio = [k.prio EXCEPT ![t] = p]
               /\ base' = [base EXCEPT ![t] = p]
      BY <1>3
    <2>2. /\ k'.prio[t] = p /\ base'[t] = p
          /\ \A u \in Threads : u # t => k'.prio[u] = k.prio[u] /\ base'[u] = base[u]
      BY <2>1, Fields
    <2>3. \A mx \in Mutexes : lock[mx].owner # t /\ ~In(lock[mx].waiters, t)
      BY <2>1, OwnsNone
    <2>4. \A u \in Threads : ~Owns(u)' => k'.prio[u] = base'[u]
      BY <1>1, <2>2 DEF PInv, Owns
    <2>5. ASSUME NEW mx \in Mutexes, NEW u \in Threads, lock'[mx].owner = u
          PROVE  Lent(mx, u)'
      BY <1>1, <2>2, <2>3, <2>5 DEF PInv, Lent
    <2>6. ASSUME NEW mx \in Mutexes
          PROVE  ByPriority(k'.prio, lock'[mx].waiters)
      <3>1. lock[mx].waiters \in Seq(Threads)
        BY Fields
      <3>2. \A u : In(lock[mx].waiters, u) => k'.prio[u] = k.prio[u]
        BY <2>2, <2>3, <3>1, ListFacts
      <3>3. ByPriority(k.prio, lock[mx].waiters)
        BY DEF PInv
      <3> QED
        BY <1>1, <3>2, <3>3, SameOrder
    <2> QED
      BY <2>4, <2>5, <2>6 DEF PInv
  <1> QED
    BY <1>2, <1>3 DEF Elsewhere

LEMMA LockFreePrio ==
  ASSUME MInv, PInv, Unnested', NEW t \in Threads, NEW mx \in Mutexes, LockFree(t, mx)
  PROVE  PInv'
  <1>0. LockFreeEffect(t, mx)
    BY LockFreeStep
  <1>1. k' = k /\ base' = base /\ wants[t] = NoMutex
    BY <1>0 DEF LockFreeEffect
  <1>2. /\ lock[mx].owner = NoThread
        /\ lock'[mx].owner = t
        /\ lock'[mx].owner_prio = k.prio[t]
        /\ lock'[mx].waiters = <<>>
    BY <1>0 DEF LockFreeEffect
  <1>3. \A m \in Mutexes : m # mx => lock'[m] = lock[m]
    BY <1>0 DEF LockFreeEffect
  <1>4. holds[t] = {}
    <2>1. holds'[t] = holds[t] \cup {mx}
      BY <1>0 DEF LockFreeEffect
    <2>2. \A m \in holds[t] : m = mx
      BY <2>1 DEF Unnested
    <2>3. mx \notin holds[t]
      BY <1>2, Fields DEF MInv, OwnersOK, Has
    <2> QED
      BY <2>2, <2>3
  <1>5. ~Owns(t) /\ k.prio[t] = base[t]
    BY <1>1, <1>4, OwnsNone DEF PInv
  <1>6. ASSUME NEW u \in Threads, ~Owns(u)'
        PROVE  k'.prio[u] = base'[u]
    <2>1. u # t
      BY <1>2, <1>6 DEF Owns
    <2>2. ~Owns(u)
      BY <1>2, <1>3, <1>6, Fields DEF Owns
    <2> QED
      BY <1>1, <2>2 DEF PInv
  <1>7. ASSUME NEW m \in Mutexes, NEW u \in Threads, lock'[m].owner = u
        PROVE  Lent(m, u)'
    <2>1. CASE m = mx
      <3>1. \A w : ~In(lock'[mx].waiters, w)
        BY <1>2 DEF In
      <3>2. k.prio[t] >= base[t]
        BY <1>5, Fields DEF Queues
      <3> QED
        BY <1>1, <1>2, <1>5, <1>7, <2>1, <3>1, <3>2 DEF Lent
    <2>2. CASE m # mx
      BY <1>1, <1>3, <1>7, <2>2 DEF PInv, Lent
    <2> QED
      BY <2>1, <2>2
  <1>8. ASSUME NEW m \in Mutexes
        PROVE  ByPriority(k'.prio, lock'[m].waiters)
    <2>1. CASE m = mx
      BY <1>2, <2>1 DEF ByPriority
    <2>2. CASE m # mx
      BY <1>1, <1>3, <2>2 DEF PInv
    <2> QED
      BY <2>1, <2>2
  <1> QED
    BY <1>6, <1>7, <1>8 DEF PInv

LEMMA LockBlockPrio ==
  ASSUME MInv, PInv, Unnested, Unnested', NEW t \in Threads, NEW mx \in Mutexes,
         LockBlock(t, mx)
  PROVE  PInv'
  <1> DEFINE o == lock[mx].owner
             w == lock[mx].waiters
             raise == BecomesHead(k, w) /\ k.prio[t] > lock[mx].owner_prio
  <1>0. LockBlockEffect(t, mx)
    BY LockBlockStep
  <1>1. k.cur = t /\ wants[t] = NoMutex /\ o \in Threads /\ o # t /\ ~In(w, t)
    BY <1>0 DEF LockBlockEffect
  <1>2. /\ lock'[mx].owner = o
        /\ lock'[mx].owner_prio = lock[mx].owner_prio
        /\ lock'[mx].waiters = WithCurrent(k, w)
        /\ base' = base
    BY <1>0 DEF LockBlockEffect
  <1>3. \A m \in Mutexes : m # mx => lock'[m] = lock[m]
    BY <1>0 DEF LockBlockEffect
  <1>4. k'.prio = IF raise THEN [k.prio EXCEPT ![o] = k.prio[t]] ELSE k.prio
    BY <1>0 DEF LockBlockEffect
  <1>5. holds[t] = {}
    <2>1. wants'[t] = mx /\ holds' = holds
      BY <1>0 DEF LockBlockEffect
    <2> QED
      BY <2>1, MutexesAssumption DEF Unnested
  <1>6. /\ w \in Seq(Threads) /\ NoDup(w) /\ ByPriority(k.prio, w)
        /\ k.prio \in [Threads -> Queues] /\ base \in [Threads -> Queues]
        /\ lock[mx].owner_prio = base[o] /\ k.prio[o] >= base[o]
        /\ \A u \in Threads : In(w, u) => k.prio[o] >= k.prio[u]
    BY <1>1, Fields DEF MInv, WaitersOK, PInv, Lent
  <1>7. /\ Owns(o)
        /\ \A m \in Mutexes : lock[m].owner = o => m = mx
        /\ \A m \in Mutexes : ~In(lock[m].waiters, o)
    BY <1>1, OwnsOne DEF Owns
  <1> HIDE DEF o, w, raise
  <1>8. \A u \in Threads : u # o => k'.prio[u] = k.prio[u]
    BY <1>1, <1>4, <1>6
  <1>9. \A m \in Mutexes : lock'[m].owner = lock[m].owner
    BY <1>2, <1>3 DEF o
  <1>10. ASSUME NEW u \in Threads, ~Owns(u)'
         PROVE  k'.prio[u] = base'[u]
    <2>1. ~Owns(u)
      BY <1>9, <1>10 DEF Owns
    <2>2. u # o
      BY <1>7, <2>1
    <2> QED
      BY <1>2, <1>8, <2>1, <2>2 DEF PInv
  <1>11. \A u : In(lock'[mx].waiters, u) <=> In(w, u) \/ u = t
    BY <1>1, <1>2, <1>6, InsertFacts
  <1>12. /\ k'.prio[o] >= base[o]
         /\ k'.prio[o] >= k.prio[t]
         /\ \A u \in Threads : In(w, u) => k'.prio[o] >= k.prio[u]
    <2>1. k.prio[t] \in Int /\ k.prio[o] \in Int /\ base[o] \in Int
          /\ \A u \in Threads : k.prio[u] \in Int
      BY <1>1, <1>6, SizeAssumption DEF Queues
    <2>2. CASE raise
      <3>1. k'.prio[o] = k.prio[t]
        BY <1>1, <1>4, <1>6, <2>2
      <3>2. \A u \in Threads : In(w, u) => k.prio[u] < k.prio[t]
        <4>1. BecomesHead(k, w)
          BY <2>2 DEF raise
        <4> QED
          BY <1>1, <1>6, <4>1, InsertKeeps
      <3>3. k.prio[t] > base[o]
        BY <1>6, <2>2 DEF raise
      <3> QED
        BY <2>1, <3>1, <3>2, <3>3
    <2>3. CASE ~raise
      <3>1. k'.prio = k.prio
        BY <1>4, <2>3
      <3>2. k.prio[o] >= k.prio[t]
        <4>1. CASE ~BecomesHead(k, w)
          <5>1. w # <<>> /\ k.prio[Head(w)] >= k.prio[t]
            BY <1>1, <1>6, <4>1, InsertKeeps
          <5>2. Head(w) \in Threads /\ In(w, Head(w))
            BY <1>6, <5>1, PopListFacts
          <5> QED
            BY <1>6, <2>1, <5>1, <5>2
        <4>2. CASE ~(k.prio[t] > lock[mx].owner_prio)
          BY <1>6, <2>1, <4>2
        <4> QED
          BY <2>3, <4>1, <4>2 DEF raise
      <3> QED
        BY <1>6, <3>1, <3>2
    <2> QED
      BY <2>2, <2>3
  <1>13. ASSUME NEW m \in Mutexes, NEW u \in Threads, lock'[m].owner = u
         PROVE  Lent(m, u)'
    <2>1. CASE m = mx
      <3>1. u = o /\ lock'[mx].owner_prio = base'[u] /\ k'.prio[u] >= base'[u]
        BY <1>2, <1>6, <1>12, <1>13, <2>1
      <3>2. ASSUME NEW v \in Threads, In(lock'[mx].waiters, v)
            PROVE  k'.prio[u] >= k'.prio[v]
        <4>1. v # o /\ (In(w, v) \/ v = t)
          BY <1>1, <1>7, <1>11, <3>2 DEF w
        <4> QED
          BY <1>8, <1>12, <3>1, <4>1
      <3> QED
        BY <2>1, <3>1, <3>2 DEF Lent
    <2>2. CASE m # mx
      <3>1. lock'[m] = lock[m] /\ Lent(m, u)
        BY <1>3, <1>13, <2>2 DEF PInv
      <3>2. u # o
        BY <1>7, <1>13, <2>2, <3>1
      <3>3. ASSUME NEW v \in Threads, In(lock[m].waiters, v)
            PROVE  v # o
        BY <1>7, <3>3
      <3> QED
        BY <1>2, <1>8, <3>1, <3>2, <3>3 DEF Lent
    <2> QED
      BY <2>1, <2>2
  <1>14. ASSUME NEW m \in Mutexes
         PROVE  ByPriority(k'.prio, lock'[m].waiters)
    <2>1. ByPriority(k.prio, lock'[m].waiters)
      <3>1. CASE m = mx
        <4>1. ByPriority(k.prio, WithCurrent(k, w))
          BY <1>1, <1>6, InsertKeeps
        <4> QED
          BY <1>2, <3>1, <4>1
      <3>2. CASE m # mx
        BY <1>3, <3>2 DEF PInv
      <3> QED
        BY <3>1, <3>2
    <2>2. ASSUME NEW u, In(lock'[m].waiters, u)
          PROVE  k'.prio[u] = k.prio[u]
      <3>1. u \in Threads /\ u # o
        <4>1. CASE m = mx
          <5>1. In(w, u) => u \in Threads /\ u # o
            BY <1>6, <1>7, ListFacts DEF w
          <5> QED
            BY <1>1, <1>11, <2>2, <4>1, <5>1
        <4>2. CASE m # mx
          <5>1. In(lock[m].waiters, u) /\ lock[m].waiters \in Seq(Threads)
            BY <1>3, <2>2, <4>2, Fields
          <5> QED
            BY <1>7, <5>1, ListFacts
        <4> QED
          BY <4>1, <4>2
      <3> QED
        BY <1>8, <3>1
    <2> QED
      BY <2>1, <2>2, SameOrder
  <1> QED
    BY <1>10, <1>13, <1>14 DEF PInv

LEMMA ReleasePrio ==
  ASSUME MInv, PInv, Unnested, NEW t \in Threads, NEW mx \in Mutexes, Release(t, mx)
  PROVE  PInv'
  <1> DEFINE w == lock[mx].waiters
             h == Head(w)
  <1>0. ReleaseEffect(t, mx)
    BY ReleaseStep
  <1>1. wants[t] = NoMutex /\ lock[mx].owner = t /\ w \in Seq(Threads) /\ NoDup(w) /\ base' = base
    BY <1>0 DEF ReleaseEffect
  <1>2. \A m \in Mutexes : m # mx => lock'[m] = lock[m]
    BY <1>0 DEF ReleaseEffect
  <1>3. lock[mx].owner_prio = base[t] /\ ByPriority(k.prio, w)
    BY <1>1 DEF PInv, Lent
  <1>4. /\ k'.prio = [k.prio EXCEPT ![t] = lock[mx].owner_prio]
        /\ lock'[mx].owner # t
        /\ lock'[mx].owner = NoThread \/ (w # <<>> /\ lock'[mx].owner = h)
        /\ \A u : In(lock'[mx].waiters, u) => In(w, u)
    <2>1. CASE w = <<>>
      <3>1. ReleaseLastEffect(t, mx)
        BY <2>1, ReleaseLast
      <3>2. \A u : ~In(lock'[mx].waiters, u)
        BY <3>1 DEF In, ReleaseLastEffect
      <3> QED
        BY <3>1, <3>2, Fields DEF ReleaseLastEffect
    <2>2. CASE w # <<>>
      <3>1. ReleaseHandsEffect(t, mx, h)
        BY <2>2, ReleaseHands
      <3>2. \A u : In(Tail(w), u) => In(w, u)
        BY <1>1, <2>2, PopListFacts
      <3> QED
        BY <2>2, <3>1, <3>2 DEF ReleaseHandsEffect
    <2> QED
      BY <2>1, <2>2
  <1>5. /\ \A m \in Mutexes : lock[m].owner = t => m = mx
        /\ \A m \in Mutexes : ~In(lock[m].waiters, t)
    <2>1. \A m \in Mutexes : lock[m].owner = t => m = mx
      BY <1>1, OwnsOne
    <2>2. \A m \in Mutexes : ~In(lock[m].waiters, t)
      BY <1>1, OwnsOne DEF Owns
    <2> QED
      BY <2>1, <2>2
  <1>6. k'.prio[t] = base[t] /\ \A u \in Threads : u # t => k'.prio[u] = k.prio[u]
    BY <1>3, <1>4, Fields
  <1>7. w # <<>> => /\ h \in Threads /\ h # t /\ k.prio[h] = base[h]
                    /\ lock'[mx].owner_prio = k.prio[h]
                    /\ lock'[mx].waiters = Tail(w)
                    /\ \A u \in Threads : In(w, u) => k.prio[h] >= k.prio[u]
    <2> SUFFICES ASSUME w # <<>>
                 PROVE  /\ h \in Threads /\ h # t /\ k.prio[h] = base[h]
                        /\ lock'[mx].owner_prio = k.prio[h]
                        /\ lock'[mx].waiters = Tail(w)
                        /\ \A u \in Threads : In(w, u) => k.prio[h] >= k.prio[u]
      OBVIOUS
    <2>1. ReleaseHandsEffect(t, mx, h)
      BY ReleaseHands
    <2>2. h \in Threads /\ In(w, h) /\ \A u \in Threads : In(w, u) => k.prio[h] >= k.prio[u]
      <3>1. k.prio \in [Threads -> Queues]
        BY Fields
      <3> HIDE DEF w
      <3> QED
        BY <1>1, <1>3, <3>1, PopListFacts
    <2>3. k.prio[h] = base[h]
      BY <2>2, OwnsOne DEF PInv
    <2> QED
      BY <2>1, <2>2, <2>3 DEF ReleaseHandsEffect
  <1>8. base \in [Threads -> Queues] /\ w = lock[mx].waiters
    BY Fields
  <1> HIDE DEF w, h
  <1>9. ASSUME NEW u \in Threads, ~Owns(u)'
        PROVE  k'.prio[u] = base'[u]
    <2>1. CASE u = t
      BY <1>1, <1>6, <2>1
    <2>2. CASE u # t
      <3>1. ~Owns(u)
        BY <1>1, <1>2, <1>9, <2>2 DEF Owns
      <3> QED
        BY <1>1, <1>6, <2>2, <3>1 DEF PInv
    <2> QED
      BY <2>1, <2>2
  <1>10. ASSUME NEW m \in Mutexes, NEW u \in Threads, lock'[m].owner = u
         PROVE  Lent(m, u)'
    <2>1. CASE m = mx
      <3>1. u = h /\ w # <<>>
        BY <1>4, <1>10, <2>1, Fields
      <3>2. u # t /\ k'.prio[u] = base'[u] /\ lock'[mx].owner_prio = base'[u]
        BY <1>1, <1>6, <1>7, <3>1
      <3>3. k'.prio[u] >= base'[u]
        BY <1>1, <1>8, <3>2 DEF Queues
      <3>4. ASSUME NEW v \in Threads, In(lock'[mx].waiters, v)
            PROVE  k'.prio[u] >= k'.prio[v]
        <4>1. In(w, v) /\ v # t
          BY <1>4, <1>5, <1>8, <3>4
        <4> QED
          BY <1>6, <1>7, <3>1, <3>2, <4>1
      <3> QED
        BY <2>1, <3>2, <3>3, <3>4 DEF Lent
    <2>2. CASE m # mx
      <3>1. lock'[m] = lock[m] /\ Lent(m, u)
        BY <1>2, <1>10, <2>2 DEF PInv
      <3>2. u # t
        BY <1>5, <1>10, <2>2, <3>1
      <3>3. ASSUME NEW v \in Threads, In(lock[m].waiters, v)
            PROVE  v # t
        BY <1>5, <3>3
      <3> QED
        BY <1>1, <1>6, <3>1, <3>2, <3>3 DEF Lent
    <2> QED
      BY <2>1, <2>2
  <1>11. ASSUME NEW m \in Mutexes
         PROVE  ByPriority(k'.prio, lock'[m].waiters)
    <2>1. ByPriority(k.prio, lock'[m].waiters)
      <3>1. CASE m = mx
        <4>1. CASE w = <<>>
          <5>1. lock'[mx].waiters = <<>>
            BY <1>8, <4>1, ReleaseLast DEF ReleaseLastEffect
          <5> QED
            BY <3>1, <5>1 DEF ByPriority
        <4>2. CASE w # <<>>
          <5>1. ByPriority(k.prio, Tail(w))
            BY <1>1, <1>3, <4>2, Fields, PopListFacts
          <5> QED
            BY <1>7, <3>1, <4>2, <5>1
        <4> QED
          BY <4>1, <4>2
      <3>2. CASE m # mx
        BY <1>2, <3>2 DEF PInv
      <3> QED
        BY <3>1, <3>2
    <2>2. ASSUME NEW u, In(lock'[m].waiters, u)
          PROVE  k'.prio[u] = k.prio[u]
      <3>1. In(lock[m].waiters, u) /\ lock[m].waiters \in Seq(Threads)
        BY <1>2, <1>4, <1>8, <2>2, Fields
      <3>2. u \in Threads /\ u # t
        BY <1>5, <3>1, ListFacts
      <3> QED
        BY <1>6, <3>2
    <2> QED
      BY <2>1, <2>2, SameOrder
  <1> QED
    BY <1>9, <1>10, <1>11 DEF PInv

LEMMA InitPInv == Init => PInv
  <1> SUFFICES ASSUME Init PROVE PInv
    OBVIOUS
  <1>1. NoThread \notin Threads
    BY SentinelNotThread DEF NoThread
  <1>2. \A t \in Threads : k.prio[t] = 0 /\ base[t] = 0
    BY DEF Init, NewScheduler
  <1>3. \A mx \in Mutexes : lock[mx].owner = NoThread /\ lock[mx].waiters = <<>>
    BY DEF Init, Unlocked
  <1>4. \A mx \in Mutexes : ByPriority(k.prio, lock[mx].waiters)
    BY <1>3 DEF ByPriority
  <1> QED
    BY <1>1, <1>2, <1>3, <1>4 DEF PInv

LEMMA NextPInv == MInv /\ PInv /\ Unnested /\ Unnested' /\ [Next]_vars => PInv'
  <1> SUFFICES ASSUME MInv, PInv, Unnested, Unnested', [Next]_vars PROVE PInv'
    OBVIOUS
  <1>1. CASE Elsewhere
    BY <1>1, ElsewherePrio
  <1>2. CASE \E t \in Threads, mx \in Mutexes :
               LockFree(t, mx) \/ LockBlock(t, mx) \/ Release(t, mx)
    BY <1>2, LockFreePrio, LockBlockPrio, ReleasePrio
  <1>3. CASE \E t \in Threads : LockReturn(t)
    <2>1. UNCHANGED <<k, lock, base>>
      BY <1>3 DEF LockReturn
    <2> QED
      BY <2>1 DEF PInv, Lent, Owns
  <1> QED
    BY <1>1, <1>2, <1>3, StepCases

LEMMA PrioInvariance == Spec /\ []Unnested => []PInv
  BY InitPInv, NextPInv, Invariance, PTL DEF Spec

(* A mutex with waiters has an owner; a thread without mutexes owns none.  *)
LEMMA PInvImplies == MInv /\ PInv => OwnerInherits /\ PriorityRestored
  <1> SUFFICES ASSUME MInv, PInv PROVE OwnerInherits /\ PriorityRestored
    OBVIOUS
  <1>1. ASSUME NEW mx \in Mutexes, NEW w \in Threads, In(lock[mx].waiters, w)
        PROVE  k.prio[lock[mx].owner] >= k.prio[w]
    <2>1. lock[mx].waiters # <<>>
      BY <1>1 DEF In
    <2>2. lock[mx].owner \in Threads
      BY <2>1, Fields DEF MInv, OwnersOK
    <2> QED
      BY <1>1, <2>2 DEF PInv, Lent
  <1>2. ASSUME NEW t \in Threads, wants[t] = NoMutex, holds[t] = {}
        PROVE  k.prio[t] = base[t]
    BY <1>2, OwnsNone DEF PInv
  <1> QED
    BY <1>1, <1>2 DEF OwnerInherits, PriorityRestored

(* As long as no thread locks a mutex while it has another, the owner of   *)
(* every mutex has at least the priority of every thread in its wait list: *)
(* lock() has to raise the owner for a new first waiter only.              *)
THEOREM InheritsUnlessNested == Spec /\ []Unnested => []OwnerInherits
  BY Invariance, PrioInvariance, PInvImplies, PTL

(* Under the same condition release() restores the priority: a thread      *)
(* without mutexes has the priority it was created with or given.          *)
THEOREM RestoredUnlessNested == Spec /\ []Unnested => []PriorityRestored
  BY Invariance, PrioInvariance, PInvImplies, PTL

(* A system with one mutex meets the condition.                            *)
LEMMA OneMutexUnnested ==
  ASSUME NEW m, Mutexes = {m}
  PROVE  MInv => Unnested
  BY Fields DEF MInv, WaitersOK, Unnested

(* With one mutex, priority inheritance works without any condition.       *)
THEOREM OneMutexInherits ==
  ASSUME NEW m, Mutexes = {m}
  PROVE  Spec => [](OwnerInherits /\ PriorityRestored)
  BY Invariance, PrioInvariance, PInvImplies, OneMutexUnnested, PTL
=============================================================================
