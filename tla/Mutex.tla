-------------------------------- MODULE Mutex --------------------------------
(***************************************************************************)
(* sync/mutex.rs: mutexes with priority inheritance, used by the threads   *)
(* of a single-core system.                                                *)
(***************************************************************************)
EXTENDS Scheduler

CONSTANT Mutexes

NoMutex == "none"

ASSUME MutexesAssumption == NoMutex \notin Mutexes

VARIABLES k,        \* the scheduler
          lock,     \* LockState of every mutex
          wants,    \* per thread: the mutex its lock() call waits for
          holds,    \* per thread: the mutexes it has a MutexGuard of
          base      \* per thread: the priority it was created with or given

vars == <<k, lock, wants, holds, base>>

Unlocked == [owner |-> NoThread, owner_prio |-> 0, waiters |-> <<>>]
IsLocked(mx) == lock[mx].owner # NoThread

States == {Invalid, Running, Parked, LockBlocked}

TypeOK == /\ k \in SchedulerType(States)
          /\ lock \in [Mutexes -> [owner : Threads \cup {NoThread},
                                   owner_prio : Prios,
                                   waiters : Seq(Threads)]]
          /\ wants \in [Threads -> Mutexes \cup {NoMutex}]
          /\ holds \in [Threads -> SUBSET Mutexes]
          /\ base \in [Threads -> Prios]

Init == /\ k = NewScheduler
        /\ lock = [mx \in Mutexes |-> Unlocked]
        /\ wants = [t \in Threads |-> NoMutex]
        /\ holds = [t \in Threads |-> {}]
        /\ base = [t \in Threads |-> 0]

-----------------------------------------------------------------------------
(* Startup: a thread per slot is created, then threading starts.           *)

BootCreate(p) ==
  /\ Booting(k)
  /\ Unused(k) # {}
  /\ k' = Create(k, p)
  /\ base' = [base EXCEPT ![FirstUnused(k)] = p]
  /\ UNCHANGED <<lock, wants, holds>>

StartThreading ==
  /\ Booting(k)
  /\ Unused(k) = {}
  /\ k' = Schedule(k)
  /\ UNCHANGED <<lock, wants, holds, base>>

-----------------------------------------------------------------------------

Runs(t) == k.cur = t /\ ~k.pend /\ k.fault = "none"
Calls(t) == Runs(t) /\ wants[t] = NoMutex

ContextSwitch ==
  /\ CanSwitch(k)
  /\ k' = Sched(k)
  /\ UNCHANGED <<lock, wants, holds, base>>

LockedBy(t) == [owner |-> t, owner_prio |-> k.prio[t], waiters |-> <<>>]

(* Mutant: the state of the mutex is not looked at.                        *)
LockAlways(t, mx) ==
  /\ Calls(t)
  /\ lock' = [lock EXCEPT ![mx] = LockedBy(t)]
  /\ holds' = [holds EXCEPT ![t] = @ \cup {mx}]
  /\ UNCHANGED <<k, wants, base>>

(* lock() or try_lock() of an unlocked mutex.                              *)
LockFree(t, mx) ==
  /\ Calls(t)
  /\ ~IsLocked(mx)
  /\ lock' = [lock EXCEPT ![mx] = LockedBy(t)]
  /\ holds' = [holds EXCEPT ![t] = @ \cup {mx}]
  /\ UNCHANGED <<k, wants, base>>

(* Mutants: only the first waiter lends its priority; no waiter does.      *)
InheritFirst(kk, l, t) ==
  IF l.waiters = <<>> /\ k.prio[t] > l.owner_prio
  THEN SetPriority(kk, l.owner, k.prio[t]) ELSE kk

InheritNothing(kk, l, t) == kk

(* The owner inherits the priority of a waiter that became the first.      *)
Inherit(kk, l, t) ==
  IF BecomesHead(k, l.waiters) /\ k.prio[t] > l.owner_prio
  THEN SetPriority(kk, l.owner, k.prio[t]) ELSE kk

(* lock() of a mutex another thread has locked: blocks.  A thread that     *)
(* locks a mutex it owns waits for itself, whatever the mutex does: threads*)
(* here do not.  (try_lock() of a locked mutex changes nothing.)           *)
LockBlock(t, mx) ==
  /\ Calls(t)
  /\ IsLocked(mx)
  /\ mx \notin holds[t]
  /\ k' = Inherit(Block(k, LockBlocked), lock[mx], t)
  /\ lock' = [lock EXCEPT ![mx].waiters = WithCurrent(k, @)]
  /\ wants' = [wants EXCEPT ![t] = mx]
  /\ UNCHANGED <<holds, base>>

(* The rest of lock(), once the thread runs again.                         *)
LockReturn(t) ==
  /\ Runs(t)
  /\ wants[t] # NoMutex
  /\ holds' = [holds EXCEPT ![t] = @ \cup {wants[t]}]
  /\ wants' = [wants EXCEPT ![t] = NoMutex]
  /\ UNCHANGED <<k, lock, base>>

(* The guard is dropped: release().  The priority is reset, then the first *)
(* waiter becomes the owner.                                               *)
HandOver(l, kk) ==
  IF l.waiters = <<>> THEN Unlocked
  ELSE [owner |-> Head(l.waiters),
        owner_prio |-> kk.prio[Head(l.waiters)],
        waiters |-> Tail(l.waiters)]

(* Mutant: the inherited priority stays.                                   *)
ReleaseKeepsPrio(t, mx) ==
  LET l  == lock[mx]
      k2 == IF l.waiters = <<>> THEN k ELSE WakeHead(k, l.waiters)
  IN  /\ Calls(t)
      /\ mx \in holds[t]
      /\ k' = k2
      /\ lock' = [lock EXCEPT ![mx] = HandOver(l, k2)]
      /\ holds' = [holds EXCEPT ![t] = @ \ {mx}]
      /\ UNCHANGED <<wants, base>>

Release(t, mx) ==
  LET l  == lock[mx]
      k1 == SetPriority(k, l.owner, l.owner_prio)
      k2 == IF l.waiters = <<>> THEN k1 ELSE WakeHead(k1, l.waiters)
  IN  /\ Calls(t)
      /\ mx \in holds[t]
      /\ k' = k2
      /\ lock' = [lock EXCEPT ![mx] = HandOver(l, k2)]
      /\ holds' = [holds EXCEPT ![t] = @ \ {mx}]
      /\ UNCHANGED <<wants, base>>

(* What threads do besides: park, be unparked, have their priority set     *)
(* while they have nothing to do with a mutex ("a user can not change a    *)
(* thread's priority while it holds the lock").  A thread that parks with  *)
(* a guard would keep the mutex for as long as it pleases: none does.      *)
DoPark(t) ==
  /\ Calls(t)
  /\ holds[t] = {}
  /\ k' = Park(k)
  /\ UNCHANGED <<lock, wants, holds, base>>

DoUnpark(t) ==
  /\ k.state[t] = Parked
  /\ k' = Unpark(k, t)
  /\ UNCHANGED <<lock, wants, holds, base>>

DoSetPriority(t, p) ==
  /\ IsValid(k, t)
  /\ wants[t] = NoMutex /\ holds[t] = {}
  /\ k' = SetPriority(k, t, p)
  /\ base' = [base EXCEPT ![t] = p]
  /\ UNCHANGED <<lock, wants, holds>>

Next == \/ StartThreading
        \/ \E p \in Prios : BootCreate(p)
        \/ ContextSwitch
        \/ \E t \in Threads : LockReturn(t) \/ DoPark(t) \/ DoUnpark(t)
        \/ \E t \in Threads, mx \in Mutexes : LockFree(t, mx)
        \/ \E t \in Threads, mx \in Mutexes : LockBlock(t, mx)
        \/ \E t \in Threads, mx \in Mutexes : Release(t, mx)
        \/ \E t \in Threads, p \in Prios : DoSetPriority(t, p)

(* The hardware takes a pending context switch; a thread that the core     *)
(* runs returns from lock() and drops the guards it has.  A thread without *)
(* guards may run for ever.                                                *)
Fairness ==
  /\ WF_vars(ContextSwitch)
  /\ \A t \in Threads : /\ WF_vars(LockReturn(t))
                        /\ WF_vars(\E mx \in Mutexes : Release(t, mx))

Spec == Init /\ [][Next]_vars /\ Fairness

-----------------------------------------------------------------------------

(* A MutexGuard "always has unique access": a mutex whose guard a thread   *)
(* has is locked with that thread as its owner, and a thread that runs on  *)
(* after blocking in lock() has been made the owner.                       *)
MutualExclusion ==
  \A t \in Threads :
    /\ \A mx \in holds[t] : lock[mx].owner = t
    /\ wants[t] # NoMutex /\ k.state[t] = Running => lock[wants[t]].owner = t

(* No release is lost: a thread that is blocked in lock() is in the wait   *)
(* list of a locked mutex, once, and everything in a wait list is blocked. *)
WaitersBlocked ==
  /\ \A t \in Threads : wants[t] # NoMutex /\ k.state[t] = LockBlocked =>
       In(lock[wants[t]].waiters, t) /\ IsLocked(wants[t])
  /\ \A mx \in Mutexes : \A i, j \in DOMAIN lock[mx].waiters :
       LET t == lock[mx].waiters[i]
       IN  /\ wants[t] = mx /\ k.state[t] = LockBlocked
           /\ lock[mx].waiters[j] = t => i = j

(* "If the current owner of the mutex has a lower priority than the        *)
(* current thread, it will inherit the waiting thread's priority.  The     *)
(* priority is reset once the mutex is released": as long as a thread owns *)
(* a mutex, its priority is at least that of every thread waiting for it.  *)
OwnerInherits ==
  \A mx \in Mutexes : \A w \in Threads :
    In(lock[mx].waiters, w) => k.prio[lock[mx].owner] >= k.prio[w]

(* A thread that neither owns nor waits for a mutex is back at the         *)
(* priority it had been given: an inherited priority does not leak.        *)
PriorityRestored ==
  \A t \in Threads : wants[t] = NoMutex /\ holds[t] = {} => k.prio[t] = base[t]

(* No assertion of the scheduler fails under the priority changes that     *)
(* lock() and release() make inside one critical section.                  *)
NoFault == k.fault = "none"

(* What lock(), try_lock() and release() promise whatever the priorities:  *)
(* exclusive access, no lost release, and states that the scheduler can    *)
(* work with.                                                              *)
MutexSound == TypeOK /\ MutualExclusion /\ WaitersBlocked /\ NoFault

(* No unbounded priority inversion: the thread with the highest priority,  *)
(* once blocked in lock(), gets the mutex, even if threads of a middle     *)
(* priority never stop running.                                            *)
Highest(t) == \A u \in Threads \ {t} : base[u] < base[t]

NoInversion ==
  \A t \in Threads : \A mx \in Mutexes :
    (wants[t] = mx /\ Highest(t)) ~> (mx \in holds[t] \/ ~Highest(t))
=============================================================================
