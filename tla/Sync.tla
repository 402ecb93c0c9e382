-------------------------------- MODULE Sync --------------------------------
(***************************************************************************)
(* The blocking primitives of ariel-os-threads other than mutex and        *)
(* channel, on one core: a Lock, an Event, a WaitQueue (sync/*.rs), sleep  *)
(* (timeout.rs), block_on (blocker.rs), and the CompatSemaphore that       *)
(* ariel-os-esp builds on a WaitQueue with deadlines.  A thread is in at   *)
(* most one call; interrupts set, notify and give at any time.             *)
(***************************************************************************)
EXTENDS Timeouts

CONSTANTS Profiles,         \* sets of primitives that one system uses
          Deadlines,        \* deadlines that threads choose
          UnparkSleepers,   \* whether sleeping threads are unparked
          SemKinds,         \* kinds of semaphore
          MaxCount,         \* `max` of a counting semaphore, bound on recursion
          IsrKinds          \* kinds of semaphore that interrupts use

ASSUME DeadlinesAssumption == Deadlines \subseteq Times
ASSUME CountAssumption == MaxCount \in Nat

VARIABLES uses,     \* the primitives this system uses
          c,        \* scheduler, clock and timer queue
          lists,    \* the ThreadList of every primitive
          locked,   \* the Lock is locked
          isset,    \* the Event is set
          sem,      \* SemaphoreInner
          call,     \* per thread: the call it has not returned from
          until,    \* per thread: the deadline of its call
          holds,    \* threads that have the Lock
          has,      \* per thread: how often it has taken the mutex
          fut       \* per thread: the future of its block_on

vars == <<uses, c, lists, locked, isset, sem, call, until, holds, has, fut>>

k == c.k

(* Who takes the semaphore: NoThread stands for the interrupts.            *)
Users == Threads \cup {NoThread}

Prims == {"lock", "event", "queue", "sem"}
AllUses == Prims \cup {"sleep", "park", "block_on"}
Kinds == {"Counting", "Mutex", "RecursiveMutex"}
ListOf == [acquire |-> "lock", event |-> "event", wait |-> "queue",
           wait_until |-> "queue", take |-> "sem"]
ListCalls == DOMAIN ListOf
AllCalls == ListCalls \cup {"none", "sleep", "retake", "poll", "pending"}

States == {Invalid, Running, Parked, LockBlocked, WaitQueueBlocked,
           FlagBlocked("Any", {THREAD_FLAG_WAKER})}

(* ThreadPtr: null stands for None; an interrupt takes a mutex in the name *)
(* of NonNull::dangling(), which is address 1.                             *)
NoOwner == 0
ThreadPtr(t) == t + 1
PtrThread(p) == p - 1
Dangling == 1

NewSemaphore(kind) ==
  [kind |-> kind, current |-> 0, owner |-> NoOwner, original_priority |-> 0, lock_counter |-> 0]

TypeOK == /\ uses \in SUBSET AllUses
          /\ c \in TimeoutsType(States)
          /\ lists \in [Prims -> Seq(Threads)]
          /\ locked \in BOOLEAN /\ isset \in BOOLEAN
          /\ sem \in [kind : SemKinds, current : 0 .. MaxCount, owner : 0 .. N_THREADS,
                      original_priority : Prios, lock_counter : 0 .. MaxCount]
          /\ call \in [Threads -> AllCalls]
          /\ until \in [Threads -> Times]
          /\ holds \subseteq Threads
          /\ has \in [Users -> 0 .. MaxCount]
          /\ fut \in [Threads -> {"none", "pending", "ready", "woken"}]

Init == \E kind \in SemKinds :
          /\ uses \in Profiles
          /\ "sem" \in uses \/ kind = "Counting"
          /\ c = NoTimers
          /\ lists = [q \in Prims |-> <<>>]
          /\ locked = FALSE /\ isset = FALSE
          /\ sem = NewSemaphore(kind)
          /\ call = [t \in Threads |-> "none"]
          /\ until = [t \in Threads |-> Never]
          /\ holds = {}
          /\ has = [t \in Users |-> 0]
          /\ fut = [t \in Threads |-> "none"]

-----------------------------------------------------------------------------

Up == k.fault = "none"
Runs(t) == k.cur = t /\ ~k.pend /\ Up
Calls(t, u) == Runs(t) /\ call[t] = "none" /\ u \in uses
SetK(kk) == c' = [c EXCEPT !.k = kk]
Begin(t, op) == call' = [call EXCEPT ![t] = op]
Done(t) == /\ call' = [call EXCEPT ![t] = "none"]
           /\ until' = [until EXCEPT ![t] = Never]

(* Startup: a thread per slot is created, then threading starts.           *)
BootCreate(p) ==
  /\ Booting(k)
  /\ Unused(k) # {}
  /\ SetK(Create(k, p))
  /\ UNCHANGED <<uses, lists, locked, isset, sem, call, until, holds, has, fut>>

StartThreading ==
  /\ Booting(k)
  /\ Unused(k) = {}
  /\ SetK(Schedule(k))
  /\ UNCHANGED <<uses, lists, locked, isset, sem, call, until, holds, has, fut>>

ContextSwitch ==
  /\ CanSwitch(k)
  /\ SetK(Sched(k))
  /\ UNCHANGED <<uses, lists, locked, isset, sem, call, until, holds, has, fut>>

(* put_current and pop of a primitive's list.                              *)
PutCurrent(q, st, cc) ==
  /\ lists' = [lists EXCEPT ![q] = WithCurrent(cc.k, @)]
  /\ c' = [cc EXCEPT !.k = Block(@, st)]

Popped(q, kk) == IF lists[q] = <<>> THEN kk ELSE WakeHead(kk, lists[q])
Rest(q) == IF lists[q] = <<>> THEN <<>> ELSE Tail(lists[q])

(* pop() until the list is empty.                                          *)
PoppedAll(q, kk) ==
  LET after[n \in 0 .. Len(lists[q])] ==
        IF n = 0 THEN kk ELSE SetState(after[n - 1], lists[q][n], Running)
  IN  after[Len(lists[q])]

-----------------------------------------------------------------------------
(* Lock.                                                                   *)

AcquireFree(t) ==
  /\ Calls(t, "lock") /\ ~locked
  /\ locked' = TRUE
  /\ holds' = holds \cup {t}
  /\ UNCHANGED <<uses, c, lists, isset, sem, call, until, has, fut>>

(* A thread that acquires a lock it holds waits for itself: none does.     *)
AcquireBlock(t) ==
  /\ Calls(t, "lock") /\ locked /\ t \notin holds
  /\ PutCurrent("lock", LockBlocked, c)
  /\ Begin(t, "acquire")
  /\ UNCHANGED <<uses, locked, isset, sem, until, holds, has, fut>>

AcquireReturn(t) ==
  /\ Runs(t) /\ call[t] = "acquire"
  /\ holds' = holds \cup {t}
  /\ Done(t)
  /\ UNCHANGED <<uses, c, lists, locked, isset, sem, has, fut>>

(* Mutant: the lock is unlocked although a waiter got it.                  *)
ReleaseUnlocks(t) ==
  /\ Calls(t, "lock") /\ t \in holds
  /\ SetK(Popped("lock", k))
  /\ lists' = [lists EXCEPT !["lock"] = Rest("lock")]
  /\ locked' = FALSE
  /\ holds' = holds \ {t}
  /\ UNCHANGED <<uses, isset, sem, call, until, has, fut>>

Release(t) ==
  /\ Calls(t, "lock") /\ t \in holds
  /\ SetK(Popped("lock", k))
  /\ lists' = [lists EXCEPT !["lock"] = Rest("lock")]
  /\ locked' = (lists["lock"] # <<>>)
  /\ holds' = holds \ {t}
  /\ UNCHANGED <<uses, isset, sem, call, until, has, fut>>

-----------------------------------------------------------------------------
(* Event.  (wait() of a set event changes nothing.)                        *)

EventWait(t) ==
  /\ Calls(t, "event") /\ ~isset
  /\ PutCurrent("event", LockBlocked, c)
  /\ Begin(t, "event")
  /\ UNCHANGED <<uses, locked, isset, sem, until, holds, has, fut>>

EventSet ==
  /\ Up /\ "event" \in uses /\ ~isset
  /\ SetK(PoppedAll("event", k))
  /\ lists' = [lists EXCEPT !["event"] = <<>>]
  /\ isset' = TRUE
  /\ UNCHANGED <<uses, locked, sem, call, until, holds, has, fut>>

EventClear ==
  /\ Up /\ "event" \in uses /\ isset
  /\ isset' = FALSE
  /\ UNCHANGED <<uses, c, lists, locked, sem, call, until, holds, has, fut>>

-----------------------------------------------------------------------------
(* WaitQueue.                                                              *)

QueueWait(t) ==
  /\ Calls(t, "queue")
  /\ PutCurrent("queue", WaitQueueBlocked, c)
  /\ Begin(t, "wait")
  /\ UNCHANGED <<uses, locked, isset, sem, until, holds, has, fut>>

(* wait_until: with_deadline's first critical section.                     *)
WaitUntil(t, d) ==
  LET cc == SetDeadline(c, d)
  IN  /\ Calls(t, "queue")
      /\ IF InFuture(cc) THEN /\ PutCurrent("queue", WaitQueueBlocked, cc)
                              /\ Begin(t, "wait_until")
                              /\ until' = [until EXCEPT ![t] = d]
         ELSE c' = cc /\ UNCHANGED <<lists, call, until>>
      /\ UNCHANGED <<uses, locked, isset, sem, holds, has, fut>>

(* Mutant: on_timeout leaves the thread in the list.                       *)
LeaveNot(q, t) == lists[q]

(* on_timeout: remove_current().  The thread runs, so the set_state in     *)
(* remove_inner has nothing left to do.                                    *)
Leave(q, t) == IF In(lists[q], t) THEN Without(lists[q], t) ELSE lists[q]

(* The second critical section.                                            *)
WaitUntilReturn(t) ==
  LET cc == ClearDeadline(c)
  IN  /\ Runs(t) /\ call[t] = "wait_until"
      /\ c' = cc
      /\ lists' = IF InFuture(c) THEN lists ELSE [lists EXCEPT !["queue"] = Leave("queue", t)]
      /\ Done(t)
      /\ UNCHANGED <<uses, locked, isset, sem, holds, has, fut>>

NotifyOne ==
  /\ Up /\ "queue" \in uses
  /\ SetK(Popped("queue", k))
  /\ lists' = [lists EXCEPT !["queue"] = Rest("queue")]
  /\ UNCHANGED <<uses, locked, isset, sem, call, until, holds, has, fut>>

NotifyAll ==
  /\ Up /\ "queue" \in uses
  /\ SetK(PoppedAll("queue", k))
  /\ lists' = [lists EXCEPT !["queue"] = <<>>]
  /\ UNCHANGED <<uses, locked, isset, sem, call, until, holds, has, fut>>

-----------------------------------------------------------------------------
(* CompatSemaphore.                                                        *)

(* The owner of a mutex gets at least the priority of who wants it.        *)
Lend(s, kk, t) ==
  LET owner == PtrThread(s.owner)
  IN  IF kk.prio[owner] < kk.prio[t] THEN SetPriority(kk, owner, kk.prio[t]) ELSE kk

(* SemaphoreInner::try_take.                                               *)
TryTake(s, kk, t) ==
  CASE s.kind = "Counting" /\ s.current > 0 ->
         [ok |-> TRUE, k |-> kk, sem |-> [s EXCEPT !.current = @ - 1]]
    [] s.kind = "Counting" /\ s.current = 0 ->
         [ok |-> FALSE, k |-> kk, sem |-> s]
    [] s.kind # "Counting" /\ s.owner = NoOwner ->
         [ok |-> TRUE, k |-> kk,
          sem |-> [s EXCEPT !.owner = ThreadPtr(t), !.lock_counter = @ + 1,
                            !.original_priority = kk.prio[t]]]
    [] s.kind = "RecursiveMutex" /\ s.owner = ThreadPtr(t) ->
         [ok |-> TRUE, k |-> kk, sem |-> [s EXCEPT !.lock_counter = @ + 1]]
    [] OTHER ->
         [ok |-> FALSE, k |-> Lend(s, kk, t), sem |-> s]

Took(t) == /\ has' = [has EXCEPT ![t] = IF sem.kind = "Counting" THEN @ ELSE @ + 1]
           /\ Done(t)

(* One round of take_with_deadline, up to where it blocks.  A round whose  *)
(* deadline is not in the future fails.                                    *)
TakeRound(t, d) ==
  LET r  == TryTake(sem, k, t)
      cc == SetDeadline([c EXCEPT !.k = r.k], d)
  IN  /\ sem' = r.sem
      /\ IF r.ok THEN SetK(r.k) /\ Took(t) /\ UNCHANGED lists
         ELSE /\ IF InFuture(cc) THEN PutCurrent("sem", WaitQueueBlocked, cc) /\ Begin(t, "take")
                 ELSE c' = cc /\ Begin(t, "retake") /\ UNCHANGED lists
              /\ until' = [until EXCEPT ![t] = d]
              /\ UNCHANGED has
      /\ UNCHANGED <<uses, locked, isset, holds, fut>>

(* The recursion is bounded by MaxCount.                                   *)
Take(t, d) == Calls(t, "sem") /\ has[t] < MaxCount /\ TakeRound(t, d)

TakeAgain(t) ==
  /\ Runs(t) /\ call[t] = "retake" /\ c.now <= until[t]
  /\ TakeRound(t, until[t])

TakeGiveUp(t) ==
  /\ Runs(t) /\ call[t] = "retake" /\ c.now > until[t]
  /\ Done(t)
  /\ UNCHANGED <<uses, c, lists, locked, isset, sem, holds, has, fut>>

(* Mutant: a round that ended by its deadline does not try again.          *)
TakeReturnTimedOut(t) ==
  LET cc == ClearDeadline(c)
      r  == TryTake(sem, cc.k, t)
      ok == r.ok /\ InFuture(c)
  IN  /\ Runs(t) /\ call[t] = "take"
      /\ lists' = IF InFuture(c) THEN lists ELSE [lists EXCEPT !["sem"] = Leave("sem", t)]
      /\ c' = [cc EXCEPT !.k = r.k]
      /\ sem' = IF ok THEN r.sem ELSE sem
      /\ IF ok THEN Took(t) ELSE Begin(t, "retake") /\ UNCHANGED <<has, until>>
      /\ UNCHANGED <<uses, locked, isset, holds, fut>>

(* The rest of the round, once the thread runs: the second half of         *)
(* with_deadline_check.                                                    *)
TakeReturn(t) ==
  LET cc == ClearDeadline(c)
      r  == TryTake(sem, cc.k, t)
  IN  /\ Runs(t) /\ call[t] = "take"
      /\ lists' = IF InFuture(c) THEN lists ELSE [lists EXCEPT !["sem"] = Leave("sem", t)]
      /\ c' = [cc EXCEPT !.k = r.k]
      /\ sem' = r.sem
      /\ IF r.ok THEN Took(t) ELSE Begin(t, "retake") /\ UNCHANGED <<has, until>>
      /\ UNCHANGED <<uses, locked, isset, holds, fut>>

(* try_give of a mutex by its owner: back to the original priority when it *)
(* was the last of several.                                                *)
Given(s) ==
  IF s.kind = "Counting" THEN [s EXCEPT !.current = @ + 1]
  ELSE [s EXCEPT !.lock_counter = @ - 1, !.owner = IF s.lock_counter = 1 THEN NoOwner ELSE @]

Restored(s, kk, t) ==
  IF s.kind # "Counting" /\ s.lock_counter = 1 THEN SetPriority(kk, t, s.original_priority)
  ELSE kk

(* A thread gives a mutex it has, or a counting semaphore that is not at   *)
(* its maximum (otherwise try_give changes nothing).                       *)
CanGive(t) ==
  IF sem.kind = "Counting" THEN sem.current < MaxCount
  ELSE sem.owner = ThreadPtr(t) /\ has[t] > 0

(* give(): try_give, then notify_one().                                    *)
Give(t) ==
  /\ Calls(t, "sem") /\ CanGive(t)
  /\ sem' = Given(sem)
  /\ SetK(Popped("sem", Restored(sem, k, t)))
  /\ lists' = [lists EXCEPT !["sem"] = Rest("sem")]
  /\ has' = [has EXCEPT ![t] = IF sem.kind = "Counting" THEN @ ELSE @ - 1]
  /\ UNCHANGED <<uses, locked, isset, call, until, holds, fut>>

(* try_take_from_isr: no priority, and an owner that is made up.           *)
TakeIsr ==
  /\ Up /\ "sem" \in uses /\ sem.kind \in IsrKinds
  /\ IF sem.kind = "Counting" THEN sem.current > 0
     ELSE \/ sem.owner = NoOwner
          \/ sem.kind = "RecursiveMutex" /\ sem.owner = Dangling /\ sem.lock_counter < MaxCount
  /\ sem' = IF sem.kind = "Counting" THEN [sem EXCEPT !.current = @ - 1]
            ELSE [sem EXCEPT !.owner = Dangling, !.lock_counter = @ + 1]
  /\ has' = [has EXCEPT ![NoThread] = IF sem.kind = "Counting" THEN @ ELSE @ + 1]
  /\ UNCHANGED <<uses, c, lists, locked, isset, call, until, holds, fut>>

(* try_give_from_isr of a mutex the interrupt took, or of a counting       *)
(* semaphore.                                                              *)
GiveIsr ==
  /\ Up /\ "sem" \in uses /\ sem.kind \in IsrKinds
  /\ IF sem.kind = "Counting" THEN sem.current < MaxCount
     ELSE has[NoThread] > 0 /\ sem.owner = Dangling /\ sem.lock_counter > 0
  /\ sem' = Given(sem)
  /\ SetK(Popped("sem", k))
  /\ lists' = [lists EXCEPT !["sem"] = Rest("sem")]
  /\ has' = [has EXCEPT ![NoThread] = IF sem.kind = "Counting" THEN @ ELSE @ - 1]
  /\ UNCHANGED <<uses, locked, isset, call, until, holds, fut>>

-----------------------------------------------------------------------------
(* block_on.                                                               *)

BlockOn(t) ==
  /\ Calls(t, "block_on")
  /\ Begin(t, "poll")
  /\ fut' = [fut EXCEPT ![t] = "pending"]
  /\ UNCHANGED <<uses, c, lists, locked, isset, sem, until, holds, has>>

Poll(t) ==
  /\ Runs(t) /\ call[t] = "poll"
  /\ IF fut[t] = "pending" THEN Begin(t, "pending") /\ UNCHANGED <<until, fut>>
     ELSE Done(t) /\ fut' = [fut EXCEPT ![t] = "none"]
  /\ UNCHANGED <<uses, c, lists, locked, isset, sem, holds, has>>

(* Mutant: the flag is cleared before the wait.                            *)
WaitWakerClears(t) ==
  /\ Runs(t) /\ call[t] = "pending"
  /\ SetK(FlagWait(FlagClear(k, {THREAD_FLAG_WAKER}), "Any", {THREAD_FLAG_WAKER}))
  /\ UNCHANGED <<uses, lists, locked, isset, sem, call, until, holds, has, fut>>

(* One round of wait_any.                                                  *)
WaitWaker(t) ==
  /\ Runs(t) /\ call[t] = "pending"
  /\ SetK(FlagWait(k, "Any", {THREAD_FLAG_WAKER}))
  /\ IF Satisfied(k.flags[t], "Any", {THREAD_FLAG_WAKER}) THEN Begin(t, "poll")
     ELSE UNCHANGED call
  /\ UNCHANGED <<uses, lists, locked, isset, sem, until, holds, has, fut>>

(* The future becomes ready, then its waker is called.                     *)
FutureReady(t) ==
  /\ fut[t] = "pending" /\ Up
  /\ fut' = [fut EXCEPT ![t] = "ready"]
  /\ UNCHANGED <<uses, c, lists, locked, isset, sem, call, until, holds, has>>

FutureWake(t) ==
  /\ fut[t] = "ready" /\ Up
  /\ fut' = [fut EXCEPT ![t] = "woken"]
  /\ SetK(FlagSet(k, t, {THREAD_FLAG_WAKER}))
  /\ UNCHANGED <<uses, lists, locked, isset, sem, call, until, holds, has>>

(* A waker that is dropped wakes too, also after its block_on has ended.   *)
WakerDrop(t) ==
  /\ "block_on" \in uses /\ IsValid(k, t) /\ Up
  /\ SetK(FlagSet(k, t, {THREAD_FLAG_WAKER}))
  /\ UNCHANGED <<uses, lists, locked, isset, sem, call, until, holds, has, fut>>

-----------------------------------------------------------------------------
(* sleep and sleep_until, park, exit, and time.                            *)

SleepUntil(t, d) ==
  LET cc == SetDeadline(c, d)
  IN  /\ Calls(t, "sleep")
      /\ IF InFuture(cc)
         THEN /\ c' = [cc EXCEPT !.k = Park(@)]
              /\ Begin(t, "sleep")
              /\ until' = [until EXCEPT ![t] = d]
         ELSE c' = cc /\ UNCHANGED <<call, until>>
      /\ UNCHANGED <<uses, lists, locked, isset, sem, holds, has, fut>>

(* The end of a call that has nothing left to do.                          *)
Return(t) ==
  /\ Runs(t) /\ call[t] \in {"event", "wait", "sleep"}
  /\ Done(t)
  /\ UNCHANGED <<uses, c, lists, locked, isset, sem, holds, has, fut>>

DoPark(t) ==
  /\ Calls(t, "park")
  /\ SetK(Park(k))
  /\ UNCHANGED <<uses, lists, locked, isset, sem, call, until, holds, has, fut>>

DoUnpark(t) ==
  /\ Up /\ k.state[t] = Parked
  /\ UnparkSleepers \/ call[t] # "sleep"
  /\ SetK(Unpark(k, t))
  /\ UNCHANGED <<uses, lists, locked, isset, sem, call, until, holds, has, fut>>

Exit(t) ==
  /\ Runs(t) /\ call[t] = "none" /\ t \notin holds /\ has[t] = 0
  /\ SetK(Cleanup(k))
  /\ UNCHANGED <<uses, lists, locked, isset, sem, call, until, holds, has, fut>>

Tick ==
  /\ c.now < MaxTime
  /\ c' = [c EXCEPT !.now = @ + 1]
  /\ UNCHANGED <<uses, lists, locked, isset, sem, call, until, holds, has, fut>>

TimerInterrupt ==
  /\ c.alarm <= c.now /\ Up
  /\ c' = TimerHandler(c)
  /\ UNCHANGED <<uses, lists, locked, isset, sem, call, until, holds, has, fut>>

Next == \/ \E p \in Prios : BootCreate(p)
        \/ StartThreading \/ ContextSwitch \/ Tick \/ TimerInterrupt
        \/ EventSet \/ EventClear \/ NotifyOne \/ NotifyAll \/ TakeIsr \/ GiveIsr
        \/ \E t \in Threads :
             \/ AcquireFree(t) \/ AcquireBlock(t) \/ AcquireReturn(t) \/ Release(t)
             \/ EventWait(t) \/ QueueWait(t) \/ WaitUntilReturn(t)
             \/ TakeAgain(t) \/ TakeGiveUp(t) \/ TakeReturn(t) \/ Give(t)
             \/ BlockOn(t) \/ Poll(t) \/ WaitWaker(t)
             \/ FutureReady(t) \/ FutureWake(t) \/ WakerDrop(t)
             \/ Return(t) \/ DoPark(t) \/ DoUnpark(t) \/ Exit(t)
        \/ \E t \in Threads, d \in Deadlines : WaitUntil(t, d) \/ SleepUntil(t, d)
        \/ \E t \in Threads, d \in Deadlines \cup {Never} : Take(t, d)

(* Time passes and the hardware takes the timer interrupt.  Threads may    *)
(* run, or not run, for ever.                                              *)
Fairness == WF_vars(Tick) /\ WF_vars(TimerInterrupt)

Spec == Init /\ [][Next]_vars /\ Fairness

-----------------------------------------------------------------------------

Timed == {"wait_until", "take", "sleep"}

(* One thread has the Lock, and one thread or interrupt the mutex: a       *)
(* thread that runs on after blocking in acquire() was handed the lock by  *)
(* a release, not let through by a timer.                                  *)
Exclusive ==
  /\ \A t \in holds : locked /\ holds = {t}
  /\ \A t \in Threads : call[t] = "acquire" /\ k.state[t] = Running => locked /\ holds = {}
  /\ \A u, v \in Users : has[u] > 0 /\ has[v] > 0 => u = v

(* No wakeup of a list is lost and none is left behind: a thread blocked   *)
(* in a call is in that primitive's list, once; a thread in a list is in   *)
(* that call and blocked, or its deadline has just ended the wait; a set   *)
(* event and an unlocked lock have no waiters.  Timer, notifier and the    *)
(* thread itself each take a thread out of a wait, in any order.           *)
ListsExact ==
  /\ \A t \in Threads : call[t] \in ListCalls /\ k.state[t] # Running =>
       In(lists[ListOf[call[t]]], t)
  /\ \A q \in Prims : \A i, j \in DOMAIN lists[q] :
       LET t == lists[q][i]
       IN  /\ call[t] \in ListCalls /\ ListOf[call[t]] = q
           /\ k.state[t] = Running => call[t] \in Timed /\ c.deadline[t] = NoDeadline
           /\ lists[q][j] = t => i = j
  /\ isset => lists["event"] = <<>>
  /\ ~locked => lists["lock"] = <<>>
  /\ Matches(k) /\ k.fault = "none"

(* No give is lost: while the semaphore can be taken and a thread is       *)
(* blocked in take(), some thread that was woken is still on its way to    *)
(* try again.  A taker that timed out must not swallow the notification.   *)
NoLostGive ==
  (IF sem.kind = "Counting" THEN sem.current > 0 ELSE sem.owner = NoOwner) =>
    \/ \A t \in Threads : call[t] = "take" => k.state[t] = Running
    \/ \E t \in Threads : call[t] = "take" /\ k.state[t] = Running

(* A deadline belongs to the call that set it and the timer queue knows    *)
(* it: only a thread inside a timed call has one, its entry in the queue   *)
(* has exactly that time, and the hardware timer is armed to fire no       *)
(* later.  wake() is "not due yet" for any other entry and drops it, and   *)
(* a deadline that outlives its call ends a wait that has none.            *)
DeadlineArmed ==
  \A t \in Threads : c.deadline[t] # NoDeadline =>
    /\ call[t] \in Timed
    /\ c.timer[t] = c.deadline[t]
    /\ c.alarm <= c.timer[t]

(* block_on does not sleep through its waker: once wake() was called for   *)
(* a future that is ready, its thread is not blocked.                      *)
WakerHeard ==
  \A t \in Threads : fut[t] = "woken" /\ call[t] \in {"poll", "pending"} =>
    k.state[t] = Running

(* sleep, wait_until and take with a deadline end: a thread blocked in one *)
(* is eventually set running.                                              *)
TimedWaitEnds ==
  \A t \in Threads :
    (call[t] \in Timed /\ until[t] < Never /\ k.state[t] # Running) ~> k.state[t] = Running
=============================================================================
