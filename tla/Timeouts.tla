------------------------------ MODULE Timeouts ------------------------------
(***************************************************************************)
(* Deadlines of threads: timeout.rs of ariel-os-threads on top of the time *)
(* driver of ariel-os-esp (time_driver.rs), the one driver that is part of *)
(* this repository.  The state is a record c, the functions are operators  *)
(* that take c to the next c inside one critical section:                  *)
(*                                                                         *)
(*   c.k             the scheduler                                         *)
(*   c.now           embassy_time_driver::now()                            *)
(*   c.deadline      the deadline field of the threads                     *)
(*   c.timer         the entries of the timer queue: one per waker, and a  *)
(*                   thread has one waker; Never when it has no entry      *)
(*   c.next_wakeup   TimerQueueInner::next_wakeup                          *)
(*   c.alarm         when the hardware timer fires                         *)
(***************************************************************************)
EXTENDS Scheduler, Integers

CONSTANTS MaxTime,      \* bound on the clock
          MaxSleep      \* longest timeout the hardware timer accepts

ASSUME TimeAssumption == MaxTime \in Nat /\ MaxSleep \in Nat \ {0}

Never == MaxTime + 1      \* u64::MAX
NoDeadline == -1
Times == 0 .. Never

THREAD_FLAG_WAKER == 0      \* bit numbers
THREAD_FLAG_TIMEOUT == 1

ASSUME WakeFlagsAssumption == {THREAD_FLAG_WAKER, THREAD_FLAG_TIMEOUT} \subseteq Flags

TimeoutsType(States) ==
  [k : SchedulerType(States), now : 0 .. MaxTime,
   deadline : [Threads -> Times \cup {NoDeadline}], timer : [Threads -> Times],
   next_wakeup : Times, alarm : Times]

NoTimers ==
  [k |-> NewScheduler, now |-> 0,
   deadline |-> [t \in Threads |-> NoDeadline], timer |-> [t \in Threads |-> Never],
   next_wakeup |-> Never, alarm |-> Never]

-----------------------------------------------------------------------------
(* The timer queue.                                                        *)

(* wake() of a thread's waker: "not due yet", or the deadline is reached   *)
(* and ends the wait of the thread, whatever it waits for.                 *)
Due(c, t) == c.deadline[t] # NoDeadline /\ c.now >= c.deadline[t]

WakeThread(kk, t) ==
  LET k1 == FlagSet(kk, t, {THREAD_FLAG_TIMEOUT})
  IN  IF k1.state[t] = Running THEN k1 ELSE SetState(k1, t, Running)

(* arm_next_wakeup: a timeout that the timer refuses is halved.            *)
Halved[d \in Times] == IF d <= MaxSleep THEN d ELSE Halved[d \div 2]

ArmNextWakeup(now, next) == now + Halved[next - now]

(* embassy_time_queue_utils::Queue::next_expiration: takes the expired     *)
(* entries out of the queue; the time of the next one.                     *)
Pending(c) == [t \in Threads |-> IF c.timer[t] <= c.now THEN Never ELSE c.timer[t]]

Earliest(timer) ==
  CHOOSE d \in Times : /\ \A t \in Threads : d <= timer[t]
                       /\ d = Never \/ \E t \in Threads : d = timer[t]

(* The expired entries are taken out and woken.                            *)
Expire(c) ==
  LET woken == {t \in Threads : c.timer[t] <= c.now /\ Due(c, t)}
      after[n \in 0 .. N_THREADS] ==
        IF n = 0 THEN c.k
        ELSE IF n - 1 \in woken THEN WakeThread(after[n - 1], n - 1) ELSE after[n - 1]
  IN  [c EXCEPT !.k = after[N_THREADS],
                !.deadline = [t \in Threads |-> IF t \in woken THEN NoDeadline ELSE @[t]],
                !.timer = Pending(c),
                !.next_wakeup = Earliest(Pending(c))]

(* TimerQueue::schedule_wake.  The queue keeps the earlier of two times    *)
(* for one waker.  The timer is armed for the next entry, or for some time *)
(* when there is none.                                                     *)
ScheduleWake(c, t, at) ==
  IF at >= c.timer[t] THEN c
  ELSE LET e == Expire([c EXCEPT !.timer[t] = at])
       IN  [e EXCEPT !.alarm = ArmNextWakeup(c.now, e.next_wakeup)]

(* Mutant: an alarm before next_wakeup is not followed by another.         *)
TimerHandlerOnce(c) ==
  LET e == IF c.now >= c.next_wakeup THEN Expire(c) ELSE [c EXCEPT !.next_wakeup = Never]
  IN  [e EXCEPT !.alarm = IF e.next_wakeup = Never THEN Never
                          ELSE ArmNextWakeup(c.now, e.next_wakeup)]

(* timer_handler: handle_alarm, and the timer is armed for the next entry. *)
TimerHandler(c) ==
  LET e == IF c.now >= c.next_wakeup THEN Expire(c) ELSE c
  IN  [e EXCEPT !.alarm = IF e.next_wakeup = Never THEN Never
                          ELSE ArmNextWakeup(c.now, e.next_wakeup)]

-----------------------------------------------------------------------------
(* Deadlines of the current thread.                                        *)

(* set_deadline, and its answer: the deadline was in the future.           *)
SetDeadline(c, d) ==
  LET t == c.k.cur
  IN  ScheduleWake([c EXCEPT !.deadline[t] = d, !.k.flags[t] = @ \ {THREAD_FLAG_TIMEOUT}], t, d)

InFuture(c) == c.deadline[c.k.cur] # NoDeadline

(* Mutant: the entry stays in the timer queue.                             *)
ClearDeadlineKeepsTimer(c) == [c EXCEPT !.deadline[c.k.cur] = NoDeadline]

(* clear_deadline: a wakeup at time 0 takes the entry out of the queue.    *)
ClearDeadline(c) ==
  IF c.deadline[c.k.cur] = NoDeadline THEN c
  ELSE ScheduleWake([c EXCEPT !.deadline[c.k.cur] = NoDeadline], c.k.cur, 0)
=============================================================================
