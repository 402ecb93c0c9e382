------------------------------- MODULE Threads -------------------------------
(***************************************************************************)
(* Threads of a single-core system that call the public functions of       *)
(* ariel-os-threads in any order, and interrupt handlers that call those   *)
(* of them that need no thread context.                                    *)
(***************************************************************************)
EXTENDS Scheduler

CONSTANTS Masks,        \* flag masks used by set, clear and the waits
          StartPrios    \* priorities given to created threads

ASSUME MasksAssumption == Masks \subseteq SUBSET Flags
ASSUME StartPriosAssumption == StartPrios \subseteq Prios

VARIABLES k,    \* the scheduler
          pc    \* per thread: the flag wait it has not returned from, or Idle

vars == <<k, pc>>

Idle == <<>>
Waits == {"All", "Any", "One"} \X Masks

States == {Invalid, Running, Parked} \cup
          {FlagBlocked(mode, mask) : mode \in {"All", "Any"}, mask \in Masks}

TypeOK == /\ k \in SchedulerType(States)
          /\ pc \in [Threads -> Waits \cup {Idle}]

Init == k = NewScheduler /\ pc = [t \in Threads |-> Idle]

-----------------------------------------------------------------------------
(* Startup: the autostart threads are created, then threading starts.      *)

BootCreate(p) ==
  /\ Booting(k)
  /\ Unused(k) # {}
  /\ k' = Create(k, p)
  /\ UNCHANGED pc

StartThreading ==
  /\ Booting(k)
  /\ k' = Schedule(k)
  /\ UNCHANGED pc

(* The PendSV handler.                                                     *)
ContextSwitch ==
  /\ CanSwitch(k)
  /\ k' = Sched(k)
  /\ UNCHANGED pc

-----------------------------------------------------------------------------
(* The current thread runs when no context switch is pending.              *)

Runs == k.cur # NoThread /\ ~k.pend /\ k.fault = "none"
Calls == Runs /\ pc[k.cur] = Idle

DoCreate(p) ==
  /\ Calls
  /\ Unused(k) # {}
  /\ k' = Create(k, p)
  /\ UNCHANGED pc

DoCleanup == Calls /\ k' = Cleanup(k) /\ UNCHANGED pc
DoYield   == Calls /\ k' = YieldSame(k) /\ UNCHANGED pc
DoPark    == Calls /\ k' = Park(k) /\ UNCHANGED pc
DoClear(mask) == Calls /\ k' = FlagClear(k, mask) /\ UNCHANGED pc

(* wait_all, wait_any, wait_one: the first round and those after a wakeup. *)
DoWait(mode, mask) ==
  /\ Runs
  /\ pc[k.cur] \in {Idle, <<mode, mask>>}
  /\ k' = FlagWait(k, mode, mask)
  /\ pc' = [pc EXCEPT ![k.cur] = IF Satisfied(k.flags[k.cur], mode, mask)
                                 THEN Idle ELSE <<mode, mask>>]

(* Calls that threads make and that interrupt handlers make as well, at    *)
(* any time.                                                               *)
DoUnpark(t) == k.fault = "none" /\ k' = Unpark(k, t) /\ UNCHANGED pc
DoFlagSet(t, mask) == k.fault = "none" /\ k' = FlagSet(k, t, mask) /\ UNCHANGED pc
DoSetPriority(t, p) == k.fault = "none" /\ k' = SetPriority(k, t, p) /\ UNCHANGED pc

Next == \/ StartThreading
        \/ ContextSwitch
        \/ DoCleanup
        \/ DoYield
        \/ DoPark
        \/ \E p \in StartPrios : BootCreate(p) \/ DoCreate(p)
        \/ \E mask \in Masks : DoClear(mask)
        \/ \E mask \in Masks, mode \in {"All", "Any", "One"} : DoWait(mode, mask)
        \/ \E t \in Threads : DoUnpark(t)
        \/ \E t \in Threads, mask \in Masks : DoFlagSet(t, mask)
        \/ \E t \in Threads, p \in Prios : DoSetPriority(t, p)

Spec == Init /\ [][Next]_vars

-----------------------------------------------------------------------------
(* What the scheduler guarantees.                                          *)

(* The runqueue holds exactly the runnable threads, each once and at its   *)
(* current priority, whatever sequence of state and priority changes led   *)
(* here (ThreadState::Running "means that it is in the runqueue").  It is  *)
(* the contract under which RunQueue::add keeps its lists intact.          *)
RunqueueMatches == Matches(k)

(* "The highest priority runnable thread is always executed": whenever     *)
(* thread code runs, its thread is the oldest of the highest priority that *)
(* has a runnable thread, so no wakeup, priority change or creation        *)
(* forgets to trigger the scheduler.                                       *)
HighestRuns == RunsHighest(k)

(* No assertion of set_state or pop_head fails ("Ariel OS only ever calls  *)
(* pop_head() for the current thread"), and no thread is put into two      *)
(* runqueues.                                                              *)
NoFault == k.fault = "none"

(* A thread inside wait_all, wait_any or wait_one is runnable exactly when *)
(* its flags satisfy the wait: a flag set by a thread or an interrupt      *)
(* handler at any moment is neither lost nor a reason for a spurious       *)
(* wakeup.                                                                 *)
FlagWaitExact ==
  \A t \in Threads : pc[t] # Idle =>
    (k.state[t] = Running <=> Satisfied(k.flags[t], pc[t][1], pc[t][2]))

(* Within one priority scheduling is cooperative: a runnable thread at the *)
(* head of its priority loses that place only by its own yield_same(),     *)
(* never by preemption, by a wakeup of others or by a set_priority() to    *)
(* the priority it has.                                                    *)
Displaced(p) ==
  /\ k.rq[p] # <<>>
  /\ LET t == Head(k.rq[p])
     IN  k'.state[t] = Running /\ k'.prio[t] = p /\ t # Head(k'.rq[p])

Cooperative == [][\A p \in Prios : Displaced(p) => DoYield /\ p = k.prio[k.cur]]_vars
=============================================================================
