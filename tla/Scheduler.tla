------------------------------ MODULE Scheduler ------------------------------
(***************************************************************************)
(* The scheduler of ariel-os-threads (lib.rs, thread.rs, threadlist.rs and *)
(* thread_flags.rs): its state is a record k, its methods are operators    *)
(* that take k to the next k.  Every method runs inside one critical       *)
(* section, so a system module turns a sequence of calls inside one        *)
(* critical section into one action.                                       *)
(*                                                                         *)
(*   k.state, k.prio, k.flags   the fields of the thread control blocks    *)
(*   k.rq                       the runqueue, see RunQueueOps              *)
(*   k.cur                      the current thread                         *)
(*   k.pend                     schedule() has been called and the context *)
(*                              switch it triggers (PendSV) has not ended  *)
(*   k.fault                    the first assertion that failed, or "none" *)
(*                                                                         *)
(* This is the single-core scheduler: the code under                       *)
(* cfg(feature = "single-core").                                           *)
(***************************************************************************)
EXTENDS RunQueueOps, FiniteSets

CONSTANT Flags    \* bits of a thread's flags that the system uses

ASSUME FlagsAssumption == Flags \subseteq 0 .. 15

(* Priorities are runqueue numbers.                                        *)
Prios == Queues

NoThread == Sentinel

-----------------------------------------------------------------------------
(* Thread states.                                                          *)

Invalid == <<"Invalid">>
Running == <<"Running">>
Parked  == <<"Parked">>
LockBlocked == <<"LockBlocked">>
WaitQueueBlocked == <<"WaitQueueBlocked">>
FlagBlocked(mode, mask) == <<"FlagBlocked", mode, mask>>
ChannelRxBlocked(ptr) == <<"ChannelRxBlocked", ptr>>
ChannelTxBlocked(ptr) == <<"ChannelTxBlocked", ptr>>

NewScheduler ==
  [state |-> [t \in Threads |-> Invalid],
   prio  |-> [t \in Threads |-> 0],
   flags |-> [t \in Threads |-> {}],
   rq    |-> EmptyQueues,
   cur   |-> NoThread,
   pend  |-> FALSE,
   fault |-> "none"]

IsValid(k, t) == k.state[t] # Invalid

-----------------------------------------------------------------------------
(* Runqueue updates, with what the runqueue asserts or relies on.          *)

Fail(k, why) == IF k.fault = "none" THEN [k EXCEPT !.fault = why] ELSE k

(* add() corrupts the lists when the thread is in another queue.           *)
RqAdd(k, t, p) ==
  IF \E r \in Queues : r # p /\ In(k.rq[r], t) THEN Fail(k, "thread in two runqueues")
  ELSE [k EXCEPT !.rq = QAdd(@, t, p)]

(* pop_head() asserts that the thread is the head.                         *)
RqPopHead(k, t, p) ==
  IF k.rq[p] # <<>> /\ Head(k.rq[p]) = t THEN [k EXCEPT !.rq = QPopHead(@, p)]
  ELSE Fail(k, "popped thread is not the head")

Schedule(k) == [k EXCEPT !.pend = TRUE]

-----------------------------------------------------------------------------
(* impl Scheduler.                                                         *)

(* Mutant: the comparison the wrong way round.                             *)
ScheduleIfLowerPrio(k, p) ==
  IF k.cur # NoThread /\ p < k.prio[k.cur] THEN Schedule(k) ELSE k

ScheduleIfHigherPrio(k, p) ==
  IF k.cur # NoThread /\ k.prio[k.cur] < p THEN Schedule(k) ELSE k

(* set_state: only the current thread leaves the running state.            *)
SetState(k, t, new) ==
  LET p  == k.prio[t]
      k1 == [k EXCEPT !.state[t] = new]
      k2 == IF k.cur = t THEN k1 ELSE Fail(k1, "stopped thread is not the current one")
  IN  IF new = Running THEN ScheduleIfHigherPrio(RqAdd(k1, t, p), p)
      ELSE IF k.state[t] = Running THEN Schedule(RqPopHead(k2, t, p))
      ELSE k1

(* Mutant: a thread behind the head is not deleted from its old runqueue.  *)
RequeueHeadOnly(k, t, old, new) ==
  RqAdd(IF k.rq[old] # <<>> /\ Head(k.rq[old]) = t THEN RqPopHead(k, t, old) ELSE k, t, new)

(* The runqueue part of set_priority: from the head or from elsewhere, to  *)
(* the tail of the new priority.                                           *)
Requeue(k, t, old, new) ==
  RqAdd(IF k.rq[old] # <<>> /\ Head(k.rq[old]) = t THEN RqPopHead(k, t, old)
        ELSE [k EXCEPT !.rq = QDel(@, t)], t, new)

(* Mutant: no early return when the priority stays the same.               *)
SetPriorityAlways(k, t, p) ==
  LET old == k.prio[t]
      k1  == [k EXCEPT !.prio[t] = p]
      k2  == Requeue(k1, t, old, p)
  IN  IF ~IsValid(k, t) THEN k
      ELSE IF k.state[t] # Running THEN k1
      ELSE IF k.cur = t THEN IF p < old THEN Schedule(k2) ELSE k2
      ELSE IF p > old THEN ScheduleIfHigherPrio(k2, p) ELSE k2

SetPriority(k, t, p) ==
  LET old == k.prio[t]
      k1  == [k EXCEPT !.prio[t] = p]
      k2  == Requeue(k1, t, old, p)
  IN  IF ~IsValid(k, t) \/ old = p THEN k
      ELSE IF k.state[t] # Running THEN k1
      ELSE IF k.cur = t THEN IF p < old THEN Schedule(k2) ELSE k2
      ELSE IF p > old THEN ScheduleIfHigherPrio(k2, p) ELSE k2

(* get_unused(): the first free slot.                                      *)
Unused(k) == {t \in Threads : ~IsValid(k, t)}

FirstUnused(k) == CHOOSE t \in Unused(k) : \A u \in Unused(k) : t <= u

(* create() and create_raw(): flags are left as they are.  The caller has  *)
(* a free slot, the call panics otherwise.                                 *)
Create(k, p) ==
  LET t == FirstUnused(k)
  IN  SetState([k EXCEPT !.prio[t] = p, !.state[t] = Parked], t, Running)

(* The autostart threads are being created, threading has not started.     *)
Booting(k) == k.cur = NoThread /\ ~k.pend

Cleanup(k) == SetState(k, k.cur, Invalid)

(* Mutant: the runqueue advances, the scheduler is not triggered.          *)
YieldNoSchedule(k) == [k EXCEPT !.rq = QAdvance(@, k.prio[k.cur])]

YieldSame(k) ==
  LET p == k.prio[k.cur]
      k1 == [k EXCEPT !.rq = QAdvance(@, p)]
  IN  IF Len(k.rq[p]) > 1 THEN Schedule(k1) ELSE k1

Park(k) == SetState(k, k.cur, Parked)

Unpark(k, t) == IF k.state[t] = Parked THEN SetState(k, t, Running) ELSE k

(* sched(): follow the runqueue.  With nothing to run it stays in its wfi  *)
(* loop; a schedule() meanwhile only repeats the switch, which is then     *)
(* without effect.                                                         *)
CanSwitch(k) == k.pend /\ Used(k.rq) # {}

Sched(k) == [k EXCEPT !.cur = QNext(k.rq), !.pend = FALSE]

-----------------------------------------------------------------------------
(* Thread flags.                                                           *)

Satisfied(flags, mode, mask) ==
  IF mode = "All" THEN mask \subseteq flags ELSE flags \cap mask # {}

(* Mutant: any awaited flag wakes the thread, also one that waits for all. *)
FlagSetAnyWakes(k, t, mask) ==
  LET k1 == [k EXCEPT !.flags[t] = @ \cup mask]
      st == k.state[t]
  IN  IF st[1] = "FlagBlocked" /\ Satisfied(k1.flags[t], "Any", st[3])
      THEN SetState(k1, t, Running) ELSE k1

FlagSet(k, t, mask) ==
  LET k1 == [k EXCEPT !.flags[t] = @ \cup mask]
      st == k.state[t]
  IN  IF st[1] = "FlagBlocked" /\ Satisfied(k1.flags[t], st[2], st[3])
      THEN SetState(k1, t, Running) ELSE k1

(* One round of wait_all, wait_any and wait_one: what the round takes of   *)
(* the flags, and the next k.  wait_one blocks like wait_any.              *)
Taken(flags, mode, mask) ==
  CASE mode = "All" -> mask
    [] mode = "Any" -> flags \cap mask
    [] mode = "One" -> {CHOOSE f \in flags \cap mask : \A g \in flags \cap mask : f <= g}

FlagWait(k, mode, mask) ==
  IF Satisfied(k.flags[k.cur], mode, mask)
  THEN [k EXCEPT !.flags[k.cur] = @ \ Taken(@, mode, mask)]
  ELSE SetState(k, k.cur, FlagBlocked(IF mode = "All" THEN "All" ELSE "Any", mask))

FlagClear(k, mask) == [k EXCEPT !.flags[k.cur] = @ \ mask]

-----------------------------------------------------------------------------
(* ThreadList: a list of blocked threads, highest priority first and, in   *)
(* one priority, longest waiting first, at the time of the insertion.      *)

InsertAt(k, waiters, t) ==
  CHOOSE i \in 1 .. Len(waiters) + 1 :
    /\ \A j \in 1 .. i - 1 : k.prio[waiters[j]] >= k.prio[t]
    /\ i <= Len(waiters) => k.prio[waiters[i]] < k.prio[t]

(* Mutant: the list does not look at priorities.                           *)
WithCurrentLast(k, waiters) == Append(waiters, k.cur)

WithCurrent(k, waiters) ==
  LET i == InsertAt(k, waiters, k.cur)
  IN  SubSeq(waiters, 1, i - 1) \o <<k.cur>> \o SubSeq(waiters, i, Len(waiters))

(* put_current answers the priority to inherit when the current thread     *)
(* became the head.                                                        *)
BecomesHead(k, waiters) == InsertAt(k, waiters, k.cur) = 1

(* The scheduler's part of put_current() and of pop().                     *)
Block(k, st) == SetState(k, k.cur, st)

WakeHead(k, waiters) == SetState(k, Head(waiters), Running)

-----------------------------------------------------------------------------
(* What every system built on the scheduler relies on, see Threads.        *)

SchedulerType(States) ==
  [state : [Threads -> States],
   prio  : [Threads -> Prios],
   flags : [Threads -> SUBSET Flags],
   rq    : [Queues -> Seq(Threads)],
   cur   : Threads \cup {NoThread},
   pend  : BOOLEAN,
   fault : STRING]

Matches(k) ==
  /\ QueuedOnce(k.rq)
  /\ \A t \in Threads, p \in Queues :
       In(k.rq[p], t) <=> k.state[t] = Running /\ k.prio[t] = p

RunsHighest(k) == k.cur # NoThread /\ ~k.pend => k.cur = QNext(k.rq)
=============================================================================
