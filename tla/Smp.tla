--------------------------------- MODULE Smp ---------------------------------
(***************************************************************************)
(* The multi-core scheduler of ariel-os-threads on the RP chips: the code  *)
(* under cfg(feature = "multi-core") of lib.rs, smp/rp.rs, core_affinity.rs*)
(* and the PendSV handler of cortex_m.rs.  All cores share one runqueue,   *)
(* which does not hold the threads that run.  A critical section excludes  *)
(* the other core as well, so that each is one step.                       *)
(*                                                                         *)
(*   k.state, k.prio, k.rq, k.fault   as in Scheduler                      *)
(*   k.cur[c]      the current thread of core c                            *)
(*   k.pend[c]     PendSV is pending on core c                             *)
(*   k.entered[c]  its handler has been entered and not yet done sched()   *)
(*   k.fifo[c]     SCHEDULE_TOKENs on their way to core c                  *)
(***************************************************************************)
EXTENDS RunQueueOps, Integers, FiniteSets

CONSTANTS FifoDepth,     \* capacity of the FIFO between the cores
          Affinities,    \* core affinities that the pinned threads may have
          Pinned,        \* threads that may be created with an affinity
          ThreadPrios,   \* priorities that threads are created with or given
          EarlyWakes     \* a thread may be woken before its core has left it

ASSUME FifoAssumption == FifoDepth \in Nat \ {0}

Cores == {0, 1}
NoThread == Sentinel
Prios == Queues

(* setup_idle_threads: one thread per core, of the lowest priority.        *)
IdleThreads == {N_THREADS - 2, N_THREADS - 1}

ASSUME AffinityAssumption == Affinities \subseteq (SUBSET Cores) \ {{}}
ASSUME ThreadPriosAssumption == ThreadPrios \subseteq Prios
ASSUME PinnedAssumption == N_THREADS >= 2 /\ Pinned \subseteq Threads \ IdleThreads

VARIABLES k, affinity,
          changes   \* calls since the cores last ran the highest threads, up to 2
vars == <<k, affinity, changes>>

Running == "Running"
Parked == "Parked"
Invalid == "Invalid"

(* Every thread that can be scheduled on core c.                           *)
AffineTo(c) == {t \in Threads : c \in affinity[t]}

-----------------------------------------------------------------------------
(* smp/rp.rs, called on core c.  The FIFO drops a token when it is full.   *)

Schedule(s, c) == [s EXCEPT !.pend[c] = TRUE]

(* Mutant: the ready bit the wrong way round.                              *)
ScheduleOtherWhenFull(s, c) ==
  IF s.fifo[1 - c] = FifoDepth THEN [s EXCEPT !.fifo[1 - c] = @ + 1] ELSE s

ScheduleOtherCore(s, c) ==
  IF s.fifo[1 - c] < FifoDepth THEN [s EXCEPT !.fifo[1 - c] = @ + 1] ELSE s

(* schedule_on_core, schedule: the other core as well when the own one is  *)
(* about to schedule.                                                      *)
ScheduleOnCore(s, c, id) ==
  IF id = c /\ ~s.pend[c] THEN Schedule(s, c) ELSE ScheduleOtherCore(s, c)

-----------------------------------------------------------------------------
(* impl Scheduler, with feature multi-core.                                *)

(* current_threads of a core: None is below every priority.                *)
RunningPrio(s, c) == IF s.cur[c] = NoThread THEN -1 ELSE s.prio[s.cur[c]]

(* Mutant: the first core that the thread may run on.                      *)
LowestCoreFirst(s, t) == CHOOSE c \in affinity[t] : \A d \in affinity[t] : c <= d

(* lowest_running_prio: the first core of those with the lowest one.       *)
LowestCore(s, t) ==
  CHOOSE c \in affinity[t] : \A d \in affinity[t] :
    \/ RunningPrio(s, c) < RunningPrio(s, d)
    \/ RunningPrio(s, c) = RunningPrio(s, d) /\ c <= d

ScheduleIfHigherPrio(s, c, t) ==
  LET core == LowestCore(s, t)
  IN  IF s.cur[core] # NoThread /\ RunningPrio(s, core) < s.prio[t]
      THEN ScheduleOnCore(s, c, core) ELSE s

RqAdd(s, t) ==
  IF \E r \in Queues : r # s.prio[t] /\ In(s.rq[r], t)
  THEN [s EXCEPT !.fault = "thread in two runqueues"]
  ELSE [s EXCEPT !.rq = QAdd(@, t, s.prio[t])]

(* set_state, called on core c.                                            *)
SetState(s, c, t, new) ==
  LET s1 == [s EXCEPT !.state[t] = new]
  IN  IF new = Running THEN ScheduleIfHigherPrio(RqAdd(s1, t), c, t)
      ELSE IF s.state[t] # Running THEN s1
      ELSE IF s.cur[c] # t THEN [s1 EXCEPT !.fault = "stopped thread is not the current one"]
      ELSE Schedule(s1, c)

(* is_running.                                                             *)
CoresOf(s, t) == {d \in Cores : s.cur[d] = t}

(* Mutant: a running thread goes through the runqueue like a waiting one.  *)
SetPriorityQueues(s, c, t, p) ==
  LET s1 == [s EXCEPT !.prio[t] = p]
      s2 == RqAdd([s1 EXCEPT !.rq = QDel(@, t)], t)
  IN  IF s.state[t] = Invalid \/ s.prio[t] = p THEN s
      ELSE IF s.state[t] # Running THEN s1
      ELSE IF p > s.prio[t] THEN ScheduleIfHigherPrio(s2, c, t) ELSE s2

(* set_priority: a running thread is in no runqueue.                       *)
SetPriority(s, c, t, p) ==
  LET s1 == [s EXCEPT !.prio[t] = p]
      s2 == RqAdd([s1 EXCEPT !.rq = QDel(@, t)], t)
  IN  IF s.state[t] = Invalid \/ s.prio[t] = p THEN s
      ELSE IF s.state[t] # Running THEN s1
      ELSE IF CoresOf(s, t) # {}
      THEN IF p < s.prio[t]
           THEN ScheduleOnCore(s1, c, CHOOSE d \in CoresOf(s, t) : \A e \in CoresOf(s, t) : d <= e)
           ELSE s1
      ELSE IF p > s.prio[t] THEN ScheduleIfHigherPrio(s2, c, t) ELSE s2

(* yield_same: sched puts the thread at the tail.                          *)
YieldSame(s, c) ==
  LET t == s.cur[c]
      s1 == Schedule(s, c)
  IN  IF s.rq[s.prio[t]] = <<>> THEN s
      ELSE IF affinity[t] = Cores THEN ScheduleIfHigherPrio(s1, c, t) ELSE s1

(* add_current_thread_to_rq.                                               *)
AddCurrent(s, c) ==
  IF s.cur[c] # NoThread /\ s.state[s.cur[c]] = Running THEN RqAdd(s, s.cur[c]) ELSE s

(* sched: the next thread leaves the runqueue (get_next_tid).              *)
Sched(s, c) ==
  LET s1   == AddCurrent(s, c)
      next == QNextFilter(s1.rq, AffineTo(c))
  IN  IF next = NoThread THEN [s1 EXCEPT !.fault = "no idle thread"]
      ELSE [s1 EXCEPT !.rq = QDel(@, next), !.cur[c] = next]

-----------------------------------------------------------------------------

TypeOK ==
  /\ k.state \in [Threads -> {Running, Parked, Invalid}]
  /\ k.prio \in [Threads -> Prios]
  /\ k.cur \in [Cores -> Threads \cup {NoThread}]
  /\ k.pend \in [Cores -> BOOLEAN]
  /\ k.entered \in [Cores -> BOOLEAN]
  /\ k.fifo \in [Cores -> 0 .. FifoDepth]
  /\ affinity \in [Threads -> SUBSET Cores]

NewScheduler ==
  [state |-> [t \in Threads |-> Invalid], prio |-> [t \in Threads |-> 0], rq |-> EmptyQueues,
   cur |-> [c \in Cores |-> NoThread], pend |-> [c \in Cores |-> FALSE],
   entered |-> [c \in Cores |-> FALSE], fifo |-> [c \in Cores |-> 0], fault |-> "none"]

Init ==
  /\ k = NewScheduler
  /\ affinity \in {a \in [Threads -> Affinities \cup {Cores}] : \A t \in Threads \ Pinned : a[t] = Cores}
  /\ changes = 2

-----------------------------------------------------------------------------
(* No request to reschedule is pending or on its way.                      *)
Settled(s) ==
  \A c \in Cores : ~s.pend[c] /\ ~s.entered[c] /\ s.fifo[c] = 0 /\ s.cur[c] # NoThread

Waiting(s, t) == {r \in Queues : In(s.rq[r], t)}

(* The cores run the highest of the runnable threads.                      *)
Assigned(s) ==
  \A t \in Threads, c \in Cores : Waiting(s, t) # {} => s.prio[t] <= RunningPrio(s, c)

(* A step of the cores (n = 0), or a call that changes what should run.    *)
Counted(s, n) ==
  /\ k.fault = "none"
  /\ k' = s
  /\ changes' = IF Settled(s) /\ Assigned(s) THEN 0 ELSE IF changes + n > 2 THEN 2 ELSE changes + n
  /\ UNCHANGED affinity

Step(s) == Counted(s, 0)
Call(s) == Counted(s, 1)

(* Until start_threading has created the idle threads.                     *)
Booting == \E t \in IdleThreads : k.state[t] = Invalid

(* The first free slot, see Scheduler.                                     *)
Unused == {t \in Threads : k.state[t] = Invalid}
FirstUnused == CHOOSE t \in Unused : \A u \in Unused : t <= u

Create(c, t, p) == SetState([k EXCEPT !.prio[t] = p], c, t, Running)

(* The threads that start with the system, then the idle ones.             *)
BootCreate(p) ==
  /\ Booting
  /\ IF FirstUnused \in IdleThreads THEN p = 0 ELSE p \in ThreadPrios
  /\ Step(Create(0, FirstUnused, p))

(* Cpu::start_threading on each core.                                      *)
StartThreading(c) ==
  /\ ~Booting
  /\ k.cur[c] = NoThread /\ ~k.pend[c] /\ ~k.entered[c]
  /\ Step(Schedule(k, c))

(* PendSV: its pending bit is cleared when the handler is entered; other   *)
(* interrupts and the other core come between that and the critical        *)
(* section of sched.                                                       *)
PendSV(c) ==
  /\ k.pend[c] /\ ~k.entered[c]
  /\ Step([k EXCEPT !.pend[c] = FALSE, !.entered[c] = TRUE])

DoSched(c) ==
  /\ k.entered[c]
  /\ Step([Sched(k, c) EXCEPT !.entered[c] = FALSE])

(* The FIFO's interrupt.                                                   *)
HandleFifoToken(c) ==
  /\ k.fifo[c] > 0
  /\ Step(Schedule([k EXCEPT !.fifo[c] = @ - 1], c))

(* Thread code runs when its core is in no handler.  An idle thread makes  *)
(* no calls.                                                               *)
Calls(c) ==
  /\ k.cur[c] # NoThread /\ ~k.pend[c] /\ ~k.entered[c]
  /\ k.cur[c] \notin IdleThreads

DoPark(c) == Calls(c) /\ Call(SetState(k, c, k.cur[c], Parked))
DoYield(c) == Calls(c) /\ Call(YieldSame(k, c))
DoExit(c) == Calls(c) /\ Call(SetState(k, c, k.cur[c], Invalid))

DoCreate(c, p) ==
  /\ Calls(c) /\ Unused # {}
  /\ EarlyWakes \/ CoresOf(k, FirstUnused) = {}
  /\ Call(Create(c, FirstUnused, p))

(* Threads and interrupt handlers on core c.                               *)
DoUnpark(c, t) ==
  /\ k.state[t] = Parked
  /\ EarlyWakes \/ CoresOf(k, t) = {}
  /\ Call(SetState(k, c, t, Running))

DoSetPriority(c, t, p) ==
  /\ t \notin IdleThreads /\ k.prio[t] # p
  /\ Call(SetPriority(k, c, t, p))

Next ==
  \/ \E p \in Prios : BootCreate(p)
  \/ \E c \in Cores :
    \/ StartThreading(c) \/ PendSV(c) \/ DoSched(c) \/ HandleFifoToken(c)
    \/ DoPark(c) \/ DoYield(c) \/ DoExit(c)
    \/ \E t \in Threads : DoUnpark(c, t)
    \/ \E t \in Threads, p \in ThreadPrios : DoSetPriority(c, t, p)
    \/ \E p \in ThreadPrios : DoCreate(c, p)

Spec == Init /\ [][Next]_vars

-----------------------------------------------------------------------------

(* "This prevents that a thread is picked multiple times by the scheduler  *)
(* when it is invoked on different cores": get_next_tid takes the thread   *)
(* out of the runqueue, and a thread runs on one core at a time.           *)
NotOnTwoCores ==
  \A c, d \in Cores : c # d => k.cur[c] = NoThread \/ k.cur[c] # k.cur[d]

(* Every runnable thread either runs on one core or waits in the runqueue  *)
(* of its priority, after any interleaving of the cores' schedulers with   *)
(* calls from both; sched always finds a thread, and no assertion fails.   *)
RunnableOnce ==
  /\ \A t \in Threads :
       IF k.state[t] # Running THEN Waiting(k, t) = {}
       ELSE \/ Cardinality(CoresOf(k, t)) = 1 /\ Waiting(k, t) = {}
            \/ CoresOf(k, t) = {} /\ Waiting(k, t) = {k.prio[t]}
  /\ k.fault = "none"

(* No request to reschedule is lost, also when the FIFO is full or PendSV  *)
(* is pending already: once everything has settled, no thread waits while  *)
(* all the cores that it may run on run lower priorities.                  *)
HighestRuns ==
  Settled(k) => \A t \in Threads : Waiting(k, t) # {} =>
                  \E c \in affinity[t] : k.prio[t] <= RunningPrio(k, c)

(* After one call that finds the highest threads running, from a thread or *)
(* an interrupt handler on either core, the cores settle with the highest  *)
(* threads running again: the request goes to the core with the lowest     *)
(* running priority.  It is stated for threads without an affinity.        *)
OneCallFollowed ==
  Settled(k) /\ changes <= 1 /\ (\A t \in Threads : affinity[t] = Cores) => Assigned(k)

(* The documentation's claim for any number of calls: "the scheduler       *)
(* assigns the C highest-priority, ready [...] threads to the C available  *)
(* cores".                                                                 *)
HighestRunOnAll == Settled(k) => Assigned(k)
=============================================================================
