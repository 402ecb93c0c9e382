----------------------------- MODULE SmpProofs -----------------------------
(***************************************************************************)
(* The multi-core scheduler, for every number of threads, priorities and   *)
(* affinities and every depth of the FIFO, when no thread is woken before  *)
(* its core has left it: a runnable thread runs on one core or waits in    *)
(* one runqueue, no request to reschedule is lost, and one call is         *)
(* followed by the right assignment.                                       *)
(***************************************************************************)
EXTENDS Smp, RunQueueProofs, FiniteSetTheorems

SmpType ==
  [state   : [Threads -> {Running, Parked, Invalid}],
   prio    : [Threads -> Prios],
   rq      : QueuesType,
   cur     : [Cores -> Threads \cup {NoThread}],
   pend    : [Cores -> BOOLEAN],
   entered : [Cores -> BOOLEAN],
   fifo    : [Cores -> 0 .. FifoDepth],
   fault   : {"none"}]    \* no assertion has failed

AffinityOK(a) == /\ a \in [Threads -> (SUBSET Cores) \ {{}}]
                 /\ \A t \in IdleThreads : a[t] = Cores

(* A request to reschedule is pending on core c or on its way.             *)
Asked(s, c) == s.pend[c] \/ s.entered[c] \/ s.fifo[c] > 0

(* Runnable, and no core's current thread.                                 *)
Free(s, t) == s.state[t] = Running /\ \A c \in Cores : s.cur[c] # t

(* The runqueue holds the free threads, each once and at its priority.     *)
Placed(s) ==
  /\ QueuedOnce(s.rq)
  /\ \A t \in Threads, r \in Queues : In(s.rq[r], t) <=> Free(s, t) /\ s.prio[t] = r
  /\ s.cur[0] = s.cur[1] => s.cur[0] = NoThread

(* A core whose thread is not runnable is about to leave it.               *)
StoppedAsks(s) ==
  \A c \in Cores : s.cur[c] # NoThread /\ s.state[s.cur[c]] # Running
                   => s.pend[c] \/ s.entered[c]

(* The idle threads never stop, and nothing runs before they exist.        *)
IdleOK(s) ==
  /\ \A t \in IdleThreads : s.state[t] \in {Invalid, Running}
  /\ (\E t \in IdleThreads : s.state[t] = Invalid)
       => \A c \in Cores : s.cur[c] = NoThread /\ ~Asked(s, c)

Affine(a, s) == \A c \in Cores : s.cur[c] # NoThread => c \in a[s.cur[c]]

(* Some core that thread t may run on has nothing better to do, is asked   *)
(* to reschedule or has not started.                                       *)
Heard(a, s, t) ==
  \E c \in a[t] : \/ Asked(s, c)
                  \/ s.cur[c] = NoThread
                  \/ s.prio[t] <= s.prio[s.cur[c]]

Requested(a, s) == \A t \in Threads : Free(s, t) => Heard(a, s, t)

SInv(a, s) == /\ AffinityOK(a)
              /\ s \in SmpType
              /\ Placed(s)
              /\ StoppedAsks(s)
              /\ IdleOK(s)
              /\ Affine(a, s)
              /\ Requested(a, s)

-----------------------------------------------------------------------------
(* Small facts.                                                            *)

LEMMA CoreFacts ==
  /\ \A c \in Cores : 1 - c \in Cores /\ 1 - c # c /\ c \in Int
  /\ \A c, d \in Cores : d # c => d = 1 - c
  BY DEF Cores

LEMMA ThreadFacts ==
  /\ NoThread \notin Threads
  /\ IdleThreads \subseteq Threads
  /\ N_THREADS - 2 \in IdleThreads
  /\ N_THREADS - 1 \in IdleThreads
  /\ N_THREADS - 2 # N_THREADS - 1
  /\ \A r \in Queues : r \in Nat
  /\ \A p \in Prios : p \in Nat
  /\ 0 \in Prios
  BY SizeAssumption, PinnedAssumption, SentinelNotThread
  DEF NoThread, IdleThreads, Threads, Queues, Prios

(* The thread that the search with a filter finds.                         *)
LEMMA FilterFacts ==
  ASSUME NEW q \in QueuesType, NEW S, NEW p \in Queues, NEW u \in S, In(q[p], u)
  PROVE  \E r \in Queues :
           /\ QNextFilter(q, S) \in S
           /\ In(q[r], QNextFilter(q, S))
           /\ \A x \in Queues, t \in S : In(q[x], t) => x <= r
  <1> DEFINE hit == {rq \in Queues : \E n \in S : In(q[rq], n)}
             r == CHOOSE h \in hit : \A s \in hit : s <= h
             D == {j \in DOMAIN q[r] : q[r][j] \in S}
             i == CHOOSE j \in DOMAIN q[r] : /\ q[r][j] \in S
                                             /\ \A l \in 1 .. j - 1 : q[r][l] \notin S
  <1>1. hit \in SUBSET Queues /\ hit # {}
    OBVIOUS
  <1>2. QNextFilter(q, S) = q[r][i]
    BY <1>1 DEF QNextFilter
  <1>3. r \in hit /\ \A s \in hit : s <= r
    <2>1. \E h \in hit : \A s \in hit : s <= h
      <3> HIDE DEF hit
      <3> QED
        BY <1>1, HighestExists
    <2> HIDE DEF hit
    <2> QED
      BY <2>1
  <1>4. r \in Queues /\ \E n \in S : In(q[r], n)
    BY <1>3
  <1>5. \A x \in Queues, t \in S : In(q[x], t) => x <= r
    BY <1>3
  <1> HIDE DEF r
  <1>6. DOMAIN q[r] = 1 .. Len(q[r]) /\ Len(q[r]) \in Nat
    BY <1>4, FifoFacts
  <1>7. D \in SUBSET Nat /\ D # {}
    BY <1>4, <1>6 DEF In
  <1>8. PICK d \in D : \A m \in D : d <= m
    <2> HIDE DEF D
    <2> QED
      BY <1>7, LowestExists
  <1>9. d \in DOMAIN q[r] /\ q[r][d] \in S /\ \A l \in 1 .. d - 1 : q[r][l] \notin S
    <2>1. d \in 1 .. Len(q[r]) /\ q[r][d] \in S
      BY <1>6, <1>8
    <2>2. ASSUME NEW l \in 1 .. d - 1, q[r][l] \in S PROVE FALSE
      <3>1. l \in DOMAIN q[r] /\ l < d /\ l \in Nat /\ d \in Nat
        BY <1>6, <2>1
      <3>2. d <= l
        BY <1>8, <2>2, <3>1
      <3> QED
        BY <3>1, <3>2
    <2> QED
      BY <1>6, <2>1, <2>2
  <1>10. i \in DOMAIN q[r] /\ q[r][i] \in S
    BY <1>9
  <1> QED
    BY <1>2, <1>4, <1>5, <1>10 DEF In

-----------------------------------------------------------------------------
(* Requests.                                                               *)

(* From s to n only requests were added.                                   *)
MoreAsked(s, n) ==
  /\ n \in SmpType
  /\ n.state = s.state
  /\ n.prio = s.prio
  /\ n.rq = s.rq
  /\ n.cur = s.cur
  /\ n.fault = s.fault
  /\ n.entered = s.entered
  /\ \A c \in Cores : /\ s.pend[c] => n.pend[c]
                      /\ s.fifo[c] > 0 => n.fifo[c] > 0

(* A request to core id arrives there; without others it is the only one.  *)
AsksCore(s, n, id) ==
  /\ MoreAsked(s, n)
  /\ Asked(n, id)
  /\ \A c \in Cores : (\A d \in Cores : ~Asked(s, d)) /\ c # id => ~Asked(n, c)

LEMMA ScheduleFacts ==
  ASSUME NEW s \in SmpType, NEW c \in Cores
  PROVE  AsksCore(s, Schedule(s, c), c)
  BY DEF AsksCore, MoreAsked, Asked, Schedule, SmpType

LEMMA ScheduleOtherFacts ==
  ASSUME NEW s \in SmpType, NEW c \in Cores
  PROVE  AsksCore(s, ScheduleOtherCore(s, c), 1 - c)
  <1> DEFINE n == ScheduleOtherCore(s, c)
             o == 1 - c
  <1>1. o \in Cores /\ o # c /\ \A d \in Cores : d # o => d = c
    BY DEF Cores
  <1>2. s.fifo \in [Cores -> 0 .. FifoDepth] /\ s.fifo[o] \in 0 .. FifoDepth /\ FifoDepth \in Nat \ {0}
    BY <1>1, FifoAssumption DEF SmpType
  <1> HIDE DEF o
  <1>3. CASE s.fifo[o] < FifoDepth
    <2>1. n = [s EXCEPT !.fifo[o] = s.fifo[o] + 1]
      BY <1>3 DEF ScheduleOtherCore, o
    <2>2. s.fifo[o] + 1 \in 0 .. FifoDepth /\ s.fifo[o] + 1 > 0
      BY <1>2, <1>3
    <2>3. n \in SmpType
      BY <1>1, <2>1, <2>2 DEF SmpType
    <2>4. n.fifo[o] = s.fifo[o] + 1 /\ \A d \in Cores : d # o => n.fifo[d] = s.fifo[d]
      BY <1>1, <1>2, <2>1 DEF SmpType
    <2>5. /\ n.state = s.state /\ n.prio = s.prio /\ n.rq = s.rq /\ n.cur = s.cur
          /\ n.fault = s.fault /\ n.entered = s.entered /\ n.pend = s.pend
      BY <2>1 DEF SmpType
    <2> HIDE DEF n
    <2> QED
      BY <2>2, <2>3, <2>4, <2>5 DEF AsksCore, MoreAsked, Asked, n, o
  <1>4. CASE ~(s.fifo[o] < FifoDepth)
    <2>1. n = s
      BY <1>4 DEF ScheduleOtherCore, o
    <2>2. s.fifo[o] > 0
      BY <1>2, <1>4
    <2> QED
      BY <1>1, <2>1, <2>2 DEF AsksCore, MoreAsked, Asked, o
  <1> QED
    BY <1>3, <1>4

LEMMA ScheduleOnCoreFacts ==
  ASSUME NEW s \in SmpType, NEW c \in Cores, NEW id \in Cores
  PROVE  LET n == ScheduleOnCore(s, c, id)
         IN  /\ MoreAsked(s, n)
             /\ Asked(n, id)
             /\ (\A d \in Cores : ~Asked(s, d)) => AsksCore(s, n, id)
  <1>1. CASE id = c /\ ~s.pend[c]
    BY <1>1, ScheduleFacts DEF ScheduleOnCore, AsksCore
  <1>2. CASE id = c /\ s.pend[c]
    <2>1. AsksCore(s, ScheduleOtherCore(s, c), 1 - c)
      BY ScheduleOtherFacts
    <2> QED
      BY <1>2, <2>1 DEF ScheduleOnCore, AsksCore, Asked, MoreAsked
  <1>3. CASE id # c
    <2>1. id = 1 - c
      BY <1>3, CoreFacts
    <2> QED
      BY <1>3, <2>1, ScheduleOtherFacts DEF ScheduleOnCore, AsksCore
  <1> QED
    BY <1>1, <1>2, <1>3

LEMMA RunningPrioFacts ==
  ASSUME NEW s \in SmpType, NEW c \in Cores
  PROVE  /\ RunningPrio(s, c) \in Int
         /\ s.cur[c] # NoThread => /\ s.cur[c] \in Threads
                                   /\ RunningPrio(s, c) = s.prio[s.cur[c]]
                                   /\ RunningPrio(s, c) \in Nat
  <1>1. s.cur[c] \in Threads \cup {NoThread}
    BY DEF SmpType
  <1>2. s.cur[c] \in Threads => s.prio[s.cur[c]] \in Nat
    BY ThreadFacts DEF SmpType
  <1> QED
    BY <1>1, <1>2, ThreadFacts DEF RunningPrio

(* The core with the lowest running priority that t may run on.            *)
LEMMA LowestCoreFacts ==
  ASSUME NEW s \in SmpType, AffinityOK(affinity), NEW t \in Threads
  PROVE  /\ LowestCore(s, t) \in affinity[t]
         /\ LowestCore(s, t) \in Cores
         /\ \A d \in affinity[t] : RunningPrio(s, LowestCore(s, t)) <= RunningPrio(s, d)
  <1> DEFINE P(c) == \A d \in affinity[t] : \/ RunningPrio(s, c) < RunningPrio(s, d)
                                            \/ RunningPrio(s, c) = RunningPrio(s, d) /\ c <= d
             x == RunningPrio(s, 0)
             y == RunningPrio(s, 1)
  <1>1. affinity[t] \in SUBSET Cores /\ affinity[t] # {}
    BY DEF AffinityOK
  <1>2. x \in Int /\ y \in Int
    BY RunningPrioFacts DEF Cores
  <1>3. affinity[t] = {0} \/ affinity[t] = {1} \/ affinity[t] = {0, 1}
    BY <1>1 DEF Cores
  <1>4. \E c \in affinity[t] : P(c)
    <2>1. CASE affinity[t] = {0}
      BY <1>2, <2>1
    <2>2. CASE affinity[t] = {1}
      BY <1>2, <2>2
    <2>3. CASE affinity[t] = {0, 1} /\ x <= y
      BY <1>2, <2>3
    <2>4. CASE affinity[t] = {0, 1} /\ y < x
      BY <1>2, <2>4
    <2> QED
      BY <1>2, <1>3, <2>1, <2>2, <2>3, <2>4
  <1>5. LowestCore(s, t) \in affinity[t] /\ P(LowestCore(s, t))
    BY <1>4 DEF LowestCore
  <1>6. \A d \in Cores : RunningPrio(s, d) \in Int
    BY RunningPrioFacts
  <1> QED
    BY <1>1, <1>5, <1>6

(* schedule_if_higher_prio: thread t is heard.  Requests start with the    *)
(* first core.                                                             *)
LEMMA IfHigherFacts ==
  ASSUME NEW s \in SmpType, AffinityOK(affinity), NEW t \in Threads, NEW c \in Cores
  PROVE  LET n == ScheduleIfHigherPrio(s, c, t)
         IN  /\ MoreAsked(s, n)
             /\ Heard(affinity, n, t)
             /\ (\A d \in Cores : s.cur[d] = NoThread) => n = s
  <1> DEFINE n == ScheduleIfHigherPrio(s, c, t)
             core == LowestCore(s, t)
  <1>1. core \in affinity[t] /\ core \in Cores
    BY LowestCoreFacts
  <1>2. /\ RunningPrio(s, core) \in Int
        /\ s.cur[core] # NoThread => RunningPrio(s, core) = s.prio[s.cur[core]]
    BY <1>1, RunningPrioFacts
  <1>3. s.prio[t] \in Nat
    BY ThreadFacts DEF SmpType
  <1> HIDE DEF core
  <1>4. CASE s.cur[core] # NoThread /\ RunningPrio(s, core) < s.prio[t]
    <2>1. n = ScheduleOnCore(s, c, core)
      BY <1>4 DEF ScheduleIfHigherPrio, core
    <2> QED
      BY <1>1, <1>4, <2>1, ScheduleOnCoreFacts DEF Heard
  <1>5. CASE ~(s.cur[core] # NoThread /\ RunningPrio(s, core) < s.prio[t])
    <2>1. n = s
      BY <1>5 DEF ScheduleIfHigherPrio, core
    <2>2. s.cur[core] = NoThread \/ s.prio[t] <= s.prio[s.cur[core]]
      BY <1>2, <1>3, <1>5
    <2> QED
      BY <1>1, <2>1, <2>2 DEF Heard, MoreAsked
  <1> QED
    BY <1>4, <1>5

-----------------------------------------------------------------------------
(* The methods keep SInv.                                                  *)

(* Before the idle threads exist.                                          *)
Boots(s) == \E t \in IdleThreads : s.state[t] = Invalid

(* A step that only moves requests along, or adds some.                    *)
LEMMA RequestStep ==
  ASSUME NEW a, NEW s, SInv(a, s), NEW n \in SmpType,
         n.state = s.state, n.prio = s.prio, n.rq = s.rq, n.cur = s.cur, n.fault = s.fault,
         \A c \in Cores : /\ Asked(s, c) => Asked(n, c)
                          /\ s.pend[c] \/ s.entered[c] => n.pend[c] \/ n.entered[c],
         Boots(s) => \A c \in Cores : Asked(n, c) => Asked(s, c)
  PROVE  SInv(a, n)
  <1>1. \A t \in Threads : Free(n, t) <=> Free(s, t)
    BY DEF Free
  <1>2. Placed(n)
    BY <1>1 DEF SInv, Placed
  <1>3. StoppedAsks(n)
    BY DEF SInv, StoppedAsks
  <1>4. IdleOK(n)
    BY DEF SInv, IdleOK, Boots
  <1>5. Affine(a, n)
    BY DEF SInv, Affine
  <1>6. ASSUME NEW t \in Threads, Free(n, t) PROVE Heard(a, n, t)
    <2>1. PICK c \in a[t] : Asked(s, c) \/ s.cur[c] = NoThread \/ s.prio[t] <= s.prio[s.cur[c]]
      BY <1>1, <1>6 DEF SInv, Requested, Heard
    <2>2. c \in Cores
      BY DEF SInv, AffinityOK
    <2> QED
      BY <2>1, <2>2 DEF Heard
  <1> QED
    BY <1>2, <1>3, <1>4, <1>5, <1>6 DEF SInv, Requested

(* set_state to Running of a thread that no core has, with a priority.     *)
WakeEffect(s, n, t, p) ==
  /\ n \in SmpType
  /\ n.state = [s.state EXCEPT ![t] = Running]
  /\ n.prio = [s.prio EXCEPT ![t] = p]
  /\ n.cur = s.cur
  /\ n.fault = s.fault
  /\ n.entered = s.entered
  /\ \A c \in Cores : /\ s.pend[c] => n.pend[c]
                      /\ s.fifo[c] > 0 => n.fifo[c] > 0
  /\ (\A c \in Cores : s.cur[c] = NoThread) => n.pend = s.pend /\ n.fifo = s.fifo
  /\ QueuedOnce(n.rq)
  /\ \A r \in Queues, u \in Threads : In(n.rq[r], u) <=> In(s.rq[r], u) \/ (r = p /\ u = t)
  /\ Heard(affinity, n, t)

(* Before the requests.                                                    *)
Woken(s, t, p) == RqAdd([s EXCEPT !.prio[t] = p, !.state[t] = Running], t)

WokenEffect(s, m, t, p) ==
  /\ m \in SmpType
  /\ m.state = [s.state EXCEPT ![t] = Running]
  /\ m.prio = [s.prio EXCEPT ![t] = p]
  /\ m.cur = s.cur /\ m.pend = s.pend /\ m.entered = s.entered /\ m.fifo = s.fifo

LEMMA WakeFacts ==
  ASSUME NEW s, SInv(affinity, s), NEW t \in Threads, s.state[t] # Running,
         NEW p \in Prios, NEW c \in Cores
  PROVE  LET n == SetState([s EXCEPT !.prio[t] = p], c, t, Running)
         IN  /\ n = ScheduleIfHigherPrio(Woken(s, t, p), c, t)
             /\ WokenEffect(s, Woken(s, t, p), t, p)
             /\ WakeEffect(s, n, t, p)
  <1> DEFINE s1 == [s EXCEPT !.prio[t] = p, !.state[t] = Running]
             m == RqAdd(s1, t)
             n == SetState([s EXCEPT !.prio[t] = p], c, t, Running)
             q == QAdd(s.rq, t, p)
  <1>1. s \in SmpType /\ AffinityOK(affinity) /\ p \in Queues
    BY DEF SInv, Prios
  <1>2. /\ s1 \in SmpType
        /\ s1.state = [s.state EXCEPT ![t] = Running]
        /\ s1.prio = [s.prio EXCEPT ![t] = p]
        /\ s1.prio[t] = p
        /\ s1.rq = s.rq /\ s1.cur = s.cur /\ s1.pend = s.pend /\ s1.entered = s.entered
        /\ s1.fifo = s.fifo /\ s1.fault = s.fault
    BY <1>1 DEF SmpType
  <1>3. n = ScheduleIfHigherPrio(m, c, t)
    BY <1>1 DEF SetState, SmpType
  <1>4. \A r \in Queues : ~In(s.rq[r], t)
    BY DEF SInv, Placed, Free
  <1>5. s.rq \in QueuesType /\ QueuedOnce(s.rq)
    BY <1>1 DEF SInv, Placed, SmpType
  <1>6. /\ q \in QueuesType
        /\ QueuedOnce(q)
        /\ \A r \in Queues, u \in Threads : In(q[r], u) <=> In(s.rq[r], u) \/ (r = p /\ u = t)
    BY <1>1, <1>4, <1>5, AddFacts
  <1> HIDE DEF s1, q
  <1>7. m = [s1 EXCEPT !.rq = q]
    BY <1>2, <1>4 DEF RqAdd, q
  <1>8. /\ m \in SmpType /\ m.rq = q
        /\ m.state = s1.state /\ m.prio = s1.prio /\ m.cur = s1.cur /\ m.pend = s1.pend
        /\ m.entered = s1.entered /\ m.fifo = s1.fifo /\ m.fault = s1.fault
    BY <1>2, <1>6, <1>7 DEF SmpType
  <1> HIDE DEF m, n
  <1>9. /\ MoreAsked(m, n)
        /\ Heard(affinity, n, t)
        /\ (\A d \in Cores : m.cur[d] = NoThread) => n = m
    BY <1>1, <1>3, <1>8, IfHigherFacts
  <1>10. WakeEffect(s, n, t, p)
    BY <1>2, <1>6, <1>8, <1>9 DEF WakeEffect, MoreAsked
  <1>11. m = Woken(s, t, p)
    BY DEF m, s1, Woken
  <1>12. WokenEffect(s, m, t, p)
    BY <1>2, <1>8 DEF WokenEffect
  <1> QED
    BY <1>3, <1>10, <1>11, <1>12 DEF n

LEMMA WakeStep ==
  ASSUME NEW s, SInv(affinity, s), NEW t \in Threads, s.state[t] # Running,
         \A c \in Cores : s.cur[c] # t,
         NEW p \in Prios, NEW n, WakeEffect(s, n, t, p)
  PROVE  SInv(affinity, n)
  <1>1. AffinityOK(affinity) /\ s \in SmpType /\ n \in SmpType
    BY DEF SInv, WakeEffect
  <1>2. /\ n.state[t] = Running /\ n.prio[t] = p /\ n.cur = s.cur
        /\ \A u \in Threads : u # t => n.state[u] = s.state[u] /\ n.prio[u] = s.prio[u]
    BY <1>1 DEF WakeEffect, SmpType
  <1>3. \A u \in Threads : Free(n, u) <=> Free(s, u) \/ u = t
    BY <1>2 DEF Free
  <1>4. ~Free(s, t)
    BY DEF Free
  <1>5. Placed(n)
    <2>1. \A u \in Threads, r \in Queues : In(n.rq[r], u) <=> Free(n, u) /\ n.prio[u] = r
      BY <1>2, <1>3, <1>4 DEF WakeEffect, SInv, Placed
    <2> QED
      BY <2>1 DEF WakeEffect, SInv, Placed
  <1>6. \A c \in Cores : s.cur[c] # NoThread => s.cur[c] \in Threads /\ s.cur[c] # t
    BY <1>1 DEF SmpType
  <1>7. \A c \in Cores : s.entered[c] = n.entered[c] /\ (Asked(s, c) => Asked(n, c))
    BY DEF WakeEffect, Asked
  <1>8. StoppedAsks(n)
    BY <1>2, <1>6, <1>7 DEF WakeEffect, SInv, StoppedAsks
  <1>9. IdleOK(n)
    <2>1. \A u \in IdleThreads : n.state[u] \in {Invalid, Running}
      BY <1>2, ThreadFacts DEF SInv, IdleOK
    <2>2. ASSUME NEW u \in IdleThreads, n.state[u] = Invalid, NEW c \in Cores
          PROVE  n.cur[c] = NoThread /\ ~Asked(n, c)
      <3>1. s.state[u] = Invalid
        BY <1>2, <2>2, ThreadFacts DEF Running, Invalid
      <3>2. \A d \in Cores : s.cur[d] = NoThread /\ ~Asked(s, d)
        BY <3>1 DEF SInv, IdleOK
      <3> QED
        BY <1>2, <3>2 DEF WakeEffect, Asked
    <2> QED
      BY <2>1, <2>2 DEF IdleOK
  <1>10. Affine(affinity, n)
    BY <1>2 DEF SInv, Affine
  <1>11. ASSUME NEW u \in Threads, Free(n, u) PROVE Heard(affinity, n, u)
    <2>1. CASE u = t
      BY <2>1 DEF WakeEffect
    <2>2. CASE u # t
      <3>1. PICK c \in affinity[u] :
              Asked(s, c) \/ s.cur[c] = NoThread \/ s.prio[u] <= s.prio[s.cur[c]]
        BY <1>3, <1>11, <2>2 DEF SInv, Requested, Heard
      <3>2. c \in Cores
        BY <1>1 DEF AffinityOK
      <3>3. s.cur[c] # NoThread => n.prio[s.cur[c]] = s.prio[s.cur[c]]
        BY <1>2, <1>6, <3>2
      <3> QED
        BY <1>2, <1>7, <2>2, <3>1, <3>2, <3>3 DEF Heard
    <2> QED
      BY <2>1, <2>2
  <1> QED
    BY <1>1, <1>5, <1>8, <1>9, <1>10, <1>11 DEF SInv, Requested

(* set_state of the thread that runs on core c, to another state.          *)
StopEffect(s, n, c, new) ==
  /\ n \in SmpType
  /\ n.state = [s.state EXCEPT ![s.cur[c]] = new]
  /\ n.prio = s.prio
  /\ n.rq = s.rq
  /\ n.cur = s.cur
  /\ n.fault = s.fault
  /\ n.entered = s.entered
  /\ n.fifo = s.fifo
  /\ n.pend = [s.pend EXCEPT ![c] = TRUE]

LEMMA StopFacts ==
  ASSUME NEW s \in SmpType, NEW c \in Cores, s.cur[c] \in Threads, s.state[s.cur[c]] = Running,
         NEW new \in {Parked, Invalid}
  PROVE  StopEffect(s, SetState(s, c, s.cur[c], new), c, new)
  <1>1. new # Running
    BY DEF Running, Parked, Invalid
  <1>2. PICK t \in Threads : t = s.cur[c]
    OBVIOUS
  <1>3. PICK n : n = [s EXCEPT !.state[t] = new, !.pend[c] = TRUE]
    OBVIOUS
  <1>4. SetState(s, c, t, new) = n
    BY <1>1, <1>2, <1>3 DEF SetState, Schedule
  <1>5. n \in SmpType
    BY <1>3 DEF SmpType
  <1>6. /\ n.state = [s.state EXCEPT ![t] = new]
        /\ n.pend = [s.pend EXCEPT ![c] = TRUE]
        /\ n.prio = s.prio /\ n.rq = s.rq /\ n.cur = s.cur /\ n.fault = s.fault
        /\ n.entered = s.entered /\ n.fifo = s.fifo
    BY <1>3 DEF SmpType
  <1> QED
    BY <1>2, <1>4, <1>5, <1>6 DEF StopEffect

LEMMA StopStep ==
  ASSUME NEW a, NEW s, SInv(a, s), NEW c \in Cores, s.cur[c] \in Threads,
         s.state[s.cur[c]] = Running, s.cur[c] \notin IdleThreads,
         NEW new \in {Parked, Invalid}, NEW n, StopEffect(s, n, c, new)
  PROVE  SInv(a, n)
  <1>1. AffinityOK(a) /\ s \in SmpType /\ n \in SmpType /\ new # Running
    BY DEF SInv, StopEffect, Running, Parked, Invalid
  <1>2. /\ n.state[s.cur[c]] = new /\ n.cur = s.cur /\ n.prio = s.prio
        /\ \A u \in Threads : u # s.cur[c] => n.state[u] = s.state[u]
    BY <1>1 DEF StopEffect, SmpType
  <1>3. \A u \in Threads : Free(n, u) <=> Free(s, u)
    BY <1>1, <1>2 DEF Free
  <1>4. Placed(n)
    BY <1>3 DEF StopEffect, SInv, Placed
  <1>5. /\ n.pend[c] = TRUE
        /\ \A d \in Cores : d # c => n.pend[d] = s.pend[d]
        /\ \A d \in Cores : Asked(s, d) => Asked(n, d)
    BY <1>1 DEF StopEffect, SmpType, Asked
  <1>6. \A d \in Cores : d # c => s.cur[d] # s.cur[c]
    BY ThreadFacts DEF SInv, Placed, Cores
  <1>7. StoppedAsks(n)
    <2> SUFFICES ASSUME NEW d \in Cores, n.cur[d] # NoThread, n.state[n.cur[d]] # Running
                 PROVE  n.pend[d] \/ n.entered[d]
      BY DEF StoppedAsks
    <2>1. CASE d = c
      BY <1>5, <2>1
    <2>2. CASE d # c
      <3>1. s.cur[d] \in Threads
        BY <1>1, <1>2 DEF SmpType
      <3>2. s.state[s.cur[d]] # Running
        BY <1>2, <1>6, <2>2, <3>1
      <3> QED
        BY <1>2, <1>5, <2>2, <3>2 DEF StopEffect, SInv, StoppedAsks
    <2> QED
      BY <2>1, <2>2
  <1>8. IdleOK(n)
    <2>1. \A u \in IdleThreads : n.state[u] = s.state[u]
      BY <1>2, ThreadFacts
    <2>2. ~(\E u \in IdleThreads : s.state[u] = Invalid)
      BY ThreadFacts DEF SInv, IdleOK
    <2> QED
      BY <2>1, <2>2 DEF SInv, IdleOK
  <1>9. Affine(a, n)
    BY <1>2 DEF SInv, Affine
  <1>10. ASSUME NEW u \in Threads, Free(n, u) PROVE Heard(a, n, u)
    <2>1. PICK d \in a[u] : Asked(s, d) \/ s.cur[d] = NoThread \/ s.prio[u] <= s.prio[s.cur[d]]
      BY <1>3, <1>10 DEF SInv, Requested, Heard
    <2>2. d \in Cores
      BY <1>1 DEF AffinityOK
    <2> QED
      BY <1>2, <1>5, <2>1, <2>2 DEF Heard
  <1> QED
    BY <1>1, <1>4, <1>7, <1>8, <1>9, <1>10 DEF SInv, Requested

(* set_priority of a thread that is not runnable, or that runs.            *)
RepriosEffect(s, n, t, p) ==
  /\ n \in SmpType
  /\ n.state = s.state
  /\ n.prio = [s.prio EXCEPT ![t] = p]
  /\ n.rq = s.rq
  /\ n.cur = s.cur
  /\ n.fault = s.fault
  /\ n.entered = s.entered
  /\ \A c \in Cores : /\ s.pend[c] => n.pend[c]
                      /\ s.fifo[c] > 0 => n.fifo[c] > 0

(* ... and one that waits.                                                 *)
RequeueEffect(s, n, t, p) ==
  /\ n \in SmpType
  /\ n.state = s.state
  /\ n.prio = [s.prio EXCEPT ![t] = p]
  /\ n.cur = s.cur
  /\ n.fault = s.fault
  /\ n.entered = s.entered
  /\ \A c \in Cores : /\ s.pend[c] => n.pend[c]
                      /\ s.fifo[c] > 0 => n.fifo[c] > 0
  /\ (\A c \in Cores : s.cur[c] = NoThread) => n.pend = s.pend /\ n.fifo = s.fifo
  /\ QueuedOnce(n.rq)
  /\ \A r \in Queues, u \in Threads : In(n.rq[r], u) <=> (In(s.rq[r], u) /\ u # t) \/ (r = p /\ u = t)

(* A thread that waits leaves its runqueue for the one of its new          *)
(* priority.                                                               *)
LEMMA RequeueFacts ==
  ASSUME NEW s, SInv(affinity, s), NEW t \in Threads, Free(s, t),
         NEW p \in Prios, s.prio[t] # p
  PROVE  LET s1 == [s EXCEPT !.prio[t] = p]
             m == RqAdd([s1 EXCEPT !.rq = QDel(@, t)], t)
         IN  /\ RequeueEffect(s, m, t, p)
             /\ m.pend = s.pend /\ m.fifo = s.fifo
  <1> DEFINE s1 == [s EXCEPT !.prio[t] = p]
             d == QDel(s.rq, t)
             s2 == [s1 EXCEPT !.rq = QDel(@, t)]
             m == RqAdd(s2, t)
             q == QAdd(d, t, p)
  <1>1. s \in SmpType /\ p \in Queues /\ s.prio[t] \in Queues
    BY DEF SInv, Prios, SmpType
  <1>2. s.rq \in QueuesType /\ QueuedOnce(s.rq) /\ In(s.rq[s.prio[t]], t)
    BY <1>1 DEF SInv, Placed, SmpType
  <1>3. Removed(s.rq, d, t, s.prio[t])
    BY <1>1, <1>2, DelFacts
  <1>4. /\ d \in QueuesType
        /\ QueuedOnce(d)
        /\ \A r \in Queues, u \in Threads : In(d[r], u) <=> In(s.rq[r], u) /\ u # t
    BY <1>3 DEF Removed
  <1>5. \A r \in Queues : ~In(d[r], t)
    BY <1>4
  <1> HIDE DEF d
  <1>6. /\ q \in QueuesType
        /\ QueuedOnce(q)
        /\ \A r \in Queues, u \in Threads : In(q[r], u) <=> In(d[r], u) \/ (r = p /\ u = t)
    BY <1>1, <1>4, <1>5, AddFacts
  <1> HIDE DEF q
  <1>7. s2 = [s EXCEPT !.prio[t] = p, !.rq = d]
    BY <1>1 DEF d, SmpType
  <1>8. /\ s2 \in SmpType /\ s2.rq = d /\ s2.prio = [s.prio EXCEPT ![t] = p] /\ s2.prio[t] = p
        /\ s2.state = s.state /\ s2.cur = s.cur /\ s2.pend = s.pend /\ s2.entered = s.entered
        /\ s2.fifo = s.fifo /\ s2.fault = s.fault
    BY <1>1, <1>4, <1>7 DEF SmpType
  <1> HIDE DEF s2
  <1>9. m = [s2 EXCEPT !.rq = q]
    BY <1>5, <1>8 DEF RqAdd, q
  <1>10. /\ m \in SmpType /\ m.rq = q /\ m.prio = s2.prio
         /\ m.state = s2.state /\ m.cur = s2.cur /\ m.pend = s2.pend /\ m.entered = s2.entered
         /\ m.fifo = s2.fifo /\ m.fault = s2.fault
    BY <1>6, <1>8, <1>9 DEF SmpType
  <1> HIDE DEF m
  <1>11. RequeueEffect(s, m, t, p)
    BY <1>4, <1>6, <1>8, <1>10 DEF RequeueEffect
  <1> QED
    BY <1>8, <1>10, <1>11 DEF m, s2

(* What the cases of set_priority have in common: nothing else is lost,    *)
(* when a core whose thread got a lower priority is asked.                 *)
Reprios(s, m, t, p) ==
  /\ m \in SmpType
  /\ m.state = s.state /\ m.cur = s.cur /\ m.entered = s.entered
  /\ m.prio = [s.prio EXCEPT ![t] = p]
  /\ \A d \in Cores : /\ s.pend[d] => m.pend[d]
                      /\ s.fifo[d] > 0 => m.fifo[d] > 0
  /\ \A d \in Cores : s.cur[d] # t \/ s.prio[t] <= p \/ Asked(m, d)

Kept(a, s, m, t, p) ==
  /\ m.prio[t] = p
  /\ \A u \in Threads : u # t => m.prio[u] = s.prio[u]
  /\ \A u \in Threads : Free(m, u) <=> Free(s, u)
  /\ \A d \in Cores : Asked(s, d) => Asked(m, d)
  /\ StoppedAsks(m)
  /\ Affine(a, m)
  /\ \A u \in Threads : u # t /\ Free(m, u) => Heard(a, m, u)

LEMMA PriorityFacts ==
  ASSUME NEW a, NEW s, SInv(a, s), NEW t \in Threads, NEW p \in Prios,
         NEW m, Reprios(s, m, t, p)
  PROVE  Kept(a, s, m, t, p)
  <1>1. AffinityOK(a) /\ s \in SmpType
    BY DEF SInv
  <1>2. \A x \in Threads : s.prio[x] \in Nat
    BY <1>1, ThreadFacts DEF SmpType
  <1>3. p \in Nat
    BY ThreadFacts
  <1>4. \A d \in Cores : s.cur[d] # NoThread => s.cur[d] \in Threads
    BY <1>1 DEF SmpType
  <1> USE DEF Reprios
  <1>5. m.prio[t] = p /\ \A u \in Threads : u # t => m.prio[u] = s.prio[u]
    BY <1>1 DEF SmpType
  <1>6. \A u \in Threads : Free(m, u) <=> Free(s, u)
    BY DEF Free
  <1>7. \A d \in Cores : Asked(s, d) => Asked(m, d)
    BY DEF Asked
  <1>8. StoppedAsks(m)
    BY DEF SInv, StoppedAsks
  <1>9. Affine(a, m)
    BY DEF SInv, Affine
  <1>10. ASSUME NEW u \in Threads, u # t, Free(m, u) PROVE Heard(a, m, u)
    <2>1. PICK d \in a[u] : Asked(s, d) \/ s.cur[d] = NoThread \/ s.prio[u] <= s.prio[s.cur[d]]
      BY <1>6, <1>10 DEF SInv, Requested, Heard
    <2>2. d \in Cores
      BY <1>1 DEF AffinityOK
    <2>3. CASE Asked(s, d) \/ s.cur[d] = NoThread \/ Asked(m, d)
      BY <1>7, <2>2, <2>3 DEF Heard
    <2>4. CASE s.cur[d] # NoThread /\ s.prio[u] <= s.prio[s.cur[d]] /\ ~Asked(m, d)
      <3>1. s.cur[d] \in Threads /\ m.prio[u] = s.prio[u]
        BY <1>4, <1>5, <1>10, <2>2, <2>4
      <3>2. s.prio[s.cur[d]] <= m.prio[s.cur[d]]
        <4>1. CASE s.cur[d] = t
          BY <1>5, <2>2, <2>4, <4>1
        <4>2. CASE s.cur[d] # t
          BY <1>2, <1>5, <3>1, <4>2
        <4> QED
          BY <4>1, <4>2
      <3>3. s.prio[u] \in Nat /\ s.prio[s.cur[d]] \in Nat /\ m.prio[s.cur[d]] \in Nat
        BY <1>2, <1>3, <1>5, <3>1
      <3>4. m.prio[u] <= m.prio[m.cur[d]]
        BY <2>4, <3>1, <3>2, <3>3
      <3> QED
        BY <3>4 DEF Heard
    <2> QED
      BY <2>1, <2>3, <2>4
  <1> QED
    BY <1>5, <1>6, <1>7, <1>8, <1>9, <1>10 DEF Kept

LEMMA SetPriorityStep ==
  ASSUME NEW s, SInv(affinity, s), NEW t \in Threads, NEW p \in Prios, s.prio[t] # p,
         NEW c \in Cores
  PROVE  SInv(affinity, SetPriority(s, c, t, p))
  <1>1. AffinityOK(affinity) /\ s \in SmpType
    BY DEF SInv
  <1>2. PICK s1 : s1 = [s EXCEPT !.prio[t] = p]
    OBVIOUS
  <1>3. PICK s2 : s2 = RqAdd([s1 EXCEPT !.rq = QDel(@, t)], t)
    OBVIOUS
  <1>4. PICK n : n = SetPriority(s, c, t, p)
    OBVIOUS
  <1>5. n = IF s.state[t] = Invalid \/ s.prio[t] = p THEN s
            ELSE IF s.state[t] # Running THEN s1
            ELSE IF CoresOf(s, t) # {}
            THEN IF p < s.prio[t]
                 THEN ScheduleOnCore(s1, c, CHOOSE d \in CoresOf(s, t) : \A e \in CoresOf(s, t) : d <= e)
                 ELSE s1
            ELSE IF p > s.prio[t] THEN ScheduleIfHigherPrio(s2, c, t) ELSE s2
    BY <1>2, <1>3, <1>4 DEF SetPriority
  <1>6. /\ s1 \in SmpType
        /\ s1.prio = [s.prio EXCEPT ![t] = p]
        /\ s1.state = s.state /\ s1.rq = s.rq /\ s1.cur = s.cur /\ s1.pend = s.pend
        /\ s1.entered = s.entered /\ s1.fifo = s.fifo /\ s1.fault = s.fault
    BY <1>1, <1>2 DEF SmpType
  <1>7. p \in Nat /\ s.prio[t] \in Nat
    BY <1>1, ThreadFacts DEF SmpType
  (* Nothing runs, or a core does: its priority is only lowered with a request. *)
  <1>8. ASSUME ~Free(s, t), RepriosEffect(s, n, t, p),
               \A d \in Cores : s.cur[d] # t \/ s.prio[t] <= p \/ Asked(n, d),
               Boots(s) => \A d \in Cores : Asked(n, d) => Asked(s, d)
        PROVE  SInv(affinity, n)
    <2>1. n \in SmpType
      BY <1>8 DEF RepriosEffect
    <2>2. /\ n.prio[t] = p
          /\ \A u \in Threads : u # t => n.prio[u] = s.prio[u]
          /\ \A u \in Threads : Free(n, u) <=> Free(s, u)
          /\ StoppedAsks(n)
          /\ Affine(affinity, n)
          /\ \A u \in Threads : u # t /\ Free(n, u) => Heard(affinity, n, u)
      <3>1. Reprios(s, n, t, p)
        BY <1>8, <2>1 DEF RepriosEffect, Reprios
      <3>2. Kept(affinity, s, n, t, p)
        BY <3>1, PriorityFacts
      <3> QED
        BY <3>2 DEF Kept
    <2>3. Placed(n)
      BY <1>8, <2>2 DEF RepriosEffect, SInv, Placed
    <2>4. IdleOK(n)
      <3>1. n.state = s.state /\ n.cur = s.cur
        BY <1>8 DEF RepriosEffect
      <3>2. IdleOK(s) /\ (Boots(s) => \A d \in Cores : Asked(n, d) => Asked(s, d))
        BY <1>8 DEF SInv
      <3> QED
        BY <3>1, <3>2 DEF IdleOK, Boots
    <2> QED
      BY <1>1, <1>8, <2>1, <2>2, <2>3, <2>4 DEF SInv, Requested
  <1>9. ASSUME Free(s, t), RequeueEffect(s, n, t, p), p < s.prio[t] \/ Heard(affinity, n, t)
        PROVE  SInv(affinity, n)
    <2>1. n \in SmpType /\ \A d \in Cores : s.cur[d] # t
      BY <1>9 DEF RequeueEffect, Free
    <2>2. /\ n.prio[t] = p
          /\ \A u \in Threads : u # t => n.prio[u] = s.prio[u]
          /\ \A u \in Threads : Free(n, u) <=> Free(s, u)
          /\ \A d \in Cores : Asked(s, d) => Asked(n, d)
          /\ StoppedAsks(n)
          /\ Affine(affinity, n)
          /\ \A u \in Threads : u # t /\ Free(n, u) => Heard(affinity, n, u)
      <3>1. Reprios(s, n, t, p)
        BY <1>9, <2>1 DEF RequeueEffect, Reprios
      <3>2. Kept(affinity, s, n, t, p)
        BY <3>1, PriorityFacts
      <3> QED
        BY <3>2 DEF Kept
    <2>3. Placed(n)
      <3>1. \A u \in Threads, r \in Queues : In(n.rq[r], u) <=> Free(n, u) /\ n.prio[u] = r
        BY <1>9, <2>2 DEF RequeueEffect, SInv, Placed, Prios
      <3> QED
        BY <1>9, <3>1 DEF RequeueEffect, SInv, Placed
    <2>4. IdleOK(n)
      <3>1. /\ n.state = s.state /\ n.cur = s.cur /\ n.entered = s.entered
            /\ (\A d \in Cores : s.cur[d] = NoThread) => n.pend = s.pend /\ n.fifo = s.fifo
        BY <1>9 DEF RequeueEffect
      <3>2. (\A d \in Cores : s.cur[d] = NoThread) => \A d \in Cores : Asked(n, d) <=> Asked(s, d)
        BY <3>1 DEF Asked
      <3>3. IdleOK(s)
        BY DEF SInv
      <3> QED
        BY <3>1, <3>2, <3>3 DEF IdleOK
    <2>5. Heard(affinity, n, t)
      <3>1. CASE p < s.prio[t]
        <4>1. PICK d \in affinity[t] :
                Asked(s, d) \/ s.cur[d] = NoThread \/ s.prio[t] <= s.prio[s.cur[d]]
          BY <1>9 DEF SInv, Requested, Heard
        <4>2. d \in Cores
          BY <1>1 DEF AffinityOK
        <4>3. CASE Asked(s, d) \/ s.cur[d] = NoThread
          BY <1>9, <2>2, <4>2, <4>3 DEF Heard, RequeueEffect
        <4>4. CASE s.cur[d] # NoThread /\ s.prio[t] <= s.prio[s.cur[d]]
          <5>1. s.cur[d] \in Threads /\ s.cur[d] # t
            BY <1>1, <2>1, <4>2, <4>4 DEF SmpType
          <5>2. s.prio[s.cur[d]] \in Nat /\ n.prio[s.cur[d]] = s.prio[s.cur[d]]
            BY <1>1, <2>2, <5>1, ThreadFacts DEF SmpType
          <5>3. n.prio[t] <= n.prio[n.cur[d]]
            BY <1>7, <1>9, <2>2, <3>1, <4>4, <5>2 DEF RequeueEffect
          <5> QED
            BY <5>3 DEF Heard
        <4> QED
          BY <4>1, <4>3, <4>4
      <3> QED
        BY <1>9, <3>1
    <2> QED
      BY <1>1, <2>1, <2>2, <2>3, <2>4, <2>5 DEF SInv, Requested
  <1>10. CASE s.state[t] = Invalid
    BY <1>4, <1>5, <1>10
  <1>11. CASE s.state[t] # Invalid /\ s.state[t] # Running
    <2>1. n = s1
      BY <1>5, <1>11
    <2>2. ~Free(s, t)
      BY <1>11 DEF Free
    <2>3. RepriosEffect(s, n, t, p)
      BY <1>6, <2>1 DEF RepriosEffect
    <2>4. \A d \in Cores : s.cur[d] # t \/ Asked(n, d)
      BY <1>6, <1>11, <2>1, ThreadFacts DEF SInv, StoppedAsks, Asked
    <2>5. \A d \in Cores : Asked(n, d) => Asked(s, d)
      BY <1>6, <2>1 DEF Asked
    <2> QED
      BY <1>4, <1>8, <2>2, <2>3, <2>4, <2>5
  <1>12. CASE s.state[t] = Running /\ CoresOf(s, t) # {}
    <2>1. ~Free(s, t)
      BY <1>12 DEF Free, CoresOf
    <2>2. PICK x \in Cores : s.cur[x] = t
      BY <1>12 DEF CoresOf
    <2>3. CoresOf(s, t) = {x}
      BY <2>2, ThreadFacts DEF CoresOf, SInv, Placed, Cores
    <2>4. (CHOOSE d \in CoresOf(s, t) : \A e \in CoresOf(s, t) : d <= e) = x
      BY <2>2, <2>3, CoreFacts
    <2>5. ~Boots(s)
      BY <2>2, ThreadFacts DEF SInv, IdleOK, Boots
    <2>6. CASE p < s.prio[t]
      <3>1. n = ScheduleOnCore(s1, c, x)
        BY <1>5, <1>7, <1>12, <2>4, <2>6 DEF Running, Invalid
      <3>2. MoreAsked(s1, n) /\ Asked(n, x)
        BY <1>6, <3>1, ScheduleOnCoreFacts
      <3>3. RepriosEffect(s, n, t, p)
        BY <1>6, <3>2 DEF MoreAsked, RepriosEffect
      <3>4. \A d \in Cores : s.cur[d] # t \/ Asked(n, d)
        BY <2>3, <3>2 DEF CoresOf
      <3> QED
        BY <1>4, <1>8, <2>1, <2>5, <3>3, <3>4
    <2>7. CASE ~(p < s.prio[t])
      <3>1. n = s1
        BY <1>5, <1>12, <2>7 DEF Running, Invalid
      <3>2. RepriosEffect(s, n, t, p)
        BY <1>6, <3>1 DEF RepriosEffect
      <3>3. s.prio[t] <= p
        BY <1>7, <2>7
      <3> QED
        BY <1>4, <1>8, <2>1, <2>5, <3>2, <3>3
    <2> QED
      BY <2>6, <2>7
  <1>13. CASE s.state[t] = Running /\ CoresOf(s, t) = {}
    <2>1. Free(s, t)
      BY <1>13 DEF Free, CoresOf
    <2>2. RequeueEffect(s, s2, t, p) /\ s2.pend = s.pend /\ s2.fifo = s.fifo
      BY <1>2, <1>3, <2>1, RequeueFacts
    <2>3. CASE p > s.prio[t]
      <3>1. n = ScheduleIfHigherPrio(s2, c, t)
        BY <1>5, <1>13, <2>3 DEF Running, Invalid
      <3>2. s2 \in SmpType
        BY <2>2 DEF RequeueEffect
      <3>3. /\ MoreAsked(s2, n)
            /\ Heard(affinity, n, t)
            /\ (\A d \in Cores : s2.cur[d] = NoThread) => n = s2
        BY <1>1, <3>1, <3>2, IfHigherFacts
      <3>4. RequeueEffect(s, n, t, p)
        BY <2>2, <3>3 DEF RequeueEffect, MoreAsked
      <3> QED
        BY <1>4, <1>9, <2>1, <3>3, <3>4
    <2>4. CASE ~(p > s.prio[t])
      <3>1. n = s2
        BY <1>5, <1>13, <2>4 DEF Running, Invalid
      <3>2. p < s.prio[t]
        BY <1>7, <2>4
      <3> QED
        BY <1>4, <1>9, <2>1, <2>2, <3>1, <3>2
    <2> QED
      BY <2>3, <2>4
  <1> QED
    BY <1>10, <1>11, <1>12, <1>13

(* yield_same only asks.                                                   *)
LEMMA YieldFacts ==
  ASSUME NEW s \in SmpType, AffinityOK(affinity), NEW c \in Cores, s.cur[c] \in Threads
  PROVE  MoreAsked(s, YieldSame(s, c))
  <1>1. PICK s1 : s1 = Schedule(s, c)
    OBVIOUS
  <1>2. MoreAsked(s, s1) /\ s1 \in SmpType
    BY <1>1, ScheduleFacts DEF AsksCore, MoreAsked
  <1>3. MoreAsked(s1, ScheduleIfHigherPrio(s1, c, s.cur[c]))
    BY <1>2, IfHigherFacts
  <1>4. MoreAsked(s, ScheduleIfHigherPrio(s1, c, s.cur[c]))
    BY <1>2, <1>3 DEF MoreAsked
  <1>5. MoreAsked(s, s)
    BY DEF MoreAsked
  <1> QED
    BY <1>1, <1>2, <1>4, <1>5 DEF YieldSame

(* sched on core c, with the end of its handler: the highest of the        *)
(* threads that the core may run, its own included, becomes the current    *)
(* one.                                                                    *)
SchedEffect(s, n, c) ==
  /\ n \in SmpType
  /\ n.state = s.state
  /\ n.prio = s.prio
  /\ n.fault = s.fault
  /\ n.pend = s.pend
  /\ n.fifo = s.fifo
  /\ n.entered = [s.entered EXCEPT ![c] = FALSE]
  /\ QueuedOnce(n.rq)
  /\ n.cur[c] \in Threads
  /\ n.cur = [s.cur EXCEPT ![c] = n.cur[c]]
  /\ c \in affinity[n.cur[c]]
  /\ n.state[n.cur[c]] = Running
  /\ n.cur[c] # s.cur[1 - c]
  /\ \A r \in Queues, u \in Threads :
       In(n.rq[r], u) <=> /\ u # n.cur[c] /\ u # s.cur[1 - c]
                          /\ s.state[u] = Running /\ s.prio[u] = r
  /\ \A u \in Threads : /\ c \in affinity[u]
                        /\ s.state[u] = Running
                        /\ u # s.cur[1 - c]
                        => s.prio[u] <= s.prio[n.cur[c]]

LEMMA SchedFacts ==
  ASSUME NEW s, SInv(affinity, s), NEW c \in Cores, s.entered[c]
  PROVE  SchedEffect(s, [Sched(s, c) EXCEPT !.entered[c] = FALSE], c)
  <1>1. AffinityOK(affinity) /\ s \in SmpType
    BY DEF SInv
  <1>2. PICK o \in Cores : o = 1 - c /\ o # c /\ \A d \in Cores : d = c \/ d = o
    BY CoreFacts
  <1>3. /\ s.rq \in QueuesType /\ QueuedOnce(s.rq)
        /\ \A u \in Threads, r \in Queues : In(s.rq[r], u) <=> Free(s, u) /\ s.prio[u] = r
        /\ s.cur[c] = s.cur[o] => s.cur[c] = NoThread
    BY <1>1, <1>2 DEF SInv, Placed, SmpType, Cores
  (* add_current_thread_to_rq *)
  <1>4. PICK q : /\ AddCurrent(s, c) = [s EXCEPT !.rq = q]
                 /\ q \in QueuesType
                 /\ QueuedOnce(q)
                 /\ \A u \in Threads, r \in Queues :
                      In(q[r], u) <=> s.state[u] = Running /\ u # s.cur[o] /\ s.prio[u] = r
    <2>1. \A u \in Threads : Free(s, u) <=> s.state[u] = Running /\ u # s.cur[o] /\ u # s.cur[c]
      BY <1>2 DEF Free
    <2>2. CASE s.cur[c] # NoThread /\ s.state[s.cur[c]] = Running
      <3>1. PICK t \in Threads : t = s.cur[c]
        BY <1>1, <2>2 DEF SmpType
      <3>2. s.prio[t] \in Queues
        BY <1>1, <3>1 DEF SmpType, Prios
      <3>3. \A r \in Queues : ~In(s.rq[r], t)
        BY <1>3, <2>1, <3>1
      <3>4. PICK q : q = QAdd(s.rq, t, s.prio[t])
        OBVIOUS
      <3>5. /\ q \in QueuesType
            /\ QueuedOnce(q)
            /\ \A r \in Queues, u \in Threads :
                 In(q[r], u) <=> In(s.rq[r], u) \/ (r = s.prio[t] /\ u = t)
        BY <1>3, <3>2, <3>3, <3>4, AddFacts
      <3>6. AddCurrent(s, c) = [s EXCEPT !.rq = q]
        BY <2>2, <3>1, <3>3, <3>4 DEF AddCurrent, RqAdd
      <3>7. t # s.cur[o]
        BY <1>3, <3>1, ThreadFacts
      <3>8. \A u \in Threads, r \in Queues :
              In(q[r], u) <=> s.state[u] = Running /\ u # s.cur[o] /\ s.prio[u] = r
        BY <1>3, <2>1, <2>2, <3>1, <3>5, <3>7
      <3> QED
        BY <3>5, <3>6, <3>8
    <2>3. CASE ~(s.cur[c] # NoThread /\ s.state[s.cur[c]] = Running)
      <3>1. AddCurrent(s, c) = s
        BY <2>3 DEF AddCurrent
      <3>2. s = [s EXCEPT !.rq = s.rq]
        BY <1>1 DEF SmpType
      <3>3. \A u \in Threads, r \in Queues :
              In(s.rq[r], u) <=> s.state[u] = Running /\ u # s.cur[o] /\ s.prio[u] = r
        BY <1>3, <2>1, <2>3, ThreadFacts
      <3> QED
        BY <1>3, <3>1, <3>2, <3>3
    <2> QED
      BY <2>2, <2>3
  (* One of the idle threads is not on the other core. *)
  <1>5. PICK i \in IdleThreads : i # s.cur[o]
    BY ThreadFacts
  <1>6. i \in Threads /\ s.state[i] = Running /\ affinity[i] = Cores /\ s.prio[i] \in Queues
    <2>1. i \in Threads
      BY ThreadFacts
    <2>2. s.state[i] \in {Invalid, Running}
      BY DEF SInv, IdleOK
    <2>3. s.state[i] # Invalid
      BY DEF SInv, IdleOK, Asked
    <2> QED
      BY <1>1, <2>1, <2>2, <2>3 DEF AffinityOK, SmpType, Prios
  <1>7. In(q[s.prio[i]], i) /\ i \in AffineTo(c)
    BY <1>4, <1>5, <1>6 DEF AffineTo
  <1>8. PICK next : next = QNextFilter(q, AffineTo(c))
    OBVIOUS
  <1>9. PICK r \in Queues : /\ next \in AffineTo(c)
                            /\ In(q[r], next)
                            /\ \A x \in Queues, u \in AffineTo(c) : In(q[x], u) => x <= r
    BY <1>4, <1>6, <1>7, <1>8, FilterFacts
  <1>10. next \in Threads /\ c \in affinity[next] /\ next # NoThread
    BY <1>9, ThreadFacts DEF AffineTo
  <1>11. s.state[next] = Running /\ next # s.cur[o] /\ s.prio[next] = r
    BY <1>4, <1>9, <1>10
  <1>12. ASSUME NEW u \in Threads, c \in affinity[u], s.state[u] = Running, u # s.cur[o]
         PROVE  s.prio[u] <= s.prio[next]
    <2>1. s.prio[u] \in Queues /\ u \in AffineTo(c)
      BY <1>1, <1>12 DEF SmpType, Prios, AffineTo
    <2>2. In(q[s.prio[u]], u)
      BY <1>4, <1>12, <2>1
    <2> QED
      BY <1>9, <1>11, <2>1, <2>2
  <1>13. PICK d : d = QDel(q, next)
    OBVIOUS
  <1>14. /\ d \in QueuesType
         /\ QueuedOnce(d)
         /\ \A x \in Queues, u \in Threads : In(d[x], u) <=> In(q[x], u) /\ u # next
    <2>1. Removed(q, d, next, r)
      BY <1>4, <1>9, <1>10, <1>13, DelFacts
    <2> QED
      BY <2>1 DEF Removed
  <1>15. PICK n : n = [s EXCEPT !.rq = d, !.cur[c] = next, !.entered[c] = FALSE]
    OBVIOUS
  <1>16. [Sched(s, c) EXCEPT !.entered[c] = FALSE] = n
    <2>1. PICK s1 : s1 = AddCurrent(s, c)
      OBVIOUS
    <2>2. s1 = [s EXCEPT !.rq = q] /\ s1.rq = q
      BY <1>1, <1>4, <2>1 DEF SmpType
    <2>3. Sched(s, c) = [s1 EXCEPT !.rq = QDel(@, next), !.cur[c] = next]
      BY <1>8, <1>10, <2>1, <2>2 DEF Sched
    <2>4. Sched(s, c) = [s EXCEPT !.rq = d, !.cur[c] = next]
      BY <1>1, <1>13, <2>2, <2>3 DEF SmpType
    <2> QED
      BY <1>1, <1>15, <2>4 DEF SmpType
  <1>17. n \in SmpType
    BY <1>1, <1>10, <1>14, <1>15 DEF SmpType
  <1>18. /\ n.state = s.state /\ n.prio = s.prio /\ n.fault = s.fault /\ n.pend = s.pend
         /\ n.fifo = s.fifo /\ n.entered = [s.entered EXCEPT ![c] = FALSE] /\ n.rq = d
         /\ n.cur = [s.cur EXCEPT ![c] = next] /\ n.cur[c] = next
    BY <1>1, <1>15 DEF SmpType
  <1>19. SchedEffect(s, n, c)
    BY <1>2, <1>4, <1>10, <1>11, <1>12, <1>14, <1>17, <1>18 DEF SchedEffect
  <1> QED
    BY <1>16, <1>19

LEMMA SchedStep ==
  ASSUME NEW s, SInv(affinity, s), NEW c \in Cores, s.entered[c], NEW n, SchedEffect(s, n, c)
  PROVE  SInv(affinity, n)
  <1>1. AffinityOK(affinity) /\ s \in SmpType /\ n \in SmpType
    BY DEF SInv, SchedEffect
  <1>2. PICK o \in Cores : o = 1 - c /\ o # c /\ \A d \in Cores : d = c \/ d = o
    BY CoreFacts
  <1>3. PICK next \in Threads : next = n.cur[c]
    BY DEF SchedEffect
  <1>4. /\ n.cur[o] = s.cur[o] /\ n.state = s.state /\ n.prio = s.prio
        /\ n.pend = s.pend /\ n.fifo = s.fifo /\ n.entered[o] = s.entered[o]
        /\ n.state[next] = Running /\ c \in affinity[next] /\ next # n.cur[o] /\ next # NoThread
    BY <1>1, <1>2, <1>3, ThreadFacts DEF SchedEffect, SmpType
  <1>5. \A u \in Threads : Free(n, u) <=> s.state[u] = Running /\ u # next /\ u # s.cur[o]
    BY <1>2, <1>3, <1>4 DEF Free
  <1>6. Placed(n)
    <2>1. n.cur[0] # n.cur[1]
      BY <1>2, <1>3, <1>4 DEF Cores
    <2>2. \A u \in Threads, r \in Queues : In(n.rq[r], u) <=> Free(n, u) /\ n.prio[u] = r
      BY <1>2, <1>3, <1>4, <1>5 DEF SchedEffect
    <2> QED
      BY <2>1, <2>2 DEF SchedEffect, SInv, Placed
  <1>7. StoppedAsks(n)
    BY <1>2, <1>3, <1>4 DEF SInv, StoppedAsks
  <1>8. IdleOK(n)
    BY <1>4 DEF SInv, IdleOK, Asked
  <1>9. Affine(affinity, n)
    BY <1>2, <1>3, <1>4 DEF SInv, Affine
  <1>10. ASSUME NEW u \in Threads, Free(n, u) PROVE Heard(affinity, n, u)
    <2>1. s.state[u] = Running /\ u # next /\ u # s.cur[o]
      BY <1>5, <1>10
    <2>2. CASE c \in affinity[u]
      <3>1. n.prio[u] <= n.prio[n.cur[c]]
        BY <1>2, <1>3, <1>4, <2>1, <2>2 DEF SchedEffect
      <3> QED
        BY <2>2, <3>1 DEF Heard
    <2>3. CASE c \notin affinity[u]
      <3>1. Free(s, u)
        <4>1. u # s.cur[c]
          BY <2>3, ThreadFacts DEF SInv, Affine
        <4> QED
          BY <1>2, <2>1, <4>1 DEF Free
      <3>2. PICK d \in affinity[u] : Asked(s, d) \/ s.cur[d] = NoThread \/ s.prio[u] <= s.prio[s.cur[d]]
        BY <3>1 DEF SInv, Requested, Heard
      <3>3. d = o
        BY <1>1, <1>2, <2>3 DEF AffinityOK
      <3>4. Asked(s, o) => Asked(n, o)
        BY <1>4 DEF Asked
      <3> QED
        BY <1>4, <3>2, <3>3, <3>4 DEF Heard
    <2> QED
      BY <2>2, <2>3
  <1> QED
    BY <1>1, <1>6, <1>7, <1>8, <1>9, <1>10 DEF SInv, Requested

-----------------------------------------------------------------------------
(* One call, followed by the cores.                                        *)

(* No free thread other than t is above what a core runs.                  *)
Below(s, t) ==
  \A u \in Threads : u # t /\ Free(s, u) => \A c \in Cores : s.prio[u] <= RunningPrio(s, c)

(* Core d will reschedule and the other one will not.  Of the threads that *)
(* core d chooses from, one at most is above the thread of the other core. *)
Following(s) ==
  \E d \in Cores :
    /\ s.cur[d] # NoThread
    /\ s.cur[1 - d] # NoThread
    /\ Asked(s, d)
    /\ ~Asked(s, 1 - d)
    /\ \A u, v \in Threads :
         /\ u # v /\ u # s.cur[1 - d] /\ v # s.cur[1 - d]
         /\ s.state[u] = Running /\ s.state[v] = Running
         => s.prio[u] <= s.prio[s.cur[1 - d]] \/ s.prio[v] <= s.prio[s.cur[1 - d]]

LEMMA SettledIs ==
  ASSUME NEW s \in SmpType
  PROVE  Settled(s) <=> \A c \in Cores : ~Asked(s, c) /\ s.cur[c] # NoThread
  <1>1. \A c \in Cores : s.fifo[c] \in Nat
    BY FifoAssumption DEF SmpType
  <1>2. \A c \in Cores : s.fifo[c] = 0 <=> ~(s.fifo[c] > 0)
    BY <1>1
  <1> QED
    BY <1>2 DEF Settled, Asked

LEMMA AssignedIs ==
  ASSUME NEW a, NEW s, SInv(a, s)
  PROVE  Assigned(s) <=> Below(s, NoThread)
  <1>1. \A u \in Threads : Waiting(s, u) # {} <=> Free(s, u)
    <2>1. \A u \in Threads : s.prio[u] \in Queues
      BY DEF SInv, SmpType, Prios
    <2>2. \A u \in Threads, r \in Queues : In(s.rq[r], u) <=> Free(s, u) /\ s.prio[u] = r
      BY DEF SInv, Placed
    <2> QED
      BY <2>1, <2>2 DEF Waiting
  <1> QED
    BY <1>1, ThreadFacts DEF Assigned, Below

(* Core d is the only one that is asked, and its own thread or the free    *)
(* thread t is the only one that may be above the other core's.            *)
LEMMA AskedFollows ==
  ASSUME NEW s \in SmpType, \A c \in Cores : ~Asked(s, c) /\ s.cur[c] # NoThread,
         NEW d \in Cores, NEW n, AsksCore(s, n, d),
         NEW t \in Threads,
         \A u \in Threads : u # t /\ Free(s, u) => s.prio[u] <= RunningPrio(s, 1 - d),
         s.cur[d] # t => RunningPrio(s, d) <= RunningPrio(s, 1 - d)
  PROVE  Following(n)
  <1>1. PICK e \in Cores : e = 1 - d /\ e # d /\ \A x \in Cores : x = d \/ x = e
    BY CoreFacts
  <1>2. /\ n.state = s.state /\ n.prio = s.prio /\ n.cur = s.cur /\ n \in SmpType
        /\ Asked(n, d) /\ ~Asked(n, e)
    BY <1>1 DEF AsksCore, MoreAsked
  <1>3. \A x \in Cores : s.cur[x] \in Threads /\ RunningPrio(s, x) = s.prio[s.cur[x]]
    BY RunningPrioFacts
  <1>4. ASSUME NEW u \in Threads, u # t, u # s.cur[e], s.state[u] = Running
        PROVE  s.prio[u] <= s.prio[s.cur[e]]
    <2>1. CASE u = s.cur[d]
      BY <1>1, <1>3, <1>4, <2>1
    <2>2. CASE u # s.cur[d]
      <3>1. Free(s, u)
        BY <1>1, <1>4, <2>2 DEF Free
      <3> QED
        BY <1>1, <1>3, <1>4, <3>1
    <2> QED
      BY <2>1, <2>2
  <1>5. \A u, v \in Threads :
         /\ u # v /\ u # n.cur[e] /\ v # n.cur[e]
         /\ n.state[u] = Running /\ n.state[v] = Running
         => n.prio[u] <= n.prio[n.cur[e]] \/ n.prio[v] <= n.prio[n.cur[e]]
    BY <1>2, <1>4
  <1> QED
    BY <1>1, <1>2, <1>5 DEF Following

(* schedule_if_higher_prio is followed.                                    *)
LEMMA IfHigherFollows ==
  ASSUME NEW s \in SmpType, AffinityOK(affinity), NEW t \in Threads, affinity[t] = Cores,
         \A c \in Cores : ~Asked(s, c) /\ s.cur[c] # NoThread, Free(s, t), Below(s, t),
         NEW c \in Cores
  PROVE  LET n == ScheduleIfHigherPrio(s, c, t)
         IN  Following(n) \/ (n = s /\ Below(s, NoThread))
  <1>1. PICK d \in Cores : d = LowestCore(s, t) /\ \A x \in Cores : RunningPrio(s, d) <= RunningPrio(s, x)
    BY LowestCoreFacts
  <1>2. PICK n : n = ScheduleIfHigherPrio(s, c, t)
    OBVIOUS
  <1>3. CASE RunningPrio(s, d) < s.prio[t]
    <2>1. n = ScheduleOnCore(s, c, d)
      BY <1>1, <1>2, <1>3 DEF ScheduleIfHigherPrio
    <2>2. AsksCore(s, n, d)
      BY <2>1, ScheduleOnCoreFacts
    <2>3. RunningPrio(s, d) <= RunningPrio(s, 1 - d)
      BY <1>1, CoreFacts
    <2>4. \A u \in Threads : u # t /\ Free(s, u) => s.prio[u] <= RunningPrio(s, 1 - d)
      BY CoreFacts DEF Below
    <2>5. Following(n)
      BY <2>2, <2>3, <2>4, AskedFollows
    <2> QED
      BY <1>2, <2>5
  <1>4. CASE ~(RunningPrio(s, d) < s.prio[t])
    <2>1. n = s
      BY <1>1, <1>2, <1>4 DEF ScheduleIfHigherPrio
    <2>2. s.prio[t] \in Nat /\ \A x \in Cores : RunningPrio(s, x) \in Int
      BY RunningPrioFacts, ThreadFacts DEF SmpType
    <2>3. \A x \in Cores : s.prio[t] <= RunningPrio(s, x)
      BY <1>1, <1>4, <2>2
    <2>4. Below(s, NoThread)
      BY <2>3 DEF Below
    <2> QED
      BY <1>2, <2>1, <2>4
  <1> QED
    BY <1>3, <1>4

(* The cores are on their way to the right assignment, or have it.         *)
Followed(s) == Following(s) \/ (Settled(s) /\ Assigned(s))

AllCores == \A t \in Threads : affinity[t] = Cores

LEMMA WakeFollowed ==
  ASSUME NEW s, SInv(affinity, s), AllCores, Settled(s), Assigned(s),
         NEW t \in Threads, s.state[t] # Running, \A c \in Cores : s.cur[c] # t,
         NEW p \in Prios, NEW c \in Cores,
         SInv(affinity, SetState([s EXCEPT !.prio[t] = p], c, t, Running))
  PROVE  Followed(SetState([s EXCEPT !.prio[t] = p], c, t, Running))
  <1>1. s \in SmpType /\ AffinityOK(affinity) /\ affinity[t] = Cores
    BY DEF SInv, AllCores
  <1>2. PICK n : n = SetState([s EXCEPT !.prio[t] = p], c, t, Running)
    OBVIOUS
  <1> DEFINE m == Woken(s, t, p)
  <1>3. /\ n = ScheduleIfHigherPrio(m, c, t)
        /\ m \in SmpType
        /\ m.state = [s.state EXCEPT ![t] = Running] /\ m.prio = [s.prio EXCEPT ![t] = p]
        /\ m.cur = s.cur /\ m.pend = s.pend /\ m.entered = s.entered /\ m.fifo = s.fifo
    <2>1. WokenEffect(s, m, t, p) /\ n = ScheduleIfHigherPrio(m, c, t)
      BY <1>2, WakeFacts
    <2> QED
      BY <2>1 DEF WokenEffect
  <1> HIDE DEF m
  <1>4. /\ m.state[t] = Running
        /\ \A u \in Threads : u # t => m.state[u] = s.state[u] /\ m.prio[u] = s.prio[u]
    BY <1>1, <1>3 DEF SmpType
  <1>5. \A d \in Cores : ~Asked(m, d) /\ m.cur[d] # NoThread
    BY <1>1, <1>3, SettledIs DEF Asked
  <1>6. Free(m, t)
    BY <1>3, <1>4 DEF Free
  <1>7. \A d \in Cores : RunningPrio(m, d) = RunningPrio(s, d)
    BY <1>1, <1>3, <1>4 DEF RunningPrio, SmpType
  <1>8. Below(m, t)
    <2>1. Below(s, NoThread)
      BY AssignedIs
    <2>2. \A u \in Threads : u # t /\ Free(m, u) => Free(s, u)
      BY <1>3, <1>4 DEF Free
    <2> QED
      BY <1>4, <1>7, <2>1, <2>2, ThreadFacts DEF Below
  <1>9. CASE Following(n)
    BY <1>2, <1>9 DEF Followed
  <1>10. CASE n = m /\ Below(m, NoThread)
    <2>1. Assigned(n)
      BY <1>2, <1>10, AssignedIs
    <2>2. Settled(n)
      BY <1>3, <1>5, <1>10, SettledIs
    <2> QED
      BY <1>2, <2>1, <2>2 DEF Followed
  <1> QED
    BY <1>1, <1>3, <1>5, <1>6, <1>8, <1>9, <1>10, IfHigherFollows

LEMMA StopFollowed ==
  ASSUME NEW s, SInv(affinity, s), Settled(s), Assigned(s), NEW c \in Cores,
         NEW new \in {Parked, Invalid}, NEW n, StopEffect(s, n, c, new)
  PROVE  Followed(n)
  <1>1. s \in SmpType /\ new # Running
    BY DEF SInv, Running, Parked, Invalid
  <1>2. PICK e \in Cores : e = 1 - c /\ e # c /\ \A x \in Cores : x = c \/ x = e
    BY CoreFacts
  <1>3. \A d \in Cores : ~Asked(s, d) /\ s.cur[d] # NoThread
    BY <1>1, SettledIs
  <1>4. \A d \in Cores : s.cur[d] \in Threads /\ RunningPrio(s, d) = s.prio[s.cur[d]]
    BY <1>1, <1>3, RunningPrioFacts
  <1>5. /\ n.cur = s.cur /\ n.prio = s.prio /\ Asked(n, c) /\ ~Asked(n, e)
    BY <1>1, <1>2, <1>3 DEF StopEffect, Asked, SmpType
  <1>6. ASSUME NEW u \in Threads, u # n.cur[e], n.state[u] = Running
        PROVE  n.prio[u] <= n.prio[n.cur[e]]
    <2>1. u # s.cur[c] /\ s.state[u] = Running
      BY <1>1, <1>4, <1>6 DEF StopEffect, SmpType
    <2>2. Free(s, u)
      BY <1>2, <1>5, <1>6, <2>1 DEF Free
    <2>3. Below(s, NoThread) /\ u # NoThread
      BY AssignedIs, ThreadFacts
    <2> QED
      BY <1>4, <1>5, <2>2, <2>3 DEF Below
  <1> QED
    BY <1>2, <1>3, <1>5, <1>6 DEF Followed, Following

LEMMA YieldFollowed ==
  ASSUME NEW s, SInv(affinity, s), AllCores, Settled(s), Assigned(s), NEW c \in Cores
  PROVE  Followed(YieldSame(s, c))
  <1>1. s \in SmpType /\ AffinityOK(affinity)
    BY DEF SInv
  <1>2. \A d \in Cores : ~Asked(s, d) /\ s.cur[d] # NoThread
    BY <1>1, SettledIs
  <1>3. \A d \in Cores : s.cur[d] \in Threads /\ RunningPrio(s, d) = s.prio[s.cur[d]]
                         /\ RunningPrio(s, d) \in Nat
    BY <1>1, <1>2, RunningPrioFacts
  <1>4. PICK t \in Threads : t = s.cur[c]
    BY <1>3
  <1>5. PICK s1 : s1 = Schedule(s, c)
    OBVIOUS
  <1>6. AsksCore(s, s1, c) /\ s1 \in SmpType /\ s1.cur = s.cur /\ s1.prio = s.prio
    BY <1>1, <1>5, ScheduleFacts DEF AsksCore, MoreAsked
  <1>7. s.prio[t] \in Queues
    BY <1>1 DEF SmpType, Prios
  <1>8. CASE s.rq[s.prio[t]] = <<>>
    BY <1>4, <1>8 DEF YieldSame, Followed
  <1>9. CASE s.rq[s.prio[t]] # <<>>
    <2>1. PICK h \in Threads : In(s.rq[s.prio[t]], h)
      <3>1. s.rq \in QueuesType
        BY <1>1 DEF SmpType
      <3> QED
        BY <1>7, <1>9, <3>1, FifoFacts
    <2>2. Free(s, h) /\ s.prio[h] = s.prio[t] /\ h # NoThread
      BY <1>7, <2>1, ThreadFacts DEF SInv, Placed
    <2>3. Below(s, NoThread)
      BY AssignedIs
    <2>4. \A d \in Cores : s.prio[t] <= RunningPrio(s, d)
      BY <2>2, <2>3 DEF Below
    <2>5. \A d \in Cores : RunningPrio(s1, d) = RunningPrio(s, d)
      BY <1>6 DEF RunningPrio
    <2>6. LowestCore(s1, t) \in Cores
      BY <1>1, <1>6, LowestCoreFacts
    <2>7. ~(RunningPrio(s1, LowestCore(s1, t)) < s1.prio[t])
      <3>1. s.prio[t] \in Nat
        BY <1>3, <1>4
      <3> QED
        BY <1>3, <1>6, <2>4, <2>5, <2>6, <3>1
    <2>8. ScheduleIfHigherPrio(s1, c, t) = s1
      BY <2>7 DEF ScheduleIfHigherPrio
    <2>9. YieldSame(s, c) = s1
      BY <1>4, <1>5, <1>9, <2>8 DEF YieldSame
    <2>10. \A u \in Threads : u # t /\ Free(s, u) => s.prio[u] <= RunningPrio(s, 1 - c)
      BY <2>3, CoreFacts, ThreadFacts DEF Below
    <2>11. Following(s1)
      BY <1>1, <1>2, <1>4, <1>6, <2>10, AskedFollows
    <2> QED
      BY <2>9, <2>11 DEF Followed
  <1> QED
    BY <1>8, <1>9

(* What a changed priority of thread t does to the running priorities.     *)
LEMMA RunningPrioAfter ==
  ASSUME NEW s \in SmpType, NEW n \in SmpType, n.cur = s.cur, NEW t \in Threads,
         NEW p \in Prios, n.prio = [s.prio EXCEPT ![t] = p], NEW c \in Cores
  PROVE  /\ s.cur[c] # t => RunningPrio(n, c) = RunningPrio(s, c)
         /\ s.cur[c] = t => RunningPrio(n, c) = p /\ RunningPrio(s, c) = s.prio[t]
  BY ThreadFacts DEF RunningPrio, SmpType

LEMMA SetPriorityFollowed ==
  ASSUME NEW s, SInv(affinity, s), AllCores, Settled(s), Assigned(s),
         NEW t \in Threads, NEW p \in Prios, s.prio[t] # p, NEW c \in Cores,
         SInv(affinity, SetPriority(s, c, t, p))
  PROVE  Followed(SetPriority(s, c, t, p))
  <1>1. AffinityOK(affinity) /\ s \in SmpType /\ affinity[t] = Cores
    BY DEF SInv, AllCores
  <1>2. PICK s1 : s1 = [s EXCEPT !.prio[t] = p]
    OBVIOUS
  <1>3. PICK s2 : s2 = RqAdd([s1 EXCEPT !.rq = QDel(@, t)], t)
    OBVIOUS
  <1>4. PICK n : n = SetPriority(s, c, t, p)
    OBVIOUS
  <1>5. n = IF s.state[t] = Invalid \/ s.prio[t] = p THEN s
            ELSE IF s.state[t] # Running THEN s1
            ELSE IF CoresOf(s, t) # {}
            THEN IF p < s.prio[t]
                 THEN ScheduleOnCore(s1, c, CHOOSE d \in CoresOf(s, t) : \A e \in CoresOf(s, t) : d <= e)
                 ELSE s1
            ELSE IF p > s.prio[t] THEN ScheduleIfHigherPrio(s2, c, t) ELSE s2
    BY <1>2, <1>3, <1>4 DEF SetPriority
  <1>6. /\ s1 \in SmpType
        /\ s1.prio = [s.prio EXCEPT ![t] = p]
        /\ s1.state = s.state /\ s1.rq = s.rq /\ s1.cur = s.cur /\ s1.pend = s.pend
        /\ s1.entered = s.entered /\ s1.fifo = s.fifo /\ s1.fault = s.fault
    BY <1>1, <1>2 DEF SmpType
  <1>7. p \in Nat /\ \A u \in Threads : s.prio[u] \in Nat
    BY <1>1, ThreadFacts DEF SmpType
  <1>8. \A d \in Cores : ~Asked(s, d) /\ s.cur[d] # NoThread
    BY <1>1, SettledIs
  <1>9. \A d \in Cores : /\ s.cur[d] \in Threads /\ RunningPrio(s, d) \in Nat
                         /\ s.state[s.cur[d]] = Running
    BY <1>1, <1>8, RunningPrioFacts DEF SInv, StoppedAsks, Asked
  <1>10. Below(s, NoThread)
    BY AssignedIs
  (* No thread that is current got a lower priority, no waiting one a higher. *)
  <1>11. ASSUME NEW m \in SmpType, m.cur = s.cur, m.state = s.state,
                m.prio = [s.prio EXCEPT ![t] = p], NEW x \in Threads \cup {NoThread},
                (\E d \in Cores : s.cur[d] = t) => s.prio[t] <= p,
                Free(s, t) => p <= s.prio[t] \/ x = t
         PROVE  Below(m, x)
    <2> SUFFICES ASSUME NEW u \in Threads, u # x, Free(m, u), NEW d \in Cores
                 PROVE  m.prio[u] <= RunningPrio(m, d)
      BY DEF Below
    <2>1. Free(s, u)
      BY <1>11 DEF Free
    <2>2. s.prio[u] <= RunningPrio(s, d)
      BY <1>10, <2>1, ThreadFacts DEF Below
    <2>3. m.prio[u] \in Nat /\ m.prio[u] <= s.prio[u]
      BY <1>1, <1>7, <1>11, <2>1 DEF SmpType
    <2>4. RunningPrio(s, d) <= RunningPrio(m, d) /\ RunningPrio(m, d) \in Nat
      <3>1. CASE s.cur[d] = t
        BY <1>1, <1>7, <1>11, <3>1, RunningPrioAfter
      <3>2. CASE s.cur[d] # t
        <4>1. RunningPrio(m, d) = RunningPrio(s, d)
          BY <1>1, <1>11, <3>2, RunningPrioAfter
        <4> QED
          BY <1>9, <4>1
      <3> QED
        BY <3>1, <3>2
    <2> QED
      BY <1>7, <1>9, <2>2, <2>3, <2>4
  <1>12. ASSUME n \in SmpType, n.cur = s.cur, n.pend = s.pend, n.entered = s.entered,
                n.fifo = s.fifo, Below(n, NoThread)
         PROVE  Followed(n)
    <2>1. Assigned(n)
      BY <1>4, <1>12, AssignedIs
    <2>2. \A d \in Cores : ~Asked(n, d) /\ n.cur[d] # NoThread
      BY <1>8, <1>12 DEF Asked
    <2> QED
      BY <1>12, <2>1, <2>2, SettledIs DEF Followed
  <1>13. CASE s.state[t] = Invalid
    BY <1>4, <1>5, <1>13 DEF Followed
  <1>14. CASE s.state[t] # Invalid /\ s.state[t] # Running
    <2>1. n = s1
      BY <1>5, <1>14
    <2>2. \A d \in Cores : s.cur[d] # t
      BY <1>9, <1>14
    <2>3. ~Free(s, t)
      BY <1>14 DEF Free
    <2>4. Below(s1, NoThread)
      BY <1>6, <1>11, <2>2, <2>3
    <2> QED
      BY <1>4, <1>6, <1>12, <2>1, <2>4
  <1>15. CASE s.state[t] = Running /\ CoresOf(s, t) # {}
    <2>1. PICK x \in Cores : s.cur[x] = t
      BY <1>15 DEF CoresOf
    <2>2. CoresOf(s, t) = {x}
      BY <2>1, ThreadFacts DEF CoresOf, SInv, Placed, Cores
    <2>3. (CHOOSE d \in CoresOf(s, t) : \A e \in CoresOf(s, t) : d <= e) = x
      BY <2>1, <2>2, CoreFacts
    <2>4. ~Free(s, t)
      BY <2>1 DEF Free
    <2>5. CASE p < s.prio[t]
      <3>1. n = ScheduleOnCore(s1, c, x)
        BY <1>5, <1>7, <1>15, <2>3, <2>5 DEF Running, Invalid
      <3>2. \A d \in Cores : ~Asked(s1, d) /\ s1.cur[d] # NoThread
        BY <1>6, <1>8 DEF Asked
      <3>3. AsksCore(s1, n, x)
        BY <1>6, <3>1, <3>2, ScheduleOnCoreFacts
      <3>4. PICK e \in Cores : e = 1 - x /\ e # x
        BY CoreFacts
      <3>5. RunningPrio(s1, e) = RunningPrio(s, e)
        <4>1. s.cur[e] # t
          BY <2>1, <2>2, <3>4 DEF CoresOf
        <4> QED
          BY <1>1, <1>6, <4>1, RunningPrioAfter
      <3>6. ASSUME NEW u \in Threads, u # t, Free(s1, u)
            PROVE  s1.prio[u] <= RunningPrio(s1, e)
        <4>1. Free(s, u) /\ s1.prio[u] = s.prio[u]
          BY <1>1, <1>6, <3>6 DEF Free, SmpType
        <4> QED
          BY <1>10, <3>5, <4>1, ThreadFacts DEF Below
      <3>7. Following(n)
        BY <1>6, <2>1, <3>2, <3>3, <3>4, <3>6, AskedFollows
      <3> QED
        BY <1>4, <3>7 DEF Followed
    <2>6. CASE ~(p < s.prio[t])
      <3>1. n = s1
        BY <1>5, <1>15, <2>6 DEF Running, Invalid
      <3>2. s.prio[t] <= p
        BY <1>7, <2>6
      <3>3. Below(s1, NoThread)
        BY <1>6, <1>11, <2>4, <3>2
      <3> QED
        BY <1>4, <1>6, <1>12, <3>1, <3>3
    <2> QED
      BY <2>5, <2>6
  <1>16. CASE s.state[t] = Running /\ CoresOf(s, t) = {}
    <2>1. Free(s, t) /\ \A d \in Cores : s.cur[d] # t
      BY <1>16 DEF Free, CoresOf
    <2>2. RequeueEffect(s, s2, t, p) /\ s2.pend = s.pend /\ s2.fifo = s.fifo
      BY <1>2, <1>3, <2>1, RequeueFacts
    <2>3. /\ s2 \in SmpType /\ s2.cur = s.cur /\ s2.state = s.state /\ s2.entered = s.entered
          /\ s2.prio = [s.prio EXCEPT ![t] = p]
      BY <2>2 DEF RequeueEffect
    <2>4. CASE p > s.prio[t]
      <3>1. n = ScheduleIfHigherPrio(s2, c, t)
        BY <1>5, <1>16, <2>4 DEF Running, Invalid
      <3>2. Free(s2, t)
        BY <2>1, <2>3 DEF Free
      <3>3. Below(s2, t)
        BY <1>11, <2>1, <2>3
      <3>4. \A d \in Cores : ~Asked(s2, d) /\ s2.cur[d] # NoThread
        BY <1>8, <2>2, <2>3 DEF Asked
      <3>5. Following(n) \/ (n = s2 /\ Below(s2, NoThread))
        BY <1>1, <2>3, <3>1, <3>2, <3>3, <3>4, IfHigherFollows
      <3> QED
        BY <1>4, <1>12, <2>2, <2>3, <3>5 DEF Followed
    <2>5. CASE ~(p > s.prio[t])
      <3>1. n = s2
        BY <1>5, <1>16, <2>5 DEF Running, Invalid
      <3>2. p <= s.prio[t]
        BY <1>7, <2>5
      <3>3. Below(s2, NoThread)
        BY <1>11, <2>1, <2>3, <3>2
      <3> QED
        BY <1>4, <1>12, <2>2, <2>3, <3>1, <3>3
    <2> QED
      BY <2>4, <2>5
  <1> QED
    BY <1>13, <1>14, <1>15, <1>16

(* sched on the core that was asked completes the assignment.              *)
LEMMA SchedFollowed ==
  ASSUME NEW s, SInv(affinity, s), AllCores, Following(s), NEW c \in Cores, s.entered[c],
         NEW n, SchedEffect(s, n, c), SInv(affinity, n)
  PROVE  Followed(n)
  <1>1. PICK d \in Cores :
          /\ s.cur[d] # NoThread /\ s.cur[1 - d] # NoThread
          /\ Asked(s, d) /\ ~Asked(s, 1 - d)
          /\ \A u, v \in Threads :
               /\ u # v /\ u # s.cur[1 - d] /\ v # s.cur[1 - d]
               /\ s.state[u] = Running /\ s.state[v] = Running
               => s.prio[u] <= s.prio[s.cur[1 - d]] \/ s.prio[v] <= s.prio[s.cur[1 - d]]
    BY DEF Following
  <1>2. d = c
    <2>1. Asked(s, c)
      BY DEF Asked
    <2> QED
      BY <1>1, <2>1, CoreFacts
  <1>3. PICK e \in Cores : e = 1 - c /\ e # c /\ \A x \in Cores : x = c \/ x = e
    BY CoreFacts
  <1>4. s \in SmpType /\ n \in SmpType
    BY DEF SInv
  <1>5. PICK next \in Threads : next = n.cur[c]
    BY DEF SchedEffect
  <1>6. /\ n.state = s.state /\ n.prio = s.prio /\ n.pend = s.pend /\ n.fifo = s.fifo
        /\ n.cur[e] = s.cur[e] /\ n.entered[e] = s.entered[e] /\ s.state[next] = Running
        /\ next # s.cur[e]
    BY <1>3, <1>4, <1>5 DEF SchedEffect, SmpType
  <1>7. /\ n.cur[c] # NoThread /\ n.cur[e] # NoThread /\ ~Asked(n, e)
    BY <1>1, <1>2, <1>3, <1>5, <1>6, ThreadFacts DEF Asked
  <1>8. /\ n.cur[e] \in Threads /\ n.prio[n.cur[e]] \in Nat /\ n.prio[next] \in Nat
        /\ RunningPrio(n, e) = n.prio[n.cur[e]]
        /\ RunningPrio(n, c) = n.prio[next]
    BY <1>4, <1>5, <1>7, RunningPrioFacts
  <1>9. ASSUME NEW u \in Threads, u # next, u # s.cur[e], s.state[u] = Running
        PROVE  n.prio[u] <= n.prio[next] /\ n.prio[u] <= n.prio[n.cur[e]]
    <2>1. affinity[u] = Cores
      BY DEF AllCores
    <2>2. n.prio[u] <= n.prio[next]
      BY <1>3, <1>5, <1>6, <1>9, <2>1 DEF SchedEffect
    <2>3. n.prio[u] <= n.prio[n.cur[e]] \/ n.prio[next] <= n.prio[n.cur[e]]
      BY <1>1, <1>2, <1>3, <1>6, <1>9
    <2>4. n.prio[u] \in Nat
      BY <1>4, ThreadFacts DEF SmpType
    <2> QED
      BY <1>8, <2>2, <2>3, <2>4
  <1>10. Assigned(n)
    <2>1. Below(n, NoThread)
      BY <1>3, <1>5, <1>6, <1>8, <1>9 DEF Below, Free
    <2> QED
      BY <2>1, AssignedIs
  <1>11. CASE Asked(n, c)
    BY <1>3, <1>6, <1>7, <1>9, <1>11 DEF Followed, Following
  <1>12. CASE ~Asked(n, c)
    <2>1. Settled(n)
      BY <1>3, <1>4, <1>7, <1>12, SettledIs
    <2> QED
      BY <1>10, <2>1 DEF Followed
  <1> QED
    BY <1>11, <1>12

-----------------------------------------------------------------------------
(* The specification.                                                      *)

IInv == /\ SInv(affinity, k)
        /\ changes \in 0 .. 2
        /\ changes = 0 => Settled(k) /\ Assigned(k)
        /\ AllCores /\ changes = 1 => Following(k)

LEMMA InitIInv ==
  ASSUME Init PROVE IInv
  <1>1. k \in SmpType
    <2>1. EmptyQueues \in QueuesType
      BY EmptySeq DEF EmptyQueues, QueuesType
    <2>2. 0 \in 0 .. FifoDepth
      BY FifoAssumption
    <2>3. /\ [t \in Threads |-> Invalid] \in [Threads -> {Running, Parked, Invalid}]
          /\ [t \in Threads |-> 0] \in [Threads -> Prios]
          /\ [c \in Cores |-> NoThread] \in [Cores -> Threads \cup {NoThread}]
          /\ [c \in Cores |-> FALSE] \in [Cores -> BOOLEAN]
          /\ [c \in Cores |-> 0] \in [Cores -> 0 .. FifoDepth]
      BY <2>2, ThreadFacts
    <2>4. ASSUME NEW x1 \in [Threads -> {Running, Parked, Invalid}], NEW x2 \in [Threads -> Prios],
                 NEW x3 \in QueuesType, NEW x4 \in [Cores -> Threads \cup {NoThread}],
                 NEW x5 \in [Cores -> BOOLEAN], NEW x6 \in [Cores -> 0 .. FifoDepth]
          PROVE  [state |-> x1, prio |-> x2, rq |-> x3, cur |-> x4, pend |-> x5,
                  entered |-> x5, fifo |-> x6, fault |-> "none"] \in SmpType
      BY DEF SmpType
    <2>5. NewScheduler \in SmpType
      BY <2>1, <2>3, <2>4 DEF NewScheduler
    <2> QED
      BY <2>5 DEF Init
  <1>2. AffinityOK(affinity)
    <2>1. affinity \in [Threads -> (SUBSET Cores) \ {{}}]
      <3>1. Cores # {} /\ Affinities \cup {Cores} \subseteq (SUBSET Cores) \ {{}}
        BY AffinityAssumption DEF Cores
      <3>2. affinity \in [Threads -> Affinities \cup {Cores}]
        BY DEF Init
      <3> QED
        BY <3>1, <3>2
    <2>2. \A t \in IdleThreads : affinity[t] = Cores
      BY PinnedAssumption, ThreadFacts DEF Init
    <2> QED
      BY <2>1, <2>2 DEF AffinityOK
  <1>3. /\ \A t \in Threads : k.state[t] = Invalid
        /\ \A c \in Cores : k.cur[c] = NoThread /\ ~Asked(k, c)
        /\ k.fault = "none"
        /\ \A r \in Queues : k.rq[r] = <<>>
    BY DEF Init, NewScheduler, EmptyQueues, Asked
  <1>4. \A t \in Threads : ~Free(k, t)
    BY <1>3 DEF Free, Running, Invalid
  <1>5. Placed(k)
    <2>1. \A r \in Queues : DOMAIN k.rq[r] = {}
      BY <1>3
    <2>2. QueuedOnce(k.rq)
      BY <2>1 DEF QueuedOnce
    <2>3. \A t \in Threads, r \in Queues : ~In(k.rq[r], t)
      BY <2>1 DEF In
    <2> QED
      BY <1>3, <1>4, <2>2, <2>3 DEF Placed, Cores
  <1>6. StoppedAsks(k) /\ Affine(affinity, k)
    BY <1>3 DEF StoppedAsks, Affine
  <1>7. IdleOK(k)
    BY <1>3, ThreadFacts DEF IdleOK
  <1>8. Requested(affinity, k)
    BY <1>4 DEF Requested
  <1> QED
    BY <1>1, <1>2, <1>5, <1>6, <1>7, <1>8 DEF IInv, SInv, Init

(* The slot that create takes.                                             *)
LEMMA FirstUnusedFacts ==
  ASSUME Unused # {}
  PROVE  FirstUnused \in Threads /\ k.state[FirstUnused] = Invalid
  <1>1. Unused \in SUBSET Nat
    BY DEF Unused, Threads
  <1>2. \E t \in Unused : \A u \in Unused : t <= u
    BY <1>1, LowestExists
  <1>3. FirstUnused \in Unused
    BY <1>2 DEF FirstUnused
  <1> QED
    BY <1>3 DEF Unused

(* A step of Counted, when its result keeps SInv and is followed.          *)
LEMMA CountedStep ==
  ASSUME IInv, NEW s, NEW x \in {0, 1}, Counted(s, x), SInv(affinity, s),
         AllCores /\ changes + x = 1 => Followed(s),
         changes + x = 0 => Settled(s) /\ Assigned(s)
  PROVE  IInv'
  <1>1. k' = s /\ affinity' = affinity
    BY DEF Counted
  <1>2. changes' = IF Settled(s) /\ Assigned(s) THEN 0 ELSE IF changes + x > 2 THEN 2 ELSE changes + x
    BY DEF Counted
  <1>3. changes \in 0 .. 2
    BY DEF IInv
  <1>4. changes' \in 0 .. 2
    BY <1>2, <1>3
  <1>5. changes' = 0 => Settled(s) /\ Assigned(s)
    BY <1>2, <1>3
  <1>6. AllCores /\ changes' = 1 => Following(s)
    BY <1>2, <1>3 DEF Followed
  <1>7. AllCores' <=> AllCores
    BY <1>1 DEF AllCores
  <1> QED
    BY <1>1, <1>4, <1>5, <1>6, <1>7 DEF IInv

(* A call, which may be the first one since the cores settled.             *)
LEMMA CallStep ==
  ASSUME IInv, NEW s, Call(s), SInv(affinity, s),
         AllCores /\ Settled(k) /\ Assigned(k) => Followed(s)
  PROVE  IInv'
  <1>1. changes \in 0 .. 2 /\ Counted(s, 1)
    BY DEF IInv, Call
  <1>2. changes + 1 # 0 /\ (changes + 1 = 1 => changes = 0)
    BY <1>1
  <1>3. AllCores /\ changes + 1 = 1 => Followed(s)
    BY <1>2 DEF IInv
  <1> QED
    BY <1>1, <1>2, <1>3, CountedStep

(* A step of a core.                                                       *)
LEMMA CoreStep ==
  ASSUME IInv, NEW s, Step(s), SInv(affinity, s), ~Settled(k),
         AllCores /\ Following(k) => Followed(s)
  PROVE  IInv'
  <1>1. changes \in 0 .. 2 /\ Counted(s, 0) /\ changes # 0
    BY DEF IInv, Step
  <1>2. changes + 0 = changes
    BY <1>1
  <1>3. AllCores /\ changes + 0 = 1 => Followed(s)
    BY <1>2 DEF IInv
  <1> QED
    BY <1>1, <1>2, <1>3, CountedStep

LEMMA NextIInv ==
  ASSUME ~EarlyWakes, IInv, [Next]_vars PROVE IInv'
  <1>1. SInv(affinity, k) /\ AffinityOK(affinity) /\ k \in SmpType
    BY DEF IInv, SInv
  <1>2. CASE UNCHANGED vars
    <2>1. k' = k /\ affinity' = affinity /\ changes' = changes
      BY <1>2 DEF vars
    <2>2. AllCores' <=> AllCores
      BY <2>1 DEF AllCores
    <2> QED
      BY <2>1, <2>2 DEF IInv
  <1>3. ASSUME NEW p \in Prios, BootCreate(p) PROVE IInv'
    <2>1. Boots(k)
      BY <1>3 DEF BootCreate, Booting, Boots
    <2>2. \A c \in Cores : k.cur[c] = NoThread
      BY <1>1, <2>1 DEF SInv, IdleOK, Boots
    <2>3. Unused # {}
      BY <2>1, ThreadFacts DEF Boots, Unused
    <2>4. PICK t \in Threads : t = FirstUnused /\ k.state[t] = Invalid
      BY <2>3, FirstUnusedFacts
    <2>5. k.state[t] # Running /\ \A c \in Cores : k.cur[c] # t
      BY <2>2, <2>4, ThreadFacts DEF Running, Invalid
    <2>6. PICK n : n = SetState([k EXCEPT !.prio[t] = p], 0, t, Running)
      OBVIOUS
    <2>7. Step(n)
      BY <1>3, <2>4, <2>6 DEF BootCreate, Create
    <2>8. 0 \in Cores
      BY DEF Cores
    <2>9. WakeEffect(k, n, t, p)
      BY <1>1, <2>5, <2>6, <2>8, WakeFacts
    <2>10. SInv(affinity, n)
      BY <1>1, <2>5, <2>9, WakeStep
    <2>11. ~Settled(k) /\ ~Following(k)
      BY <2>2, <2>8 DEF Settled, Following
    <2> QED
      BY <2>7, <2>10, <2>11, CoreStep
  <1>4. ASSUME NEW c \in Cores, StartThreading(c) PROVE IInv'
    <2>1. PICK n : n = Schedule(k, c)
      OBVIOUS
    <2>2. Step(n) /\ ~Boots(k) /\ k.cur[c] = NoThread
      BY <1>4, <2>1 DEF StartThreading, Booting, Boots
    <2>3. MoreAsked(k, n)
      BY <1>1, <2>1, ScheduleFacts DEF AsksCore
    <2>4. SInv(affinity, n)
      BY <1>1, <2>2, <2>3, RequestStep DEF MoreAsked, Asked
    <2>5. ~Settled(k) /\ ~Following(k)
      BY <2>2, CoreFacts DEF Settled, Following
    <2> QED
      BY <2>2, <2>4, <2>5, CoreStep
  (* A step that moves a request along. *)
  <1>5. ASSUME NEW c \in Cores, NEW n \in SmpType, Step(n), Asked(k, c),
               n.state = k.state, n.prio = k.prio, n.rq = k.rq, n.cur = k.cur, n.fault = k.fault,
               \A d \in Cores : /\ Asked(k, d) <=> Asked(n, d)
                                /\ k.pend[d] \/ k.entered[d] => n.pend[d] \/ n.entered[d]
        PROVE  IInv'
    <2>1. SInv(affinity, n)
      BY <1>1, <1>5, RequestStep
    <2>2. ~Settled(k)
      BY <1>1, <1>5, SettledIs
    <2>3. Following(k) => Following(n)
      <3>1. \A d \in Cores : 1 - d \in Cores
        BY CoreFacts
      <3> QED
        BY <1>5, <3>1 DEF Following
    <2> QED
      BY <1>5, <2>1, <2>2, <2>3, CoreStep DEF Followed
  <1>6. ASSUME NEW c \in Cores, PendSV(c) PROVE IInv'
    <2>1. PICK n : n = [k EXCEPT !.pend[c] = FALSE, !.entered[c] = TRUE]
      OBVIOUS
    <2>2. Step(n) /\ k.pend[c]
      BY <1>6, <2>1 DEF PendSV
    <2>3. /\ n \in SmpType
          /\ n.state = k.state /\ n.prio = k.prio /\ n.rq = k.rq /\ n.cur = k.cur
          /\ n.fault = k.fault /\ n.fifo = k.fifo
          /\ n.pend = [k.pend EXCEPT ![c] = FALSE] /\ n.entered = [k.entered EXCEPT ![c] = TRUE]
      BY <1>1, <2>1 DEF SmpType
    <2>4. /\ n.entered[c] /\ \A d \in Cores : d # c => n.pend[d] = k.pend[d] /\ n.entered[d] = k.entered[d]
      BY <1>1, <2>3 DEF SmpType
    <2>5. \A d \in Cores : /\ Asked(k, d) <=> Asked(n, d)
                           /\ k.pend[d] \/ k.entered[d] => n.pend[d] \/ n.entered[d]
      BY <2>2, <2>3, <2>4 DEF Asked
    <2> QED
      BY <1>5, <2>2, <2>3, <2>5 DEF Asked
  <1>7. ASSUME NEW c \in Cores, HandleFifoToken(c) PROVE IInv'
    <2>1. PICK n : n = [k EXCEPT !.fifo[c] = @ - 1, !.pend[c] = TRUE]
      OBVIOUS
    <2>2. k.fifo[c] \in 0 .. FifoDepth /\ k.fifo[c] > 0 /\ FifoDepth \in Nat
      BY <1>1, <1>7, FifoAssumption DEF HandleFifoToken, SmpType
    <2>3. Step(n)
      BY <1>1, <1>7, <2>1 DEF HandleFifoToken, Schedule, SmpType
    <2>4. k.fifo[c] - 1 \in 0 .. FifoDepth
      BY <2>2
    <2>5. /\ n \in SmpType
          /\ n.state = k.state /\ n.prio = k.prio /\ n.rq = k.rq /\ n.cur = k.cur
          /\ n.fault = k.fault /\ n.entered = k.entered
          /\ n.pend = [k.pend EXCEPT ![c] = TRUE] /\ n.fifo = [k.fifo EXCEPT ![c] = k.fifo[c] - 1]
      BY <1>1, <2>1, <2>4 DEF SmpType
    <2>6. /\ n.pend[c] /\ \A d \in Cores : d # c => n.pend[d] = k.pend[d] /\ n.fifo[d] = k.fifo[d]
      BY <1>1, <2>5 DEF SmpType
    <2>7. \A d \in Cores : /\ Asked(k, d) <=> Asked(n, d)
                           /\ k.pend[d] \/ k.entered[d] => n.pend[d] \/ n.entered[d]
      BY <2>2, <2>5, <2>6 DEF Asked
    <2> QED
      BY <1>5, <2>2, <2>3, <2>5, <2>7 DEF Asked
  <1>8. ASSUME NEW c \in Cores, DoSched(c) PROVE IInv'
    <2>1. PICK n : n = [Sched(k, c) EXCEPT !.entered[c] = FALSE]
      OBVIOUS
    <2>2. Step(n) /\ k.entered[c]
      BY <1>8, <2>1 DEF DoSched
    <2>3. SchedEffect(k, n, c)
      BY <1>1, <2>1, <2>2, SchedFacts
    <2>4. SInv(affinity, n)
      BY <1>1, <2>2, <2>3, SchedStep
    <2>5. ~Settled(k)
      BY <2>2 DEF Settled
    <2>6. AllCores /\ Following(k) => Followed(n)
      BY <1>1, <2>2, <2>3, <2>4, SchedFollowed
    <2> QED
      BY <2>2, <2>4, <2>5, <2>6, CoreStep
  <1>9. ASSUME NEW c \in Cores, Calls(c)
        PROVE  k.cur[c] \in Threads /\ k.state[k.cur[c]] = Running /\ k.cur[c] \notin IdleThreads
    BY <1>1, <1>9 DEF Calls, SInv, StoppedAsks, SmpType
  <1>10. ASSUME NEW c \in Cores, Calls(c), NEW new \in {Parked, Invalid},
                Call(SetState(k, c, k.cur[c], new))
         PROVE  IInv'
    <2>1. PICK n : n = SetState(k, c, k.cur[c], new)
      OBVIOUS
    <2>2. StopEffect(k, n, c, new)
      BY <1>1, <1>9, <1>10, <2>1, StopFacts
    <2>3. SInv(affinity, n)
      BY <1>1, <1>9, <1>10, <2>2, StopStep
    <2>4. Settled(k) /\ Assigned(k) => Followed(n)
      BY <1>1, <2>2, StopFollowed
    <2> QED
      BY <1>10, <2>1, <2>3, <2>4, CallStep
  <1>11. ASSUME NEW c \in Cores, DoYield(c) PROVE IInv'
    <2>1. PICK n : n = YieldSame(k, c)
      OBVIOUS
    <2>2. Call(n) /\ Calls(c) /\ k.cur[c] \in Threads /\ k.cur[c] # NoThread
      BY <1>9, <1>11, <2>1 DEF DoYield, Calls
    <2>3. MoreAsked(k, n)
      BY <1>1, <2>1, <2>2, YieldFacts
    <2>4. ~Boots(k)
      BY <1>1, <2>2 DEF SInv, IdleOK, Boots
    <2>5. SInv(affinity, n)
      BY <1>1, <2>3, <2>4, RequestStep DEF MoreAsked, Asked
    <2>6. AllCores /\ Settled(k) /\ Assigned(k) => Followed(n)
      BY <1>1, <2>1, YieldFollowed
    <2> QED
      BY <2>2, <2>5, <2>6, CallStep
  (* create and unpark. *)
  <1>12. ASSUME NEW c \in Cores, NEW t \in Threads, NEW p \in Prios,
                k.state[t] # Running, CoresOf(k, t) = {},
                Call(SetState([k EXCEPT !.prio[t] = p], c, t, Running))
         PROVE  IInv'
    <2>1. PICK n : n = SetState([k EXCEPT !.prio[t] = p], c, t, Running)
      OBVIOUS
    <2>2. \A d \in Cores : k.cur[d] # t
      BY <1>12 DEF CoresOf
    <2>3. WakeEffect(k, n, t, p)
      BY <1>1, <1>12, <2>1, WakeFacts
    <2>4. SInv(affinity, n)
      BY <1>1, <1>12, <2>2, <2>3, WakeStep
    <2>5. AllCores /\ Settled(k) /\ Assigned(k) => Followed(n)
      BY <1>1, <1>12, <2>1, <2>2, <2>4, WakeFollowed
    <2> QED
      BY <1>12, <2>1, <2>4, <2>5, CallStep
  <1>13. ASSUME NEW c \in Cores, NEW p \in Prios, DoCreate(c, p) PROVE IInv'
    <2>1. PICK t \in Threads : t = FirstUnused /\ k.state[t] = Invalid
      BY <1>13, FirstUnusedFacts DEF DoCreate
    <2>2. CoresOf(k, t) = {} /\ Call(SetState([k EXCEPT !.prio[t] = p], c, t, Running))
      BY <1>13, <2>1 DEF DoCreate, Create
    <2>3. k.state[t] # Running
      BY <2>1 DEF Running, Invalid
    <2> QED
      BY <1>12, <2>2, <2>3
  <1>14. ASSUME NEW c \in Cores, NEW t \in Threads, DoUnpark(c, t) PROVE IInv'
    <2>1. /\ k.state[t] # Running /\ CoresOf(k, t) = {} /\ Call(SetState(k, c, t, Running))
      BY <1>14 DEF DoUnpark, Running, Parked
    <2>2. k.prio[t] \in Prios /\ [k EXCEPT !.prio[t] = k.prio[t]] = k
      BY <1>1 DEF SmpType
    <2> QED
      BY <1>12, <2>1, <2>2
  <1>15. ASSUME NEW c \in Cores, NEW t \in Threads, NEW p \in Prios, DoSetPriority(c, t, p)
         PROVE  IInv'
    <2>1. PICK n : n = SetPriority(k, c, t, p)
      OBVIOUS
    <2>2. Call(n) /\ k.prio[t] # p
      BY <1>15, <2>1 DEF DoSetPriority
    <2>3. SInv(affinity, n)
      BY <1>1, <2>1, <2>2, SetPriorityStep
    <2>4. AllCores /\ Settled(k) /\ Assigned(k) => Followed(n)
      BY <1>1, <2>1, <2>2, <2>3, SetPriorityFollowed
    <2> QED
      BY <2>2, <2>3, <2>4, CallStep
  <1>16. ASSUME NEW c \in Cores, DoPark(c) \/ DoExit(c) PROVE IInv'
    BY <1>10, <1>16 DEF DoPark, DoExit
  <1> QED
    BY ThreadPriosAssumption,
       <1>2, <1>3, <1>4, <1>6, <1>7, <1>8, <1>11, <1>13, <1>14, <1>15, <1>16 DEF Next

(* Inductive invariant of the multi-core scheduler.                        *)
LEMMA IInvAlways ==
  ASSUME ~EarlyWakes PROVE Spec => []IInv
  <1>1. Init => IInv
    BY InitIInv
  <1>2. IInv /\ [Next]_vars => IInv'
    BY NextIInv
  <1> QED
    BY <1>1, <1>2, PTL DEF Spec

(* For any number of threads and priorities, affinities and FIFO depth:    *)
(* a runnable thread runs on exactly one core or waits once, at its        *)
(* priority; sched always finds a thread and no assertion fails.  It needs *)
(* that nobody wakes a thread that its core has not left yet               *)
(* (cortex_m.rs, sched).                                                   *)
THEOREM RunsOrWaitsOnce ==
  ASSUME ~EarlyWakes PROVE Spec => []RunnableOnce
  <1>1. ASSUME IInv PROVE RunnableOnce
    <2>1. k \in SmpType /\ Placed(k)
      BY <1>1 DEF IInv, SInv
    <2>2. ASSUME NEW t \in Threads
          PROVE  IF k.state[t] # Running THEN Waiting(k, t) = {}
                 ELSE \/ Cardinality(CoresOf(k, t)) = 1 /\ Waiting(k, t) = {}
                      \/ CoresOf(k, t) = {} /\ Waiting(k, t) = {k.prio[t]}
      <3>1. \A r \in Queues : In(k.rq[r], t) <=> Free(k, t) /\ k.prio[t] = r
        BY <2>1 DEF Placed
      <3>2. k.prio[t] \in Queues
        BY <2>1 DEF SmpType, Prios
      <3>3. CASE ~Free(k, t)
        <4>1. Waiting(k, t) = {}
          BY <3>1, <3>3 DEF Waiting
        <4>2. ASSUME k.state[t] = Running PROVE Cardinality(CoresOf(k, t)) = 1
          <5>1. PICK c \in Cores : k.cur[c] = t
            BY <3>3, <4>2 DEF Free
          <5>2. CoresOf(k, t) = {c}
            BY <2>1, <5>1, ThreadFacts DEF CoresOf, Placed, Cores
          <5> QED
            BY <5>2, FS_Singleton
        <4> QED
          BY <4>1, <4>2
      <3>4. CASE Free(k, t)
        <4>1. Waiting(k, t) = {k.prio[t]}
          BY <3>1, <3>2, <3>4 DEF Waiting
        <4>2. CoresOf(k, t) = {} /\ k.state[t] = Running
          BY <3>4 DEF CoresOf, Free
        <4> QED
          BY <4>1, <4>2
      <3> QED
        BY <3>3, <3>4
    <2>3. k.fault = "none"
      BY <2>1 DEF SmpType
    <2> QED
      BY <2>2, <2>3 DEF RunnableOnce
  <1> QED
    BY <1>1, IInvAlways, PTL

(* Under the same condition, no request to reschedule is lost, whatever    *)
(* the depth of the FIFO: once the cores have settled, a waiting thread    *)
(* has a core that it may run on and that runs nothing lower.              *)
THEOREM NoRequestLost ==
  ASSUME ~EarlyWakes PROVE Spec => []HighestRuns
  <1>1. ASSUME IInv PROVE HighestRuns
    <2>1. SInv(affinity, k) /\ k \in SmpType /\ AffinityOK(affinity)
      BY <1>1 DEF IInv, SInv
    <2> SUFFICES ASSUME Settled(k), NEW t \in Threads, Waiting(k, t) # {}
                 PROVE  \E c \in affinity[t] : k.prio[t] <= RunningPrio(k, c)
      BY DEF HighestRuns
    <2>2. Free(k, t)
      BY <2>1 DEF Waiting, SInv, Placed
    <2>3. PICK c \in affinity[t] : Asked(k, c) \/ k.cur[c] = NoThread \/ k.prio[t] <= k.prio[k.cur[c]]
      BY <2>1, <2>2 DEF SInv, Requested, Heard
    <2>4. c \in Cores
      BY <2>1 DEF AffinityOK
    <2>5. ~Asked(k, c) /\ k.cur[c] # NoThread
      BY <2>1, <2>4, SettledIs
    <2> QED
      BY <2>1, <2>3, <2>4, <2>5, RunningPrioFacts
  <1> QED
    BY <1>1, IInvAlways, PTL

(* Under the same condition, one call that finds the highest threads       *)
(* running is followed, from either core, by the highest threads running   *)
(* again.                                                                  *)
THEOREM OneCallIsFollowed ==
  ASSUME ~EarlyWakes PROVE Spec => []OneCallFollowed
  <1>1. ASSUME IInv PROVE OneCallFollowed
    <2> SUFFICES ASSUME Settled(k), changes <= 1, \A t \in Threads : affinity[t] = Cores
                 PROVE  Assigned(k)
      BY DEF OneCallFollowed
    <2>1. k \in SmpType /\ (changes = 0 \/ changes = 1)
      BY <1>1 DEF IInv, SInv
    <2>2. CASE changes = 0
      BY <1>1, <2>2 DEF IInv
    <2>3. CASE changes = 1
      BY <1>1, <2>1, <2>3, SettledIs DEF IInv, AllCores, Following
    <2> QED
      BY <2>1, <2>2, <2>3
  <1> QED
    BY <1>1, IInvAlways, PTL
=============================================================================
