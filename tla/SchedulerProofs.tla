-------------------------- MODULE SchedulerProofs --------------------------
(***************************************************************************)
(* For every number of threads and priorities, the methods of the          *)
(* scheduler keep the runqueue, the thread states, the priorities and the  *)
(* current thread in agreement.  KInv is that agreement; the proofs about  *)
(* the systems that use the scheduler (ThreadsProofs, MutexProofs,         *)
(* ChannelProofs and SyncProofs) cite one lemma per method.                *)
(***************************************************************************)
EXTENDS Scheduler, RunQueueProofs

KInv(S, k) == /\ k \in SchedulerType(S)
              /\ Matches(k)
              /\ RunsHighest(k)
              /\ k.fault = "none"

-----------------------------------------------------------------------------
(* The thread that the runqueue gives next.                                *)

(* The highest used priority, and the thread that runs next.               *)
LEMMA NextFacts ==
  ASSUME NEW q \in QueuesType
  PROVE  /\ QNext(q) \in Threads \cup {NoThread}
         /\ QNext(q) # NoThread <=> Used(q) # {}
         /\ Used(q) # {} => /\ Top(q) \in Queues
                            /\ q[Top(q)] # <<>>
                            /\ \A r \in Queues : q[r] # <<>> => r <= Top(q)
                            /\ QNext(q) = Head(q[Top(q)])
                            /\ In(q[Top(q)], QNext(q))
  <1>1. CASE Used(q) = {}
    BY <1>1 DEF QNext, NoThread
  <1>2. CASE Used(q) # {}
    <2>1. PICK h \in Used(q) : \A b \in Used(q) : b <= h
      <3>1. Used(q) \in SUBSET Queues
        BY DEF Used
      <3> QED
        BY <1>2, <3>1, HighestExists
    <2>2. h \in Queues /\ IsTop(q, h)
      BY <2>1 DEF IsTop, Used
    <2>3. Top(q) \in Queues /\ IsTop(q, Top(q))
      BY <2>2 DEF Top
    <2>4. q[Top(q)] # <<>> /\ \A r \in Queues : q[r] # <<>> => r <= Top(q)
      BY <2>3 DEF IsTop, Used
    <2>5. QNext(q) = Head(q[Top(q)])
      BY <1>2 DEF QNext
    <2>6. In(q[Top(q)], QNext(q)) /\ QNext(q) \in Threads
      BY <2>3, <2>4, <2>5, FifoFacts
    <2> QED
      BY <1>2, <2>3, <2>4, <2>5, <2>6, SentinelNotThread DEF NoThread
  <1> QED
    BY <1>1, <1>2

(* The next thread is determined by the heads: it is the head of a         *)
(* priority above which every FIFO is empty.                               *)
LEMMA NextIs ==
  ASSUME NEW q \in QueuesType, NEW p \in Queues, q[p] # <<>>,
         \A r \in Queues : q[r] # <<>> => r <= p
  PROVE  QNext(q) = Head(q[p])
  <1>1. Used(q) # {}
    BY DEF Used
  <1>2. /\ Top(q) \in Queues
        /\ q[Top(q)] # <<>>
        /\ \A r \in Queues : q[r] # <<>> => r <= Top(q)
        /\ QNext(q) = Head(q[Top(q)])
    BY <1>1, NextFacts
  <1>3. Top(q) = p
    <2>1. Top(q) <= p /\ p <= Top(q)
      BY <1>2
    <2>2. Top(q) \in Int /\ p \in Int
      <3>1. \A x \in Queues : x \in Int
        BY SizeAssumption DEF Queues
      <3>2. Top(q) \in Queues
        BY <1>2
      <3> QED
        BY <3>1, <3>2
    <2> QED
      BY <2>1, <2>2
  <1> QED
    BY <1>2, <1>3

-----------------------------------------------------------------------------
(* The methods of the scheduler.                                           *)

(* From k to n, the head of a FIFO is still its head, unless its thread is *)
(* no longer runnable at that priority.                                    *)
HeadsKept(k, n) ==
  \A r \in Queues :
    /\ k.rq[r] # <<>>
    /\ n.state[Head(k.rq[r])] = Running
    /\ n.prio[Head(k.rq[r])] = r
    => Head(n.rq[r]) = Head(k.rq[r])

(* What KInv says of the thread that runs.                                 *)
LEMMA CurrentFacts ==
  ASSUME NEW S, NEW k, KInv(S, k), k.cur # NoThread, ~k.pend
  PROVE  /\ k.cur \in Threads
         /\ k.state[k.cur] = Running
         /\ k.prio[k.cur] \in Queues
         /\ k.rq[k.prio[k.cur]] # <<>>
         /\ Head(k.rq[k.prio[k.cur]]) = k.cur
         /\ \A r \in Queues : k.rq[r] # <<>> => r <= k.prio[k.cur]
  <1>1. /\ k.cur \in Threads
        /\ k.rq \in QueuesType
        /\ k.prio \in [Threads -> Queues]
        /\ k.cur = QNext(k.rq)
    BY DEF KInv, SchedulerType, RunsHighest, QueuesType, Prios
  <1> DEFINE p == Top(k.rq)
  <1>2. Used(k.rq) # {}
    BY <1>1, NextFacts
  <1>3. /\ p \in Queues
        /\ k.rq[p] # <<>>
        /\ \A r \in Queues : k.rq[r] # <<>> => r <= p
        /\ k.cur = Head(k.rq[p])
        /\ In(k.rq[p], k.cur)
    BY <1>1, <1>2, NextFacts
  <1> HIDE DEF p
  <1>4. k.state[k.cur] = Running /\ k.prio[k.cur] = p
    BY <1>1, <1>3 DEF KInv, Matches
  <1> QED
    BY <1>1, <1>3, <1>4

(* set_state to Running, for a thread that is not: wakeups and creation.   *)
LEMMA WakeStep ==
  ASSUME NEW S, NEW k, KInv(S, k), Running \in S,
         NEW t \in Threads, k.state[t] # Running
  PROVE  LET n == SetState(k, t, Running)
         IN  /\ KInv(S, n)
             /\ n.state = [k.state EXCEPT ![t] = Running]
             /\ n.prio = k.prio
             /\ n.flags = k.flags
             /\ n.cur = k.cur
             /\ HeadsKept(k, n)
  <1> DEFINE n == SetState(k, t, Running)
             p == k.prio[t]
             q == QAdd(k.rq, t, p)
  <1>1. /\ k.state \in [Threads -> S]
        /\ k.prio \in [Threads -> Queues]
        /\ k.rq \in QueuesType
        /\ p \in Queues
        /\ QueuedOnce(k.rq)
        /\ k \in SchedulerType(S)
    BY DEF KInv, Matches, SchedulerType, Prios, QueuesType
  <1>2. \A r \in Queues : ~In(k.rq[r], t)
    BY DEF KInv, Matches
  <1>3. /\ q \in QueuesType
        /\ QueuedOnce(q)
        /\ \A r \in Queues, u \in Threads :
             In(q[r], u) <=> In(k.rq[r], u) \/ (r = p /\ u = t)
        /\ q[p] # <<>>
        /\ \A r \in Queues : r # p => q[r] = k.rq[r]
        /\ Head(q[p]) = IF k.rq[p] = <<>> THEN t ELSE Head(k.rq[p])
    BY <1>1, <1>2, AddFacts
  <1> HIDE DEF q
  <1>4. n = [k EXCEPT !.state = [k.state EXCEPT ![t] = Running],
                      !.rq = q,
                      !.pend = IF k.cur # NoThread /\ k.prio[k.cur] < p THEN TRUE ELSE k.pend]
    BY <1>1, <1>2
    DEF SetState, RqAdd, ScheduleIfHigherPrio, Schedule, SchedulerType, q
  <1>5. /\ n \in SchedulerType(S)
        /\ n.state = [k.state EXCEPT ![t] = Running]
        /\ n.prio = k.prio
        /\ n.flags = k.flags
        /\ n.cur = k.cur
        /\ n.rq = q
        /\ n.fault = k.fault
        /\ n.pend = IF k.cur # NoThread /\ k.prio[k.cur] < p THEN TRUE ELSE k.pend
    <2> DEFINE pend == IF k.cur # NoThread /\ k.prio[k.cur] < p THEN TRUE ELSE k.pend
    <2>1. q \in [Queues -> Seq(Threads)]
      BY <1>3 DEF QueuesType
    <2>2. [k.state EXCEPT ![t] = Running] \in [Threads -> S]
      BY <1>1
    <2>3. pend \in BOOLEAN
      BY <1>1 DEF SchedulerType
    <2> HIDE DEF n, pend
    <2>4. n = [k EXCEPT !.state = [k.state EXCEPT ![t] = Running], !.rq = q, !.pend = pend]
      BY <1>4 DEF pend
    <2>5. /\ n \in SchedulerType(S)
          /\ n.state = [k.state EXCEPT ![t] = Running]
          /\ n.prio = k.prio
          /\ n.flags = k.flags
          /\ n.cur = k.cur
          /\ n.rq = q
          /\ n.fault = k.fault
          /\ n.pend = pend
      BY <1>1, <2>1, <2>2, <2>3, <2>4 DEF SchedulerType
    <2> QED
      BY <2>5 DEF pend
  <1> HIDE DEF n
  <1>6. Matches(n)
    <2>1. ASSUME NEW u \in Threads, NEW r \in Queues
          PROVE  In(q[r], u) <=> n.state[u] = Running /\ n.prio[u] = r
      <3>1. CASE u = t
        BY <1>1, <1>2, <1>3, <1>5, <3>1
      <3>2. CASE u # t
        <4>1. n.state[u] = k.state[u] /\ n.prio[u] = k.prio[u]
          BY <1>1, <1>5, <3>2
        <4> QED
          BY <1>3, <3>2, <4>1 DEF KInv, Matches
      <3> QED
        BY <3>1, <3>2
    <2> QED
      BY <1>3, <1>5, <2>1 DEF Matches
  <1>7. RunsHighest(n)
    <2> SUFFICES ASSUME n.cur # NoThread, ~n.pend
                 PROVE  n.cur = QNext(n.rq)
      BY DEF RunsHighest
    <2> DEFINE c == k.prio[k.cur]
    <2>1. k.cur # NoThread /\ ~k.pend /\ ~(c < p)
      BY <1>5
    <2>2. /\ k.cur \in Threads
          /\ c \in Queues
          /\ k.rq[c] # <<>>
          /\ Head(k.rq[c]) = k.cur
          /\ \A r \in Queues : k.rq[r] # <<>> => r <= c
      BY <2>1, CurrentFacts
    <2> HIDE DEF c
    <2>3. c \in Int /\ p \in Int
      BY <1>1, <2>2, SizeAssumption DEF Queues
    <2>4. q[c] # <<>> /\ Head(q[c]) = k.cur
      BY <1>3, <2>2
    <2>5. \A r \in Queues : q[r] # <<>> => r <= c
      BY <1>3, <2>1, <2>2, <2>3
    <2> QED
      BY <1>3, <1>5, <2>2, <2>4, <2>5, NextIs
  <1>8. HeadsKept(k, n)
    BY <1>3, <1>5 DEF HeadsKept
  <1> QED
    BY <1>5, <1>6, <1>7, <1>8 DEF KInv, n

(* The current thread is at the head of its priority; a context switch may *)
(* be pending already.                                                     *)
Leads(k) ==
  k.cur \in Threads /\ k.state[k.cur] = Running /\ Head(k.rq[k.prio[k.cur]]) = k.cur

(* What a step has to leave alone for the current thread to keep leading.  *)
LEMMA StillLeads ==
  ASSUME NEW S, NEW k, NEW n, KInv(S, k), KInv(S, n), Leads(k), HeadsKept(k, n), n.cur = k.cur,
         n.state[k.cur] = Running, n.prio[k.cur] = k.prio[k.cur]
  PROVE  Leads(n)
  <1>1. k.prio[k.cur] \in Queues /\ k.rq \in QueuesType
    BY DEF KInv, SchedulerType, Prios, QueuesType, Leads
  <1>2. In(k.rq[k.prio[k.cur]], k.cur)
    BY <1>1 DEF KInv, Matches, Leads
  <1>3. k.rq[k.prio[k.cur]] # <<>>
    BY <1>1, <1>2, FifoFacts
  <1> QED
    BY <1>1, <1>3 DEF Leads, HeadsKept

(* set_state of the current thread to a state that is not Running.         *)
LEMMA StopLeaderStep ==
  ASSUME NEW S, NEW k, KInv(S, k), Leads(k), NEW new \in S, new # Running
  PROVE  LET n == SetState(k, k.cur, new)
         IN  /\ KInv(S, n)
             /\ n.state = [k.state EXCEPT ![k.cur] = new]
             /\ n.prio = k.prio
             /\ n.flags = k.flags
             /\ n.cur = k.cur
             /\ HeadsKept(k, n)
  <1> DEFINE t == k.cur
             n == SetState(k, t, new)
             p == k.prio[t]
             q == QPopHead(k.rq, p)
  <1>1. /\ t \in Threads
        /\ k.state[t] = Running
        /\ p \in Queues
        /\ k.rq[p] # <<>>
        /\ Head(k.rq[p]) = t
    <2>1. t \in Threads /\ k.state[t] = Running /\ Head(k.rq[p]) = t
      BY DEF Leads
    <2>2. p \in Queues /\ k.rq \in QueuesType
      BY <2>1 DEF KInv, SchedulerType, Prios, QueuesType
    <2>3. In(k.rq[p], t)
      BY <2>1, <2>2 DEF KInv, Matches
    <2> QED
      BY <2>1, <2>2, <2>3, FifoFacts
  <1>2. /\ k.state \in [Threads -> S]
        /\ k.prio \in [Threads -> Queues]
        /\ k.rq \in QueuesType
        /\ QueuedOnce(k.rq)
        /\ k \in SchedulerType(S)
    BY DEF KInv, Matches, SchedulerType, Prios, QueuesType
  <1>3. Removed(k.rq, q, t, p)
    BY <1>1, <1>2, PopFacts
  <1> HIDE DEF q
  <1>4. n = [k EXCEPT !.state = [k.state EXCEPT ![t] = new], !.rq = q, !.pend = TRUE]
    BY <1>1, <1>2 DEF SetState, RqPopHead, Schedule, SchedulerType, q
  <1>5. /\ n \in SchedulerType(S)
        /\ n.state = [k.state EXCEPT ![t] = new]
        /\ n.prio = k.prio
        /\ n.flags = k.flags
        /\ n.cur = k.cur
        /\ n.rq = q
        /\ n.fault = k.fault
        /\ n.pend = TRUE
    <2>1. q \in [Queues -> Seq(Threads)]
      BY <1>3 DEF QueuesType, Removed
    <2>2. [k.state EXCEPT ![t] = new] \in [Threads -> S]
      BY <1>2
    <2> HIDE DEF n
    <2> QED
      BY <1>2, <1>4, <2>1, <2>2 DEF SchedulerType
  <1> HIDE DEF n
  <1>6. Matches(n)
    <2>1. ASSUME NEW u \in Threads, NEW r \in Queues
          PROVE  In(q[r], u) <=> n.state[u] = Running /\ n.prio[u] = r
      <3>1. CASE u = t
        BY <1>1, <1>2, <1>3, <1>5, <3>1 DEF Removed
      <3>2. CASE u # t
        <4>1. n.state[u] = k.state[u] /\ n.prio[u] = k.prio[u]
          BY <1>2, <1>5, <3>2
        <4> QED
          BY <1>3, <3>2, <4>1 DEF KInv, Matches, Removed
      <3> QED
        BY <3>1, <3>2
    <2> QED
      BY <1>3, <1>5, <2>1 DEF Matches, Removed
  <1>7. HeadsKept(k, n)
    BY <1>1, <1>2, <1>3, <1>5 DEF HeadsKept, Removed
  <1> QED
    BY <1>5, <1>6, <1>7 DEF KInv, RunsHighest, n

(* set_state of the thread that runs to a state that is not Running:       *)
(* park, cleanup, blocking.                                                *)
LEMMA StopStep ==
  ASSUME NEW S, NEW k, KInv(S, k), k.cur # NoThread, ~k.pend,
         NEW new \in S, new # Running
  PROVE  LET n == SetState(k, k.cur, new)
         IN  /\ KInv(S, n)
             /\ n.state = [k.state EXCEPT ![k.cur] = new]
             /\ n.prio = k.prio
             /\ n.flags = k.flags
             /\ n.cur = k.cur
             /\ HeadsKept(k, n)
  BY CurrentFacts, StopLeaderStep DEF Leads

(* The runqueue part of set_priority: the thread leaves the FIFO it is in, *)
(* from the head or from elsewhere, and is appended to that of the new     *)
(* priority.  Other threads stay, and so do the heads of other FIFOs.      *)
LEMMA RequeueFacts ==
  ASSUME NEW S, NEW k \in SchedulerType(S), QueuedOnce(k.rq), NEW t \in Threads,
         NEW old \in Queues, NEW p \in Queues, In(k.rq[old], t), old # p
  PROVE  LET n == Requeue(k, t, old, p)
         IN  /\ n = [k EXCEPT !.rq = n.rq]
             /\ n \in SchedulerType(S)
             /\ n.rq \in QueuesType
             /\ QueuedOnce(n.rq)
             /\ \A r \in Queues, u \in Threads : u # t => (In(n.rq[r], u) <=> In(k.rq[r], u))
             /\ \A r \in Queues : In(n.rq[r], t) <=> r = p
             /\ \A r \in Queues : r \notin {old, p} => n.rq[r] = k.rq[r]
             /\ n.rq[p] # <<>>
             /\ Head(n.rq[p]) = IF k.rq[p] = <<>> THEN t ELSE Head(k.rq[p])
             /\ Head(k.rq[old]) # t => n.rq[old] # <<>> /\ Head(n.rq[old]) = Head(k.rq[old])
  <1> DEFINE head == k.rq[old] # <<>> /\ Head(k.rq[old]) = t
             d == IF head THEN QPopHead(k.rq, old) ELSE QDel(k.rq, t)
             a == QAdd(d, t, p)
             n == Requeue(k, t, old, p)
  <1>1. k.rq \in QueuesType
    BY DEF SchedulerType, QueuesType
  <1>2. k.rq[old] # <<>>
    BY <1>1, FifoFacts
  <1>3. /\ Removed(k.rq, d, t, old)
        /\ Head(k.rq[old]) # t => d[old] # <<>> /\ Head(d[old]) = Head(k.rq[old])
    <2>1. CASE Head(k.rq[old]) = t
      BY <1>1, <1>2, <2>1, PopFacts
    <2>2. CASE Head(k.rq[old]) # t
      BY <1>1, <1>2, <2>2, DelFacts
    <2> QED
      BY <2>1, <2>2
  <1>4. n = [k EXCEPT !.rq = a]
    <2>1. n = RqAdd([k EXCEPT !.rq = d], t, p)
      <3>1. CASE head
        BY <3>1 DEF Requeue, RqPopHead
      <3>2. CASE ~head
        BY <3>2 DEF Requeue
      <3> QED
        BY <3>1, <3>2
    <2> HIDE DEF d, n
    <2>2. [k EXCEPT !.rq = d].rq = d
      BY DEF SchedulerType
    <2>3. \A r \in Queues : ~In(d[r], t)
      BY <1>3 DEF Removed
    <2>4. RqAdd([k EXCEPT !.rq = d], t, p) = [[k EXCEPT !.rq = d] EXCEPT !.rq = a]
      BY <2>2, <2>3 DEF RqAdd
    <2>5. [[k EXCEPT !.rq = d] EXCEPT !.rq = a] = [k EXCEPT !.rq = a]
      BY DEF SchedulerType
    <2> QED
      BY <2>1, <2>4, <2>5
  <1> HIDE DEF d, n
  <1>5. /\ a \in QueuesType
        /\ QueuedOnce(a)
        /\ \A r \in Queues, u \in Threads : In(a[r], u) <=> In(d[r], u) \/ (r = p /\ u = t)
        /\ a[p] # <<>>
        /\ \A r \in Queues : r # p => a[r] = d[r]
        /\ Head(a[p]) = IF d[p] = <<>> THEN t ELSE Head(d[p])
    BY <1>3, AddFacts DEF Removed
  <1> HIDE DEF a
  <1>6. n.rq = a /\ n \in SchedulerType(S) /\ n = [k EXCEPT !.rq = n.rq]
    BY <1>4, <1>5 DEF SchedulerType, QueuesType
  <1>7. d[p] = k.rq[p] /\ a[old] = d[old]
    BY <1>3, <1>5 DEF Removed
  <1>8. \A r \in Queues, u \in Threads : u # t => (In(a[r], u) <=> In(k.rq[r], u))
    BY <1>3, <1>5 DEF Removed
  <1>9. \A r \in Queues : In(a[r], t) <=> r = p
    BY <1>3, <1>5 DEF Removed
  <1>10. \A r \in Queues : r \notin {old, p} => a[r] = k.rq[r]
    BY <1>3, <1>5 DEF Removed
  <1> QED
    BY <1>3, <1>5, <1>6, <1>7, <1>8, <1>9, <1>10 DEF n

(* set_priority of any thread, whoever runs.                               *)
LEMMA SetPriorityStep ==
  ASSUME NEW S, NEW k, KInv(S, k), NEW t \in Threads, NEW p \in Queues
  PROVE  LET n == SetPriority(k, t, p)
         IN  /\ KInv(S, n)
             /\ n.state = k.state
             /\ n.flags = k.flags
             /\ n.cur = k.cur
             /\ n.prio = IF IsValid(k, t) THEN [k.prio EXCEPT ![t] = p] ELSE k.prio
             /\ HeadsKept(k, n)
  <1> DEFINE n == SetPriority(k, t, p)
             old == k.prio[t]
             prio == [k.prio EXCEPT ![t] = p]
             k1 == [k EXCEPT !.prio = prio]
             k2 == Requeue(k1, t, old, p)
             q == k2.rq
  <1>1. /\ k.state \in [Threads -> S]
        /\ k.prio \in [Threads -> Queues]
        /\ k.rq \in QueuesType
        /\ old \in Queues
        /\ QueuedOnce(k.rq)
        /\ k \in SchedulerType(S)
    BY DEF KInv, Matches, SchedulerType, Prios, QueuesType
  <1>2. /\ prio \in [Threads -> Queues]
        /\ prio[t] = p
        /\ \A u \in Threads : u # t => prio[u] = k.prio[u]
    BY <1>1
  <1> HIDE DEF prio
  <1>3. /\ k1 \in SchedulerType(S)
        /\ k1.state = k.state
        /\ k1.prio = prio
        /\ k1.flags = k.flags
        /\ k1.rq = k.rq
        /\ k1.cur = k.cur
        /\ k1.pend = k.pend
        /\ k1.fault = k.fault
    BY <1>1, <1>2 DEF SchedulerType, Prios
  <1>4. CASE ~IsValid(k, t) \/ old = p
    <2>1. n = k
      BY <1>4 DEF SetPriority
    <2>2. old = p => [k.prio EXCEPT ![t] = p] = k.prio
      BY <1>1
    <2> QED
      BY <1>4, <2>1, <2>2 DEF HeadsKept
  <1>5. CASE IsValid(k, t) /\ old # p /\ k.state[t] # Running
    <2>1. n = k1
      BY <1>5 DEF SetPriority, prio
    <2> HIDE DEF k1
    <2>2. Matches(k1)
      <3>1. ASSUME NEW u \in Threads, NEW r \in Queues
            PROVE  In(k1.rq[r], u) <=> k1.state[u] = Running /\ k1.prio[u] = r
        <4>1. CASE u = t
          BY <1>3, <1>5, <4>1 DEF KInv, Matches
        <4>2. CASE u # t
          BY <1>2, <1>3, <4>2 DEF KInv, Matches
        <4> QED
          BY <4>1, <4>2
      <3> QED
        BY <1>1, <1>3, <3>1 DEF Matches
    <2>3. RunsHighest(k1) /\ k1.fault = "none"
      BY <1>3 DEF KInv, RunsHighest
    <2>4. HeadsKept(k, k1)
      BY <1>3 DEF HeadsKept
    <2> QED
      BY <1>3, <1>5, <2>1, <2>2, <2>3, <2>4 DEF KInv, prio
  <1>6. CASE IsValid(k, t) /\ old # p /\ k.state[t] = Running
    <2>1. In(k.rq[old], t)
      BY <1>1, <1>6 DEF KInv, Matches
    <2> HIDE DEF k1, old
    <2>2. /\ k2 = [k1 EXCEPT !.rq = q]
          /\ k2 \in SchedulerType(S)
          /\ q \in QueuesType
          /\ QueuedOnce(q)
          /\ \A r \in Queues, u \in Threads : u # t => (In(q[r], u) <=> In(k.rq[r], u))
          /\ \A r \in Queues : In(q[r], t) <=> r = p
          /\ \A r \in Queues : r \notin {old, p} => q[r] = k.rq[r]
          /\ q[p] # <<>>
          /\ Head(q[p]) = IF k.rq[p] = <<>> THEN t ELSE Head(k.rq[p])
          /\ Head(k.rq[old]) # t => q[old] # <<>> /\ Head(q[old]) = Head(k.rq[old])
      BY <1>1, <1>3, <1>6, <2>1, RequeueFacts
    <2> HIDE DEF k2, q
    <2>3. /\ k2.state = k.state
          /\ k2.prio = prio
          /\ k2.flags = k.flags
          /\ k2.rq = q
          /\ k2.cur = k.cur
          /\ k2.pend = k.pend
          /\ k2.fault = k.fault
      BY <1>3, <2>2 DEF SchedulerType
    <2> DEFINE runs == k.cur # NoThread /\ ~k.pend
               c == k.prio[k.cur]
               sched == \/ k.cur = t /\ p < old
                        \/ k.cur # t /\ p > old /\ k.cur # NoThread /\ prio[k.cur] < p
    <2>4. n = IF sched THEN [k2 EXCEPT !.pend = TRUE] ELSE k2
      BY <1>6, <2>3 DEF SetPriority, Schedule, ScheduleIfHigherPrio, k1, k2, prio, old
    <2>5. /\ n \in SchedulerType(S)
          /\ n.state = k.state
          /\ n.prio = prio
          /\ n.flags = k.flags
          /\ n.rq = q
          /\ n.cur = k.cur
          /\ n.fault = k.fault
          /\ ~n.pend => ~k.pend /\ ~sched
      <3> HIDE DEF sched, n
      <3>1. CASE sched
        BY <2>2, <2>3, <2>4, <3>1 DEF SchedulerType
      <3>2. CASE ~sched
        BY <2>2, <2>3, <2>4, <3>2
      <3> QED
        BY <3>1, <3>2
    <2> HIDE DEF n
    <2>6. Matches(n)
      <3>1. ASSUME NEW u \in Threads, NEW r \in Queues
            PROVE  In(q[r], u) <=> k.state[u] = Running /\ prio[u] = r
        <4>1. CASE u = t
          BY <1>2, <1>6, <2>2, <4>1
        <4>2. CASE u # t
          BY <1>2, <2>2, <4>2 DEF KInv, Matches
        <4> QED
          BY <4>1, <4>2
      <3> QED
        BY <2>2, <2>5, <3>1 DEF Matches
    <2>7. ASSUME k.cur # NoThread, ~n.pend
          PROVE  k.cur = QNext(q)
      <3>1. /\ k.cur \in Threads
            /\ c \in Queues
            /\ k.rq[c] # <<>>
            /\ Head(k.rq[c]) = k.cur
            /\ \A r \in Queues : k.rq[r] # <<>> => r <= c
            /\ ~sched
        BY <2>5, <2>7, CurrentFacts
      <3>2. c \in Int /\ old \in Int /\ p \in Int /\ Queues \subseteq Int
        BY <1>1, <3>1, SizeAssumption DEF Queues, old
      <3>3. old <= c
        BY <1>1, <2>1, <3>1, FifoFacts DEF old
      <3>4. \A r \in Queues : q[r] # <<>> => r <= c \/ r = p
        <4> SUFFICES ASSUME NEW r \in Queues, q[r] # <<>>, r # p
                     PROVE  r <= c
          OBVIOUS
        <4>1. CASE r = old
          BY <3>3, <4>1
        <4>2. CASE r # old
          BY <2>2, <3>1, <4>2
        <4> QED
          BY <4>1, <4>2
      <3>5. CASE k.cur = t
        <4>1. c = old /\ p > old
          BY <1>6, <3>1, <3>2, <3>5 DEF old
        <4>2. k.rq[p] = <<>>
          BY <3>1, <3>2, <4>1
        <4>3. \A r \in Queues : q[r] # <<>> => r <= p
          BY <3>2, <3>4, <4>1
        <4> QED
          BY <2>2, <3>5, <4>2, <4>3, NextIs
      <3>6. CASE k.cur # t
        <4>1. prio[k.cur] = c
          BY <1>2, <3>1, <3>6
        <4> HIDE DEF c
        <4>2. p <= c
          BY <1>6, <2>7, <3>1, <3>2, <3>3, <3>6, <4>1
        <4>3. q[c] # <<>> /\ Head(q[c]) = k.cur
          <5>1. CASE c = p
            BY <2>2, <3>1, <5>1
          <5>2. CASE c = old
            BY <2>2, <3>1, <3>6, <5>2
          <5>3. CASE c \notin {old, p}
            BY <2>2, <3>1, <5>3
          <5> QED
            BY <5>1, <5>2, <5>3
        <4>4. \A r \in Queues : q[r] # <<>> => r <= c
          BY <3>4, <4>2
        <4> QED
          BY <2>2, <3>1, <4>3, <4>4, NextIs
      <3> QED
        BY <3>5, <3>6
    <2>8. RunsHighest(n)
      BY <2>5, <2>7 DEF RunsHighest
    <2>9. KInv(S, n)
      BY <2>5, <2>6, <2>8 DEF KInv
    <2>10. HeadsKept(k, n)
      <3> SUFFICES ASSUME NEW r \in Queues, k.rq[r] # <<>>, prio[Head(k.rq[r])] = r
                   PROVE  Head(q[r]) = Head(k.rq[r])
        BY <2>5 DEF HeadsKept
      <3>1. CASE r = p
        BY <2>2, <3>1
      <3>2. CASE r = old
        BY <1>2, <1>6, <2>2, <3>2
      <3>3. CASE r \notin {old, p}
        BY <2>2, <3>3
      <3> QED
        BY <3>1, <3>2, <3>3
    <2> QED
      BY <1>6, <2>5, <2>9, <2>10 DEF n, prio
  <1> QED
    BY <1>4, <1>5, <1>6

(* yield_same of the thread that runs.                                     *)
LEMMA YieldStep ==
  ASSUME NEW S, NEW k, KInv(S, k), k.cur # NoThread, ~k.pend
  PROVE  LET n == YieldSame(k)
         IN  /\ KInv(S, n)
             /\ n.state = k.state
             /\ n.flags = k.flags
             /\ \A r \in Queues : r # k.prio[k.cur] => n.rq[r] = k.rq[r]
  <1> DEFINE n == YieldSame(k)
             p == k.prio[k.cur]
             q == QAdvance(k.rq, p)
             long == Len(k.rq[p]) > 1
  <1>1. /\ k.cur \in Threads
        /\ p \in Queues
        /\ k.rq[p] # <<>>
        /\ Head(k.rq[p]) = k.cur
        /\ \A r \in Queues : k.rq[r] # <<>> => r <= p
    BY CurrentFacts
  <1>2. k.rq \in QueuesType /\ QueuedOnce(k.rq) /\ k \in SchedulerType(S)
    BY DEF KInv, Matches, SchedulerType, QueuesType
  <1>3. /\ q \in QueuesType
        /\ QueuedOnce(q)
        /\ \A r \in Queues, u \in Threads : In(q[r], u) <=> In(k.rq[r], u)
        /\ \A r \in Queues : r # p => q[r] = k.rq[r]
        /\ q[p] # <<>>
        /\ ~long => Head(q[p]) = Head(k.rq[p])
    BY <1>1, <1>2, AdvanceFacts
  <1>4. n = IF long THEN [[k EXCEPT !.rq = q] EXCEPT !.pend = TRUE] ELSE [k EXCEPT !.rq = q]
    BY DEF YieldSame, Schedule
  <1> HIDE DEF q, n, long
  <1>5. /\ n \in SchedulerType(S)
        /\ n.state = k.state
        /\ n.prio = k.prio
        /\ n.flags = k.flags
        /\ n.rq = q
        /\ n.cur = k.cur
        /\ n.fault = k.fault
        /\ ~n.pend => ~long
    <2>1. CASE long
      BY <1>2, <1>3, <1>4, <2>1 DEF SchedulerType, QueuesType
    <2>2. CASE ~long
      BY <1>2, <1>3, <1>4, <2>2 DEF SchedulerType, QueuesType
    <2> QED
      BY <2>1, <2>2
  <1>6. Matches(n)
    BY <1>3, <1>5 DEF KInv, Matches
  <1>7. ASSUME ~n.pend PROVE k.cur = QNext(q)
    <2>1. Head(q[p]) = k.cur /\ \A r \in Queues : q[r] # <<>> => r <= p
      BY <1>1, <1>3, <1>5, <1>7
    <2> QED
      BY <1>1, <1>3, <2>1, NextIs
  <1> QED
    BY <1>3, <1>5, <1>6, <1>7 DEF KInv, RunsHighest, n

(* The context switch.                                                     *)
LEMMA SchedStep ==
  ASSUME NEW S, NEW k, KInv(S, k)
  PROVE  LET n == Sched(k)
         IN  /\ KInv(S, n)
             /\ n.state = k.state
             /\ n.prio = k.prio
             /\ n.flags = k.flags
             /\ HeadsKept(k, n)
  <1> DEFINE n == Sched(k)
  <1>1. k.rq \in QueuesType /\ k \in SchedulerType(S)
    BY DEF KInv, SchedulerType, QueuesType
  <1>2. QNext(k.rq) \in Threads \cup {NoThread}
    BY <1>1, NextFacts
  <1>3. /\ n \in SchedulerType(S)
        /\ n.state = k.state
        /\ n.prio = k.prio
        /\ n.flags = k.flags
        /\ n.rq = k.rq
        /\ n.cur = QNext(k.rq)
        /\ n.fault = k.fault
    BY <1>1, <1>2 DEF Sched, SchedulerType
  <1> HIDE DEF n
  <1>4. Matches(n) /\ RunsHighest(n) /\ HeadsKept(k, n)
    BY <1>3 DEF KInv, Matches, RunsHighest, HeadsKept
  <1> QED
    BY <1>3, <1>4 DEF KInv, n

(* Changes that the agreement does not depend on: the flags, and a pending *)
(* context switch.                                                         *)
LEMMA FlagsStep ==
  ASSUME NEW S, NEW k, KInv(S, k), NEW f \in [Threads -> SUBSET Flags]
  PROVE  LET n == [k EXCEPT !.flags = f]
         IN  /\ KInv(S, n)
             /\ n.state = k.state
             /\ n.prio = k.prio
             /\ n.flags = f
             /\ n.cur = k.cur
             /\ n.pend = k.pend
             /\ n.rq = k.rq
             /\ HeadsKept(k, n)
  <1> DEFINE n == [k EXCEPT !.flags = f]
  <1>1. k \in SchedulerType(S)
    BY DEF KInv
  <1>2. /\ n \in SchedulerType(S)
        /\ n.state = k.state
        /\ n.prio = k.prio
        /\ n.flags = f
        /\ n.rq = k.rq
        /\ n.cur = k.cur
        /\ n.pend = k.pend
        /\ n.fault = k.fault
    BY <1>1 DEF SchedulerType
  <1> HIDE DEF n
  <1>3. Matches(n) /\ RunsHighest(n) /\ HeadsKept(k, n)
    BY <1>2 DEF KInv, Matches, RunsHighest, HeadsKept
  <1> QED
    BY <1>2, <1>3 DEF KInv, n

(* A context switch becomes pending.                                       *)
LEMMA ScheduleStep ==
  ASSUME NEW S, NEW k, KInv(S, k)
  PROVE  LET n == Schedule(k)
         IN  /\ KInv(S, n)
             /\ n.state = k.state
             /\ n.prio = k.prio
             /\ n.flags = k.flags
             /\ HeadsKept(k, n)
  <1> DEFINE n == Schedule(k)
  <1>1. k \in SchedulerType(S)
    BY DEF KInv
  <1>2. /\ n \in SchedulerType(S)
        /\ n.state = k.state
        /\ n.prio = k.prio
        /\ n.flags = k.flags
        /\ n.rq = k.rq
        /\ n.pend = TRUE
        /\ n.fault = k.fault
    BY <1>1 DEF Schedule, SchedulerType
  <1> HIDE DEF n
  <1>3. Matches(n) /\ RunsHighest(n) /\ HeadsKept(k, n)
    BY <1>2 DEF KInv, Matches, RunsHighest, HeadsKept
  <1> QED
    BY <1>2, <1>3 DEF KInv, n

(* set_state to Running of any thread: one that runs already stays where   *)
(* it is.                                                                  *)
LEMMA RunStep ==
  ASSUME NEW S, NEW k, KInv(S, k), Running \in S, NEW t \in Threads
  PROVE  LET n == SetState(k, t, Running)
         IN  /\ KInv(S, n)
             /\ n.state = [k.state EXCEPT ![t] = Running]
             /\ n.prio = k.prio
             /\ n.flags = k.flags
             /\ n.cur = k.cur
             /\ HeadsKept(k, n)
  <1>1. CASE k.state[t] # Running
    BY <1>1, WakeStep
  <1>2. CASE k.state[t] = Running
    <2> DEFINE p == k.prio[t]
    <2>1. /\ k \in SchedulerType(S) /\ p \in Queues
          /\ k.state \in [Threads -> S] /\ k.rq \in [Queues -> Seq(Threads)]
      BY DEF KInv, SchedulerType, Prios
    <2>2. [k.state EXCEPT ![t] = Running] = k.state
      BY <1>2, <2>1
    <2>3. [k EXCEPT !.state[t] = Running] = k
      BY <2>1, <2>2 DEF SchedulerType
    <2>4. \A r \in Queues : In(k.rq[r], t) <=> r = p
      BY <1>2, <2>1 DEF KInv, Matches
    <2>5. RqAdd(k, t, p) = k
      <3>1. QAdd(k.rq, t, p) = k.rq
        BY <2>1, <2>4 DEF QAdd
      <3>2. RqAdd(k, t, p) = [k EXCEPT !.rq = QAdd(@, t, p)]
        BY <2>4 DEF RqAdd
      <3> HIDE DEF p
      <3> QED
        BY <2>1, <3>1, <3>2 DEF SchedulerType
    <2>6. SetState(k, t, Running) = ScheduleIfHigherPrio(k, p)
      BY <2>3, <2>5 DEF SetState
    <2>7. SetState(k, t, Running) = k \/ SetState(k, t, Running) = Schedule(k)
      BY <2>6 DEF ScheduleIfHigherPrio
    <2>8. k.cur = Schedule(k).cur
      BY <2>1 DEF Schedule, SchedulerType
    <2> QED
      BY <2>2, <2>7, <2>8, ScheduleStep DEF HeadsKept
  <1> QED
    BY <1>1, <1>2

(* flag_set wakes the thread when its wait is satisfied.                   *)
LEMMA FlagSetStep ==
  ASSUME NEW S, NEW k, KInv(S, k), Running \in S, NEW t \in Threads, NEW mask \in SUBSET Flags
  PROVE  LET n == FlagSet(k, t, mask)
         IN  /\ KInv(S, n)
             /\ n.state = IF /\ k.state[t][1] = "FlagBlocked"
                             /\ Satisfied(k.flags[t] \cup mask, k.state[t][2], k.state[t][3])
                          THEN [k.state EXCEPT ![t] = Running] ELSE k.state
             /\ n.prio = k.prio
             /\ n.flags = [k.flags EXCEPT ![t] = @ \cup mask]
             /\ n.cur = k.cur
             /\ HeadsKept(k, n)
  <1> DEFINE f == [k.flags EXCEPT ![t] = @ \cup mask]
             k1 == [k EXCEPT !.flags = f]
             wakes == k.state[t][1] = "FlagBlocked" /\ Satisfied(f[t], k.state[t][2], k.state[t][3])
  <1>1. k \in SchedulerType(S) /\ k.flags \in [Threads -> SUBSET Flags]
    BY DEF KInv, SchedulerType
  <1>2. f \in [Threads -> SUBSET Flags] /\ f[t] = k.flags[t] \cup mask
    BY <1>1
  <1>3. /\ KInv(S, k1) /\ k1.state = k.state /\ k1.prio = k.prio /\ k1.flags = f
        /\ k1.cur = k.cur /\ k1.rq = k.rq /\ HeadsKept(k, k1)
    <2> HIDE DEF f
    <2> QED
      BY <1>2, FlagsStep
  <1>4. FlagSet(k, t, mask) = IF wakes THEN SetState(k1, t, Running) ELSE k1
    <2>1. [k EXCEPT !.flags[t] = @ \cup mask] = k1
      BY <1>1 DEF SchedulerType
    <2> QED
      BY <1>3, <2>1 DEF FlagSet
  <1> HIDE DEF f, k1
  <1>5. CASE wakes
    <2>1. PICK n : n = SetState(k1, t, Running)
      OBVIOUS
    <2>2. /\ KInv(S, n) /\ n.state = [k1.state EXCEPT ![t] = Running] /\ n.prio = k1.prio
          /\ n.flags = k1.flags /\ n.cur = k1.cur /\ HeadsKept(k1, n)
      BY <1>3, <2>1, RunStep
    <2>3. HeadsKept(k, n)
      BY <1>3, <2>2 DEF HeadsKept
    <2>4. FlagSet(k, t, mask) = n
      BY <1>4, <1>5, <2>1
    <2> QED
      BY <1>2, <1>3, <1>5, <2>2, <2>3, <2>4 DEF f
  <1>6. CASE ~wakes
    BY <1>2, <1>3, <1>4, <1>6 DEF f
  <1> QED
    BY <1>5, <1>6

(* create: the first free slot is found, and its thread becomes runnable.  *)
LEMMA CreateStep ==
  ASSUME NEW S, NEW k, KInv(S, k), Running \in S, Parked \in S,
         Unused(k) # {}, NEW p \in Queues
  PROVE  LET n == Create(k, p)
             t == FirstUnused(k)
         IN  /\ t \in Threads
             /\ k.state[t] = Invalid
             /\ KInv(S, n)
             /\ n.state = [k.state EXCEPT ![t] = Running]
             /\ n.prio = [k.prio EXCEPT ![t] = p]
             /\ n.flags = k.flags
             /\ HeadsKept(k, n)
  <1> DEFINE n == Create(k, p)
             t == FirstUnused(k)
             st == [k.state EXCEPT ![t] = Parked]
             pr == [k.prio EXCEPT ![t] = p]
             k1 == [k EXCEPT !.prio = pr, !.state = st]
  <1>1. t \in Threads /\ k.state[t] = Invalid
    <2>1. Unused(k) \in SUBSET Nat
      BY SizeAssumption DEF Unused, Threads
    <2>2. \E u \in Unused(k) : \A v \in Unused(k) : u <= v
      BY <2>1, LowestExists
    <2>3. t \in Unused(k)
      BY <2>2 DEF FirstUnused
    <2> QED
      BY <2>3 DEF Unused, IsValid
  <1> HIDE DEF t
  <1>2. /\ k \in SchedulerType(S)
        /\ k.state \in [Threads -> S]
        /\ k.prio \in [Threads -> Queues]
    BY DEF KInv, SchedulerType, Prios
  <1>3. /\ st \in [Threads -> S]
        /\ pr \in [Threads -> Queues]
        /\ st[t] = Parked
        /\ [st EXCEPT ![t] = Running] = [k.state EXCEPT ![t] = Running]
        /\ \A u \in Threads : u # t => st[u] = k.state[u] /\ pr[u] = k.prio[u]
    BY <1>1, <1>2
  <1>4. Invalid # Running /\ Parked # Running
    BY DEF Invalid, Running, Parked
  <1> HIDE DEF st, pr
  <1>5. /\ k1 \in SchedulerType(S)
        /\ k1.state = st
        /\ k1.prio = pr
        /\ k1.flags = k.flags
        /\ k1.rq = k.rq
        /\ k1.cur = k.cur
        /\ k1.pend = k.pend
        /\ k1.fault = k.fault
    BY <1>2, <1>3 DEF SchedulerType, Prios
  <1>6. n = SetState(k1, t, Running)
    BY DEF Create, st, pr, t
  <1> HIDE DEF k1, n
  <1>7. Matches(k1)
    <2>1. ASSUME NEW u \in Threads, NEW r \in Queues
          PROVE  In(k.rq[r], u) <=> st[u] = Running /\ pr[u] = r
      <3>1. CASE u = t
        BY <1>1, <1>3, <1>4, <3>1 DEF KInv, Matches
      <3>2. CASE u # t
        BY <1>3, <3>2 DEF KInv, Matches
      <3> QED
        BY <3>1, <3>2
    <2> QED
      BY <1>5, <2>1 DEF KInv, Matches
  <1>8. KInv(S, k1)
    BY <1>5, <1>7 DEF KInv, RunsHighest
  <1>9. /\ KInv(S, n)
        /\ n.state = [k1.state EXCEPT ![t] = Running]
        /\ n.prio = k1.prio
        /\ n.flags = k1.flags
        /\ HeadsKept(k1, n)
    <2>1. k1.state[t] # Running
      BY <1>3, <1>4, <1>5
    <2> QED
      BY <1>1, <1>6, <1>8, <2>1, WakeStep
  <1>10. HeadsKept(k, n)
    BY <1>5, <1>9 DEF HeadsKept
  <1> QED
    BY <1>1, <1>3, <1>5, <1>9, <1>10 DEF n, t, pr

(* The empty scheduler.                                                    *)
LEMMA NewSchedulerFacts ==
  ASSUME NEW S, Invalid \in S
  PROVE  KInv(S, NewScheduler)
  <1> DEFINE n == NewScheduler
  <1>1. 0 \in Queues
    BY SizeAssumption DEF Queues
  <1>2. EmptyQueues \in QueuesType /\ \A p \in Queues : EmptyQueues[p] = <<>>
    BY DEF EmptyQueues, QueuesType
  <1>3. \A p \in Queues : DOMAIN EmptyQueues[p] = {}
    BY <1>2
  <1>4. /\ n \in SchedulerType(S)
        /\ n.state = [t \in Threads |-> Invalid]
        /\ n.rq = EmptyQueues
        /\ n.cur = NoThread
        /\ n.fault = "none"
    BY <1>1, <1>2 DEF NewScheduler, SchedulerType, Prios, QueuesType
  <1> HIDE DEF n
  <1>5. Matches(n)
    BY <1>3, <1>4 DEF Matches, QueuedOnce, In, Invalid, Running
  <1> QED
    BY <1>4, <1>5 DEF KInv, RunsHighest, n

-----------------------------------------------------------------------------
(* ThreadList.                                                             *)

NoDup(w) == \A i, j \in DOMAIN w : w[i] = w[j] => i = j

ByPriority(prio, w) == \A i, j \in DOMAIN w : i < j => prio[w[i]] >= prio[w[j]]

(* A list of threads, index by index.                                      *)
LEMMA ListFacts ==
  ASSUME NEW w \in Seq(Threads)
  PROVE  /\ Len(w) \in Nat
         /\ DOMAIN w = 1 .. Len(w)
         /\ \A i \in 1 .. Len(w) : w[i] \in Threads
         /\ w = <<>> <=> Len(w) = 0
         /\ \A t : In(w, t) => t \in Threads /\ w # <<>>
  <1>1. /\ Len(w) \in Nat
        /\ DOMAIN w = 1 .. Len(w)
        /\ \A i \in 1 .. Len(w) : w[i] \in Threads
    BY LenProperties, ElementOfSeq
  <1>2. w = <<>> <=> Len(w) = 0
    BY EmptySeq
  <1> QED
    BY <1>1, <1>2 DEF In

(* put_current finds a place: behind those whose priority is not lower.    *)
LEMMA InsertAtFacts ==
  ASSUME NEW k, k.prio \in [Threads -> Queues], NEW t \in Threads, NEW w \in Seq(Threads)
  PROVE  LET i == InsertAt(k, w, t)
         IN  /\ i \in 1 .. Len(w) + 1
             /\ \A j \in 1 .. i - 1 : k.prio[w[j]] >= k.prio[t]
             /\ i <= Len(w) => k.prio[w[i]] < k.prio[t]
  <1> DEFINE Place(i) == /\ \A j \in 1 .. i - 1 : k.prio[w[j]] >= k.prio[t]
                         /\ i <= Len(w) => k.prio[w[i]] < k.prio[t]
             D == {j \in 1 .. Len(w) + 1 : j = Len(w) + 1 \/ k.prio[w[j]] < k.prio[t]}
  <1>1. Len(w) \in Nat /\ \A j \in 1 .. Len(w) : k.prio[w[j]] \in Int
    BY ListFacts, SizeAssumption DEF Queues
  <1>2. k.prio[t] \in Int
    BY SizeAssumption DEF Queues
  <1>3. D \in SUBSET Nat /\ D # {}
    <2>1. Len(w) + 1 \in 1 .. Len(w) + 1 /\ 1 .. Len(w) + 1 \subseteq Nat
      BY <1>1
    <2>2. Len(w) + 1 \in D
      BY <2>1
    <2> QED
      BY <2>1, <2>2
  <1>4. PICK i \in D : \A m \in D : i <= m
    <2> HIDE DEF D
    <2> QED
      BY <1>3, LowestExists
  <1>5. i \in 1 .. Len(w) + 1 /\ Place(i)
    <2>1. ASSUME NEW j \in 1 .. i - 1 PROVE k.prio[w[j]] >= k.prio[t]
      <3>1. j \in 1 .. Len(w) /\ j < i /\ j \in Int /\ i \in Int
        BY <1>1, <1>4
      <3>2. j \notin D
        BY <1>4, <3>1
      <3>3. ~(k.prio[w[j]] < k.prio[t])
        BY <1>1, <3>1, <3>2
      <3> QED
        BY <1>1, <1>2, <3>1, <3>3
    <2> QED
      BY <1>1, <1>4, <2>1
  <1> HIDE DEF Place
  <1>6. InsertAt(k, w, t) = CHOOSE j \in 1 .. Len(w) + 1 : Place(j)
    BY DEF InsertAt, Place
  <1>7. InsertAt(k, w, t) \in 1 .. Len(w) + 1 /\ Place(InsertAt(k, w, t))
    BY <1>5, <1>6
  <1> QED
    BY <1>7 DEF Place

(* The list after put_current, index by index, and its members.            *)
LEMMA InsertFacts ==
  ASSUME NEW k, k.prio \in [Threads -> Queues], k.cur \in Threads, NEW w \in Seq(Threads)
  PROVE  LET i == InsertAt(k, w, k.cur)
             n == WithCurrent(k, w)
         IN  /\ n \in Seq(Threads)
             /\ n # <<>>
             /\ DOMAIN n = 1 .. Len(w) + 1
             /\ \A j \in 1 .. Len(w) + 1 :
                  n[j] = IF j < i THEN w[j] ELSE IF j = i THEN k.cur ELSE w[j - 1]
             /\ \A t : In(n, t) <=> In(w, t) \/ t = k.cur
  <1> DEFINE i == InsertAt(k, w, k.cur)
             c == k.cur
             L == Len(w)
             a == SubSeq(w, 1, i - 1)
             b == SubSeq(w, i, L)
             n == WithCurrent(k, w)
  <1>1. i \in 1 .. L + 1 /\ L \in Nat /\ \A j \in 1 .. L : w[j] \in Threads
    BY InsertAtFacts, ListFacts
  <1>2. n = (a \o <<c>>) \o b
    BY DEF WithCurrent
  <1> HIDE DEF i, n
  <1>3. /\ a \in Seq(Threads)
        /\ Len(a) = i - 1
        /\ \A j \in 1 .. i - 1 : a[j] = w[j]
    <2>1. 1 \in Int /\ i - 1 \in Int /\ \A j \in 1 .. i - 1 : w[j] \in Threads
      BY <1>1
    <2>2. /\ a \in Seq(Threads)
          /\ Len(a) = IF 1 <= i - 1 THEN (i - 1) - 1 + 1 ELSE 0
          /\ \A j \in 1 .. (i - 1) - 1 + 1 : a[j] = w[1 + j - 1]
      BY <2>1, SubSeqProperties
    <2> HIDE DEF a
    <2>3. (IF 1 <= i - 1 THEN (i - 1) - 1 + 1 ELSE 0) = i - 1 /\ (i - 1) - 1 + 1 = i - 1
      BY <1>1
    <2>4. \A j \in 1 .. i - 1 : 1 + j - 1 = j
      BY <1>1
    <2> QED
      BY <2>2, <2>3, <2>4
  <1>4. /\ b \in Seq(Threads)
        /\ Len(b) = L - i + 1
        /\ \A j \in 1 .. L - i + 1 : b[j] = w[i + j - 1]
    <2>1. i \in Int /\ L \in Int /\ \A j \in i .. L : w[j] \in Threads
      BY <1>1
    <2>2. /\ b \in Seq(Threads)
          /\ Len(b) = IF i <= L THEN L - i + 1 ELSE 0
          /\ \A j \in 1 .. L - i + 1 : b[j] = w[i + j - 1]
      BY <2>1, SubSeqProperties
    <2> HIDE DEF b, L
    <2>3. (IF i <= L THEN L - i + 1 ELSE 0) = L - i + 1
      BY <1>1
    <2> QED
      BY <2>2, <2>3
  <1> HIDE DEF a, b
  <1>5. <<c>> \in Seq(Threads) /\ Len(<<c>>) = 1 /\ <<c>>[1] = c
    OBVIOUS
  <1> DEFINE ac == a \o <<c>>
  <1>6. /\ ac \in Seq(Threads)
        /\ Len(ac) = i
        /\ \A j \in 1 .. i : ac[j] = IF j < i THEN w[j] ELSE c
    <2>1. /\ ac \in Seq(Threads)
          /\ Len(ac) = Len(a) + Len(<<c>>)
          /\ \A j \in 1 .. Len(a) + Len(<<c>>) :
               ac[j] = IF j <= Len(a) THEN a[j] ELSE <<c>>[j - Len(a)]
      BY <1>3, <1>5, ConcatProperties
    <2> HIDE DEF ac
    <2>2. Len(a) + Len(<<c>>) = i
      BY <1>1, <1>3, <1>5
    <2>3. ASSUME NEW j \in 1 .. i PROVE ac[j] = IF j < i THEN w[j] ELSE c
      <3>1. CASE j < i
        <4>1. j <= Len(a) /\ j \in 1 .. i - 1
          BY <1>1, <1>3, <3>1
        <4> QED
          BY <1>3, <2>1, <2>2, <3>1, <4>1
      <3>2. CASE ~(j < i)
        <4>1. ~(j <= Len(a)) /\ j - Len(a) = 1
          BY <1>1, <1>3, <3>2
        <4> QED
          BY <1>5, <2>1, <2>2, <3>2, <4>1
      <3> QED
        BY <3>1, <3>2
    <2> QED
      BY <2>1, <2>2, <2>3
  <1> HIDE DEF ac
  <1>7. /\ n \in Seq(Threads)
        /\ Len(n) = L + 1
        /\ \A j \in 1 .. L + 1 : n[j] = IF j <= i THEN ac[j] ELSE b[j - i]
    <2>1. n = ac \o b
      BY <1>2 DEF ac
    <2>2. /\ n \in Seq(Threads)
          /\ Len(n) = Len(ac) + Len(b)
          /\ \A j \in 1 .. Len(ac) + Len(b) :
               n[j] = IF j <= Len(ac) THEN ac[j] ELSE b[j - Len(ac)]
      BY <1>4, <1>6, <2>1, ConcatProperties
    <2>3. Len(ac) + Len(b) = L + 1
      <3> HIDE DEF L
      <3> QED
        BY <1>1, <1>4, <1>6
    <2> QED
      BY <1>6, <2>2, <2>3
  <1>8. ASSUME NEW j \in 1 .. L + 1
        PROVE  n[j] = IF j < i THEN w[j] ELSE IF j = i THEN c ELSE w[j - 1]
    <2>1. CASE j <= i
      <3>1. j \in 1 .. i
        BY <1>1, <2>1
      <3> QED
        BY <1>1, <1>6, <1>7, <2>1, <3>1
    <2>2. CASE ~(j <= i)
      <3> HIDE DEF L
      <3>1. j - i \in 1 .. L - i + 1 /\ i + (j - i) - 1 = j - 1 /\ ~(j < i) /\ j # i
        BY <1>1, <2>2
      <3>2. n[j] = b[j - i]
        BY <1>7, <2>2
      <3> QED
        BY <1>4, <3>1, <3>2
    <2> QED
      BY <2>1, <2>2
  <1>9. DOMAIN n = 1 .. L + 1 /\ n # <<>>
    BY <1>1, <1>7, ListFacts
  <1>10. ASSUME NEW t PROVE In(n, t) <=> In(w, t) \/ t = c
    <2>1. DOMAIN w = 1 .. L
      BY ListFacts
    <2> HIDE DEF L, c
    <2>2. ASSUME In(n, t) PROVE In(w, t) \/ t = c
      <3>1. PICK j \in 1 .. L + 1 : n[j] = t
        BY <1>9, <2>2 DEF In
      <3>2. CASE j < i
        BY <1>1, <1>8, <2>1, <3>1, <3>2 DEF In
      <3>3. CASE j > i
        <4>1. j - 1 \in 1 .. L /\ ~(j < i) /\ j # i
          BY <1>1, <3>3
        <4> QED
          BY <1>8, <2>1, <3>1, <4>1 DEF In
      <3> QED
        BY <1>1, <1>8, <3>1, <3>2, <3>3
    <2>3. ASSUME In(w, t) PROVE In(n, t)
      <3>1. PICK j \in 1 .. L : w[j] = t
        BY <2>1, <2>3 DEF In
      <3>2. CASE j < i
        BY <1>1, <1>8, <1>9, <3>1, <3>2 DEF In
      <3>3. CASE ~(j < i)
        <4>1. j + 1 \in 1 .. L + 1 /\ ~(j + 1 < i) /\ j + 1 # i /\ (j + 1) - 1 = j
          BY <1>1, <3>3
        <4> QED
          BY <1>8, <1>9, <3>1, <4>1 DEF In
      <3> QED
        BY <3>2, <3>3
    <2>4. t = c => In(n, t)
      <3>1. i \in 1 .. L + 1 /\ ~(i < i)
        BY <1>1
      <3>2. n[i] = c
        BY <1>8, <3>1
      <3> QED
        BY <1>9, <3>1, <3>2 DEF In
    <2> QED
      BY <2>2, <2>3, <2>4
  <1> QED
    BY <1>7, <1>8, <1>9, <1>10 DEF n, i

(* put_current keeps a list without duplicates and in order of priority.   *)
LEMMA InsertKeeps ==
  ASSUME NEW k, k.prio \in [Threads -> Queues], k.cur \in Threads, NEW w \in Seq(Threads),
         NoDup(w), ~In(w, k.cur)
  PROVE  /\ NoDup(WithCurrent(k, w))
         /\ ByPriority(k.prio, w) => ByPriority(k.prio, WithCurrent(k, w))
         /\ BecomesHead(k, w) /\ ByPriority(k.prio, w) =>
              \A t \in Threads : In(w, t) => k.prio[t] < k.prio[k.cur]
         /\ ~BecomesHead(k, w) => w # <<>> /\ k.prio[Head(w)] >= k.prio[k.cur]
  <1> DEFINE i == InsertAt(k, w, k.cur)
             c == k.cur
             L == Len(w)
             n == WithCurrent(k, w)
             old(j) == IF j < i THEN j ELSE j - 1
  <1>1. /\ L \in Nat
        /\ DOMAIN w = 1 .. L
        /\ \A j \in 1 .. L : w[j] \in Threads
        /\ \A j \in 1 .. L : w[j] # c
    BY ListFacts DEF In
  <1>2. /\ i \in 1 .. L + 1
        /\ \A j \in 1 .. i - 1 : k.prio[w[j]] >= k.prio[c]
        /\ i <= L => k.prio[w[i]] < k.prio[c]
    BY InsertAtFacts
  <1>3. /\ DOMAIN n = 1 .. L + 1
        /\ \A j \in 1 .. L + 1 :
             n[j] = IF j < i THEN w[j] ELSE IF j = i THEN c ELSE w[j - 1]
    BY InsertFacts
  <1>4. \A t \in Threads : k.prio[t] \in Int
    BY SizeAssumption DEF Queues
  <1> HIDE DEF i, n, L
  <1>5. \A j \in 1 .. L + 1 : j # i => /\ old(j) \in 1 .. L
                                       /\ n[j] = w[old(j)]
                                       /\ n[j] # c
    BY <1>1, <1>2, <1>3
  <1>6. i \in 1 .. L + 1 /\ n[i] = c
    BY <1>2, <1>3
  <1>7. NoDup(n)
    <2> SUFFICES ASSUME NEW j \in 1 .. L + 1, NEW m \in 1 .. L + 1, n[j] = n[m]
                 PROVE  j = m
      BY <1>3 DEF NoDup
    <2>1. CASE j = i \/ m = i
      BY <1>5, <1>6, <2>1
    <2>2. CASE j # i /\ m # i
      <3>1. old(j) = old(m)
        BY <1>1, <1>5, <2>2 DEF NoDup
      <3> QED
        BY <1>2, <2>2, <3>1
    <2> QED
      BY <2>1, <2>2
  <1>8. ASSUME ByPriority(k.prio, w)
        PROVE  \A j \in i .. L : k.prio[w[j]] < k.prio[c]
    <2> SUFFICES ASSUME NEW j \in i .. L PROVE k.prio[w[j]] < k.prio[c]
      OBVIOUS
    <2>1. i \in 1 .. L /\ j \in 1 .. L /\ i <= L
      BY <1>1, <1>2
    <2>2. k.prio[w[i]] < k.prio[c] /\ k.prio[w[i]] \in Int /\ k.prio[w[j]] \in Int
      BY <1>1, <1>2, <1>4, <2>1
    <2>3. CASE j = i
      BY <2>2, <2>3
    <2>4. CASE j # i
      <3>1. i < j
        BY <2>1, <2>4
      <3>2. k.prio[w[i]] >= k.prio[w[j]]
        BY <1>1, <1>8, <2>1, <3>1 DEF ByPriority
      <3> QED
        BY <1>4, <2>2, <3>2
    <2> QED
      BY <2>3, <2>4
  <1>9. ASSUME ByPriority(k.prio, w) PROVE ByPriority(k.prio, n)
    <2> SUFFICES ASSUME NEW j \in 1 .. L + 1, NEW m \in 1 .. L + 1, j < m
                 PROVE  k.prio[n[j]] >= k.prio[n[m]]
      BY <1>3 DEF ByPriority
    <2>1. CASE j = i
      <3>1. m # i /\ m - 1 \in i .. L /\ old(m) = m - 1
        BY <1>1, <1>2, <2>1
      <3>2. n[m] = w[m - 1] /\ w[m - 1] \in Threads
        BY <1>1, <1>5, <3>1
      <3>3. k.prio[w[m - 1]] < k.prio[c]
        BY <1>8, <1>9, <3>1
      <3> QED
        BY <1>4, <1>6, <2>1, <3>2, <3>3
    <2>2. CASE m = i
      <3>1. j # i /\ j \in 1 .. i - 1 /\ old(j) = j
        BY <1>1, <1>2, <2>2
      <3> QED
        BY <1>2, <1>5, <1>6, <2>2, <3>1
    <2>3. CASE j # i /\ m # i
      <3>1. old(j) < old(m)
        BY <1>2, <2>3
      <3> QED
        BY <1>1, <1>5, <1>9, <2>3, <3>1 DEF ByPriority
    <2> QED
      BY <2>1, <2>2, <2>3
  <1>10. ASSUME i = 1, ByPriority(k.prio, w), NEW t \in Threads, In(w, t)
         PROVE  k.prio[t] < k.prio[c]
    <2>1. PICK j \in 1 .. L : w[j] = t
      BY <1>1, <1>10 DEF In
    <2> QED
      BY <1>8, <1>10, <2>1
  <1>11. ASSUME i # 1 PROVE w # <<>> /\ k.prio[Head(w)] >= k.prio[c]
    <2>1. 1 \in 1 .. i - 1 /\ L # 0
      BY <1>1, <1>2, <1>11
    <2>2. w # <<>>
      BY <2>1, ListFacts DEF L
    <2>3. Head(w) = w[1]
      BY <2>2, TailFacts
    <2> QED
      BY <1>2, <2>1, <2>2, <2>3
  <1> QED
    BY <1>7, <1>9, <1>10, <1>11 DEF n, i, BecomesHead

(* The order of a list depends on the priorities of its members.           *)
LEMMA SameOrder ==
  ASSUME NEW p, NEW q, NEW w, ByPriority(p, w), \A t : In(w, t) => q[t] = p[t]
  PROVE  ByPriority(q, w)
  BY DEF ByPriority, In

(* pop takes the first of a list, which has the highest priority.          *)
LEMMA PopListFacts ==
  ASSUME NEW w \in Seq(Threads), w # <<>>, NoDup(w)
  PROVE  /\ Head(w) \in Threads
         /\ In(w, Head(w))
         /\ Tail(w) \in Seq(Threads)
         /\ Tail(w) = <<>> <=> Len(w) = 1
         /\ NoDup(Tail(w))
         /\ \A t : In(Tail(w), t) <=> In(w, t) /\ t # Head(w)
         /\ \A prio \in [Threads -> Queues] : ByPriority(prio, w) =>
              /\ ByPriority(prio, Tail(w))
              /\ \A t \in Threads : In(w, t) => prio[Head(w)] >= prio[t]
  <1> DEFINE L == Len(w)
             n == Tail(w)
  <1>1. /\ L \in Nat \ {0}
        /\ DOMAIN w = 1 .. L
        /\ \A j \in 1 .. L : w[j] \in Threads
    BY ListFacts
  <1>2. /\ n \in Seq(Threads)
        /\ DOMAIN n = 1 .. L - 1
        /\ \A i \in 1 .. L - 1 : n[i] = w[i + 1]
        /\ n = <<>> <=> L = 1
        /\ Head(w) = w[1]
    BY TailFacts
  <1> HIDE DEF L, n
  <1>3. \A i \in 1 .. L - 1 : i + 1 \in 1 .. L /\ i \in Int
    BY <1>1
  <1>4. 1 \in 1 .. L
    BY <1>1
  <1>5. Head(w) \in Threads /\ In(w, Head(w))
    BY <1>1, <1>2, <1>4 DEF In
  <1>6. NoDup(n)
    <2> SUFFICES ASSUME NEW i \in 1 .. L - 1, NEW j \in 1 .. L - 1, n[i] = n[j]
                 PROVE  i = j
      BY <1>2 DEF NoDup
    <2>1. i + 1 = j + 1
      BY <1>1, <1>2, <1>3 DEF NoDup
    <2> QED
      BY <1>3, <2>1
  <1>7. ASSUME NEW t PROVE In(n, t) <=> In(w, t) /\ t # Head(w)
    <2>1. ASSUME In(n, t) PROVE In(w, t) /\ t # Head(w)
      <3>1. PICK i \in 1 .. L - 1 : n[i] = t
        BY <1>2, <2>1 DEF In
      <3>2. i + 1 \in 1 .. L /\ w[i + 1] = t /\ i + 1 # 1
        BY <1>1, <1>2, <3>1
      <3> QED
        BY <1>1, <1>2, <1>4, <3>2 DEF In, NoDup
    <2>2. ASSUME In(w, t), t # Head(w) PROVE In(n, t)
      <3>1. PICK i \in 1 .. L : w[i] = t
        BY <1>1, <2>2 DEF In
      <3>2. i - 1 \in 1 .. L - 1 /\ (i - 1) + 1 = i
        BY <1>1, <1>2, <2>2, <3>1
      <3> QED
        BY <1>2, <3>1, <3>2 DEF In
    <2> QED
      BY <2>1, <2>2
  <1>8. ASSUME NEW prio \in [Threads -> Queues], ByPriority(prio, w)
        PROVE  /\ ByPriority(prio, n)
               /\ \A t \in Threads : In(w, t) => prio[Head(w)] >= prio[t]
    <2>1. ASSUME NEW i \in 1 .. L - 1, NEW j \in 1 .. L - 1, i < j
          PROVE  prio[n[i]] >= prio[n[j]]
      <3>1. i + 1 \in 1 .. L /\ j + 1 \in 1 .. L /\ i + 1 < j + 1
        BY <1>1, <2>1
      <3> QED
        BY <1>1, <1>2, <1>8, <3>1 DEF ByPriority
    <2>2. ASSUME NEW t \in Threads, In(w, t) PROVE prio[Head(w)] >= prio[t]
      <3>1. PICK i \in 1 .. L : w[i] = t
        BY <1>1, <2>2 DEF In
      <3>2. prio[t] \in Int
        BY SizeAssumption DEF Queues
      <3>3. CASE i = 1
        BY <1>2, <3>1, <3>2, <3>3
      <3>4. CASE i # 1
        <4>1. 1 < i
          BY <3>1, <3>4
        <4> QED
          BY <1>1, <1>2, <1>4, <1>8, <3>1, <4>1 DEF ByPriority
      <3> QED
        BY <3>3, <3>4
    <2> QED
      BY <1>2, <2>1, <2>2 DEF ByPriority
  <1> QED
    BY <1>2, <1>5, <1>6, <1>7, <1>8 DEF n, L
=============================================================================
