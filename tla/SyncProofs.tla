----------------------------- MODULE SyncProofs -----------------------------
(***************************************************************************)
(* Lock, event, wait queue, semaphore, sleep and block_on with their       *)
(* deadlines, for every number of threads, priorities, deadlines and       *)
(* counts, when no sleeping thread is unparked: no wakeup is lost, no list *)
(* keeps a thread that has left, deadlines are armed, locks exclude.       *)
(***************************************************************************)
EXTENDS Sync, SchedulerProofs, FiniteSetTheorems

(* The thread states are different.                                        *)
Waking == FlagBlocked("Any", {THREAD_FLAG_WAKER})

LEMMA StatesDiffer ==
  /\ Running # Invalid /\ Running # Parked /\ Running # LockBlocked
  /\ Running # WaitQueueBlocked /\ Running # Waking
  /\ Parked # Invalid /\ Parked # LockBlocked /\ Parked # WaitQueueBlocked /\ Parked # Waking
  /\ Waking # Invalid /\ Waking # LockBlocked /\ Waking # WaitQueueBlocked
  /\ LockBlocked # Invalid /\ WaitQueueBlocked # Invalid /\ LockBlocked # WaitQueueBlocked
  /\ States = {Invalid, Running, Parked, LockBlocked, WaitQueueBlocked, Waking}
  BY DEF Running, Invalid, Parked, LockBlocked, WaitQueueBlocked, FlagBlocked, States, Waking

-----------------------------------------------------------------------------
(* Recursive functions.  Each one is a CHOOSE; the definition is satisfied *)
(* and what one step keeps holds of every value.                           *)

(* g goes from 0 to m by the steps F.                                      *)
Iterates(g, m, s, F) == g = [n \in 0 .. m |-> IF n = 0 THEN s ELSE F[n][g[n - 1]]]

(* There is one, and its value at n is in T[n] when the steps lead there.  *)
LEMMA Iterate ==
  ASSUME NEW N \in Nat, NEW T, NEW F, NEW s \in T[0],
         \A n \in 1 .. N : \A x \in T[n - 1] : F[n][x] \in T[n]
  PROVE  /\ \E g : Iterates(g, N, s, F)
         /\ \A g : Iterates(g, N, s, F) => \A n \in 0 .. N : g[n] \in T[n]
  <1> USE DEF Iterates
  <1> DEFINE Upto(m, g) ==
        g = [n \in 0 .. m |-> IF n = 0 THEN s ELSE F[n][g[n - 1]]]
  <1>1. \A m \in Nat : \E g : Upto(m, g)
    <2> DEFINE D == {m \in Nat : ~\E g : Upto(m, g)}
    <2> SUFFICES ASSUME D # {} PROVE FALSE
      OBVIOUS
    <2>1. PICK m \in D : \A n \in D : m <= n
      <3>1. D \in SUBSET Nat
        OBVIOUS
      <3> HIDE DEF D
      <3> QED
        BY <3>1, LowestExists
    <2>2. CASE m = 0
      <3> DEFINE g == [n \in 0 .. 0 |-> s]
      <3>1. Upto(0, g)
        OBVIOUS
      <3> QED
        BY <2>1, <2>2, <3>1
    <2>3. CASE m # 0
      <3>1. m \in Nat /\ m - 1 \in Nat /\ m - 1 \notin D
        BY <2>1, <2>3
      <3>2. PICK g : Upto(m - 1, g)
        BY <3>1
      <3> DEFINE h == [n \in 0 .. m |-> IF n < m THEN g[n] ELSE F[m][g[m - 1]]]
      <3>3. \A n \in 0 .. m - 1 : h[n] = g[n]
        BY <3>1
      <3>4. h[m] = F[m][h[m - 1]]
        BY <3>1, <3>3
      <3>5. \A n \in 0 .. m : h[n] = IF n = 0 THEN s ELSE F[n][h[n - 1]]
        <4> TAKE n \in 0 .. m
        <4>1. CASE n = m
          BY <2>3, <3>4, <4>1
        <4>2. CASE n < m
          <5>1. n \in 0 .. m - 1 /\ (n # 0 => n - 1 \in 0 .. m - 1)
            BY <3>1, <4>2
          <5>2. g[n] = IF n = 0 THEN s ELSE F[n][g[n - 1]]
            BY <3>2, <5>1
          <5> HIDE DEF h
          <5> QED
            BY <3>3, <5>1, <5>2
        <4> QED
          BY <3>1, <4>1, <4>2
      <3>6. h = [n \in 0 .. m |-> h[n]]
        OBVIOUS
      <3> HIDE DEF h
      <3>7. Upto(m, h)
        BY <3>5, <3>6
      <3> QED
        BY <2>1, <3>7
    <2> QED
      BY <2>2, <2>3
  <1>2. ASSUME NEW g, Upto(N, g)
        PROVE  \A n \in 0 .. N : g[n] \in T[n]
    <2> DEFINE D == {n \in 0 .. N : g[n] \notin T[n]}
    <2> SUFFICES ASSUME D # {} PROVE FALSE
      OBVIOUS
    <2>1. PICK m \in D : \A n \in D : m <= n
      <3>1. D \in SUBSET Nat
        OBVIOUS
      <3> HIDE DEF D
      <3> QED
        BY <3>1, LowestExists
    <2>2. g[m] = IF m = 0 THEN s ELSE F[m][g[m - 1]]
      BY <1>2, <2>1
    <2>3. m # 0
      BY <2>1, <2>2
    <2>4. m \in 1 .. N /\ m - 1 \in 0 .. N /\ m - 1 \notin D
      BY <2>1, <2>3
    <2>5. g[m - 1] \in T[m - 1]
      BY <2>4
    <2> QED
      BY <2>1, <2>2, <2>3, <2>4, <2>5
  <1> QED
    BY <1>1, <1>2

(* Halving ends, and gives no more than there was.                         *)
Halving(g) == [d \in Times |-> IF d <= MaxSleep THEN d ELSE g[d \div 2]]

LEMMA HalvedExists == Halved = Halving(Halved)
  <1> DEFINE Upto(m, g) ==
        g = [d \in 0 .. m |-> IF d <= MaxSleep THEN d ELSE g[d \div 2]]
  <1>1. \A m \in Nat : \E g : Upto(m, g)
    <2> DEFINE D == {m \in Nat : ~\E g : Upto(m, g)}
    <2> SUFFICES ASSUME D # {} PROVE FALSE
      OBVIOUS
    <2>1. PICK m \in D : \A n \in D : m <= n
      <3>1. D \in SUBSET Nat
        OBVIOUS
      <3> HIDE DEF D
      <3> QED
        BY <3>1, LowestExists
    <2>2. CASE m = 0
      <3> DEFINE g == [d \in 0 .. 0 |-> 0]
      <3>1. Upto(0, g)
        BY TimeAssumption
      <3> QED
        BY <2>1, <2>2, <3>1
    <2>3. CASE m # 0
      <3>1. m \in Nat /\ m - 1 \in Nat /\ m - 1 \notin D
        BY <2>1, <2>3
      <3>2. PICK g : Upto(m - 1, g)
        BY <3>1
      <3> DEFINE h == [d \in 0 .. m |-> IF d < m THEN g[d]
                                        ELSE IF m <= MaxSleep THEN m ELSE g[m \div 2]]
      <3>3. \A d \in 0 .. m - 1 : h[d] = g[d]
        BY <3>1
      <3>4. \A d \in 0 .. m : d > MaxSleep => d \div 2 \in 0 .. d - 1
        BY <3>1, TimeAssumption
      <3>5. h[m] = IF m <= MaxSleep THEN m ELSE h[m \div 2]
        BY <3>1, <3>3, <3>4, TimeAssumption
      <3>6. \A d \in 0 .. m : h[d] = IF d <= MaxSleep THEN d ELSE h[d \div 2]
        <4> TAKE d \in 0 .. m
        <4>1. CASE d = m
          BY <3>5, <4>1
        <4>2. CASE d < m
          <5>1. d \in 0 .. m - 1 /\ (d > MaxSleep => d \div 2 \in 0 .. m - 1)
            BY <3>1, <3>4, <4>2
          <5>2. g[d] = IF d <= MaxSleep THEN d ELSE g[d \div 2]
            BY <3>2, <5>1
          <5> HIDE DEF h
          <5> QED
            BY <3>3, <5>1, <5>2, TimeAssumption
        <4> QED
          BY <3>1, <4>1, <4>2
      <3>7. h = [d \in 0 .. m |-> h[d]]
        OBVIOUS
      <3> HIDE DEF h
      <3>8. Upto(m, h)
        BY <3>6, <3>7
      <3> QED
        BY <2>1, <3>8
    <2> QED
      BY <2>2, <2>3
  <1>2. Never \in Nat
    BY TimeAssumption DEF Never
  <1>3. \E g : g = Halving(g)
    BY <1>1, <1>2 DEF Halving, Times
  <1>4. Halved = CHOOSE g : g = Halving(g)
    BY DEF Halved, Halving
  <1> QED
    BY <1>3, <1>4

LEMMA HalvedFacts == \A d \in Times : Halved[d] \in 0 .. d
  <1>1. Times = 0 .. Never /\ Never \in Nat
    BY TimeAssumption DEF Never, Times
  <1> DEFINE D == {d \in Times : Halved[d] \notin 0 .. d}
  <1> SUFFICES ASSUME D # {} PROVE FALSE
    OBVIOUS
  <1>2. PICK m \in D : \A n \in D : m <= n
    <2>1. D \in SUBSET Nat
      BY <1>1
    <2> HIDE DEF D
    <2> QED
      BY <2>1, LowestExists
  <1>3. Halved[m] = IF m <= MaxSleep THEN m ELSE Halved[m \div 2]
    BY <1>2, HalvedExists DEF Halving
  <1>4. m > MaxSleep
    BY <1>1, <1>2, <1>3, TimeAssumption
  <1>5. m \div 2 \in 0 .. m - 1
    BY <1>1, <1>2, <1>4, TimeAssumption
  <1>6. m \div 2 \in Times /\ m \div 2 \notin D
    BY <1>1, <1>2, <1>5
  <1> QED
    BY <1>1, <1>2, <1>3, <1>4, <1>5, <1>6, TimeAssumption

-----------------------------------------------------------------------------
(* A thread's entry in the timer queue is its deadline, and the hardware   *)
(* timer fires before the first entry is due.                              *)
TimerOK(x) ==
  /\ \A t \in Threads :
       /\ x.timer[t] = IF x.deadline[t] = NoDeadline THEN Never ELSE x.deadline[t]
       /\ x.timer[t] # 0
       /\ x.next_wakeup <= x.timer[t]
  /\ x.alarm <= x.next_wakeup

TInv(x) == x \in TimeoutsType(States) /\ KInv(States, x.k) /\ TimerOK(x)

(* From x to n the deadline of thread t is left alone, or it has ended the *)
(* wait of the thread.                                                     *)
Fires(x, n, t) ==
  \/ n.k.state[t] = x.k.state[t] /\ n.deadline[t] = x.deadline[t]
  \/ x.deadline[t] # NoDeadline /\ n.deadline[t] = NoDeadline /\ n.k.state[t] = Running

SameWaker(x, n, t) == THREAD_FLAG_WAKER \in n.k.flags[t] <=> THREAD_FLAG_WAKER \in x.k.flags[t]

(* Some deadlines end, and nothing else happens, but for the threads ts.   *)
TimeStep(x, n, ts) ==
  /\ n.now = x.now
  /\ n.k.prio = x.k.prio
  /\ n.k.cur = x.k.cur
  /\ Leads(x.k) => Leads(n.k)
  /\ \A t \in Threads : t \notin ts => Fires(x, n, t)
  /\ \A t \in Threads : SameWaker(x, n, t)

LEMMA TimeFields ==
  /\ \A x \in TimeoutsType(States) :
       /\ x.k \in SchedulerType(States)
       /\ x.now \in 0 .. MaxTime
       /\ x.deadline \in [Threads -> Times \cup {NoDeadline}]
       /\ x.timer \in [Threads -> Times]
       /\ x.next_wakeup \in Times
       /\ x.alarm \in Times
       /\ x = [k |-> x.k, now |-> x.now, deadline |-> x.deadline, timer |-> x.timer,
               next_wakeup |-> x.next_wakeup, alarm |-> x.alarm]
  /\ MaxTime \in Nat /\ Never = MaxTime + 1 /\ Never \in Nat
  /\ Times = 0 .. Never
  /\ NoDeadline \notin Times /\ NoDeadline = -1
  <1>1. \A x \in TimeoutsType(States) :
       /\ x.k \in SchedulerType(States)
       /\ x.now \in 0 .. MaxTime
       /\ x.deadline \in [Threads -> Times \cup {NoDeadline}]
       /\ x.timer \in [Threads -> Times]
       /\ x.next_wakeup \in Times
       /\ x.alarm \in Times
       /\ x = [k |-> x.k, now |-> x.now, deadline |-> x.deadline, timer |-> x.timer,
               next_wakeup |-> x.next_wakeup, alarm |-> x.alarm]
    BY DEF TimeoutsType
  <1>2. MaxTime \in Nat /\ Never = MaxTime + 1 /\ Never \in Nat /\ Times = 0 .. Never
    BY TimeAssumption DEF Never, Times
  <1>3. NoDeadline \notin Times /\ NoDeadline = -1
    BY <1>2 DEF NoDeadline
  <1> QED
    BY <1>1, <1>2, <1>3

(* wake() of a due entry sets the thread running.                          *)
LEMMA WakeThreadStep ==
  ASSUME NEW k0, KInv(States, k0), NEW t \in Threads
  PROVE  LET n == WakeThread(k0, t)
         IN  /\ KInv(States, n)
             /\ n.state = [k0.state EXCEPT ![t] = Running]
             /\ n.prio = k0.prio
             /\ n.cur = k0.cur
             /\ \A u \in Threads :
                  THREAD_FLAG_WAKER \in n.flags[u] <=> THREAD_FLAG_WAKER \in k0.flags[u]
             /\ Leads(k0) => Leads(n)
  <1> DEFINE mask == {THREAD_FLAG_TIMEOUT}
             k1 == FlagSet(k0, t, mask)
  <1>1. mask \in SUBSET Flags /\ Running \in States
    BY WakeFlagsAssumption, StatesDiffer
  <1>2. /\ KInv(States, k1) /\ k1.prio = k0.prio /\ k1.cur = k0.cur /\ HeadsKept(k0, k1)
        /\ k1.flags = [k0.flags EXCEPT ![t] = @ \cup mask]
        /\ k1.state = k0.state \/ k1.state = [k0.state EXCEPT ![t] = Running]
    <2> DEFINE wakes == /\ k0.state[t][1] = "FlagBlocked"
                        /\ Satisfied(k0.flags[t] \cup mask, k0.state[t][2], k0.state[t][3])
    <2>1. /\ KInv(States, k1) /\ k1.prio = k0.prio /\ k1.cur = k0.cur /\ HeadsKept(k0, k1)
          /\ k1.flags = [k0.flags EXCEPT ![t] = @ \cup mask]
          /\ k1.state = IF wakes THEN [k0.state EXCEPT ![t] = Running] ELSE k0.state
      <3> HIDE DEF mask
      <3> QED
        BY <1>1, FlagSetStep
    <2> HIDE DEF k1, mask, wakes
    <2> QED
      BY <2>1
  <1>3. /\ k0.state \in [Threads -> States] /\ k0.flags \in [Threads -> SUBSET Flags]
        /\ k1.state \in [Threads -> States]
    BY <1>2 DEF KInv, SchedulerType
  <1>4. Leads(k0) => Leads(k1)
    <2>1. SUFFICES ASSUME Leads(k0) PROVE Leads(k1)
      OBVIOUS
    <2>2. k1.state[k0.cur] = Running
      BY <1>2, <1>3, <2>1 DEF Leads
    <2> HIDE DEF k1
    <2> QED
      BY <1>2, <2>1, <2>2, StillLeads
  <1>5. \A u \in Threads :
          THREAD_FLAG_WAKER \in k1.flags[u] <=> THREAD_FLAG_WAKER \in k0.flags[u]
    BY <1>2, <1>3 DEF THREAD_FLAG_WAKER, THREAD_FLAG_TIMEOUT
  <1> DEFINE n == SetState(k1, t, Running)
  <1>6. /\ KInv(States, n) /\ n.state = [k1.state EXCEPT ![t] = Running] /\ n.prio = k1.prio
        /\ n.flags = k1.flags /\ n.cur = k1.cur /\ HeadsKept(k1, n)
    <2> HIDE DEF k1
    <2> QED
      BY <1>1, <1>2, RunStep
  <1>7. WakeThread(k0, t) = IF k1.state[t] = Running THEN k1 ELSE n
    BY DEF WakeThread
  <1> HIDE DEF k1, n
  <1>8. CASE k1.state[t] = Running
    <2>1. k1.state = [k0.state EXCEPT ![t] = Running]
      BY <1>2, <1>3, <1>8
    <2> QED
      BY <1>2, <1>4, <1>5, <1>7, <1>8, <2>1
  <1>9. CASE k1.state[t] # Running
    <2>1. n.state = [k0.state EXCEPT ![t] = Running]
      BY <1>2, <1>3, <1>6
    <2>2. Leads(k1) => Leads(n)
      <3>1. SUFFICES ASSUME Leads(k1) PROVE Leads(n)
        OBVIOUS
      <3>2. n.state[k1.cur] = Running
        BY <1>3, <1>6, <3>1 DEF Leads
      <3> QED
        BY <1>2, <1>6, <3>1, <3>2, StillLeads
    <2> QED
      BY <1>2, <1>4, <1>5, <1>6, <1>7, <1>9, <2>1, <2>2
  <1> QED
    BY <1>8, <1>9

(* The threads of a set are woken one after the other.                     *)
WakeEach(k0, woken, g) ==
  [n \in 0 .. N_THREADS |->
     IF n = 0 THEN k0
     ELSE IF n - 1 \in woken THEN WakeThread(g[n - 1], n - 1) ELSE g[n - 1]]

Woken(k0, woken) == (CHOOSE g : g = WakeEach(k0, woken, g))[N_THREADS]

LEMMA WokenFacts ==
  ASSUME NEW k0, KInv(States, k0), NEW woken \in SUBSET Threads
  PROVE  LET n == Woken(k0, woken)
         IN  /\ KInv(States, n)
             /\ \A u \in Threads :
                  /\ n.state[u] = IF u \in woken THEN Running ELSE k0.state[u]
                  /\ THREAD_FLAG_WAKER \in n.flags[u] <=> THREAD_FLAG_WAKER \in k0.flags[u]
             /\ n.prio = k0.prio
             /\ n.cur = k0.cur
             /\ Leads(k0) => Leads(n)
  <1> DEFINE OK(n, x) ==
        /\ KInv(States, x)
        /\ \A u \in Threads :
             /\ x.state[u] = IF u \in woken /\ u < n THEN Running ELSE k0.state[u]
             /\ THREAD_FLAG_WAKER \in x.flags[u] <=> THREAD_FLAG_WAKER \in k0.flags[u]
        /\ x.prio = k0.prio
        /\ x.cur = k0.cur
        /\ Leads(k0) => Leads(x)
      T == [n \in 0 .. N_THREADS |-> {x \in SchedulerType(States) : OK(n, x)}]
      F == [n \in 1 .. N_THREADS |-> [x \in SchedulerType(States) |->
              IF n - 1 \in woken THEN WakeThread(x, n - 1) ELSE x]]
      Eq(g) == Iterates(g, N_THREADS, k0, F)
  <1>1. N_THREADS \in Nat /\ Threads = 0 .. N_THREADS - 1
    BY SizeAssumption DEF Threads
  <1>2. k0 \in T[0]
    <2>1. k0 \in SchedulerType(States)
      BY DEF KInv
    <2>2. \A u \in Threads : ~(u < 0)
      BY <1>1
    <2> QED
      BY <1>1, <2>1, <2>2
  <1>3. ASSUME NEW n \in 1 .. N_THREADS, NEW x \in T[n - 1]
        PROVE  /\ F[n][x] = IF n - 1 \in woken THEN WakeThread(x, n - 1) ELSE x
               /\ F[n][x] \in T[n]
    <2>1. n - 1 \in 0 .. N_THREADS /\ n - 1 \in Threads /\ n \in 0 .. N_THREADS
      BY <1>1
    <2>2. x \in SchedulerType(States) /\ OK(n - 1, x)
      BY <2>1
    <2>3. F[n][x] = IF n - 1 \in woken THEN WakeThread(x, n - 1) ELSE x
      BY <2>2
    <2>4. \A u \in Threads : u < n <=> u < n - 1 \/ u = n - 1
      BY <1>1
    <2>5. CASE n - 1 \in woken
      <3> DEFINE y == WakeThread(x, n - 1)
      <3>1. /\ KInv(States, y)
            /\ y.state = [x.state EXCEPT ![n - 1] = Running]
            /\ y.prio = x.prio
            /\ y.cur = x.cur
            /\ \A u \in Threads :
                 THREAD_FLAG_WAKER \in y.flags[u] <=> THREAD_FLAG_WAKER \in x.flags[u]
            /\ Leads(x) => Leads(y)
        BY <2>1, <2>2, WakeThreadStep
      <3> HIDE DEF y
      <3>2. x.state \in [Threads -> States] /\ y \in SchedulerType(States)
        BY <2>2, <3>1 DEF KInv, SchedulerType
      <3>3. \A u \in Threads : y.state[u] = IF u = n - 1 THEN Running ELSE x.state[u]
        BY <2>1, <3>1, <3>2
      <3>4. \A u \in Threads :
              y.state[u] = IF u \in woken /\ u < n THEN Running ELSE k0.state[u]
        BY <2>2, <2>4, <2>5, <3>3
      <3>5. OK(n, y)
        BY <2>2, <3>1, <3>4
      <3>6. F[n][x] = y
        BY <2>3, <2>5 DEF y
      <3> HIDE DEF F, OK
      <3> QED
        BY <2>1, <2>3, <2>5, <3>2, <3>5, <3>6 DEF y
    <2>6. CASE n - 1 \notin woken
      <3>1. \A u \in Threads :
              x.state[u] = IF u \in woken /\ u < n THEN Running ELSE k0.state[u]
        BY <2>2, <2>4, <2>6
      <3>2. OK(n, x)
        BY <2>2, <3>1
      <3>3. F[n][x] = x
        BY <2>3, <2>6
      <3> HIDE DEF F, OK
      <3> QED
        BY <2>1, <2>2, <2>3, <2>6, <3>2, <3>3
    <2> QED
      BY <2>5, <2>6
  <1> HIDE DEF T, F
  <1>4. /\ \E g : Eq(g)
        /\ \A g : Eq(g) => \A n \in 0 .. N_THREADS : g[n] \in T[n]
    <2>1. \A n \in 1 .. N_THREADS : \A x \in T[n - 1] : F[n][x] \in T[n]
      BY <1>3
    <2> QED
      BY <1>1, <1>2, <2>1, Iterate
  <1>5. ASSUME NEW g
        PROVE  Eq(g) => g = WakeEach(k0, woken, g)
    <2>1. SUFFICES ASSUME Eq(g) PROVE g = WakeEach(k0, woken, g)
      OBVIOUS
    <2>2. \A n \in 0 .. N_THREADS : g[n] \in T[n]
      BY <1>4, <2>1
    <2>3. \A n \in 1 .. N_THREADS :
            F[n][g[n - 1]] = IF n - 1 \in woken THEN WakeThread(g[n - 1], n - 1) ELSE g[n - 1]
      BY <1>1, <1>3, <2>2
    <2> QED
      BY <1>1, <2>1, <2>3 DEF WakeEach, Iterates
  <1>6. PICK h : h = CHOOSE g : g = WakeEach(k0, woken, g)
    OBVIOUS
  <1>7. h = WakeEach(k0, woken, h)
    BY <1>4, <1>5, <1>6
  <1>8. \A n \in 0 .. N_THREADS : h[n] \in T[n]
    <2> DEFINE D == {n \in 0 .. N_THREADS : h[n] \notin T[n]}
    <2> SUFFICES ASSUME D # {} PROVE FALSE
      OBVIOUS
    <2>1. PICK m \in D : \A n \in D : m <= n
      <3>1. D \in SUBSET Nat
        BY <1>1
      <3> HIDE DEF D
      <3> QED
        BY <3>1, LowestExists
    <2>2. h[m] = IF m = 0 THEN k0
                 ELSE IF m - 1 \in woken THEN WakeThread(h[m - 1], m - 1) ELSE h[m - 1]
      BY <1>7, <2>1 DEF WakeEach
    <2>3. m # 0
      BY <1>2, <2>1, <2>2
    <2>4. m \in 1 .. N_THREADS /\ m - 1 \in 0 .. N_THREADS /\ m - 1 \notin D
      BY <1>1, <2>1, <2>3
    <2>5. h[m - 1] \in T[m - 1]
      BY <2>4
    <2> QED
      BY <1>3, <2>1, <2>2, <2>3, <2>4, <2>5
  <1>9. h[N_THREADS] \in T[N_THREADS]
    BY <1>1, <1>8
  <1>10. OK(N_THREADS, h[N_THREADS])
    BY <1>1, <1>9 DEF T
  <1>11. Woken(k0, woken) = h[N_THREADS]
    BY <1>6 DEF Woken
  <1>12. \A u \in Threads : u < N_THREADS
    BY <1>1
  <1> HIDE DEF OK
  <1>13. LET n == h[N_THREADS] IN OK(N_THREADS, n)
    BY <1>10
  <1> QED
    BY <1>10, <1>11, <1>12 DEF OK

(* The earliest entry of the timer queue.                                  *)
LEMMA EarliestFacts ==
  ASSUME NEW timer \in [Threads -> Times]
  PROVE  /\ Earliest(timer) \in Times
         /\ \A t \in Threads : Earliest(timer) <= timer[t]
         /\ Earliest(timer) = Never \/ \E t \in Threads : Earliest(timer) = timer[t]
  <1> DEFINE D == {Never} \cup {timer[t] : t \in Threads}
  <1>1. D \in SUBSET Nat /\ D # {} /\ D \subseteq Times /\ Never \in Nat
    BY TimeFields
  <1>2. PICK d \in D : \A m \in D : d <= m
    <2> HIDE DEF D
    <2> QED
      BY <1>1, LowestExists
  <1>3. \E e \in Times : /\ \A t \in Threads : e <= timer[t]
                         /\ e = Never \/ \E t \in Threads : e = timer[t]
    <2>1. d \in Times
      BY <1>1
    <2>2. \A t \in Threads : d <= timer[t]
      BY <1>2
    <2>3. d = Never \/ \E t \in Threads : d = timer[t]
      OBVIOUS
    <2> HIDE DEF D
    <2> QED
      BY <2>1, <2>2, <2>3
  <1> QED
    BY <1>3 DEF Earliest

(* The threads whose entry is due.                                         *)
Ended(x) == {t \in Threads : x.timer[t] <= x.now /\ Due(x, t)}

LEMMA ExpireIs ==
  ASSUME NEW x \in TimeoutsType(States)
  PROVE  LET n == Expire(x)
         IN  /\ n.k = Woken(x.k, Ended(x))
             /\ n.now = x.now
             /\ n.deadline = [t \in Threads |-> IF t \in Ended(x) THEN NoDeadline
                                                ELSE x.deadline[t]]
             /\ n.timer = Pending(x)
             /\ n.next_wakeup = Earliest(Pending(x))
             /\ n.alarm = x.alarm
             /\ n = [k |-> n.k, now |-> n.now, deadline |-> n.deadline, timer |-> n.timer,
                     next_wakeup |-> n.next_wakeup, alarm |-> n.alarm]
  <1>1. Expire(x) = [x EXCEPT !.k = Woken(x.k, Ended(x)),
                       !.deadline = [t \in Threads |-> IF t \in Ended(x) THEN NoDeadline
                                                       ELSE x.deadline[t]],
                       !.timer = Pending(x), !.next_wakeup = Earliest(Pending(x))]
    BY DEF Expire, Woken, WakeEach, Ended
  <1> QED
    BY <1>1 DEF TimeoutsType

(* Every entry is the deadline of its thread, or has to go.                *)
Entries(x) ==
  \A t \in Threads : IF x.deadline[t] = NoDeadline THEN x.timer[t] = Never \/ x.timer[t] <= x.now
                     ELSE x.timer[t] = x.deadline[t]

LEMMA ExpireFacts ==
  ASSUME NEW x \in TimeoutsType(States), KInv(States, x.k), Entries(x)
  PROVE  LET n == Expire(x)
         IN  /\ n \in TimeoutsType(States)
             /\ KInv(States, n.k)
             /\ TimeStep(x, n, {})
             /\ \A t \in Threads :
                  /\ n.timer[t] = IF n.deadline[t] = NoDeadline THEN Never ELSE n.deadline[t]
                  /\ n.timer[t] # 0
                  /\ n.next_wakeup <= n.timer[t]
             /\ n.now < n.next_wakeup
             /\ n.alarm = x.alarm
  <1> DEFINE n == Expire(x)
  <1>1. /\ n.k = Woken(x.k, Ended(x)) /\ n.now = x.now /\ n.timer = Pending(x)
        /\ n.deadline = [t \in Threads |-> IF t \in Ended(x) THEN NoDeadline ELSE x.deadline[t]]
        /\ n.next_wakeup = Earliest(Pending(x)) /\ n.alarm = x.alarm
        /\ n = [k |-> n.k, now |-> n.now, deadline |-> n.deadline, timer |-> n.timer,
                next_wakeup |-> n.next_wakeup, alarm |-> n.alarm]
    BY ExpireIs
  <1>2. /\ KInv(States, n.k)
        /\ \A u \in Threads :
             /\ n.k.state[u] = IF u \in Ended(x) THEN Running ELSE x.k.state[u]
             /\ SameWaker(x, n, u)
        /\ n.k.prio = x.k.prio
        /\ n.k.cur = x.k.cur
        /\ Leads(x.k) => Leads(n.k)
    <2>1. Ended(x) \in SUBSET Threads
      BY DEF Ended
    <2> HIDE DEF n
    <2> QED
      BY <1>1, <2>1, WokenFacts DEF SameWaker
  <1> HIDE DEF n
  <1>3. /\ x.now \in Nat /\ x.now < Never /\ Never \in Nat
        /\ \A t \in Threads : x.timer[t] \in 0 .. Never /\ x.deadline[t] \in Times \cup {NoDeadline}
    BY TimeFields
  <1>4. \A t \in Threads : n.timer[t] = IF x.timer[t] <= x.now THEN Never ELSE x.timer[t]
    BY <1>1 DEF Pending
  <1>5. \A t \in Threads : n.timer[t] \in 0 .. Never /\ n.timer[t] > x.now
    BY <1>3, <1>4
  <1>6. n.timer \in [Threads -> Times]
    BY <1>1, <1>5, TimeFields DEF Pending
  <1>7. /\ n.next_wakeup \in Times
        /\ \A t \in Threads : n.next_wakeup <= n.timer[t]
        /\ x.now < n.next_wakeup
    BY <1>1, <1>3, <1>5, <1>6, EarliestFacts
  <1>8. \A t \in Threads : t \in Ended(x) <=> x.deadline[t] # NoDeadline /\ x.timer[t] <= x.now
    BY <1>3, TimeFields DEF Ended, Due, Entries
  <1>9. \A t \in Threads : n.deadline[t] = IF t \in Ended(x) THEN NoDeadline ELSE x.deadline[t]
    BY <1>1
  <1>10. \A t \in Threads :
           n.timer[t] = IF n.deadline[t] = NoDeadline THEN Never ELSE n.deadline[t]
    BY <1>3, <1>4, <1>8, <1>9 DEF Entries
  <1>11. \A t \in Threads : n.timer[t] # 0
    BY <1>3, <1>5
  <1>12. n \in TimeoutsType(States)
    <2>1. n.deadline \in [Threads -> Times \cup {NoDeadline}]
      BY <1>1, <1>3
    <2>2. n.k \in SchedulerType(States) /\ n.now \in 0 .. MaxTime /\ n.alarm \in Times
      BY <1>1, <1>2, TimeFields DEF KInv
    <2> QED
      BY <1>1, <1>6, <1>7, <2>1, <2>2 DEF TimeoutsType
  <1>13. TimeStep(x, n, {})
    <2>1. \A t \in Threads : Fires(x, n, t)
      BY <1>2, <1>8, <1>9 DEF Fires
    <2> QED
      BY <1>1, <1>2, <2>1 DEF TimeStep
  <1> QED
    BY <1>1, <1>2, <1>7, <1>10, <1>11, <1>12, <1>13 DEF n

(* The timer is armed for the next wakeup or before.                       *)
LEMMA ArmFacts ==
  ASSUME NEW now \in 0 .. MaxTime, NEW next \in Times, now <= next
  PROVE  ArmNextWakeup(now, next) \in Times /\ ArmNextWakeup(now, next) <= next
  <1>1. next - now \in Times /\ now \in Nat /\ next \in 0 .. Never /\ Never \in Nat
    BY TimeFields
  <1>2. Halved[next - now] \in 0 .. next - now
    BY <1>1, HalvedFacts
  <1> QED
    BY <1>1, <1>2, TimeFields DEF ArmNextWakeup

(* The alarm of a record is set anew.                                      *)
LEMMA AlarmStep ==
  ASSUME NEW n \in TimeoutsType(States), KInv(States, n.k), NEW a \in Times,
         a <= n.next_wakeup,
         \A t \in Threads :
            /\ n.timer[t] = IF n.deadline[t] = NoDeadline THEN Never ELSE n.deadline[t]
            /\ n.timer[t] # 0
            /\ n.next_wakeup <= n.timer[t]
  PROVE  LET m == [n EXCEPT !.alarm = a]
         IN  /\ TInv(m)
             /\ m.k = n.k /\ m.now = n.now /\ m.deadline = n.deadline
  <1> DEFINE m == [n EXCEPT !.alarm = a]
  <1>1. /\ m \in TimeoutsType(States)
        /\ m.k = n.k /\ m.now = n.now /\ m.deadline = n.deadline /\ m.timer = n.timer
        /\ m.next_wakeup = n.next_wakeup /\ m.alarm = a
    BY DEF TimeoutsType
  <1> HIDE DEF m
  <1>2. TInv(m)
    BY <1>1 DEF TInv, TimerOK
  <1> QED
    BY <1>1, <1>2 DEF m

(* timer_handler.                                                          *)
LEMMA TimerHandlerStep ==
  ASSUME NEW x, TInv(x)
  PROVE  LET n == TimerHandler(x)
         IN  TInv(n) /\ TimeStep(x, n, {})
  <1> DEFINE e == IF x.now >= x.next_wakeup THEN Expire(x) ELSE x
             a == IF e.next_wakeup = Never THEN Never ELSE ArmNextWakeup(x.now, e.next_wakeup)
             n == [e EXCEPT !.alarm = a]
  <1>1. x \in TimeoutsType(States) /\ KInv(States, x.k) /\ TimerOK(x)
    BY DEF TInv
  <1>2. Entries(x)
    BY <1>1 DEF Entries, TimerOK
  <1>3. /\ e \in TimeoutsType(States) /\ KInv(States, e.k) /\ TimeStep(x, e, {})
        /\ \A t \in Threads :
             /\ e.timer[t] = IF e.deadline[t] = NoDeadline THEN Never ELSE e.deadline[t]
             /\ e.timer[t] # 0
             /\ e.next_wakeup <= e.timer[t]
        /\ e.now = x.now /\ x.now <= e.next_wakeup
    <2>1. CASE x.now >= x.next_wakeup
      <3>1. e = Expire(x)
        BY <2>1
      <3> HIDE DEF e
      <3>2. /\ e \in TimeoutsType(States) /\ KInv(States, e.k) /\ TimeStep(x, e, {})
            /\ \A t \in Threads :
                 /\ e.timer[t] = IF e.deadline[t] = NoDeadline THEN Never ELSE e.deadline[t]
                 /\ e.timer[t] # 0
                 /\ e.next_wakeup <= e.timer[t]
            /\ e.now < e.next_wakeup
        BY <1>1, <1>2, <3>1, ExpireFacts
      <3>3. e.now = x.now
        BY <3>2 DEF TimeStep
      <3>4. x.now \in Int /\ e.next_wakeup \in Int
        BY <1>1, <3>2, TimeFields
      <3> QED
        BY <3>2, <3>3, <3>4
    <2>2. CASE ~(x.now >= x.next_wakeup)
      <3>1. e = x
        BY <2>2
      <3> HIDE DEF e
      <3>2. x.now <= x.next_wakeup
        BY <1>1, <2>2, TimeFields
      <3> QED
        BY <1>1, <3>1, <3>2 DEF TimeStep, Fires, SameWaker, TimerOK
    <2> QED
      BY <2>1, <2>2
  <1> HIDE DEF e
  <1>4. a \in Times /\ a <= e.next_wakeup
    <2>1. e.next_wakeup \in Times /\ x.now \in 0 .. MaxTime /\ Never \in Times /\ Never <= Never
      BY <1>1, <1>3, TimeFields
    <2> QED
      BY <1>3, <2>1, ArmFacts
  <1>5. TimerHandler(x) = n
    BY DEF TimerHandler, e
  <1> HIDE DEF a
  <1>6. TInv(n) /\ n.k = e.k /\ n.now = e.now /\ n.deadline = e.deadline
    BY <1>3, <1>4, AlarmStep
  <1> HIDE DEF n
  <1>7. TimeStep(x, n, {})
    BY <1>3, <1>6 DEF TimeStep, Fires, SameWaker
  <1> QED
    BY <1>5, <1>6, <1>7

(* schedule_wake.                                                          *)
LEMMA ScheduleWakeStep ==
  ASSUME NEW x \in TimeoutsType(States), KInv(States, x.k), NEW t \in Threads, NEW at \in Times,
         at >= x.timer[t] => TimerOK(x),
         at < x.timer[t] => Entries([x EXCEPT !.timer[t] = at])
  PROVE  LET n == ScheduleWake(x, t, at)
         IN  TInv(n) /\ TimeStep(x, n, {})
  <1>1. x.timer[t] \in Times /\ Times = 0 .. Never /\ Never \in Nat
    BY TimeFields
  <1>2. CASE at >= x.timer[t]
    <2>1. ScheduleWake(x, t, at) = x
      BY <1>2 DEF ScheduleWake
    <2>2. TInv(x) /\ TimeStep(x, x, {})
      BY <1>2 DEF TInv, TimeStep, Fires, SameWaker
    <2> QED
      BY <2>1, <2>2
  <1>3. CASE ~(at >= x.timer[t])
    <2> DEFINE y == [x EXCEPT !.timer[t] = at]
               e == Expire(y)
               a == ArmNextWakeup(x.now, e.next_wakeup)
               n == [e EXCEPT !.alarm = a]
    <2>1. /\ y \in TimeoutsType(States) /\ y.k = x.k /\ y.now = x.now /\ y.deadline = x.deadline
      BY DEF TimeoutsType
    <2>2. Entries(y)
      BY <1>1, <1>3
    <2>3. ScheduleWake(x, t, at) = n
      BY <1>3 DEF ScheduleWake
    <2> HIDE DEF y
    <2>4. /\ e \in TimeoutsType(States) /\ KInv(States, e.k) /\ TimeStep(y, e, {})
          /\ \A u \in Threads :
               /\ e.timer[u] = IF e.deadline[u] = NoDeadline THEN Never ELSE e.deadline[u]
               /\ e.timer[u] # 0
               /\ e.next_wakeup <= e.timer[u]
          /\ e.now < e.next_wakeup
      BY <2>1, <2>2, ExpireFacts
    <2> HIDE DEF e
    <2>5. e.now = x.now
      BY <2>1, <2>4 DEF TimeStep
    <2>6. a \in Times /\ a <= e.next_wakeup
      <3>1. x.now \in 0 .. MaxTime /\ e.next_wakeup \in Times /\ x.now <= e.next_wakeup
        BY <2>4, <2>5, TimeFields
      <3> QED
        BY <3>1, ArmFacts
    <2> HIDE DEF a
    <2>7. TInv(n) /\ n.k = e.k /\ n.now = e.now /\ n.deadline = e.deadline
      BY <2>4, <2>6, AlarmStep
    <2> HIDE DEF n
    <2>8. TimeStep(x, n, {})
      BY <2>1, <2>4, <2>7 DEF TimeStep, Fires, SameWaker
    <2> QED
      BY <2>3, <2>7, <2>8
  <1> QED
    BY <1>2, <1>3

(* set_deadline of the current thread, which has none.                     *)
LEMMA SetDeadlineStep ==
  ASSUME NEW x, TInv(x), NEW t \in Threads, x.k.cur = t, x.k.state[t] = Running,
         x.deadline[t] = NoDeadline, NEW d \in Times
  PROVE  LET n == SetDeadline(x, d)
         IN  /\ TInv(n)
             /\ TimeStep(x, n, {t})
             /\ n.k.state[t] = Running
             /\ n.deadline[t] \in {NoDeadline, d}
  <1> DEFINE f == [x.k.flags EXCEPT ![t] = @ \ {THREAD_FLAG_TIMEOUT}]
             k1 == [x.k EXCEPT !.flags = f]
             y == [x EXCEPT !.deadline[t] = d, !.k = k1]
  <1>1. x \in TimeoutsType(States) /\ KInv(States, x.k) /\ TimerOK(x)
    BY DEF TInv
  <1>2. /\ x.k \in SchedulerType(States) /\ x.k.flags \in [Threads -> SUBSET Flags]
        /\ x.deadline \in [Threads -> Times \cup {NoDeadline}]
    BY <1>1, TimeFields DEF SchedulerType
  <1>3. f \in [Threads -> SUBSET Flags]
    BY <1>2
  <1>4. \A u \in Threads : THREAD_FLAG_WAKER \in f[u] <=> THREAD_FLAG_WAKER \in x.k.flags[u]
    BY <1>2 DEF THREAD_FLAG_WAKER, THREAD_FLAG_TIMEOUT
  <1>5. /\ KInv(States, k1) /\ k1.state = x.k.state /\ k1.prio = x.k.prio /\ k1.cur = x.k.cur
        /\ k1.rq = x.k.rq /\ k1.flags = f
    <2> HIDE DEF f
    <2> QED
      BY <1>1, <1>3, FlagsStep
  <1>6. SetDeadline(x, d) = ScheduleWake(y, t, d)
    <2>1. [x EXCEPT !.deadline[t] = d, !.k.flags[t] = @ \ {THREAD_FLAG_TIMEOUT}] = y
      BY <1>1, <1>2 DEF TimeoutsType, SchedulerType
    <2> HIDE DEF y
    <2> QED
      BY <2>1 DEF SetDeadline
  <1> HIDE DEF f, k1
  <1>7. /\ y \in TimeoutsType(States) /\ y.k = k1 /\ y.now = x.now /\ y.timer = x.timer
        /\ y.deadline = [x.deadline EXCEPT ![t] = d]
        /\ y.next_wakeup = x.next_wakeup /\ y.alarm = x.alarm
    <2>1. k1 \in SchedulerType(States)
      BY <1>5 DEF KInv
    <2> QED
      BY <1>1, <2>1 DEF TimeoutsType
  <1> HIDE DEF y
  <1>8. \A u \in Threads : y.deadline[u] = IF u = t THEN d ELSE x.deadline[u]
    BY <1>2, <1>7
  <1>9. /\ x.timer[t] = Never /\ d # NoDeadline /\ d \in 0 .. Never /\ Never \in Nat
        /\ x.timer \in [Threads -> Times]
    BY <1>1, TimeFields DEF TimerOK
  <1>10. d >= y.timer[t] => TimerOK(y)
    <2> SUFFICES ASSUME d >= y.timer[t] PROVE TimerOK(y)
      OBVIOUS
    <2>1. d = Never
      BY <1>7, <1>9
    <2> QED
      BY <1>1, <1>7, <1>8, <1>9, <2>1 DEF TimerOK
  <1>11. Entries([y EXCEPT !.timer[t] = d])
    <2> DEFINE z == [y EXCEPT !.timer[t] = d]
    <2>1. z.timer = [x.timer EXCEPT ![t] = d] /\ z.deadline = y.deadline
      BY <1>7 DEF TimeoutsType
    <2> HIDE DEF z
    <2>2. \A u \in Threads : z.timer[u] = IF u = t THEN d ELSE x.timer[u]
      BY <1>9, <2>1
    <2>3. Entries(z)
      BY <1>1, <1>8, <1>9, <2>1, <2>2 DEF Entries, TimerOK
    <2> QED
      BY <2>3 DEF z
  <1> DEFINE n == ScheduleWake(y, t, d)
  <1>12. TInv(n) /\ TimeStep(y, n, {})
    BY <1>5, <1>7, <1>10, <1>11, ScheduleWakeStep
  <1> HIDE DEF n
  <1>13. Leads(x.k) => Leads(k1)
    BY <1>5 DEF Leads
  <1>14. TimeStep(x, n, {t})
    BY <1>4, <1>5, <1>7, <1>8, <1>12, <1>13 DEF TimeStep, Fires, SameWaker
  <1>15. n.k.state[t] = Running /\ n.deadline[t] \in {NoDeadline, d}
    BY <1>5, <1>7, <1>8, <1>12 DEF TimeStep, Fires
  <1> QED
    BY <1>6, <1>12, <1>14, <1>15 DEF n

(* clear_deadline of the current thread: its entry is removed.             *)
LEMMA ClearDeadlineStep ==
  ASSUME NEW x, TInv(x), NEW t \in Threads, x.k.cur = t, x.k.state[t] = Running
  PROVE  LET n == ClearDeadline(x)
         IN  /\ TInv(n)
             /\ TimeStep(x, n, {t})
             /\ n.k.state[t] = Running
             /\ n.deadline[t] = NoDeadline
  <1>1. x \in TimeoutsType(States) /\ KInv(States, x.k) /\ TimerOK(x)
    BY DEF TInv
  <1>2. CASE x.deadline[t] = NoDeadline
    <2>1. ClearDeadline(x) = x
      BY <1>2 DEF ClearDeadline
    <2>2. TimeStep(x, x, {t})
      BY DEF TimeStep, Fires, SameWaker
    <2> QED
      BY <1>2, <2>1, <2>2
  <1>3. CASE x.deadline[t] # NoDeadline
    <2> DEFINE y == [x EXCEPT !.deadline[t] = NoDeadline]
               n == ScheduleWake(y, t, 0)
    <2>1. ClearDeadline(x) = n
      BY <1>3 DEF ClearDeadline
    <2>2. /\ y \in TimeoutsType(States) /\ y.k = x.k /\ y.now = x.now /\ y.timer = x.timer
          /\ y.deadline = [x.deadline EXCEPT ![t] = NoDeadline]
      BY <1>1 DEF TimeoutsType
    <2> HIDE DEF y
    <2>3. \A u \in Threads : y.deadline[u] = IF u = t THEN NoDeadline ELSE x.deadline[u]
      BY <1>1, <2>2, TimeFields
    <2>4. /\ x.timer \in [Threads -> Times] /\ x.timer[t] # 0 /\ 0 \in Times
          /\ Times = 0 .. Never /\ Never \in Nat /\ x.now \in Nat
      BY <1>1, TimeFields DEF TimerOK
    <2>5. ~(0 >= y.timer[t])
      BY <2>2, <2>4
    <2>6. Entries([y EXCEPT !.timer[t] = 0])
      <3> DEFINE z == [y EXCEPT !.timer[t] = 0]
      <3>1. z.timer = [x.timer EXCEPT ![t] = 0] /\ z.deadline = y.deadline /\ z.now = x.now
        BY <2>2 DEF TimeoutsType
      <3> HIDE DEF z
      <3>2. \A u \in Threads : z.timer[u] = IF u = t THEN 0 ELSE x.timer[u]
        BY <2>4, <3>1
      <3>3. Entries(z)
        BY <1>1, <2>3, <2>4, <3>1, <3>2 DEF Entries, TimerOK
      <3> QED
        BY <3>3 DEF z
    <2>7. TInv(n) /\ TimeStep(y, n, {})
      BY <1>1, <2>2, <2>4, <2>5, <2>6, ScheduleWakeStep
    <2> HIDE DEF n
    <2>8. TimeStep(x, n, {t})
      BY <2>2, <2>3, <2>7 DEF TimeStep, Fires, SameWaker
    <2>9. n.k.state[t] = Running /\ n.deadline[t] = NoDeadline
      BY <2>2, <2>3, <2>7 DEF TimeStep, Fires
    <2> QED
      BY <2>1, <2>7, <2>8, <2>9
  <1> QED
    BY <1>2, <1>3

(* A step of the scheduler alone.                                          *)
LEMMA OnlyK ==
  ASSUME NEW x, TInv(x), NEW n, KInv(States, n)
  PROVE  LET y == [x EXCEPT !.k = n]
         IN  /\ TInv(y)
             /\ y.k = n /\ y.now = x.now /\ y.deadline = x.deadline
  <1> DEFINE y == [x EXCEPT !.k = n]
  <1>1. x \in TimeoutsType(States) /\ TimerOK(x) /\ n \in SchedulerType(States)
    BY DEF TInv, KInv
  <1>2. /\ y \in TimeoutsType(States) /\ y.k = n /\ y.now = x.now /\ y.deadline = x.deadline
        /\ y.timer = x.timer /\ y.next_wakeup = x.next_wakeup /\ y.alarm = x.alarm
    BY <1>1 DEF TimeoutsType
  <1> HIDE DEF y
  <1>3. TInv(y)
    BY <1>1, <1>2 DEF TInv, TimerOK
  <1> QED
    BY <1>2, <1>3 DEF y

-----------------------------------------------------------------------------
(* The invariant.                                                          *)

(* What a thread may be while it is in call op: st is its state, w whether *)
(* its waker flag is set, dl whether it has a deadline, f its future and   *)
(* qs the lists it is in.  A blocked thread is in the list of its call; a  *)
(* thread in a list is in that call, and blocked unless its deadline has   *)
(* ended the wait.                                                         *)
ThreadOK(st, w, dl, op, f, qs) ==
  /\ op = "none" => st \in {Invalid, Running, Parked}
  /\ op \in {"acquire", "event"} => st \in {Running, LockBlocked}
  /\ op \in {"wait", "wait_until", "take"} => st \in {Running, WaitQueueBlocked}
  /\ op = "sleep" => (st = Running /\ ~dl) \/ st = Parked
  /\ op \in {"retake", "poll"} => st = Running
  /\ op = "pending" => st \in {Running, Waking} /\ (f = "woken" => st = Running /\ w)
  /\ f # "none" => op \in {"poll", "pending"}
  /\ dl => op \in Timed
  /\ \A q \in qs : /\ op \in ListCalls /\ ListOf[op] = q
                   /\ st = Running => op \in Timed /\ ~dl
  /\ op \in ListCalls /\ st # Running => ListOf[op] \in qs

Where(ls, t) == {q \in Prims : In(ls[q], t)}

Fine(t) == ThreadOK(c.k.state[t], THREAD_FLAG_WAKER \in c.k.flags[t], c.deadline[t] # NoDeadline,
                    call[t], fut[t], Where(lists, t))

ListsOK == lists \in [Prims -> Seq(Threads)] /\ \A q \in Prims : NoDup(lists[q])

SemType == [kind : SemKinds, current : Nat, owner : 0 .. N_THREADS, original_priority : Prios,
            lock_counter : Int]

VarsOK ==
  /\ ListsOK
  /\ locked \in BOOLEAN /\ isset \in BOOLEAN
  /\ sem \in SemType
  /\ call \in [Threads -> AllCalls]
  /\ until \in [Threads -> Times]
  /\ holds \in SUBSET Threads
  /\ fut \in [Threads -> {"none", "pending", "ready", "woken"}]

(* Thread t has the Lock, or release() has handed it over and acquire()    *)
(* has not returned yet.                                                   *)
Owner(t) == t \in holds \/ (call[t] = "acquire" /\ c.k.state[t] = Running)

LockOK ==
  /\ \A t \in Threads : t \in holds => call[t] # "acquire"
  /\ \A t, u \in Threads : Owner(t) /\ Owner(u) => t = u
  /\ \A t \in Threads : Owner(t) => locked
  /\ ~locked => lists["lock"] = <<>>

(* Takers that a give has woken and that have not tried again yet: as many *)
(* as there is to take, as long as another one is blocked.                 *)
Ready == {t \in Threads : call[t] = "take" /\ c.k.state[t] = Running /\ ~In(lists["sem"], t)}

Slots(s) == IF s.kind = "Counting" THEN s.current ELSE IF s.owner = NoOwner THEN 1 ELSE 0

TakerBlocked == \E t \in Threads : call[t] = "take" /\ c.k.state[t] # Running

GiveOK == TakerBlocked => Cardinality(Ready) >= Slots(sem)

SInv ==
  /\ TInv(c)
  /\ VarsOK
  /\ \A t \in Threads : Fine(t)
  /\ LockOK
  /\ isset => lists["event"] = <<>>
  /\ GiveOK

-----------------------------------------------------------------------------
(* Lemmas for all actions.                                                 *)

LEMMA ListOfFacts ==
  /\ ListCalls = {"acquire", "event", "wait", "wait_until", "take"}
  /\ ListOf["acquire"] = "lock" /\ ListOf["event"] = "event" /\ ListOf["wait"] = "queue"
  /\ ListOf["wait_until"] = "queue" /\ ListOf["take"] = "sem"
  BY DEF ListCalls, ListOf

(* What a step leaves of a thread that is not part of it: a deadline may   *)
(* end its wait, its waker may be called.                                  *)
Same(t) ==
  /\ call'[t] = call[t]
  /\ fut'[t] = fut[t]
  /\ Where(lists', t) = Where(lists, t)
  /\ THREAD_FLAG_WAKER \in c.k.flags[t] => THREAD_FLAG_WAKER \in c'.k.flags[t]
  /\ Fires(c, c', t)

LEMMA SameFine ==
  ASSUME NEW t \in Threads, Fine(t), Same(t)
  PROVE  Fine(t)'
  <1> DEFINE st == c.k.state[t]
             w == THREAD_FLAG_WAKER \in c.k.flags[t]
             dl == c.deadline[t] # NoDeadline
             op == call[t]
             f == fut[t]
             qs == Where(lists, t)
             st2 == c'.k.state[t]
             w2 == THREAD_FLAG_WAKER \in c'.k.flags[t]
             dl2 == c'.deadline[t] # NoDeadline
  <1>1. ThreadOK(st, w, dl, op, f, qs)
    BY DEF Fine
  <1>2. /\ (st2 = st /\ (dl2 <=> dl)) \/ (dl /\ ~dl2 /\ st2 = Running)
        /\ w => w2
    BY DEF Same, Fires
  <1>3. call'[t] = op /\ fut'[t] = f /\ Where(lists', t) = qs
    BY DEF Same
  <1>4. ThreadOK(st2, w2, dl2, op, f, qs)
    <2> HIDE DEF st, w, dl, op, f, qs, st2, w2, dl2
    <2> QED
      BY <1>1, <1>2, StatesDiffer DEF ThreadOK, Timed
  <1> QED
    BY <1>3, <1>4 DEF Fine, Where

LEMMA FineStep ==
  ASSUME SInv, \A t \in Threads : Same(t) \/ Fine(t)'
  PROVE  \A t \in Threads : Fine(t)'
  BY SameFine DEF SInv

(* Steps that are not about the Lock.                                      *)
LEMMA LockKept ==
  ASSUME SInv, UNCHANGED <<locked, holds>>, lists'["lock"] = lists["lock"],
         \A t \in Threads : Same(t) \/ (call[t] # "acquire" /\ call'[t] # "acquire")
  PROVE  LockOK'
  <1>1. ASSUME NEW t \in Threads
        PROVE  /\ Owner(t)' <=> Owner(t)
               /\ call'[t] = "acquire" <=> call[t] = "acquire"
    <2>1. CASE Same(t)
      <3>1. Fine(t)
        BY DEF SInv
      <3>2. call[t] = "acquire" => c.deadline[t] = NoDeadline
        BY <3>1 DEF Fine, ThreadOK, Timed
      <3> QED
        BY <2>1, <3>2 DEF Same, Fires, Owner
    <2>2. CASE call[t] # "acquire" /\ call'[t] # "acquire"
      BY <2>2 DEF Owner
    <2> QED
      BY <2>1, <2>2
  <1>2. LockOK
    BY DEF SInv
  <1> QED
    BY <1>1, <1>2 DEF LockOK

LEMMA ReadyFinite ==
  IsFiniteSet(Ready) /\ Cardinality(Ready) \in Nat /\ IsFiniteSet(Ready') /\ Cardinality(Ready') \in Nat
  <1>1. IsFiniteSet(Threads)
    BY FS_Interval, SizeAssumption DEF Threads
  <1>2. Ready \subseteq Threads /\ Ready' \subseteq Threads
    BY DEF Ready
  <1> QED
    BY <1>1, <1>2, FS_Subset, FS_CardinalityType

LEMMA SlotsType ==
  ASSUME NEW s \in SemType
  PROVE  Slots(s) \in Nat
  BY DEF SemType, Slots

LEMMA ReadySame ==
  ASSUME SInv, NEW t \in Threads, Same(t)
  PROVE  /\ t \in Ready' <=> t \in Ready
         /\ call'[t] = "take" /\ c'.k.state[t] # Running =>
              call[t] = "take" /\ c.k.state[t] # Running
  <1>1. Fine(t)
    BY DEF SInv
  <1>2. In(lists["sem"], t) <=> In(lists'["sem"], t)
    BY DEF Same, Where, Prims
  <1>3. call[t] = "take" /\ c.k.state[t] # Running => In(lists["sem"], t)
    BY <1>1, ListOfFacts DEF Fine, ThreadOK, Where
  <1> QED
    BY <1>2, <1>3 DEF Same, Fires, Ready

(* Steps that are not about the takers.                                    *)
LEMMA GiveKept ==
  ASSUME SInv, sem' \in SemType, Slots(sem') <= Slots(sem),
         \A t \in Threads : Same(t) \/ (call[t] # "take" /\ call'[t] # "take")
  PROVE  GiveOK'
  <1>1. ASSUME NEW t \in Threads
        PROVE  /\ t \in Ready' <=> t \in Ready
               /\ call'[t] = "take" /\ c'.k.state[t] # Running =>
                    call[t] = "take" /\ c.k.state[t] # Running
    <2>1. CASE Same(t)
      BY <2>1, ReadySame
    <2>2. CASE call[t] # "take" /\ call'[t] # "take"
      BY <2>2 DEF Ready
    <2> QED
      BY <2>1, <2>2
  <1>2. Ready' = Ready
    BY <1>1 DEF Ready
  <1>3. TakerBlocked' => TakerBlocked
    BY <1>1 DEF TakerBlocked
  <1>4. Slots(sem) \in Nat /\ Slots(sem') \in Nat /\ Cardinality(Ready) \in Nat
    BY SlotsType, ReadyFinite DEF SInv, VarsOK
  <1>5. GiveOK
    BY DEF SInv
  <1> QED
    BY <1>2, <1>3, <1>4, <1>5 DEF GiveOK

(* The thread that runs.                                                   *)
LEMMA RunsFacts ==
  ASSUME SInv, NEW t \in Threads, Runs(t)
  PROVE  /\ c.k.cur = t /\ c.k.cur # NoThread /\ ~c.k.pend
         /\ c.k.state[t] = Running
         /\ Leads(c.k)
         /\ call[t] \notin Timed => c.deadline[t] = NoDeadline
         /\ call[t] \notin ListCalls => Where(lists, t) = {}
  <1>1. /\ KInv(States, c.k) /\ c.k.cur = t /\ ~c.k.pend /\ c.k.cur # NoThread /\ Fine(t)
    BY SentinelNotThread DEF SInv, TInv, Runs, k, NoThread
  <1>2. c.k.state[t] = Running /\ Leads(c.k)
    BY <1>1, CurrentFacts DEF Leads
  <1>3. call[t] \notin Timed => c.deadline[t] = NoDeadline
    BY <1>1 DEF Fine, ThreadOK
  <1>4. call[t] \notin ListCalls => Where(lists, t) = {}
    BY <1>1 DEF Fine, ThreadOK
  <1> QED
    BY <1>1, <1>2, <1>3, <1>4

(* One list changes.                                                       *)
LEMMA ListStep ==
  ASSUME SInv, NEW q \in Prims, NEW w \in Seq(Threads), NoDup(w),
         lists' = [lists EXCEPT ![q] = w]
  PROVE  /\ ListsOK'
         /\ lists'[q] = w
         /\ \A r \in Prims : r # q => lists'[r] = lists[r]
         /\ \A t : Where(lists', t) = IF In(w, t) THEN Where(lists, t) \cup {q}
                                                  ELSE Where(lists, t) \ {q}
  <1>1. lists \in [Prims -> Seq(Threads)] /\ \A r \in Prims : NoDup(lists[r])
    BY DEF SInv, VarsOK, ListsOK
  <1>2. lists' \in [Prims -> Seq(Threads)] /\ lists'[q] = w
    BY <1>1
  <1>3. \A r \in Prims : r # q => lists'[r] = lists[r]
    BY <1>1
  <1> QED
    BY <1>1, <1>2, <1>3 DEF ListsOK, Where

LEMMA SameLists ==
  ASSUME SInv, lists' = lists
  PROVE  ListsOK' /\ \A t : Where(lists', t) = Where(lists, t)
  BY DEF SInv, VarsOK, ListsOK, Where

(* A step that is about neither the Lock nor the takers.                   *)
Apart(t) ==
  /\ Fine(t)'
  /\ call[t] \notin {"acquire", "take"}
  /\ call'[t] \notin {"acquire", "take"}

LEMMA QuietStep ==
  ASSUME SInv, TInv(c'), VarsOK', UNCHANGED <<locked, holds>>, lists'["lock"] = lists["lock"],
         isset' => lists'["event"] = <<>>, Slots(sem') <= Slots(sem),
         \A t \in Threads : Same(t) \/ Apart(t)
  PROVE  SInv'
  <1>1. \A t \in Threads : Fine(t)'
    BY FineStep DEF Apart
  <1>2. LockOK'
    BY LockKept DEF Apart
  <1>3. sem' \in SemType
    BY DEF VarsOK
  <1>4. GiveOK'
    BY <1>3, GiveKept DEF Apart
  <1> QED
    BY <1>1, <1>2, <1>4 DEF SInv

(* A thread that a step of the scheduler leaves alone.                     *)
LEMMA SameK ==
  ASSUME SInv, NEW n, KInv(States, n), c' = [c EXCEPT !.k = n], NEW t \in Threads,
         Where(lists', t) = Where(lists, t), call'[t] = call[t], fut'[t] = fut[t],
         n.state[t] = c.k.state[t],
         THREAD_FLAG_WAKER \in c.k.flags[t] => THREAD_FLAG_WAKER \in n.flags[t]
  PROVE  Same(t)
  <1>1. c'.k = n /\ c'.deadline = c.deadline
    BY OnlyK DEF SInv
  <1> QED
    BY <1>1 DEF Same, Fires

LEMMA SlotsSame == SInv => Slots(sem) \in Nat /\ Slots(sem) <= Slots(sem)
  BY SlotsType DEF SInv, VarsOK

-----------------------------------------------------------------------------
(* Boot, context switches and time.                                        *)

LEMMA InitInv == Init => SInv
  <1> SUFFICES ASSUME Init PROVE SInv
    OBVIOUS
  <1>1. /\ c = NoTimers /\ lists = [q \in Prims |-> <<>>] /\ locked = FALSE /\ isset = FALSE
        /\ call = [t \in Threads |-> "none"] /\ until = [t \in Threads |-> Never]
        /\ holds = {} /\ fut = [t \in Threads |-> "none"]
    BY DEF Init
  <1>2. /\ c.k = NewScheduler /\ c.now = 0 /\ c.deadline = [t \in Threads |-> NoDeadline]
        /\ c.timer = [t \in Threads |-> Never] /\ c.next_wakeup = Never /\ c.alarm = Never
    BY <1>1 DEF NoTimers
  <1>3. KInv(States, c.k) /\ c.k \in SchedulerType(States)
    BY <1>2, NewSchedulerFacts, StatesDiffer DEF KInv
  <1>4. c \in TimeoutsType(States)
    <2>1. 0 \in 0 .. MaxTime /\ Never \in Times
      BY TimeFields
    <2>2. /\ [t \in Threads |-> NoDeadline] \in [Threads -> Times \cup {NoDeadline}]
          /\ [t \in Threads |-> Never] \in [Threads -> Times]
      BY <2>1
    <2> QED
      BY <1>1, <1>3, <2>1, <2>2 DEF NoTimers, TimeoutsType
  <1>5. TInv(c)
    <2>1. Never \in Nat /\ Never # 0
      BY TimeFields
    <2> QED
      BY <1>2, <1>3, <1>4, <2>1 DEF TInv, TimerOK
  <1>6. VarsOK
    <2>1. ListsOK
      BY <1>1 DEF ListsOK, NoDup
    <2>2. sem \in SemType
      <3>1. 0 \in Prios /\ NoOwner \in 0 .. N_THREADS
        BY SizeAssumption DEF Prios, Queues, NoOwner
      <3> QED
        BY <3>1 DEF Init, NewSemaphore, SemType
    <2>3. Never \in Times
      BY TimeFields
    <2> QED
      BY <1>1, <2>1, <2>2, <2>3 DEF VarsOK, AllCalls
  <1>7. \A t \in Threads : Where(lists, t) = {}
    BY <1>1 DEF Where, In
  <1>8. \A t \in Threads : call[t] = "none" /\ fut[t] = "none" /\ c.deadline[t] = NoDeadline
    BY <1>1, <1>2
  <1>9. \A t \in Threads : c.k.state[t] = Invalid
    BY <1>2 DEF NewScheduler
  <1>10. \A t \in Threads : Fine(t)
    BY <1>7, <1>8, <1>9, ListOfFacts DEF Fine, ThreadOK
  <1>11. LockOK
    BY <1>1, <1>8 DEF LockOK, Owner, Prims
  <1>12. GiveOK
    BY <1>8 DEF GiveOK, TakerBlocked
  <1> QED
    BY <1>1, <1>5, <1>6, <1>10, <1>11, <1>12 DEF SInv

(* The scheduler alone makes a step: only thread t, if any, is part of it. *)
LEMMA SchedulerStep ==
  ASSUME SInv, NEW n, KInv(States, n), c' = [c EXCEPT !.k = n],
         UNCHANGED <<lists, locked, isset, sem, call, until, holds, fut>>,
         \A t \in Threads :
           \/ /\ n.state[t] = c.k.state[t]
              /\ THREAD_FLAG_WAKER \in c.k.flags[t] => THREAD_FLAG_WAKER \in n.flags[t]
           \/ /\ call[t] \notin ListCalls
              /\ ThreadOK(n.state[t], THREAD_FLAG_WAKER \in n.flags[t], c.deadline[t] # NoDeadline,
                          call[t], fut[t], Where(lists, t))
  PROVE  SInv'
  <1>1. TInv(c') /\ c'.k = n /\ c'.deadline = c.deadline
    BY OnlyK DEF SInv
  <1>2. VarsOK'
    BY DEF SInv, VarsOK, ListsOK
  <1>3. \A t \in Threads : Where(lists', t) = Where(lists, t)
    BY SameLists
  <1>4. ASSUME NEW t \in Threads
        PROVE  Same(t) \/ Apart(t)
    <2>1. CASE /\ n.state[t] = c.k.state[t]
               /\ THREAD_FLAG_WAKER \in c.k.flags[t] => THREAD_FLAG_WAKER \in n.flags[t]
      BY <1>3, <2>1, SameK
    <2>2. CASE /\ call[t] \notin ListCalls
               /\ ThreadOK(n.state[t], THREAD_FLAG_WAKER \in n.flags[t],
                           c.deadline[t] # NoDeadline, call[t], fut[t], Where(lists, t))
      BY <1>1, <1>3, <2>2, ListOfFacts DEF Apart, Fine
    <2> QED
      BY <2>1, <2>2
  <1>5. isset' => lists'["event"] = <<>>
    BY DEF SInv
  <1> QED
    BY <1>1, <1>2, <1>4, <1>5, SlotsSame, QuietStep

(* A thread that is in no call.                                            *)
LEMMA IdleFacts ==
  ASSUME SInv, NEW t \in Threads, call[t] = "none"
  PROVE  c.deadline[t] = NoDeadline /\ fut[t] = "none" /\ Where(lists, t) = {}
  BY ListOfFacts DEF SInv, Fine, ThreadOK, Timed

LEMMA BootCreateInv ==
  ASSUME SInv, NEW p \in Prios, BootCreate(p)
  PROVE  SInv'
  <1> DEFINE n == Create(c.k, p)
             t == FirstUnused(c.k)
  <1>1. /\ t \in Threads /\ c.k.state[t] = Invalid /\ KInv(States, n)
        /\ n.state = [c.k.state EXCEPT ![t] = Running] /\ n.flags = c.k.flags
    <2>1. /\ KInv(States, c.k) /\ Unused(c.k) # {} /\ p \in Queues
          /\ Running \in States /\ Parked \in States
      BY StatesDiffer DEF SInv, TInv, BootCreate, Prios, k
    <2> QED
      BY <2>1, CreateStep
  <1>2. /\ c' = [c EXCEPT !.k = n]
        /\ UNCHANGED <<lists, locked, isset, sem, call, until, holds, fut>>
    BY DEF BootCreate, SetK, k
  <1> HIDE DEF n, t
  <1>3. c.k.state \in [Threads -> States]
    BY DEF SInv, TInv, KInv, SchedulerType
  <1>4. \A u \in Threads : n.state[u] = IF u = t THEN Running ELSE c.k.state[u]
    BY <1>1, <1>3
  <1>5. call[t] = "none"
    <2>1. Fine(t) /\ call[t] \in AllCalls
      BY <1>1 DEF SInv, VarsOK
    <2> QED
      BY <1>1, <2>1, StatesDiffer, ListOfFacts DEF Fine, ThreadOK, AllCalls
  <1>6. ThreadOK(n.state[t], THREAD_FLAG_WAKER \in n.flags[t], c.deadline[t] # NoDeadline,
                 call[t], fut[t], Where(lists, t))
    BY <1>1, <1>4, <1>5, IdleFacts, ListOfFacts DEF ThreadOK
  <1>7. call[t] \notin ListCalls
    BY <1>5, ListOfFacts
  <1>8. \A u \in Threads :
          \/ /\ n.state[u] = c.k.state[u]
             /\ THREAD_FLAG_WAKER \in c.k.flags[u] => THREAD_FLAG_WAKER \in n.flags[u]
          \/ /\ call[u] \notin ListCalls
             /\ ThreadOK(n.state[u], THREAD_FLAG_WAKER \in n.flags[u], c.deadline[u] # NoDeadline,
                         call[u], fut[u], Where(lists, u))
    BY <1>1, <1>4, <1>6, <1>7
  <1> QED
    BY <1>1, <1>2, <1>8, SchedulerStep

LEMMA SwitchInv ==
  ASSUME SInv, StartThreading \/ ContextSwitch
  PROVE  SInv'
  <1>1. PICK n : /\ n = Schedule(c.k) \/ n = Sched(c.k)
                 /\ c' = [c EXCEPT !.k = n]
                 /\ UNCHANGED <<lists, locked, isset, sem, call, until, holds, fut>>
    BY DEF StartThreading, ContextSwitch, SetK, k
  <1>2. KInv(States, n) /\ n.state = c.k.state /\ n.flags = c.k.flags
    BY <1>1, ScheduleStep, SchedStep DEF SInv, TInv
  <1> QED
    BY <1>1, <1>2, SchedulerStep

(* Time passes, and what the timer does.                                   *)
LEMMA TimeInv ==
  ASSUME SInv, Tick \/ TimerInterrupt
  PROVE  SInv'
  <1>1. UNCHANGED <<lists, locked, isset, sem, call, until, holds, fut>>
    BY DEF Tick, TimerInterrupt
  <1>2. /\ TInv(c')
        /\ \A t \in Threads : Fires(c, c', t) /\ SameWaker(c, c', t)
    <2>1. CASE Tick
      <3>1. c' = [c EXCEPT !.now = @ + 1] /\ c.now < MaxTime
        BY <2>1 DEF Tick
      <3>2. c \in TimeoutsType(States) /\ c.now + 1 \in 0 .. MaxTime
        BY <3>1, TimeFields DEF SInv, TInv
      <3>3. /\ c' \in TimeoutsType(States) /\ c'.k = c.k /\ c'.deadline = c.deadline
            /\ c'.timer = c.timer /\ c'.next_wakeup = c.next_wakeup /\ c'.alarm = c.alarm
        BY <3>1, <3>2 DEF TimeoutsType
      <3> QED
        BY <3>3 DEF SInv, TInv, TimerOK, Fires, SameWaker
    <2>2. CASE TimerInterrupt
      <3>1. c' = TimerHandler(c)
        BY <2>2 DEF TimerInterrupt
      <3>2. TInv(c)
        BY DEF SInv
      <3>3. TInv(c') /\ TimeStep(c, c', {})
        BY <3>1, <3>2, TimerHandlerStep
      <3> QED
        BY <3>3 DEF TimeStep
    <2> QED
      BY <2>1, <2>2
  <1>3. VarsOK'
    BY <1>1 DEF SInv, VarsOK, ListsOK
  <1>4. \A t \in Threads : Same(t)
    BY <1>1, <1>2, SameLists DEF Same, SameWaker
  <1>5. isset' => lists'["event"] = <<>>
    BY <1>1 DEF SInv
  <1> QED
    BY <1>1, <1>2, <1>3, <1>4, <1>5, SlotsSame, QuietStep

-----------------------------------------------------------------------------
(* Steps of one thread that leave every list as it is.                     *)

(* Thread t goes on to call op, with future f.                             *)
LEMMA CallStep ==
  ASSUME SInv, NEW t \in Threads, NEW op \in AllCalls,
         NEW f \in {"none", "pending", "ready", "woken"},
         UNCHANGED <<c, lists, locked, isset, sem, holds>>,
         call' = [call EXCEPT ![t] = op], fut' = [fut EXCEPT ![t] = f],
         until' \in [Threads -> Times],
         call[t] \notin {"acquire", "take"}, op \notin {"acquire", "take"},
         ThreadOK(c.k.state[t], THREAD_FLAG_WAKER \in c.k.flags[t], c.deadline[t] # NoDeadline,
                  op, f, Where(lists, t))
  PROVE  SInv'
  <1>1. TInv(c') /\ call \in [Threads -> AllCalls]
        /\ fut \in [Threads -> {"none", "pending", "ready", "woken"}]
    BY DEF SInv, VarsOK
  <1>2. /\ \A u \in Threads : call'[u] = IF u = t THEN op ELSE call[u]
        /\ \A u \in Threads : fut'[u] = IF u = t THEN f ELSE fut[u]
        /\ call' \in [Threads -> AllCalls]
        /\ fut' \in [Threads -> {"none", "pending", "ready", "woken"}]
    BY <1>1
  <1>3. VarsOK'
    BY <1>2 DEF SInv, VarsOK, ListsOK
  <1>4. \A u \in Threads : Where(lists', u) = Where(lists, u)
    BY SameLists
  <1>5. \A u \in Threads : u # t => Same(u)
    BY <1>2, <1>4 DEF Same, Fires
  <1>6. Apart(t)
    BY <1>2, <1>4 DEF Apart, Fine
  <1>7. isset' => lists'["event"] = <<>>
    BY DEF SInv
  <1> QED
    BY <1>1, <1>3, <1>5, <1>6, <1>7, SlotsSame, QuietStep

LEMMA Typed ==
  ASSUME SInv
  PROVE  /\ call \in [Threads -> AllCalls]
         /\ fut \in [Threads -> {"none", "pending", "ready", "woken"}]
         /\ until \in [Threads -> Times]
         /\ c.k.state \in [Threads -> States]
         /\ c.k.prio \in [Threads -> Queues]
         /\ c.k.flags \in [Threads -> SUBSET Flags]
         /\ c.deadline \in [Threads -> Times \cup {NoDeadline}]
         /\ KInv(States, c.k)
         /\ TInv(c)
         /\ lists \in [Prims -> Seq(Threads)]
         /\ \A q \in Prims : NoDup(lists[q])
         /\ sem \in SemType
         /\ \A t \in Threads : Fine(t)
  <1>1. TInv(c) /\ c \in TimeoutsType(States) /\ KInv(States, c.k)
    BY DEF SInv, TInv
  <1>2. /\ c.k.state \in [Threads -> States] /\ c.k.prio \in [Threads -> Queues]
        /\ c.k.flags \in [Threads -> SUBSET Flags]
    BY <1>1 DEF KInv, SchedulerType, Prios
  <1> QED
    BY <1>1, <1>2, TimeFields DEF SInv, VarsOK, ListsOK

(* The calls of thread t end.                                              *)
LEMMA DoneFacts ==
  ASSUME SInv, NEW t \in Threads, Done(t)
  PROVE  call' = [call EXCEPT ![t] = "none"] /\ until' \in [Threads -> Times]
  <1>1. Never \in Times /\ until \in [Threads -> Times]
    BY TimeFields, Typed
  <1> QED
    BY <1>1 DEF Done

LEMMA ReturnInv ==
  ASSUME SInv, NEW t \in Threads, Return(t) \/ TakeGiveUp(t)
  PROVE  SInv'
  <1>1. /\ Runs(t) /\ call[t] \in {"event", "wait", "sleep", "retake"} /\ Done(t)
        /\ UNCHANGED <<c, lists, locked, isset, sem, holds, fut>>
    BY DEF Return, TakeGiveUp
  <1>2. c.k.state[t] = Running /\ Fine(t)
    BY <1>1, RunsFacts DEF SInv
  <1>3. c.deadline[t] = NoDeadline /\ Where(lists, t) = {} /\ fut[t] = "none"
    BY <1>1, <1>2, StatesDiffer, ListOfFacts DEF Fine, ThreadOK, Timed
  <1>4. ThreadOK(c.k.state[t], THREAD_FLAG_WAKER \in c.k.flags[t], c.deadline[t] # NoDeadline,
                 "none", "none", Where(lists, t))
    BY <1>2, <1>3, ListOfFacts DEF ThreadOK
  <1>5. fut' = [fut EXCEPT ![t] = "none"]
    BY <1>1, <1>3, Typed
  <1>6. "none" \in AllCalls
    BY DEF AllCalls
  <1> QED
    BY <1>1, <1>4, <1>5, <1>6, DoneFacts, CallStep

LEMMA BlockOnInv ==
  ASSUME SInv, NEW t \in Threads, BlockOn(t) \/ Poll(t) \/ FutureReady(t)
  PROVE  SInv'
  <1>0. /\ "none" \in AllCalls /\ "poll" \in AllCalls /\ "pending" \in AllCalls
        /\ "pending" \in {"none", "pending", "ready", "woken"}
    BY DEF AllCalls
  <1>1. CASE BlockOn(t)
    <2>1. /\ Runs(t) /\ call[t] = "none" /\ call' = [call EXCEPT ![t] = "poll"]
          /\ fut' = [fut EXCEPT ![t] = "pending"]
          /\ UNCHANGED <<c, lists, locked, isset, sem, holds, until>>
      BY <1>1 DEF BlockOn, Calls, Begin
    <2>2. ThreadOK(c.k.state[t], THREAD_FLAG_WAKER \in c.k.flags[t], c.deadline[t] # NoDeadline,
                   "poll", "pending", Where(lists, t))
      BY <2>1, RunsFacts, IdleFacts, ListOfFacts DEF ThreadOK
    <2>3. until' \in [Threads -> Times]
      BY <2>1, Typed
    <2> QED
      BY <1>0, <2>1, <2>2, <2>3, CallStep
  <1>2. CASE Poll(t)
    <2>1. /\ Runs(t) /\ call[t] = "poll" /\ UNCHANGED <<c, lists, locked, isset, sem, holds>>
      BY <1>2 DEF Poll
    <2>2. c.k.state[t] = Running /\ c.deadline[t] = NoDeadline /\ Where(lists, t) = {}
      BY <2>1, RunsFacts, ListOfFacts DEF Timed
    <2>3. CASE fut[t] = "pending"
      <3>1. call' = [call EXCEPT ![t] = "pending"] /\ UNCHANGED <<until, fut>>
        BY <1>2, <2>3 DEF Poll, Begin
      <3>2. fut' = [fut EXCEPT ![t] = "pending"] /\ until' \in [Threads -> Times]
        BY <2>3, <3>1, Typed
      <3>3. ThreadOK(c.k.state[t], THREAD_FLAG_WAKER \in c.k.flags[t],
                     c.deadline[t] # NoDeadline, "pending", "pending", Where(lists, t))
        BY <2>2, ListOfFacts DEF ThreadOK
      <3> QED
        BY <1>0, <2>1, <3>1, <3>2, <3>3, CallStep
    <2>4. CASE fut[t] # "pending"
      <3>1. Done(t) /\ fut' = [fut EXCEPT ![t] = "none"]
        BY <1>2, <2>4 DEF Poll
      <3>2. ThreadOK(c.k.state[t], THREAD_FLAG_WAKER \in c.k.flags[t],
                     c.deadline[t] # NoDeadline, "none", "none", Where(lists, t))
        BY <2>2, ListOfFacts DEF ThreadOK
      <3> QED
        BY <1>0, <2>1, <3>1, <3>2, DoneFacts, CallStep
    <2> QED
      BY <2>3, <2>4
  <1>3. CASE FutureReady(t)
    <2>1. /\ fut[t] = "pending" /\ fut' = [fut EXCEPT ![t] = "ready"]
          /\ UNCHANGED <<c, lists, locked, isset, sem, holds, call, until>>
      BY <1>3 DEF FutureReady
    <2>2. Fine(t) /\ call[t] \in AllCalls /\ call' = [call EXCEPT ![t] = call[t]]
          /\ until' \in [Threads -> Times]
      BY <2>1, Typed
    <2>3. call[t] \in {"poll", "pending"}
      BY <2>1, <2>2 DEF Fine, ThreadOK
    <2>4. ThreadOK(c.k.state[t], THREAD_FLAG_WAKER \in c.k.flags[t], c.deadline[t] # NoDeadline,
                   call[t], "ready", Where(lists, t))
      BY <2>1, <2>2, <2>3 DEF Fine, ThreadOK
    <2> QED
      BY <2>1, <2>2, <2>3, <2>4, CallStep
  <1> QED
    BY <1>1, <1>2, <1>3

(* flag_set of the waker flag: a thread that waits for it runs.            *)
LEMMA WakerSet ==
  ASSUME SInv, NEW t \in Threads
  PROVE  LET n == FlagSet(c.k, t, {THREAD_FLAG_WAKER})
         IN  /\ KInv(States, n)
             /\ \A u \in Threads :
                  /\ n.state[u] = IF u = t /\ c.k.state[u] = Waking THEN Running ELSE c.k.state[u]
                  /\ THREAD_FLAG_WAKER \in c.k.flags[u] => THREAD_FLAG_WAKER \in n.flags[u]
             /\ THREAD_FLAG_WAKER \in n.flags[t]
  <1> DEFINE mask == {THREAD_FLAG_WAKER}
             n == FlagSet(c.k, t, mask)
             wakes == /\ c.k.state[t][1] = "FlagBlocked"
                      /\ Satisfied(c.k.flags[t] \cup mask, c.k.state[t][2], c.k.state[t][3])
  <1>1. mask \in SUBSET Flags /\ Running \in States /\ KInv(States, c.k)
    BY WakeFlagsAssumption, StatesDiffer, Typed
  <1>2. /\ KInv(States, n)
        /\ n.state = IF wakes THEN [c.k.state EXCEPT ![t] = Running] ELSE c.k.state
        /\ n.flags = [c.k.flags EXCEPT ![t] = @ \cup mask]
    <2> HIDE DEF mask
    <2> QED
      BY <1>1, FlagSetStep
  <1>3. c.k.state[t] \in States
    BY Typed
  <1>4. wakes <=> c.k.state[t] = Waking
    <2>1. CASE c.k.state[t] = Waking
      <3>1. c.k.state[t][1] = "FlagBlocked" /\ c.k.state[t][2] = "Any" /\ c.k.state[t][3] = mask
        BY <2>1 DEF Waking, FlagBlocked
      <3> QED
        BY <2>1, <3>1 DEF Satisfied
    <2>2. CASE c.k.state[t] # Waking
      BY <1>3, <2>2 DEF States, Waking, Invalid, Running, Parked, LockBlocked, WaitQueueBlocked
    <2> QED
      BY <2>1, <2>2
  <1> HIDE DEF n, wakes
  <1>5. \A u \in Threads :
          n.state[u] = IF u = t /\ c.k.state[u] = Waking THEN Running ELSE c.k.state[u]
    BY <1>2, <1>4, Typed
  <1>6. /\ \A u \in Threads :
             THREAD_FLAG_WAKER \in c.k.flags[u] => THREAD_FLAG_WAKER \in n.flags[u]
        /\ THREAD_FLAG_WAKER \in n.flags[t]
    BY <1>2, Typed
  <1> QED
    BY <1>2, <1>5, <1>6 DEF n

LEMMA WakeInv ==
  ASSUME SInv, NEW t \in Threads, FutureWake(t) \/ WakerDrop(t)
  PROVE  SInv'
  <1> DEFINE n == FlagSet(c.k, t, {THREAD_FLAG_WAKER})
  <1>1. /\ KInv(States, n)
        /\ \A u \in Threads :
             /\ n.state[u] = IF u = t /\ c.k.state[u] = Waking THEN Running ELSE c.k.state[u]
             /\ THREAD_FLAG_WAKER \in c.k.flags[u] => THREAD_FLAG_WAKER \in n.flags[u]
        /\ THREAD_FLAG_WAKER \in n.flags[t]
    BY WakerSet
  <1>2. /\ c' = [c EXCEPT !.k = n]
        /\ UNCHANGED <<lists, locked, isset, sem, call, until, holds>>
        /\ fut' = fut \/ (fut[t] = "ready" /\ fut' = [fut EXCEPT ![t] = "woken"])
    BY DEF FutureWake, WakerDrop, SetK, k
  <1> HIDE DEF n
  <1>3. Fine(t) /\ call[t] \in AllCalls
    BY Typed
  <1>4. CASE fut' = fut
    <2>1. CASE c.k.state[t] = Waking
      <3>1. call[t] = "pending"
        BY <1>3, <2>1, StatesDiffer, ListOfFacts DEF Fine, ThreadOK, AllCalls
      <3>2. ThreadOK(n.state[t], THREAD_FLAG_WAKER \in n.flags[t], c.deadline[t] # NoDeadline,
                     call[t], fut[t], Where(lists, t))
        BY <1>1, <1>3, <2>1, <3>1, StatesDiffer, ListOfFacts DEF Fine, ThreadOK
      <3>3. call[t] \notin ListCalls
        BY <3>1, ListOfFacts
      <3>4. \A u \in Threads :
          \/ /\ n.state[u] = c.k.state[u]
             /\ THREAD_FLAG_WAKER \in c.k.flags[u] => THREAD_FLAG_WAKER \in n.flags[u]
          \/ /\ call[u] \notin ListCalls
             /\ ThreadOK(n.state[u], THREAD_FLAG_WAKER \in n.flags[u], c.deadline[u] # NoDeadline,
                         call[u], fut[u], Where(lists, u))
        BY <1>1, <3>2, <3>3
      <3> QED
        BY <1>1, <1>2, <1>4, <3>4, SchedulerStep
    <2>2. CASE c.k.state[t] # Waking
      <3>1. \A u \in Threads : n.state[u] = c.k.state[u]
        BY <1>1, <2>2
      <3> QED
        BY <1>1, <1>2, <1>4, <3>1, SchedulerStep
    <2> QED
      BY <2>1, <2>2
  <1>5. CASE fut[t] = "ready" /\ fut' = [fut EXCEPT ![t] = "woken"]
    <2>1. TInv(c') /\ c'.k = n /\ c'.deadline = c.deadline
      BY <1>1, <1>2, Typed, OnlyK
    <2>2. /\ \A u \in Threads : fut'[u] = IF u = t THEN "woken" ELSE fut[u]
          /\ fut' \in [Threads -> {"none", "pending", "ready", "woken"}]
      BY <1>5, Typed
    <2>3. VarsOK'
      BY <1>2, <2>2 DEF SInv, VarsOK, ListsOK
    <2>4. \A u \in Threads : Where(lists', u) = Where(lists, u)
      BY <1>2, SameLists
    <2>5. call[t] \in {"poll", "pending"} /\ c.k.state[t] \in {Running, Waking}
      BY <1>3, <1>5 DEF Fine, ThreadOK
    <2>6. n.state[t] = Running
      BY <1>1, <2>5
    <2>7. ThreadOK(n.state[t], THREAD_FLAG_WAKER \in n.flags[t], c.deadline[t] # NoDeadline,
                   call[t], "woken", Where(lists, t))
      BY <1>1, <1>3, <2>5, <2>6, ListOfFacts DEF Fine, ThreadOK, Timed
    <2>8. Apart(t)
      BY <1>2, <2>1, <2>2, <2>4, <2>5, <2>7 DEF Apart, Fine
    <2>9. \A u \in Threads : u # t => Same(u)
      BY <1>1, <1>2, <2>2, <2>4, SameK
    <2>10. isset' => lists'["event"] = <<>>
      BY <1>2 DEF SInv
    <2> QED
      BY <1>2, <2>1, <2>3, <2>8, <2>9, <2>10, SlotsSame, QuietStep
  <1> QED
    BY <1>2, <1>4, <1>5

(* The thread that runs stops running.                                     *)
LEMMA StopFacts ==
  ASSUME SInv, NEW t \in Threads, Runs(t), NEW st \in States, st # Running
  PROVE  LET n == SetState(c.k, c.k.cur, st)
         IN  /\ KInv(States, n)
             /\ \A u \in Threads : n.state[u] = IF u = t THEN st ELSE c.k.state[u]
             /\ n.flags = c.k.flags
  <1> DEFINE n == SetState(c.k, c.k.cur, st)
  <1>1. KInv(States, c.k) /\ Leads(c.k) /\ c.k.cur = t
    BY RunsFacts, Typed
  <1>2. KInv(States, n) /\ n.state = [c.k.state EXCEPT ![t] = st] /\ n.flags = c.k.flags
    BY <1>1, StopLeaderStep
  <1> HIDE DEF n
  <1> QED
    BY <1>2, Typed DEF n

(* park, unpark and the end of a thread.                                   *)
LEMMA ParkInv ==
  ASSUME SInv, ~UnparkSleepers, NEW t \in Threads, DoPark(t) \/ Exit(t) \/ DoUnpark(t)
  PROVE  SInv'
  <1>1. PICK n, st : /\ st \in {Parked, Invalid, Running}
                     /\ KInv(States, n)
                     /\ \A u \in Threads : n.state[u] = IF u = t THEN st ELSE c.k.state[u]
                     /\ n.flags = c.k.flags
                     /\ c' = [c EXCEPT !.k = n]
                     /\ call[t] = "none"
                     /\ UNCHANGED <<lists, locked, isset, sem, call, until, holds, fut>>
    <2>1. CASE DoPark(t)
      <3> DEFINE m == SetState(c.k, c.k.cur, Parked)
      <3>1. /\ Runs(t) /\ call[t] = "none" /\ c' = [c EXCEPT !.k = m]
            /\ UNCHANGED <<lists, locked, isset, sem, call, until, holds, fut>>
        BY <2>1 DEF DoPark, Calls, SetK, Park, k
      <3>2. /\ KInv(States, m) /\ m.flags = c.k.flags
            /\ \A u \in Threads : m.state[u] = IF u = t THEN Parked ELSE c.k.state[u]
        BY <3>1, StatesDiffer, StopFacts
      <3> HIDE DEF m
      <3> QED
        BY <3>1, <3>2
    <2>2. CASE Exit(t)
      <3> DEFINE m == SetState(c.k, c.k.cur, Invalid)
      <3>1. /\ Runs(t) /\ call[t] = "none" /\ c' = [c EXCEPT !.k = m]
            /\ UNCHANGED <<lists, locked, isset, sem, call, until, holds, fut>>
        BY <2>2 DEF Exit, SetK, Cleanup, k
      <3>2. /\ KInv(States, m) /\ m.flags = c.k.flags
            /\ \A u \in Threads : m.state[u] = IF u = t THEN Invalid ELSE c.k.state[u]
        BY <3>1, StatesDiffer, StopFacts
      <3> HIDE DEF m
      <3> QED
        BY <3>1, <3>2
    <2>3. CASE DoUnpark(t)
      <3> DEFINE m == SetState(c.k, t, Running)
      <3>1. /\ c.k.state[t] = Parked /\ call[t] # "sleep" /\ c' = [c EXCEPT !.k = m]
            /\ UNCHANGED <<lists, locked, isset, sem, call, until, holds, fut>>
        BY <2>3 DEF DoUnpark, SetK, Unpark, k
      <3>2. KInv(States, m) /\ m.state = [c.k.state EXCEPT ![t] = Running] /\ m.flags = c.k.flags
        BY Typed, StatesDiffer, RunStep
      <3> HIDE DEF m
      <3>3. \A u \in Threads : m.state[u] = IF u = t THEN Running ELSE c.k.state[u]
        BY <3>2, Typed
      <3>4. call[t] = "none"
        BY <3>1, Typed, StatesDiffer, ListOfFacts DEF Fine, ThreadOK, AllCalls
      <3> QED
        BY <3>1, <3>2, <3>3, <3>4
    <2> QED
      BY <2>1, <2>2, <2>3
  <1>2. ThreadOK(n.state[t], THREAD_FLAG_WAKER \in n.flags[t], c.deadline[t] # NoDeadline,
                 call[t], fut[t], Where(lists, t))
    BY <1>1, IdleFacts, ListOfFacts DEF ThreadOK
  <1>3. call[t] \notin ListCalls
    BY <1>1, ListOfFacts
  <1>4. \A u \in Threads :
          \/ /\ n.state[u] = c.k.state[u]
             /\ THREAD_FLAG_WAKER \in c.k.flags[u] => THREAD_FLAG_WAKER \in n.flags[u]
          \/ /\ call[u] \notin ListCalls
             /\ ThreadOK(n.state[u], THREAD_FLAG_WAKER \in n.flags[u], c.deadline[u] # NoDeadline,
                         call[u], fut[u], Where(lists, u))
    BY <1>1, <1>2, <1>3
  <1> QED
    BY <1>1, <1>4, SchedulerStep

(* wait_any of the waker flag: it is taken, or the thread blocks.          *)
LEMMA WaitWakerInv ==
  ASSUME SInv, NEW t \in Threads, WaitWaker(t)
  PROVE  SInv'
  <1> DEFINE mask == {THREAD_FLAG_WAKER}
             F == c.k.flags[t]
  <1>1. /\ Runs(t) /\ call[t] = "pending"
        /\ c' = [c EXCEPT !.k = FlagWait(c.k, "Any", mask)]
        /\ IF Satisfied(F, "Any", mask) THEN call' = [call EXCEPT ![t] = "poll"] ELSE UNCHANGED call
        /\ UNCHANGED <<lists, locked, isset, sem, until, holds, fut>>
    BY DEF WaitWaker, SetK, Begin, k
  <1>2. /\ c.k.cur = t /\ c.k.state[t] = Running /\ c.deadline[t] = NoDeadline
        /\ Where(lists, t) = {}
    BY <1>1, RunsFacts, ListOfFacts DEF Timed
  <1>3. Satisfied(F, "Any", mask) <=> THREAD_FLAG_WAKER \in F
    BY DEF Satisfied
  <1>4. CASE THREAD_FLAG_WAKER \in F
    <2> DEFINE g == [c.k.flags EXCEPT ![t] = @ \ mask]
               n == [c.k EXCEPT !.flags = g]
    <2>1. g \in [Threads -> SUBSET Flags] /\ \A u \in Threads : u # t => g[u] = c.k.flags[u]
      BY Typed
    <2>2. FlagWait(c.k, "Any", mask) = n
      <3>1. [c.k.flags EXCEPT ![t] = @ \ (@ \cap mask)] = g
        BY Typed
      <3>2. c.k \in SchedulerType(States)
        BY Typed DEF KInv
      <3>3. FlagWait(c.k, "Any", mask) = [c.k EXCEPT !.flags[t] = @ \ (@ \cap mask)]
        BY <1>2, <1>3, <1>4 DEF FlagWait, Taken
      <3> HIDE DEF g, mask
      <3> QED
        BY <3>1, <3>2, <3>3 DEF SchedulerType
    <2>3. KInv(States, n) /\ n.state = c.k.state /\ n.flags = g
      <3> HIDE DEF g
      <3> QED
        BY <2>1, Typed, FlagsStep
    <2>4. c' = [c EXCEPT !.k = n] /\ call' = [call EXCEPT ![t] = "poll"]
      BY <1>1, <1>3, <1>4, <2>2
    <2> HIDE DEF n, g, mask, F
    <2>5. TInv(c') /\ c'.k = n /\ c'.deadline = c.deadline
      BY <2>3, <2>4, Typed, OnlyK
    <2>6. /\ \A u \in Threads : call'[u] = IF u = t THEN "poll" ELSE call[u]
          /\ call' \in [Threads -> AllCalls]
      BY <2>4, Typed DEF AllCalls
    <2>7. VarsOK'
      BY <1>1, <2>6 DEF SInv, VarsOK, ListsOK
    <2>8. \A u \in Threads : Where(lists', u) = Where(lists, u)
      BY <1>1, SameLists
    <2>9. \A u \in Threads : u # t => Same(u)
      BY <1>1, <2>1, <2>3, <2>4, <2>6, <2>8, SameK
    <2>10. ThreadOK(n.state[t], THREAD_FLAG_WAKER \in n.flags[t], c.deadline[t] # NoDeadline,
                    "poll", fut[t], Where(lists, t))
      BY <1>2, <2>3, ListOfFacts DEF ThreadOK
    <2>11. Apart(t)
      BY <1>1, <2>5, <2>6, <2>8, <2>10 DEF Apart, Fine
    <2>12. isset' => lists'["event"] = <<>>
      BY <1>1 DEF SInv
    <2> QED
      BY <1>1, <2>5, <2>7, <2>9, <2>11, <2>12, SlotsSame, QuietStep
  <1>5. CASE THREAD_FLAG_WAKER \notin F
    <2> DEFINE n == SetState(c.k, c.k.cur, Waking)
    <2>1. c' = [c EXCEPT !.k = n] /\ call' = call
      BY <1>1, <1>2, <1>3, <1>5 DEF FlagWait, Waking
    <2>2. /\ KInv(States, n) /\ n.flags = c.k.flags
          /\ \A u \in Threads : n.state[u] = IF u = t THEN Waking ELSE c.k.state[u]
      BY <1>1, StatesDiffer, StopFacts
    <2> HIDE DEF n
    <2>3. Fine(t)
      BY Typed
    <2>4. ThreadOK(n.state[t], THREAD_FLAG_WAKER \in n.flags[t], c.deadline[t] # NoDeadline,
                   call[t], fut[t], Where(lists, t))
      BY <1>1, <1>2, <1>5, <2>2, <2>3, ListOfFacts DEF Fine, ThreadOK
    <2>5. call[t] \notin ListCalls
      BY <1>1, ListOfFacts
    <2>6. \A u \in Threads :
          \/ /\ n.state[u] = c.k.state[u]
             /\ THREAD_FLAG_WAKER \in c.k.flags[u] => THREAD_FLAG_WAKER \in n.flags[u]
          \/ /\ call[u] \notin ListCalls
             /\ ThreadOK(n.state[u], THREAD_FLAG_WAKER \in n.flags[u], c.deadline[u] # NoDeadline,
                         call[u], fut[u], Where(lists, u))
      BY <2>2, <2>4, <2>5
    <2> QED
      BY <1>1, <2>1, <2>2, <2>6, SchedulerStep
  <1> QED
    BY <1>4, <1>5

(* Interrupts that clear the event and take the semaphore.                 *)
LEMMA IsrInv ==
  ASSUME SInv, EventClear \/ TakeIsr
  PROVE  SInv'
  <1>1. /\ UNCHANGED <<c, lists, locked, call, until, holds, fut>>
        /\ isset' = FALSE \/ isset' = isset
    BY DEF EventClear, TakeIsr
  <1>2. sem' \in SemType /\ Slots(sem') <= Slots(sem)
    <2>1. CASE sem' = sem
      BY <2>1, Typed, SlotsSame
    <2>2. CASE TakeIsr
      <3>0. sem \in SemType
        BY Typed
      <3>1. CASE sem.kind = "Counting"
        <4>1. sem' = [sem EXCEPT !.current = @ - 1] /\ sem.current > 0
          BY <2>2, <3>1 DEF TakeIsr
        <4>2. sem.current \in Nat
          BY <3>0 DEF SemType
        <4>3. sem' \in SemType /\ sem'.kind = "Counting" /\ sem'.current = sem.current - 1
          BY <3>0, <3>1, <4>1, <4>2 DEF SemType
        <4> QED
          BY <3>1, <4>2, <4>3 DEF Slots
      <3>2. CASE sem.kind # "Counting"
        <4>1. sem' = [sem EXCEPT !.owner = Dangling, !.lock_counter = @ + 1]
          BY <2>2, <3>2 DEF TakeIsr
        <4>2. Dangling \in 0 .. N_THREADS /\ Dangling # NoOwner
          BY SizeAssumption DEF Dangling, NoOwner
        <4>3. sem' \in SemType /\ sem'.kind = sem.kind /\ sem'.owner = Dangling
          <5> DEFINE m == sem.lock_counter + 1
                     r == [sem EXCEPT !.owner = Dangling, !.lock_counter = m]
          <5>1. m \in Int
            BY <3>0 DEF SemType
          <5>2. sem' = r
            BY <4>1
          <5> HIDE DEF m
          <5>3. r \in SemType /\ r.kind = sem.kind /\ r.owner = Dangling
            BY <3>0, <4>2, <5>1 DEF SemType
          <5> QED
            BY <5>2, <5>3
        <4> QED
          BY <3>2, <4>2, <4>3 DEF Slots
      <3> QED
        BY <3>1, <3>2
    <2> QED
      BY <2>1, <2>2 DEF EventClear
  <1>3. VarsOK'
    BY <1>1, <1>2 DEF SInv, VarsOK, ListsOK
  <1>4. \A t \in Threads : Same(t)
    BY <1>1, SameLists DEF Same, Fires
  <1>5. isset' => lists'["event"] = <<>>
    BY <1>1 DEF SInv
  <1>6. TInv(c')
    BY <1>1 DEF SInv
  <1> QED
    BY <1>1, <1>2, <1>3, <1>4, <1>5, <1>6, QuietStep

-----------------------------------------------------------------------------
(* A thread blocks.                                                        *)

(* The current thread of x, which comes before thread t blocks, is t, and  *)
(* the other threads are as in c but for deadlines that end.               *)
Before(x, t) ==
  /\ TInv(x)
  /\ x.k.cur = t
  /\ Leads(x.k)
  /\ \A u \in Threads : u # t => Fires(c, x, u)
  /\ \A u \in Threads : SameWaker(c, x, u)

LEMMA BeforeNow ==
  ASSUME SInv, NEW t \in Threads, Runs(t)
  PROVE  Before(c, t)
  BY RunsFacts, Typed DEF Before, Fires, SameWaker

BlockedIn(op) == IF op \in {"acquire", "event"} THEN LockBlocked ELSE WaitQueueBlocked

LEMMA BlockStep ==
  ASSUME SInv, NEW t \in Threads, Where(lists, t) = {}, fut[t] = "none", NEW x, Before(x, t),
         NEW op \in ListCalls, x.deadline[t] # NoDeadline => op \in Timed,
         PutCurrent(ListOf[op], BlockedIn(op), x), call' = [call EXCEPT ![t] = op], fut' = fut
  PROVE  /\ TInv(c')
         /\ ListsOK'
         /\ call' \in [Threads -> AllCalls]
         /\ call'[t] = op
         /\ \A r \in Prims : r # ListOf[op] => lists'[r] = lists[r]
         /\ \A u \in Threads : u # t => Same(u)
         /\ Fine(t)'
         /\ c'.k.state[t] # Running
  <1> DEFINE q == ListOf[op]
             st == BlockedIn(op)
             n == SetState(x.k, x.k.cur, st)
             w == WithCurrent(x.k, lists[q])
  <1>1. q \in Prims /\ st \in States /\ st # Running
    BY ListOfFacts, StatesDiffer DEF Prims, BlockedIn
  <1>2. /\ TInv(x) /\ KInv(States, x.k) /\ x.k.cur = t /\ Leads(x.k)
        /\ x.k.prio \in [Threads -> Queues] /\ x.k.state \in [Threads -> States]
    <2>1. TInv(x) /\ KInv(States, x.k) /\ x.k.cur = t /\ Leads(x.k)
      BY DEF Before, TInv
    <2> QED
      BY <2>1 DEF KInv, SchedulerType, Prios
  <1>3. KInv(States, n) /\ n.state = [x.k.state EXCEPT ![t] = st] /\ n.flags = x.k.flags
    <2> HIDE DEF st
    <2> QED
      BY <1>1, <1>2, StopLeaderStep
  <1>4. lists[q] \in Seq(Threads) /\ NoDup(lists[q]) /\ ~In(lists[q], t)
    BY <1>1, Typed DEF Where
  <1>5. w \in Seq(Threads) /\ NoDup(w) /\ \A u : In(w, u) <=> In(lists[q], u) \/ u = t
    <2> HIDE DEF q
    <2> QED
      BY <1>2, <1>4, InsertFacts, InsertKeeps
  <1>6. lists' = [lists EXCEPT ![q] = w] /\ c' = [x EXCEPT !.k = n]
    BY DEF PutCurrent, Block
  <1> HIDE DEF q, st, n, w
  <1>7. /\ ListsOK'
        /\ \A r \in Prims : r # q => lists'[r] = lists[r]
        /\ \A u : Where(lists', u) = IF In(w, u) THEN Where(lists, u) \cup {q}
                                     ELSE Where(lists, u) \ {q}
    BY <1>1, <1>5, <1>6, ListStep
  <1>8. \A u \in Threads : Where(lists', u) = IF u = t THEN {q} ELSE Where(lists, u)
    BY <1>1, <1>5, <1>7 DEF Where
  <1>9. TInv(c') /\ c'.k = n /\ c'.deadline = x.deadline
    BY <1>2, <1>3, <1>6, OnlyK
  <1>10. \A u \in Threads : c'.k.state[u] = IF u = t THEN st ELSE x.k.state[u]
    BY <1>2, <1>3, <1>9
  <1>11. /\ call' \in [Threads -> AllCalls]
         /\ \A u \in Threads : call'[u] = IF u = t THEN op ELSE call[u]
    BY Typed DEF AllCalls
  <1>12. ASSUME NEW u \in Threads, u # t
         PROVE  Same(u)
    BY <1>3, <1>8, <1>9, <1>10, <1>11, <1>12 DEF Same, Before, Fires, SameWaker
  <1>13. Fine(t)'
    <2>1. ThreadOK(st, THREAD_FLAG_WAKER \in c'.k.flags[t], x.deadline[t] # NoDeadline, op, "none",
                   {q})
      BY <1>1, StatesDiffer, ListOfFacts DEF ThreadOK, q, st, BlockedIn
    <2> QED
      BY <1>8, <1>9, <1>10, <1>11, <2>1 DEF Fine
  <1> QED
    BY <1>1, <1>7, <1>9, <1>10, <1>11, <1>12, <1>13 DEF q

LEMMA WaitBlockInv ==
  ASSUME SInv, NEW t \in Threads, EventWait(t) \/ QueueWait(t)
  PROVE  SInv'
  <1>1. PICK op \in {"event", "wait"} :
          /\ Runs(t) /\ call[t] = "none" /\ (op = "event" => ~isset)
          /\ PutCurrent(ListOf[op], BlockedIn(op), c)
          /\ call' = [call EXCEPT ![t] = op]
          /\ UNCHANGED <<locked, isset, sem, until, holds, fut>>
    <2>1. CASE EventWait(t)
      BY <2>1, ListOfFacts DEF EventWait, Calls, Begin, BlockedIn
    <2>2. CASE QueueWait(t)
      BY <2>2, ListOfFacts DEF QueueWait, Calls, Begin, BlockedIn
    <2> QED
      BY <2>1, <2>2
  <1>2. Where(lists, t) = {} /\ fut[t] = "none" /\ c.deadline[t] = NoDeadline
    BY <1>1, IdleFacts
  <1>3. op \in ListCalls /\ ListOf[op] \in {"event", "queue"} /\ (ListOf[op] = "event" <=> op = "event")
    BY <1>1, ListOfFacts
  <1>4. /\ TInv(c') /\ ListsOK' /\ call' \in [Threads -> AllCalls] /\ call'[t] = op
        /\ \A r \in Prims : r # ListOf[op] => lists'[r] = lists[r]
        /\ \A u \in Threads : u # t => Same(u)
        /\ Fine(t)'
    BY <1>1, <1>2, <1>3, BeforeNow, BlockStep
  <1>5. VarsOK'
    BY <1>1, <1>4 DEF SInv, VarsOK
  <1>6. Apart(t)
    BY <1>1, <1>4 DEF Apart
  <1>7. lists'["lock"] = lists["lock"] /\ (isset' => lists'["event"] = <<>>)
    BY <1>1, <1>3, <1>4 DEF Prims, SInv
  <1> QED
    BY <1>1, <1>4, <1>5, <1>6, <1>7, SlotsSame, QuietStep

-----------------------------------------------------------------------------
(* The Lock.                                                               *)

LEMMA AcquireBlockInv ==
  ASSUME SInv, NEW t \in Threads, AcquireBlock(t)
  PROVE  SInv'
  <1>1. /\ Runs(t) /\ call[t] = "none" /\ locked /\ t \notin holds
        /\ PutCurrent(ListOf["acquire"], BlockedIn("acquire"), c)
        /\ call' = [call EXCEPT ![t] = "acquire"]
        /\ UNCHANGED <<locked, isset, sem, until, holds, fut>>
    BY ListOfFacts DEF AcquireBlock, Calls, Begin, BlockedIn
  <1>2. Where(lists, t) = {} /\ fut[t] = "none" /\ c.deadline[t] = NoDeadline
    BY <1>1, IdleFacts
  <1>3. "acquire" \in ListCalls /\ ListOf["acquire"] = "lock"
    BY ListOfFacts
  <1>4. /\ TInv(c') /\ ListsOK' /\ call' \in [Threads -> AllCalls] /\ call'[t] = "acquire"
        /\ \A r \in Prims : r # "lock" => lists'[r] = lists[r]
        /\ \A u \in Threads : u # t => Same(u)
        /\ Fine(t)' /\ c'.k.state[t] # Running
    <2>1. /\ TInv(c') /\ ListsOK' /\ call' \in [Threads -> AllCalls] /\ call'[t] = "acquire"
          /\ \A r \in Prims : r # ListOf["acquire"] => lists'[r] = lists[r]
          /\ \A u \in Threads : u # t => Same(u)
          /\ Fine(t)' /\ c'.k.state[t] # Running
      <3>1. Before(c, t) /\ fut' = fut
        BY <1>1, BeforeNow
      <3> QED
        BY <1>1, <1>2, <1>3, <3>1, BlockStep
    <2> QED
      BY <1>3, <2>1
  <1>5. VarsOK'
    BY <1>1, <1>4 DEF SInv, VarsOK
  <1>6. \A u \in Threads : Fine(u)'
    BY <1>4, FineStep
  <1>7. GiveOK'
    <2>1. sem' \in SemType /\ Slots(sem') <= Slots(sem)
      BY <1>1, Typed, SlotsSame
    <2> QED
      BY <1>1, <1>4, <2>1, GiveKept
  <1>8. LockOK'
    <2>1. ~Owner(t)' /\ t \notin holds'
      BY <1>1, <1>4 DEF Owner
    <2>2. ASSUME NEW u \in Threads, u # t
          PROVE  (Owner(u)' <=> Owner(u)) /\ call'[u] = call[u]
      <3>1. Fine(u) /\ Same(u)
        BY <1>4, <2>2, Typed
      <3>2. call[u] = "acquire" => c.deadline[u] = NoDeadline
        BY <3>1 DEF Fine, ThreadOK, Timed
      <3> QED
        BY <1>1, <3>1, <3>2 DEF Same, Fires, Owner
    <2>3. LockOK
      BY DEF SInv
    <2> QED
      BY <1>1, <2>1, <2>2, <2>3 DEF LockOK
  <1>9. isset' => lists'["event"] = <<>>
    BY <1>1, <1>4 DEF SInv, Prims
  <1> QED
    BY <1>4, <1>5, <1>6, <1>7, <1>8, <1>9 DEF SInv

LEMMA AcquireFreeInv ==
  ASSUME SInv, NEW t \in Threads, AcquireFree(t)
  PROVE  SInv'
  <1>1. /\ Runs(t) /\ call[t] = "none" /\ ~locked /\ locked' = TRUE /\ holds' = holds \cup {t}
        /\ UNCHANGED <<c, lists, isset, sem, call, until, fut>>
    BY DEF AcquireFree, Calls
  <1>2. VarsOK' /\ TInv(c')
    BY <1>1 DEF SInv, VarsOK, ListsOK
  <1>3. \A u \in Threads : Same(u)
    BY <1>1, SameLists DEF Same, Fires
  <1>4. \A u \in Threads : Fine(u)'
    BY <1>3, FineStep
  <1>5. GiveOK'
    BY <1>1, <1>3, Typed, SlotsSame, GiveKept
  <1>6. LockOK'
    <2>1. LockOK
      BY DEF SInv
    <2>2. \A u \in Threads : ~Owner(u)
      BY <1>1, <2>1 DEF LockOK
    <2>3. \A u \in Threads : Owner(u)' <=> u = t
      BY <1>1, <2>2 DEF Owner
    <2> QED
      BY <1>1, <2>1, <2>2, <2>3 DEF LockOK, Owner
  <1>7. isset' => lists'["event"] = <<>>
    BY <1>1 DEF SInv
  <1> QED
    BY <1>2, <1>4, <1>5, <1>6, <1>7 DEF SInv

LEMMA AcquireReturnInv ==
  ASSUME SInv, NEW t \in Threads, AcquireReturn(t)
  PROVE  SInv'
  <1>1. /\ Runs(t) /\ call[t] = "acquire" /\ Done(t) /\ holds' = holds \cup {t}
        /\ UNCHANGED <<c, lists, locked, isset, sem, fut>>
    BY DEF AcquireReturn
  <1>2. c.k.state[t] = Running /\ Fine(t)
    BY <1>1, RunsFacts, Typed
  <1>3. /\ \A u \in Threads : call'[u] = IF u = t THEN "none" ELSE call[u]
        /\ call' \in [Threads -> AllCalls] /\ until' \in [Threads -> Times]
    BY <1>1, DoneFacts, Typed DEF AllCalls
  <1>4. VarsOK' /\ TInv(c')
    BY <1>1, <1>3 DEF SInv, VarsOK, ListsOK
  <1>5. \A u \in Threads : u # t => Same(u)
    BY <1>1, <1>3, SameLists DEF Same, Fires
  <1>6. Fine(t)'
    <2>1. c.deadline[t] = NoDeadline /\ Where(lists, t) = {} /\ fut[t] = "none"
      BY <1>1, <1>2, ListOfFacts DEF Fine, ThreadOK, Timed
    <2>2. ThreadOK(c.k.state[t], THREAD_FLAG_WAKER \in c.k.flags[t], c.deadline[t] # NoDeadline,
                   "none", fut[t], Where(lists, t))
      BY <1>2, <2>1, ListOfFacts DEF ThreadOK
    <2> QED
      BY <1>1, <1>3, <2>2, SameLists DEF Fine
  <1>7. \A u \in Threads : Fine(u)'
    BY <1>5, <1>6, FineStep
  <1>8. GiveOK'
    <2>1. call[t] # "take" /\ call'[t] # "take"
      BY <1>1, <1>3
    <2>2. sem' \in SemType /\ Slots(sem') <= Slots(sem)
      BY <1>1, Typed, SlotsSame
    <2> QED
      BY <1>5, <2>1, <2>2, GiveKept
  <1>9. LockOK'
    <2>1. LockOK
      BY DEF SInv
    <2>2. \A u \in Threads : Owner(u)' <=> Owner(u)
      BY <1>1, <1>2, <1>3 DEF Owner
    <2> QED
      BY <1>1, <1>3, <2>1, <2>2 DEF LockOK
  <1>10. isset' => lists'["event"] = <<>>
    BY <1>1 DEF SInv
  <1> QED
    BY <1>4, <1>7, <1>8, <1>9, <1>10 DEF SInv

-----------------------------------------------------------------------------
(* Threads are woken from a list.                                          *)

(* A thread in list q is in no other, and in a call of q.                  *)
LEMMA InListFacts ==
  ASSUME SInv, NEW q \in Prims, NEW t \in Threads, In(lists[q], t)
  PROVE  call[t] \in ListCalls /\ ListOf[call[t]] = q /\ Where(lists, t) = {q}
  <1>1. Fine(t) /\ q \in Where(lists, t)
    BY Typed DEF Where
  <1> QED
    BY <1>1 DEF Fine, ThreadOK

(* A thread that is woken and taken out of its list.                       *)
LEMMA WokenFine ==
  ASSUME SInv, NEW q \in Prims, NEW t \in Threads, In(lists[q], t),
         c'.k.state[t] = Running, c'.deadline[t] = c.deadline[t], call'[t] = call[t],
         fut'[t] = fut[t], Where(lists', t) = {}
  PROVE  Fine(t)'
  <1> DEFINE w2 == THREAD_FLAG_WAKER \in c'.k.flags[t]
             dl == c.deadline[t] # NoDeadline
             op == call[t]
  <1>1. Fine(t) /\ op \in ListCalls
    BY Typed, InListFacts
  <1>2. /\ dl => op \in Timed
        /\ fut[t] # "none" => op \in {"poll", "pending"}
    BY <1>1 DEF Fine, ThreadOK
  <1>3. ThreadOK(Running, w2, dl, op, fut[t], {})
    <2> HIDE DEF w2, dl, op
    <2> QED
      BY <1>1, <1>2, ListOfFacts DEF ThreadOK
  <1> QED
    BY <1>3 DEF Fine

(* pop(): y is the scheduler before it.                                    *)
LEMMA PopStep ==
  ASSUME SInv, NEW q \in Prims, NEW y, KInv(States, y), y.state = c.k.state, y.flags = c.k.flags,
         c' = [c EXCEPT !.k = Popped(q, y)], lists' = [lists EXCEPT ![q] = Rest(q)],
         UNCHANGED <<call, fut>>
  PROVE  /\ TInv(c')
         /\ ListsOK'
         /\ lists'[q] = Rest(q)
         /\ \A r \in Prims : r # q => lists'[r] = lists[r]
         /\ lists[q] = <<>> => \A u \in Threads : Same(u)
         /\ lists[q] # <<>> =>
              \E h \in Threads :
                /\ h = Head(lists[q])
                /\ In(lists[q], h)
                /\ ~In(lists'[q], h)
                /\ c'.k.state[h] = Running
                /\ Fine(h)'
                /\ \A u \in Threads : u # h => Same(u)
  <1> DEFINE n == Popped(q, y)
  <1>1. lists[q] \in Seq(Threads) /\ NoDup(lists[q])
    BY Typed
  <1>2. CASE lists[q] = <<>>
    <2>1. n = y /\ Rest(q) = <<>>
      BY <1>2 DEF Popped, Rest
    <2>2. lists' = lists
      BY <1>2, <2>1, Typed
    <2>3. TInv(c') /\ c' = [c EXCEPT !.k = y]
      BY <2>1, Typed, OnlyK
    <2>4. ListsOK' /\ \A u \in Threads : Where(lists', u) = Where(lists, u)
      BY <2>2, SameLists
    <2>5. \A u \in Threads : Same(u)
      BY <2>3, <2>4, SameK
    <2> QED
      BY <1>2, <2>1, <2>2, <2>3, <2>4, <2>5
  <1>3. CASE lists[q] # <<>>
    <2>0. PICK h : h = Head(lists[q])
      OBVIOUS
    <2>1. /\ h \in Threads /\ In(lists[q], h) /\ Tail(lists[q]) \in Seq(Threads)
          /\ NoDup(Tail(lists[q])) /\ \A u : In(Tail(lists[q]), u) <=> In(lists[q], u) /\ u # h
      BY <1>1, <1>3, <2>0, PopListFacts
    <2>2. n = SetState(y, h, Running) /\ Rest(q) = Tail(lists[q])
      BY <1>3, <2>0 DEF Popped, Rest, WakeHead
    <2> HIDE DEF n
    <2>3. KInv(States, n) /\ n.state = [c.k.state EXCEPT ![h] = Running] /\ n.flags = c.k.flags
      <3> DEFINE m == SetState(y, h, Running)
      <3>1. Running \in States
        BY StatesDiffer
      <3>2. KInv(States, m) /\ m.state = [y.state EXCEPT ![h] = Running] /\ m.flags = y.flags
        BY <2>1, <3>1, RunStep
      <3> HIDE DEF m
      <3> QED
        BY <2>2, <3>2 DEF m
    <2>4. /\ ListsOK'
          /\ lists'[q] = Tail(lists[q])
          /\ \A r \in Prims : r # q => lists'[r] = lists[r]
          /\ \A u : Where(lists', u) = IF In(Tail(lists[q]), u) THEN Where(lists, u) \cup {q}
                                       ELSE Where(lists, u) \ {q}
      BY <2>1, <2>2, ListStep
    <2>5. \A u \in Threads : Where(lists', u) = IF u = h THEN Where(lists, u) \ {q} ELSE Where(lists, u)
      BY <2>1, <2>4 DEF Where
    <2>6. c' = [c EXCEPT !.k = n]
      BY DEF n
    <2>7. TInv(c') /\ c'.k = n /\ c'.deadline = c.deadline
      <3>1. TInv(c)
        BY Typed
      <3> DEFINE x == [c EXCEPT !.k = n]
      <3>2. TInv(x) /\ x.k = n /\ x.deadline = c.deadline
        BY <2>3, <3>1, OnlyK
      <3> HIDE DEF x
      <3> QED
        BY <2>6, <3>2 DEF x
    <2>8. \A u \in Threads : n.state[u] = IF u = h THEN Running ELSE c.k.state[u]
      BY <2>3, Typed
    <2>9. \A u \in Threads : u # h => Same(u)
      BY <2>3, <2>5, <2>6, <2>8, SameK
    <2>10. Fine(h)'
      <3>1. Where(lists', h) = {}
        BY <2>1, <2>5, InListFacts
      <3>2. /\ c'.k.state[h] = Running /\ c'.deadline[h] = c.deadline[h]
            /\ call'[h] = call[h] /\ fut'[h] = fut[h]
        BY <2>1, <2>7, <2>8
      <3> QED
        BY <2>1, <3>1, <3>2, WokenFine
    <2>11. ~In(lists'[q], h)
      BY <2>1, <2>4
    <2> QED
      BY <1>3, <2>0, <2>1, <2>2, <2>4, <2>7, <2>8, <2>9, <2>10, <2>11
  <1> QED
    BY <1>2, <1>3

LEMMA NotifyOneInv ==
  ASSUME SInv, NotifyOne
  PROVE  SInv'
  <1>1. /\ c' = [c EXCEPT !.k = Popped("queue", c.k)]
        /\ lists' = [lists EXCEPT !["queue"] = Rest("queue")]
        /\ UNCHANGED <<locked, isset, sem, call, until, holds, fut>>
    BY DEF NotifyOne, SetK, k
  <1>2. "queue" \in Prims /\ "lock" \in Prims /\ "event" \in Prims
    BY DEF Prims
  <1>3. /\ TInv(c') /\ ListsOK'
        /\ \A r \in Prims : r # "queue" => lists'[r] = lists[r]
        /\ lists["queue"] = <<>> => \A u \in Threads : Same(u)
        /\ lists["queue"] # <<>> =>
             \E h \in Threads : /\ In(lists["queue"], h)
                                /\ Fine(h)'
                                /\ \A u \in Threads : u # h => Same(u)
    BY <1>1, <1>2, Typed, PopStep
  <1>4. VarsOK'
    BY <1>1, <1>3 DEF SInv, VarsOK
  <1>5. lists'["lock"] = lists["lock"] /\ (isset' => lists'["event"] = <<>>)
    BY <1>1, <1>2, <1>3 DEF SInv
  <1>6. \A u \in Threads : Same(u) \/ Apart(u)
    <2>1. CASE lists["queue"] = <<>>
      BY <1>3, <2>1
    <2>2. CASE lists["queue"] # <<>>
      <3>1. PICK h \in Threads : /\ In(lists["queue"], h)
                                 /\ Fine(h)'
                                 /\ \A u \in Threads : u # h => Same(u)
        BY <1>3, <2>2
      <3>2. call[h] \in ListCalls /\ ListOf[call[h]] = "queue"
        BY <1>2, <3>1, InListFacts
      <3>3. Apart(h)
        BY <1>1, <3>1, <3>2, ListOfFacts DEF Apart
      <3> QED
        BY <3>1, <3>3
    <2> QED
      BY <2>1, <2>2
  <1> QED
    BY <1>1, <1>3, <1>4, <1>5, <1>6, SlotsSame, QuietStep

LEMMA ReleaseInv ==
  ASSUME SInv, NEW t \in Threads, Release(t)
  PROVE  SInv'
  <1>1. /\ c' = [c EXCEPT !.k = Popped("lock", c.k)]
        /\ lists' = [lists EXCEPT !["lock"] = Rest("lock")]
        /\ locked' = (lists["lock"] # <<>>)
        /\ holds' = holds \ {t}
        /\ t \in holds
        /\ UNCHANGED <<isset, sem, call, until, fut>>
    BY DEF Release, SetK, k
  <1>2. "lock" \in Prims /\ "event" \in Prims
    BY DEF Prims
  <1>3. /\ TInv(c') /\ ListsOK' /\ lists'["lock"] = Rest("lock")
        /\ \A r \in Prims : r # "lock" => lists'[r] = lists[r]
        /\ lists["lock"] = <<>> => \A u \in Threads : Same(u)
        /\ lists["lock"] # <<>> =>
             \E h \in Threads : /\ In(lists["lock"], h)
                                /\ Fine(h)'
                                /\ \A u \in Threads : u # h => Same(u)
    BY <1>1, <1>2, Typed, PopStep
  <1>4. VarsOK'
    <2>1. locked' \in BOOLEAN /\ holds' \in SUBSET Threads
      BY <1>1 DEF SInv, VarsOK
    <2> QED
      BY <1>1, <1>3, <2>1 DEF SInv, VarsOK
  <1>5. isset' => lists'["event"] = <<>>
    BY <1>1, <1>2, <1>3 DEF SInv
  <1>6. \A h \in Threads : In(lists["lock"], h) => call[h] = "acquire"
    BY <1>2, InListFacts, ListOfFacts
  <1>7. \A u \in Threads : Fine(u)'
    <2>1. \A u \in Threads : Same(u) \/ Fine(u)'
      BY <1>3
    <2> QED
      BY <2>1, FineStep
  <1>8. GiveOK'
    <2>1. sem' \in SemType /\ Slots(sem') <= Slots(sem)
      BY <1>1, Typed, SlotsSame
    <2>2. \A u \in Threads : Same(u) \/ (call[u] # "take" /\ call'[u] # "take")
      BY <1>1, <1>3, <1>6
    <2> QED
      BY <2>1, <2>2, GiveKept
  <1>9. LockOK'
    <2>1. LockOK /\ \A u \in Threads : Owner(u) <=> u = t
      BY <1>1 DEF SInv, LockOK, Owner
    <2>2. ASSUME NEW u \in Threads, Same(u)
          PROVE  Owner(u)' <=> Owner(u) /\ u # t
      <3>1. Fine(u)
        BY Typed
      <3>2. call[u] = "acquire" => c.deadline[u] = NoDeadline
        BY <3>1 DEF Fine, ThreadOK, Timed
      <3>3. t \in Threads /\ call[t] # "acquire"
        BY <1>1, <2>1 DEF LockOK
      <3> QED
        BY <1>1, <2>2, <3>2, <3>3 DEF Same, Fires, Owner
    <2>3. CASE lists["lock"] = <<>>
      <3>1. \A u \in Threads : ~Owner(u)'
        BY <1>3, <2>1, <2>2, <2>3
      <3>2. lists'["lock"] = <<>>
        BY <1>3, <2>3 DEF Rest
      <3> QED
        BY <1>1, <2>1, <3>1, <3>2 DEF LockOK
    <2>4. CASE lists["lock"] # <<>>
      <3>1. PICK h \in Threads : \A u \in Threads : u # h => Same(u)
        BY <1>3, <2>4
      <3>2. \A u \in Threads : u # h => ~Owner(u)'
        BY <2>1, <2>2, <3>1
      <3> QED
        BY <1>1, <2>1, <2>4, <3>2 DEF LockOK
    <2> QED
      BY <2>3, <2>4
  <1> QED
    BY <1>3, <1>4, <1>5, <1>7, <1>8, <1>9 DEF SInv

(* pop() until the list is empty.                                          *)
PopEach(w, k0, g) ==
  [n \in 0 .. Len(w) |-> IF n = 0 THEN k0 ELSE SetState(g[n - 1], w[n], Running)]

LEMMA PopEachFacts ==
  ASSUME NEW k0, KInv(States, k0), NEW w \in Seq(Threads)
  PROVE  LET n == (CHOOSE g : g = PopEach(w, k0, g))[Len(w)]
         IN  /\ KInv(States, n)
             /\ \A u \in Threads : n.state[u] = IF In(w, u) THEN Running ELSE k0.state[u]
             /\ n.flags = k0.flags
  <1> DEFINE L == Len(w)
      OK(n, x) ==
        /\ KInv(States, x)
        /\ \A u \in Threads :
             x.state[u] = IF \E i \in 1 .. n : w[i] = u THEN Running ELSE k0.state[u]
        /\ x.flags = k0.flags
      T == [n \in 0 .. L |-> {x \in SchedulerType(States) : OK(n, x)}]
      F == [n \in 1 .. L |-> [x \in SchedulerType(States) |-> SetState(x, w[n], Running)]]
      Eq(g) == Iterates(g, L, k0, F)
  <1>1. L \in Nat /\ DOMAIN w = 1 .. L /\ \A i \in 1 .. L : w[i] \in Threads
    BY ListFacts
  <1> HIDE DEF L
  <1>2. k0 \in T[0]
    <2>1. k0 \in SchedulerType(States)
      BY DEF KInv
    <2> QED
      BY <1>1, <2>1
  <1>3. ASSUME NEW n \in 1 .. L, NEW x \in T[n - 1]
        PROVE  F[n][x] = SetState(x, w[n], Running) /\ F[n][x] \in T[n]
    <2>1. n - 1 \in 0 .. L /\ n \in 0 .. L /\ w[n] \in Threads
      BY <1>1
    <2>2. x \in SchedulerType(States) /\ OK(n - 1, x)
      BY <2>1
    <2> DEFINE y == SetState(x, w[n], Running)
    <2>3. F[n][x] = y
      BY <2>2
    <2>4. KInv(States, y) /\ y.state = [x.state EXCEPT ![w[n]] = Running] /\ y.flags = x.flags
      <3>1. Running \in States
        BY StatesDiffer
      <3> QED
        BY <2>1, <2>2, <3>1, RunStep
    <2> HIDE DEF y
    <2>5. x.state \in [Threads -> States] /\ y \in SchedulerType(States)
      BY <2>2, <2>4 DEF KInv, SchedulerType
    <2>6. \A u \in Threads : y.state[u] = IF u = w[n] THEN Running ELSE x.state[u]
      BY <2>4, <2>5
    <2>7. \A u \in Threads :
            (\E i \in 1 .. n : w[i] = u) <=> (\E i \in 1 .. n - 1 : w[i] = u) \/ u = w[n]
      BY <1>1
    <2>8. OK(n, y)
      BY <2>2, <2>4, <2>6, <2>7
    <2> HIDE DEF F, OK
    <2> QED
      BY <2>1, <2>3, <2>5, <2>8 DEF y
  <1> HIDE DEF T, F
  <1>4. /\ \E g : Eq(g)
        /\ \A g : Eq(g) => \A n \in 0 .. L : g[n] \in T[n]
    <2>1. \A n \in 1 .. L : \A x \in T[n - 1] : F[n][x] \in T[n]
      BY <1>3
    <2> QED
      BY <1>1, <1>2, <2>1, Iterate
  <1>5. ASSUME NEW g, Eq(g)
        PROVE  g = PopEach(w, k0, g)
    <2>1. \A n \in 0 .. L : g[n] \in T[n]
      BY <1>4, <1>5
    <2>2. \A n \in 1 .. L : F[n][g[n - 1]] = SetState(g[n - 1], w[n], Running)
      BY <1>1, <1>3, <2>1
    <2> QED
      BY <1>1, <1>5, <2>2 DEF PopEach, Iterates, L
  <1>6. PICK h : h = CHOOSE g : g = PopEach(w, k0, g)
    OBVIOUS
  <1>7. h = PopEach(w, k0, h)
    BY <1>4, <1>5, <1>6
  <1>8. \A n \in 0 .. L : h[n] \in T[n]
    <2> DEFINE D == {n \in 0 .. L : h[n] \notin T[n]}
    <2> SUFFICES ASSUME D # {} PROVE FALSE
      OBVIOUS
    <2>1. PICK m \in D : \A n \in D : m <= n
      <3>1. D \in SUBSET Nat
        BY <1>1
      <3> HIDE DEF D
      <3> QED
        BY <3>1, LowestExists
    <2>2. h[m] = IF m = 0 THEN k0 ELSE SetState(h[m - 1], w[m], Running)
      BY <1>7, <2>1 DEF PopEach, L
    <2>3. m # 0
      BY <1>2, <2>1, <2>2
    <2>4. m \in 1 .. L /\ m - 1 \in 0 .. L /\ m - 1 \notin D
      BY <1>1, <2>1, <2>3
    <2>5. h[m - 1] \in T[m - 1]
      BY <2>4
    <2> QED
      BY <1>3, <2>1, <2>2, <2>3, <2>4, <2>5
  <1>9. OK(L, h[L])
    BY <1>1, <1>8 DEF T
  <1>10. \A u \in Threads : In(w, u) <=> \E i \in 1 .. L : w[i] = u
    BY <1>1 DEF In
  <1>11. (CHOOSE g : g = PopEach(w, k0, g))[Len(w)] = h[L]
    BY <1>6 DEF L
  <1> QED
    BY <1>9, <1>10, <1>11

LEMMA PopAllStep ==
  ASSUME SInv, NEW q \in Prims, c' = [c EXCEPT !.k = PoppedAll(q, c.k)],
         lists' = [lists EXCEPT ![q] = <<>>], UNCHANGED <<call, fut>>
  PROVE  /\ TInv(c')
         /\ ListsOK'
         /\ lists'[q] = <<>>
         /\ \A r \in Prims : r # q => lists'[r] = lists[r]
         /\ \A u \in Threads : Same(u) \/ (In(lists[q], u) /\ Fine(u)')
  <1> DEFINE w == lists[q]
             n == PoppedAll(q, c.k)
  <1>1. w \in Seq(Threads) /\ KInv(States, c.k) /\ TInv(c)
    BY Typed
  <1>2. n = (CHOOSE g : g = PopEach(w, c.k, g))[Len(w)]
    BY DEF PoppedAll, PopEach
  <1>3. /\ KInv(States, n)
        /\ \A u \in Threads : n.state[u] = IF In(w, u) THEN Running ELSE c.k.state[u]
        /\ n.flags = c.k.flags
    <2> HIDE DEF w, n
    <2> QED
      BY <1>1, <1>2, PopEachFacts
  <1>4. <<>> \in Seq(Threads) /\ NoDup(<<>>) /\ \A u : ~In(<<>>, u)
    BY DEF NoDup, In
  <1>5. /\ ListsOK'
        /\ lists'[q] = <<>>
        /\ \A r \in Prims : r # q => lists'[r] = lists[r]
        /\ \A u : Where(lists', u) = Where(lists, u) \ {q}
    BY <1>4, ListStep
  <1>6. c' = [c EXCEPT !.k = n]
    OBVIOUS
  <1> HIDE DEF n, w
  <1>7. TInv(c') /\ c'.k = n /\ c'.deadline = c.deadline
    <2> DEFINE x == [c EXCEPT !.k = n]
    <2>1. TInv(x) /\ x.k = n /\ x.deadline = c.deadline
      BY <1>1, <1>3, OnlyK
    <2> HIDE DEF x
    <2> QED
      BY <1>6, <2>1 DEF x
  <1>8. ASSUME NEW u \in Threads
        PROVE  Same(u) \/ (In(lists[q], u) /\ Fine(u)')
    <2>1. CASE In(lists[q], u)
      <3>0. Where(lists, u) = {q}
        BY <2>1, InListFacts
      <3>1. Where(lists', u) = {}
        BY <1>5, <3>0
      <3>2. /\ c'.k.state[u] = Running /\ c'.deadline[u] = c.deadline[u]
            /\ call'[u] = call[u] /\ fut'[u] = fut[u]
        BY <1>3, <1>7, <2>1 DEF w
      <3> QED
        BY <2>1, <3>1, <3>2, WokenFine
    <2>2. CASE ~In(lists[q], u)
      <3>1. Where(lists', u) = Where(lists, u)
        BY <1>5, <2>2 DEF Where
      <3>2. n.state[u] = c.k.state[u]
        BY <1>3, <2>2 DEF w
      <3>3. /\ call'[u] = call[u] /\ fut'[u] = fut[u]
            /\ THREAD_FLAG_WAKER \in c.k.flags[u] => THREAD_FLAG_WAKER \in n.flags[u]
        BY <1>3
      <3> QED
        BY <1>7, <3>1, <3>2, <3>3 DEF Same, Fires
    <2> QED
      BY <2>1, <2>2
  <1> QED
    BY <1>5, <1>7, <1>8

LEMMA WakeAllInv ==
  ASSUME SInv, EventSet \/ NotifyAll
  PROVE  SInv'
  <1>1. PICK q \in {"event", "queue"} :
          /\ c' = [c EXCEPT !.k = PoppedAll(q, c.k)]
          /\ lists' = [lists EXCEPT ![q] = <<>>]
          /\ q = "queue" => isset' = isset
          /\ isset' \in BOOLEAN
          /\ UNCHANGED <<locked, sem, call, until, holds, fut>>
    BY DEF EventSet, NotifyAll, SetK, k, SInv, VarsOK
  <1>2. q \in Prims /\ "lock" \in Prims /\ "event" \in Prims
    BY DEF Prims
  <1>3. /\ TInv(c') /\ ListsOK' /\ lists'[q] = <<>>
        /\ \A r \in Prims : r # q => lists'[r] = lists[r]
        /\ \A u \in Threads : Same(u) \/ (In(lists[q], u) /\ Fine(u)')
    BY <1>1, <1>2, PopAllStep
  <1>4. VarsOK'
    BY <1>1, <1>3 DEF SInv, VarsOK
  <1>5. lists'["lock"] = lists["lock"] /\ (isset' => lists'["event"] = <<>>)
    BY <1>1, <1>2, <1>3 DEF SInv
  <1>6. ASSUME NEW u \in Threads
        PROVE  Same(u) \/ Apart(u)
    <2>1. SUFFICES ASSUME In(lists[q], u), Fine(u)' PROVE Apart(u)
      BY <1>3
    <2>2. call[u] \in ListCalls /\ ListOf[call[u]] \in {"event", "queue"}
      BY <1>1, <1>2, <2>1, InListFacts
    <2> QED
      BY <1>1, <2>1, <2>2, ListOfFacts DEF Apart
  <1> QED
    BY <1>1, <1>3, <1>4, <1>5, <1>6, SlotsSame, QuietStep

-----------------------------------------------------------------------------
(* Calls with a deadline.                                                  *)

(* set_deadline in front of a wait.                                        *)
LEMMA DeadlineSet ==
  ASSUME SInv, NEW t \in Threads, NEW y, Before(y, t), y.deadline[t] = NoDeadline,
         NEW d \in Times
  PROVE  LET x == SetDeadline(y, d)
         IN  Before(x, t) /\ x.deadline[t] \in {NoDeadline, d} /\ x.k.state[t] = Running
  <1> DEFINE x == SetDeadline(y, d)
  <1>1. TInv(y) /\ y.k.cur = t /\ y.k.state[t] = Running /\ Leads(y.k)
    BY DEF Before, Leads
  <1>2. /\ TInv(x) /\ TimeStep(y, x, {t}) /\ x.k.state[t] = Running
        /\ x.deadline[t] \in {NoDeadline, d}
    BY <1>1, SetDeadlineStep
  <1> HIDE DEF x
  <1>3. x.k.cur = t /\ Leads(x.k)
    BY <1>1, <1>2 DEF TimeStep
  <1>4. ASSUME NEW u \in Threads, u # t
        PROVE  Fires(c, x, u)
    <2>1. Fires(c, y, u) /\ Fires(y, x, u)
      BY <1>2, <1>4 DEF Before, TimeStep
    <2> QED
      BY <2>1 DEF Fires
  <1>5. \A u \in Threads : SameWaker(c, x, u)
    BY <1>2 DEF Before, TimeStep, SameWaker
  <1>6. Before(x, t)
    BY <1>2, <1>3, <1>4, <1>5 DEF Before
  <1> QED
    BY <1>2, <1>6 DEF x

(* The threads are as in x.                                                *)
LEMMA SameBefore ==
  ASSUME SInv, NEW t \in Threads, NEW x, Before(x, t), c'.k.state = x.k.state,
         c'.k.flags = x.k.flags, c'.deadline = x.deadline,
         NEW u \in Threads, u # t, call'[u] = call[u], fut'[u] = fut[u],
         Where(lists', u) = Where(lists, u)
  PROVE  Same(u)
  BY DEF Before, Same, Fires, SameWaker

LEMMA WaitUntilInv ==
  ASSUME SInv, NEW t \in Threads, NEW d \in Deadlines, WaitUntil(t, d) \/ SleepUntil(t, d)
  PROVE  SInv'
  <1>1. PICK x : x = SetDeadline(c, d)
    OBVIOUS
  <1>2. Runs(t) /\ call[t] = "none" /\ UNCHANGED <<locked, isset, sem, holds, fut>>
    BY DEF WaitUntil, SleepUntil, Calls
  <1>3. d \in Times
    BY DeadlinesAssumption
  <1>4. c.deadline[t] = NoDeadline /\ fut[t] = "none" /\ Where(lists, t) = {}
    BY <1>2, IdleFacts
  <1>5. Before(x, t) /\ x.deadline[t] \in {NoDeadline, d} /\ x.k.state[t] = Running
    <2>1. Before(c, t)
      BY <1>2, BeforeNow
    <2> QED
      BY <1>1, <1>3, <1>4, <2>1, DeadlineSet
  <1>6. InFuture(x) <=> x.deadline[t] # NoDeadline
    BY <1>5 DEF Before, InFuture
  <1>7. until' \in [Threads -> Times]
    BY <1>2, <1>3, Typed DEF WaitUntil, SleepUntil
  <1>8. TInv(x) /\ x.k.cur = t /\ Leads(x.k) /\ KInv(States, x.k) /\ x.k.state \in [Threads -> States]
    <2>1. TInv(x) /\ x.k.cur = t /\ Leads(x.k) /\ KInv(States, x.k)
      BY <1>5 DEF Before, TInv
    <2> QED
      BY <2>1 DEF KInv, SchedulerType
  <1>9. CASE ~InFuture(x)
    <2>1. c' = x /\ UNCHANGED <<lists, call, until>>
      BY <1>1, <1>9 DEF WaitUntil, SleepUntil
    <2>2. TInv(c')
      BY <1>8, <2>1
    <2>3. VarsOK'
      BY <1>2, <2>1 DEF SInv, VarsOK, ListsOK
    <2>4. \A u \in Threads : Where(lists', u) = Where(lists, u)
      BY <2>1, SameLists
    <2>5. \A u \in Threads : u # t => Same(u)
      BY <1>2, <1>5, <2>1, <2>4, SameBefore
    <2>6. Same(t)
      <3>1. Fires(c, c', t)
        BY <1>2, <1>4, <1>5, <1>6, <1>9, <2>1, RunsFacts DEF Fires
      <3>2. SameWaker(c, x, t)
        BY <1>5 DEF Before
      <3> QED
        BY <1>2, <2>1, <2>4, <3>1, <3>2 DEF Same, SameWaker
    <2>7. isset' => lists'["event"] = <<>>
      BY <1>2, <2>1 DEF SInv
    <2> QED
      BY <1>2, <2>1, <2>2, <2>3, <2>5, <2>6, <2>7, SlotsSame, QuietStep
  <1>10. CASE InFuture(x) /\ WaitUntil(t, d)
    <2>1. /\ PutCurrent(ListOf["wait_until"], BlockedIn("wait_until"), x)
          /\ call' = [call EXCEPT ![t] = "wait_until"]
      BY <1>1, <1>10, ListOfFacts DEF WaitUntil, Begin, BlockedIn
    <2>2. "wait_until" \in ListCalls /\ "wait_until" \in Timed /\ ListOf["wait_until"] = "queue"
      BY ListOfFacts DEF Timed
    <2>3. /\ TInv(c') /\ ListsOK' /\ call' \in [Threads -> AllCalls] /\ call'[t] = "wait_until"
          /\ \A r \in Prims : r # ListOf["wait_until"] => lists'[r] = lists[r]
          /\ \A u \in Threads : u # t => Same(u)
          /\ Fine(t)'
      <3>1. fut' = fut
        BY <1>2
      <3> QED
        BY <1>4, <1>5, <2>1, <2>2, <3>1, BlockStep
    <2>4. lists'["lock"] = lists["lock"] /\ lists'["event"] = lists["event"]
      BY <2>2, <2>3 DEF Prims
    <2>5. VarsOK'
      BY <1>2, <1>7, <2>3 DEF SInv, VarsOK
    <2>6. Apart(t)
      BY <1>2, <2>3 DEF Apart
    <2>7. isset' => lists'["event"] = <<>>
      BY <1>2, <2>4 DEF SInv
    <2> QED
      BY <1>2, <2>3, <2>4, <2>5, <2>6, <2>7, SlotsSame, QuietStep
  <1>11. CASE InFuture(x) /\ SleepUntil(t, d)
    <2> DEFINE n == SetState(x.k, x.k.cur, Parked)
    <2>1. /\ c' = [x EXCEPT !.k = n] /\ call' = [call EXCEPT ![t] = "sleep"] /\ lists' = lists
      BY <1>1, <1>11 DEF SleepUntil, Begin, Park
    <2>2. KInv(States, n) /\ n.state = [x.k.state EXCEPT ![t] = Parked] /\ n.flags = x.k.flags
      BY <1>8, StatesDiffer, StopLeaderStep
    <2> HIDE DEF n
    <2>3. TInv(c') /\ c'.k = n /\ c'.deadline = x.deadline
      BY <1>8, <2>1, <2>2, OnlyK
    <2>4. \A u \in Threads : n.state[u] = IF u = t THEN Parked ELSE x.k.state[u]
      BY <1>8, <2>2
    <2>5. /\ call' \in [Threads -> AllCalls]
          /\ \A u \in Threads : call'[u] = IF u = t THEN "sleep" ELSE call[u]
      BY <2>1, Typed DEF AllCalls
    <2>6. ListsOK' /\ \A u \in Threads : Where(lists', u) = Where(lists, u)
      BY <2>1, SameLists
    <2>7. VarsOK'
      BY <1>2, <1>7, <2>5, <2>6 DEF SInv, VarsOK
    <2>8. ASSUME NEW u \in Threads, u # t PROVE Same(u)
      <3>1. Fires(c, x, u) /\ SameWaker(c, x, u)
        BY <1>5, <2>8 DEF Before
      <3>2. c'.k.state[u] = x.k.state[u] /\ c'.k.flags = x.k.flags
        BY <2>2, <2>3, <2>4, <2>8
      <3> QED
        BY <1>2, <2>3, <2>5, <2>6, <2>8, <3>1, <3>2 DEF Same, Fires, SameWaker
    <2>9. Apart(t)
      <3>1. c'.k.state[t] = Parked
        BY <2>3, <2>4
      <3>2. ThreadOK(Parked, THREAD_FLAG_WAKER \in c'.k.flags[t], c'.deadline[t] # NoDeadline,
                     "sleep", "none", {})
        BY StatesDiffer, ListOfFacts DEF ThreadOK, Timed
      <3> QED
        BY <1>2, <1>4, <2>5, <2>6, <3>1, <3>2 DEF Apart, Fine
    <2>10. isset' => lists'["event"] = <<>>
      BY <1>2, <2>1 DEF SInv
    <2> QED
      BY <1>2, <2>1, <2>3, <2>7, <2>8, <2>9, <2>10, SlotsSame, QuietStep
  <1> QED
    BY <1>9, <1>10, <1>11

(* remove_current() leaves the others in the list.                         *)
LEMMA LeaveFacts ==
  ASSUME SInv, NEW q \in Prims, NEW t \in Threads
  PROVE  LET w == Leave(q, t)
         IN  w \in Seq(Threads) /\ NoDup(w) /\ \A u : In(w, u) <=> In(lists[q], u) /\ u # t
  <1> DEFINE s == lists[q]
  <1>1. s \in Seq(Threads) /\ NoDup(s)
    BY Typed
  <1>2. CASE ~In(s, t)
    BY <1>1, <1>2 DEF Leave
  <1>3. CASE In(s, t)
    <2> DEFINE i == IndexOf(s, t)
               w == Without(s, t)
    <2>1. Leave(q, t) = w
      BY <1>3 DEF Leave
    <2>2. /\ i \in 1 .. Len(s) /\ s[i] = t /\ w \in Seq(Threads) /\ Len(s) \in Nat
          /\ DOMAIN w = 1 .. Len(s) - 1
          /\ \A j \in 1 .. Len(s) - 1 : w[j] = IF j < i THEN s[j] ELSE s[j + 1]
      <3> HIDE DEF s
      <3> QED
        BY <1>1, <1>3, WithoutFacts
    <2>3. DOMAIN s = 1 .. Len(s)
      BY <1>1, ListFacts
    <2> HIDE DEF i, w, s
    <2>4. \A a, b \in 1 .. Len(s) : s[a] = s[b] => a = b
      BY <1>1, <2>3 DEF NoDup
    <2>5. NoDup(w)
      <3>1. ASSUME NEW a \in 1 .. Len(s) - 1, NEW b \in 1 .. Len(s) - 1, w[a] = w[b]
            PROVE  a = b
        <4>1. /\ a \in 1 .. Len(s) /\ b \in 1 .. Len(s) /\ a + 1 \in 1 .. Len(s)
              /\ b + 1 \in 1 .. Len(s)
          BY <2>2
        <4>2. /\ w[a] = IF a < i THEN s[a] ELSE s[a + 1]
              /\ w[b] = IF b < i THEN s[b] ELSE s[b + 1]
          BY <2>2
        <4>3. CASE a < i /\ b < i
          BY <2>4, <3>1, <4>1, <4>2, <4>3
        <4>4. CASE a < i /\ ~(b < i)
          <5>1. a = b + 1
            BY <2>4, <3>1, <4>1, <4>2, <4>4
          <5> QED
            BY <2>2, <4>1, <4>4, <5>1
        <4>5. CASE ~(a < i) /\ b < i
          <5>1. b = a + 1
            BY <2>4, <3>1, <4>1, <4>2, <4>5
          <5> QED
            BY <2>2, <4>1, <4>5, <5>1
        <4>6. CASE ~(a < i) /\ ~(b < i)
          <5>1. a + 1 = b + 1
            BY <2>4, <3>1, <4>1, <4>2, <4>6
          <5> QED
            BY <4>1, <5>1
        <4> QED
          BY <4>3, <4>4, <4>5, <4>6
      <3> QED
        BY <2>2, <3>1 DEF NoDup
    <2>6. ASSUME NEW u
          PROVE  In(w, u) <=> In(s, u) /\ u # t
      <3>1. ASSUME NEW j \in 1 .. Len(s) - 1, w[j] = u
            PROVE  In(s, u) /\ u # t
        <4>1. j \in 1 .. Len(s) /\ j + 1 \in 1 .. Len(s) /\ j \in Nat /\ i \in Nat
          BY <2>2
        <4>2. PICK m \in 1 .. Len(s) : m # i /\ s[m] = u
          <5>1. CASE j < i
            BY <2>2, <3>1, <4>1, <5>1
          <5>2. CASE ~(j < i)
            <6>1. j + 1 # i /\ s[j + 1] = u
              BY <2>2, <3>1, <4>1, <5>2
            <6> QED
              BY <4>1, <6>1
          <5> QED
            BY <5>1, <5>2
        <4> QED
          BY <2>2, <2>3, <2>4, <4>2 DEF In
      <3>2. ASSUME NEW j \in 1 .. Len(s), s[j] = u, u # t
            PROVE  In(w, u)
        <4>1. j # i /\ j \in Nat /\ i \in Nat
          BY <2>2, <3>2
        <4>2. CASE j < i
          <5>1. j \in 1 .. Len(s) - 1 /\ w[j] = u
            BY <2>2, <3>2, <4>1, <4>2
          <5> QED
            BY <2>2, <5>1 DEF In
        <4>3. CASE j > i
          <5>1. j - 1 \in 1 .. Len(s) - 1 /\ ~(j - 1 < i) /\ j - 1 + 1 = j
            BY <2>2, <4>1, <4>3
          <5>2. w[j - 1] = u
            BY <2>2, <3>2, <5>1
          <5> QED
            BY <2>2, <5>1, <5>2 DEF In
        <4> QED
          BY <4>1, <4>2, <4>3
      <3> QED
        BY <2>2, <2>3, <3>1, <3>2 DEF In
    <2> QED
      BY <2>1, <2>2, <2>5, <2>6 DEF s
  <1> QED
    BY <1>2, <1>3

(* The deadline of a wait that has ended is cleared, and the thread leaves *)
(* the list.                                                               *)
LEMMA EndWait ==
  ASSUME SInv, NEW t \in Threads, Runs(t), call[t] \in ListCalls, NEW x, x = ClearDeadline(c),
         lists' = IF InFuture(c) THEN lists
                  ELSE [lists EXCEPT ![ListOf[call[t]]] = Leave(ListOf[call[t]], t)]
  PROVE  /\ Before(x, t)
         /\ x.deadline[t] = NoDeadline
         /\ x.k.state[t] = Running
         /\ ListsOK'
         /\ \A r \in Prims : r # ListOf[call[t]] => lists'[r] = lists[r]
         /\ \A u \in Threads : Where(lists', u) = IF u = t THEN {} ELSE Where(lists, u)
  <1> DEFINE q == ListOf[call[t]]
             w == Leave(q, t)
  <1>1. q \in Prims /\ c.k.cur = t /\ c.k.state[t] = Running /\ Fine(t)
    BY ListOfFacts, RunsFacts, Typed DEF Prims
  <1>2. /\ TInv(x) /\ TimeStep(c, x, {t}) /\ x.k.state[t] = Running
        /\ x.deadline[t] = NoDeadline
    BY <1>1, Typed, ClearDeadlineStep
  <1>3. Before(x, t)
    <2>1. Leads(c.k)
      BY RunsFacts
    <2> QED
      BY <1>1, <1>2, <2>1 DEF Before, TimeStep
  <1>4. Where(lists, t) \subseteq {q}
    BY <1>1 DEF Fine, ThreadOK
  <1>5. CASE InFuture(c)
    <2>1. lists' = lists
      BY <1>5
    <2>2. Where(lists, t) = {}
      BY <1>1, <1>5 DEF Fine, ThreadOK, InFuture
    <2>3. ListsOK' /\ \A u \in Threads : Where(lists', u) = Where(lists, u)
      BY <2>1, SameLists
    <2> QED
      BY <1>2, <1>3, <2>1, <2>2, <2>3
  <1>6. CASE ~InFuture(c)
    <2>1. w \in Seq(Threads) /\ NoDup(w) /\ \A u : In(w, u) <=> In(lists[q], u) /\ u # t
      BY <1>1, LeaveFacts
    <2>2. lists' = [lists EXCEPT ![q] = w]
      BY <1>6
    <2> HIDE DEF q, w
    <2>3. /\ ListsOK' /\ \A r \in Prims : r # q => lists'[r] = lists[r]
          /\ \A u : Where(lists', u) = IF In(w, u) THEN Where(lists, u) \cup {q}
                                                  ELSE Where(lists, u) \ {q}
      BY <1>1, <2>1, <2>2, ListStep
    <2>4. \A u \in Threads : u # t => Where(lists', u) = Where(lists, u)
      BY <2>1, <2>3 DEF Where
    <2>5. Where(lists', t) = {}
      BY <1>4, <2>1, <2>3
    <2> QED
      BY <1>2, <1>3, <2>3, <2>4, <2>5 DEF q
  <1> QED
    BY <1>5, <1>6

LEMMA WaitUntilReturnInv ==
  ASSUME SInv, NEW t \in Threads, WaitUntilReturn(t)
  PROVE  SInv'
  <1>1. /\ Runs(t) /\ call[t] = "wait_until" /\ c' = ClearDeadline(c) /\ Done(t)
        /\ lists' = IF InFuture(c) THEN lists ELSE [lists EXCEPT !["queue"] = Leave("queue", t)]
        /\ UNCHANGED <<locked, isset, sem, holds, fut>>
    BY DEF WaitUntilReturn
  <1>2. call[t] \in ListCalls /\ ListOf[call[t]] = "queue"
    BY <1>1, ListOfFacts
  <1>3. PICK x : x = ClearDeadline(c)
    OBVIOUS
  <1>4. /\ Before(x, t) /\ x.deadline[t] = NoDeadline /\ x.k.state[t] = Running /\ ListsOK'
        /\ \A r \in Prims : r # ListOf[call[t]] => lists'[r] = lists[r]
        /\ \A u \in Threads : Where(lists', u) = IF u = t THEN {} ELSE Where(lists, u)
    BY <1>1, <1>2, <1>3, EndWait
  <1>5. /\ call' \in [Threads -> AllCalls] /\ until' \in [Threads -> Times]
        /\ \A u \in Threads : call'[u] = IF u = t THEN "none" ELSE call[u]
    BY <1>1, DoneFacts, Typed DEF AllCalls
  <1>6. VarsOK'
    BY <1>1, <1>4, <1>5 DEF SInv, VarsOK
  <1>7. c' = x /\ TInv(c')
    BY <1>1, <1>3, <1>4 DEF Before
  <1>8. \A u \in Threads : u # t => Same(u)
    BY <1>1, <1>4, <1>5, <1>7, SameBefore
  <1>9. Apart(t)
    <2>1. fut[t] = "none"
      BY <1>1, Typed DEF Fine, ThreadOK
    <2>2. ThreadOK(Running, THREAD_FLAG_WAKER \in c'.k.flags[t], FALSE, "none", "none", {})
      BY ListOfFacts DEF ThreadOK
    <2> QED
      BY <1>1, <1>4, <1>5, <1>7, <2>1, <2>2 DEF Apart, Fine
  <1>10. lists'["lock"] = lists["lock"] /\ (isset' => lists'["event"] = <<>>)
    BY <1>1, <1>2, <1>4 DEF SInv, Prims
  <1> QED
    BY <1>1, <1>6, <1>7, <1>8, <1>9, <1>10, SlotsSame, QuietStep

-----------------------------------------------------------------------------
(* The semaphore.                                                          *)

(* The owner that is lent a priority is not the thread that lends it.      *)
LEMMA LendFacts ==
  ASSUME SInv, NEW t \in Threads, NEW x, Before(x, t), sem.owner # NoOwner
  PROVE  LET n == Lend(sem, x.k, t)
         IN  /\ KInv(States, n) /\ n.state = x.k.state /\ n.flags = x.k.flags
             /\ n.cur = x.k.cur /\ Leads(n)
  <1> DEFINE o == PtrThread(sem.owner)
             p == x.k.prio[t]
             n == SetPriority(x.k, o, p)
  <1>1. sem.owner \in 0 .. N_THREADS
    BY Typed DEF SemType
  <1>2. o \in Threads
    BY <1>1, SizeAssumption DEF PtrThread, NoOwner, Threads
  <1>3. /\ KInv(States, x.k) /\ x.k.cur = t /\ Leads(x.k) /\ x.k.state[t] = Running
        /\ x.k.prio \in [Threads -> Queues]
    BY DEF Before, TInv, KInv, SchedulerType, Prios, Leads
  <1>4. p \in Queues
    BY <1>3
  <1> HIDE DEF o
  <1>5. CASE x.k.prio[o] < p
    <2>1. o # t
      <3>1. p \in Nat
        BY <1>4 DEF Queues
      <3> QED
        BY <1>5, <3>1
    <2>2. Lend(sem, x.k, t) = n
      BY <1>5 DEF Lend, o
    <2> HIDE DEF p
    <2>3. /\ KInv(States, n) /\ n.state = x.k.state /\ n.flags = x.k.flags /\ n.cur = x.k.cur
          /\ n.prio = IF IsValid(x.k, o) THEN [x.k.prio EXCEPT ![o] = p] ELSE x.k.prio
          /\ HeadsKept(x.k, n)
      BY <1>2, <1>3, <1>4, SetPriorityStep
    <2> HIDE DEF n
    <2>4. n.prio[t] = x.k.prio[t] /\ n.state[t] = Running
      BY <1>3, <2>1, <2>3
    <2>5. Leads(n)
      BY <1>3, <2>3, <2>4, StillLeads
    <2> QED
      BY <2>2, <2>3, <2>5
  <1>6. CASE ~(x.k.prio[o] < p)
    <2>1. Lend(sem, x.k, t) = x.k
      BY <1>6 DEF Lend, o
    <2> QED
      BY <1>3, <2>1
  <1> QED
    BY <1>5, <1>6

(* What try_take does to the semaphore: a thread that does not get it has  *)
(* nothing to take, and lends its priority.                                *)
LEMMA TryTakeFacts ==
  ASSUME SInv, NEW t \in Threads, NEW x, Before(x, t), NEW r, r = TryTake(sem, x.k, t)
  PROVE  /\ r.ok \in BOOLEAN
         /\ r.sem \in SemType
         /\ r.ok => r.k = x.k /\ (Slots(r.sem) = 0 \/ Slots(r.sem) = Slots(sem) - 1)
         /\ ~r.ok => r.sem = sem /\ Slots(sem) = 0
         /\ KInv(States, r.k) /\ r.k.state = x.k.state /\ r.k.flags = x.k.flags
         /\ r.k.cur = x.k.cur /\ Leads(r.k)
  <1>1. sem \in SemType
    BY Typed
  <1>2. /\ KInv(States, x.k) /\ Leads(x.k) /\ x.k.prio \in [Threads -> Queues]
    BY DEF Before, TInv, KInv, SchedulerType, Prios
  <1>3. CASE sem.kind = "Counting" /\ sem.current > 0
    <2> DEFINE m == sem.current - 1
               s2 == [sem EXCEPT !.current = m]
    <2>1. m \in Nat
      BY <1>1, <1>3 DEF SemType
    <2>2. r = [ok |-> TRUE, k |-> x.k, sem |-> s2]
      BY <1>3 DEF TryTake
    <2>3. s2 \in SemType /\ s2.kind = "Counting" /\ s2.current = m
      <3> HIDE DEF m
      <3> QED
        BY <1>1, <1>3, <2>1 DEF SemType
    <2>4. Slots(s2) = Slots(sem) - 1
      <3> HIDE DEF s2
      <3> QED
        BY <1>3, <2>3 DEF Slots
    <2> HIDE DEF s2
    <2> QED
      BY <1>2, <2>2, <2>3, <2>4
  <1>4. CASE sem.kind = "Counting" /\ ~(sem.current > 0)
    <2>1. sem.current = 0
      BY <1>1, <1>4 DEF SemType
    <2>2. r = [ok |-> FALSE, k |-> x.k, sem |-> sem]
      BY <1>4, <2>1 DEF TryTake
    <2> QED
      BY <1>1, <1>2, <1>4, <2>1, <2>2 DEF Slots
  <1>5. CASE sem.kind # "Counting" /\ sem.owner = NoOwner
    <2> DEFINE m == sem.lock_counter + 1
               o == ThreadPtr(t)
               p == x.k.prio[t]
               s2 == [sem EXCEPT !.owner = o, !.lock_counter = m, !.original_priority = p]
    <2>1. m \in Int /\ o \in 0 .. N_THREADS /\ o # NoOwner /\ p \in Prios
      <3>1. m \in Int
        BY <1>1 DEF SemType
      <3>2. o \in 0 .. N_THREADS /\ o # NoOwner
        BY SizeAssumption DEF ThreadPtr, NoOwner, Threads
      <3>3. p \in Prios
        BY <1>2 DEF Prios
      <3> QED
        BY <3>1, <3>2, <3>3
    <2>2. r = [ok |-> TRUE, k |-> x.k, sem |-> s2]
      <3>1. /\ sem.kind # "Counting" /\ sem.owner = NoOwner
            /\ ~(sem.kind = "RecursiveMutex" /\ sem.owner = ThreadPtr(t))
        BY <1>5, <2>1
      <3>2. s2 = [sem EXCEPT !.owner = ThreadPtr(t), !.lock_counter = @ + 1,
                             !.original_priority = x.k.prio[t]]
        OBVIOUS
      <3> HIDE DEF s2
      <3> QED
        BY <3>1, <3>2 DEF TryTake
    <2>3. s2 \in SemType /\ s2.kind = sem.kind /\ s2.owner = o
      <3> HIDE DEF m, o, p
      <3> QED
        BY <1>1, <2>1 DEF SemType
    <2>4. Slots(s2) = 0
      <3> HIDE DEF s2, o
      <3> QED
        BY <1>5, <2>1, <2>3 DEF Slots
    <2> HIDE DEF s2
    <2> QED
      BY <1>2, <2>2, <2>3, <2>4
  <1>6. CASE sem.kind = "RecursiveMutex" /\ sem.owner # NoOwner /\ sem.owner = ThreadPtr(t)
    <2> DEFINE m == sem.lock_counter + 1
               s2 == [sem EXCEPT !.lock_counter = m]
    <2>1. m \in Int
      BY <1>1 DEF SemType
    <2>2. r = [ok |-> TRUE, k |-> x.k, sem |-> s2]
      BY <1>6 DEF TryTake
    <2>3. s2 \in SemType /\ s2.kind = sem.kind /\ s2.owner = sem.owner
      <3> HIDE DEF m
      <3> QED
        BY <1>1, <2>1 DEF SemType
    <2>4. Slots(s2) = 0
      <3> HIDE DEF s2
      <3> QED
        BY <1>6, <2>3 DEF Slots
    <2> HIDE DEF s2
    <2> QED
      BY <1>2, <2>2, <2>3, <2>4
  <1>7. CASE /\ sem.kind # "Counting" /\ sem.owner # NoOwner
             /\ ~(sem.kind = "RecursiveMutex" /\ sem.owner = ThreadPtr(t))
    <2> DEFINE n == Lend(sem, x.k, t)
    <2>1. r = [ok |-> FALSE, k |-> n, sem |-> sem]
      BY <1>7 DEF TryTake
    <2>2. /\ KInv(States, n) /\ n.state = x.k.state /\ n.flags = x.k.flags
          /\ n.cur = x.k.cur /\ Leads(n)
      BY <1>7, LendFacts
    <2> HIDE DEF n
    <2> QED
      BY <1>1, <1>7, <2>1, <2>2 DEF Slots
  <1> QED
    BY <1>3, <1>4, <1>5, <1>6, <1>7

(* After try_take thread t is still about to block.                        *)
LEMMA TriedBefore ==
  ASSUME SInv, NEW t \in Threads, NEW x, Before(x, t), NEW n, KInv(States, n),
         n.state = x.k.state, n.flags = x.k.flags, n.cur = x.k.cur, Leads(n)
  PROVE  LET y == [x EXCEPT !.k = n]
         IN  Before(y, t) /\ y.deadline = x.deadline /\ y.k = n
  <1> DEFINE y == [x EXCEPT !.k = n]
  <1>1. TInv(y) /\ y.k = n /\ y.deadline = x.deadline
    BY OnlyK DEF Before
  <1> HIDE DEF y
  <1>2. Before(y, t)
    BY <1>1 DEF Before, Fires, SameWaker
  <1> QED
    BY <1>1, <1>2 DEF y

(* A round of take: a thread that finds nothing to take blocks, unless its *)
(* deadline is over.                                                       *)
LEMMA TakeRoundInv ==
  ASSUME SInv, NEW t \in Threads, NEW d \in Times, Runs(t), call[t] \in {"none", "retake"},
         TakeRound(t, d)
  PROVE  SInv'
  <1>1. PICK r : r = TryTake(sem, c.k, t)
    OBVIOUS
  <1>2. PICK y : y = [c EXCEPT !.k = r.k]
    OBVIOUS
  <1>3. PICK x : x = SetDeadline(y, d)
    OBVIOUS
  <1>4. /\ sem' = r.sem /\ UNCHANGED <<locked, isset, holds, fut>>
        /\ r.ok => c' = y /\ Took(t) /\ lists' = lists
        /\ ~r.ok /\ InFuture(x) => PutCurrent("sem", WaitQueueBlocked, x) /\ Begin(t, "take")
        /\ ~r.ok /\ ~InFuture(x) => c' = x /\ Begin(t, "retake") /\ lists' = lists
        /\ ~r.ok => until' = [until EXCEPT ![t] = d]
    BY <1>1, <1>2, <1>3 DEF TakeRound, SetK, k
  <1>5. /\ Before(c, t) /\ Where(lists, t) = {} /\ c.deadline[t] = NoDeadline /\ fut[t] = "none"
        /\ c.k.state[t] = Running
    <2>1. call[t] \notin Timed /\ call[t] \notin ListCalls /\ call[t] \notin {"poll", "pending"}
      BY ListOfFacts DEF Timed
    <2>2. fut[t] = "none"
      BY <2>1, Typed DEF Fine, ThreadOK
    <2> QED
      BY <2>1, <2>2, RunsFacts, BeforeNow
  <1>6. /\ r.ok \in BOOLEAN /\ r.sem \in SemType
        /\ r.ok => r.k = c.k /\ (Slots(r.sem) = 0 \/ Slots(r.sem) = Slots(sem) - 1)
        /\ ~r.ok => r.sem = sem /\ Slots(sem) = 0
        /\ KInv(States, r.k) /\ r.k.state = c.k.state /\ r.k.flags = c.k.flags
        /\ r.k.cur = c.k.cur /\ Leads(r.k)
    BY <1>1, <1>5, TryTakeFacts
  <1>7. Slots(sem) \in Nat /\ Slots(sem') \in Nat /\ Slots(sem') <= Slots(sem)
    <2>1. Slots(sem) \in Nat /\ Slots(sem') \in Nat
      BY <1>4, <1>6, SlotsType, Typed
    <2> QED
      BY <1>4, <1>6, <2>1
  <1>8. Before(y, t) /\ y.deadline = c.deadline /\ y.k = r.k
    BY <1>2, <1>5, <1>6, TriedBefore
  <1>9. Before(x, t) /\ x.deadline[t] \in {NoDeadline, d} /\ x.k.state[t] = Running
    BY <1>3, <1>5, <1>8, DeadlineSet
  <1>10. InFuture(x) <=> x.deadline[t] # NoDeadline
    BY <1>9 DEF Before, InFuture
  <1>11. ~r.ok => until' \in [Threads -> Times]
    BY <1>4, Typed
  <1>12. CASE r.ok \/ ~InFuture(x)
    <2>1. PICK op \in {"none", "retake"} :
            /\ Before(c', t) /\ c'.deadline[t] = NoDeadline /\ c'.k.state[t] = Running
            /\ call' = [call EXCEPT ![t] = op] /\ until' \in [Threads -> Times]
            /\ lists' = lists
      <3>1. CASE r.ok
        <4>1. y.k.state[t] = Running /\ y.deadline[t] = NoDeadline
          BY <1>5, <1>6, <1>8
        <4>2. Done(t) /\ c' = y /\ lists' = lists
          BY <1>4, <3>1 DEF Took
        <4>3. call' = [call EXCEPT ![t] = "none"] /\ until' \in [Threads -> Times]
          BY <4>2, DoneFacts
        <4> QED
          BY <1>8, <4>1, <4>2, <4>3
      <3>2. CASE ~r.ok
        <4>1. c' = x /\ lists' = lists /\ x.deadline[t] = NoDeadline
          BY <1>4, <1>10, <1>12, <3>2
        <4>2. call' = [call EXCEPT ![t] = "retake"] /\ until' \in [Threads -> Times]
          BY <1>4, <1>11, <1>12, <3>2 DEF Begin
        <4> QED
          BY <1>9, <4>1, <4>2
      <3> QED
        BY <1>6, <3>1, <3>2
    <2>2. ListsOK' /\ \A u \in Threads : Where(lists', u) = Where(lists, u)
      BY <2>1, SameLists
    <2>3. /\ call' \in [Threads -> AllCalls]
          /\ \A u \in Threads : call'[u] = IF u = t THEN op ELSE call[u]
      BY <2>1, Typed DEF AllCalls
    <2>4. VarsOK'
      BY <1>4, <1>6, <2>1, <2>2, <2>3 DEF SInv, VarsOK
    <2>5. TInv(c')
      BY <2>1 DEF Before
    <2>6. \A u \in Threads : u # t => Same(u)
      BY <1>4, <2>1, <2>2, <2>3, SameBefore
    <2>7. Apart(t)
      <3>1. ThreadOK(Running, THREAD_FLAG_WAKER \in c'.k.flags[t], FALSE, op, "none", {})
        BY <2>1, ListOfFacts DEF ThreadOK
      <3>2. c'.k.state[t] = Running /\ c'.deadline[t] = NoDeadline /\ Where(lists', t) = {}
        BY <1>5, <2>1, <2>2
      <3> QED
        BY <1>4, <1>5, <2>1, <2>3, <3>1, <3>2 DEF Apart, Fine
    <2>8. lists'["lock"] = lists["lock"] /\ (isset' => lists'["event"] = <<>>)
      BY <1>4, <2>1 DEF SInv
    <2> QED
      BY <1>4, <1>7, <2>4, <2>5, <2>6, <2>7, <2>8, QuietStep
  <1>13. CASE ~r.ok /\ InFuture(x)
    <2>1. /\ PutCurrent(ListOf["take"], BlockedIn("take"), x)
          /\ call' = [call EXCEPT ![t] = "take"]
      BY <1>4, <1>13, ListOfFacts DEF Begin, BlockedIn
    <2>2. "take" \in ListCalls /\ "take" \in Timed /\ ListOf["take"] = "sem"
      BY ListOfFacts DEF Timed
    <2>3. /\ TInv(c') /\ ListsOK' /\ call' \in [Threads -> AllCalls] /\ call'[t] = "take"
          /\ \A r2 \in Prims : r2 # ListOf["take"] => lists'[r2] = lists[r2]
          /\ \A u \in Threads : u # t => Same(u)
          /\ Fine(t)'
      <3>1. fut' = fut
        BY <1>4
      <3> QED
        BY <1>5, <1>9, <2>1, <2>2, <3>1, BlockStep
    <2>4. lists'["lock"] = lists["lock"] /\ (isset' => lists'["event"] = <<>>)
      BY <1>4, <2>2, <2>3 DEF SInv, Prims
    <2>5. VarsOK'
      BY <1>4, <1>6, <1>11, <1>13, <2>3 DEF SInv, VarsOK
    <2>6. \A u \in Threads : Fine(u)'
      BY <2>3, FineStep
    <2>7. LockOK'
      BY <1>4, <2>3, <2>4, LockKept
    <2>8. GiveOK'
      <3>1. Slots(sem') = 0 /\ Cardinality(Ready') \in Nat
        BY <1>4, <1>6, <1>13, ReadyFinite
      <3> QED
        BY <3>1 DEF GiveOK
    <2> QED
      BY <2>3, <2>4, <2>5, <2>6, <2>7, <2>8 DEF SInv
  <1> QED
    BY <1>6, <1>12, <1>13

LEMMA TakeInv ==
  ASSUME SInv, NEW t \in Threads, NEW d \in Deadlines \cup {Never}, Take(t, d) \/ TakeAgain(t)
  PROVE  SInv'
  <1>1. d \in Times /\ until[t] \in Times
    BY DeadlinesAssumption, TimeFields, Typed
  <1>2. CASE Take(t, d)
    BY <1>1, <1>2, TakeRoundInv DEF Take, Calls
  <1>3. CASE TakeAgain(t)
    BY <1>1, <1>3, TakeRoundInv DEF TakeAgain
  <1> QED
    BY <1>2, <1>3

(* The rest of the round.  A woken taker that tries again is no longer on  *)
(* its way, and takes at most one.                                         *)
LEMMA TakeReturnInv ==
  ASSUME SInv, NEW t \in Threads, TakeReturn(t)
  PROVE  SInv'
  <1>1. PICK x : x = ClearDeadline(c)
    OBVIOUS
  <1>2. PICK r : r = TryTake(sem, x.k, t)
    OBVIOUS
  <1>3. /\ Runs(t) /\ call[t] = "take" /\ UNCHANGED <<locked, isset, holds, fut>>
        /\ lists' = IF InFuture(c) THEN lists ELSE [lists EXCEPT !["sem"] = Leave("sem", t)]
        /\ c' = [x EXCEPT !.k = r.k]
        /\ sem' = r.sem
        /\ r.ok => Took(t)
        /\ ~r.ok => Begin(t, "retake") /\ until' = until
    BY <1>1, <1>2 DEF TakeReturn
  <1>4. call[t] \in ListCalls /\ ListOf[call[t]] = "sem"
    BY <1>3, ListOfFacts
  <1>5. /\ Before(x, t) /\ x.deadline[t] = NoDeadline /\ x.k.state[t] = Running /\ ListsOK'
        /\ \A q \in Prims : q # ListOf[call[t]] => lists'[q] = lists[q]
        /\ \A u \in Threads : Where(lists', u) = IF u = t THEN {} ELSE Where(lists, u)
    BY <1>1, <1>3, <1>4, EndWait
  <1>6. /\ r.ok \in BOOLEAN /\ r.sem \in SemType
        /\ r.ok => (Slots(r.sem) = 0 \/ Slots(r.sem) = Slots(sem) - 1)
        /\ ~r.ok => r.sem = sem /\ Slots(sem) = 0
        /\ KInv(States, r.k) /\ r.k.state = x.k.state /\ r.k.flags = x.k.flags
        /\ r.k.cur = x.k.cur /\ Leads(r.k)
    BY <1>2, <1>5, TryTakeFacts
  <1>7. Before(c', t) /\ c'.deadline = x.deadline /\ c'.k = r.k
    BY <1>3, <1>5, <1>6, TriedBefore
  <1>8. PICK op \in {"none", "retake"} :
          call' = [call EXCEPT ![t] = op] /\ until' \in [Threads -> Times]
    <2>1. CASE r.ok
      <3>1. Done(t)
        BY <1>3, <2>1 DEF Took
      <3> QED
        BY <3>1, DoneFacts
    <2>2. CASE ~r.ok
      <3>1. call' = [call EXCEPT ![t] = "retake"] /\ until' \in [Threads -> Times]
        BY <1>3, <2>2, Typed DEF Begin
      <3> QED
        BY <3>1
    <2> QED
      BY <1>6, <2>1, <2>2
  <1>9. /\ call' \in [Threads -> AllCalls]
        /\ \A u \in Threads : call'[u] = IF u = t THEN op ELSE call[u]
    BY <1>8, Typed DEF AllCalls
  <1>10. VarsOK'
    BY <1>3, <1>5, <1>6, <1>8, <1>9 DEF SInv, VarsOK
  <1>11. TInv(c') /\ c'.k.state = x.k.state /\ c'.k.flags = x.k.flags /\ c'.deadline = x.deadline
    BY <1>6, <1>7 DEF Before
  <1>12. \A u \in Threads : u # t => Same(u)
    BY <1>3, <1>5, <1>9, <1>11, SameBefore
  <1>13. Fine(t)'
    <2>1. fut[t] = "none"
      BY <1>3, Typed DEF Fine, ThreadOK
    <2>2. ThreadOK(Running, THREAD_FLAG_WAKER \in c'.k.flags[t], FALSE, op, "none", {})
      BY <1>8, ListOfFacts DEF ThreadOK
    <2>3. c'.k.state[t] = Running /\ c'.deadline[t] = NoDeadline /\ Where(lists', t) = {}
      BY <1>5, <1>11
    <2> QED
      BY <1>3, <1>9, <2>1, <2>2, <2>3 DEF Fine
  <1>14. \A u \in Threads : Fine(u)'
    BY <1>12, <1>13, FineStep
  <1>15. lists'["lock"] = lists["lock"] /\ (isset' => lists'["event"] = <<>>)
    BY <1>3, <1>4, <1>5 DEF SInv, Prims
  <1>16. LockOK'
    <2>1. \A u \in Threads : Same(u) \/ (call[u] # "acquire" /\ call'[u] # "acquire")
      BY <1>3, <1>8, <1>9, <1>12
    <2> QED
      BY <1>3, <1>15, <2>1, LockKept
  <1>17. GiveOK'
    <2>1. \A u \in Threads : u # t => (u \in Ready' <=> u \in Ready)
      BY <1>12, ReadySame
    <2>2. t \notin Ready' /\ call'[t] # "take"
      BY <1>8, <1>9 DEF Ready
    <2>3. Ready' = Ready \ {t}
      BY <2>1, <2>2 DEF Ready
    <2>4. TakerBlocked' => TakerBlocked
      BY <1>12, <2>2, ReadySame DEF TakerBlocked
    <2>5. /\ Slots(sem) \in Nat /\ Slots(sem') \in Nat
          /\ Slots(sem') = 0 \/ Slots(sem') = Slots(sem) - 1
      BY <1>3, <1>6, SlotsType, Typed
    <2>6. Cardinality(Ready) \in Nat /\ Cardinality(Ready') \in Nat
          /\ Cardinality(Ready') >= Cardinality(Ready) - 1
      BY <2>3, ReadyFinite, FS_RemoveElement
    <2>7. GiveOK
      BY DEF SInv
    <2> QED
      BY <2>4, <2>5, <2>6, <2>7 DEF GiveOK
  <1> QED
    BY <1>10, <1>11, <1>14, <1>15, <1>16, <1>17 DEF SInv

(* try_give gives back at most one.                                        *)
LEMMA GivenFacts ==
  ASSUME SInv
  PROVE  Given(sem) \in SemType /\ Slots(Given(sem)) <= Slots(sem) + 1
  <1>1. sem \in SemType
    BY Typed
  <1>2. CASE sem.kind = "Counting"
    <2> DEFINE m == sem.current + 1
               s2 == [sem EXCEPT !.current = m]
    <2>1. m \in Nat /\ Given(sem) = s2 /\ sem.current \in Nat
      BY <1>1, <1>2 DEF SemType, Given
    <2>2. s2 \in SemType /\ s2.kind = "Counting" /\ s2.current = m
      <3> HIDE DEF m
      <3> QED
        BY <1>1, <1>2, <2>1 DEF SemType
    <2> HIDE DEF s2
    <2> QED
      BY <1>2, <2>1, <2>2 DEF Slots
  <1>3. CASE sem.kind # "Counting"
    <2> DEFINE m == sem.lock_counter - 1
               o == IF sem.lock_counter = 1 THEN NoOwner ELSE sem.owner
               s2 == [sem EXCEPT !.lock_counter = m, !.owner = o]
    <2>1. m \in Int /\ o \in 0 .. N_THREADS
      BY <1>1, SizeAssumption DEF SemType, NoOwner
    <2>2. Given(sem) = s2
      BY <1>3 DEF Given
    <2>3. s2 \in SemType /\ s2.kind = sem.kind
      <3> HIDE DEF m, o
      <3> QED
        BY <1>1, <2>1 DEF SemType
    <2> HIDE DEF s2
    <2> QED
      BY <1>3, <2>2, <2>3 DEF Slots
  <1> QED
    BY <1>2, <1>3

(* give(): the thread at the head of the list is woken and can take what   *)
(* was given.  y is the scheduler after the priority is restored.          *)
LEMMA GiveStep ==
  ASSUME SInv, NEW y, KInv(States, y), y.state = c.k.state, y.flags = c.k.flags,
         sem' = Given(sem), c' = [c EXCEPT !.k = Popped("sem", y)],
         lists' = [lists EXCEPT !["sem"] = Rest("sem")],
         UNCHANGED <<locked, isset, call, until, holds, fut>>
  PROVE  SInv'
  <1>1. "sem" \in Prims /\ "lock" \in Prims /\ "event" \in Prims
    BY DEF Prims
  <1>2. /\ TInv(c') /\ ListsOK' /\ lists'["sem"] = Rest("sem")
        /\ \A r \in Prims : r # "sem" => lists'[r] = lists[r]
        /\ lists["sem"] = <<>> => \A u \in Threads : Same(u)
        /\ lists["sem"] # <<>> =>
             \E h \in Threads : /\ In(lists["sem"], h)
                                /\ ~In(lists'["sem"], h)
                                /\ c'.k.state[h] = Running
                                /\ Fine(h)'
                                /\ \A u \in Threads : u # h => Same(u)
    BY <1>1, PopStep
  <1>3. sem' \in SemType /\ Slots(sem') <= Slots(sem) + 1
    BY GivenFacts
  <1>4. VarsOK'
    BY <1>2, <1>3 DEF SInv, VarsOK
  <1>5. lists'["lock"] = lists["lock"] /\ (isset' => lists'["event"] = <<>>)
    BY <1>1, <1>2 DEF SInv
  <1>6. \A h \in Threads : In(lists["sem"], h) => call[h] = "take"
    BY <1>1, InListFacts, ListOfFacts
  <1>7. \A u \in Threads : Fine(u)'
    <2>1. \A u \in Threads : Same(u) \/ Fine(u)'
      BY <1>2
    <2> QED
      BY <2>1, FineStep
  <1>8. LockOK'
    <2>1. \A u \in Threads : Same(u) \/ (call[u] # "acquire" /\ call'[u] # "acquire")
      BY <1>2, <1>6
    <2> QED
      BY <1>5, <2>1, LockKept
  <1>9. GiveOK'
    <2>1. CASE lists["sem"] = <<>>
      <3>1. \A u \in Threads : call[u] = "take" => c.k.state[u] = Running
        <4>1. ASSUME NEW u \in Threads, call[u] = "take", c.k.state[u] # Running
              PROVE  FALSE
          <5>1. In(lists["sem"], u)
            BY <4>1, Typed, ListOfFacts DEF Fine, ThreadOK, Where
          <5> QED
            BY <2>1, <5>1 DEF In
        <4> QED
          BY <4>1
      <3>2. ~TakerBlocked'
        BY <1>2, <2>1, <3>1, ReadySame DEF TakerBlocked
      <3> QED
        BY <3>2 DEF GiveOK
    <2>2. CASE lists["sem"] # <<>>
      <3>1. PICK h \in Threads : /\ In(lists["sem"], h)
                                 /\ ~In(lists'["sem"], h)
                                 /\ c'.k.state[h] = Running
                                 /\ \A u \in Threads : u # h => Same(u)
        BY <1>2, <2>2
      <3>2. call[h] = "take" /\ h \in Ready' /\ h \notin Ready
        BY <1>6, <3>1 DEF Ready
      <3>3. \A u \in Threads : u # h => (u \in Ready' <=> u \in Ready)
        BY <3>1, ReadySame
      <3>4. Ready' = Ready \cup {h}
        BY <3>2, <3>3 DEF Ready
      <3>5. TakerBlocked' => TakerBlocked
        BY <3>1, ReadySame DEF TakerBlocked
      <3>6. /\ Cardinality(Ready') = Cardinality(Ready) + 1 /\ Cardinality(Ready) \in Nat
        BY <3>2, <3>4, ReadyFinite, FS_AddElement
      <3>7. Slots(sem) \in Nat /\ Slots(sem') \in Nat /\ GiveOK
        BY <1>3, SlotsType, Typed DEF SInv
      <3> QED
        BY <1>3, <3>5, <3>6, <3>7 DEF GiveOK
    <2> QED
      BY <2>1, <2>2
  <1> QED
    BY <1>2, <1>4, <1>5, <1>7, <1>8, <1>9 DEF SInv

LEMMA GiveInv ==
  ASSUME SInv, GiveIsr \/ \E t \in Threads : Give(t)
  PROVE  SInv'
  <1>1. CASE GiveIsr
    <2>1. /\ sem' = Given(sem) /\ c' = [c EXCEPT !.k = Popped("sem", c.k)]
          /\ lists' = [lists EXCEPT !["sem"] = Rest("sem")]
          /\ UNCHANGED <<locked, isset, call, until, holds, fut>>
      BY <1>1 DEF GiveIsr, SetK, k
    <2> QED
      BY <2>1, Typed, GiveStep
  <1>2. ASSUME NEW t \in Threads, Give(t)
        PROVE  SInv'
    <2>1. PICK y : y = Restored(sem, c.k, t)
      OBVIOUS
    <2>2. /\ sem' = Given(sem) /\ c' = [c EXCEPT !.k = Popped("sem", y)]
          /\ lists' = [lists EXCEPT !["sem"] = Rest("sem")]
          /\ UNCHANGED <<locked, isset, call, until, holds, fut>>
      BY <1>2, <2>1 DEF Give, SetK, k
    <2>3. sem.original_priority \in Queues /\ KInv(States, c.k)
      BY Typed DEF SemType, Prios
    <2>4. KInv(States, y) /\ y.state = c.k.state /\ y.flags = c.k.flags
      <3> DEFINE n == SetPriority(c.k, t, sem.original_priority)
      <3>1. KInv(States, n) /\ n.state = c.k.state /\ n.flags = c.k.flags
        BY <2>3, SetPriorityStep
      <3>2. y = n \/ y = c.k
        BY <2>1 DEF Restored
      <3> HIDE DEF n
      <3> QED
        BY <2>3, <3>1, <3>2
    <2> QED
      BY <2>2, <2>4, GiveStep
  <1> QED
    BY <1>1, <1>2

-----------------------------------------------------------------------------
(* Who has the mutex.                                                      *)

PtrOf(u) == IF u = NoThread THEN Dangling ELSE ThreadPtr(u)

(* User u has taken the mutex as often as lock_counter says.               *)
TakenBy(s, hs, u) ==
  /\ s.owner = PtrOf(u)
  /\ hs[u] \in Nat \ {0}
  /\ s.lock_counter = hs[u]
  /\ s.kind = "RecursiveMutex" => u \in Threads
  /\ s.kind # "RecursiveMutex" => hs[u] = 1
  /\ \A v \in Users : v # u => hs[v] = 0

Free(s, hs) == s.owner = NoOwner /\ s.lock_counter = 0 /\ \A v \in Users : hs[v] = 0

HasOK(s, hs) ==
  /\ hs \in [Users -> Nat]
  /\ s.kind = "Counting" => \A v \in Users : hs[v] = 0
  /\ s.kind # "Counting" => Free(s, hs) \/ \E u \in Users : TakenBy(s, hs, u)

LEMMA PtrFacts ==
  /\ NoThread \notin Threads /\ NoThread \in Users /\ Threads \subseteq Users
  /\ \A t \in Threads : PtrOf(t) = ThreadPtr(t)
  /\ \A t, u \in Threads : ThreadPtr(t) = ThreadPtr(u) => t = u
  /\ \A u \in Users : PtrOf(u) # NoOwner
  /\ Dangling # NoOwner /\ PtrOf(NoThread) = Dangling
  <1>1. NoThread \notin Threads
    BY SentinelNotThread DEF NoThread
  <1>2. NoThread \in Users /\ Threads \subseteq Users
    BY DEF Users
  <1>3. \A t \in Threads : t \in Nat
    BY DEF Threads
  <1> QED
    BY <1>1, <1>2, <1>3 DEF PtrOf, ThreadPtr, Dangling, NoOwner, Users

(* User u takes the free mutex.                                            *)
LEMMA TakeFree ==
  ASSUME NEW s, NEW hs, HasOK(s, hs), s.kind # "Counting", s.owner = NoOwner, NEW u \in Users,
         NEW s2, s2.kind = s.kind, s2.owner = PtrOf(u), s2.lock_counter = s.lock_counter + 1,
         s.kind = "RecursiveMutex" => u \in Threads
  PROVE  HasOK(s2, [hs EXCEPT ![u] = @ + 1])
  <1> DEFINE h2 == [hs EXCEPT ![u] = @ + 1]
  <1>1. Free(s, hs)
    BY PtrFacts DEF HasOK, TakenBy
  <1>2. hs \in [Users -> Nat] /\ s.lock_counter = 0 /\ \A v \in Users : hs[v] = 0
    BY <1>1 DEF Free, HasOK
  <1>3. /\ h2 \in [Users -> Nat] /\ h2[u] = 1 /\ \A v \in Users : v # u => h2[v] = 0
    BY <1>2
  <1> HIDE DEF h2
  <1>4. TakenBy(s2, h2, u)
    BY <1>2, <1>3 DEF TakenBy
  <1>5. HasOK(s2, h2)
    BY <1>3, <1>4 DEF HasOK
  <1> QED
    BY <1>5 DEF h2

(* The owner of a recursive mutex takes it once more.                      *)
LEMMA TakeMore ==
  ASSUME NEW s, NEW hs, HasOK(s, hs), s.kind = "RecursiveMutex", NEW t \in Threads,
         s.owner = ThreadPtr(t),
         NEW s2, s2.kind = s.kind, s2.owner = s.owner, s2.lock_counter = s.lock_counter + 1
  PROVE  HasOK(s2, [hs EXCEPT ![t] = @ + 1])
  <1> DEFINE h2 == [hs EXCEPT ![t] = @ + 1]
  <1>0. s.owner # NoOwner /\ t \in Users
    BY PtrFacts
  <1>1. PICK u \in Users : TakenBy(s, hs, u)
    BY <1>0 DEF HasOK, Free
  <1>2. u = t
    BY <1>1, PtrFacts DEF TakenBy
  <1>3. /\ hs \in [Users -> Nat] /\ s.lock_counter = hs[t] /\ hs[t] \in Nat \ {0}
        /\ \A v \in Users : v # t => hs[v] = 0
    BY <1>1, <1>2 DEF TakenBy, HasOK
  <1>4. /\ h2 \in [Users -> Nat] /\ h2[t] = hs[t] + 1 /\ \A v \in Users : v # t => h2[v] = 0
    BY <1>0, <1>3
  <1> HIDE DEF h2
  <1>5. TakenBy(s2, h2, t)
    BY <1>0, <1>3, <1>4, PtrFacts DEF TakenBy
  <1>6. HasOK(s2, h2)
    BY <1>0, <1>4, <1>5 DEF HasOK
  <1> QED
    BY <1>6 DEF h2

(* User u gives the mutex back that it has.                                *)
LEMMA GiveBack ==
  ASSUME NEW s, NEW hs, HasOK(s, hs), s.kind # "Counting", NEW u \in Users, hs[u] > 0,
         NEW s2, s2.kind = s.kind, s2.lock_counter = s.lock_counter - 1,
         s2.owner = IF s.lock_counter = 1 THEN NoOwner ELSE s.owner
  PROVE  HasOK(s2, [hs EXCEPT ![u] = @ - 1])
  <1> DEFINE h2 == [hs EXCEPT ![u] = @ - 1]
  <1>1. hs \in [Users -> Nat] /\ TakenBy(s, hs, u)
    BY DEF HasOK, Free, TakenBy
  <1>2. /\ s.lock_counter = hs[u] /\ hs[u] \in Nat \ {0} /\ s.owner = PtrOf(u)
        /\ \A v \in Users : v # u => hs[v] = 0
        /\ s.kind = "RecursiveMutex" => u \in Threads
        /\ s.kind # "RecursiveMutex" => hs[u] = 1
    BY <1>1 DEF TakenBy
  <1>3. /\ h2 \in [Users -> Nat] /\ h2[u] = hs[u] - 1 /\ \A v \in Users : v # u => h2[v] = 0
    BY <1>1, <1>2
  <1> HIDE DEF h2
  <1>4. CASE s.lock_counter = 1
    <2>1. Free(s2, h2)
      BY <1>2, <1>3, <1>4 DEF Free
    <2> QED
      BY <1>3, <2>1 DEF HasOK, h2
  <1>5. CASE s.lock_counter # 1
    <2>1. TakenBy(s2, h2, u)
      BY <1>2, <1>3, <1>5 DEF TakenBy
    <2> QED
      BY <1>3, <2>1 DEF HasOK, h2
  <1> QED
    BY <1>4, <1>5

(* A thread that gets the semaphore.                                       *)
LEMMA TookHas ==
  ASSUME sem \in SemType, HasOK(sem, has), NEW t \in Threads, NEW kk,
         NEW r, r = TryTake(sem, kk, t), r.ok, sem' = r.sem, Took(t)
  PROVE  HasOK(sem', has')
  <1>1. t \in Users /\ ThreadPtr(t) # NoOwner /\ PtrOf(t) = ThreadPtr(t)
    BY PtrFacts
  <1>2. has \in [Users -> Nat]
    BY DEF HasOK
  <1>3. CASE sem.kind = "Counting"
    <2>1. has' = [has EXCEPT ![t] = @]
      BY <1>3 DEF Took
    <2>2. has' = has
      BY <1>2, <2>1
    <2>3. sem'.kind = "Counting"
      <3>1. CASE sem.current > 0
        <4>1. sem' = [sem EXCEPT !.current = @ - 1]
          BY <1>3, <3>1 DEF TryTake
        <4> QED
          BY <1>3, <4>1 DEF SemType
      <3>2. CASE ~(sem.current > 0)
        <4>1. sem.current = 0
          BY <3>2 DEF SemType
        <4> QED
          BY <1>3, <4>1 DEF TryTake
      <3> QED
        BY <3>1, <3>2
    <2> QED
      BY <1>3, <2>2, <2>3 DEF HasOK
  <1>4. CASE sem.kind # "Counting" /\ sem.owner = NoOwner
    <2>1. has' = [has EXCEPT ![t] = @ + 1]
      BY <1>4 DEF Took
    <2>2. sem' = [sem EXCEPT !.owner = ThreadPtr(t), !.lock_counter = @ + 1,
                             !.original_priority = kk.prio[t]]
      <3>1. ~(sem.kind = "RecursiveMutex" /\ sem.owner = ThreadPtr(t))
        BY <1>1, <1>4
      <3> QED
        BY <1>4, <3>1 DEF TryTake
    <2>3. /\ sem'.kind = sem.kind /\ sem'.owner = PtrOf(t)
          /\ sem'.lock_counter = sem.lock_counter + 1
      BY <1>1, <2>2 DEF SemType
    <2>4. HasOK(sem', [has EXCEPT ![t] = @ + 1])
      BY <1>1, <1>4, <2>3, TakeFree
    <2> QED
      BY <2>1, <2>4
  <1>5. CASE sem.kind # "Counting" /\ sem.owner # NoOwner
    <2>1. sem.kind = "RecursiveMutex" /\ sem.owner = ThreadPtr(t)
      BY <1>5 DEF TryTake
    <2>2. has' = [has EXCEPT ![t] = @ + 1]
      BY <1>5 DEF Took
    <2>3. sem' = [sem EXCEPT !.lock_counter = @ + 1]
      BY <1>5, <2>1 DEF TryTake
    <2>4. /\ sem'.kind = sem.kind /\ sem'.owner = sem.owner
          /\ sem'.lock_counter = sem.lock_counter + 1
      BY <2>3 DEF SemType
    <2>5. HasOK(sem', [has EXCEPT ![t] = @ + 1])
      BY <2>1, <2>4, TakeMore
    <2> QED
      BY <2>2, <2>5
  <1> QED
    BY <1>3, <1>4, <1>5

(* User u, who may give, gives.                                            *)
LEMMA GaveHas ==
  ASSUME sem \in SemType, HasOK(sem, has), NEW u \in Users, sem.kind # "Counting" => has[u] > 0,
         sem' = Given(sem), has' = [has EXCEPT ![u] = IF sem.kind = "Counting" THEN @ ELSE @ - 1]
  PROVE  HasOK(sem', has')
  <1>1. has \in [Users -> Nat]
    BY DEF HasOK
  <1>2. CASE sem.kind = "Counting"
    <2>1. sem' = [sem EXCEPT !.current = @ + 1] /\ has' = [has EXCEPT ![u] = @]
      BY <1>2 DEF Given
    <2>2. has' = has /\ sem'.kind = "Counting"
      BY <1>1, <1>2, <2>1 DEF SemType
    <2> QED
      BY <1>2, <2>2 DEF HasOK
  <1>3. CASE sem.kind # "Counting"
    <2> DEFINE o == IF sem.lock_counter = 1 THEN NoOwner ELSE sem.owner
    <2>1. sem' = [sem EXCEPT !.lock_counter = @ - 1, !.owner = o] /\ has' = [has EXCEPT ![u] = @ - 1]
      BY <1>3 DEF Given
    <2>2. sem'.kind = sem.kind /\ sem'.lock_counter = sem.lock_counter - 1 /\ sem'.owner = o
      <3> HIDE DEF o
      <3> QED
        BY <2>1 DEF SemType
    <2>3. HasOK(sem', [has EXCEPT ![u] = @ - 1])
      BY <1>3, <2>2, GiveBack
    <2> QED
      BY <2>1, <2>3
  <1> QED
    BY <1>2, <1>3

LEMMA IsrHas ==
  ASSUME sem \in SemType, HasOK(sem, has), "RecursiveMutex" \notin IsrKinds, TakeIsr
  PROVE  HasOK(sem', has')
  <1>1. has \in [Users -> Nat] /\ NoThread \in Users
    BY PtrFacts DEF HasOK
  <1>2. CASE sem.kind = "Counting"
    <2>1. sem' = [sem EXCEPT !.current = @ - 1] /\ has' = [has EXCEPT ![NoThread] = @]
      BY <1>2 DEF TakeIsr
    <2>2. has' = has /\ sem'.kind = "Counting"
      BY <1>1, <1>2, <2>1 DEF SemType
    <2> QED
      BY <1>2, <2>2 DEF HasOK
  <1>3. CASE sem.kind # "Counting"
    <2>1. /\ sem' = [sem EXCEPT !.owner = Dangling, !.lock_counter = @ + 1]
          /\ has' = [has EXCEPT ![NoThread] = @ + 1]
          /\ sem.kind # "RecursiveMutex" /\ sem.owner = NoOwner
      BY <1>3 DEF TakeIsr
    <2>2. /\ sem'.kind = sem.kind /\ sem'.owner = PtrOf(NoThread)
          /\ sem'.lock_counter = sem.lock_counter + 1
      BY <2>1, PtrFacts DEF SemType
    <2>3. HasOK(sem', [has EXCEPT ![NoThread] = @ + 1])
      BY <1>1, <1>3, <2>1, <2>2, TakeFree
    <2> QED
      BY <2>1, <2>3
  <1> QED
    BY <1>2, <1>3

-----------------------------------------------------------------------------
(* The theorems.                                                           *)

LEMMA StutterInv ==
  ASSUME SInv, UNCHANGED vars
  PROVE  SInv'
  <1>1. UNCHANGED <<c, lists, locked, isset, sem, call, until, holds, fut>>
    BY DEF vars
  <1>2. TInv(c') /\ VarsOK'
    BY <1>1 DEF SInv, VarsOK, ListsOK
  <1>3. \A t \in Threads : Same(t)
    BY <1>1, SameLists DEF Same, Fires
  <1>4. isset' => lists'["event"] = <<>>
    BY <1>1 DEF SInv
  <1>5. Slots(sem') <= Slots(sem)
    BY <1>1, SlotsSame
  <1> QED
    BY <1>1, <1>2, <1>3, <1>4, <1>5, QuietStep

LEMMA NextInv ==
  ASSUME ~UnparkSleepers, SInv, [Next]_vars
  PROVE  SInv'
  <1>1. ASSUME NEW p \in Prios, BootCreate(p) PROVE SInv'
    BY <1>1, BootCreateInv
  <1>2. CASE StartThreading \/ ContextSwitch
    BY <1>2, SwitchInv
  <1>3. CASE Tick \/ TimerInterrupt
    BY <1>3, TimeInv
  <1>4. CASE EventSet \/ NotifyAll
    BY <1>4, WakeAllInv
  <1>5. CASE EventClear \/ TakeIsr
    BY <1>5, IsrInv
  <1>6. CASE NotifyOne
    BY <1>6, NotifyOneInv
  <1>7. CASE GiveIsr \/ \E t \in Threads : Give(t)
    BY <1>7, GiveInv
  <1>8. ASSUME NEW t \in Threads,
               AcquireFree(t) \/ AcquireBlock(t) \/ AcquireReturn(t) \/ Release(t)
        PROVE  SInv'
    BY <1>8, AcquireFreeInv, AcquireBlockInv, AcquireReturnInv, ReleaseInv
  <1>9. ASSUME NEW t \in Threads, EventWait(t) \/ QueueWait(t) \/ WaitUntilReturn(t)
        PROVE  SInv'
    BY <1>9, WaitBlockInv, WaitUntilReturnInv
  <1>10. ASSUME NEW t \in Threads, TakeAgain(t) \/ TakeGiveUp(t) \/ TakeReturn(t)
         PROVE  SInv'
    <2>1. CASE TakeAgain(t)
      <3>1. Never \in Deadlines \cup {Never}
        OBVIOUS
      <3> QED
        BY <2>1, <3>1, TakeInv
    <2> QED
      BY <1>10, <2>1, ReturnInv, TakeReturnInv
  <1>11. ASSUME NEW t \in Threads, BlockOn(t) \/ Poll(t) \/ WaitWaker(t) \/ FutureReady(t)
         PROVE  SInv'
    BY <1>11, BlockOnInv, WaitWakerInv
  <1>12. ASSUME NEW t \in Threads, FutureWake(t) \/ WakerDrop(t)
         PROVE  SInv'
    BY <1>12, WakeInv
  <1>13. ASSUME NEW t \in Threads, Return(t) \/ DoPark(t) \/ DoUnpark(t) \/ Exit(t)
         PROVE  SInv'
    BY <1>13, ReturnInv, ParkInv
  <1>14. ASSUME NEW t \in Threads, NEW d \in Deadlines, WaitUntil(t, d) \/ SleepUntil(t, d)
         PROVE  SInv'
    BY <1>14, WaitUntilInv
  <1>15. ASSUME NEW t \in Threads, NEW d \in Deadlines \cup {Never}, Take(t, d)
         PROVE  SInv'
    BY <1>15, TakeInv
  <1>16. CASE UNCHANGED vars
    BY <1>16, StutterInv
  <1>17. CASE Next
    BY <1>1, <1>2, <1>3, <1>4, <1>5, <1>6, <1>7, <1>8, <1>9, <1>10, <1>11, <1>12, <1>13, <1>14,
       <1>15, <1>17 DEF Next
  <1> QED
    BY <1>16, <1>17

(* A step leaves the semaphore and who has it alone, or takes or gives it. *)
LEMMA HasNext ==
  ASSUME SInv, HasOK(sem, has), "RecursiveMutex" \notin IsrKinds, [Next]_vars
  PROVE  HasOK(sem', has')
  <1>1. sem \in SemType
    BY Typed
  <1>2. CASE UNCHANGED <<sem, has>>
    BY <1>2
  <1>3. CASE TakeIsr
    BY <1>1, <1>3, IsrHas
  <1>4. CASE GiveIsr
    <2>1. NoThread \in Users
      BY PtrFacts
    <2>2. /\ sem' = Given(sem) /\ (sem.kind # "Counting" => has[NoThread] > 0)
          /\ has' = [has EXCEPT ![NoThread] = IF sem.kind = "Counting" THEN @ ELSE @ - 1]
      BY <1>4 DEF GiveIsr
    <2> QED
      BY <1>1, <2>1, <2>2, GaveHas
  <1>5. ASSUME NEW t \in Threads, Give(t)
        PROVE  HasOK(sem', has')
    <2>1. t \in Users
      BY PtrFacts
    <2>2. /\ sem' = Given(sem) /\ (sem.kind # "Counting" => has[t] > 0)
          /\ has' = [has EXCEPT ![t] = IF sem.kind = "Counting" THEN @ ELSE @ - 1]
      BY <1>5 DEF Give, CanGive
    <2> QED
      BY <1>1, <2>1, <2>2, GaveHas
  <1>6. ASSUME NEW t \in Threads, NEW d, TakeRound(t, d), Runs(t)
        PROVE  HasOK(sem', has')
    <2>1. PICK r : r = TryTake(sem, c.k, t)
      OBVIOUS
    <2>2. sem' = r.sem /\ (r.ok => Took(t)) /\ (~r.ok => has' = has)
      BY <1>6, <2>1 DEF TakeRound, k
    <2>3. CASE r.ok
      BY <1>1, <2>1, <2>2, <2>3, TookHas
    <2>4. CASE ~r.ok
      <3>1. Before(c, t)
        BY <1>6, BeforeNow
      <3>2. r.sem = sem
        BY <2>1, <2>4, <3>1, TryTakeFacts
      <3> QED
        BY <2>2, <2>4, <3>2
    <2> QED
      BY <2>3, <2>4
  <1>7. ASSUME NEW t \in Threads, TakeReturn(t)
        PROVE  HasOK(sem', has')
    <2>1. PICK x : x = ClearDeadline(c)
      OBVIOUS
    <2>2. PICK r : r = TryTake(sem, x.k, t)
      OBVIOUS
    <2>3. /\ Runs(t) /\ call[t] = "take" /\ sem' = r.sem /\ (r.ok => Took(t))
          /\ ~r.ok => has' = has
          /\ lists' = IF InFuture(c) THEN lists ELSE [lists EXCEPT !["sem"] = Leave("sem", t)]
      BY <1>7, <2>1, <2>2 DEF TakeReturn
    <2>4. CASE r.ok
      BY <1>1, <2>2, <2>3, <2>4, TookHas
    <2>5. CASE ~r.ok
      <3>1. call[t] \in ListCalls /\ ListOf[call[t]] = "sem"
        BY <2>3, ListOfFacts
      <3>2. Before(x, t)
        BY <2>1, <2>3, <3>1, EndWait
      <3>3. r.sem = sem
        BY <2>2, <2>5, <3>2, TryTakeFacts
      <3> QED
        BY <2>3, <2>5, <3>3
    <2> QED
      BY <2>4, <2>5
  <1>8. ASSUME NEW t \in Threads, NEW d \in Deadlines \cup {Never}, Take(t, d) \/ TakeAgain(t)
        PROVE  HasOK(sem', has')
    BY <1>6, <1>8 DEF Take, TakeAgain, Calls
  <1>9. ASSUME NEW t \in Threads,
               \/ AcquireFree(t) \/ AcquireBlock(t) \/ AcquireReturn(t) \/ Release(t)
               \/ EventWait(t) \/ QueueWait(t) \/ WaitUntilReturn(t) \/ TakeGiveUp(t)
               \/ BlockOn(t) \/ Poll(t) \/ WaitWaker(t)
        PROVE  UNCHANGED <<sem, has>>
    BY <1>9 DEF AcquireFree, AcquireBlock, AcquireReturn, Release, EventWait, QueueWait,
       WaitUntilReturn, TakeGiveUp, BlockOn, Poll, WaitWaker
  <1>10. ASSUME NEW t \in Threads,
                \/ FutureReady(t) \/ FutureWake(t) \/ WakerDrop(t)
                \/ Return(t) \/ DoPark(t) \/ DoUnpark(t) \/ Exit(t)
         PROVE  UNCHANGED <<sem, has>>
    BY <1>10 DEF FutureReady, FutureWake, WakerDrop, Return, DoPark, DoUnpark, Exit
  <1>11. ASSUME NEW t \in Threads, NEW d \in Deadlines, WaitUntil(t, d) \/ SleepUntil(t, d)
         PROVE  UNCHANGED <<sem, has>>
    BY <1>11 DEF WaitUntil, SleepUntil
  <1>12. ASSUME \/ \E p \in Prios : BootCreate(p)
                \/ StartThreading \/ ContextSwitch \/ Tick \/ TimerInterrupt
                \/ EventSet \/ EventClear \/ NotifyOne \/ NotifyAll
         PROVE  UNCHANGED <<sem, has>>
    BY <1>12 DEF BootCreate, StartThreading, ContextSwitch, Tick, TimerInterrupt, EventSet,
       EventClear, NotifyOne, NotifyAll
  <1>13. CASE UNCHANGED vars
    BY <1>2, <1>13 DEF vars
  <1>14. CASE Next
    <2>1. ASSUME NEW t \in Threads, TakeAgain(t)
          PROVE  HasOK(sem', has')
      BY <1>8, <2>1
    <2> QED
      BY <1>2, <1>3, <1>4, <1>5, <1>7, <1>8, <1>9, <1>10, <1>11, <1>12, <1>14, <2>1 DEF Next
  <1> QED
    BY <1>13, <1>14

LEMMA InitHas == Init => HasOK(sem, has)
  <1> SUFFICES ASSUME Init PROVE HasOK(sem, has)
    OBVIOUS
  <1>1. PICK kind \in SemKinds : sem = NewSemaphore(kind) /\ has = [t \in Users |-> 0]
    BY DEF Init
  <1>2. sem.owner = NoOwner /\ sem.lock_counter = 0
    BY <1>1 DEF NewSemaphore
  <1>3. has \in [Users -> Nat] /\ \A v \in Users : has[v] = 0
    BY <1>1
  <1> QED
    BY <1>2, <1>3 DEF HasOK, Free

(* The invariant says what the properties say.                             *)
LEMMA SInvImplies ==
  ASSUME SInv
  PROVE  ListsExact /\ DeadlineArmed /\ NoLostGive /\ WakerHeard
  <1>1. ListsExact
    <2>1. \A t \in Threads : call[t] \in ListCalls /\ c.k.state[t] # Running =>
            In(lists[ListOf[call[t]]], t)
      BY Typed DEF Fine, ThreadOK, Where
    <2>2. ASSUME NEW q \in Prims, NEW i \in DOMAIN lists[q], NEW j \in DOMAIN lists[q]
          PROVE  LET t == lists[q][i]
                 IN  /\ call[t] \in ListCalls /\ ListOf[call[t]] = q
                     /\ c.k.state[t] = Running => call[t] \in Timed /\ c.deadline[t] = NoDeadline
                     /\ lists[q][j] = t => i = j
      <3>1. PICK t : t = lists[q][i]
        OBVIOUS
      <3>2. lists[q] \in Seq(Threads) /\ NoDup(lists[q]) /\ DOMAIN lists[q] = 1 .. Len(lists[q])
        BY Typed, ListFacts
      <3>3. t \in Threads /\ In(lists[q], t)
        BY <3>1, <3>2 DEF In
      <3>4. Fine(t) /\ q \in Where(lists, t)
        BY <3>3, Typed DEF Where
      <3>5. /\ call[t] \in ListCalls /\ ListOf[call[t]] = q
            /\ c.k.state[t] = Running => call[t] \in Timed /\ c.deadline[t] = NoDeadline
        BY <3>4 DEF Fine, ThreadOK
      <3>6. lists[q][j] = t => i = j
        BY <3>1, <3>2 DEF NoDup
      <3> QED
        BY <3>1, <3>5, <3>6
    <2>3. (isset => lists["event"] = <<>>) /\ (~locked => lists["lock"] = <<>>)
      BY DEF SInv, LockOK
    <2>4. Matches(c.k) /\ c.k.fault = "none"
      BY Typed DEF KInv
    <2> QED
      BY <2>1, <2>2, <2>3, <2>4 DEF ListsExact, k
  <1>2. DeadlineArmed
    <2>1. TimerOK(c) /\ c \in TimeoutsType(States)
      BY DEF SInv, TInv
    <2>2. ASSUME NEW t \in Threads, c.deadline[t] # NoDeadline
          PROVE  call[t] \in Timed /\ c.timer[t] = c.deadline[t] /\ c.alarm <= c.timer[t]
      <3>1. call[t] \in Timed
        BY <2>2, Typed DEF Fine, ThreadOK
      <3>2. c.timer[t] = c.deadline[t] /\ c.next_wakeup <= c.timer[t] /\ c.alarm <= c.next_wakeup
        BY <2>1, <2>2 DEF TimerOK
      <3>3. c.timer[t] \in Nat /\ c.alarm \in Nat /\ c.next_wakeup \in Nat
        BY <2>1, TimeFields
      <3> QED
        BY <3>1, <3>2, <3>3
    <2> QED
      BY <2>2 DEF DeadlineArmed
  <1>3. NoLostGive
    <2>1. ASSUME IF sem.kind = "Counting" THEN sem.current > 0 ELSE sem.owner = NoOwner,
                 NEW t \in Threads, call[t] = "take", c.k.state[t] # Running
          PROVE  \E u \in Threads : call[u] = "take" /\ c.k.state[u] = Running
      <3>1. Slots(sem) \in Nat /\ Slots(sem) > 0
        BY <2>1, SlotsType, Typed DEF Slots
      <3>2. TakerBlocked /\ GiveOK
        BY <2>1 DEF TakerBlocked, SInv
      <3>3. Cardinality(Ready) # 0
        BY <3>1, <3>2, ReadyFinite DEF GiveOK
      <3>4. Ready # {}
        BY <3>3, FS_EmptySet
      <3> QED
        BY <3>4 DEF Ready
    <2> QED
      BY <2>1 DEF NoLostGive, k
  <1>4. WakerHeard
    BY Typed DEF WakerHeard, Fine, ThreadOK, k
  <1> QED
    BY <1>1, <1>2, <1>3, <1>4

LEMMA ExclusiveHolds ==
  ASSUME SInv, HasOK(sem, has)
  PROVE  Exclusive
  <1>1. \A t \in holds : locked /\ holds = {t}
    BY DEF SInv, VarsOK, LockOK, Owner
  <1>2. \A t \in Threads : call[t] = "acquire" /\ c.k.state[t] = Running => locked /\ holds = {}
    BY DEF SInv, VarsOK, LockOK, Owner
  <1>3. \A u, v \in Users : has[u] > 0 /\ has[v] > 0 => u = v
    BY DEF HasOK, Free, TakenBy
  <1> QED
    BY <1>1, <1>2, <1>3 DEF Exclusive, k

(* The inductive invariant of threads that wait: state, list, deadline,    *)
(* waker flag and call of every thread agree (Fine), the timer queue and   *)
(* the alarm cover every deadline (TInv), and every semaphore slot that a  *)
(* blocked taker could have has a woken taker on its way (GiveOK).         *)
THEOREM SyncInvariant == ASSUME ~UnparkSleepers PROVE Spec => []SInv
  <1>1. SInv /\ [Next]_vars => SInv'
    BY NextInv
  <1> QED
    BY <1>1, InitInv, PTL DEF Spec

(* No wakeup of a list is lost and none is left behind, for any number of  *)
(* threads: sync/lock.rs, event.rs, wait_queue.rs and with_deadline.       *)
THEOREM ListsAlwaysExact == ASSUME ~UnparkSleepers PROVE Spec => []ListsExact
  <1>1. SInv => ListsExact
    BY SInvImplies
  <1> QED
    BY <1>1, SyncInvariant, PTL

(* A deadline belongs to the call that set it, and the timer queue and the *)
(* hardware timer know it (timeout.rs, the ThreadTimer's schedule_wake and *)
(* its interrupt handler).                                                 *)
THEOREM DeadlinesArmed == ASSUME ~UnparkSleepers PROVE Spec => []DeadlineArmed
  <1>1. SInv => DeadlineArmed
    BY SInvImplies
  <1> QED
    BY <1>1, SyncInvariant, PTL

(* No give of the CompatSemaphore is lost, also when takers time out.      *)
THEOREM GivesNotLost == ASSUME ~UnparkSleepers PROVE Spec => []NoLostGive
  <1>1. SInv => NoLostGive
    BY SInvImplies
  <1> QED
    BY <1>1, SyncInvariant, PTL

(* block_on does not sleep through its waker.                              *)
THEOREM WakersHeard == ASSUME ~UnparkSleepers PROVE Spec => []WakerHeard
  <1>1. SInv => WakerHeard
    BY SInvImplies
  <1> QED
    BY <1>1, SyncInvariant, PTL

(* One thread has the Lock and one thread or interrupt the mutex, provided *)
(* that interrupts use no recursive mutex: the pointer an interrupt takes  *)
(* one with is also that of thread 0.                                      *)
THEOREM LocksExclusive ==
  ASSUME ~UnparkSleepers, "RecursiveMutex" \notin IsrKinds
  PROVE  Spec => []Exclusive
  <1> DEFINE I == SInv /\ HasOK(sem, has)
  <1>1. Init => I
    BY InitInv, InitHas
  <1>2. I /\ [Next]_vars => I'
    BY NextInv, HasNext
  <1>3. I => Exclusive
    BY ExclusiveHolds
  <1> QED
    BY <1>1, <1>2, <1>3, PTL DEF Spec

=============================================================================
