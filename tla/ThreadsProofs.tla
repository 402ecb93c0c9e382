---------------------------- MODULE ThreadsProofs ----------------------------
(***************************************************************************)
(* For every number of threads, priorities and flags: the single-core      *)
(* scheduler never loses or duplicates a runnable thread, always runs one  *)
(* of the highest priority, fails none of its assertions, and neither      *)
(* loses a thread flag nor wakes a thread for nothing.                     *)
(***************************************************************************)
EXTENDS Threads, SchedulerProofs

BlockMode(mode) == IF mode = "All" THEN "All" ELSE "Any"

(* The state of a thread inside a wait, in full: what FlagWaitExact needs  *)
(* to be inductive.                                                        *)
WaitOK(t) ==
  \/ /\ k.state[t] = Running
     /\ Satisfied(k.flags[t], pc[t][1], pc[t][2])
  \/ /\ k.state[t] = FlagBlocked(BlockMode(pc[t][1]), pc[t][2])
     /\ ~Satisfied(k.flags[t], pc[t][1], pc[t][2])

FlagInv ==
  \A t \in Threads : IF pc[t] = Idle THEN k.state[t] \in {Invalid, Running, Parked}
                                     ELSE WaitOK(t)

PcOK == pc \in [Threads -> Waits \cup {Idle}]

IInv == KInv(States, k) /\ PcOK /\ FlagInv

-----------------------------------------------------------------------------

(* The thread states are different.                                        *)
LEMMA StatesDiffer ==
  /\ Running # Invalid /\ Running # Parked /\ Parked # Invalid
  /\ {Invalid, Running, Parked} \subseteq States
  /\ Invalid[1] # "FlagBlocked" /\ Running[1] # "FlagBlocked" /\ Parked[1] # "FlagBlocked"
  /\ \A mode, mask : /\ FlagBlocked(mode, mask) # Running
                     /\ FlagBlocked(mode, mask) # Invalid
                     /\ FlagBlocked(mode, mask) # Parked
                     /\ FlagBlocked(mode, mask)[1] = "FlagBlocked"
                     /\ FlagBlocked(mode, mask)[2] = mode
                     /\ FlagBlocked(mode, mask)[3] = mask
  BY DEF Running, Invalid, Parked, FlagBlocked, States

(* What a thread inside a wait waits for.                                  *)
LEMMA WaitFacts ==
  /\ \A w \in Waits : w[1] \in {"All", "Any", "One"} /\ w[2] \in Masks /\ w # Idle
  /\ \A mode \in {"All", "Any", "One"}, mask \in Masks :
       /\ <<mode, mask>> \in Waits
       /\ <<mode, mask>>[1] = mode
       /\ <<mode, mask>>[2] = mask
       /\ FlagBlocked(BlockMode(mode), mask) \in States
       /\ mask \in SUBSET Flags
  BY MasksAssumption DEF Waits, Idle, BlockMode, States

(* The mode of the thread state decides like the mode of the call.         *)
LEMMA BlockModeFacts ==
  \A flags, mode, mask :
    mode \in {"All", "Any", "One"} =>
      (Satisfied(flags, BlockMode(mode), mask) <=> Satisfied(flags, mode, mask))
  BY DEF Satisfied, BlockMode

(* Setting more flags keeps a wait satisfied.                              *)
LEMMA SatisfiedMonotone ==
  \A flags, more, mode, mask :
    Satisfied(flags, mode, mask) => Satisfied(flags \cup more, mode, mask)
  BY DEF Satisfied

(* Typing of the scheduler's fields.                                       *)
LEMMA FieldTypes ==
  ASSUME IInv
  PROVE  /\ k.state \in [Threads -> States]
         /\ k.flags \in [Threads -> SUBSET Flags]
         /\ pc \in [Threads -> Waits \cup {Idle}]
  BY DEF IInv, KInv, SchedulerType, PcOK

(* FlagInv does not depend on anything but states, flags and pc.           *)
LEMMA FlagInvStutter ==
  ASSUME IInv, UNCHANGED pc, k'.state = k.state, k'.flags = k.flags
  PROVE  FlagInv' /\ PcOK'
  BY DEF IInv, FlagInv, WaitOK, PcOK

(* A thread outside any wait gets another state that is not FlagBlocked.   *)
LEMMA FlagInvState ==
  ASSUME IInv, UNCHANGED pc, NEW t \in Threads, pc[t] = Idle,
         NEW new \in {Invalid, Running, Parked},
         k'.state = [k.state EXCEPT ![t] = new], k'.flags = k.flags
  PROVE  FlagInv' /\ PcOK'
  <1>1. \A u \in Threads : k'.state[u] = IF u = t THEN new ELSE k.state[u]
    BY FieldTypes
  <1> QED
    BY <1>1 DEF IInv, FlagInv, WaitOK, PcOK

-----------------------------------------------------------------------------
(* Every action preserves the invariant.                                   *)

(* create, before and after threading has started.                         *)
LEMMA CreateKeeps ==
  ASSUME IInv, NEW p \in StartPrios, Unused(k) # {}, k' = Create(k, p), UNCHANGED pc
  PROVE  IInv'
  <1> DEFINE t == FirstUnused(k)
  <1>1. p \in Queues
    BY StartPriosAssumption DEF Prios
  <1>2. /\ t \in Threads
        /\ k.state[t] = Invalid
        /\ KInv(States, k')
        /\ k'.state = [k.state EXCEPT ![t] = Running]
        /\ k'.flags = k.flags
    <2>1. KInv(States, k) /\ Running \in States /\ Parked \in States
      BY StatesDiffer DEF IInv
    <2> QED
      BY <1>1, <2>1, CreateStep
  <1> HIDE DEF t
  <1>3. pc[t] = Idle
    BY <1>2, StatesDiffer DEF IInv, FlagInv, WaitOK
  <1>4. FlagInv' /\ PcOK'
    BY <1>2, <1>3, FlagInvState
  <1> QED
    BY <1>2, <1>4 DEF IInv

(* park and cleanup: the current thread, in no wait, leaves the runqueue.  *)
LEMMA StopKeeps ==
  ASSUME IInv, Calls, NEW new \in {Invalid, Parked}, k' = SetState(k, k.cur, new), UNCHANGED pc
  PROVE  IInv'
  <1>1. /\ KInv(States, k')
        /\ k'.state = [k.state EXCEPT ![k.cur] = new]
        /\ k'.flags = k.flags
        /\ k.cur \in Threads
    BY StopStep, CurrentFacts, StatesDiffer DEF IInv, Calls, Runs
  <1>2. FlagInv' /\ PcOK'
    BY <1>1, FlagInvState DEF Calls
  <1> QED
    BY <1>1, <1>2 DEF IInv

(* clear: the current thread, in no wait, drops flags of its own.          *)
LEMMA ClearKeeps ==
  ASSUME IInv, NEW mask \in Masks, DoClear(mask)
  PROVE  IInv'
  <1> DEFINE f == [k.flags EXCEPT ![k.cur] = @ \ mask]
  <1>1. k.cur \in Threads /\ pc[k.cur] = Idle
    BY CurrentFacts DEF IInv, DoClear, Calls, Runs
  <1>2. f \in [Threads -> SUBSET Flags] /\ \A u \in Threads : u # k.cur => f[u] = k.flags[u]
    BY <1>1, FieldTypes
  <1>3. k' = [k EXCEPT !.flags = f] /\ UNCHANGED pc
    BY DEF DoClear, FlagClear
  <1> HIDE DEF f
  <1>4. KInv(States, k') /\ k'.state = k.state /\ k'.flags = f
    BY <1>2, <1>3, FlagsStep DEF IInv
  <1>5. FlagInv' /\ PcOK'
    BY <1>1, <1>2, <1>3, <1>4 DEF IInv, FlagInv, WaitOK, PcOK
  <1> QED
    BY <1>4, <1>5 DEF IInv

(* A round of a wait: it returns with the flags it takes, or blocks.       *)
LEMMA WaitKeeps ==
  ASSUME IInv, NEW mode \in {"All", "Any", "One"}, NEW mask \in Masks, DoWait(mode, mask)
  PROVE  IInv'
  <1> DEFINE c == k.cur
             w == <<mode, mask>>
             sat == Satisfied(k.flags[c], mode, mask)
             f == [k.flags EXCEPT ![c] = @ \ Taken(@, mode, mask)]
             new == FlagBlocked(BlockMode(mode), mask)
  <1>1. c \in Threads /\ k.cur # NoThread /\ ~k.pend /\ k.state[c] = Running
    BY CurrentFacts DEF IInv, DoWait, Runs
  <1>2. w \in Waits /\ w # Idle /\ w[1] = mode /\ w[2] = mask /\ new \in States
    BY WaitFacts
  <1>3. pc' = [pc EXCEPT ![c] = IF sat THEN Idle ELSE w] /\ k' = FlagWait(k, mode, mask)
    BY DEF DoWait
  <1> HIDE DEF w
  <1>4. /\ PcOK'
        /\ pc'[c] = IF sat THEN Idle ELSE w
        /\ \A u \in Threads : u # c => pc'[u] = pc[u]
    BY <1>1, <1>2, <1>3, FieldTypes DEF PcOK
  <1>5. CASE sat
    <2>1. k' = [k EXCEPT !.flags = f]
      BY <1>3, <1>5 DEF FlagWait
    <2>2. f \in [Threads -> SUBSET Flags] /\ \A u \in Threads : u # c => f[u] = k.flags[u]
      BY <1>1, FieldTypes
    <2> HIDE DEF f
    <2>3. KInv(States, k') /\ k'.state = k.state /\ k'.flags = f
      BY <2>1, <2>2, FlagsStep DEF IInv
    <2>4. FlagInv'
      BY <1>1, <1>4, <1>5, <2>2, <2>3 DEF IInv, FlagInv, WaitOK
    <2> QED
      BY <1>4, <2>3, <2>4 DEF IInv
  <1>6. CASE ~sat
    <2>1. k' = SetState(k, c, new)
      BY <1>3, <1>6 DEF FlagWait, BlockMode
    <2>2. KInv(States, k') /\ k'.state = [k.state EXCEPT ![c] = new] /\ k'.flags = k.flags
      <3>1. new # Running
        BY StatesDiffer
      <3>2. new \in States
        BY <1>2
      <3> HIDE DEF new, f, sat
      <3> QED
        BY <1>1, <2>1, <3>1, <3>2, StopStep DEF IInv
    <2>3. \A u \in Threads : k'.state[u] = IF u = c THEN new ELSE k.state[u]
      BY <1>1, <2>2, FieldTypes
    <2>4. ASSUME NEW u \in Threads
          PROVE  IF pc'[u] = Idle THEN k'.state[u] \in {Invalid, Running, Parked} ELSE WaitOK(u)'
      <3>1. CASE u = c
        BY <1>2, <1>4, <1>6, <2>2, <2>3, <3>1 DEF WaitOK
      <3>2. CASE u # c
        BY <1>4, <2>2, <2>3, <3>2 DEF IInv, FlagInv, WaitOK
      <3> QED
        BY <3>1, <3>2
    <2> QED
      BY <1>4, <2>2, <2>4 DEF IInv, FlagInv
  <1> QED
    BY <1>5, <1>6

(* unpark of any thread; a thread in a flag wait stays as it is.           *)
LEMMA UnparkKeeps ==
  ASSUME IInv, NEW t \in Threads, DoUnpark(t)
  PROVE  IInv'
  <1>1. CASE k.state[t] # Parked
    BY <1>1, FlagInvStutter DEF DoUnpark, Unpark, IInv
  <1>2. CASE k.state[t] = Parked
    <2>1. k' = SetState(k, t, Running) /\ UNCHANGED pc
      BY <1>2 DEF DoUnpark, Unpark
    <2>2. /\ KInv(States, k')
          /\ k'.state = [k.state EXCEPT ![t] = Running]
          /\ k'.flags = k.flags
      BY <1>2, <2>1, WakeStep, StatesDiffer DEF IInv
    <2>3. pc[t] = Idle
      BY <1>2, StatesDiffer DEF IInv, FlagInv, WaitOK
    <2>4. FlagInv' /\ PcOK'
      BY <2>1, <2>2, <2>3, FlagInvState
    <2> QED
      BY <2>2, <2>4 DEF IInv
  <1> QED
    BY <1>1, <1>2

(* set of flags of any thread, which wakes it when its wait is satisfied.  *)
LEMMA FlagSetKeeps ==
  ASSUME IInv, NEW t \in Threads, NEW mask \in Masks, DoFlagSet(t, mask)
  PROVE  IInv'
  <1> DEFINE f == [k.flags EXCEPT ![t] = @ \cup mask]
             k1 == [k EXCEPT !.flags = f]
             st == k.state[t]
             wakes == st[1] = "FlagBlocked" /\ Satisfied(f[t], st[2], st[3])
  <1>1. mask \in SUBSET Flags
    BY WaitFacts
  <1>2. /\ f \in [Threads -> SUBSET Flags]
        /\ f[t] = k.flags[t] \cup mask
        /\ \A u \in Threads : u # t => f[u] = k.flags[u]
    BY <1>1, FieldTypes
  <1> HIDE DEF f
  <1>3. KInv(States, k1) /\ k1.state = k.state /\ k1.flags = f
    BY <1>2, FlagsStep DEF IInv
  <1>4. UNCHANGED pc /\ k' = IF wakes THEN SetState(k1, t, Running) ELSE k1
    BY <1>3 DEF DoFlagSet, FlagSet, f
  <1> HIDE DEF k1
  <1>5. PcOK'
    BY <1>4 DEF IInv, PcOK
  <1>6. pc[t] # Idle => /\ pc[t] \in Waits
                        /\ pc[t][1] \in {"All", "Any", "One"}
    BY FieldTypes, WaitFacts
  <1>7. CASE wakes
    <2>1. pc[t] # Idle /\ st # Running
      BY <1>7, StatesDiffer DEF IInv, FlagInv
    <2>2. st = FlagBlocked(BlockMode(pc[t][1]), pc[t][2])
      BY <2>1 DEF IInv, FlagInv, WaitOK
    <2>3. Satisfied(f[t], pc[t][1], pc[t][2])
      <3>1. st[2] = BlockMode(pc[t][1]) /\ st[3] = pc[t][2]
        BY <2>2, StatesDiffer
      <3> QED
        BY <1>6, <1>7, <2>1, <3>1, BlockModeFacts
    <2>4. KInv(States, k') /\ k'.state = [k.state EXCEPT ![t] = Running] /\ k'.flags = f
      BY <1>3, <1>4, <1>7, <2>1, WakeStep, StatesDiffer
    <2>5. \A u \in Threads : k'.state[u] = IF u = t THEN Running ELSE k.state[u]
      BY <2>4, FieldTypes
    <2>6. ASSUME NEW u \in Threads
          PROVE  IF pc'[u] = Idle THEN k'.state[u] \in {Invalid, Running, Parked} ELSE WaitOK(u)'
      <3>1. CASE u = t
        BY <1>4, <2>3, <2>4, <2>5, <3>1 DEF WaitOK
      <3>2. CASE u # t
        BY <1>2, <1>4, <2>4, <2>5, <3>2 DEF IInv, FlagInv, WaitOK
      <3> QED
        BY <3>1, <3>2
    <2> QED
      BY <1>5, <2>4, <2>6 DEF IInv, FlagInv
  <1>8. CASE ~wakes
    <2>1. KInv(States, k') /\ k'.state = k.state /\ k'.flags = f
      BY <1>3, <1>4, <1>8
    <2>2. pc[t] # Idle => WaitOK(t)'
      <3> SUFFICES ASSUME pc[t] # Idle PROVE WaitOK(t)'
        OBVIOUS
      <3> DEFINE a == pc[t][1]
                 b == pc[t][2]
      <3>1. WaitOK(t)
        BY DEF IInv, FlagInv
      <3>2. CASE st = Running /\ Satisfied(k.flags[t], a, b)
        <4>1. Satisfied(f[t], a, b)
          <5>1. Satisfied(k.flags[t] \cup mask, a, b)
            BY <3>2, SatisfiedMonotone, Zenon
          <5> QED
            BY <1>2, <5>1
        <4> QED
          BY <1>4, <2>1, <3>2, <4>1 DEF WaitOK
      <3>3. CASE st = FlagBlocked(BlockMode(a), b)
        <4>1. st[1] = "FlagBlocked" /\ st[2] = BlockMode(a) /\ st[3] = b
          BY <3>3, StatesDiffer
        <4>2. ~Satisfied(f[t], a, b)
          BY <1>6, <1>8, <4>1, BlockModeFacts
        <4> QED
          BY <1>4, <2>1, <3>3, <4>2 DEF WaitOK
      <3> QED
        BY <3>1, <3>2, <3>3 DEF WaitOK
    <2>3. ASSUME NEW u \in Threads
          PROVE  IF pc'[u] = Idle THEN k'.state[u] \in {Invalid, Running, Parked} ELSE WaitOK(u)'
      <3>1. CASE u = t
        BY <1>4, <2>1, <2>2, <3>1 DEF IInv, FlagInv
      <3>2. CASE u # t
        BY <1>2, <1>4, <2>1, <3>2 DEF IInv, FlagInv, WaitOK
      <3> QED
        BY <3>1, <3>2
    <2> QED
      BY <1>5, <2>1, <2>3 DEF IInv, FlagInv
  <1> QED
    BY <1>7, <1>8

-----------------------------------------------------------------------------

(* IInv is an invariant of the system.                                     *)
LEMMA Invariance == Spec => []IInv
  <1>1. Init => IInv
    <2> SUFFICES ASSUME Init PROVE IInv
      OBVIOUS
    <2>1. KInv(States, k) /\ PcOK
      BY NewSchedulerFacts, StatesDiffer DEF Init, PcOK
    <2>2. FlagInv
      BY DEF Init, FlagInv, NewScheduler
    <2> QED
      BY <2>1, <2>2 DEF IInv
  <1>2. IInv /\ [Next]_vars => IInv'
    <2> SUFFICES ASSUME IInv, [Next]_vars PROVE IInv'
      OBVIOUS
    <2>1. CASE StartThreading
      BY <2>1, ScheduleStep, FlagInvStutter DEF StartThreading, IInv
    <2>2. CASE ContextSwitch
      BY <2>2, SchedStep, FlagInvStutter DEF ContextSwitch, IInv
    <2>3. CASE DoCleanup
      BY <2>3, StopKeeps DEF DoCleanup, Cleanup
    <2>4. CASE DoYield
      BY <2>4, YieldStep, FlagInvStutter DEF DoYield, Calls, Runs, IInv
    <2>5. CASE DoPark
      BY <2>5, StopKeeps DEF DoPark, Park
    <2>6. CASE \E p \in StartPrios : BootCreate(p) \/ DoCreate(p)
      BY <2>6, CreateKeeps DEF BootCreate, DoCreate
    <2>7. CASE \E mask \in Masks : DoClear(mask)
      BY <2>7, ClearKeeps
    <2>8. CASE \E mask \in Masks, mode \in {"All", "Any", "One"} : DoWait(mode, mask)
      BY <2>8, WaitKeeps
    <2>9. CASE \E t \in Threads : DoUnpark(t)
      BY <2>9, UnparkKeeps
    <2>10. CASE \E t \in Threads, mask \in Masks : DoFlagSet(t, mask)
      BY <2>10, FlagSetKeeps
    <2>11. CASE \E t \in Threads, p \in Prios : DoSetPriority(t, p)
      <3>1. PICK t \in Threads, p \in Queues : DoSetPriority(t, p)
        BY <2>11 DEF Prios
      <3> QED
        BY <3>1, SetPriorityStep, FlagInvStutter DEF DoSetPriority, IInv
    <2>12. CASE UNCHANGED vars
      BY <2>12, FlagInvStutter DEF vars, IInv
    <2> QED
      BY <2>1, <2>2, <2>3, <2>4, <2>5, <2>6, <2>7, <2>8, <2>9, <2>10, <2>11, <2>12 DEF Next
  <1> QED
    BY <1>1, <1>2, PTL DEF Spec

(* The fields of the scheduler keep their types under every sequence of    *)
(* API calls.                                                              *)
THEOREM TypeCorrect == Spec => []TypeOK
  <1>1. IInv => TypeOK
    BY DEF IInv, KInv, PcOK, TypeOK
  <1> QED
    BY <1>1, Invariance, PTL

(* The runqueue holds exactly the runnable threads, each once and at its   *)
(* current priority.                                                       *)
THEOREM RunqueueIsRunnableThreads == Spec => []RunqueueMatches
  <1>1. IInv => RunqueueMatches
    BY DEF IInv, KInv, RunqueueMatches
  <1> QED
    BY <1>1, Invariance, PTL

(* The thread that runs is the oldest of the highest priority.             *)
THEOREM HighestPriorityRuns == Spec => []HighestRuns
  <1>1. IInv => HighestRuns
    BY DEF IInv, KInv, HighestRuns
  <1> QED
    BY <1>1, Invariance, PTL

(* set_state and pop_head are only called as their assertions demand, and  *)
(* add never for a thread of another runqueue.                             *)
THEOREM NoAssertionFails == Spec => []NoFault
  <1>1. IInv => NoFault
    BY DEF IInv, KInv, NoFault
  <1> QED
    BY <1>1, Invariance, PTL

(* A thread in wait_all, wait_any or wait_one is runnable exactly when its *)
(* flags satisfy the wait.                                                 *)
THEOREM FlagsNeitherLostNorSpurious == Spec => []FlagWaitExact
  <1>1. IInv => FlagWaitExact
    <2> SUFFICES ASSUME IInv, NEW t \in Threads, pc[t] # Idle
                 PROVE  k.state[t] = Running <=> Satisfied(k.flags[t], pc[t][1], pc[t][2])
      BY DEF FlagWaitExact
    <2>1. WaitOK(t)
      BY DEF IInv, FlagInv
    <2> QED
      BY <2>1, StatesDiffer DEF WaitOK
  <1> QED
    BY <1>1, Invariance, PTL

-----------------------------------------------------------------------------
(* Within one priority.                                                    *)

(* Every call but yield_same leaves the head of each runqueue in place,    *)
(* unless it takes the thread off that runqueue.                           *)
LEMMA OnlyYieldDisplaces ==
  ASSUME IInv, Next, ~DoYield
  PROVE  HeadsKept(k, k')
  <1>1. CASE StartThreading
    BY <1>1, ScheduleStep DEF StartThreading, IInv
  <1>2. CASE ContextSwitch
    BY <1>2, SchedStep DEF ContextSwitch, IInv
  <1>3. CASE DoCleanup \/ DoPark
    <2>1. PICK new \in {Invalid, Parked} : k' = SetState(k, k.cur, new)
      BY <1>3 DEF DoCleanup, Cleanup, DoPark, Park
    <2>2. k.cur # NoThread /\ ~k.pend
      BY <1>3 DEF DoCleanup, DoPark, Calls, Runs
    <2> QED
      <3>1. new \in States /\ new # Running
        BY StatesDiffer
      <3> QED
        BY <2>1, <2>2, <3>1, StopStep DEF IInv
  <1>4. CASE \E p \in StartPrios : BootCreate(p) \/ DoCreate(p)
    <2>1. PICK p \in Queues : Unused(k) # {} /\ k' = Create(k, p)
      BY <1>4, StartPriosAssumption DEF BootCreate, DoCreate, Prios
    <2>2. KInv(States, k) /\ Running \in States /\ Parked \in States
      BY StatesDiffer DEF IInv
    <2> QED
      BY <2>1, <2>2, CreateStep
  <1>5. CASE \E mask \in Masks : DoClear(mask)
    <2>1. PICK mask \in Masks : DoClear(mask)
      BY <1>5
    <2> DEFINE f == [k.flags EXCEPT ![k.cur] = @ \ mask]
    <2>2. f \in [Threads -> SUBSET Flags]
      BY <2>1, FieldTypes, CurrentFacts DEF IInv, DoClear, Calls, Runs
    <2>3. k' = [k EXCEPT !.flags = f]
      BY <2>1 DEF DoClear, FlagClear
    <2> HIDE DEF f
    <2> QED
      BY <2>2, <2>3, FlagsStep DEF IInv
  <1>6. CASE \E mask \in Masks, mode \in {"All", "Any", "One"} : DoWait(mode, mask)
    <2>1. PICK mask \in Masks, mode \in {"All", "Any", "One"} : DoWait(mode, mask)
      BY <1>6
    <2>2. k.cur \in Threads /\ k.cur # NoThread /\ ~k.pend
      BY <2>1, CurrentFacts DEF IInv, DoWait, Runs
    <2>3. CASE Satisfied(k.flags[k.cur], mode, mask)
      <3> DEFINE f == [k.flags EXCEPT ![k.cur] = @ \ Taken(@, mode, mask)]
      <3>1. f \in [Threads -> SUBSET Flags]
        BY <2>2, FieldTypes
      <3>2. k' = [k EXCEPT !.flags = f]
        BY <2>1, <2>3 DEF DoWait, FlagWait
      <3> HIDE DEF f
      <3> QED
        BY <3>1, <3>2, FlagsStep DEF IInv
    <2>4. CASE ~Satisfied(k.flags[k.cur], mode, mask)
      <3> DEFINE new == FlagBlocked(BlockMode(mode), mask)
      <3>1. k' = SetState(k, k.cur, new)
        BY <2>1, <2>4 DEF DoWait, FlagWait, BlockMode
      <3>2. new \in States
        BY WaitFacts
      <3>3. new # Running
        BY StatesDiffer
      <3> HIDE DEF new
      <3> QED
        BY <2>2, <3>1, <3>2, <3>3, StopStep DEF IInv
    <2> QED
      BY <2>3, <2>4
  <1>7. CASE \E t \in Threads : DoUnpark(t)
    <2>1. PICK t \in Threads : DoUnpark(t)
      BY <1>7
    <2>2. CASE k.state[t] = Parked
      BY <2>1, <2>2, WakeStep, StatesDiffer DEF IInv, DoUnpark, Unpark
    <2>3. CASE k.state[t] # Parked
      BY <2>1, <2>3 DEF DoUnpark, Unpark, HeadsKept
    <2> QED
      BY <2>2, <2>3
  <1>8. CASE \E t \in Threads, mask \in Masks : DoFlagSet(t, mask)
    <2>1. PICK t \in Threads, mask \in Masks : DoFlagSet(t, mask)
      BY <1>8
    <2> DEFINE f == [k.flags EXCEPT ![t] = @ \cup mask]
               k1 == [k EXCEPT !.flags = f]
               st == k.state[t]
               wakes == st[1] = "FlagBlocked" /\ Satisfied(f[t], st[2], st[3])
    <2>2. f \in [Threads -> SUBSET Flags]
      BY WaitFacts, FieldTypes
    <2> HIDE DEF f
    <2>3. /\ KInv(States, k1)
          /\ k1.state = k.state
          /\ k1.flags = f
          /\ k1.rq = k.rq
          /\ HeadsKept(k, k1)
      BY <2>2, FlagsStep DEF IInv
    <2>4. k' = IF wakes THEN SetState(k1, t, Running) ELSE k1
      BY <2>1, <2>3 DEF DoFlagSet, FlagSet, f
    <2> HIDE DEF k1
    <2>5. CASE wakes
      <3>1. HeadsKept(k1, k')
        BY <2>3, <2>4, <2>5, WakeStep, StatesDiffer
      <3> QED
        BY <2>3, <3>1 DEF HeadsKept
    <2> QED
      BY <2>3, <2>4, <2>5
  <1>9. CASE \E t \in Threads, p \in Prios : DoSetPriority(t, p)
    <2>1. PICK t \in Threads, p \in Queues : DoSetPriority(t, p)
      BY <1>9 DEF Prios
    <2> QED
      BY <2>1, SetPriorityStep DEF DoSetPriority, IInv
  <1> QED
    BY <1>1, <1>2, <1>3, <1>4, <1>5, <1>6, <1>7, <1>8, <1>9 DEF Next

(* Whatever the threads and the interrupt handlers call, a runnable thread *)
(* at the head of its priority stays there until it calls yield_same.      *)
THEOREM SchedulingIsCooperative == Spec => Cooperative
  <1> DEFINE Step == \A p \in Prios : Displaced(p) => DoYield /\ p = k.prio[k.cur]
  <1>1. IInv /\ [Next]_vars => [Step]_vars
    <2> SUFFICES ASSUME IInv, Next, NEW p \in Queues, Displaced(p)
                 PROVE  DoYield /\ p = k.prio[k.cur]
      BY DEF Prios
    <2>1. DoYield
      BY OnlyYieldDisplaces DEF HeadsKept, Displaced
    <2>2. \A r \in Queues : r # k.prio[k.cur] => k'.rq[r] = k.rq[r]
      BY <2>1, YieldStep DEF DoYield, Calls, Runs, IInv
    <2> QED
      BY <2>1, <2>2 DEF Displaced
  <1> QED
    BY <1>1, Invariance, PTL DEF Spec, Cooperative
=============================================================================
