-------------------------------- MODULE Native --------------------------------
(***************************************************************************)
(* The native port: arch/native.rs and its critical section.  Each thread  *)
(* is a host thread; instead of a runqueue there is a word per thread,     *)
(* THREAD_RUNNABLE, on which the host thread sleeps when it leaves a       *)
(* critical section in which it has blocked.                               *)
(*                                                                         *)
(*   w.state[t]     the state of thread t                                  *)
(*   w.runnable[t]  THREAD_RUNNABLE[t]                                     *)
(*   w.cs           the host thread in the critical section, or Nobody     *)
(*   w.slot[i]      ThreadData::ID of host thread i, or Nobody             *)
(*   w.pc[i]        where host thread i is: "none" before it is spawned,   *)
(*                  "run" in the code of the application                   *)
(*   w.target[i]    the thread that i makes runnable in set_running        *)
(*   w.ends[i]      the closure of i has done everything but its last wait *)
(***************************************************************************)
EXTENDS Naturals

CONSTANTS Slots,           \* thread IDs: 0 .. THREAD_COUNT - 1
          Hosts,           \* host threads that can be spawned, as numbers
          ReuseSlots,      \* create may be called after a thread has ended
          SpuriousWakes    \* atomic_wait::wait may return without a wake

VARIABLE w

Nobody == 99
Main == 0        \* the process's first thread; has no thread ID
All == Hosts \cup {Main}

Init ==
  w = [state |-> [t \in Slots |-> "Invalid"], runnable |-> [t \in Slots |-> 0],
       cs |-> Nobody, slot |-> [i \in All |-> Nobody],
       pc |-> [i \in All |-> IF i = Main THEN "run" ELSE "none"],
       target |-> [i \in All |-> Nobody], ends |-> [i \in All |-> FALSE]]

At(i, pc) == w.pc[i] = pc

-----------------------------------------------------------------------------
(* ArielCriticalSection::acquire and release.  A thread that has an ID     *)
(* waits for its word after it has left the critical section.              *)
Acquire(i) ==
  /\ At(i, "run")
  /\ w.cs = Nobody
  /\ w' = [w EXCEPT !.cs = i, !.pc[i] = "cs"]

Release(i) ==
  /\ At(i, "leave")
  /\ w' = [w EXCEPT !.cs = Nobody, !.pc[i] = IF w.slot[i] = Nobody THEN "run" ELSE "wait"]

(* Where host thread i goes on after it has waited.                        *)
Resumed(i) == IF w.ends[i] THEN "end" ELSE "run"

(* atomic_wait::wait(&THREAD_RUNNABLE[id], 0), external: sleeps if the     *)
(* word is 0, in one step.                                                 *)
Wait(i) ==
  /\ At(i, "wait")
  /\ \E pc \in IF w.runnable[w.slot[i]] # 0 THEN {Resumed(i)}
                ELSE IF SpuriousWakes THEN {"asleep", Resumed(i)} ELSE {"asleep"} :
       w' = [w EXCEPT !.pc[i] = pc]

-----------------------------------------------------------------------------
(* Mutant: the sleeper is woken if the word was set before.                *)
SetRunningWasSet(i, t) ==
  [w EXCEPT !.state[t] = "Running", !.runnable[t] = 1, !.target[i] = t,
            !.pc[i] = IF w.runnable[t] = 1 THEN "wake" ELSE "leave"]

(* set_state to Running with set_running: the word is swapped, and a       *)
(* sleeper is woken if it was 0.                                           *)
SetRunning(i, t) ==
  [w EXCEPT !.state[t] = "Running", !.runnable[t] = 1, !.target[i] = t,
            !.pc[i] = IF w.runnable[t] = 0 THEN "wake" ELSE "leave"]

(* atomic_wait::wake_one, external: one of the sleepers, if any.           *)
WakeOne(i) ==
  LET sleepers == {j \in Hosts : At(j, "asleep") /\ w.slot[j] = w.target[i]}
  IN  /\ At(i, "wake")
      /\ IF sleepers = {} THEN w' = [w EXCEPT !.pc[i] = "leave"]
         ELSE \E j \in sleepers : w' = [w EXCEPT !.pc[i] = "leave", !.pc[j] = Resumed(j)]

(* set_state of the own thread to something else, with set_stopped: park   *)
(* and what blocks, and the end of the thread's closure.                   *)
Stopped(i, new) ==
  [w EXCEPT !.state[w.slot[i]] = new, !.runnable[w.slot[i]] = 0, !.pc[i] = "leave"]

Park(i) == At(i, "cs") /\ i # Main /\ w' = Stopped(i, "Parked")
Exit(i) == At(i, "cs") /\ i # Main /\ w' = [Stopped(i, "Invalid") EXCEPT !.ends[i] = TRUE]

(* unpark, also from host threads without an ID (the timer's).             *)
Unpark(i, t) == At(i, "cs") /\ w.state[t] = "Parked" /\ w' = SetRunning(i, t)

(* Any other call: the thread stays runnable.                              *)
Other(i) == At(i, "cs") /\ w' = [w EXCEPT !.pc[i] = "leave"]

(* create: setup_stack spawns a host thread, which waits for its word; the *)
(* creator then sets the thread Running, in the same critical section.     *)
Create(i) ==
  LET unused == {t \in Slots : w.state[t] = "Invalid"}
      t == CHOOSE t \in unused : \A u \in unused : t <= u
      fresh == {j \in Hosts : At(j, "none")}
  IN  /\ At(i, "cs") /\ unused # {} /\ fresh # {}
      /\ ReuseSlots \/ \A j \in Hosts : w.slot[j] # t
      /\ LET j == CHOOSE j \in fresh : \A g \in fresh : j <= g
         IN  w' = [w EXCEPT !.state[t] = "Parked", !.slot[j] = t, !.pc[j] = "wait",
                            !.target[i] = t, !.pc[i] = "created"]

Created(i) == At(i, "created") /\ w' = SetRunning(i, w.target[i])

(* start_threading, in a loop that parks in between: every runnable thread *)
(* is set running, if create has not done it.                              *)
StartThreading ==
  /\ At(Main, "cs")
  /\ w' = [w EXCEPT !.runnable = [t \in Slots |-> IF w.state[t] = "Running" THEN 1 ELSE @[t]],
                    !.pc = [i \in All |->
                              IF i = Main THEN "leave"
                              ELSE IF /\ At(i, "asleep") /\ w.state[w.slot[i]] = "Running"
                                      /\ w.runnable[w.slot[i]] = 0
                                   THEN Resumed(i) ELSE @[i]]]

Step(i) ==
  \/ Acquire(i) \/ Release(i) \/ Wait(i) \/ WakeOne(i)
  \/ Park(i) \/ Exit(i) \/ Other(i) \/ Create(i) \/ Created(i)
  \/ \E t \in Slots : Unpark(i, t)

Next == StartThreading \/ \E i \in All : Step(i)

-----------------------------------------------------------------------------
(* "In the wrapped critical section, on release(), [...] we block the      *)
(* thread on its AtomicLock": a thread runs on only while it is runnable,  *)
(* on one host thread; and a host thread that sleeps on a word that is set *)
(* is about to be woken.                                                   *)
NativeRuns ==
  \A i \in Hosts :
    /\ At(i, "run") => /\ w.state[w.slot[i]] = "Running"
                       /\ \A j \in Hosts \ {i} : At(j, "run") => w.slot[j] # w.slot[i]
    /\ At(i, "asleep") /\ w.runnable[w.slot[i]] = 1 =>
         \E j \in All : At(j, "wake") /\ w.target[j] = w.slot[i]
=============================================================================
