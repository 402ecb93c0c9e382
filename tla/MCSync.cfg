\* Two threads at two priorities, interrupts, and systems that use a sleep
\* together with each other primitive, or two blocking primitives.
CONSTANTS
  N_QUEUES = 2
  N_THREADS = 2
  Flags = {0, 1}
  Profiles = {{"lock", "sleep"}, {"event", "sleep"}, {"queue", "park"}, {"block_on", "sleep"},
              {"sem", "sleep"}, {"queue", "lock"}}
  MaxTime = 3
  MaxSleep = 1
  Deadlines = {1, 2}
  UnparkSleepers = FALSE
  SemKinds = {"Counting", "Mutex", "RecursiveMutex"}
  MaxCount = 2
  IsrKinds = {"Counting", "Mutex"}
SPECIFICATION Spec
INVARIANTS Exclusive ListsExact NoLostGive DeadlineArmed WakerHeard
PROPERTY TimedWaitEnds
\* Every thread may have ended.
CHECK_DEADLOCK FALSE
