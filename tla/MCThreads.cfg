\* Three thread slots, two priorities, two flags: a thread to run, one to
\* preempt it and one to share its priority.
CONSTANTS
  N_QUEUES = 2
  N_THREADS = 3
  Flags = {0, 1}
  Masks <- TwoMasks
  StartPrios = {0}
SPECIFICATION Spec
INVARIANTS RunqueueMatches HighestRuns NoFault FlagWaitExact
PROPERTY Cooperative
