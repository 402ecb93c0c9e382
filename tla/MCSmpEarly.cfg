\* As MCSmp.cfg, two threads; a wakeup may come before the context switch.
CONSTANTS
  N_QUEUES = 2
  N_THREADS = 4
  FifoDepth = 1
  Affinities <- AllOrOne
  Pinned = {}
  ThreadPrios = {1}
  EarlyWakes = TRUE
SPECIFICATION Spec
INVARIANTS NotOnTwoCores
