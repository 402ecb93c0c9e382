\* Two cores, three threads of two priorities and the idle threads of the
\* lowest; one thread may be pinned to the second core.  The FIFO between the
\* cores holds one token: it is full as soon as one is on its way.
CONSTANTS
  N_QUEUES = 3
  N_THREADS = 5
  FifoDepth = 1
  Affinities <- AllOrOne
  Pinned = {0}
  ThreadPrios = {1, 2}
  EarlyWakes = FALSE
SPECIFICATION Spec
INVARIANTS RunnableOnce HighestRuns OneCallFollowed
