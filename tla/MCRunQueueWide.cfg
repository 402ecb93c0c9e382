CONSTANTS
  N_QUEUES = 32
  N_THREADS = 2
  USIZE_BITS = 32
SPECIFICATION SimSpec
INVARIANT FilterCorrect
