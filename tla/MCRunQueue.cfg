\* Four threads over three priorities: lists of every length up to four,
\* deletions at the head, in the middle and at the tail.
CONSTANTS
  N_QUEUES = 3
  N_THREADS = 4
  USIZE_BITS = 32
SPECIFICATION SimSpec
INVARIANTS Represents GetNextCorrect FilterCorrect
PROPERTY ImplementsFifos
