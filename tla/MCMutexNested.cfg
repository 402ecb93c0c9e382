\* A thread that takes a second mutex while it owns the first.
CONSTANTS
  N_QUEUES = 3
  N_THREADS = 2
  Flags = {}
  Mutexes = {"A", "B"}
SPECIFICATION Spec
INVARIANT OwnerInherits
CHECK_DEADLOCK FALSE
