\* Three threads at three priorities (low, middle, high) and one mutex.
CONSTANTS
  N_QUEUES = 3
  N_THREADS = 3
  Flags = {}
  Mutexes = {"A"}
SPECIFICATION Spec
INVARIANTS MutexSound OwnerInherits PriorityRestored
PROPERTY NoInversion
