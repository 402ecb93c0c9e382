\* Four threads at two priorities, two that send and two that receive: lists
\* of senders and of receivers with more than one member.
CONSTANTS
  N_QUEUES = 2
  N_THREADS = 4
  Flags = {}
  Msgs = {"m"}
  Senders = {0, 1}
  Receivers = {2, 3}
  MoveWaiters = FALSE
SPECIFICATION Spec
INVARIANTS ListMatchesCalls ResultWritten
PROPERTIES ServedInOrder ImplementsRendezvous
