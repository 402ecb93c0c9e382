\* Two senders and a receiver.
CONSTANTS
  N_QUEUES = 2
  N_THREADS = 3
  Flags = {}
  Msgs = {"m1", "m2"}
  Senders = {0, 1}
  Receivers = {2}
  MoveWaiters = FALSE
SPECIFICATION Spec
PROPERTY ReceivedIsSent
