\* A pool of three contexts, one request at a time; peers choose an identifier
\* that the server would choose second.
CONSTANTS
  MAX_CONTEXTS = 3
  MaxInFlight = 1
  MaxTime = 1
  NoExp = 99
  PeerIds = {1}
  Policies = {"demo", "as", "stored"}
  TokenOf <- MCTokenOf
\* A panic stops the server: the panic handler never returns.
CHECK_DEADLOCK FALSE
SPECIFICATION Spec
INVARIANTS PoolSound Authorized ResponseProtected
PROPERTY EvictsLowest
