\* Batches of two transactions and a queue for one, so that it runs full.  The
\* node may be closed at any time, which ends the behaviour: CHECK_DEADLOCK FALSE.
SPECIFICATION SpecBroadcast
CONSTANTS
  TxHashes = {h1, h2}
  Callers = {c1}
  Worker = w
  Nobody = none
  QueueSize = 1
  MaxBatch = 2
INVARIANT ReservationsExact
PROPERTIES InsertReturns ReservationsEnd
CHECK_DEADLOCK FALSE
