SPECIFICATION StableSpec
CONSTANTS
  a = a
  b = b
  c1 = c1
  c2 = c2
  q1 = q1
  q2 = q2
  None = None
  Providers = {a}
  Conns = {c1}
  Probes = {q1}
  NoWait = {}
  MaxQueueSize = 1
  Owner <- OneProvider
INVARIANT DeclinedIsClosed
\* Connections and probes are used up: the server may run out of clients.
CHECK_DEADLOCK FALSE
