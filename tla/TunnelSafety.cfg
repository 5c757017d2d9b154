SPECIFICATION Spec
CONSTANTS
  a = a
  b = b
  c1 = c1
  c2 = c2
  q1 = q1
  q2 = q2
  None = None
  Providers = {a}
  Conns = {c1, c2}
  Probes = {q1, q2}
  NoWait = {q2}
  MaxQueueSize = 2
  Owner <- OneProvider
INVARIANT SingleHolder
INVARIANT HolderState
INVARIANT Accounted
INVARIANT NoLostWakeup
PROPERTY AnsweredOnce
\* Connections and probes are used up: the server may run out of clients.
CHECK_DEADLOCK FALSE
