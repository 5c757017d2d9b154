SPECIFICATION ClientsSpec
CONSTANTS
  a = a
  b = b
  c1 = c1
  c2 = c2
  q1 = q1
  q2 = q2
  None = None
  Providers = {a}
  Conns = {c1, c2}
  Probes = {q1}
  NoWait = {}
  MaxQueueSize = 1
  Owner <- OneProvider
  serial = serial
  reader = reader
  sim1 = sim1
  sim2 = sim2
  t1card = t1card
  noIccid = noIccid
  empty = empty
  Serials = {serial}
  Readers = {reader}
  Sims = {sim1, sim2}
  T1Cards = {t1card}
  Blank = noIccid
  Empty = empty
  FailLimit = 0
  MaxListed = 2
  MaxPlugs = 1
  MaxRequests = 1
  Token <- SampleToken
  Idents <- SampleIdents
  Payloads <- SamplePackets
  MaxPackets = 2
INVARIANT RightSim
INVARIANT ServerKnows
INVARIANT Delivered
PROPERTY HandedIsSettled
PROPERTY DisconnectNoticed
\* Connections and probes are used up: the server may run out of clients, and
\* a provider stops after errors.
CHECK_DEADLOCK FALSE
