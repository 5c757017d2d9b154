SPECIFICATION Spec
CONSTANTS
  t1 = t1
  t2 = t2
  r1 = r1
  r2 = r2
  k1 = k1
  k2 = k2
  iccid = iccid
  imsi = imsi
  NoPeer = NoPeer
  NoIp = NoIp
  None = None
  Tokens = {t1, t2}
  Requests = {r1, r2}
  Keys = {k1, k2}
  Ips = {i1}
  Jobs = {j1, j2}
  Names = {n1}
  MaxRows = 1
  Sessions = {s1, s2}
  MoatTokens = {m1}
  Conns = {c1}
  Idents <- SimIdents
  Offered <- OfferedSims
  Interval = 1
  OfflineFor = 3
  MaxTime = 3
  Polls = {h1}
  Commands = {"exit", "git_pull"}
CHECK_DEADLOCK FALSE
INVARIANT SavedFollowsLive
INVARIANT ActiveHasConfig
INVARIANT PeersAreLogged
INVARIANT IdentityHolds
INVARIANT StatusesTile
INVARIANT OutageReported
PROPERTY SilenceNoticed
