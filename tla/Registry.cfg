SPECIFICATION Spec
CONSTANTS
  a = a
  b = b
  r = r
  s = s
  i = i
  j = j
  iccid = iccid
  imsi = imsi
  full = full
  bare = bare
  blank = blank
  None = None
  Requests = {r, s}
  Providers = {a, b}
  Ids = {i, j}
  Cards = {full, blank}
  Protected = {b}
  Iccid <- CardIccid
  Imsi <- CardImsi
SYMMETRY Symmetry
INVARIANT OneOffer
INVARIANT OffererIsKnown
PROPERTY OfferedIsListed
