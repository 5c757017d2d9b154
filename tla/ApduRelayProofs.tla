--------------------------- MODULE ApduRelayProofs ---------------------------
(***************************************************************************)
(* The relay for any number of packets: the log is complete and causal,    *)
(* and each direction of a tunnel is the channel DuplexChannel promises.   *)
(***************************************************************************)
EXTENDS ApduRelay, FiniteSetTheorems, TLAPS

-----------------------------------------------------------------------------
(***************************************************************************)
(* The inductive invariant                                                 *)
(***************************************************************************)

\* Where the handler and the receiving tasks can be at the same time.
StageInv ==
  /\ hpc = "log" => rd[cur] = "packet"
  /\ ~Up => \A s \in Sides : rd[s] = "cancelled"

\* Nothing is duplicated: what is under way to a side and what it has received
\* is no more than what the other has sent.
FlowInv ==
  \A s \in Sides :
    /\ Len(got[s]) + Len(out[s]) + Len(sendq[s]) + Len(hand[Other(s)]) + Len(inq[Other(s)]) <= Len(sent[Other(s)])
    /\ Len(sent[s]) <= MaxApdus[s]

Count(l, s) == Cardinality(RowsOf(l, s))

\* What the server has taken over for a side, while its transport lives.
Passed(g, o, q, w) == IF w = "closed" THEN g ELSE g \o o \o q

\* It is what was logged, and all of it unless the transport is closed.
LoggedTo(l, s, w, passed) ==
  /\ Len(passed) <= Count(l, s)
  /\ w # "closed" => Len(passed) = Count(l, s)
  /\ \A n \in DOMAIN passed : IsRow(l, s, n, passed[n])

LogInv ==
  \A s \in Sides :
    /\ wst[s] = "closed" => out[s] = <<>>
    /\ LoggedTo(log, Other(s), wst[s], Passed(got[s], out[s], sendq[s], wst[s]))

\* A packet of s that is not logged yet: all that its sender had received is.
Caused(p, l, s) == p.from = s /\ p.after <= Count(l, Other(s))

CauseInv ==
  /\ LogCausal
  /\ \A s \in Sides :
       /\ \A i \in DOMAIN inq[s] : Caused(inq[s][i], log, s)
       /\ \A i \in DOMAIN hand[s] : Caused(hand[s][i], log, s)

IInv == TypeOK /\ StageInv /\ FlowInv /\ LogInv /\ CauseInv

-----------------------------------------------------------------------------
(***************************************************************************)
(* Lemmas about sides, packets and the log                                 *)
(***************************************************************************)

LEMMA TwoSides ==
  \A s \in Sides : /\ Other(s) \in Sides /\ Other(s) # s /\ Other(Other(s)) = s
                   /\ \A t \in Sides : t # s => t = Other(s)
BY DEF Sides, Other

LEMMA PacketType ==
  ASSUME NEW p \in Packets
  PROVE  p.from \in Sides /\ p.after \in Nat /\ p.n \in Nat
<1>1. PICK s \in Sides : p \in [from : {s}, n : 1 .. MaxApdus[s], after : 0 .. MaxApdus[Other(s)]]
  BY DEF Packets
<1> QED
  BY <1>1, TwoSides, RelayAssumption

LEMMA NewPacket ==
  ASSUME NEW s \in Sides, NEW n \in 1 .. MaxApdus[s], NEW a \in 0 .. MaxApdus[Other(s)]
  PROVE  [from |-> s, n |-> n, after |-> a] \in Packets
BY DEF Packets

\* Subsets of a log's places are finite.
LEMMA PlacesFinite ==
  ASSUME NEW l \in Seq(Packets), NEW T \in SUBSET DOMAIN l
  PROVE  IsFiniteSet(T) /\ Cardinality(T) \in Nat
<1>1. DOMAIN l = 1 .. Len(l) /\ Len(l) \in Nat
  OBVIOUS
<1>2. IsFiniteSet(1 .. Len(l))
  BY <1>1, FS_Interval
<1>3. IsFiniteSet(T)
  BY <1>1, <1>2, FS_Subset
<1> QED
  BY <1>3, FS_CardinalityType

LEMMA CountType ==
  ASSUME NEW l \in Seq(Packets), NEW s
  PROVE  IsFiniteSet(RowsOf(l, s)) /\ Count(l, s) \in Nat
BY PlacesFinite DEF RowsOf, Count

\* A new row counts for its sender and takes the next number; the numbers of the
\* others stay.
LEMMA AppendRow ==
  ASSUME NEW l \in Seq(Packets), NEW p \in Packets, NEW s
  PROVE  /\ Count(Append(l, p), s) = IF p.from = s THEN Count(l, s) + 1 ELSE Count(l, s)
         /\ \A n, r : IsRow(l, s, n, r) => IsRow(Append(l, p), s, n, r)
         /\ p.from = s => IsRow(Append(l, p), s, Count(l, s) + 1, p)
<1> DEFINE m == Append(l, p)
           k == Len(l) + 1
<1>1. /\ DOMAIN l = 1 .. Len(l) /\ Len(l) \in Nat /\ DOMAIN m = 1 .. k /\ m[k] = p
      /\ \A j \in DOMAIN l : m[j] = l[j]
  OBVIOUS
<1> HIDE DEF m
<1>2. RowsOf(m, s) = IF p.from = s THEN RowsOf(l, s) \cup {k} ELSE RowsOf(l, s)
  BY <1>1 DEF RowsOf
<1>3. RowsOf(l, s) \subseteq 1 .. Len(l) /\ k \notin RowsOf(l, s)
  BY <1>1 DEF RowsOf
<1>4. Count(m, s) = IF p.from = s THEN Count(l, s) + 1 ELSE Count(l, s)
  BY <1>2, <1>3, CountType, FS_AddElement DEF Count
<1>5. ASSUME NEW n, NEW r, IsRow(l, s, n, r) PROVE IsRow(m, s, n, r)
  <2>1. PICK j \in RowsOf(l, s) : l[j] = r /\ Cardinality({i \in RowsOf(l, s) : i <= j}) = n
    BY <1>5 DEF IsRow
  <2>2. {i \in RowsOf(m, s) : i <= j} = {i \in RowsOf(l, s) : i <= j}
    BY <1>1, <1>2, <1>3
  <2>3. j \in RowsOf(m, s) /\ m[j] = r
    BY <1>1, <1>2, <1>3, <2>1
  <2> QED
    BY <2>1, <2>2, <2>3 DEF IsRow
<1>6. ASSUME p.from = s PROVE IsRow(m, s, Count(l, s) + 1, p)
  <2>1. {i \in RowsOf(m, s) : i <= k} = RowsOf(m, s)
    BY <1>1 DEF RowsOf
  <2>2. k \in RowsOf(m, s) /\ Cardinality(RowsOf(m, s)) = Count(l, s) + 1
    BY <1>2, <1>4, <1>6 DEF Count
  <2> QED
    BY <1>1, <2>1, <2>2 DEF IsRow
<1> QED
  BY <1>4, <1>5, <1>6 DEF m

Causal(l) ==
  \A i \in DOMAIN l : Cardinality({j \in 1 .. i - 1 : l[j].from # l[i].from}) >= l[i].after

LEMMA CausalIs == (LogCausal <=> Causal(log)) /\ (LogCausal' <=> Causal(log'))
BY DEF LogCausal, Causal

LEMMA AppendCausal ==
  ASSUME NEW l \in Seq(Packets), NEW p \in Packets, NEW s \in Sides, Causal(l), Caused(p, l, s)
  PROVE  Causal(Append(l, p))
<1> DEFINE m == Append(l, p)
           k == Len(l) + 1
<1>1. /\ DOMAIN l = 1 .. Len(l) /\ Len(l) \in Nat /\ DOMAIN m = 1 .. k /\ m[k] = p
      /\ \A j \in DOMAIN l : m[j] = l[j] /\ l[j].from \in Sides
  BY PacketType
<1> HIDE DEF m
<1> SUFFICES ASSUME NEW i \in 1 .. k
             PROVE  Cardinality({j \in 1 .. i - 1 : m[j].from # m[i].from}) >= m[i].after
  BY <1>1 DEF Causal, m
<1>2. CASE i \in 1 .. Len(l)
  <2>1. {j \in 1 .. i - 1 : m[j].from # m[i].from} = {j \in 1 .. i - 1 : l[j].from # l[i].from}
    BY <1>1, <1>2
  <2>2. Cardinality({j \in 1 .. i - 1 : l[j].from # l[i].from}) >= l[i].after
    BY <1>1, <1>2 DEF Causal
  <2>3. m[i] = l[i]
    BY <1>1, <1>2
  <2> QED
    BY <2>1, <2>2, <2>3
<1>3. CASE i = k
  <2>1. m[i] = p /\ p.from = s /\ p.after <= Count(l, Other(s))
    BY <1>1, <1>3 DEF Caused
  <2>2. \A j \in 1 .. Len(l) : m[j].from # s <=> l[j].from = Other(s)
    BY <1>1, TwoSides
  <2>3. {j \in 1 .. i - 1 : m[j].from # m[i].from} = RowsOf(l, Other(s))
    BY <1>1, <1>3, <2>1, <2>2 DEF RowsOf
  <2>4. Count(l, Other(s)) \in Nat /\ p.after \in Nat
    BY CountType, PacketType
  <2> QED
    BY <2>1, <2>3, <2>4 DEF Count
<1> QED
  BY <1>1, <1>2, <1>3

\* What was taken over shrinks, when a transport closes, or stays.
LEMMA LessLogged ==
  ASSUME NEW l \in Seq(Packets), NEW s, NEW w, NEW w1, NEW a \in Seq(Packets), NEW b \in Seq(Packets),
         LoggedTo(l, s, w, a), Len(b) <= Len(a), \A n \in DOMAIN b : b[n] = a[n],
         w1 # "closed" => w # "closed" /\ Len(b) = Len(a)
  PROVE  LoggedTo(l, s, w1, b)
<1>1. Len(a) \in Nat /\ Len(b) \in Nat /\ Count(l, s) \in Nat
  BY CountType
<1>2. \A n \in DOMAIN b : n \in DOMAIN a
  OBVIOUS
<1> QED
  BY <1>1, <1>2 DEF LoggedTo

\* A packet of the other direction is logged.
LEMMA OtherLogged ==
  ASSUME NEW l \in Seq(Packets), NEW s, NEW w, NEW a, NEW p \in Packets, p.from # s, LoggedTo(l, s, w, a)
  PROVE  LoggedTo(Append(l, p), s, w, a)
<1>1. Count(Append(l, p), s) = Count(l, s)
  BY AppendRow
<1>2. \A n, r : IsRow(l, s, n, r) => IsRow(Append(l, p), s, n, r)
  BY AppendRow
<1> QED
  BY <1>1, <1>2 DEF LoggedTo

\* A packet is logged and taken over.
LEMMA OwnLogged ==
  ASSUME NEW l \in Seq(Packets), NEW s, NEW w, NEW a \in Seq(Packets), NEW p \in Packets, p.from = s,
         LoggedTo(l, s, w, a)
  PROVE  LoggedTo(Append(l, p), s, w, IF w = "closed" THEN a ELSE Append(a, p))
<1>1. /\ Count(Append(l, p), s) = Count(l, s) + 1
      /\ IsRow(Append(l, p), s, Count(l, s) + 1, p)
  BY AppendRow
<1>2. \A n, r : IsRow(l, s, n, r) => IsRow(Append(l, p), s, n, r)
  BY AppendRow
<1>3. Count(l, s) \in Nat /\ Len(a) \in Nat
  BY CountType
<1>4. CASE w = "closed"
  BY <1>1, <1>2, <1>3, <1>4 DEF LoggedTo
<1>5. CASE w # "closed"
  <2>1. /\ Len(Append(a, p)) = Len(a) + 1 /\ DOMAIN Append(a, p) = 1 .. Len(a) + 1
        /\ Append(a, p)[Len(a) + 1] = p /\ \A n \in 1 .. Len(a) : n \in DOMAIN a /\ Append(a, p)[n] = a[n]
    OBVIOUS
  <2>2. Len(a) = Count(l, s)
    BY <1>5 DEF LoggedTo
  <2>3. \A n \in 1 .. Len(a) + 1 : IsRow(Append(l, p), s, n, Append(a, p)[n])
    <3> TAKE n \in 1 .. Len(a) + 1
    <3>1. CASE n = Len(a) + 1
      BY <1>1, <2>1, <2>2, <3>1
    <3>2. CASE n \in 1 .. Len(a)
      BY <1>2, <2>1, <3>2 DEF LoggedTo
    <3> QED
      BY <1>3, <3>1, <3>2
  <2> QED
    BY <1>1, <1>3, <1>5, <2>1, <2>2, <2>3 DEF LoggedTo
<1> QED
  BY <1>4, <1>5

-----------------------------------------------------------------------------
(***************************************************************************)
(* Types, stages and lengths                                               *)
(***************************************************************************)

\* What the type invariant says of each sequence.
LEMMA SequenceTypes ==
  ASSUME TypeOK, NEW s \in Sides
  PROVE  /\ sent[s] \in Seq(Packets) /\ inq[s] \in Seq(Packets) /\ hand[s] \in Seq(Packets)
         /\ sendq[s] \in Seq(Packets) /\ out[s] \in Seq(Packets) /\ got[s] \in Seq(Packets)
         /\ Len(hand[s]) = IF rd[s] = "packet" THEN 1 ELSE 0
         /\ stask[s] = "none" => sendq[s] = <<>>
BY DEF TypeOK

\* A client sends no more than its bound, and has received no more than sent.
LEMMA SentIsPacket ==
  ASSUME TypeOK, FlowInv, NEW s \in Sides, Len(sent[s]) < MaxApdus[s]
  PROVE  [from |-> s, n |-> Len(sent[s]) + 1, after |-> Len(got[s])] \in Packets
<1>1. /\ Other(s) \in Sides /\ Other(Other(s)) = s
      /\ MaxApdus[s] \in Nat /\ MaxApdus[Other(s)] \in Nat
  BY TwoSides, RelayAssumption
<1>2. /\ Len(sent[s]) \in Nat /\ Len(got[s]) \in Nat /\ Len(out[s]) \in Nat /\ Len(sendq[s]) \in Nat
      /\ Len(hand[Other(s)]) \in Nat /\ Len(inq[Other(s)]) \in Nat /\ Len(sent[Other(s)]) \in Nat
  BY <1>1, SequenceTypes
<1>3. /\ Len(got[s]) + Len(out[s]) + Len(sendq[s]) + Len(hand[Other(s)]) + Len(inq[Other(s)])
           <= Len(sent[Other(s)])
      /\ Len(sent[Other(s)]) <= MaxApdus[Other(s)]
  BY <1>1 DEF FlowInv
<1>4. Len(sent[s]) + 1 \in 1 .. MaxApdus[s]
  BY <1>1, <1>2
<1>5. ASSUME NEW g \in Nat, NEW o \in Nat, NEW q \in Nat, NEW h \in Nat, NEW i \in Nat, NEW n \in Nat, NEW m \in Nat,
             g + o + q + h + i <= n, n <= m
      PROVE  g \in 0 .. m
  BY <1>5
<1>6. Len(got[s]) \in 0 .. MaxApdus[Other(s)]
  BY <1>1, <1>2, <1>3, <1>5
<1> QED
  BY <1>4, <1>6, NewPacket

LEMMA ClientType ==
  ASSUME TypeOK, FlowInv, NEW s \in Sides, ClientStep(s) \/ Flush(s)
  PROVE  TypeOK'
<1>1. CASE ClientSends(s)
  <2> DEFINE p == [from |-> s, n |-> Len(sent[s]) + 1, after |-> Len(got[s])]
  <2>1. p \in Packets /\ sent' = [sent EXCEPT ![s] = Append(@, p)] /\ inq' = [inq EXCEPT ![s] = Append(@, p)]
    BY <1>1, SentIsPacket DEF ClientSends
  <2> HIDE DEF p
  <2> QED
    BY <1>1, <2>1 DEF ClientSends, TypeOK, taskVars
<1>2. CASE ClientEnds(s)
  BY <1>2 DEF ClientEnds, TypeOK, taskVars
<1>4. CASE ConnectionLost(s)
  <2>1. /\ <<>> \in Seq(Packets) /\ out' = [out EXCEPT ![s] = <<>>]
        /\ tail' = [tail EXCEPT ![s] = "lost"] /\ wst' = [wst EXCEPT ![s] = "closed"]
    BY <1>4 DEF ConnectionLost
  <2>2. /\ out' \in [Sides -> Seq(Packets)] /\ tail' \in [Sides -> {"open", "end", "lost"}]
        /\ wst' \in [Sides -> {"open", "closing", "closed"}]
    BY <2>1 DEF TypeOK
  <2> QED
    BY <1>4, <2>2 DEF ConnectionLost, TypeOK, taskVars
<1>3. CASE Flush(s)
  <2>1. out[s] \in Seq(Packets) /\ out[s] # <<>>
    BY <1>3, SequenceTypes DEF Flush
  <2>2. Head(out[s]) \in Packets /\ Tail(out[s]) \in Seq(Packets)
    BY <2>1
  <2> QED
    BY <1>3, <2>2 DEF Flush, Closed, TypeOK, taskVars
<1> QED
  BY <1>1, <1>2, <1>3, <1>4 DEF ClientStep

LEMMA TaskType ==
  ASSUME TypeOK, NEW s \in Sides, TaskStep(s)
  PROVE  TypeOK'
<1>1. CASE Recv(s)
  <2>1. inq[s] \in Seq(Packets) /\ inq[s] # <<>>
    BY <1>1, SequenceTypes DEF Recv
  <2>2. <<Head(inq[s])>> \in Seq(Packets) /\ Tail(inq[s]) \in Seq(Packets) /\ Len(<<Head(inq[s])>>) = 1
    BY <2>1
  <2> QED
    BY <1>1, <2>2 DEF Recv, TypeOK, clientVars
<1>2. CASE RecvOver(s)
  BY <1>2 DEF RecvOver, TypeOK, clientVars
<1>3. CASE SendWrites(s)
  <2>1. sendq[s] \in Seq(Packets) /\ sendq[s] # <<>> /\ out[s] \in Seq(Packets)
    BY <1>3, SequenceTypes DEF SendWrites
  <2>2. Tail(sendq[s]) \in Seq(Packets) /\ Append(out[s], Head(sendq[s])) \in Seq(Packets)
    BY <2>1
  <2> QED
    BY <1>3, <2>2 DEF SendWrites, TypeOK, clientVars, taskVars
<1>4. CASE SendDrained(s)
  BY <1>4 DEF SendDrained, TypeOK, clientVars, taskVars
<1> QED
  BY <1>1, <1>2, <1>3, <1>4 DEF TaskStep

LEMMA BringDownType ==
  ASSUME TypeOK, BringDown
  PROVE  TypeOK'
<1>1. hand' = [s \in Sides |-> <<>>] /\ rd' = [s \in Sides |-> "cancelled"]
  BY DEF BringDown
<1>2. /\ hand' \in [Sides -> Seq(Packets)] /\ rd' \in [Sides -> {"reading", "packet", "over", "cancelled"}]
      /\ \A s \in Sides : Len(hand'[s]) = IF rd'[s] = "packet" THEN 1 ELSE 0
  BY <1>1
<1>3. wst' \in [Sides -> {"open", "closing", "closed"}]
  BY DEF BringDown, Closed, TypeOK
<1> QED
  BY <1>2, <1>3 DEF BringDown, TypeOK, clientVars

LEMMA HandlerType ==
  ASSUME TypeOK, StageInv, HandlerStep
  PROVE  TypeOK'
<1>1. CASE Wait \/ \E s \in Sides : HandlePacket(s)
  BY <1>1 DEF Wait, HandlePacket, TypeOK, clientVars
<1>2. CASE LogAndForward
  <2>1. /\ cur \in Sides /\ Other(cur) \in Sides /\ Other(cur) # cur /\ hand[cur] \in Seq(Packets)
        /\ log \in Seq(Packets) /\ sendq[Other(cur)] \in Seq(Packets)
    BY TwoSides, SequenceTypes DEF TypeOK
  <2>2. /\ log \o hand[cur] \in Seq(Packets) /\ sendq[Other(cur)] \o hand[cur] \in Seq(Packets)
        /\ <<>> \in Seq(Packets) /\ Len(<<>>) = 0
    BY <2>1
  <2>3. /\ log' \in Seq(Packets) /\ sendq' \in [Sides -> Seq(Packets)] /\ hand' \in [Sides -> Seq(Packets)]
        /\ stask' \in [Sides -> {"none", "get", "drain", "dead"}] /\ stask'[Other(cur)] # "none"
        /\ \A s \in Sides : stask'[s] = "none" => sendq'[s] = <<>>
    BY <1>2, <2>1, <2>2 DEF LogAndForward, LogApdu, TypeOK
  <2>4. /\ rd' \in [Sides -> {"reading", "packet", "over", "cancelled"}]
        /\ \A s \in Sides : Len(hand'[s]) = IF rd'[s] = "packet" THEN 1 ELSE 0
    <3>1. /\ rd' = [rd EXCEPT ![cur] = "reading"] /\ hand' = [hand EXCEPT ![cur] = <<>>]
      BY <1>2 DEF LogAndForward
    <3>2. rd' \in [Sides -> {"reading", "packet", "over", "cancelled"}]
      BY <3>1, <2>1 DEF TypeOK
    <3>3. ASSUME NEW s \in Sides PROVE Len(hand'[s]) = IF rd'[s] = "packet" THEN 1 ELSE 0
      <4>1. CASE s = cur
        BY <3>1, <4>1, <2>2 DEF TypeOK
      <4>2. CASE s # cur
        BY <3>1, <4>2, SequenceTypes DEF TypeOK
      <4> QED
        BY <4>1, <4>2
    <3> QED
      BY <3>2, <3>3
  <2> QED
    BY <1>2, <2>3, <2>4 DEF LogAndForward, TypeOK, clientVars
<1>3. CASE LogFails \/ \E s \in Sides : HandleOver(s)
  BY <1>3, BringDownType DEF LogFails, HandleOver
<1>4. CASE ProbeClosed \/ ProviderClosed
  BY <1>4 DEF ProbeClosed, ProviderClosed, Closed, TypeOK, clientVars
<1> QED
  BY <1>1, <1>2, <1>3, <1>4 DEF HandlerStep

LEMMA StageStep ==
  ASSUME TypeOK, StageInv, Next
  PROVE  StageInv'
<1>1. ASSUME NEW s \in Sides, ClientStep(s) \/ Flush(s) PROVE StageInv'
  BY <1>1 DEF ClientStep, ClientSends, ClientEnds, ConnectionLost, Flush, StageInv, Up, taskVars
<1>2. ASSUME NEW s \in Sides, TaskStep(s) PROVE StageInv'
  <2>0. rd \in [Sides -> {"reading", "packet", "over", "cancelled"}]
    BY DEF TypeOK
  <2>1. CASE Recv(s) \/ RecvOver(s)
    <3>1. /\ rd[s] = "reading" /\ UNCHANGED <<hpc, cur>> /\ \A t \in Sides : t # s => rd'[t] = rd[t]
          /\ rd'[s] \in {"packet", "over"}
      BY <2>0, <2>1 DEF Recv, RecvOver
    <3>2. Up
      BY <3>1 DEF StageInv
    <3>3. hpc = "log" => cur # s /\ cur \in Sides
      BY <3>1 DEF StageInv, TypeOK
    <3> QED
      BY <3>1, <3>2, <3>3 DEF StageInv, Up
  <2>2. CASE SendWrites(s) \/ SendDrained(s)
    BY <2>2 DEF SendWrites, SendDrained, StageInv, Up, taskVars
  <2> QED
    BY <1>2, <2>1, <2>2 DEF TaskStep
<1>3. CASE HandlerStep
  BY <1>3
  DEF HandlerStep, Wait, HandlePacket, LogAndForward, LogFails, HandleOver, BringDown, ProbeClosed, ProviderClosed,
      StageInv, Up, TypeOK
<1> QED
  BY <1>1, <1>2, <1>3 DEF Next

\* How many packets are under way to a side, or have arrived there.
LEMMA Lengths ==
  ASSUME TypeOK, NEW s \in Sides
  PROVE  /\ Len(sent[s]) \in Nat /\ Len(inq[s]) \in Nat /\ Len(hand[s]) \in Nat
         /\ Len(sendq[s]) \in Nat /\ Len(out[s]) \in Nat /\ Len(got[s]) \in Nat
BY SequenceTypes

LEMMA ClientFlow ==
  ASSUME TypeOK, FlowInv, NEW s \in Sides, ClientStep(s) \/ Flush(s)
  PROVE  FlowInv'
<1> SUFFICES ASSUME NEW t \in Sides
             PROVE  /\ Len(got'[t]) + Len(out'[t]) + Len(sendq'[t]) + Len(hand'[Other(t)]) + Len(inq'[Other(t)])
                         <= Len(sent'[Other(t)])
                    /\ Len(sent'[t]) <= MaxApdus[t]
  BY DEF FlowInv
<1> DEFINE u == Other(t)
           g == Len(got[t])  o == Len(out[t])  q == Len(sendq[t])  h == Len(hand[u])  i == Len(inq[u])
           n == Len(sent[u])  m == Len(sent[t])
           g1 == Len(got'[t])  o1 == Len(out'[t])  q1 == Len(sendq'[t])  h1 == Len(hand'[u])  i1 == Len(inq'[u])
           n1 == Len(sent'[u])  m1 == Len(sent'[t])
<1> SUFFICES g1 + o1 + q1 + h1 + i1 <= n1 /\ m1 <= MaxApdus[t]
  BY Zenon
<1>1. /\ g \in Nat /\ o \in Nat /\ q \in Nat /\ h \in Nat /\ i \in Nat /\ n \in Nat /\ m \in Nat
      /\ g + o + q + h + i <= n /\ m <= MaxApdus[t] /\ MaxApdus[t] \in Nat
  BY TwoSides, Lengths, RelayAssumption DEF FlowInv
<1>0. u \in Sides /\ u # t /\ (s = t \/ s = u)
  BY TwoSides
<1> HIDE DEF u
<1>2. CASE ClientSends(s)
  <2> DEFINE p == [from |-> s, n |-> Len(sent[s]) + 1, after |-> Len(got[s])]
  <2>1. /\ sent' = [sent EXCEPT ![s] = Append(@, p)] /\ inq' = [inq EXCEPT ![s] = Append(@, p)]
        /\ UNCHANGED <<got, out, sendq, hand>> /\ Len(sent[s]) < MaxApdus[s]
    BY <1>2 DEF ClientSends, taskVars
  <2> HIDE DEF p
  <2>2. /\ Len(sent'[s]) = Len(sent[s]) + 1 /\ Len(inq'[s]) = Len(inq[s]) + 1
        /\ \A r \in Sides : r # s => sent'[r] = sent[r] /\ inq'[r] = inq[r]
    BY <2>1, SequenceTypes DEF TypeOK
  <2>3. g1 = g /\ o1 = o /\ q1 = q /\ h1 = h
    BY <2>1
  <2>4. CASE s = t
    <3>1. i1 = i /\ n1 = n /\ m1 = m + 1 /\ m < MaxApdus[t]
      BY <1>0, <2>1, <2>2, <2>4
    <3> HIDE DEF g, o, q, h, i, n, m, g1, o1, q1, h1, i1, n1, m1
    <3> QED
      BY <1>1, <2>3, <3>1
  <2>5. CASE s = u
    <3>1. i1 = i + 1 /\ n1 = n + 1 /\ m1 = m
      BY <1>0, <2>2, <2>5
    <3> HIDE DEF g, o, q, h, i, n, m, g1, o1, q1, h1, i1, n1, m1
    <3> QED
      BY <1>1, <2>3, <3>1
  <2> QED
    BY <1>0, <2>4, <2>5
<1>3. CASE ClientEnds(s)
  BY <1>1, <1>3 DEF ClientEnds, taskVars
<1>4. CASE ConnectionLost(s)
  <2>1. o1 \in Nat /\ o1 <= o
    BY <1>1, <1>4 DEF ConnectionLost, TypeOK
  <2>2. g1 = g /\ q1 = q /\ h1 = h /\ i1 = i /\ n1 = n /\ m1 = m
    BY <1>4 DEF ConnectionLost, taskVars
  <2> HIDE DEF g, o, q, h, i, n, m, g1, o1, q1, h1, i1, n1, m1
  <2> QED
    BY <1>1, <2>1, <2>2
<1>5. CASE Flush(s)
  <2>1. /\ got' = [got EXCEPT ![s] = Append(@, Head(out[s]))] /\ out' = [out EXCEPT ![s] = Tail(@)]
        /\ out[s] # <<>> /\ UNCHANGED <<sent, inq, sendq, hand>>
    BY <1>5 DEF Flush, taskVars
  <2>2. q1 = q /\ h1 = h /\ i1 = i /\ n1 = n /\ m1 = m
    BY <2>1
  <2>3. \/ g1 = g + 1 /\ o1 = o - 1
        \/ g1 = g /\ o1 = o
    BY <2>1, SequenceTypes DEF TypeOK
  <2> HIDE DEF g, o, q, h, i, n, m, g1, o1, q1, h1, i1, n1, m1
  <2> QED
    BY <1>1, <2>2, <2>3
<1> QED
  BY <1>2, <1>3, <1>4, <1>5 DEF ClientStep

LEMMA TaskFlow ==
  ASSUME TypeOK, FlowInv, NEW s \in Sides, TaskStep(s)
  PROVE  FlowInv'
<1> SUFFICES ASSUME NEW t \in Sides
             PROVE  /\ Len(got'[t]) + Len(out'[t]) + Len(sendq'[t]) + Len(hand'[Other(t)]) + Len(inq'[Other(t)])
                         <= Len(sent'[Other(t)])
                    /\ Len(sent'[t]) <= MaxApdus[t]
  BY DEF FlowInv
<1> DEFINE u == Other(t)
           g == Len(got[t])  o == Len(out[t])  q == Len(sendq[t])  h == Len(hand[u])  i == Len(inq[u])
           n == Len(sent[u])  m == Len(sent[t])
           g1 == Len(got'[t])  o1 == Len(out'[t])  q1 == Len(sendq'[t])  h1 == Len(hand'[u])  i1 == Len(inq'[u])
           n1 == Len(sent'[u])  m1 == Len(sent'[t])
<1> SUFFICES g1 + o1 + q1 + h1 + i1 <= n1 /\ m1 <= MaxApdus[t]
  BY Zenon
<1>1. /\ g \in Nat /\ o \in Nat /\ q \in Nat /\ h \in Nat /\ i \in Nat /\ n \in Nat /\ m \in Nat
      /\ g + o + q + h + i <= n /\ m <= MaxApdus[t] /\ MaxApdus[t] \in Nat
  BY TwoSides, Lengths, RelayAssumption DEF FlowInv
<1>0. u \in Sides
  BY TwoSides
<1> HIDE DEF u
<1>2. CASE Recv(s)
  <2>1. /\ hand' = [hand EXCEPT ![s] = <<Head(inq[s])>>] /\ inq' = [inq EXCEPT ![s] = Tail(@)]
        /\ inq[s] # <<>> /\ rd[s] = "reading" /\ UNCHANGED <<sent, got, out, sendq>>
    BY <1>2 DEF Recv, clientVars
  <2>2. g1 = g /\ o1 = o /\ q1 = q /\ n1 = n /\ m1 = m
    BY <2>1
  <2>3. /\ inq[s] \in Seq(Packets) /\ Len(hand[s]) = 0 /\ Len(<<Head(inq[s])>>) = 1
        /\ Len(Tail(inq[s])) = Len(inq[s]) - 1
    BY <2>1, SequenceTypes
  <2>4. /\ hand'[s] = <<Head(inq[s])>> /\ inq'[s] = Tail(inq[s])
        /\ u # s => hand'[u] = hand[u] /\ inq'[u] = inq[u]
    BY <1>0, <2>1 DEF TypeOK
  <2>5. \/ h = 0 /\ h1 = 1 /\ i1 = i - 1
        \/ h1 = h /\ i1 = i
    BY <2>3, <2>4
  <2> HIDE DEF g, o, q, h, i, n, m, g1, o1, q1, h1, i1, n1, m1
  <2> QED
    BY <1>1, <2>2, <2>5
<1>3. CASE RecvOver(s)
  BY <1>1, <1>3 DEF RecvOver, clientVars
<1>4. CASE SendWrites(s)
  <2>1. /\ sendq' = [sendq EXCEPT ![s] = Tail(@)] /\ sendq[s] # <<>>
        /\ out' = [out EXCEPT ![s] = IF wst[s] = "closed" THEN @ ELSE Append(@, Head(sendq[s]))]
        /\ UNCHANGED <<sent, got, inq, hand>>
    BY <1>4 DEF SendWrites, clientVars, taskVars
  <2>2. g1 = g /\ h1 = h /\ i1 = i /\ n1 = n /\ m1 = m
    BY <2>1
  <2>3. \/ q1 = q - 1 /\ o1 = o
        \/ q1 = q - 1 /\ o1 = o + 1
        \/ q1 = q /\ o1 = o
    <3>1. /\ Len(Tail(sendq[s])) = Len(sendq[s]) - 1
          /\ Len(Append(out[s], Head(sendq[s]))) = Len(out[s]) + 1
      BY <2>1, SequenceTypes
    <3>2. /\ sendq'[s] = Tail(sendq[s]) /\ (out'[s] = out[s] \/ out'[s] = Append(out[s], Head(sendq[s])))
          /\ t # s => sendq'[t] = sendq[t] /\ out'[t] = out[t]
      BY <2>1 DEF TypeOK
    <3> QED
      BY <3>1, <3>2
  <2> HIDE DEF g, o, q, h, i, n, m, g1, o1, q1, h1, i1, n1, m1
  <2> QED
    BY <1>1, <2>2, <2>3
<1>5. CASE SendDrained(s)
  BY <1>1, <1>5 DEF SendDrained, clientVars, taskVars
<1> QED
  BY <1>2, <1>3, <1>4, <1>5 DEF TaskStep

LEMMA HandlerFlow ==
  ASSUME TypeOK, FlowInv, HandlerStep
  PROVE  FlowInv'
<1> SUFFICES ASSUME NEW t \in Sides
             PROVE  /\ Len(got'[t]) + Len(out'[t]) + Len(sendq'[t]) + Len(hand'[Other(t)]) + Len(inq'[Other(t)])
                         <= Len(sent'[Other(t)])
                    /\ Len(sent'[t]) <= MaxApdus[t]
  BY DEF FlowInv
<1> DEFINE u == Other(t)
           g == Len(got[t])  o == Len(out[t])  q == Len(sendq[t])  h == Len(hand[u])  i == Len(inq[u])
           n == Len(sent[u])  m == Len(sent[t])
           g1 == Len(got'[t])  o1 == Len(out'[t])  q1 == Len(sendq'[t])  h1 == Len(hand'[u])  i1 == Len(inq'[u])
           n1 == Len(sent'[u])  m1 == Len(sent'[t])
<1> SUFFICES g1 + o1 + q1 + h1 + i1 <= n1 /\ m1 <= MaxApdus[t]
  BY Zenon
<1>1. /\ g \in Nat /\ o \in Nat /\ q \in Nat /\ h \in Nat /\ i \in Nat /\ n \in Nat /\ m \in Nat
      /\ g + o + q + h + i <= n /\ m <= MaxApdus[t] /\ MaxApdus[t] \in Nat
  BY TwoSides, Lengths, RelayAssumption DEF FlowInv
<1>0. /\ u \in Sides /\ cur \in Sides /\ (cur = u => Other(cur) = t)
      /\ (cur # u => Other(cur) # t)
  BY TwoSides DEF TypeOK
<1> HIDE DEF u
<1>2. CASE UNCHANGED <<sent, got, out, sendq, inq, hand>>
  BY <1>1, <1>2
<1>3. CASE LogAndForward
  <2>1. /\ sendq' = [sendq EXCEPT ![Other(cur)] = @ \o hand[cur]] /\ hand' = [hand EXCEPT ![cur] = <<>>]
        /\ UNCHANGED <<sent, got, inq, out>>
    BY <1>3 DEF LogAndForward, clientVars
  <2>2. g1 = g /\ o1 = o /\ i1 = i /\ n1 = n /\ m1 = m
    BY <2>1
  <2>3. \/ h1 = 0 /\ q1 = q + h
        \/ h1 = h /\ q1 = q
    <3>1. CASE cur = u
      BY <1>0, <2>1, <3>1, SequenceTypes DEF TypeOK
    <3>2. CASE cur # u
      BY <1>0, <2>1, <3>2 DEF TypeOK
    <3> QED
      BY <3>1, <3>2
  <2> HIDE DEF g, o, q, h, i, n, m, g1, o1, q1, h1, i1, n1, m1
  <2> QED
    BY <1>1, <2>2, <2>3
<1>4. CASE BringDown
  <2>1. h1 = 0
    BY <1>0, <1>4 DEF BringDown
  <2>2. g1 = g /\ o1 = o /\ q1 = q /\ i1 = i /\ n1 = n /\ m1 = m
    BY <1>4 DEF BringDown, clientVars
  <2> HIDE DEF g, o, q, h, i, n, m, g1, o1, q1, h1, i1, n1, m1
  <2> QED
    BY <1>1, <2>1, <2>2
<1> QED
  BY <1>2, <1>3, <1>4
  DEF HandlerStep, Wait, HandlePacket, LogFails, HandleOver, ProbeClosed, ProviderClosed, clientVars

-----------------------------------------------------------------------------
(***************************************************************************)
(* The log                                                                 *)
(***************************************************************************)

\* Three sequences in a row: their elements move from one to the next.
LEMMA MoveLeft ==
  ASSUME NEW S, NEW a \in Seq(S), NEW b \in Seq(S), b # <<>>
  PROVE  /\ Append(a, Head(b)) \in Seq(S) /\ Tail(b) \in Seq(S) /\ a \o b \in Seq(S)
         /\ Append(a, Head(b)) \o Tail(b) = a \o b
<1>1. Head(b) = b[1] /\ b[1] \in S /\ Len(b) \in Nat \ {0} /\ Len(Tail(b)) = Len(b) - 1
  OBVIOUS
<1>2. /\ Append(a, Head(b)) \in Seq(S) /\ Tail(b) \in Seq(S) /\ a \o b \in Seq(S)
      /\ Append(a, Head(b)) \o Tail(b) \in Seq(S)
  BY <1>1
<1>3. Len(Append(a, Head(b)) \o Tail(b)) = Len(a \o b)
  BY <1>1
<1>4. \A n \in 1 .. Len(a \o b) : (Append(a, Head(b)) \o Tail(b))[n] = (a \o b)[n]
  BY <1>1
<1> QED
  BY <1>2, <1>3, <1>4

LEMMA Concat ==
  ASSUME NEW S, NEW a \in Seq(S), NEW b \in Seq(S)
  PROVE  /\ a \o b \in Seq(S) /\ Len(a \o b) = Len(a) + Len(b)
         /\ \A n \in DOMAIN a : n \in DOMAIN (a \o b) /\ (a \o b)[n] = a[n]
OBVIOUS

Cat(a, b) == a \o b

\* The places of a sequence that is put behind another.
Joined(x, a, b) ==
  /\ Len(x) = Len(a) + Len(b)
  /\ \A n \in 1 .. Len(a) : x[n] = a[n]
  /\ \A n \in 1 .. Len(b) : x[n + Len(a)] = b[n]

LEMMA JoinPlaces ==
  ASSUME NEW S, NEW a \in Seq(S), NEW b \in Seq(S)
  PROVE  Cat(a, b) \in Seq(S) /\ Joined(Cat(a, b), a, b)
BY DEF Cat, Joined

LEMMA CatAssoc ==
  ASSUME NEW S, NEW a \in Seq(S), NEW b \in Seq(S), NEW c \in Seq(S)
  PROVE  Cat(Cat(a, b), c) = Cat(a, Cat(b, c))
<1> DEFINE ab == Cat(a, b)  bc == Cat(b, c)  x == Cat(ab, c)  y == Cat(a, bc)
<1>1. ab \in Seq(S) /\ Joined(ab, a, b) /\ bc \in Seq(S) /\ Joined(bc, b, c)
  BY JoinPlaces, Zenon
<1> HIDE DEF ab, bc
<1>2. x \in Seq(S) /\ Joined(x, ab, c) /\ y \in Seq(S) /\ Joined(y, a, bc)
  BY <1>1, JoinPlaces, Zenon
<1> HIDE DEF x, y
<1>3. /\ Len(a) \in Nat /\ Len(b) \in Nat /\ Len(c) \in Nat /\ Len(ab) = Len(a) + Len(b) /\ Len(bc) = Len(b) + Len(c)
      /\ Len(x) = Len(a) + Len(b) + Len(c) /\ Len(y) = Len(a) + Len(b) + Len(c)
  BY <1>1, <1>2 DEF Joined
<1>4. ASSUME NEW n \in 1 .. Len(a) PROVE x[n] = y[n]
  <2>1. n \in 1 .. Len(ab)
    BY <1>3
  <2> QED
    BY <1>1, <1>2, <2>1 DEF Joined
<1>5. ASSUME NEW n \in 1 .. Len(b) PROVE x[n + Len(a)] = y[n + Len(a)]
  <2>1. n + Len(a) \in 1 .. Len(ab) /\ n \in 1 .. Len(bc)
    BY <1>3
  <2>2. x[n + Len(a)] = ab[n + Len(a)] /\ ab[n + Len(a)] = b[n]
    BY <1>1, <1>2, <2>1 DEF Joined
  <2>3. y[n + Len(a)] = bc[n] /\ bc[n] = b[n]
    BY <1>1, <1>2, <2>1 DEF Joined
  <2> QED
    BY <2>2, <2>3
<1>6. ASSUME NEW n \in 1 .. Len(c) PROVE x[n + (Len(a) + Len(b))] = y[n + (Len(a) + Len(b))]
  <2>1. n + Len(b) \in 1 .. Len(bc) /\ n + (Len(a) + Len(b)) = (n + Len(b)) + Len(a)
    BY <1>3
  <2>2. x[n + (Len(a) + Len(b))] = c[n]
    BY <1>2, <1>3 DEF Joined
  <2>3. y[(n + Len(b)) + Len(a)] = bc[n + Len(b)] /\ bc[n + Len(b)] = c[n]
    BY <1>1, <1>2, <2>1 DEF Joined
  <2> QED
    BY <2>1, <2>2, <2>3
<1>7. ASSUME NEW n \in 1 .. Len(x) PROVE x[n] = y[n]
  <2>1. \/ n \in 1 .. Len(a)
        \/ n - Len(a) \in 1 .. Len(b) /\ (n - Len(a)) + Len(a) = n
        \/ n - (Len(a) + Len(b)) \in 1 .. Len(c) /\ (n - (Len(a) + Len(b))) + (Len(a) + Len(b)) = n
    BY <1>3
  <2> DEFINE m == n - Len(a)  k == n - (Len(a) + Len(b))
  <2> HIDE DEF m, k
  <2>2. ASSUME m \in 1 .. Len(b), m + Len(a) = n PROVE x[n] = y[n]
    BY <1>5, <2>2
  <2>3. ASSUME k \in 1 .. Len(c), k + (Len(a) + Len(b)) = n PROVE x[n] = y[n]
    BY <1>6, <2>3
  <2> QED
    BY <1>4, <2>1, <2>2, <2>3 DEF m, k
<1>8. x = y
  BY <1>2, <1>3, <1>7
<1> QED
  BY <1>8 DEF x, y, ab, bc

LEMMA PassedType ==
  ASSUME NEW g \in Seq(Packets), NEW o \in Seq(Packets), NEW q \in Seq(Packets), NEW w
  PROVE  /\ Passed(g, o, q, w) \in Seq(Packets) /\ Len(g) <= Len(Passed(g, o, q, w))
         /\ \A n \in DOMAIN g : Passed(g, o, q, w)[n] = g[n]
<1> DEFINE a == g \o o
           b == a \o q
<1>1. a \in Seq(Packets) /\ Len(a) = Len(g) + Len(o) /\ \A n \in DOMAIN g : n \in DOMAIN a /\ a[n] = g[n]
  BY Concat, Zenon
<1> HIDE DEF a
<1>2. b \in Seq(Packets) /\ Len(b) = Len(a) + Len(q) /\ \A n \in DOMAIN a : n \in DOMAIN b /\ b[n] = a[n]
  BY <1>1, Concat, Zenon
<1>3. Passed(g, o, q, w) = IF w = "closed" THEN g ELSE b
  BY DEF Passed, a
<1> HIDE DEF b
<1>4. Len(g) \in Nat /\ Len(o) \in Nat /\ Len(q) \in Nat
  OBVIOUS
<1> QED
  BY <1>1, <1>2, <1>3, <1>4

\* One side's part of LogInv.
Taken(l, s, g, o, q, w) ==
  /\ w = "closed" => o = <<>>
  /\ LoggedTo(l, s, w, Passed(g, o, q, w))

LEMMA LogInvIs ==
  /\ LogInv <=> \A s \in Sides : Taken(log, Other(s), got[s], out[s], sendq[s], wst[s])
  /\ LogInv' <=> \A s \in Sides : Taken(log', Other(s), got'[s], out'[s], sendq'[s], wst'[s])
BY DEF LogInv, Taken

\* What is taken over stays when the places of its last two parts change.
LEMMA Regroup ==
  ASSUME NEW S, NEW g \in Seq(S), NEW o \in Seq(S), NEW q \in Seq(S), NEW o1 \in Seq(S), NEW q1 \in Seq(S),
         o1 \o q1 = o \o q
  PROVE  \A l, r, w : w # "closed" /\ Taken(l, r, g, o, q, w) => Taken(l, r, g, o1, q1, w)
<1>1. Cat(Cat(g, o), q) = Cat(g, Cat(o, q)) /\ Cat(Cat(g, o1), q1) = Cat(g, Cat(o1, q1))
  BY CatAssoc
<1>2. Cat(o1, q1) = Cat(o, q)
  BY DEF Cat
<1>3. Cat(Cat(g, o1), q1) = Cat(Cat(g, o), q)
  BY <1>1, <1>2
<1>4. ASSUME NEW w, w # "closed" PROVE Passed(g, o1, q1, w) = Passed(g, o, q, w)
  BY <1>3, <1>4, Zenon DEF Passed, Cat
<1> QED
  BY <1>4 DEF Taken

LEMMA PassedGrows ==
  ASSUME NEW g \in Seq(Packets), NEW o \in Seq(Packets), NEW q \in Seq(Packets), NEW w, NEW p \in Packets
  PROVE  Passed(g, o, Append(q, p), w) =
           IF w = "closed" THEN Passed(g, o, q, w) ELSE Append(Passed(g, o, q, w), p)
<1> DEFINE a == g \o o
<1>1. a \in Seq(Packets)
  OBVIOUS
<1> HIDE DEF a
<1>2. a \o Append(q, p) = Append(a \o q, p)
  BY <1>1
<1> QED
  BY <1>2 DEF Passed, a

\* A transport is closed, or told to: its queue is no more for it.
LEMMA CloseTaken ==
  ASSUME NEW s, NEW l \in Seq(Packets), NEW g \in Seq(Packets), NEW o \in Seq(Packets), NEW q \in Seq(Packets),
         NEW w, NEW r, Taken(l, r, g, o, q, w)
  PROVE  Taken(l, r, g, o, q, Closed(s, o)) /\ Taken(l, r, g, <<>>, q, "closed")
<1>1. /\ Passed(g, o, q, w) \in Seq(Packets) /\ Len(g) <= Len(Passed(g, o, q, w))
      /\ \A n \in DOMAIN g : Passed(g, o, q, w)[n] = g[n]
  BY PassedType
<1>2. LoggedTo(l, r, "closed", g)
  BY <1>1, LessLogged DEF Taken
<1>3. Taken(l, r, g, <<>>, q, "closed")
  BY <1>2 DEF Taken, Passed
<1>4. CASE o = <<>>
  BY <1>3, <1>4 DEF Closed
<1>5. CASE o # <<>>
  <2>1. Closed(s, o) = "closing" /\ w # "closed"
    BY <1>5 DEF Closed, Taken
  <2>2. Passed(g, o, q, "closing") = Passed(g, o, q, w)
    BY <2>1 DEF Passed
  <2>3. LoggedTo(l, r, "closing", Passed(g, o, q, w))
    BY <2>1 DEF Taken, LoggedTo
  <2> QED
    BY <1>3, <2>1, <2>2, <2>3 DEF Taken
<1> QED
  BY <1>3, <1>4, <1>5

\* A packet moves from one sequence to the one before it.
LEMMA MoveTaken ==
  ASSUME NEW l \in Seq(Packets), NEW r, NEW g \in Seq(Packets), NEW o \in Seq(Packets), NEW q \in Seq(Packets),
         NEW w, Taken(l, r, g, o, q, w), w # "closed", q # <<>>
  PROVE  Taken(l, r, g, Append(o, Head(q)), Tail(q), w)
<1> DEFINE o1 == Append(o, Head(q))
           q1 == Tail(q)
<1>1. o1 \in Seq(Packets) /\ q1 \in Seq(Packets) /\ o1 \o q1 = o \o q
  BY MoveLeft, Zenon
<1> HIDE DEF o1, q1
<1>2. Taken(l, r, g, o1, q1, w)
  BY <1>1, Regroup, Zenon
<1> QED
  BY <1>2 DEF o1, q1

\* A packet is logged and queued for the other side, and only for that side.
LEMMA GrowTaken ==
  ASSUME NEW l \in Seq(Packets), NEW r, NEW g \in Seq(Packets), NEW o \in Seq(Packets), NEW q \in Seq(Packets),
         NEW w, Taken(l, r, g, o, q, w), NEW p \in Packets
  PROVE  Taken(Append(l, p), r, g, o, IF p.from = r THEN Append(q, p) ELSE q, w)
<1> DEFINE a == Passed(g, o, q, w)
<1>1. a \in Seq(Packets) /\ LoggedTo(l, r, w, a) /\ (w = "closed" => o = <<>>)
  BY PassedType DEF Taken
<1>2. Passed(g, o, Append(q, p), w) = IF w = "closed" THEN a ELSE Append(a, p)
  BY PassedGrows
<1> HIDE DEF a
<1>3. CASE p.from = r
  <2>1. LoggedTo(Append(l, p), r, w, IF w = "closed" THEN a ELSE Append(a, p))
    BY <1>1, <1>3, OwnLogged
  <2> QED
    BY <1>1, <1>2, <1>3, <2>1 DEF Taken
<1>4. CASE p.from # r
  <2>1. LoggedTo(Append(l, p), r, w, a)
    BY <1>1, <1>4, OtherLogged
  <2> QED
    BY <1>1, <1>4, <2>1 DEF Taken, a
<1> QED
  BY <1>3, <1>4

LEMMA ClientLog ==
  ASSUME TypeOK, LogInv, NEW s \in Sides, ClientStep(s) \/ Flush(s)
  PROVE  LogInv'
<1> SUFFICES ASSUME NEW t \in Sides PROVE Taken(log', Other(t), got'[t], out'[t], sendq'[t], wst'[t])
  BY LogInvIs
<1>1. /\ Taken(log, Other(t), got[t], out[t], sendq[t], wst[t]) /\ log \in Seq(Packets)
      /\ got[t] \in Seq(Packets) /\ out[t] \in Seq(Packets) /\ sendq[t] \in Seq(Packets)
  BY LogInvIs, SequenceTypes DEF TypeOK
<1>2. CASE ClientSends(s) \/ ClientEnds(s)
  BY <1>1, <1>2 DEF ClientSends, ClientEnds, taskVars
<1>3. CASE ConnectionLost(s)
  <2>1. /\ log' = log /\ got' = got /\ sendq' = sendq
        /\ IF t = s THEN out'[t] = <<>> /\ wst'[t] = "closed" ELSE out'[t] = out[t] /\ wst'[t] = wst[t]
    BY <1>3 DEF ConnectionLost, TypeOK, taskVars
  <2> QED
    BY <1>1, <2>1, CloseTaken
<1>4. CASE Flush(s)
  <2>1. /\ log' = log /\ sendq' = sendq
        /\ got' = [got EXCEPT ![s] = Append(@, Head(out[s]))] /\ out' = [out EXCEPT ![s] = Tail(@)]
        /\ wst' = [wst EXCEPT ![s] = IF @ = "open" THEN @ ELSE Closed(s, Tail(out[s]))] /\ out[s] # <<>>
    BY <1>4 DEF Flush, taskVars
  <2>2. CASE t # s
    BY <1>1, <2>1, <2>2 DEF TypeOK
  <2>3. CASE t = s
    <3> DEFINE g == Append(got[t], Head(out[t]))
               o == Tail(out[t])
    <3>1. got'[t] = g /\ out'[t] = o /\ (wst'[t] = wst[t] \/ wst'[t] = Closed(s, o))
      BY <2>1, <2>3 DEF TypeOK
    <3>2. g \in Seq(Packets) /\ o \in Seq(Packets) /\ g \o o = got[t] \o out[t]
      <4>1. out[t] # <<>>
        BY <2>1, <2>3
      <4> QED
        BY <1>1, <4>1, MoveLeft, Zenon
    <3>3. wst[t] # "closed"
      BY <1>1, <2>1, <2>3 DEF Taken
    <3> HIDE DEF g, o
    <3>4. Taken(log, Other(t), g, o, sendq[t], wst[t])
      BY <1>1, <3>2, <3>3 DEF Taken, Passed
    <3>5. Taken(log, Other(t), g, o, sendq[t], Closed(s, o))
      BY <1>1, <3>2, <3>4, CloseTaken, Zenon
    <3> QED
      BY <2>1, <3>1, <3>4, <3>5
  <2> QED
    BY <2>2, <2>3
<1> QED
  BY <1>2, <1>3, <1>4 DEF ClientStep

LEMMA TaskLog ==
  ASSUME TypeOK, LogInv, NEW s \in Sides, TaskStep(s)
  PROVE  LogInv'
<1> SUFFICES ASSUME NEW t \in Sides PROVE Taken(log', Other(t), got'[t], out'[t], sendq'[t], wst'[t])
  BY LogInvIs
<1>1. /\ Taken(log, Other(t), got[t], out[t], sendq[t], wst[t]) /\ log \in Seq(Packets)
      /\ got[t] \in Seq(Packets) /\ out[t] \in Seq(Packets) /\ sendq[t] \in Seq(Packets)
  BY LogInvIs, SequenceTypes DEF TypeOK
<1>2. CASE Recv(s) \/ RecvOver(s) \/ SendDrained(s)
  BY <1>1, <1>2 DEF Recv, RecvOver, SendDrained, clientVars, taskVars
<1>3. CASE SendWrites(s)
  <2>1. /\ log' = log /\ got' = got /\ wst' = wst /\ sendq' = [sendq EXCEPT ![s] = Tail(@)] /\ sendq[s] # <<>>
        /\ out' = [out EXCEPT ![s] = IF wst[s] = "closed" THEN @ ELSE Append(@, Head(sendq[s]))]
    BY <1>3 DEF SendWrites, clientVars, taskVars
  <2>2. CASE t # s
    BY <1>1, <2>1, <2>2 DEF TypeOK
  <2>3. CASE t = s /\ wst[t] = "closed"
    <3>1. out'[t] = out[t]
      BY <2>1, <2>3 DEF TypeOK
    <3> QED
      BY <1>1, <2>1, <2>3, <3>1 DEF Taken, Passed
  <2>4. CASE t = s /\ wst[t] # "closed"
    <3>1. out'[t] = Append(out[t], Head(sendq[t])) /\ sendq'[t] = Tail(sendq[t]) /\ sendq[t] # <<>>
      BY <2>1, <2>4 DEF TypeOK
    <3>2. Taken(log, Other(t), got[t], Append(out[t], Head(sendq[t])), Tail(sendq[t]), wst[t])
      BY <1>1, <2>4, <3>1, MoveTaken, Zenon
    <3> QED
      BY <2>1, <3>1, <3>2
  <2> QED
    BY <2>2, <2>3, <2>4
<1> QED
  BY <1>2, <1>3 DEF TaskStep

\* The handler has a packet of the side it handles, and logs it.
LEMMA LogsOne ==
  ASSUME TypeOK, StageInv, CauseInv, LogAndForward
  PROVE  \E p \in Packets :
           /\ hand[cur] = <<p>> /\ Caused(p, log, cur)
           /\ log' = Append(log, p)
<1>1. cur \in Sides /\ hand[cur] \in Seq(Packets) /\ Len(hand[cur]) = 1 /\ log \in Seq(Packets)
  BY SequenceTypes DEF TypeOK, StageInv, LogAndForward
<1>2. hand[cur] = <<hand[cur][1]>> /\ hand[cur][1] \in Packets /\ 1 \in DOMAIN hand[cur]
  BY <1>1
<1>3. Caused(hand[cur][1], log, cur)
  BY <1>1, <1>2 DEF CauseInv
<1>4. log \o <<hand[cur][1]>> = Append(log, hand[cur][1])
  BY <1>1, <1>2
<1> QED
  BY <1>2, <1>3, <1>4 DEF LogAndForward, LogApdu

LEMMA HandlerLog ==
  ASSUME TypeOK, StageInv, CauseInv, LogInv, HandlerStep
  PROVE  LogInv'
<1> SUFFICES ASSUME NEW t \in Sides PROVE Taken(log', Other(t), got'[t], out'[t], sendq'[t], wst'[t])
  BY LogInvIs
<1>1. /\ Taken(log, Other(t), got[t], out[t], sendq[t], wst[t]) /\ log \in Seq(Packets)
      /\ got[t] \in Seq(Packets) /\ out[t] \in Seq(Packets) /\ sendq[t] \in Seq(Packets)
  BY LogInvIs, SequenceTypes DEF TypeOK
<1>2. CASE UNCHANGED <<log, got, out, sendq, wst>>
  BY <1>1, <1>2
<1>3. CASE LogAndForward
  <2>1. PICK p \in Packets : hand[cur] = <<p>> /\ Caused(p, log, cur) /\ log' = Append(log, p)
    BY <1>3, LogsOne
  <2>2. /\ got' = got /\ out' = out /\ wst' = wst
        /\ sendq' = [sendq EXCEPT ![Other(cur)] = @ \o <<p>>] /\ p.from = cur
    BY <1>3, <2>1 DEF LogAndForward, clientVars, Caused
  <2>3. cur \in Sides /\ (t = cur \/ (t = Other(cur) /\ cur = Other(t))) /\ Other(cur) # cur
    BY TwoSides DEF TypeOK
  <2>4. Taken(Append(log, p), Other(t), got[t], out[t], IF p.from = Other(t) THEN Append(sendq[t], p) ELSE sendq[t],
              wst[t])
    BY <1>1, GrowTaken, Zenon
  <2>5. sendq'[t] = IF p.from = Other(t) THEN Append(sendq[t], p) ELSE sendq[t]
    <3>1. sendq[t] \o <<p>> = Append(sendq[t], p)
      BY <1>1
    <3> QED
      BY <2>2, <2>3, <3>1 DEF TypeOK
  <2> QED
    BY <2>1, <2>2, <2>4, <2>5
<1>4. ASSUME NEW s \in Sides, wst' = [wst EXCEPT ![s] = Closed(s, out[s])], UNCHANGED <<log, got, out, sendq>>
      PROVE  Taken(log', Other(t), got'[t], out'[t], sendq'[t], wst'[t])
  <2>1. wst'[t] = wst[t] \/ wst'[t] = Closed(s, out[t])
    BY <1>4 DEF TypeOK
  <2> QED
    BY <1>1, <1>4, <2>1, CloseTaken
<1>5. CASE BringDown
  BY <1>4, <1>5 DEF BringDown, clientVars, Sides
<1>6. CASE ProbeClosed
  BY <1>4, <1>6 DEF ProbeClosed, clientVars, Sides
<1> QED
  BY <1>2, <1>3, <1>5, <1>6
  DEF HandlerStep, Wait, HandlePacket, LogFails, HandleOver, ProviderClosed, clientVars

-----------------------------------------------------------------------------
(***************************************************************************)
(* Causes                                                                  *)
(***************************************************************************)

Waiting(q, l, s) == \A i \in DOMAIN q : Caused(q[i], l, s)

LEMMA CauseInvIs ==
  /\ CauseInv <=> Causal(log) /\ \A s \in Sides : Waiting(inq[s], log, s) /\ Waiting(hand[s], log, s)
  /\ CauseInv' <=> Causal(log') /\ \A s \in Sides : Waiting(inq'[s], log', s) /\ Waiting(hand'[s], log', s)
BY CausalIs DEF CauseInv, Waiting

LEMMA WaitingPackets ==
  ASSUME NEW l \in Seq(Packets), NEW s \in Sides, NEW q \in Seq(Packets), Waiting(q, l, s)
  PROVE  /\ \A p \in Packets : Caused(p, l, s) => Waiting(Append(q, p), l, s)
         /\ \A p \in Packets : Waiting(q, Append(l, p), s)
         /\ q # <<>> => Waiting(Tail(q), l, s) /\ Waiting(<<Head(q)>>, l, s)
         /\ Waiting(<<>>, l, s)
<1>1. ASSUME NEW p \in Packets, Caused(p, l, s) PROVE Waiting(Append(q, p), l, s)
  BY <1>1 DEF Waiting
<1>2. ASSUME NEW p \in Packets PROVE Waiting(q, Append(l, p), s)
  <2>1. /\ Count(l, Other(s)) \in Nat
        /\ Count(Append(l, p), Other(s)) = Count(l, Other(s)) \/ Count(Append(l, p), Other(s)) = Count(l, Other(s)) + 1
    BY CountType, AppendRow
  <2>2. \A i \in DOMAIN q : q[i].after \in Nat
    BY PacketType
  <2> QED
    BY <2>1, <2>2 DEF Waiting, Caused
<1>3. q # <<>> => Waiting(Tail(q), l, s) /\ Waiting(<<Head(q)>>, l, s)
  BY DEF Waiting
<1>4. Waiting(<<>>, l, s)
  BY DEF Waiting
<1> QED
  BY <1>1, <1>2, <1>3, <1>4

LEMMA ClientCause ==
  ASSUME TypeOK, LogInv, FlowInv, CauseInv, NEW s \in Sides, ClientStep(s) \/ Flush(s)
  PROVE  CauseInv'
<1>1. /\ Causal(log) /\ log \in Seq(Packets)
      /\ \A t \in Sides : Waiting(inq[t], log, t) /\ Waiting(hand[t], log, t) /\ inq[t] \in Seq(Packets)
  BY CauseInvIs, SequenceTypes DEF TypeOK
<1>2. CASE UNCHANGED <<inq, hand, log>>
  BY <1>1, <1>2, CauseInvIs
<1>3. CASE ClientSends(s)
  <2> DEFINE p == [from |-> s, n |-> Len(sent[s]) + 1, after |-> Len(got[s])]
  <2>1. inq' = [inq EXCEPT ![s] = Append(@, p)] /\ UNCHANGED <<hand, log>> /\ p \in Packets
    BY <1>3, SentIsPacket DEF ClientSends, taskVars
  <2>2. Len(got[s]) <= Count(log, Other(s))
    <3>1. LoggedTo(log, Other(s), wst[s], Passed(got[s], out[s], sendq[s], wst[s]))
      BY DEF LogInv
    <3>2. /\ Len(got[s]) <= Len(Passed(got[s], out[s], sendq[s], wst[s]))
          /\ Passed(got[s], out[s], sendq[s], wst[s]) \in Seq(Packets) /\ got[s] \in Seq(Packets)
      BY SequenceTypes, PassedType
    <3> DEFINE a == Passed(got[s], out[s], sendq[s], wst[s])
    <3>3. Len(a) \in Nat /\ Len(got[s]) \in Nat /\ Len(a) <= Count(log, Other(s)) /\ Count(log, Other(s)) \in Nat
      BY <1>1, <3>1, <3>2, CountType DEF LoggedTo
    <3> HIDE DEF a
    <3> QED
      BY <3>2, <3>3 DEF a
  <2>3. Caused(p, log, s)
    BY <2>2 DEF Caused
  <2> HIDE DEF p
  <2>4. Waiting(Append(inq[s], p), log, s)
    BY <1>1, <2>1, <2>3, WaitingPackets
  <2>5. \A t \in Sides : inq'[t] = IF t = s THEN Append(inq[s], p) ELSE inq[t]
    BY <2>1 DEF TypeOK
  <2> QED
    BY <1>1, <2>1, <2>4, <2>5, CauseInvIs
<1> QED
  BY <1>2, <1>3 DEF ClientStep, ClientEnds, ConnectionLost, Flush, taskVars

LEMMA TaskCause ==
  ASSUME TypeOK, CauseInv, NEW s \in Sides, TaskStep(s)
  PROVE  CauseInv'
<1>1. /\ Causal(log) /\ log \in Seq(Packets)
      /\ \A t \in Sides : Waiting(inq[t], log, t) /\ Waiting(hand[t], log, t) /\ inq[t] \in Seq(Packets)
  BY CauseInvIs, SequenceTypes DEF TypeOK
<1>2. CASE UNCHANGED <<inq, hand, log>>
  BY <1>1, <1>2, CauseInvIs
<1>3. CASE Recv(s)
  <2>1. /\ inq[s] # <<>> /\ log' = log
        /\ \A t \in Sides : /\ inq'[t] = IF t = s THEN Tail(inq[s]) ELSE inq[t]
                            /\ hand'[t] = IF t = s THEN <<Head(inq[s])>> ELSE hand[t]
    BY <1>3 DEF Recv, TypeOK
  <2>2. Waiting(Tail(inq[s]), log, s) /\ Waiting(<<Head(inq[s])>>, log, s)
    BY <1>1, <2>1, WaitingPackets
  <2> QED
    BY <1>1, <2>1, <2>2, CauseInvIs
<1> QED
  BY <1>2, <1>3 DEF TaskStep, RecvOver, SendWrites, SendDrained, clientVars, taskVars

LEMMA HandlerCause ==
  ASSUME TypeOK, StageInv, CauseInv, HandlerStep
  PROVE  CauseInv'
<1>1. /\ Causal(log) /\ log \in Seq(Packets)
      /\ \A t \in Sides : /\ Waiting(inq[t], log, t) /\ Waiting(hand[t], log, t)
                          /\ inq[t] \in Seq(Packets) /\ hand[t] \in Seq(Packets)
  BY CauseInvIs, SequenceTypes DEF TypeOK
<1>2. CASE UNCHANGED <<inq, hand, log>>
  BY <1>1, <1>2, CauseInvIs
<1>3. CASE LogAndForward
  <2>1. PICK p \in Packets : hand[cur] = <<p>> /\ Caused(p, log, cur) /\ log' = Append(log, p)
    BY <1>3, LogsOne
  <2>2. /\ cur \in Sides /\ inq' = inq
        /\ \A t \in Sides : hand'[t] = IF t = cur THEN <<>> ELSE hand[t]
    BY <1>3 DEF LogAndForward, TypeOK
  <2>3. Causal(log')
    BY <1>1, <2>1, <2>2, AppendCausal
  <2>4. \A t \in Sides : Waiting(inq[t], log', t) /\ Waiting(hand[t], log', t)
    BY <1>1, <2>1, WaitingPackets
  <2>5. \A t \in Sides : Waiting(<<>>, log', t)
    BY DEF Waiting
  <2> QED
    BY <2>2, <2>3, <2>4, <2>5, CauseInvIs
<1>4. CASE BringDown
  <2>1. inq' = inq /\ log' = log /\ \A t \in Sides : hand'[t] = <<>>
    BY <1>4 DEF BringDown
  <2>2. \A t \in Sides : Waiting(<<>>, log, t)
    BY DEF Waiting
  <2> QED
    BY <1>1, <2>1, <2>2, CauseInvIs
<1> QED
  BY <1>2, <1>3, <1>4
  DEF HandlerStep, Wait, HandlePacket, LogFails, HandleOver, ProbeClosed, ProviderClosed

-----------------------------------------------------------------------------
(***************************************************************************)
(* The theorems about the log                                              *)
(***************************************************************************)

LEMMA InitIInv == Init => IInv
<1> SUFFICES ASSUME Init PROVE IInv
  OBVIOUS
<1>1. /\ sent = [s \in Sides |-> <<>>] /\ inq = [s \in Sides |-> <<>>] /\ hand = [s \in Sides |-> <<>>]
      /\ sendq = [s \in Sides |-> <<>>] /\ out = [s \in Sides |-> <<>>] /\ got = [s \in Sides |-> <<>>]
      /\ log = <<>> /\ rd = [s \in Sides |-> "reading"] /\ wst = [s \in Sides |-> "open"]
      /\ <<>> \in Seq(Packets) /\ Len(<<>>) = 0 /\ DOMAIN <<>> = {}
  BY DEF Init
<1>2. TypeOK
  BY <1>1 DEF Init, TypeOK, Sides
<1>3. StageInv
  BY DEF Init, StageInv, Up
<1>4. FlowInv
  BY <1>1, TwoSides, RelayAssumption DEF FlowInv
<1>5. \A s : RowsOf(log, s) = {} /\ Count(log, s) = 0
  <2>1. \A s : RowsOf(log, s) = {}
    BY <1>1 DEF RowsOf
  <2>2. Cardinality({}) = 0
    BY FS_EmptySet
  <2> QED
    BY <2>1, <2>2 DEF Count
<1>6. LogInv
  <2>1. Passed(<<>>, <<>>, <<>>, "open") = <<>>
    <3>1. <<>> \in Seq(Packets) /\ <<>> \o <<>> = <<>>
      OBVIOUS
    <3> QED
      BY <3>1, Zenon DEF Passed
  <2>2. \A s \in Sides : LoggedTo(log, Other(s), "open", <<>>)
    BY <1>1, <1>5 DEF LoggedTo
  <2> QED
    BY <1>1, <2>1, <2>2 DEF LogInv
<1>7. CauseInv
  BY <1>1 DEF CauseInv, LogCausal
<1> QED
  BY <1>2, <1>3, <1>4, <1>6, <1>7 DEF IInv

LEMMA NextIInv == IInv /\ [Next]_vars => IInv'
<1> SUFFICES ASSUME IInv, [Next]_vars PROVE IInv'
  OBVIOUS
<1>0. TypeOK /\ StageInv /\ FlowInv /\ LogInv /\ CauseInv
  BY DEF IInv
<1>1. ASSUME NEW s \in Sides, ClientStep(s) \/ Flush(s) PROVE TypeOK' /\ FlowInv' /\ LogInv' /\ CauseInv'
  BY <1>0, <1>1, ClientType, ClientFlow, ClientLog, ClientCause
<1>2. ASSUME NEW s \in Sides, TaskStep(s) PROVE TypeOK' /\ FlowInv' /\ LogInv' /\ CauseInv'
  BY <1>0, <1>2, TaskType, TaskFlow, TaskLog, TaskCause
<1>3. HandlerStep => TypeOK' /\ FlowInv' /\ LogInv' /\ CauseInv'
  BY <1>0, HandlerType, HandlerFlow, HandlerLog, HandlerCause
<1>4. CASE Next
  <2>1. TypeOK' /\ FlowInv' /\ LogInv' /\ CauseInv'
    BY <1>1, <1>2, <1>3, <1>4 DEF Next
  <2> QED
    BY <1>0, <1>4, <2>1, StageStep DEF IInv
<1>5. CASE UNCHANGED vars
  <2>1. TypeOK' /\ StageInv' /\ FlowInv'
    BY <1>0, <1>5 DEF TypeOK, StageInv, Up, FlowInv, vars
  <2>2. LogInv'
    BY <1>0, <1>5 DEF LogInv, vars
  <2>3. CauseInv'
    BY <1>0, <1>5, CauseInvIs DEF vars
  <2> QED
    BY <2>1, <2>2, <2>3 DEF IInv
<1> QED
  BY <1>4, <1>5

LEMMA SpecIInv == Spec => []IInv
BY InitIInv, NextIInv, PTL DEF Spec

\* The receiving task that is over has exactly one packet for the handler, and
\* a queue without a sending task is empty, for any number of packets.
THEOREM RelayTypeCorrect == Spec => []TypeOK
<1>1. IInv => TypeOK
  BY DEF IInv
<1> QED
  BY <1>1, SpecIInv, PTL

\* What the server writes to a side was committed to the log before, in the same
\* order and without a gap: the row is written before send_background, and what
\* the server has taken over is the log, up to the end a closed transport loses.
THEOREM LogIsComplete == Spec => []LoggedBeforeSent
<1>1. IInv => LoggedBeforeSent
  <2> SUFFICES ASSUME IInv, NEW s \in Sides, NEW n \in DOMAIN (got[s] \o out[s])
               PROVE  IsRow(log, Other(s), n, (got[s] \o out[s])[n])
    BY DEF LoggedBeforeSent
  <2> DEFINE b == got[s] \o out[s]
             a == Passed(got[s], out[s], sendq[s], wst[s])
  <2>1. got[s] \in Seq(Packets) /\ out[s] \in Seq(Packets) /\ sendq[s] \in Seq(Packets)
    BY SequenceTypes DEF IInv
  <2>2. b \in Seq(Packets) /\ (out[s] = <<>> => b = got[s])
    <3>1. \A g \in Seq(Packets) : g \o <<>> = g
      OBVIOUS
    <3>2. b \in Seq(Packets)
      BY <2>1
    <3> QED
      BY <2>1, <3>1, <3>2
  <2>3. (wst[s] = "closed" => out[s] = <<>>) /\ \A i \in DOMAIN a : IsRow(log, Other(s), i, a[i])
    BY DEF IInv, LogInv, LoggedTo
  <2>4. a = IF wst[s] = "closed" THEN got[s] ELSE b \o sendq[s]
    BY DEF Passed
  <2> HIDE DEF a, b
  <2>5. n \in DOMAIN b /\ \A i \in DOMAIN b : i \in DOMAIN (b \o sendq[s]) /\ (b \o sendq[s])[i] = b[i]
    BY <2>1, <2>2, Concat DEF b
  <2>6. n \in DOMAIN a /\ a[n] = b[n]
    BY <2>2, <2>3, <2>4, <2>5
  <2> QED
    BY <2>3, <2>6 DEF b
<1> QED
  BY <1>1, SpecIInv, PTL

\* A packet is logged after every packet its sender had received when it sent
\* it: what a client has received was logged before, and the log only grows.
THEOREM LogIsCausal == Spec => []LogCausal
<1>1. IInv => LogCausal
  BY DEF IInv, CauseInv
<1> QED
  BY <1>1, SpecIInv, PTL

-----------------------------------------------------------------------------
(***************************************************************************)
(* The relay implements the channel                                        *)
(***************************************************************************)

\* What is on its way through the four stages of a direction.
Way(o, q, h, i, sending, reading) ==
  Cat(o, IF sending THEN Cat(Cat(q, h), IF reading THEN i ELSE <<>>) ELSE <<>>)

IsWay(x, o, q, h, i, sending, reading) == x = Way(o, q, h, i, sending, reading)

LEMMA CatAlgebra ==
  /\ <<>> \in Seq(Packets)
  /\ \A a \in Seq(Packets) : Cat(a, <<>>) = a /\ Cat(<<>>, a) = a
  /\ \A a, b \in Seq(Packets) : Cat(a, b) \in Seq(Packets)
  /\ \A a, b, c \in Seq(Packets) : Cat(Cat(a, b), c) = Cat(a, Cat(b, c))
<1>1. /\ <<>> \in Seq(Packets)
      /\ \A a \in Seq(Packets) : Cat(a, <<>>) = a /\ Cat(<<>>, a) = a
      /\ \A a, b \in Seq(Packets) : Cat(a, b) \in Seq(Packets)
  BY DEF Cat
<1>2. \A a, b, c \in Seq(Packets) : Cat(Cat(a, b), c) = Cat(a, Cat(b, c))
  BY CatAssoc
<1> QED
  BY <1>1, <1>2

LEMMA CatOne ==
  /\ \A a \in Seq(Packets) : \A p \in Packets : <<p>> \in Seq(Packets) /\ Append(a, p) = Cat(a, <<p>>)
  /\ \A a \in Seq(Packets) : a # <<>> =>
       /\ Head(a) \in Packets /\ Tail(a) \in Seq(Packets) /\ Cat(<<Head(a)>>, Tail(a)) = a
  /\ \A a \in Seq(Packets) : \A p \in Packets :
       Cat(<<p>>, a) # <<>> /\ Head(Cat(<<p>>, a)) = p /\ Tail(Cat(<<p>>, a)) = a
<1>1. ASSUME NEW a \in Seq(Packets), NEW p \in Packets
      PROVE  /\ <<p>> \in Seq(Packets) /\ Append(a, p) = Cat(a, <<p>>)
             /\ Cat(<<p>>, a) # <<>> /\ Head(Cat(<<p>>, a)) = p
  BY DEF Cat
<1>2. ASSUME NEW a \in Seq(Packets), NEW p \in Packets PROVE Tail(Cat(<<p>>, a)) = a
  <2> DEFINE x == Tail(Cat(<<p>>, a))
  <2>1. x \in Seq(Packets) /\ Len(x) = Len(a) /\ \A n \in 1 .. Len(a) : x[n] = a[n]
    BY DEF Cat
  <2> HIDE DEF x
  <2>2. x = a
    BY <2>1
  <2> QED
    BY <2>2 DEF x
<1>3. ASSUME NEW a \in Seq(Packets), a # <<>>
      PROVE  Head(a) \in Packets /\ Tail(a) \in Seq(Packets) /\ Cat(<<Head(a)>>, Tail(a)) = a
  <2> DEFINE x == Cat(<<Head(a)>>, Tail(a))
  <2>1. Head(a) \in Packets /\ Tail(a) \in Seq(Packets)
    BY <1>3
  <2>2. x \in Seq(Packets) /\ Len(x) = Len(a) /\ \A n \in 1 .. Len(a) : x[n] = a[n]
    BY <1>3 DEF Cat
  <2> HIDE DEF x
  <2>3. x = a
    BY <2>2
  <2> QED
    BY <2>1, <2>3 DEF x
<1> QED
  BY <1>1, <1>2, <1>3

LEMMA CatPrefix ==
  /\ \A a, b \in Seq(Packets) : IsPrefix(a, Cat(a, b))
  /\ \A a \in Seq(Packets) : IsPrefix(a, a) /\ IsPrefix(<<>>, a)
<1>1. ASSUME NEW a \in Seq(Packets), NEW b \in Seq(Packets), Len(a) <= Len(b), \A n \in 1 .. Len(a) : a[n] = b[n]
      PROVE  IsPrefix(a, b)
  <2> DEFINE x == SubSeq(a, 1, Len(a))
             y == SubSeq(b, 1, Len(a))
  <2>1. /\ x \in Seq(Packets) /\ y \in Seq(Packets) /\ Len(x) = Len(a) /\ Len(y) = Len(a)
        /\ \A n \in 1 .. Len(a) : x[n] = y[n]
    BY <1>1
  <2> HIDE DEF x, y
  <2>2. x = y
    BY <2>1
  <2> QED
    BY <1>1, <2>2 DEF x, y, IsPrefix
<1>2. ASSUME NEW a \in Seq(Packets), NEW b \in Seq(Packets) PROVE IsPrefix(a, Cat(a, b))
  <2>1. Cat(a, b) \in Seq(Packets) /\ Len(a) <= Len(Cat(a, b)) /\ \A n \in 1 .. Len(a) : a[n] = Cat(a, b)[n]
    BY DEF Cat
  <2> QED
    BY <1>1, <2>1
<1>3. ASSUME NEW a \in Seq(Packets) PROVE IsPrefix(a, a) /\ IsPrefix(<<>>, a)
  <2> DEFINE e == <<>>
  <2>1. e \in Seq(Packets) /\ Cat(a, e) = a /\ Cat(e, a) = a
    BY CatAlgebra
  <2> HIDE DEF e
  <2>2. IsPrefix(a, Cat(a, e)) /\ IsPrefix(e, Cat(e, a))
    BY <1>2, <2>1
  <2> QED
    BY <2>1, <2>2 DEF e
<1> QED
  BY <1>2, <1>3

LEMMA CatMoves ==
  ASSUME NEW a \in Seq(Packets), NEW b \in Seq(Packets), NEW c \in Seq(Packets)
  PROVE  /\ \A p \in Packets : Append(Cat(a, b), p) = Cat(a, Append(b, p))
         /\ b # <<>> => Cat(Append(a, Head(b)), Cat(Tail(b), c)) = Cat(a, Cat(b, c))
         /\ b # <<>> => Cat(b, c) # <<>> /\ Head(Cat(b, c)) = Head(b) /\ Tail(Cat(b, c)) = Cat(Tail(b), c)
<1>1. ASSUME NEW p \in Packets PROVE Append(Cat(a, b), p) = Cat(a, Append(b, p))
  <2> DEFINE x == <<p>>
  <2>1. /\ x \in Seq(Packets) /\ Cat(a, b) \in Seq(Packets)
        /\ Append(Cat(a, b), p) = Cat(Cat(a, b), x) /\ Append(b, p) = Cat(b, x)
    BY CatAlgebra, CatOne
  <2> HIDE DEF x
  <2> QED
    BY <2>1, CatAlgebra
<1>2. ASSUME b # <<>> PROVE Cat(b, c) = Cat(<<Head(b)>>, Cat(Tail(b), c)) /\ Cat(Tail(b), c) \in Seq(Packets)
  <2>1. Cat(<<Head(b)>>, Tail(b)) = b /\ Tail(b) \in Seq(Packets) /\ <<Head(b)>> \in Seq(Packets)
    BY <1>2, CatOne
  <2>2. Cat(Cat(<<Head(b)>>, Tail(b)), c) = Cat(<<Head(b)>>, Cat(Tail(b), c)) /\ Cat(Tail(b), c) \in Seq(Packets)
    BY <2>1, CatAlgebra
  <2> QED
    BY <2>1, <2>2
<1>3. ASSUME b # <<>> PROVE Cat(Append(a, Head(b)), Cat(Tail(b), c)) = Cat(a, Cat(b, c))
  <2>1. <<Head(b)>> \in Seq(Packets) /\ Append(a, Head(b)) = Cat(a, <<Head(b)>>)
    BY <1>3, CatOne
  <2> DEFINE t == Cat(Tail(b), c)
  <2>2. t \in Seq(Packets) /\ Cat(b, c) = Cat(<<Head(b)>>, t)
    BY <1>2, <1>3
  <2> HIDE DEF t
  <2>3. Cat(Cat(a, <<Head(b)>>), t) = Cat(a, Cat(<<Head(b)>>, t))
    BY <2>1, <2>2, CatAlgebra
  <2> QED
    BY <2>1, <2>2, <2>3 DEF t
<1>4. ASSUME b # <<>>
      PROVE  Cat(b, c) # <<>> /\ Head(Cat(b, c)) = Head(b) /\ Tail(Cat(b, c)) = Cat(Tail(b), c)
  <2>1. Head(b) \in Packets
    BY <1>4, CatOne
  <2> QED
    BY <1>2, <1>4, <2>1, CatOne
<1> QED
  BY <1>1, <1>3, <1>4

\* What reaches a transport from the stages before it.
Rest(q, h, i, sending, reading) ==
  IF sending THEN Cat(Cat(q, h), IF reading THEN i ELSE <<>>) ELSE <<>>

\* A packet that moves on from one stage to the next stays where it is on its
\* way; one that is sent is last on it, one that arrives was first.
LEMMA WayMoves ==
  ASSUME NEW o \in Seq(Packets), NEW q \in Seq(Packets), NEW h \in Seq(Packets), NEW i \in Seq(Packets),
         NEW sn, NEW rg,
         NEW x, IsWay(x, o, q, h, i, sn, rg)
  PROVE  /\ x \in Seq(Packets)
         /\ \A p \in Packets : IsWay(IF sn /\ rg THEN Append(x, p) ELSE x, o, q, h, Append(i, p), sn, rg)
         /\ h = <<>> /\ i # <<>> /\ rg => IsWay(x, o, q, <<Head(i)>>, Tail(i), sn, rg)
         /\ IsWay(x, o, Cat(q, h), <<>>, i, sn, rg)
         /\ o # <<>> => x # <<>> /\ Head(x) = Head(o) /\ IsWay(Tail(x), Tail(o), q, h, i, sn, rg)
<1>1. /\ Cat(q, h) \in Seq(Packets) /\ Cat(Cat(q, h), i) \in Seq(Packets) /\ <<>> \in Seq(Packets)
      /\ Cat(Cat(q, h), <<>>) = Cat(q, h) /\ Cat(q, <<>>) = q
  BY CatAlgebra
<1>2. Rest(q, h, i, sn, rg) \in Seq(Packets)
  BY <1>1 DEF Rest
<1>3. ASSUME NEW p \in Packets
      PROVE  Rest(q, h, Append(i, p), sn, rg) =
               IF sn /\ rg THEN Append(Rest(q, h, i, sn, rg), p) ELSE Rest(q, h, i, sn, rg)
  <2>1. Append(Cat(Cat(q, h), i), p) = Cat(Cat(q, h), Append(i, p))
    BY <1>1, CatMoves
  <2>2. CASE sn /\ rg
    BY <2>1, <2>2 DEF Rest
  <2>3. CASE ~(sn /\ rg)
    BY <2>3 DEF Rest
  <2> QED
    BY <2>2, <2>3
<1>4. ASSUME i # <<>>, rg PROVE Rest(q, <<Head(i)>>, Tail(i), sn, rg) = Rest(q, <<>>, i, sn, rg)
  <2> DEFINE y == <<Head(i)>>
             t == Tail(i)
  <2>1. y \in Seq(Packets) /\ t \in Seq(Packets) /\ Cat(y, t) = i
    BY <1>4, CatOne
  <2> HIDE DEF y, t
  <2>2. Cat(Cat(q, y), t) = Cat(q, i)
    BY <2>1, CatAlgebra
  <2>3. Rest(q, y, t, sn, rg) = Rest(q, <<>>, i, sn, rg)
    BY <1>1, <1>4, <2>2 DEF Rest
  <2> QED
    BY <2>3 DEF y, t
<1>5. Rest(Cat(q, h), <<>>, i, sn, rg) = Rest(q, h, i, sn, rg)
  <2> DEFINE y == Cat(q, h)
  <2>1. Cat(y, <<>>) = y
    BY <1>1
  <2> HIDE DEF y
  <2>2. Rest(y, <<>>, i, sn, rg) = IF sn THEN Cat(y, IF rg THEN i ELSE <<>>) ELSE <<>>
    BY <2>1 DEF Rest
  <2> QED
    BY <2>2 DEF Rest, y
<1>6. \A p, a, b, c, f, g : Way(p, a, b, c, f, g) = Cat(p, Rest(a, b, c, f, g))
  BY DEF Way, Rest
<1> DEFINE r == Rest(q, h, i, sn, rg)
<1>7. r \in Seq(Packets)
  BY <1>2
<1>8. Way(o, q, h, i, sn, rg) = Cat(o, r) /\ Cat(o, r) \in Seq(Packets)
  BY <1>6, <1>7, CatAlgebra
<1>9. ASSUME NEW p \in Packets
      PROVE  Way(o, q, h, Append(i, p), sn, rg) =
               IF sn /\ rg THEN Append(Way(o, q, h, i, sn, rg), p) ELSE Way(o, q, h, i, sn, rg)
  <2>1. Rest(q, h, Append(i, p), sn, rg) = IF sn /\ rg THEN Append(r, p) ELSE r
    BY <1>3
  <2>2. Way(o, q, h, Append(i, p), sn, rg) = Cat(o, Rest(q, h, Append(i, p), sn, rg))
    BY <1>6
  <2> HIDE DEF r
  <2>3. Append(Cat(o, r), p) = Cat(o, Append(r, p))
    BY <1>7, CatMoves
  <2> QED
    BY <1>8, <2>1, <2>2, <2>3
<1>10. h = <<>> /\ i # <<>> /\ rg => Way(o, q, <<Head(i)>>, Tail(i), sn, rg) = Way(o, q, h, i, sn, rg)
  BY <1>6, <1>4, Zenon
<1>11. Way(o, Cat(q, h), <<>>, i, sn, rg) = Way(o, q, h, i, sn, rg)
  BY <1>6, <1>5, Zenon
<1>12. ASSUME o # <<>>
      PROVE  /\ Way(o, q, h, i, sn, rg) # <<>>
             /\ Head(Way(o, q, h, i, sn, rg)) = Head(o)
             /\ Tail(Way(o, q, h, i, sn, rg)) = Way(Tail(o), q, h, i, sn, rg)
  <2>1. Way(Tail(o), q, h, i, sn, rg) = Cat(Tail(o), r)
    BY <1>6
  <2> HIDE DEF r
  <2>2. Cat(o, r) # <<>> /\ Head(Cat(o, r)) = Head(o) /\ Tail(Cat(o, r)) = Cat(Tail(o), r)
    BY <1>7, <1>12, CatMoves
  <2> QED
    BY <1>8, <2>1, <2>2
<1>13. x = Way(o, q, h, i, sn, rg)
  BY DEF IsWay
<1> HIDE DEF r
<1>14. \A p \in Packets : IsWay(IF sn /\ rg THEN Append(x, p) ELSE x, o, q, h, Append(i, p), sn, rg)
  BY <1>9, <1>13, Zenon DEF IsWay
<1>15. /\ h = <<>> /\ i # <<>> /\ rg => IsWay(x, o, q, <<Head(i)>>, Tail(i), sn, rg)
       /\ IsWay(x, o, Cat(q, h), <<>>, i, sn, rg)
  BY <1>10, <1>11, <1>13, Zenon DEF IsWay
<1>16. o # <<>> => x # <<>> /\ Head(x) = Head(o) /\ IsWay(Tail(x), Tail(o), q, h, i, sn, rg)
  BY <1>12, <1>13, Zenon DEF IsWay
<1> QED
  BY <1>8, <1>13, <1>14, <1>15, <1>16

LEMMA WayWrites ==
  ASSUME NEW o \in Seq(Packets), NEW q \in Seq(Packets), NEW h \in Seq(Packets), NEW i \in Seq(Packets),
         NEW sn, NEW rg, NEW x, IsWay(x, o, q, h, i, sn, rg), q # <<>>, sn
  PROVE  IsWay(x, Append(o, Head(q)), Tail(q), h, i, sn, rg)
<1> DEFINE z == IF rg THEN i ELSE <<>>
           y == Cat(h, z)
           t == Tail(q)
           o1 == Append(o, Head(q))
<1>1. z \in Seq(Packets) /\ y \in Seq(Packets) /\ t \in Seq(Packets)
  BY CatAlgebra, CatOne
<1>2. Cat(o1, Cat(t, y)) = Cat(o, Cat(q, y))
  BY <1>1, CatMoves
<1>3. Way(o, q, h, i, sn, rg) = Cat(o, Cat(Cat(q, h), z)) /\ Way(o1, t, h, i, sn, rg) = Cat(o1, Cat(Cat(t, h), z))
  BY DEF Way
<1> HIDE DEF z, t, o1
<1>4. Cat(Cat(q, h), z) = Cat(q, y) /\ Cat(Cat(t, h), z) = Cat(t, y)
  BY <1>1, CatAlgebra
<1>5. Way(o1, t, h, i, sn, rg) = Way(o, q, h, i, sn, rg)
  BY <1>2, <1>3, <1>4
<1> QED
  BY <1>5 DEF t, o1, IsWay

\* A direction that breaks keeps the beginning of what was on its way.
LEMMA WayBreaks ==
  ASSUME NEW o \in Seq(Packets), NEW q \in Seq(Packets), NEW h \in Seq(Packets), NEW i \in Seq(Packets),
         NEW sn, NEW rg, NEW sn1, sn1 => sn
  PROVE  /\ IsPrefix(Way(o, q, h, i, sn1, FALSE), Way(o, q, h, i, sn, rg))
         /\ IsPrefix(Way(o, q, <<>>, i, sn1, FALSE), Way(o, q, h, i, sn, rg))
         /\ IsPrefix(Way(o, q, h, i, FALSE, rg), Way(o, q, h, i, sn, rg))
         /\ IsPrefix(<<>>, Way(o, q, h, i, sn, rg))
         /\ Way(<<>>, q, h, i, FALSE, rg) = <<>>
<1> DEFINE r == IF rg THEN i ELSE <<>>
           w == Way(o, q, h, i, sn, rg)
           x == Cat(q, h)
<1>1. /\ r \in Seq(Packets) /\ x \in Seq(Packets) /\ w \in Seq(Packets) /\ <<>> \in Seq(Packets)
      /\ Cat(x, <<>>) = x /\ Cat(q, <<>>) = q /\ Cat(o, <<>>) = o /\ Cat(<<>>, <<>>) = <<>>
  <2>1. r \in Seq(Packets) /\ x \in Seq(Packets) /\ <<>> \in Seq(Packets)
    BY CatAlgebra
  <2>2. w \in Seq(Packets)
    <3>1. IsWay(w, o, q, h, i, sn, rg)
      BY DEF IsWay
    <3> HIDE DEF w
    <3> QED
      BY <3>1, WayMoves, Zenon
  <2> HIDE DEF r, x, w
  <2> QED
    BY <2>1, <2>2, CatAlgebra, Zenon
<1>2. /\ Way(o, q, h, i, sn1, FALSE) = IF sn1 THEN Cat(o, x) ELSE o
      /\ Way(o, q, <<>>, i, sn1, FALSE) = IF sn1 THEN Cat(o, q) ELSE o
      /\ Way(o, q, h, i, FALSE, rg) = o /\ Way(<<>>, q, h, i, FALSE, rg) = <<>>
      /\ w = IF sn THEN Cat(o, Cat(x, r)) ELSE o
  BY <1>1 DEF Way
<1>3. IsPrefix(<<>>, w)
  BY <1>1, CatPrefix
<1> HIDE DEF r, w
<1>4. CASE sn
  <2> DEFINE y == Cat(h, r)
  <2>1. y \in Seq(Packets) /\ Cat(x, r) \in Seq(Packets) /\ Cat(o, x) \in Seq(Packets) /\ Cat(o, q) \in Seq(Packets)
    BY <1>1, CatAlgebra
  <2>2. Cat(x, r) = Cat(q, y)
    BY <1>1, CatAlgebra
  <2> HIDE DEF x, y
  <2>3. w = Cat(Cat(o, x), r) /\ w = Cat(Cat(o, q), y)
    BY <1>1, <1>2, <1>4, <2>1, <2>2, CatAlgebra
  <2>4. IsPrefix(Cat(o, x), w) /\ IsPrefix(Cat(o, q), w) /\ IsPrefix(o, w)
    BY <1>1, <1>2, <1>4, <2>1, <2>3, CatPrefix
  <2> QED
    BY <1>2, <1>3, <2>4 DEF w
<1>5. CASE ~sn
  <2>1. w = o /\ IsPrefix(o, o)
    BY <1>2, <1>5, CatPrefix
  <2> QED
    BY <1>2, <1>3, <1>5, <2>1 DEF w
<1> QED
  BY <1>4, <1>5

-----------------------------------------------------------------------------
(***************************************************************************)
(* A step of the relay, seen in the direction to side t                    *)
(***************************************************************************)

Sends(k, w) == k # "dead" /\ w # "closed"
Reads(p, l) == p \in {"wait", "handle", "log"} /\ l # "lost"

\* What is on its way before and after the step, and whether more can follow.
Before(t) ==
  Way(out[t], sendq[t], hand[Other(t)], inq[Other(t)], Sends(stask[t], wst[t]), Reads(hpc, tail[Other(t)]))
After(t) ==
  Way(out'[t], sendq'[t], hand'[Other(t)], inq'[Other(t)], Sends(stask'[t], wst'[t]), Reads(hpc', tail'[Other(t)]))
Alive(t) == Sends(stask[t], wst[t]) /\ Reads(hpc, tail[Other(t)])
AliveAfter(t) == Sends(stask'[t], wst'[t]) /\ Reads(hpc', tail'[Other(t)])

\* The step changes nothing in the direction.
Still(t) == After(t) = Before(t) /\ (AliveAfter(t) <=> Alive(t))

LEMMA ChannelIs ==
  /\ Transit = [t \in Sides |-> Before(t)] /\ Transit' = [t \in Sides |-> After(t)]
  /\ Broken = [t \in Sides |-> ~Alive(t)] /\ Broken' = [t \in Sides |-> ~AliveAfter(t)]
  /\ Inbound = [t \in Sides |-> sent[Other(t)]] /\ Inbound' = [t \in Sides |-> sent'[Other(t)]]
<1>1. Transit = [t \in Sides |-> Before(t)]
  BY Zenon DEF Transit, Before, Way, Cat, Sends, Reads, Sending, Reading, Up
<1>2. Transit' = [t \in Sides |-> After(t)]
  BY Zenon DEF Transit, After, Way, Cat, Sends, Reads, Sending, Reading, Up
<1>3. Broken = [t \in Sides |-> ~Alive(t)]
  BY DEF Broken, Alive, Sends, Reads, Sending, Reading, Up
<1>4. Broken' = [t \in Sides |-> ~AliveAfter(t)]
  BY DEF Broken, AliveAfter, Sends, Reads, Sending, Reading, Up
<1> QED
  BY <1>1, <1>2, <1>3, <1>4 DEF Inbound

LEMMA StillIs ==
  ASSUME NEW t, out'[t] = out[t], sendq'[t] = sendq[t], hand'[Other(t)] = hand[Other(t)],
         inq'[Other(t)] = inq[Other(t)], stask'[t] = stask[t], wst'[t] = wst[t],
         tail'[Other(t)] = tail[Other(t)], hpc' = hpc
  PROVE  Still(t)
BY Zenon DEF Still, After, Before, AliveAfter, Alive

\* A step that is quiet in both directions.
LEMMA QuietStep ==
  ASSUME UNCHANGED <<sent, got>>, \A t \in Sides : Still(t)
  PROVE  UNCHANGED <<Inbound, Transit, got, Broken>>
<1>1. [t \in Sides |-> After(t)] = [t \in Sides |-> Before(t)]
  BY DEF Still
<1>2. [t \in Sides |-> ~AliveAfter(t)] = [t \in Sides |-> ~Alive(t)]
  BY DEF Still
<1>3. Inbound' = Inbound
  BY DEF Inbound
<1> QED
  BY <1>1, <1>2, <1>3, ChannelIs

\* A step with which directions break.
LEMMA BreakStep ==
  ASSUME UNCHANGED <<sent, got>>,
         \A t \in Sides : /\ IsPrefix(After(t), Before(t))
                          /\ AliveAfter(t) => Alive(t) /\ After(t) = Before(t)
  PROVE  Channel!Break
<1>1. \A a, b : IsPrefix(a, b) => Channel!IsPrefix(a, b)
  BY DEF IsPrefix, Channel!IsPrefix
<1>2. ASSUME NEW t \in Sides PROVE Channel!Remains(t, Transit[t])
  <2>1. Transit[t] = Before(t) /\ Transit'[t] = After(t) /\ Broken[t] = ~Alive(t) /\ Broken'[t] = ~AliveAfter(t)
    BY ChannelIs
  <2> QED
    BY <1>1, <2>1 DEF Channel!Remains
<1>3. Inbound' = Inbound
  BY DEF Inbound
<1> QED
  BY <1>2, <1>3 DEF Channel!Break

\* The four stages that lead to side t.
LEMMA StageTypes ==
  ASSUME TypeOK, NEW t \in Sides
  PROVE  /\ out[t] \in Seq(Packets) /\ sendq[t] \in Seq(Packets)
         /\ hand[Other(t)] \in Seq(Packets) /\ inq[Other(t)] \in Seq(Packets)
BY SequenceTypes, TwoSides

\* The tasks only move packets along.
LEMMA TaskStill ==
  ASSUME TypeOK, StageInv, NEW s \in Sides, TaskStep(s)
  PROVE  UNCHANGED <<Inbound, Transit, got, Broken>>
<1>1. UNCHANGED <<sent, got>>
  BY DEF TaskStep, Recv, RecvOver, SendWrites, SendDrained, clientVars
<1> SUFFICES ASSUME NEW t \in Sides PROVE Still(t)
  BY <1>1, QuietStep
<1>2. CASE Recv(s)
  <2>1. CASE Other(t) # s
    BY <1>2, <2>1, StillIs DEF Recv, TypeOK, clientVars
  <2>2. CASE Other(t) = s
    <3>1. /\ inq'[s] = Tail(inq[s]) /\ hand'[s] = <<Head(inq[s])>> /\ inq[s] # <<>> /\ rd[s] = "reading"
          /\ tail[s] # "lost" /\ UNCHANGED <<out, sendq, stask, wst, tail, hpc>>
      BY <1>2 DEF Recv, TypeOK, clientVars
    <3>2. hand[s] = <<>> /\ hand[s] \in Seq(Packets)
      BY <3>1, SequenceTypes
    <3>3. Reads(hpc, tail[s])
      BY <3>1 DEF StageInv, Up, Reads
    <3>4. IsWay(Before(t), out[t], sendq[t], <<Head(inq[s])>>, Tail(inq[s]), Sends(stask[t], wst[t]), Reads(hpc, tail[s]))
      <4> DEFINE sn == Sends(stask[t], wst[t])
                 rg == Reads(hpc, tail[s])
                 x == Before(t)
                 o == out[t]  q == sendq[t]  h == hand[s]  i == inq[s]
      <4>1. IsWay(x, o, q, h, i, sn, rg)
        BY <2>2, Zenon DEF IsWay, Before
      <4>2. /\ o \in Seq(Packets) /\ q \in Seq(Packets) /\ h \in Seq(Packets) /\ i \in Seq(Packets)
            /\ h = <<>> /\ i # <<>> /\ rg
        BY <3>1, <3>2, <3>3, SequenceTypes
      <4> HIDE DEF sn, rg, x, o, q, h, i
      <4>3. IsWay(x, o, q, <<Head(i)>>, Tail(i), sn, rg)
        BY <4>1, <4>2, WayMoves, Zenon
      <4> QED
        BY <4>3 DEF sn, rg, x, o, q, h, i
    <3>5. After(t) = Before(t)
      BY <2>2, <3>1, <3>4, Zenon DEF After, IsWay
    <3>6. AliveAfter(t) <=> Alive(t)
      BY <3>1 DEF AliveAfter, Alive
    <3> QED
      BY <3>5, <3>6 DEF Still
  <2> QED
    BY <2>1, <2>2
<1>3. CASE RecvOver(s)
  BY <1>3, StillIs DEF RecvOver, clientVars
<1>4. CASE SendWrites(s)
  <2>0. UNCHANGED <<inq, hand, wst, tail, hpc>>
    BY <1>4 DEF SendWrites, clientVars, taskVars
  <2>1. CASE t # s
    BY <1>4, <2>0, <2>1, StillIs DEF SendWrites, TypeOK
  <2>2. CASE t = s /\ wst[t] = "closed"
    <3>1. out'[t] = out[t]
      BY <1>4, <2>2 DEF SendWrites, TypeOK
    <3>2. ~Sends(stask[t], wst[t]) /\ ~Sends(stask'[t], wst'[t])
      BY <2>0, <2>2 DEF Sends
    <3> QED
      BY <2>0, <3>1, <3>2 DEF Still, After, Before, AliveAfter, Alive, Way
  <2>3. CASE t = s /\ wst[t] # "closed"
    <3>1. /\ out'[t] = Append(out[t], Head(sendq[t])) /\ sendq'[t] = Tail(sendq[t]) /\ sendq[t] # <<>>
          /\ stask[t] = "get" /\ stask'[t] = "drain"
      BY <1>4, <2>3 DEF SendWrites, TypeOK
    <3>2. Sends(stask[t], wst[t]) /\ Sends(stask'[t], wst'[t]) = Sends(stask[t], wst[t])
      BY <2>0, <2>3, <3>1 DEF Sends
    <3>3. IsWay(Before(t), Append(out[t], Head(sendq[t])), Tail(sendq[t]), hand[Other(t)], inq[Other(t)],
                Sends(stask[t], wst[t]), Reads(hpc, tail[Other(t)]))
      <4> DEFINE sn == Sends(stask[t], wst[t])
                 rg == Reads(hpc, tail[Other(t)])
                 x == Before(t)
                 o == out[t]  q == sendq[t]  h == hand[Other(t)]  i == inq[Other(t)]
      <4>1. IsWay(x, o, q, h, i, sn, rg)
        BY Zenon DEF IsWay, Before
      <4>2. /\ o \in Seq(Packets) /\ q \in Seq(Packets) /\ h \in Seq(Packets) /\ i \in Seq(Packets)
            /\ q # <<>> /\ sn
        BY <3>1, <3>2, StageTypes
      <4> HIDE DEF sn, rg, x, o, q, h, i
      <4>3. IsWay(x, Append(o, Head(q)), Tail(q), h, i, sn, rg)
        BY <4>1, <4>2, WayWrites, Zenon
      <4> QED
        BY <4>3 DEF sn, rg, x, o, q, h, i
    <3>4. After(t) = Before(t)
      BY <2>0, <3>1, <3>2, <3>3, Zenon DEF After, IsWay
    <3>5. AliveAfter(t) <=> Alive(t)
      BY <2>0, <3>2, Zenon DEF AliveAfter, Alive
    <3> QED
      BY <3>4, <3>5 DEF Still
  <2> QED
    BY <2>1, <2>2, <2>3
<1>5. CASE SendDrained(s)
  <2>1. UNCHANGED <<inq, hand, wst, tail, hpc, out, sendq>>
    BY <1>5 DEF SendDrained, clientVars, taskVars
  <2>2. Sends(stask'[t], wst'[t]) = Sends(stask[t], wst[t])
    BY <1>5, <2>1 DEF SendDrained, Sends, TypeOK
  <2> QED
    BY <2>1, <2>2, Zenon DEF Still, After, Before, AliveAfter, Alive
<1> QED
  BY <1>2, <1>3, <1>4, <1>5 DEF TaskStep

\* The handler moves a packet along, or breaks what it brings down.
LEMMA HandlerStill ==
  ASSUME TypeOK, StageInv, LogInv, HandlerStep
  PROVE  UNCHANGED <<Inbound, Transit, got, Broken>> \/ Channel!Break
<1>1. UNCHANGED <<sent, got, out, tail>>
  BY DEF HandlerStep, Wait, HandlePacket, LogAndForward, LogFails, HandleOver, BringDown, ProbeClosed,
         ProviderClosed, clientVars
<1>2. CASE UNCHANGED <<sendq, hand, inq, stask, wst>> /\ (Up' <=> Up)
  <2>1. ASSUME NEW t \in Sides PROVE Still(t)
    <3>1. Reads(hpc', tail'[Other(t)]) = Reads(hpc, tail[Other(t)])
      BY <1>1, <1>2 DEF Reads, Up
    <3> QED
      BY <1>1, <1>2, <3>1, Zenon DEF Still, After, Before, AliveAfter, Alive
  <2> QED
    BY <1>1, <2>1, QuietStep
<1>3. CASE LogAndForward
  <2>1. /\ cur \in Sides /\ Other(cur) \in Sides /\ Other(Other(cur)) = cur /\ Other(cur) # cur
        /\ hpc = "log" /\ hpc' \in {"wait", "handle"} /\ inq' = inq /\ wst' = wst
        /\ sendq' = [sendq EXCEPT ![Other(cur)] = @ \o hand[cur]] /\ hand' = [hand EXCEPT ![cur] = <<>>]
        /\ stask' = [stask EXCEPT ![Other(cur)] = IF @ = "none" THEN "get" ELSE @]
    BY <1>3, TwoSides DEF LogAndForward, TypeOK
  <2>2. ASSUME NEW t \in Sides PROVE Still(t)
    <3>1. Reads(hpc', tail'[Other(t)]) = Reads(hpc, tail[Other(t)])
      BY <1>1, <2>1 DEF Reads
    <3>2. Sends(stask'[t], wst'[t]) = Sends(stask[t], wst[t])
      BY <2>1 DEF Sends, TypeOK
    <3>3. CASE t # Other(cur)
      <4>1. sendq'[t] = sendq[t] /\ hand'[Other(t)] = hand[Other(t)]
        BY <2>1, <3>3, TwoSides DEF TypeOK
      <4> QED
        BY <1>1, <2>1, <3>1, <3>2, <4>1, Zenon DEF Still, After, Before, AliveAfter, Alive
    <3>4. CASE t = Other(cur)
      <4>1. sendq'[t] = Cat(sendq[t], hand[Other(t)]) /\ hand'[Other(t)] = <<>>
        BY <2>1, <3>4 DEF TypeOK, Cat
      <4>2. IsWay(Before(t), out[t], Cat(sendq[t], hand[Other(t)]), <<>>, inq[Other(t)], Sends(stask[t], wst[t]),
                  Reads(hpc, tail[Other(t)]))
        <5> DEFINE sn == Sends(stask[t], wst[t])
                   rg == Reads(hpc, tail[Other(t)])
                   x == Before(t)
                   o == out[t]  q == sendq[t]  h == hand[Other(t)]  i == inq[Other(t)]
        <5>1. IsWay(x, o, q, h, i, sn, rg)
          BY Zenon DEF IsWay, Before
        <5>2. o \in Seq(Packets) /\ q \in Seq(Packets) /\ h \in Seq(Packets) /\ i \in Seq(Packets)
          BY StageTypes
        <5> HIDE DEF sn, rg, x, o, q, h, i
        <5>3. IsWay(x, o, Cat(q, h), <<>>, i, sn, rg)
          BY <5>1, <5>2, WayMoves, Zenon
        <5> QED
          BY <5>3 DEF sn, rg, x, o, q, h, i
      <4>3. After(t) = Before(t)
        BY <1>1, <2>1, <3>1, <3>2, <4>1, <4>2, Zenon DEF After, IsWay
      <4> QED
        BY <3>1, <3>2, <4>3, Zenon DEF Still, AliveAfter, Alive
    <3> QED
      BY <3>3, <3>4
  <2> QED
    BY <1>1, <2>2, QuietStep
<1>4. ASSUME NEW s \in Sides, wst' = [wst EXCEPT ![s] = Closed(s, out[s])], inq' = inq, sendq' = sendq, stask' = stask,
             ~Up', wst[s] = "closed" => out[s] = <<>>,
             \A t \in Sides : hand'[t] = hand[t] \/ hand'[t] = <<>>
      PROVE  Channel!Break
  <2>1. ASSUME NEW t \in Sides
        PROVE  IsPrefix(After(t), Before(t)) /\ ~AliveAfter(t)
    <3>1. Reads(hpc', tail'[Other(t)]) = FALSE
      BY <1>4 DEF Up, Reads
    <3>2. Sends(stask'[t], wst'[t]) => Sends(stask[t], wst[t])
      <4>1. wst'[t] = wst[t] \/ (t = s /\ wst'[t] = Closed(s, out[s]))
        BY <1>4 DEF TypeOK
      <4> QED
        BY <1>4, <4>1 DEF Sends, Closed
    <3>3. /\ IsPrefix(Way(out[t], sendq[t], hand[Other(t)], inq[Other(t)], Sends(stask'[t], wst'[t]), FALSE), Before(t))
          /\ IsPrefix(Way(out[t], sendq[t], <<>>, inq[Other(t)], Sends(stask'[t], wst'[t]), FALSE), Before(t))
      BY <3>2, StageTypes, WayBreaks, Zenon DEF Before
    <3>4. hand'[Other(t)] = hand[Other(t)] \/ hand'[Other(t)] = <<>>
      BY <1>4, TwoSides
    <3>5. IsPrefix(After(t), Before(t))
      BY <1>1, <1>4, <3>1, <3>3, <3>4, Zenon DEF After
    <3> QED
      BY <3>1, <3>5 DEF AliveAfter
  <2> QED
    BY <1>1, <2>1, BreakStep
<1>5. \A s \in Sides : wst[s] = "closed" => out[s] = <<>>
  BY DEF LogInv
<1>6. CASE BringDown
  BY <1>4, <1>5, <1>6 DEF BringDown, Sides, Up
<1>7. CASE ProbeClosed
  BY <1>4, <1>5, <1>7 DEF ProbeClosed, Sides, Up
<1>8. CASE Wait \/ ProviderClosed \/ \E s \in Sides : HandlePacket(s)
  BY <1>2, <1>8 DEF Wait, ProviderClosed, HandlePacket, Up
<1> QED
  BY <1>3, <1>6, <1>7, <1>8 DEF HandlerStep, LogFails, HandleOver

\* A client sends, or its connection is lost.
LEMMA ClientChannel ==
  ASSUME TypeOK, FlowInv, NEW s \in Sides, ClientStep(s)
  PROVE  \/ UNCHANGED <<Inbound, Transit, got, Broken>>
         \/ Channel!Break
         \/ \E p \in Packets : Channel!Send(Other(s), p)
<1>1. CASE ClientEnds(s)
  <2>1. UNCHANGED <<sent, got, inq, hand, sendq, stask, out, wst, hpc>> /\ tail[s] = "open" /\ tail' = [tail EXCEPT ![s] = "end"]
    BY <1>1 DEF ClientEnds, taskVars
  <2>2. ASSUME NEW t \in Sides PROVE Still(t)
    <3>1. Reads(hpc', tail'[Other(t)]) = Reads(hpc, tail[Other(t)])
      BY <2>1, TwoSides DEF Reads, TypeOK
    <3> QED
      BY <2>1, <3>1, Zenon DEF Still, After, Before, AliveAfter, Alive
  <2> QED
    BY <2>1, <2>2, QuietStep
<1>2. CASE ConnectionLost(s)
  <2>1. /\ UNCHANGED <<sent, got, inq, hand, sendq, stask, hpc>>
        /\ tail' = [tail EXCEPT ![s] = "lost"] /\ out' = [out EXCEPT ![s] = <<>>] /\ wst' = [wst EXCEPT ![s] = "closed"]
    BY <1>2 DEF ConnectionLost, taskVars
  <2>2. ASSUME NEW t \in Sides PROVE IsPrefix(After(t), Before(t)) /\ ~AliveAfter(t)
    <3> DEFINE o == out[t]  q == sendq[t]  h == hand[Other(t)]  i == inq[Other(t)]
               sn == Sends(stask[t], wst[t])
               rg == Reads(hpc, tail[Other(t)])
               sn1 == Sends(stask'[t], wst'[t])
               rg1 == Reads(hpc', tail'[Other(t)])
    <3>1. o \in Seq(Packets) /\ q \in Seq(Packets) /\ h \in Seq(Packets) /\ i \in Seq(Packets)
      BY StageTypes
    <3>2. Before(t) = Way(o, q, h, i, sn, rg) /\ After(t) = Way(out'[t], q, h, i, sn1, rg1)
      BY <2>1, Zenon DEF Before, After
    <3>3. AliveAfter(t) <=> sn1 /\ rg1
      BY DEF AliveAfter
    <3>4. CASE t = s
      <4>1. out'[t] = <<>> /\ sn1 = FALSE
        BY <2>1, <3>4 DEF Sends, TypeOK
      <4> HIDE DEF o, q, h, i, sn, rg, sn1, rg1
      <4>2. Way(<<>>, q, h, i, FALSE, rg1) = <<>>
        BY DEF Way, Cat
      <4>3. IsPrefix(<<>>, Way(o, q, h, i, sn, rg))
        BY <3>1, WayBreaks, Zenon
      <4> QED
        BY <3>2, <3>3, <4>1, <4>2, <4>3, Zenon
    <3>5. CASE t # s
      <4>1. out'[t] = o /\ sn1 = sn /\ rg1 = FALSE
        BY <2>1, <3>5, TwoSides DEF Sends, Reads, TypeOK
      <4> HIDE DEF o, q, h, i, sn, rg, sn1, rg1
      <4>2. IsPrefix(Way(o, q, h, i, sn, FALSE), Way(o, q, h, i, sn, rg))
        BY <3>1, WayBreaks, Zenon
      <4> QED
        BY <3>2, <3>3, <4>1, <4>2, Zenon
    <3> QED
      BY <3>4, <3>5
  <2> QED
    BY <2>1, <2>2, BreakStep
<1>3. CASE ClientSends(s)
  <2> DEFINE p == [from |-> s, n |-> Len(sent[s]) + 1, after |-> Len(got[s])]
  <2>1. /\ p \in Packets /\ UNCHANGED <<got, hand, sendq, stask, out, wst, hpc, tail>>
        /\ sent' = [sent EXCEPT ![s] = Append(@, p)] /\ inq' = [inq EXCEPT ![s] = Append(@, p)]
    BY <1>3, SentIsPacket DEF ClientSends, taskVars
  <2> HIDE DEF p
  <2>2. \A t \in Sides : AliveAfter(t) <=> Alive(t)
    BY <2>1, Zenon DEF AliveAfter, Alive
  <2>3. ASSUME NEW t \in Sides, t # Other(s) PROVE After(t) = Before(t) /\ sent'[Other(t)] = sent[Other(t)]
    <3>1. Other(t) # s
      BY <2>3, TwoSides
    <3>2. inq'[Other(t)] = inq[Other(t)] /\ sent'[Other(t)] = sent[Other(t)]
      BY <2>1, <3>1, TwoSides DEF TypeOK
    <3> QED
      BY <2>1, <3>2, Zenon DEF After, Before
  <2>4. ASSUME NEW t \in Sides, t = Other(s)
        PROVE  /\ After(t) = IF Alive(t) THEN Append(Before(t), p) ELSE Before(t)
               /\ sent'[Other(t)] = Append(sent[Other(t)], p)
    <3>1. Other(t) = s
      BY <2>4, TwoSides
    <3>2. inq'[Other(t)] = Append(inq[Other(t)], p) /\ sent'[Other(t)] = Append(sent[Other(t)], p)
      BY <2>1, <3>1 DEF TypeOK
    <3> DEFINE o == out[t]  q == sendq[t]  h == hand[Other(t)]  i == inq[Other(t)]
               sn == Sends(stask[t], wst[t])
               rg == Reads(hpc, tail[Other(t)])
               x == Before(t)
    <3>3. o \in Seq(Packets) /\ q \in Seq(Packets) /\ h \in Seq(Packets) /\ i \in Seq(Packets)
      BY StageTypes
    <3>4. IsWay(x, o, q, h, i, sn, rg) /\ (Alive(t) <=> sn /\ rg)
      BY Zenon DEF IsWay, Before, Alive
    <3>5. After(t) = Way(o, q, h, Append(i, p), sn, rg)
      BY <2>1, <3>2, Zenon DEF After
    <3> HIDE DEF o, q, h, i, sn, rg, x
    <3>6. IsWay(IF sn /\ rg THEN Append(x, p) ELSE x, o, q, h, Append(i, p), sn, rg)
      BY <2>1, <3>3, <3>4, WayMoves, Zenon
    <3>7. After(t) = IF sn /\ rg THEN Append(x, p) ELSE x
      BY <3>5, <3>6, Zenon DEF IsWay
    <3>8. After(t) = IF Alive(t) THEN Append(x, p) ELSE x
      BY <3>4, <3>7, Zenon
    <3> QED
      BY <3>2, <3>8 DEF x
  <2>5. Other(s) \in Sides
    BY TwoSides
  <2>6. Inbound' = [Inbound EXCEPT ![Other(s)] = Append(@, p)]
    BY <2>3, <2>4, <2>5, ChannelIs
  <2>7. Transit' = [Transit EXCEPT ![Other(s)] = IF Broken[Other(s)] THEN @ ELSE Append(@, p)]
    BY <2>3, <2>4, <2>5, ChannelIs
  <2>8. Broken' = Broken
    BY <2>2, ChannelIs
  <2> QED
    BY <2>1, <2>6, <2>7, <2>8 DEF Channel!Send
<1> QED
  BY <1>1, <1>2, <1>3 DEF ClientStep

\* A packet arrives; a transport that was closing may be gone with it.
LEMMA FlushDelivers ==
  ASSUME TypeOK, LogInv, NEW s \in Sides, Flush(s)
  PROVE  Channel!Deliver(s)
<1> DEFINE o == out[s]  q == sendq[s]  h == hand[Other(s)]  i == inq[Other(s)]
           sn == Sends(stask[s], wst[s])
           sn1 == Sends(stask'[s], wst'[s])
           rg == Reads(hpc, tail[Other(s)])
           x == Before(s)
<1>1. /\ o # <<>> /\ UNCHANGED <<sent, tail, inq, hand, hpc, sendq, stask>>
      /\ got' = [got EXCEPT ![s] = Append(@, Head(o))] /\ out' = [out EXCEPT ![s] = Tail(@)]
      /\ wst' = [wst EXCEPT ![s] = IF @ = "open" THEN @ ELSE Closed(s, Tail(o))]
  BY DEF Flush, taskVars
<1>2. o \in Seq(Packets) /\ q \in Seq(Packets) /\ h \in Seq(Packets) /\ i \in Seq(Packets)
  BY StageTypes
<1>3. Tail(o) \in Seq(Packets)
  BY <1>1, <1>2
<1>4. IsWay(x, o, q, h, i, sn, rg) /\ (Alive(s) <=> sn /\ rg) /\ (AliveAfter(s) <=> sn1 /\ rg)
  BY <1>1, Zenon DEF IsWay, Before, Alive, AliveAfter
<1>5. After(s) = Way(Tail(o), q, h, i, sn1, rg)
  <2>1. out'[s] = Tail(o)
    BY <1>1 DEF TypeOK
  <2> QED
    BY <1>1, <2>1, Zenon DEF After
<1>6. sn1 = sn \/ sn1 = FALSE
  <2>1. wst[s] # "closed" /\ stask'[s] = stask[s]
    BY <1>1 DEF LogInv
  <2>2. wst'[s] # "closed" \/ wst'[s] = "closed"
    OBVIOUS
  <2> QED
    BY <2>1, <2>2 DEF Sends
<1>7. ASSUME NEW t \in Sides \ {s} PROVE After(t) = Before(t) /\ (AliveAfter(t) <=> Alive(t))
  <2>1. out'[t] = out[t] /\ wst'[t] = wst[t]
    BY <1>1, <1>7 DEF TypeOK
  <2> QED
    BY <1>1, <2>1, Zenon DEF After, Before, AliveAfter, Alive
<1> HIDE DEF o, q, h, i, sn, sn1, rg, x
<1>8. x # <<>> /\ Head(x) = Head(o) /\ IsWay(Tail(x), Tail(o), q, h, i, sn, rg)
  BY <1>1, <1>2, <1>4, WayMoves, Zenon
<1>9. Tail(x) = Way(Tail(o), q, h, i, sn, rg)
  BY <1>8 DEF IsWay
<1>10. Tail(x) \in Seq(Packets)
  <2>1. x \in Seq(Packets)
    BY <1>2, <1>4, WayMoves, Zenon
  <2> QED
    BY <1>8, <2>1
<1>11. IsPrefix(After(s), Tail(x)) /\ (AliveAfter(s) => Alive(s) /\ After(s) = Tail(x))
  <2>1. CASE sn1 = sn
    <3>1. After(s) = Tail(x)
      BY <1>5, <1>9, <2>1, Zenon
    <3>2. IsPrefix(Tail(x), Tail(x))
      BY <1>10, CatPrefix, Zenon
    <3> QED
      BY <1>4, <2>1, <3>1, <3>2, Zenon
  <2>2. CASE sn1 = FALSE
    <3>1. IsPrefix(Way(Tail(o), q, h, i, FALSE, rg), Way(Tail(o), q, h, i, sn, rg))
      BY <1>2, <1>3, WayBreaks, Zenon
    <3> QED
      BY <1>4, <1>5, <1>9, <2>2, <3>1, Zenon
  <2> QED
    BY <1>6, <2>1, <2>2
<1>12. \A a, b : IsPrefix(a, b) => Channel!IsPrefix(a, b)
  BY DEF IsPrefix, Channel!IsPrefix
<1>13. /\ Transit[s] = x /\ Transit'[s] = After(s) /\ Broken[s] = ~Alive(s) /\ Broken'[s] = ~AliveAfter(s)
       /\ \A r \in Sides \ {s} : Transit'[r] = Transit[r] /\ Broken'[r] = Broken[r]
  BY <1>7, ChannelIs DEF x
<1>14. Channel!Remains(s, Tail(Transit[s]))
  BY <1>11, <1>12, <1>13 DEF Channel!Remains
<1>15. Inbound' = Inbound
  BY <1>1 DEF Inbound
<1> QED
  <2>1. Transit[s] # <<>> /\ got' = [got EXCEPT ![s] = Append(@, Head(Transit[s]))]
    BY <1>1, <1>8, <1>13
  <2> QED
    BY <1>13, <1>14, <1>15, <2>1, Zenon DEF Channel!Deliver

LEMMA InitChannel == Init => Channel!Init
<1> SUFFICES ASSUME Init PROVE Channel!Init
  OBVIOUS
<1>1. ASSUME NEW t \in Sides PROVE Before(t) = <<>> /\ Alive(t)
  <2>1. /\ out[t] = <<>> /\ sendq[t] = <<>> /\ hand[Other(t)] = <<>> /\ inq[Other(t)] = <<>>
        /\ Sends(stask[t], wst[t]) /\ Reads(hpc, tail[Other(t)])
    BY TwoSides DEF Init, Sends, Reads
  <2>2. Cat(<<>>, Cat(Cat(<<>>, <<>>), <<>>)) = <<>>
    BY DEF Cat
  <2> QED
    BY <2>1, <2>2 DEF Before, Alive, Way
<1>2. Transit = [t \in Sides |-> <<>>] /\ Broken = [t \in Sides |-> FALSE]
  BY <1>1, ChannelIs
<1>3. Inbound = [t \in Sides |-> <<>>]
  BY TwoSides DEF Init, Inbound
<1> QED
  BY <1>2, <1>3 DEF Init, Channel!Init

\* Every step of the relay is a step of the channel: a client sends, a packet
\* arrives, or directions break; the tasks and the log in between do not show.
LEMMA NextChannel ==
  IInv /\ [Next]_vars => [Channel!Next]_<<Inbound, Transit, got, Broken>>
<1> SUFFICES ASSUME IInv, [Next]_vars PROVE [Channel!Next]_<<Inbound, Transit, got, Broken>>
  OBVIOUS
<1>0. TypeOK /\ StageInv /\ FlowInv /\ LogInv
  BY DEF IInv
<1>1. ASSUME NEW s \in Sides, ClientStep(s) PROVE [Channel!Next]_<<Inbound, Transit, got, Broken>>
  BY <1>0, <1>1, ClientChannel, TwoSides DEF Channel!Next
<1>2. ASSUME NEW s \in Sides, Flush(s) PROVE [Channel!Next]_<<Inbound, Transit, got, Broken>>
  BY <1>0, <1>2, FlushDelivers DEF Channel!Next
<1>3. ASSUME NEW s \in Sides, TaskStep(s) PROVE [Channel!Next]_<<Inbound, Transit, got, Broken>>
  BY <1>0, <1>3, TaskStill
<1>4. CASE HandlerStep
  BY <1>0, <1>4, HandlerStill DEF Channel!Next
<1>5. CASE UNCHANGED vars
  BY <1>5, StillIs, QuietStep DEF vars
<1> QED
  BY <1>1, <1>2, <1>3, <1>4, <1>5 DEF Next

\* The relay is a FIFO channel in each direction, for any number of packets: no
\* packet is duplicated or overtaken on its way through the reader, the tasks,
\* the queue and the transport, and what a tunnel loses is the end of a stream.
THEOREM RelayIsChannel == Spec => IsChannel
BY InitChannel, NextChannel, SpecIInv, PTL DEF Spec, IsChannel, Channel!Spec

=============================================================================
