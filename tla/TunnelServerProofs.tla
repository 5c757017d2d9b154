------------------------- MODULE TunnelServerProofs -------------------------
(***************************************************************************)
(* Proofs about TunnelServer, for any sets of providers, connections and   *)
(* probes and any queue size.                                              *)
(***************************************************************************)
EXTENDS TunnelServer, FiniteSetTheorems, TLAPS

-----------------------------------------------------------------------------
(***************************************************************************)
(* Type correctness: first the operators of connection_queue.py, then the  *)
(* ways a handler ends, then the actions.                                  *)
(***************************************************************************)

LEMMA CreateType ==
  ASSUME TypeOK, NEW p \in Providers, CreateIfMissing(p), UNCHANGED items
  PROVE  QueueTypeOK'
BY DEF TypeOK, QueueTypeOK, CreateIfMissing

LEMMA WakeType ==
  ASSUME NEW p \in Providers, NEW from \in [Conns -> ConnPC], WakeOne(p, from)
  PROVE  pc' \in [Conns -> ConnPC]
BY DEF WakeOne, Getters, ConnPC, InLoop

LEMMA PutType ==
  ASSUME TunnelAssumption, TypeOK, NEW p \in Providers, NEW q \in Probes, HasRoom(p, q),
         NEW from \in [Conns -> ConnPC], Put(p, q, from)
  PROVE  pc' \in [Conns -> ConnPC] /\ QueueTypeOK'
<1>1. pc' \in [Conns -> ConnPC]
  BY WakeType DEF Put
<1>2. present' \in [Providers -> BOOLEAN] /\ stale' \in [Providers -> BOOLEAN]
  BY DEF Put, CreateIfMissing, TypeOK, QueueTypeOK
<1>3. items[p] \in Seq(Probes) /\ Append(items[p], q) \in Seq(Probes)
      /\ Len(Append(items[p], q)) = Len(items[p]) + 1
  BY DEF TypeOK, QueueTypeOK
<1>4. items' = [items EXCEPT ![p] = Append(items[p], q)]
  BY DEF Put
<1>5. Len(items[p]) < MaxQueueSize
  BY <1>3 DEF HasRoom, TunnelAssumption
<1>6. items' \in [Providers -> Seq(Probes)]
  BY <1>3, <1>4 DEF TypeOK, QueueTypeOK
<1>7. \A r \in Providers : Len(items'[r]) <= MaxQueueSize
  BY <1>3, <1>4, <1>5 DEF TypeOK, QueueTypeOK, TunnelAssumption
<1> QED
  BY <1>1, <1>2, <1>6, <1>7 DEF QueueTypeOK

LEMMA TakeType ==
  ASSUME TunnelAssumption, TypeOK, NEW c \in Conns, items[Owner[c]] # <<>>, Take(c)
  PROVE  /\ pc' \in [Conns -> ConnPC] /\ held' \in [Conns -> Probes \cup {None}]
         /\ QueueTypeOK'
<1> DEFINE p == Owner[c]
<1>1. p \in Providers /\ items[p] \in Seq(Probes) /\ items[p] # <<>>
  BY DEF TypeOK, QueueTypeOK, TunnelAssumption
<1>2. Head(items[p]) \in Probes /\ Tail(items[p]) \in Seq(Probes)
      /\ Len(Tail(items[p])) = Len(items[p]) - 1
  BY <1>1
<1>3. items' = [items EXCEPT ![p] = Tail(items[p])]
  BY DEF Take
<1>4. items' \in [Providers -> Seq(Probes)]
  BY <1>1, <1>2, <1>3 DEF TypeOK, QueueTypeOK
<1>5. \A r \in Providers : Len(items'[r]) <= MaxQueueSize
  BY <1>1, <1>2, <1>3 DEF TypeOK, QueueTypeOK, TunnelAssumption
<1> QED
  BY <1>1, <1>2, <1>4, <1>5 DEF Take, TypeOK, ConnTypeOK, QueueTypeOK, ConnPC, InLoop

LEMMA EndType ==
  ASSUME TunnelAssumption, TypeOK, NEW c \in Conns, End(c, pc), UNCHANGED items
  PROVE  pc' \in [Conns -> ConnPC] /\ QueueTypeOK'
BY CreateType DEF End, TypeOK, ConnTypeOK, QueueTypeOK, TunnelAssumption, ConnPC

LEMMA RejectType ==
  ASSUME TunnelAssumption, TypeOK, NEW c \in Conns, NEW status \in ConnectStatus,
         Reject(c, status), UNCHANGED items
  PROVE  /\ pc' \in [Conns -> ConnPC] /\ held' \in [Conns -> Probes \cup {None}]
         /\ answer' \in [Probes -> ConnectStatus \cup {None}] /\ ppc' \in [Probes -> ProbePC]
         /\ QueueTypeOK'
BY EndType DEF Reject, TypeOK, ConnTypeOK, ProbeTypeOK, ProbePC

LEMMA InitType == TunnelAssumption /\ Init => TypeOK
BY DEF Init, TypeOK, ConnTypeOK, QueueTypeOK, ProbeTypeOK, ConnPC, InLoop, ProbePC, ConnectStatus, TunnelAssumption

\* What a handler does by itself.
LEMMA ConnStepType ==
  ASSUME TunnelAssumption, TypeOK, HolderState, NEW c \in Conns, ConnStep(c)
  PROVE  TypeOK'
<1>0. /\ Owner[c] \in Providers
      /\ pc[c] \in {"got", "unmarkFull", "send", "await", "decline", "use", "relay", "closing",
                  "unuse"} => held[c] \in Probes
  BY DEF TunnelAssumption, TypeOK, ConnTypeOK, HolderState, HandlerState
<1>1. CASE StartGet(c)
  <2>1. CASE items[Owner[c]] # <<>> /\ Take(c)
    BY <1>1, <2>1, TakeType DEF StartGet, Take, TypeOK, ConnTypeOK, ProbeTypeOK, probeVars
  <2>2. CASE /\ pc' = [pc EXCEPT ![c] = "getter"] /\ UNCHANGED <<items, held, orphan>>
             /\ CreateIfMissing(Owner[c])
    <3>1. QueueTypeOK'
      BY <1>0, <2>2, CreateType DEF TypeOK, QueueTypeOK
    <3>2. ConnTypeOK'
      BY <1>1, <2>2 DEF StartGet, TypeOK, ConnTypeOK, ConnPC, InLoop
    <3> QED
      BY <1>1, <3>1, <3>2 DEF StartGet, TypeOK, ProbeTypeOK, probeVars
  <2> QED
    BY <1>1, <2>1, <2>2 DEF StartGet
<1>2. CASE ResumeGet(c)
  <2>1. CASE items[Owner[c]] # <<>> /\ Take(c)
    BY <1>2, <2>1, TakeType DEF ResumeGet, Take, TypeOK, ConnTypeOK, ProbeTypeOK, probeVars
  <2>2. CASE /\ pc' = [pc EXCEPT ![c] = "getter"] /\ UNCHANGED <<items, held, orphan>>
             /\ UNCHANGED <<present, stale>>
    <3>1. QueueTypeOK'
      BY <1>0, <2>2, CreateType DEF TypeOK, QueueTypeOK
    <3>2. ConnTypeOK'
      BY <1>2, <2>2 DEF ResumeGet, TypeOK, ConnTypeOK, ConnPC, InLoop
    <3> QED
      BY <1>2, <3>1, <3>2 DEF ResumeGet, TypeOK, ProbeTypeOK, probeVars
  <2> QED
    BY <1>2, <2>1, <2>2 DEF ResumeGet
<1>3. CASE MarkAvailable(c)
  BY <1>3, <1>0 DEF MarkAvailable, TypeOK, ConnTypeOK, QueueTypeOK, ProbeTypeOK, connVars, queueVars, probeVars, ConnPC, InLoop
<1>4. CASE PollEof(c)
  BY <1>4, <1>0 DEF PollEof, TypeOK, ConnTypeOK, QueueTypeOK, ProbeTypeOK, connVars, queueVars, probeVars, ConnPC, InLoop
<1>5. CASE GotEntry(c)
  <2>1. held' \in [Conns -> Probes \cup {None}] /\ callback' \in [Conns -> BOOLEAN]
    BY <1>5 DEF GotEntry, TypeOK, ConnTypeOK
  <2>2. ppc' \in [Probes -> ProbePC]
    BY <1>5 DEF GotEntry, TypeOK, ProbeTypeOK, ProbePC
  <2>3. pc' \in [Conns -> ConnPC]
    BY <1>5 DEF GotEntry, TypeOK, ConnTypeOK, ConnPC, InLoop
  <2> QED
    BY <1>5, <2>1, <2>2, <2>3
    DEF GotEntry, TypeOK, ConnTypeOK, QueueTypeOK, ProbeTypeOK, queueVars
<1>6. CASE RequeueOnEof(c)
  <2>1. held[c] \in Probes \cup {None} /\ [pc EXCEPT ![c] = "unmark"] \in [Conns -> ConnPC]
    BY DEF TypeOK, ConnTypeOK, ConnPC
  <2>2. CASE /\ HasRoom(Owner[c], held[c]) /\ held' = [held EXCEPT ![c] = None]
             /\ Put(Owner[c], held[c], [pc EXCEPT ![c] = "unmark"])
    <3>1. pc' \in [Conns -> ConnPC] /\ QueueTypeOK'
      BY <1>0, <1>6, <2>1, <2>2, PutType DEF RequeueOnEof
    <3> QED
      BY <1>6, <2>2, <3>1 DEF RequeueOnEof, TypeOK, ConnTypeOK, ProbeTypeOK, probeVars
  <2>3. CASE /\ CreateIfMissing(Owner[c]) /\ pc' = [pc EXCEPT ![c] = "unmarkFull"]
             /\ UNCHANGED <<items, held>>
    BY <1>0, <1>6, <2>3, CreateType
    DEF RequeueOnEof, TypeOK, ConnTypeOK, ProbeTypeOK, probeVars, ConnPC
  <2> QED
    BY <1>6, <2>1, <2>2, <2>3, <1>0 DEF RequeueOnEof
<1>7. CASE CancelGet(c)
  <2>1. pc' \in [Conns -> ConnPC]
    BY <1>7 DEF CancelGet, TypeOK, ConnTypeOK, ConnPC
  <2> QED
    BY <1>7, <2>1 DEF CancelGet, TypeOK, ConnTypeOK, QueueTypeOK, ProbeTypeOK, queueVars, probeVars
<1>15. CASE GetCancelled(c)
  <2>1. [pc EXCEPT ![c] = "unmark"] \in [Conns -> ConnPC]
    BY DEF TypeOK, ConnTypeOK, ConnPC
  <2>2. pc' \in [Conns -> ConnPC]
    BY <1>0, <1>15, <2>1, WakeType DEF GetCancelled
  <2>3. orphan' \in [Conns -> BOOLEAN]
    BY <1>15 DEF GetCancelled, TypeOK, ConnTypeOK
  <2> QED
    BY <1>15, <2>2, <2>3
    DEF GetCancelled, TypeOK, ConnTypeOK, QueueTypeOK, ProbeTypeOK, queueVars, probeVars
<1>8. CASE MarkUnavailable(c)
  <2>1. pc' \in [Conns -> ConnPC] /\ QueueTypeOK'
    BY <1>8, EndType DEF MarkUnavailable, TypeOK, ConnTypeOK, QueueTypeOK, ConnPC
  <2> QED
    BY <1>8, <2>1 DEF MarkUnavailable, TypeOK, ConnTypeOK, ProbeTypeOK, probeVars
<1>9. CASE MarkUnavailableFull(c)
  <2>1. CASE Reject(c, "ProviderTimedOut")
    BY <1>9, <2>1, RejectType DEF MarkUnavailableFull, TypeOK, ConnTypeOK, ProbeTypeOK, ConnectStatus
  <2>2. CASE End(c, pc) /\ UNCHANGED <<answer, ppc, held>>
    BY <1>9, <2>2, EndType DEF MarkUnavailableFull, TypeOK, ConnTypeOK, ProbeTypeOK
  <2> QED
    BY <1>9, <2>1, <2>2 DEF MarkUnavailableFull
<1>10. CASE SendRequest(c)
  BY <1>10, <1>0 DEF SendRequest, TypeOK, ConnTypeOK, QueueTypeOK, ProbeTypeOK, connVars, queueVars, probeVars, ConnPC, InLoop
<1>11. CASE SendFails(c)
  <2>1. held[c] \in Probes \cup {None} /\ [pc EXCEPT ![c] = "ended"] \in [Conns -> ConnPC]
    BY DEF TypeOK, ConnTypeOK, ConnPC
  <2>2. CASE /\ HasRoom(Owner[c], held[c]) /\ held' = [held EXCEPT ![c] = None]
             /\ Put(Owner[c], held[c], [pc EXCEPT ![c] = "ended"]) /\ UNCHANGED <<ppc, answer>>
    <3>1. pc' \in [Conns -> ConnPC] /\ QueueTypeOK'
      BY <1>0, <1>11, <2>1, <2>2, PutType DEF SendFails
    <3> QED
      BY <1>11, <2>2, <3>1 DEF SendFails, TypeOK, ConnTypeOK, ProbeTypeOK, probeVars
  <2>3. CASE Reject(c, "ProviderTimedOut") /\ UNCHANGED items
    BY <1>11, <2>3, RejectType
    DEF SendFails, TypeOK, ConnTypeOK, ProbeTypeOK, ConnectStatus
  <2> QED
    BY <1>11, <2>1, <2>2, <2>3, <1>0 DEF SendFails
<1>12. CASE ResponseTimeout(c)
  BY <1>12, RejectType DEF ResponseTimeout, TypeOK, ConnTypeOK, ProbeTypeOK, ConnectStatus
<1>13. CASE SimUsed(c)
  BY <1>13, <1>0 DEF SimUsed, TypeOK, ConnTypeOK, QueueTypeOK, ProbeTypeOK, connVars, queueVars, probeVars, ConnPC, InLoop, ProbePC
<1>14. CASE SimUnused(c)
  <2>1. pc' \in [Conns -> ConnPC] /\ QueueTypeOK'
    BY <1>14, EndType DEF SimUnused, TypeOK, ConnTypeOK, QueueTypeOK, ConnPC
  <2> QED
    BY <1>14, <2>1 DEF SimUnused, TypeOK, ConnTypeOK, ProbeTypeOK, probeVars
<1> QED
  BY <1>1, <1>2, <1>3, <1>4, <1>5, <1>6, <1>7, <1>8, <1>9, <1>10, <1>11, <1>12, <1>13, <1>14, <1>15 DEF ConnStep

\* What a provider's client brings about.
LEMMA ConnInputType ==
  ASSUME TunnelAssumption, TypeOK, HolderState, NEW c \in Conns, ConnInput(c)
  PROVE  TypeOK'
<1>0. /\ Owner[c] \in Providers
      /\ pc[c] \in {"got", "unmarkFull", "send", "await", "decline", "use", "relay", "closing",
                  "unuse"} => held[c] \in Probes
  BY DEF TunnelAssumption, TypeOK, ConnTypeOK, HolderState, HandlerState
<1>1. CASE ConnOpens(c)
  BY <1>1, <1>0 DEF ConnOpens, TypeOK, ConnTypeOK, QueueTypeOK, ProbeTypeOK, connVars, queueVars, probeVars, ConnPC, InLoop
<1>2. CASE ConnAuthenticated(c)
  BY <1>2, <1>0 DEF ConnAuthenticated, TypeOK, ConnTypeOK, QueueTypeOK, ProbeTypeOK, connVars, queueVars, probeVars, ConnPC, InLoop
<1>3. CASE ConnDropped(c)
  BY <1>3, <1>0 DEF ConnDropped, TypeOK, ConnTypeOK, QueueTypeOK, ProbeTypeOK, connVars, queueVars, probeVars, ConnPC, InLoop
<1>4. CASE Accept(c)
  BY <1>4, <1>0 DEF Accept, TypeOK, ConnTypeOK, QueueTypeOK, ProbeTypeOK, queueVars, ConnPC, ConnectStatus
<1>5. CASE Decline(c)
  BY <1>5, <1>0 DEF Decline, TypeOK, ConnTypeOK, QueueTypeOK, ProbeTypeOK, queueVars, ConnPC, ConnectStatus
<1>6. CASE ResponseMalformed(c)
  <2>1. pc' \in [Conns -> ConnPC] /\ QueueTypeOK'
    BY <1>6, EndType DEF ResponseMalformed, TypeOK, ConnTypeOK, QueueTypeOK, ConnPC
  <2> QED
    BY <1>6, <2>1 DEF ResponseMalformed, TypeOK, ConnTypeOK, ProbeTypeOK, probeVars
<1>7. CASE ResponseFails(c)
  <2>1. pc' \in [Conns -> ConnPC] /\ QueueTypeOK'
    BY <1>7, EndType DEF ResponseFails, TypeOK, ConnTypeOK, QueueTypeOK, ConnPC
  <2> QED
    BY <1>7, <2>1 DEF ResponseFails, TypeOK, ConnTypeOK, ProbeTypeOK, probeVars
<1>8. CASE RelayEnds(c)
  BY <1>8, <1>0 DEF RelayEnds, TypeOK, ConnTypeOK, QueueTypeOK, ProbeTypeOK, connVars, queueVars, probeVars, ConnPC, InLoop, ProbePC
<1>9. CASE ProviderGoes(c)
  BY <1>9, <1>0 DEF ProviderGoes, TypeOK, ConnTypeOK, QueueTypeOK, ProbeTypeOK, connVars, queueVars, probeVars, ConnPC, InLoop
<1>10. CASE DeclineCloses(c) \/ DeclineCloseFails(c) \/ StreamsCloseFail(c)
  <2>1. End(c, pc) /\ UNCHANGED items
    BY <1>10 DEF DeclineCloses, DeclineCloseFails, StreamsCloseFail
  <2>2. pc' \in [Conns -> ConnPC] /\ QueueTypeOK'
    BY <2>1, EndType
  <2>3. /\ held' \in [Conns -> Probes \cup {None}] /\ ppc' \in [Probes -> ProbePC]
        /\ UNCHANGED <<disc, eof, orphan, callback, registered, target, gone, answer>>
    BY <1>10
    DEF DeclineCloses, DeclineCloseFails, StreamsCloseFail, probeVars, TypeOK, ConnTypeOK, ProbeTypeOK,
        ProbePC
  <2> QED
    BY <2>2, <2>3 DEF TypeOK, ConnTypeOK, ProbeTypeOK
<1>11. CASE StreamsClose(c)
  BY <1>11, <1>0 DEF StreamsClose, TypeOK, ConnTypeOK, QueueTypeOK, ProbeTypeOK, queueVars, ConnPC, ProbePC
<1> QED
  BY <1>1, <1>2, <1>3, <1>4, <1>5, <1>6, <1>7, <1>8, <1>9, <1>10, <1>11 DEF ConnInput

\* Probe connections.
LEMMA ProbeType ==
  ASSUME TunnelAssumption, TypeOK, HolderState, NEW q \in Probes, ProbeStep(q) \/ ProbeInput(q)
  PROVE  TypeOK'
<1>1. CASE ProbeEnqueue(q)
  <2>1. target[q] \in Providers /\ pc \in [Conns -> ConnPC]
    BY <1>1 DEF ProbeEnqueue, TypeOK, ConnTypeOK, ProbeTypeOK, HolderState, RequestState
  <2>2. CASE /\ CreateIfMissing(target[q]) /\ UNCHANGED <<items, pc>>
             /\ answer' = [answer EXCEPT ![q] = "NotAvailable"] /\ ppc' = [ppc EXCEPT ![q] = "done"]
    BY <1>1, <2>1, <2>2, CreateType
    DEF ProbeEnqueue, TypeOK, ConnTypeOK, ProbeTypeOK, ProbePC, ConnectStatus
  <2>3. CASE /\ HasRoom(target[q], q) /\ Put(target[q], q, pc) /\ UNCHANGED answer
             /\ ppc' = [ppc EXCEPT ![q] = "handed"]
    BY <1>1, <2>1, <2>3, PutType DEF ProbeEnqueue, TypeOK, ConnTypeOK, ProbeTypeOK, ProbePC
  <2> QED
    BY <1>1, <2>2, <2>3 DEF ProbeEnqueue
<1>2. CASE \/ ProbeDropped(q) \/ ProbeConnects(q) \/ ProbeAuthenticated(q) \/ ProbeForbidden(q)
           \/ ProbeGoes(q)
  BY <1>2
  DEF ProbeDropped, ProbeConnects, ProbeAuthenticated, ProbeForbidden, ProbeGoes, connVars, queueVars,
      TypeOK, ConnTypeOK, QueueTypeOK, ProbeTypeOK, ProbePC, ConnectStatus
<1>3. ASSUME NEW p \in Providers, ProbeResolved(q, p)
      PROVE  TypeOK'
  BY <1>3
  DEF ProbeResolved, connVars, queueVars, TypeOK, ConnTypeOK, QueueTypeOK, ProbeTypeOK, ProbePC
<1> QED
  BY <1>1, <1>2, <1>3 DEF ProbeStep, ProbeInput

\* Queue._gc keeps a subsequence: each entry it leaves comes from a later or
\* equal place of the old queue, and different places from different ones.
LEMMA DropClosedItems ==
  ASSUME TypeOK, NEW p \in Providers, DropClosed(p)
  PROVE  /\ items' \in [Providers -> Seq(Probes)]
         /\ Len(items'[p]) <= Len(items[p])
         /\ \A r \in Providers \ {p} : items'[r] = items[r]
         /\ \E f \in [DOMAIN items'[p] -> DOMAIN items[p]] :
              /\ \A i, j \in DOMAIN items'[p] : f[i] = f[j] => i = j
              /\ \A i \in DOMAIN items'[p] :
                   items'[p][i] = items[p][f[i]] /\ ~gone[items[p][f[i]]]
              /\ \A k \in DOMAIN items[p] :
                   ~gone[items[p][k]] => \E i \in DOMAIN items'[p] : f[i] = k
<1> DEFINE kept == {i \in DOMAIN items[p] : ~gone[items[p][i]]}
<1>1. items[p] \in Seq(Probes) /\ items \in [Providers -> Seq(Probes)]
  BY DEF TypeOK, QueueTypeOK
<1>0. PICK n \in 0 .. Len(items[p]) : \E f \in [1 .. n -> kept] :
        /\ \A i, j \in 1 .. n : i < j => f[i] < f[j]
        /\ \A k \in kept : \E i \in 1 .. n : f[i] = k
        /\ items' = [items EXCEPT ![p] = [i \in 1 .. n |-> items[p][f[i]]]]
  BY DEF DropClosed
<1>2. PICK f \in [1 .. n -> kept] :
        /\ \A i, j \in 1 .. n : i < j => f[i] < f[j]
        /\ \A k \in kept : \E i \in 1 .. n : f[i] = k
        /\ items' = [items EXCEPT ![p] = [i \in 1 .. n |-> items[p][f[i]]]]
  BY <1>0
<1> DEFINE s == [i \in 1 .. n |-> items[p][f[i]]]
<1>3. \A i \in 1 .. n : f[i] \in DOMAIN items[p] /\ ~gone[items[p][f[i]]] /\ items[p][f[i]] \in Probes
  BY <1>1
<1>4. s \in Seq(Probes) /\ Len(s) = n /\ DOMAIN s = 1 .. n
  <2>1. s \in [1 .. n -> Probes]
    BY <1>3
  <2>2. n \in Nat
    BY <1>1
  <2> HIDE DEF s
  <2> QED
    BY <2>1, <2>2
<1>5. items'[p] = s /\ items' \in [Providers -> Seq(Probes)]
  BY <1>1, <1>2, <1>4
<1>6. \A i, j \in 1 .. n : f[i] = f[j] => i = j
  <2> TAKE i \in 1 .. n, j \in 1 .. n
  <2>1. f[i] \in Int /\ f[j] \in Int
    BY <1>1, <1>3
  <2> QED
    BY <1>2, <2>1
<1>7. f \in [DOMAIN s -> DOMAIN items[p]]
  BY <1>3, <1>4
<1>8. /\ DOMAIN items'[p] = 1 .. n /\ Len(items'[p]) = n /\ n <= Len(items[p])
      /\ \A r \in Providers \ {p} : items'[r] = items[r]
  BY <1>1, <1>2, <1>4, <1>5
<1>9. \A i \in 1 .. n : items'[p][i] = items[p][f[i]]
  BY <1>5
<1>10. \A k \in DOMAIN items[p] : ~gone[items[p][k]] => \E i \in 1 .. n : f[i] = k
  BY <1>2
<1> HIDE DEF s
<1>11. \E g \in [DOMAIN items'[p] -> DOMAIN items[p]] :
         /\ \A i, j \in DOMAIN items'[p] : g[i] = g[j] => i = j
         /\ \A i \in DOMAIN items'[p] : items'[p][i] = items[p][g[i]] /\ ~gone[items[p][g[i]]]
         /\ \A k \in DOMAIN items[p] : ~gone[items[p][k]] => \E i \in DOMAIN items'[p] : g[i] = k
  <2>1. f \in [DOMAIN items'[p] -> DOMAIN items[p]]
    BY <1>4, <1>7, <1>8
  <2>2. \A i \in 1 .. n : items'[p][i] = items[p][f[i]] /\ ~gone[items[p][f[i]]]
    BY <1>3, <1>9
  <2> WITNESS f \in [DOMAIN items'[p] -> DOMAIN items[p]]
  <2> QED
    BY <2>2, <1>6, <1>8, <1>10
<1> QED
  BY <1>5, <1>8, <1>11

LEMMA QueueStepType ==
  ASSUME TunnelAssumption, TypeOK, NEW p \in Providers, QueueStep(p) \/ RowRemoved(p)
  PROVE  TypeOK'
<1>1. CASE GoStale(p)
  BY <1>1 DEF GoStale, connVars, probeVars, TypeOK, ConnTypeOK, QueueTypeOK, ProbeTypeOK
<1>2. CASE CollectQueue(p)
  <2>1. QueueTypeOK'
    <3>1. <<>> \in Seq(Probes) /\ Len(<<>>) = 0
      OBVIOUS
    <3> QED
      BY <1>2, <3>1 DEF CollectQueue, TypeOK, QueueTypeOK, TunnelAssumption
  <2>2. ConnTypeOK'
    BY <1>2 DEF CollectQueue, TypeOK, ConnTypeOK
  <2>3. ProbeTypeOK'
    BY <1>2 DEF CollectQueue, TypeOK, ProbeTypeOK, ProbePC, ConnectStatus
  <2> QED
    BY <1>2, <2>1, <2>2, <2>3 DEF CollectQueue, TypeOK
<1>3. CASE DropClosed(p)
  <2>1. \A r \in Providers : Len(items'[r]) <= MaxQueueSize
    <3> TAKE r \in Providers
    <3>1. CASE r = p
      <4>1. items[p] \in Seq(Probes) /\ items'[p] \in Seq(Probes) /\ Len(items[p]) <= MaxQueueSize
            /\ Len(items'[p]) <= Len(items[p])
        BY <1>3, DropClosedItems DEF TypeOK, QueueTypeOK
      <4> QED
        BY <3>1, <4>1 DEF TunnelAssumption
    <3>2. CASE r # p
      BY <1>3, <3>2, DropClosedItems DEF TypeOK, QueueTypeOK
    <3> QED
      BY <3>1, <3>2
  <2>2. QueueTypeOK'
    BY <1>3, <2>1, DropClosedItems DEF DropClosed, TypeOK, QueueTypeOK
  <2>3. ppc' \in [Probes -> ProbePC]
    BY <1>3 DEF DropClosed, TypeOK, ProbeTypeOK, ProbePC
  <2> QED
    BY <1>3, <2>2, <2>3 DEF DropClosed, connVars, TypeOK, ConnTypeOK, ProbeTypeOK
<1>4. CASE RowRemoved(p)
  BY <1>4 DEF RowRemoved, connVars, queueVars, probeVars, TypeOK, ConnTypeOK, QueueTypeOK, ProbeTypeOK
<1> QED
  BY <1>1, <1>2, <1>3, <1>4 DEF QueueStep

-----------------------------------------------------------------------------
(***************************************************************************)
(* Ownership of the probes' connections                                    *)
(***************************************************************************)

\* What put_nowait and _get do to the places of a queue's entries.
LEMMA PutEntries ==
  ASSUME TypeOK, NEW p \in Providers, NEW q \in Probes, NEW from, Put(p, q, from),
         NEW r \in Providers, NEW i \in DOMAIN items'[r]
  PROVE  \/ i \in DOMAIN items[r] /\ items'[r][i] = items[r][i]
         \/ r = p /\ i = Len(items[p]) + 1 /\ items'[r][i] = q
<1>1. items[p] \in Seq(Probes) /\ items' = [items EXCEPT ![p] = Append(items[p], q)]
  BY DEF TypeOK, QueueTypeOK, Put
<1>2. CASE r = p
  <2>1. items'[r] = Append(items[p], q)
    BY <1>1, <1>2 DEF TypeOK, QueueTypeOK
  <2> QED
    BY <1>1, <1>2, <2>1
<1>3. CASE r # p
  BY <1>1, <1>3 DEF TypeOK, QueueTypeOK
<1> QED
  BY <1>2, <1>3

LEMMA TakeEntries ==
  ASSUME TunnelAssumption, TypeOK, NEW c \in Conns, items[Owner[c]] # <<>>, Take(c)
  PROVE  /\ 1 \in DOMAIN items[Owner[c]]
         /\ held' = [held EXCEPT ![c] = items[Owner[c]][1]]
         /\ \A r \in Providers : \A i \in DOMAIN items'[r] :
              IF r = Owner[c] THEN i + 1 \in DOMAIN items[r] /\ items'[r][i] = items[r][i + 1]
              ELSE i \in DOMAIN items[r] /\ items'[r][i] = items[r][i]
<1> DEFINE p == Owner[c]
<1>1. p \in Providers /\ items[p] \in Seq(Probes) /\ items[p] # <<>>
  BY DEF TypeOK, QueueTypeOK, TunnelAssumption
<1>2. Head(items[p]) = items[p][1] /\ 1 \in DOMAIN items[p]
  BY <1>1
<1>3. \A i \in DOMAIN Tail(items[p]) : i + 1 \in DOMAIN items[p] /\ Tail(items[p])[i] = items[p][i + 1]
  BY <1>1
<1>4. items' = [items EXCEPT ![p] = Tail(items[p])]
  BY DEF Take
<1>5. ASSUME NEW r \in Providers, NEW i \in DOMAIN items'[r]
      PROVE IF r = p THEN i + 1 \in DOMAIN items[r] /\ items'[r][i] = items[r][i + 1]
            ELSE i \in DOMAIN items[r] /\ items'[r][i] = items[r][i]
  <2>1. CASE r = p
    BY <1>1, <1>3, <1>4, <2>1 DEF TypeOK, QueueTypeOK
  <2>2. CASE r # p
    BY <1>4, <2>2 DEF TypeOK, QueueTypeOK
  <2> QED
    BY <2>1, <2>2
<1> QED
  BY <1>2, <1>5 DEF Take

\* Letting go of a probe, moving one into a queue, taking one out of it and
\* removing some of a queue's entries each keep every probe in one place.
LEMMA ReleaseSingle ==
  ASSUME SingleHolder, UNCHANGED items, \A c \in Conns : held'[c] = held[c] \/ held'[c] = None,
         None \notin Probes
  PROVE  SingleHolder'
<1>1. Queued' = Queued
  BY DEF Queued
<1>2. None \notin Queued
  BY DEF Queued
<1> QED
  BY <1>1, <1>2 DEF SingleHolder

LEMMA PutSingle ==
  ASSUME TunnelAssumption, TypeOK, SingleHolder, NEW p \in Providers, NEW q \in Probes, NEW from,
         Put(p, q, from), q \notin Queued,
         \A c \in Conns : held'[c] # q /\ (held'[c] = held[c] \/ held'[c] = None)
  PROVE  SingleHolder'
<1>1. ASSUME NEW r \in Providers, NEW i \in DOMAIN items'[r]
      PROVE \/ i \in DOMAIN items[r] /\ items'[r][i] = items[r][i] /\ items'[r][i] # q
            \/ r = p /\ i = Len(items[p]) + 1 /\ items'[r][i] = q
  BY <1>1, PutEntries DEF Queued
<1>2. \A c \in Conns : held'[c] \notin Queued'
  BY <1>1 DEF Queued, SingleHolder, TunnelAssumption
<1>3. \A p1, p2 \in Providers : \A i \in DOMAIN items'[p1], j \in DOMAIN items'[p2] :
        items'[p1][i] = items'[p2][j] => p1 = p2 /\ i = j
  BY <1>1 DEF SingleHolder
<1>4. \A c, d \in Conns : held'[c] # None /\ held'[c] = held'[d] => c = d
  BY DEF SingleHolder
<1> QED
  BY <1>2, <1>3, <1>4 DEF SingleHolder

LEMMA TakeSingle ==
  ASSUME TunnelAssumption, TypeOK, SingleHolder, NEW c \in Conns, items[Owner[c]] # <<>>, Take(c)
  PROVE  SingleHolder'
<1> DEFINE p == Owner[c]
           q == items[p][1]
<1>1. p \in Providers /\ q \in Queued /\ items[p] \in Seq(Probes) /\ 1 \in DOMAIN items[p]
  BY TakeEntries DEF Queued, TypeOK, QueueTypeOK, TunnelAssumption
<1>2. \A r \in Providers : \A i \in DOMAIN items'[r] :
        \E k \in DOMAIN items[r] : /\ items'[r][i] = items[r][k]
                                  /\ k = IF r = p THEN i + 1 ELSE i
  BY TakeEntries
<1>3. \A r \in Providers : items'[r] \in Seq(Probes) /\ items[r] \in Seq(Probes)
  BY TakeType DEF TypeOK, QueueTypeOK
<1>4. \A p1, p2 \in Providers : \A i \in DOMAIN items'[p1], j \in DOMAIN items'[p2] :
        items'[p1][i] = items'[p2][j] => p1 = p2 /\ i = j
  <2> TAKE p1 \in Providers, p2 \in Providers
  <2> TAKE i \in DOMAIN items'[p1], j \in DOMAIN items'[p2]
  <2> HAVE items'[p1][i] = items'[p2][j]
  <2>1. PICK k \in DOMAIN items[p1] :
          items'[p1][i] = items[p1][k] /\ k = IF p1 = p THEN i + 1 ELSE i
    BY <1>2
  <2>2. PICK l \in DOMAIN items[p2] :
          items'[p2][j] = items[p2][l] /\ l = IF p2 = p THEN j + 1 ELSE j
    BY <1>2
  <2>3. items[p1][k] = items[p2][l]
    BY <2>1, <2>2
  <2>4. p1 = p2 /\ k = l
    BY <2>3 DEF SingleHolder
  <2> QED
    BY <1>3, <2>1, <2>2, <2>4
<1>5. q \notin Queued'
  <2> SUFFICES ASSUME NEW r \in Providers, NEW i \in DOMAIN items'[r], items'[r][i] = q PROVE FALSE
    BY DEF Queued
  <2> QED
    BY <1>1, <1>2, <1>3 DEF SingleHolder
<1>6. Queued' \subseteq Queued
  BY <1>2 DEF Queued
<1>7. held' = [held EXCEPT ![c] = q]
  BY TakeEntries
<1> QED
  BY <1>1, <1>4, <1>5, <1>6, <1>7 DEF SingleHolder, TypeOK, ConnTypeOK

LEMMA ShrinkSingle ==
  ASSUME SingleHolder, UNCHANGED held, NEW p \in Providers,
         \A r \in Providers \ {p} : items'[r] = items[r],
         NEW f \in [DOMAIN items'[p] -> DOMAIN items[p]],
         \A i, j \in DOMAIN items'[p] : f[i] = f[j] => i = j,
         \A i \in DOMAIN items'[p] : items'[p][i] = items[p][f[i]]
  PROVE  SingleHolder'
<1>1. \A r \in Providers : \A i \in DOMAIN items'[r] :
        \E k \in DOMAIN items[r] : /\ items'[r][i] = items[r][k]
                                  /\ k = IF r = p THEN f[i] ELSE i
  OBVIOUS
<1>2. Queued' \subseteq Queued
  BY <1>1 DEF Queued
<1>3. \A p1, p2 \in Providers : \A i \in DOMAIN items'[p1], j \in DOMAIN items'[p2] :
        items'[p1][i] = items'[p2][j] => p1 = p2 /\ i = j
  <2> TAKE p1 \in Providers, p2 \in Providers
  <2> TAKE i \in DOMAIN items'[p1], j \in DOMAIN items'[p2]
  <2> HAVE items'[p1][i] = items'[p2][j]
  <2>1. PICK k \in DOMAIN items[p1] :
          items'[p1][i] = items[p1][k] /\ k = IF p1 = p THEN f[i] ELSE i
    BY <1>1
  <2>2. PICK l \in DOMAIN items[p2] :
          items'[p2][j] = items[p2][l] /\ l = IF p2 = p THEN f[j] ELSE j
    BY <1>1
  <2>3. items[p1][k] = items[p2][l]
    BY <2>1, <2>2
  <2>4. p1 = p2 /\ k = l
    BY <2>3 DEF SingleHolder
  <2> QED
    BY <2>1, <2>2, <2>4
<1> QED
  BY <1>2, <1>3 DEF SingleHolder

\* The probe a handler has taken is nobody else's, and in no queue.
LEMMA HeldAlone ==
  ASSUME TypeOK, SingleHolder, NEW c \in Conns, held[c] # None
  PROVE  /\ held[c] \in Probes
         /\ \A d \in Conns : held[d] = held[c] => d = c
         /\ \A p \in Providers : \A i \in DOMAIN items[p] : items[p][i] # held[c]
BY DEF SingleHolder, Queued, TypeOK, ConnTypeOK

\* A handler in the wait loop without an entry holds none.
LEMMA WaitingHoldsNothing ==
  ASSUME HolderState, NEW c \in Conns,
         pc[c] \in {"idle", "auth", "mark", "start", "getter", "woken", "cancel", "cancelWoken"}
  PROVE  held[c] = None
BY DEF HolderState, HeldState

\* Taking an entry, requeueing the entry taken, and answering its probe.
LEMMA TakeHolder ==
  ASSUME TunnelAssumption, TypeOK, SingleHolder, HolderState, NEW c \in Conns, held[c] = None,
         items[Owner[c]] # <<>>, Take(c), UNCHANGED probeVars
  PROVE  SingleHolder' /\ HolderState'
<1> DEFINE q == items[Owner[c]][1]
<1>1. SingleHolder'
  BY TakeSingle
<1>2. q \in Probes /\ target[q] = Owner[c] /\ ppc[q] = "handed" /\ answer[q] = None
  BY TakeEntries DEF HolderState, QueuedState, TypeOK, QueueTypeOK, TunnelAssumption
<1>3. QueuedState'
  BY TakeEntries DEF HolderState, QueuedState, probeVars
<1>4. held'[c] = q /\ pc'[c] = "got" /\ \A d \in Conns \ {c} : held'[d] = held[d] /\ pc'[d] = pc[d]
  BY TakeEntries DEF Take, TypeOK, ConnTypeOK
<1>5. HeldState' /\ HandlerState'
  BY <1>2, <1>4 DEF HolderState, HeldState, HandlerState, probeVars, TunnelAssumption
<1>6. RequestState'
  BY DEF HolderState, RequestState, probeVars
<1> QED
  BY <1>1, <1>3, <1>5, <1>6 DEF HolderState

LEMMA RequeueHolder ==
  ASSUME TunnelAssumption, TypeOK, SingleHolder, HolderState, NEW c \in Conns, NEW next \in {"unmark", "ended"},
         held[c] # None, pc[c] \in {"got", "send"},
         Put(Owner[c], held[c], [pc EXCEPT ![c] = next]),
         held' = [held EXCEPT ![c] = None], UNCHANGED <<ppc, target, answer>>
  PROVE  SingleHolder' /\ HolderState'
<1> DEFINE p == Owner[c]
           q == held[c]
<1>1. p \in Providers /\ q \in Probes /\ q \notin Queued
  BY DEF TunnelAssumption, TypeOK, ConnTypeOK, SingleHolder
<1>2. \A d \in Conns : held'[d] # q /\ (held'[d] = held[d] \/ held'[d] = None)
  BY <1>1, HeldAlone DEF TypeOK, ConnTypeOK, TunnelAssumption
<1>3. SingleHolder'
  BY <1>1, <1>2, PutSingle
<1>4. target[q] = p /\ ppc[q] = "handed" /\ answer[q] = None
  BY DEF HolderState, HeldState
<1>5. QueuedState'
  BY <1>1, <1>4, PutEntries DEF HolderState, QueuedState
<1>6. \A d \in Conns : \/ pc'[d] = pc[d] /\ held'[d] = held[d]
                       \/ held'[d] = None /\ pc'[d] \in {"unmark", "ended", "woken"}
  <2>1. Getters(p) \subseteq Conns /\ \A g \in Getters(p) : g # c /\ held[g] = None
    BY WaitingHoldsNothing DEF Getters
  <2> QED
    BY <2>1 DEF Put, WakeOne, TypeOK, ConnTypeOK
<1>7. HeldState' /\ HandlerState'
  BY <1>6 DEF HolderState, HeldState, HandlerState
<1>8. RequestState'
  BY DEF HolderState, RequestState
<1> QED
  BY <1>3, <1>5, <1>7, <1>8 DEF HolderState

LEMMA RejectHolder ==
  ASSUME TunnelAssumption, TypeOK, SingleHolder, HolderState, NEW c \in Conns, NEW status,
         held[c] # None, Reject(c, status), UNCHANGED <<items, target>>,
         pc[c] \in {"unmarkFull", "send", "await"}
  PROVE  SingleHolder' /\ HolderState'
<1>1. SingleHolder'
  BY ReleaseSingle DEF Reject, TypeOK, ConnTypeOK, TunnelAssumption
<1>2. CASE /\ answer' = [answer EXCEPT ![held[c]] = status]
           /\ ppc' = [ppc EXCEPT ![held[c]] = "done"]
           /\ held' = [held EXCEPT ![c] = None]
  <2>1. QueuedState'
    BY <1>2, HeldAlone DEF HolderState, QueuedState, TypeOK, ProbeTypeOK
  <2>2. /\ pc'[c] = "ended" /\ held'[c] = None
        /\ \A d \in Conns \ {c} : pc'[d] = pc[d] /\ held'[d] = held[d]
    BY <1>2 DEF Reject, End, TypeOK, ConnTypeOK
  <2>3. \A r \in Probes \ {held[c]} : ppc'[r] = ppc[r] /\ answer'[r] = answer[r]
    BY <1>2 DEF TypeOK, ProbeTypeOK
  <2>4. HeldState' /\ HandlerState'
    BY <2>2, <2>3, HeldAlone DEF HolderState, HeldState, HandlerState
  <2>5. RequestState'
    BY <1>2, HeldAlone DEF HolderState, RequestState, TypeOK, ProbeTypeOK
  <2> QED
    BY <1>1, <2>1, <2>4, <2>5 DEF HolderState
<1>3. CASE UNCHANGED <<answer, ppc, held>>
  <2>1. QueuedState' /\ RequestState'
    BY <1>3 DEF HolderState, QueuedState, RequestState
  <2>2. HeldState' /\ HandlerState'
    BY <1>3 DEF Reject, End, HolderState, HeldState, HandlerState, TypeOK, ConnTypeOK
  <2> QED
    BY <1>1, <2>1, <2>2 DEF HolderState
<1> QED
  BY <1>2, <1>3 DEF Reject

\* What a handler does by itself.
LEMMA ConnStepHolder ==
  ASSUME TunnelAssumption, TypeOK, SingleHolder, HolderState, NEW c \in Conns, ConnStep(c)
  PROVE  SingleHolder' /\ HolderState'
<1>0. pc[c] \in {"got", "unmarkFull", "send", "await", "decline", "use", "relay", "closing",
                "unuse"} =>
        held[c] # None /\ held[c] \in Probes
  BY DEF TypeOK, ConnTypeOK, HolderState, HandlerState
<1>1. CASE StartGet(c)
  <2>1. CASE items[Owner[c]] # <<>> /\ Take(c)
    BY <1>1, <2>1, <1>0, TakeHolder, WaitingHoldsNothing DEF StartGet, probeVars
  <2>2. CASE /\ pc' = [pc EXCEPT ![c] = "getter"] /\ UNCHANGED <<items, held>>
    <3>1. SingleHolder'
      BY <2>2, ReleaseSingle DEF TunnelAssumption
    <3>2. QueuedState' /\ RequestState'
      BY <1>1, <2>2 DEF StartGet, probeVars, HolderState, QueuedState, RequestState
    <3>3. HeldState' /\ HandlerState'
      BY <1>1, <2>2, WaitingHoldsNothing
      DEF StartGet, probeVars, HolderState, HeldState, HandlerState, TypeOK, ConnTypeOK
    <3> QED
      BY <3>1, <3>2, <3>3 DEF HolderState
  <2> QED
    BY <1>1, <2>1, <2>2 DEF StartGet
<1>2. CASE ResumeGet(c)
  <2>1. CASE items[Owner[c]] # <<>> /\ Take(c)
    BY <1>2, <2>1, <1>0, TakeHolder, WaitingHoldsNothing DEF ResumeGet, probeVars
  <2>2. CASE /\ pc' = [pc EXCEPT ![c] = "getter"] /\ UNCHANGED <<items, held>>
    <3>1. SingleHolder'
      BY <2>2, ReleaseSingle DEF TunnelAssumption
    <3>2. QueuedState' /\ RequestState'
      BY <1>2, <2>2 DEF ResumeGet, probeVars, HolderState, QueuedState, RequestState
    <3>3. HeldState' /\ HandlerState'
      BY <1>2, <2>2, WaitingHoldsNothing
      DEF ResumeGet, probeVars, HolderState, HeldState, HandlerState, TypeOK, ConnTypeOK
    <3> QED
      BY <3>1, <3>2, <3>3 DEF HolderState
  <2> QED
    BY <1>2, <2>1, <2>2 DEF ResumeGet
<1>3. CASE MarkAvailable(c)
  <2>1. SingleHolder'
    BY <1>3, ReleaseSingle DEF MarkAvailable, queueVars, probeVars, TunnelAssumption
  <2>2. QueuedState'
    BY <1>3, <1>0 DEF MarkAvailable, queueVars, probeVars, HolderState, QueuedState, HandlerState, TypeOK, ProbeTypeOK
  <2>3. HeldState'
    BY <1>3, <1>0 DEF MarkAvailable, queueVars, probeVars, HolderState, HeldState, HandlerState, TypeOK, ConnTypeOK, ProbeTypeOK
  <2>4. HandlerState'
    BY <1>3, <1>0 DEF MarkAvailable, queueVars, probeVars, HolderState, HandlerState, TypeOK, ConnTypeOK
  <2>5. RequestState'
    BY <1>3, <1>0 DEF MarkAvailable, queueVars, probeVars, HolderState, HandlerState, RequestState, TypeOK, ProbeTypeOK
  <2> QED
    BY <2>1, <2>2, <2>3, <2>4, <2>5 DEF HolderState
<1>4. CASE PollEof(c)
  <2>1. SingleHolder'
    BY <1>4, ReleaseSingle DEF PollEof, queueVars, probeVars, TunnelAssumption
  <2>2. QueuedState'
    BY <1>4, <1>0 DEF PollEof, queueVars, probeVars, HolderState, QueuedState, HandlerState, TypeOK, ProbeTypeOK
  <2>3. HeldState'
    BY <1>4, <1>0 DEF PollEof, queueVars, probeVars, HolderState, HeldState, HandlerState, TypeOK, ConnTypeOK, ProbeTypeOK
  <2>4. HandlerState'
    BY <1>4, <1>0 DEF PollEof, queueVars, probeVars, HolderState, HandlerState, TypeOK, ConnTypeOK
  <2>5. RequestState'
    BY <1>4, <1>0 DEF PollEof, queueVars, probeVars, HolderState, HandlerState, RequestState, TypeOK, ProbeTypeOK
  <2> QED
    BY <2>1, <2>2, <2>3, <2>4, <2>5 DEF HolderState
<1>5. CASE GotEntry(c)
  <2>1. SingleHolder'
    BY <1>5, <1>0, ReleaseSingle DEF GotEntry, queueVars, TypeOK, ConnTypeOK, TunnelAssumption
  <2>2. QueuedState'
    <3>1. \A q \in Probes : q # held[c] => ppc'[q] = ppc[q]
      BY <1>5 DEF GotEntry, TypeOK, ProbeTypeOK
    <3> QED
      BY <1>5, <1>0, <3>1, HeldAlone DEF GotEntry, queueVars, HolderState, QueuedState, TypeOK, QueueTypeOK
  <2>3. HeldState'
    BY <1>5, <1>0, HeldAlone DEF GotEntry, queueVars, HolderState, HeldState, HandlerState, TypeOK, ConnTypeOK, ProbeTypeOK
  <2>4. HandlerState'
    BY <1>5, <1>0 DEF GotEntry, queueVars, HolderState, HandlerState, TypeOK, ConnTypeOK
  <2>5. RequestState'
    BY <1>5, <1>0 DEF GotEntry, queueVars, HolderState, HandlerState, RequestState, TypeOK, ProbeTypeOK
  <2> QED
    BY <2>1, <2>2, <2>3, <2>4, <2>5 DEF HolderState
<1>6. CASE RequeueOnEof(c)
  <2>1. CASE HasRoom(Owner[c], held[c]) /\ Put(Owner[c], held[c], [pc EXCEPT ![c] = "unmark"])
             /\ held' = [held EXCEPT ![c] = None]
    BY <1>6, <2>1, <1>0, RequeueHolder DEF RequeueOnEof, probeVars, HolderState, HandlerState
  <2>2. CASE pc' = [pc EXCEPT ![c] = "unmarkFull"] /\ UNCHANGED <<items, held>>
    <3>1. SingleHolder'
      BY <2>2, ReleaseSingle DEF TunnelAssumption
    <3>2. QueuedState' /\ RequestState'
      BY <1>6, <2>2 DEF RequeueOnEof, probeVars, HolderState, QueuedState, RequestState
    <3>3. HeldState' /\ HandlerState'
      BY <1>6, <2>2 DEF RequeueOnEof, probeVars, HolderState, HeldState, HandlerState, TypeOK, ConnTypeOK
    <3> QED
      BY <3>1, <3>2, <3>3 DEF HolderState
  <2> QED
    BY <1>6, <2>1, <2>2 DEF RequeueOnEof
<1>7. CASE CancelGet(c)
  <2>1. SingleHolder'
    BY <1>7, ReleaseSingle DEF CancelGet, queueVars, TunnelAssumption
  <2>2. QueuedState' /\ RequestState'
    BY <1>7 DEF CancelGet, queueVars, probeVars, HolderState, QueuedState, RequestState
  <2>3. held[c] = None
    BY <1>7, WaitingHoldsNothing DEF CancelGet
  <2>4. HeldState' /\ HandlerState'
    BY <1>7, <2>3
    DEF CancelGet, probeVars, HolderState, HeldState, HandlerState, TypeOK, ConnTypeOK
  <2> QED
    BY <2>1, <2>2, <2>4 DEF HolderState
<1>15. CASE GetCancelled(c)
  <2>1. SingleHolder'
    BY <1>15, ReleaseSingle DEF GetCancelled, queueVars, TunnelAssumption
  <2>2. QueuedState' /\ RequestState'
    BY <1>15 DEF GetCancelled, queueVars, probeVars, HolderState, QueuedState, RequestState
  <2>3. /\ pc'[c] = "unmark" /\ held[c] = None
        /\ \A d \in Conns \ {c} : pc'[d] = pc[d] \/ (pc[d] = "getter" /\ pc'[d] = "woken")
    <3> DEFINE left == [pc EXCEPT ![c] = "unmark"]
    <3>1. held[c] = None
      BY <1>15, WaitingHoldsNothing DEF GetCancelled
    <3>2. CASE pc' = left
      BY <3>1, <3>2 DEF TypeOK, ConnTypeOK
    <3>3. CASE \E g \in Getters(Owner[c]) : pc' = [left EXCEPT ![g] = "woken"]
      BY <3>1, <3>3 DEF Getters, TypeOK, ConnTypeOK
    <3> QED
      BY <1>15, <3>2, <3>3 DEF GetCancelled, WakeOne
  <2>4. HeldState' /\ HandlerState'
    BY <1>15, <2>3 DEF GetCancelled, probeVars, HolderState, HeldState, HandlerState
  <2> QED
    BY <2>1, <2>2, <2>4 DEF HolderState
<1>8. CASE MarkUnavailable(c)
  <2>1. SingleHolder'
    BY <1>8, ReleaseSingle DEF MarkUnavailable, End, probeVars, TunnelAssumption
  <2>2. QueuedState'
    BY <1>8, <1>0 DEF MarkUnavailable, End, probeVars, HolderState, QueuedState, HandlerState, TypeOK, ProbeTypeOK
  <2>3. HeldState'
    BY <1>8, <1>0 DEF MarkUnavailable, End, probeVars, HolderState, HeldState, HandlerState, TypeOK, ConnTypeOK, ProbeTypeOK
  <2>4. HandlerState'
    BY <1>8, <1>0 DEF MarkUnavailable, End, probeVars, HolderState, HandlerState, TypeOK, ConnTypeOK
  <2>5. RequestState'
    BY <1>8, <1>0 DEF MarkUnavailable, End, probeVars, HolderState, HandlerState, RequestState, TypeOK, ProbeTypeOK
  <2> QED
    BY <2>1, <2>2, <2>3, <2>4, <2>5 DEF HolderState
<1>9. CASE MarkUnavailableFull(c)
  <2>1. CASE Reject(c, "ProviderTimedOut")
    BY <1>9, <2>1, <1>0, RejectHolder DEF MarkUnavailableFull
  <2>2. CASE End(c, pc) /\ UNCHANGED <<answer, ppc, held>>
    <3>1. SingleHolder'
      BY <1>9, <2>2, ReleaseSingle DEF MarkUnavailableFull, TunnelAssumption
    <3>2. QueuedState' /\ RequestState'
      BY <1>9, <2>2 DEF MarkUnavailableFull, HolderState, QueuedState, RequestState
    <3>3. HeldState' /\ HandlerState'
      BY <1>9, <2>2 DEF MarkUnavailableFull, End, HolderState, HeldState, HandlerState, TypeOK, ConnTypeOK
    <3> QED
      BY <3>1, <3>2, <3>3 DEF HolderState
  <2> QED
    BY <1>9, <2>1, <2>2 DEF MarkUnavailableFull
<1>10. CASE SendRequest(c)
  <2>1. SingleHolder'
    BY <1>10, ReleaseSingle DEF SendRequest, queueVars, probeVars, TunnelAssumption
  <2>2. QueuedState'
    BY <1>10, <1>0 DEF SendRequest, queueVars, probeVars, HolderState, QueuedState, HandlerState, TypeOK, ProbeTypeOK
  <2>3. HeldState'
    BY <1>10, <1>0 DEF SendRequest, queueVars, probeVars, HolderState, HeldState, HandlerState, TypeOK, ConnTypeOK, ProbeTypeOK
  <2>4. HandlerState'
    BY <1>10, <1>0 DEF SendRequest, queueVars, probeVars, HolderState, HandlerState, TypeOK, ConnTypeOK
  <2>5. RequestState'
    BY <1>10, <1>0 DEF SendRequest, queueVars, probeVars, HolderState, HandlerState, RequestState, TypeOK, ProbeTypeOK
  <2> QED
    BY <2>1, <2>2, <2>3, <2>4, <2>5 DEF HolderState
<1>11. CASE SendFails(c)
  <2>1. CASE /\ HasRoom(Owner[c], held[c]) /\ Put(Owner[c], held[c], [pc EXCEPT ![c] = "ended"])
             /\ held' = [held EXCEPT ![c] = None] /\ UNCHANGED <<ppc, answer>>
    BY <1>11, <2>1, <1>0, RequeueHolder DEF SendFails, probeVars, HolderState, HandlerState
  <2>2. CASE Reject(c, "ProviderTimedOut") /\ UNCHANGED items
    BY <1>11, <2>2, <1>0, RejectHolder DEF SendFails
  <2> QED
    BY <1>11, <2>1, <2>2 DEF SendFails
<1>12. CASE ResponseTimeout(c)
  BY <1>12, <1>0, RejectHolder DEF ResponseTimeout
<1>13. CASE SimUsed(c)
  <2>1. SingleHolder'
    BY <1>13, ReleaseSingle DEF SimUsed, queueVars, TunnelAssumption
  <2>2. QueuedState'
    <3>1. \A q \in Probes : q # held[c] => ppc'[q] = ppc[q]
      BY <1>13 DEF SimUsed, probeVars, TypeOK, ProbeTypeOK
    <3> QED
      BY <1>13, <1>0, <3>1, HeldAlone DEF SimUsed, queueVars, probeVars, HolderState, QueuedState, TypeOK, QueueTypeOK
  <2>3. HeldState'
    BY <1>13, <1>0, HeldAlone DEF SimUsed, queueVars, probeVars, HolderState, HeldState, HandlerState, TypeOK, ConnTypeOK, ProbeTypeOK
  <2>4. HandlerState'
    BY <1>13, <1>0 DEF SimUsed, queueVars, probeVars, HolderState, HandlerState, TypeOK, ConnTypeOK
  <2>5. RequestState'
    BY <1>13, <1>0 DEF SimUsed, queueVars, probeVars, HolderState, HandlerState, RequestState, TypeOK, ProbeTypeOK
  <2> QED
    BY <2>1, <2>2, <2>3, <2>4, <2>5 DEF HolderState
<1>14. CASE SimUnused(c)
  <2>1. SingleHolder'
    BY <1>14, ReleaseSingle DEF SimUnused, End, probeVars, TunnelAssumption
  <2>2. QueuedState'
    BY <1>14, <1>0 DEF SimUnused, End, probeVars, HolderState, QueuedState, HandlerState, TypeOK, ProbeTypeOK
  <2>3. HeldState'
    BY <1>14, <1>0 DEF SimUnused, End, probeVars, HolderState, HeldState, HandlerState, TypeOK, ConnTypeOK, ProbeTypeOK
  <2>4. HandlerState'
    BY <1>14, <1>0 DEF SimUnused, End, probeVars, HolderState, HandlerState, TypeOK, ConnTypeOK
  <2>5. RequestState'
    BY <1>14, <1>0 DEF SimUnused, End, probeVars, HolderState, HandlerState, RequestState, TypeOK, ProbeTypeOK
  <2> QED
    BY <2>1, <2>2, <2>3, <2>4, <2>5 DEF HolderState
<1> QED
  BY <1>1, <1>2, <1>3, <1>4, <1>5, <1>6, <1>7, <1>8, <1>9, <1>10, <1>11, <1>12, <1>13, <1>14, <1>15 DEF ConnStep

\* What a provider's client brings about.
LEMMA ConnInputHolder ==
  ASSUME TunnelAssumption, TypeOK, SingleHolder, HolderState, NEW c \in Conns, ConnInput(c)
  PROVE  SingleHolder' /\ HolderState'
<1>0. pc[c] \in {"got", "unmarkFull", "send", "await", "decline", "use", "relay", "closing",
                "unuse"} =>
        held[c] # None /\ held[c] \in Probes
  BY DEF TypeOK, ConnTypeOK, HolderState, HandlerState
<1>1. CASE ConnOpens(c)
  <2>1. SingleHolder'
    BY <1>1, ReleaseSingle DEF ConnOpens, queueVars, probeVars, TunnelAssumption
  <2>2. QueuedState'
    BY <1>1, <1>0 DEF ConnOpens, queueVars, probeVars, HolderState, QueuedState, HandlerState, TypeOK, ProbeTypeOK
  <2>3. HeldState'
    BY <1>1, <1>0 DEF ConnOpens, queueVars, probeVars, HolderState, HeldState, HandlerState, TypeOK, ConnTypeOK, ProbeTypeOK
  <2>4. HandlerState'
    BY <1>1, <1>0 DEF ConnOpens, queueVars, probeVars, HolderState, HandlerState, TypeOK, ConnTypeOK
  <2>5. RequestState'
    BY <1>1, <1>0 DEF ConnOpens, queueVars, probeVars, HolderState, HandlerState, RequestState, TypeOK, ProbeTypeOK
  <2> QED
    BY <2>1, <2>2, <2>3, <2>4, <2>5 DEF HolderState
<1>2. CASE ConnAuthenticated(c)
  <2>1. SingleHolder'
    BY <1>2, ReleaseSingle DEF ConnAuthenticated, queueVars, probeVars, TunnelAssumption
  <2>2. QueuedState'
    BY <1>2, <1>0 DEF ConnAuthenticated, queueVars, probeVars, HolderState, QueuedState, HandlerState, TypeOK, ProbeTypeOK
  <2>3. HeldState'
    BY <1>2, <1>0 DEF ConnAuthenticated, queueVars, probeVars, HolderState, HeldState, HandlerState, TypeOK, ConnTypeOK, ProbeTypeOK
  <2>4. HandlerState'
    BY <1>2, <1>0 DEF ConnAuthenticated, queueVars, probeVars, HolderState, HandlerState, TypeOK, ConnTypeOK
  <2>5. RequestState'
    BY <1>2, <1>0 DEF ConnAuthenticated, queueVars, probeVars, HolderState, HandlerState, RequestState, TypeOK, ProbeTypeOK
  <2> QED
    BY <2>1, <2>2, <2>3, <2>4, <2>5 DEF HolderState
<1>3. CASE ConnDropped(c)
  <2>1. SingleHolder'
    BY <1>3, ReleaseSingle DEF ConnDropped, queueVars, probeVars, TunnelAssumption
  <2>2. QueuedState'
    BY <1>3, <1>0 DEF ConnDropped, queueVars, probeVars, HolderState, QueuedState, HandlerState, TypeOK, ProbeTypeOK
  <2>3. HeldState'
    BY <1>3, <1>0 DEF ConnDropped, queueVars, probeVars, HolderState, HeldState, HandlerState, TypeOK, ConnTypeOK, ProbeTypeOK
  <2>4. HandlerState'
    BY <1>3, <1>0 DEF ConnDropped, queueVars, probeVars, HolderState, HandlerState, TypeOK, ConnTypeOK
  <2>5. RequestState'
    BY <1>3, <1>0 DEF ConnDropped, queueVars, probeVars, HolderState, HandlerState, RequestState, TypeOK, ProbeTypeOK
  <2> QED
    BY <2>1, <2>2, <2>3, <2>4, <2>5 DEF HolderState
<1>4. CASE Accept(c)
  <2>1. SingleHolder'
    BY <1>4, ReleaseSingle DEF Accept, queueVars, TunnelAssumption
  <2>2. QueuedState'
    BY <1>4, <1>0, HeldAlone DEF Accept, queueVars, HolderState, QueuedState, HandlerState, TypeOK, ProbeTypeOK
  <2>3. HeldState'
    BY <1>4, <1>0, HeldAlone DEF Accept, queueVars, HolderState, HeldState, HandlerState, TypeOK, ConnTypeOK, ProbeTypeOK
  <2>4. HandlerState'
    BY <1>4, <1>0 DEF Accept, queueVars, HolderState, HandlerState, TypeOK, ConnTypeOK
  <2>5. RequestState'
    BY <1>4, <1>0 DEF Accept, HolderState, HeldState, RequestState, TypeOK, ProbeTypeOK
  <2> QED
    BY <2>1, <2>2, <2>3, <2>4, <2>5 DEF HolderState
<1>5. CASE Decline(c)
  <2>1. SingleHolder'
    BY <1>5, ReleaseSingle DEF Decline, queueVars, TunnelAssumption
  <2>2. QueuedState'
    BY <1>5, <1>0, HeldAlone DEF Decline, queueVars, HolderState, QueuedState, HandlerState, TypeOK, ProbeTypeOK
  <2>3. HeldState'
    BY <1>5, <1>0, HeldAlone DEF Decline, queueVars, HolderState, HeldState, HandlerState, TypeOK, ConnTypeOK, ProbeTypeOK
  <2>4. HandlerState'
    BY <1>5, <1>0 DEF Decline, queueVars, HolderState, HandlerState, TypeOK, ConnTypeOK
  <2>5. RequestState'
    BY <1>5, <1>0 DEF Decline, HolderState, HeldState, RequestState, TypeOK, ProbeTypeOK
  <2> QED
    BY <2>1, <2>2, <2>3, <2>4, <2>5 DEF HolderState
<1>6. CASE ResponseMalformed(c)
  <2>1. SingleHolder'
    BY <1>6, ReleaseSingle DEF ResponseMalformed, End, probeVars, TunnelAssumption
  <2>2. QueuedState'
    BY <1>6, <1>0 DEF ResponseMalformed, End, probeVars, HolderState, QueuedState, HandlerState, TypeOK, ProbeTypeOK
  <2>3. HeldState'
    BY <1>6, <1>0 DEF ResponseMalformed, End, probeVars, HolderState, HeldState, HandlerState, TypeOK, ConnTypeOK, ProbeTypeOK
  <2>4. HandlerState'
    BY <1>6, <1>0 DEF ResponseMalformed, End, probeVars, HolderState, HandlerState, TypeOK, ConnTypeOK
  <2>5. RequestState'
    BY <1>6, <1>0 DEF ResponseMalformed, End, probeVars, HolderState, HandlerState, RequestState, TypeOK, ProbeTypeOK
  <2> QED
    BY <2>1, <2>2, <2>3, <2>4, <2>5 DEF HolderState
<1>7. CASE ResponseFails(c)
  <2>1. SingleHolder'
    BY <1>7, ReleaseSingle DEF ResponseFails, End, probeVars, TunnelAssumption
  <2>2. QueuedState'
    BY <1>7, <1>0 DEF ResponseFails, End, probeVars, HolderState, QueuedState, HandlerState, TypeOK, ProbeTypeOK
  <2>3. HeldState'
    BY <1>7, <1>0 DEF ResponseFails, End, probeVars, HolderState, HeldState, HandlerState, TypeOK, ConnTypeOK, ProbeTypeOK
  <2>4. HandlerState'
    BY <1>7, <1>0 DEF ResponseFails, End, probeVars, HolderState, HandlerState, TypeOK, ConnTypeOK
  <2>5. RequestState'
    BY <1>7, <1>0 DEF ResponseFails, End, probeVars, HolderState, HandlerState, RequestState, TypeOK, ProbeTypeOK
  <2> QED
    BY <2>1, <2>2, <2>3, <2>4, <2>5 DEF HolderState
<1>8. CASE RelayEnds(c)
  <2>1. SingleHolder'
    BY <1>8, ReleaseSingle DEF RelayEnds, queueVars, TunnelAssumption
  <2>2. QueuedState'
    BY <1>8, <1>0, HeldAlone DEF RelayEnds, queueVars, HolderState, QueuedState, HandlerState, TypeOK, ProbeTypeOK
  <2>3. HeldState'
    BY <1>8, <1>0, HeldAlone DEF RelayEnds, queueVars, HolderState, HeldState, HandlerState, TypeOK, ConnTypeOK, ProbeTypeOK
  <2>4. HandlerState'
    BY <1>8, <1>0 DEF RelayEnds, queueVars, HolderState, HandlerState, TypeOK, ConnTypeOK
  <2>5. RequestState'
    BY <1>8, <1>0 DEF RelayEnds, queueVars, HolderState, HandlerState, RequestState, TypeOK, ProbeTypeOK
  <2> QED
    BY <2>1, <2>2, <2>3, <2>4, <2>5 DEF HolderState
<1>9. CASE ProviderGoes(c)
  <2>1. SingleHolder'
    BY <1>9, ReleaseSingle DEF ProviderGoes, queueVars, probeVars, TunnelAssumption
  <2>2. QueuedState'
    BY <1>9, <1>0 DEF ProviderGoes, queueVars, probeVars, HolderState, QueuedState, HandlerState, TypeOK, ProbeTypeOK
  <2>3. HeldState'
    BY <1>9, <1>0 DEF ProviderGoes, queueVars, probeVars, HolderState, HeldState, HandlerState, TypeOK, ConnTypeOK, ProbeTypeOK
  <2>4. HandlerState'
    BY <1>9, <1>0 DEF ProviderGoes, queueVars, probeVars, HolderState, HandlerState, TypeOK, ConnTypeOK
  <2>5. RequestState'
    BY <1>9, <1>0 DEF ProviderGoes, queueVars, probeVars, HolderState, HandlerState, RequestState, TypeOK, ProbeTypeOK
  <2> QED
    BY <2>1, <2>2, <2>3, <2>4, <2>5 DEF HolderState
<1>10. CASE DeclineCloses(c)
  <2>1. SingleHolder'
    BY <1>10, ReleaseSingle DEF DeclineCloses, End, TypeOK, ConnTypeOK, TunnelAssumption
  <2>2. QueuedState'
    BY <1>10, <1>0, HeldAlone DEF DeclineCloses, End, HolderState, QueuedState, HandlerState, TypeOK, ProbeTypeOK
  <2>3. HeldState'
    BY <1>10, <1>0, HeldAlone DEF DeclineCloses, End, HolderState, HeldState, HandlerState, TypeOK, ConnTypeOK, ProbeTypeOK
  <2>4. HandlerState'
    BY <1>10, <1>0 DEF DeclineCloses, End, HolderState, HandlerState, TypeOK, ConnTypeOK
  <2>5. RequestState'
    BY <1>10, <1>0 DEF DeclineCloses, End, HolderState, HandlerState, RequestState, TypeOK, ProbeTypeOK
  <2> QED
    BY <2>1, <2>2, <2>3, <2>4, <2>5 DEF HolderState
<1>11. CASE DeclineCloseFails(c)
  <2>1. SingleHolder'
    BY <1>11, ReleaseSingle DEF DeclineCloseFails, End, probeVars, TunnelAssumption
  <2>2. QueuedState'
    BY <1>11, <1>0 DEF DeclineCloseFails, End, probeVars, HolderState, QueuedState, HandlerState, TypeOK, ProbeTypeOK
  <2>3. HeldState'
    BY <1>11, <1>0 DEF DeclineCloseFails, End, probeVars, HolderState, HeldState, HandlerState, TypeOK, ConnTypeOK, ProbeTypeOK
  <2>4. HandlerState'
    BY <1>11, <1>0 DEF DeclineCloseFails, End, probeVars, HolderState, HandlerState, TypeOK, ConnTypeOK
  <2>5. RequestState'
    BY <1>11, <1>0 DEF DeclineCloseFails, End, probeVars, HolderState, HandlerState, RequestState, TypeOK, ProbeTypeOK
  <2> QED
    BY <2>1, <2>2, <2>3, <2>4, <2>5 DEF HolderState
<1>12. CASE StreamsClose(c)
  <2>1. SingleHolder'
    BY <1>12, ReleaseSingle DEF StreamsClose, queueVars, TunnelAssumption
  <2>2. QueuedState'
    BY <1>12, <1>0, HeldAlone DEF StreamsClose, queueVars, HolderState, QueuedState, HandlerState, TypeOK, ProbeTypeOK
  <2>3. HeldState'
    BY <1>12, <1>0, HeldAlone DEF StreamsClose, queueVars, HolderState, HeldState, HandlerState, TypeOK, ConnTypeOK, ProbeTypeOK
  <2>4. HandlerState'
    BY <1>12, <1>0 DEF StreamsClose, queueVars, HolderState, HandlerState, TypeOK, ConnTypeOK
  <2>5. RequestState'
    BY <1>12, <1>0 DEF StreamsClose, queueVars, HolderState, HandlerState, RequestState, TypeOK, ProbeTypeOK
  <2> QED
    BY <2>1, <2>2, <2>3, <2>4, <2>5 DEF HolderState
<1>13. CASE StreamsCloseFail(c)
  <2>1. SingleHolder'
    BY <1>13, ReleaseSingle DEF StreamsCloseFail, End, TunnelAssumption
  <2>2. QueuedState'
    <3>1. \A q \in Probes : q # held[c] => ppc'[q] = ppc[q]
      BY <1>13 DEF StreamsCloseFail, TypeOK, ProbeTypeOK
    <3>2. UNCHANGED <<items, answer, target>> /\ held[c] # None
      BY <1>13, <1>0 DEF StreamsCloseFail
    <3> QED
      BY <3>1, <3>2, HeldAlone DEF HolderState, QueuedState, TypeOK, QueueTypeOK
  <2>3. HeldState'
    BY <1>13, <1>0, HeldAlone DEF StreamsCloseFail, End, HolderState, HeldState, HandlerState, TypeOK, ConnTypeOK, ProbeTypeOK
  <2>4. HandlerState'
    BY <1>13, <1>0 DEF StreamsCloseFail, End, HolderState, HandlerState, TypeOK, ConnTypeOK
  <2>5. RequestState'
    BY <1>13, <1>0 DEF StreamsCloseFail, End, HolderState, HandlerState, RequestState, TypeOK, ProbeTypeOK
  <2> QED
    BY <2>1, <2>2, <2>3, <2>4, <2>5 DEF HolderState
<1> QED
  BY <1>1, <1>2, <1>3, <1>4, <1>5, <1>6, <1>7, <1>8, <1>9, <1>10, <1>11, <1>12, <1>13 DEF ConnInput

\* Probe connections.
LEMMA ProbeHolder ==
  ASSUME TunnelAssumption, TypeOK, SingleHolder, HolderState, NEW q \in Probes,
         ProbeStep(q) \/ ProbeInput(q)
  PROVE  SingleHolder' /\ HolderState'
<1>1. CASE /\ ppc[q] = "resolved" /\ HasRoom(target[q], q) /\ ProbeEnqueue(q) /\ Put(target[q], q, pc)
           /\ ppc' = [ppc EXCEPT ![q] = "handed"] /\ UNCHANGED answer
  <2>1. target[q] \in Providers /\ answer[q] = None
    BY <1>1 DEF HolderState, RequestState, TypeOK, ProbeTypeOK
  <2>2. q \notin Queued /\ \A c \in Conns : held[c] # q
    BY <1>1 DEF HolderState, QueuedState, HeldState, Queued, TunnelAssumption
  <2>3. SingleHolder'
    BY <1>1, <2>1, <2>2, PutSingle DEF ProbeEnqueue
  <2>4. ppc' = [ppc EXCEPT ![q] = "handed"] /\ UNCHANGED <<held, target, answer>>
    BY <1>1 DEF ProbeEnqueue
  <2>5. QueuedState'
    BY <2>1, <2>4, <1>1, PutEntries DEF HolderState, QueuedState, TypeOK, ProbeTypeOK
  <2>6. \A c \in Conns : pc'[c] = pc[c] \/ (held[c] = None /\ pc'[c] = "woken")
    BY <1>1, WaitingHoldsNothing DEF Put, WakeOne, Getters, TypeOK, ConnTypeOK
  <2>7. HeldState' /\ HandlerState'
    BY <2>2, <2>4, <2>6 DEF HolderState, HeldState, HandlerState, TypeOK, ConnTypeOK, ProbeTypeOK
  <2>8. RequestState'
    BY <2>1, <2>4 DEF HolderState, RequestState, TypeOK, ProbeTypeOK
  <2> QED
    BY <2>3, <2>5, <2>7, <2>8 DEF HolderState
<1>2. CASE /\ ppc[q] \in {"idle", "auth", "request", "resolved"}
           /\ ppc'[q] \in {"auth", "request", "resolved", "done"}
           /\ ppc'[q] = "resolved" => target'[q] # None
           /\ ppc'[q] \in {"auth", "request"} => ppc[q] # "resolved" /\ target'[q] = target[q]
           /\ ppc'[q] # "done" => UNCHANGED answer
           /\ \A r \in Probes \ {q} : /\ ppc'[r] = ppc[r] /\ answer'[r] = answer[r]
                                      /\ target'[r] = target[r]
           /\ UNCHANGED <<pc, held, items>>
  <2>1. q \notin Queued /\ \A c \in Conns : held[c] # q
    BY <1>2 DEF HolderState, QueuedState, HeldState, Queued, TunnelAssumption
  <2>2. SingleHolder'
    BY <1>2, ReleaseSingle DEF TunnelAssumption
  <2>3. QueuedState'
    BY <1>2, <2>1 DEF HolderState, QueuedState, Queued, TypeOK, QueueTypeOK
  <2>4. HeldState' /\ HandlerState'
    BY <1>2, <2>1 DEF HolderState, HeldState, HandlerState, TypeOK, ConnTypeOK
  <2>5. RequestState'
    BY <1>2 DEF HolderState, RequestState
  <2> QED
    BY <2>2, <2>3, <2>4, <2>5 DEF HolderState
<1>3. CASE ProbeGoes(q)
  BY <1>3, ReleaseSingle
  DEF ProbeGoes, connVars, queueVars, TunnelAssumption, HolderState, QueuedState, HeldState, HandlerState,
      RequestState
<1>4. CASE /\ ProbeEnqueue(q) /\ UNCHANGED <<items, pc>>
           /\ answer' = [answer EXCEPT ![q] = "NotAvailable"] /\ ppc' = [ppc EXCEPT ![q] = "done"]
  BY <1>2, <1>4 DEF ProbeEnqueue, TypeOK, ProbeTypeOK
<1>5. CASE ProbeDropped(q) \/ ProbeConnects(q) \/ ProbeAuthenticated(q) \/ ProbeForbidden(q)
  BY <1>2, <1>5
  DEF ProbeDropped, ProbeConnects, ProbeAuthenticated, ProbeForbidden, connVars, queueVars,
      TypeOK, ProbeTypeOK
<1>6. ASSUME NEW p \in Providers, ProbeResolved(q, p)
      PROVE  SingleHolder' /\ HolderState'
  BY <1>2, <1>6 DEF ProbeResolved, connVars, queueVars, TypeOK, ProbeTypeOK, TunnelAssumption
<1> QED
  BY <1>1, <1>3, <1>4, <1>5, <1>6 DEF ProbeStep, ProbeInput, ProbeEnqueue

\* The collectors, and the registry.
LEMMA QueueHolder ==
  ASSUME TunnelAssumption, TypeOK, SingleHolder, HolderState, NEW p \in Providers,
         QueueStep(p) \/ RowRemoved(p)
  PROVE  SingleHolder' /\ HolderState'
<1>1. CASE GoStale(p) \/ RowRemoved(p)
  BY <1>1, ReleaseSingle
  DEF GoStale, RowRemoved, connVars, queueVars, probeVars, TunnelAssumption, HolderState, QueuedState,
      HeldState, HandlerState, RequestState
<1>2. CASE CollectQueue(p)
  <2> DEFINE drained == {items[p][i] : i \in DOMAIN items[p]}
  <2>1. /\ UNCHANGED <<pc, held, target>>
        /\ items' = [items EXCEPT ![p] = <<>>]
        /\ \A q \in Probes : IF q \in drained THEN answer'[q] = "ProviderTimedOut" /\ ppc'[q] = "done"
                            ELSE answer'[q] = answer[q] /\ ppc'[q] = ppc[q]
    BY <1>2 DEF CollectQueue
  <2>2. \A r \in Providers : \A i \in DOMAIN items'[r] :
          r # p /\ i \in DOMAIN items[r] /\ items'[r][i] = items[r][i]
    BY <2>1 DEF TypeOK, QueueTypeOK
  <2>3. /\ \A r \in Providers \ {p} : \A i \in DOMAIN items[r] :
             items[r][i] \in Probes /\ items[r][i] \notin drained
        /\ \A c \in Conns : held[c] \notin drained
    BY DEF SingleHolder, Queued, TypeOK, ConnTypeOK, QueueTypeOK
  <2>4. SingleHolder'
    BY <2>1, <2>2 DEF SingleHolder, Queued
  <2>5. QueuedState'
    BY <2>1, <2>2, <2>3 DEF HolderState, QueuedState
  <2>6. HeldState' /\ HandlerState'
    BY <2>1, <2>3 DEF HolderState, HeldState, HandlerState, TypeOK, ConnTypeOK
  <2>7. RequestState'
    BY <2>1 DEF HolderState, RequestState
  <2> QED
    BY <2>4, <2>5, <2>6, <2>7 DEF HolderState
<1>3. CASE DropClosed(p)
  <2>1. PICK f \in [DOMAIN items'[p] -> DOMAIN items[p]] :
          /\ \A i, j \in DOMAIN items'[p] : f[i] = f[j] => i = j
          /\ \A i \in DOMAIN items'[p] : items'[p][i] = items[p][f[i]] /\ ~gone[items[p][f[i]]]
    BY <1>3, DropClosedItems
  <2>2. \A r \in Providers \ {p} : items'[r] = items[r]
    BY <1>3, DropClosedItems
  <2>3. UNCHANGED <<pc, held, target, answer>>
    BY <1>3 DEF DropClosed, connVars
  <2> DEFINE dropped == {q \in Probes : gone[q] /\ \E i \in DOMAIN items[p] : items[p][i] = q}
  <2>4. \A q \in Probes : ppc'[q] = IF q \in dropped THEN "done" ELSE ppc[q]
    BY <1>3 DEF DropClosed
  <2>5. /\ \A r \in Providers : \A i \in DOMAIN items'[r] :
             /\ items'[r][i] \in Probes \ dropped
             /\ \E k \in DOMAIN items[r] : items'[r][i] = items[r][k]
        /\ \A c \in Conns : held[c] \notin dropped
    BY <2>1, <2>2 DEF SingleHolder, Queued, TypeOK, QueueTypeOK
  <2>6. SingleHolder'
    BY <2>1, <2>2, <2>3, ShrinkSingle
  <2>7. QueuedState'
    BY <2>3, <2>4, <2>5 DEF HolderState, QueuedState
  <2>8. HeldState' /\ HandlerState'
    BY <2>3, <2>4, <2>5 DEF HolderState, HeldState, HandlerState, TypeOK, ConnTypeOK
  <2>9. RequestState'
    BY <2>3, <2>4 DEF HolderState, RequestState
  <2> QED
    BY <2>6, <2>7, <2>8, <2>9 DEF HolderState
<1> QED
  BY <1>1, <1>2, <1>3 DEF QueueStep

-----------------------------------------------------------------------------
(***************************************************************************)
(* Theorems                                                                *)
(***************************************************************************)

\* The inductive invariant: each part needs the others (README).
IInv == TypeOK /\ SingleHolder /\ HolderState

LEMMA InitIInv == TunnelAssumption /\ Init => IInv
<1> SUFFICES ASSUME TunnelAssumption, Init PROVE IInv
  OBVIOUS
<1>1. TypeOK
  BY InitType
<1>2. SingleHolder /\ HolderState
  BY DEF Init, SingleHolder, Queued, HolderState, QueuedState, HeldState, HandlerState, RequestState
<1> QED
  BY <1>1, <1>2 DEF IInv

LEMMA NextIInv == TunnelAssumption /\ IInv /\ [Next]_vars => IInv'
<1> SUFFICES ASSUME TunnelAssumption, IInv, [Next]_vars PROVE IInv'
  OBVIOUS
<1> USE DEF IInv
<1>1. ASSUME NEW c \in Conns, ConnStep(c) PROVE IInv'
  BY <1>1, ConnStepType, ConnStepHolder
<1>2. ASSUME NEW c \in Conns, ConnInput(c) PROVE IInv'
  BY <1>2, ConnInputType, ConnInputHolder
<1>3. ASSUME NEW q \in Probes, ProbeStep(q) \/ ProbeInput(q) PROVE IInv'
  BY <1>3, ProbeType, ProbeHolder
<1>4. ASSUME NEW p \in Providers, QueueStep(p) \/ RowRemoved(p) PROVE IInv'
  BY <1>4, QueueStepType, QueueHolder
<1>5. CASE UNCHANGED vars
  BY <1>5, ReleaseSingle
  DEF vars, connVars, queueVars, probeVars, TypeOK, ConnTypeOK, QueueTypeOK, ProbeTypeOK,
      TunnelAssumption, HolderState, QueuedState, HeldState, HandlerState, RequestState
<1> QED
  BY <1>1, <1>2, <1>3, <1>4, <1>5 DEF Next

LEMMA SpecIInv == Spec => []IInv
BY TunnelAssumption, InitIInv, NextIInv, PTL DEF Spec

\* Every variable keeps its type and no queue outgrows MAX_QUEUE_SIZE: put_nowait
\* refuses, on a probe's arrival and on a handler's requeue alike.
THEOREM TypeCorrect == Spec => []TypeOK
BY SpecIInv, PTL DEF IInv

\* A probe's connection is in one place of one queue or with one handler, through
\* every take, requeue, collection and failure of provider_handler.py and
\* connection_queue.py.
THEOREM ProbesHaveOneHolder == Spec => []SingleHolder
BY SpecIInv, PTL DEF IInv

\* Queued probes are open and unanswered, and handlers answer what they hold.
THEOREM HoldersKnowTheirProbes == Spec => []HolderState
BY SpecIInv, PTL DEF IInv

\* handle_established_connection only ever joins a probe with a connection of the
\* provider its ConnectRequest was resolved to, after forwarding Success.
THEOREM TunnelsArePaired == Spec => []TunnelsPaired
<1>1. IInv => TunnelsPaired
  BY DEF IInv, HolderState, HeldState, HandlerState, TunnelsPaired
<1> QED
  BY <1>1, SpecIInv, PTL

\* No ConnectResponse follows another: the answers of probe_handler.py,
\* provider_handler.py and Queue._cleanup exclude one another.
THEOREM ProbesAnsweredOnce == Spec => AnsweredOnce
<1>1. ASSUME TunnelAssumption, IInv, Next, NEW q \in Probes, answer[q] # None
      PROVE  answer'[q] = answer[q]
  <2> USE <1>1 DEF IInv
  <2>1. ASSUME NEW c \in Conns, ConnStep(c) PROVE answer'[q] = answer[q]
    BY <2>1
    DEF ConnStep, StartGet, ResumeGet, MarkAvailable, PollEof, GotEntry, RequeueOnEof, CancelGet,
        GetCancelled, MarkUnavailable, MarkUnavailableFull, SendRequest, SendFails, ResponseTimeout, SimUsed,
        SimUnused, Reject, probeVars, HolderState, HeldState, HandlerState, TypeOK, ProbeTypeOK
  <2>2. ASSUME NEW c \in Conns, ConnInput(c) PROVE answer'[q] = answer[q]
    BY <2>2
    DEF ConnInput, ConnOpens, ConnAuthenticated, ConnDropped, Accept, Decline, ResponseMalformed,
        ResponseFails, DeclineCloses, DeclineCloseFails, RelayEnds, StreamsClose, StreamsCloseFail,
        ProviderGoes, probeVars, HolderState, HeldState, HandlerState,
        TypeOK, ProbeTypeOK
  <2>3. ASSUME NEW r \in Probes, ProbeStep(r) \/ ProbeInput(r) PROVE answer'[q] = answer[q]
    BY <2>3
    DEF ProbeStep, ProbeInput, ProbeConnects, ProbeAuthenticated, ProbeDropped, ProbeForbidden, ProbeGoes,
        ProbeResolved, ProbeEnqueue, HolderState, RequestState, TypeOK, ProbeTypeOK
  <2>4. ASSUME NEW p \in Providers, CollectQueue(p) PROVE answer'[q] = answer[q]
    BY <2>4 DEF CollectQueue, HolderState, QueuedState
  <2>5. ASSUME NEW p \in Providers, GoStale(p) \/ DropClosed(p) \/ RowRemoved(p)
        PROVE  answer'[q] = answer[q]
    BY <2>5 DEF GoStale, DropClosed, RowRemoved, probeVars
  <2> QED
    BY <2>1, <2>2, <2>3, <2>4, <2>5 DEF Next, QueueStep
<1>2. TunnelAssumption /\ IInv /\ [Next]_vars => [\A q \in Probes : answer[q] # None => UNCHANGED answer[q]]_vars
  BY <1>1
<1> QED
  BY TunnelAssumption, <1>2, SpecIInv, PTL DEF Spec, AnsweredOnce

-----------------------------------------------------------------------------
(***************************************************************************)
(* No wake-up of asyncio.Queue is lost.  The waiters of a provider's queue *)
(* as a function of the handlers' places, so that the states before and    *)
(* after a step can be told apart.                                         *)
(***************************************************************************)
Asleep == {"getter"}
Awake == {"woken", "cancelWoken"}
Waiters(at, lost, s, p) == {c \in Conns : Owner[c] = p /\ at[c] \in s /\ ~lost[c]}

\* An entry for each woken handler at most, if anybody sleeps.
Covers(at, lost, n, p) ==
  Waiters(at, lost, Asleep, p) # {} => n <= Cardinality(Waiters(at, lost, Awake, p))

LEMMA WakeupsAre ==
  /\ NoLostWakeup <=> \A p \in Providers : Covers(pc, orphan, Len(items[p]), p)
  /\ NoLostWakeup' <=> \A p \in Providers : Covers(pc', orphan', Len(items'[p]), p)
BY DEF NoLostWakeup, Covers, Waiters, Asleep, Awake, Getters, Woken

LEMMA WaitersFinite ==
  ASSUME TunnelAssumption, NEW at, NEW lost, NEW s, NEW p
  PROVE  /\ IsFiniteSet(Waiters(at, lost, s, p))
         /\ Cardinality(Waiters(at, lost, s, p)) \in Nat
<1>1. Waiters(at, lost, s, p) \in SUBSET Conns
  BY DEF Waiters, Asleep, Awake
<1>2. IsFiniteSet(Waiters(at, lost, s, p))
  BY <1>1, FS_Subset DEF TunnelAssumption
<1> QED
  BY <1>2, FS_CardinalityType

\* An empty queue needs nobody.
LEMMA CoversNone ==
  ASSUME TunnelAssumption, NEW at, NEW lost, NEW p
  PROVE  Covers(at, lost, 0, p)
BY WaitersFinite DEF Covers

\* Nobody goes to sleep, nobody who was woken is gone, and nothing is added.
LEMMA CoversKeep ==
  ASSUME TunnelAssumption, NEW at, NEW lost, NEW n \in Nat, NEW p, Covers(at, lost, n, p),
         NEW at1, NEW lost1, NEW k \in Nat, k <= n,
         Waiters(at1, lost1, Asleep, p) \subseteq Waiters(at, lost, Asleep, p),
         Waiters(at, lost, Awake, p) \subseteq Waiters(at1, lost1, Awake, p)
  PROVE  Covers(at1, lost1, k, p)
<1> DEFINE w == Waiters(at, lost, Awake, p)
           w1 == Waiters(at1, lost1, Awake, p)
<1>1. IsFiniteSet(w1) /\ Cardinality(w1) \in Nat /\ Cardinality(w) \in Nat
  BY WaitersFinite
<1>2. Cardinality(w) <= Cardinality(w1)
  BY <1>1, FS_Subset
<1> HIDE DEF w, w1
<1>3. Waiters(at1, lost1, Asleep, p) # {} => n <= Cardinality(w)
  BY DEF Covers, w
<1>4. Waiters(at1, lost1, Asleep, p) # {} => k <= Cardinality(w1)
  BY <1>1, <1>2, <1>3
<1> QED
  BY <1>4 DEF Covers, w1

\* A woken handler leaves, with an entry.
LEMMA CoversTake ==
  ASSUME TunnelAssumption, NEW at, NEW lost, NEW n \in Nat, NEW p, Covers(at, lost, n, p),
         NEW at1, NEW lost1, NEW k \in Nat, k + 1 = n,
         NEW c \in Waiters(at, lost, Awake, p),
         Waiters(at1, lost1, Asleep, p) \subseteq Waiters(at, lost, Asleep, p),
         Waiters(at1, lost1, Awake, p) = Waiters(at, lost, Awake, p) \ {c}
  PROVE  Covers(at1, lost1, k, p)
<1> DEFINE w == Waiters(at, lost, Awake, p)
           w1 == Waiters(at1, lost1, Awake, p)
<1>1. IsFiniteSet(w) /\ Cardinality(w1) \in Nat /\ Cardinality(w) \in Nat
  BY WaitersFinite
<1>2. Cardinality(w1) = Cardinality(w) - 1
  BY <1>1, FS_RemoveElement
<1> HIDE DEF w, w1
<1>3. Waiters(at1, lost1, Asleep, p) # {} => n <= Cardinality(w)
  BY DEF Covers, w
<1>4. Waiters(at1, lost1, Asleep, p) # {} => k <= Cardinality(w1)
  BY <1>1, <1>2, <1>3
<1> QED
  BY <1>4 DEF Covers, w1

\* An entry arrives and one of the sleepers is woken.
LEMMA CoversWake ==
  ASSUME TunnelAssumption, NEW at, NEW lost, NEW n \in Nat, NEW p, Covers(at, lost, n, p),
         NEW at1, NEW lost1, NEW k \in Nat, k = n + 1,
         NEW g \in Waiters(at, lost, Asleep, p),
         Waiters(at1, lost1, Awake, p) = Waiters(at, lost, Awake, p) \cup {g}
  PROVE  Covers(at1, lost1, k, p)
<1> DEFINE w == Waiters(at, lost, Awake, p)
           w1 == Waiters(at1, lost1, Awake, p)
<1>1. IsFiniteSet(w) /\ Cardinality(w1) \in Nat /\ Cardinality(w) \in Nat
  BY WaitersFinite
<1>2. g \notin w
  BY DEF Waiters, Asleep, Awake
<1>3. Cardinality(w1) = Cardinality(w) + 1
  BY <1>1, <1>2, FS_AddElement
<1>4. n <= Cardinality(w)
  BY DEF Covers, w
<1> HIDE DEF w, w1
<1>5. k <= Cardinality(w1)
  BY <1>1, <1>3, <1>4
<1> QED
  BY <1>5 DEF Covers, w1

\* A woken handler is cancelled and passes its wake-up on to a sleeper.
LEMMA CoversPass ==
  ASSUME TunnelAssumption, NEW at, NEW lost, NEW n \in Nat, NEW p, Covers(at, lost, n, p),
         NEW at1, NEW lost1, NEW c \in Waiters(at, lost, Awake, p),
         NEW g \in Waiters(at, lost, Asleep, p),
         Waiters(at1, lost1, Awake, p) = (Waiters(at, lost, Awake, p) \ {c}) \cup {g}
  PROVE  Covers(at1, lost1, n, p)
<1> DEFINE w == Waiters(at, lost, Awake, p)
           w1 == Waiters(at1, lost1, Awake, p)
<1>1. IsFiniteSet(w) /\ Cardinality(w1) \in Nat /\ Cardinality(w) \in Nat
  BY WaitersFinite
<1>2. g \notin w \ {c}
  BY DEF Waiters, Asleep, Awake
<1>3. IsFiniteSet(w \ {c}) /\ Cardinality(w \ {c}) = Cardinality(w) - 1
  BY <1>1, FS_RemoveElement
<1>4. Cardinality(w1) = Cardinality(w \ {c}) + 1
  BY <1>2, <1>3, FS_AddElement
<1>5. n <= Cardinality(w)
  BY DEF Covers, w
<1> HIDE DEF w, w1
<1>6. n <= Cardinality(w1)
  BY <1>1, <1>3, <1>4, <1>5
<1> QED
  BY <1>6 DEF Covers, w1

\* Steps of handlers that are not at a queue, and leave the queues alone.
LEMMA ElsewhereCovers ==
  ASSUME TunnelAssumption, TypeOK, TypeOK', NoLostWakeup, NEW c \in Conns, UNCHANGED <<items, orphan>>,
         pc[c] \in Awake => pc'[c] \in Awake, pc'[c] \notin Asleep, \A d \in Conns \ {c} : pc'[d] = pc[d]
  PROVE  NoLostWakeup'
<1> SUFFICES ASSUME NEW p \in Providers PROVE Covers(pc', orphan', Len(items'[p]), p)
  BY WakeupsAre
<1>1. Covers(pc, orphan, Len(items[p]), p) /\ Len(items[p]) \in Nat
  BY WakeupsAre DEF TypeOK, QueueTypeOK
<1>2. /\ Waiters(pc', orphan', Asleep, p) \subseteq Waiters(pc, orphan, Asleep, p)
      /\ Waiters(pc, orphan, Awake, p) \subseteq Waiters(pc', orphan', Awake, p)
  BY DEF Waiters, Asleep, Awake
<1> QED
  BY <1>1, <1>2, CoversKeep

\* put_nowait by a probe's handler, or by a provider's handler that requeues.
LEMMA PutCovers ==
  ASSUME TunnelAssumption, TypeOK, NoLostWakeup, NEW p \in Providers, NEW q \in Probes,
         NEW from \in [Conns -> ConnPC], Put(p, q, from), UNCHANGED orphan,
         \A d \in Conns : from[d] = pc[d] \/ ({from[d], pc[d]} \cap (Asleep \cup Awake) = {})
  PROVE  NoLostWakeup'
<1> SUFFICES ASSUME NEW r \in Providers PROVE Covers(pc', orphan', Len(items'[r]), r)
  BY WakeupsAre
<1>1. Covers(pc, orphan, Len(items[r]), r) /\ Len(items[r]) \in Nat /\ Len(items[p]) \in Nat
  BY WakeupsAre DEF TypeOK, QueueTypeOK
<1>2. items' = [items EXCEPT ![p] = Append(items[p], q)] /\ items \in [Providers -> Seq(Probes)]
  BY DEF Put, TypeOK, QueueTypeOK
<1>3. \A s \in {Asleep, Awake} : Waiters(from, orphan, s, r) = Waiters(pc, orphan, s, r)
  BY DEF Waiters, Asleep, Awake
<1>4. Getters(p) = Waiters(pc, orphan, Asleep, p)
  BY DEF Getters, Waiters, Asleep, Awake
<1>5. CASE Getters(p) = {}
  <2>1. pc' = from
    BY <1>5 DEF Put, WakeOne
  <2>2. CASE r = p
    BY <1>3, <1>4, <1>5, <2>1, <2>2 DEF Covers
  <2>3. CASE r # p
    <3>1. items'[r] = items[r]
      BY <1>2, <2>3
    <3> QED
      BY <1>1, <1>3, <2>1, <3>1, CoversKeep
  <2> QED
    BY <2>2, <2>3
<1>6. CASE Getters(p) # {}
  <2>1. PICK g \in Getters(p) : pc' = [from EXCEPT ![g] = "woken"]
    BY <1>6 DEF Put, WakeOne
  <2>2. g \in Conns /\ Owner[g] = p /\ pc[g] = "getter" /\ ~orphan[g]
    BY DEF Getters
  <2>3. CASE r = p
    <3>1. Len(items'[r]) = Len(items[r]) + 1
      BY <1>2, <2>3
    <3>2. Waiters(pc', orphan', Awake, r) = Waiters(pc, orphan, Awake, r) \cup {g}
      BY <2>1, <2>2, <2>3, <1>3 DEF Waiters, Asleep, Awake
    <3>3. g \in Waiters(pc, orphan, Asleep, r)
      BY <2>2, <2>3 DEF Waiters, Asleep, Awake
    <3> QED
      BY <1>1, <3>1, <3>2, <3>3, CoversWake
  <2>4. CASE r # p
    <3>1. items'[r] = items[r]
      BY <1>2, <2>4
    <3>2. \A s \in {Asleep, Awake} : Waiters(pc', orphan', s, r) = Waiters(from, orphan, s, r)
      BY <2>1, <2>2, <2>4 DEF Waiters, Asleep, Awake
    <3> QED
      BY <1>1, <1>3, <3>1, <3>2, CoversKeep
  <2> QED
    BY <2>3, <2>4
<1> QED
  BY <1>5, <1>6

\* Queue.get from the start and after a wake-up: Take removes an entry and the
\* handler that was woken for it.
LEMMA GetCovers ==
  ASSUME TunnelAssumption, TypeOK, TypeOK', NoLostWakeup, NEW c \in Conns, StartGet(c) \/ ResumeGet(c)
  PROVE  NoLostWakeup'
<1> SUFFICES ASSUME NEW r \in Providers PROVE Covers(pc', orphan', Len(items'[r]), r)
  BY WakeupsAre
<1>1. /\ Covers(pc, orphan, Len(items[r]), r) /\ Len(items[r]) \in Nat
      /\ Owner[c] \in Providers /\ items \in [Providers -> Seq(Probes)] /\ pc \in [Conns -> ConnPC]
  BY WakeupsAre DEF TypeOK, QueueTypeOK, ConnTypeOK, TunnelAssumption
<1>2. CASE items[Owner[c]] # <<>> /\ Take(c) /\ (pc[c] = "start" \/ (pc[c] = "woken" /\ ~orphan[c]))
  <2>1. /\ pc' = [pc EXCEPT ![c] = "got"] /\ orphan' = orphan
        /\ items' = [items EXCEPT ![Owner[c]] = Tail(items[Owner[c]])]
    BY <1>2 DEF Take
  <2>2. Waiters(pc', orphan', Asleep, r) \subseteq Waiters(pc, orphan, Asleep, r)
    BY <1>1, <2>1 DEF Waiters, Asleep, Awake
  <2>3. CASE r # Owner[c] \/ pc[c] = "start"
    <3>1. Waiters(pc, orphan, Awake, r) \subseteq Waiters(pc', orphan', Awake, r)
      BY <1>1, <2>1, <2>3 DEF Waiters, Asleep, Awake
    <3>2. Len(items'[r]) \in Nat /\ Len(items'[r]) <= Len(items[r])
      BY <1>1, <1>2, <2>1
    <3> QED
      BY <1>1, <2>2, <3>1, <3>2, CoversKeep
  <2>4. CASE r = Owner[c] /\ pc[c] # "start"
    <3>1. c \in Waiters(pc, orphan, Awake, r)
      BY <1>2, <2>4 DEF Waiters, Asleep, Awake
    <3>2. Waiters(pc', orphan', Awake, r) = Waiters(pc, orphan, Awake, r) \ {c}
      BY <1>1, <2>1 DEF Waiters, Asleep, Awake
    <3>3. Len(items'[r]) \in Nat /\ Len(items'[r]) + 1 = Len(items[r])
      BY <1>1, <1>2, <2>1, <2>4
    <3> QED
      BY <1>1, <2>2, <3>1, <3>2, <3>3, CoversTake
  <2> QED
    BY <2>3, <2>4
<1>3. CASE /\ items[Owner[c]] = <<>> \/ (pc[c] = "woken" /\ orphan[c])
           /\ pc' = [pc EXCEPT ![c] = "getter"] /\ UNCHANGED <<items, orphan>>
  <2>1. CASE r = Owner[c] /\ items[Owner[c]] = <<>>
    <3>1. Len(items'[r]) = 0
      BY <1>3, <2>1
    <3> QED
      BY <3>1, CoversNone
  <2>2. CASE r # Owner[c] \/ items[Owner[c]] # <<>>
    <3>1. \A s \in {Asleep, Awake} : Waiters(pc', orphan', s, r) = Waiters(pc, orphan, s, r)
      BY <1>1, <1>3, <2>2 DEF Waiters, Asleep, Awake
    <3> QED
      BY <1>1, <1>3, <3>1, CoversKeep
  <2> QED
    BY <2>1, <2>2
<1> QED
  BY <1>2, <1>3 DEF StartGet, ResumeGet

\* A cancelled get passes on the wake-up it will not use.
LEMMA CancelCovers ==
  ASSUME TunnelAssumption, TypeOK, NoLostWakeup, NEW c \in Conns, GetCancelled(c)
  PROVE  NoLostWakeup'
<1> DEFINE left == [pc EXCEPT ![c] = "unmark"]
<1> SUFFICES ASSUME NEW r \in Providers PROVE Covers(pc', orphan', Len(items'[r]), r)
  BY WakeupsAre
<1>1. /\ Covers(pc, orphan, Len(items[r]), r) /\ Len(items[r]) \in Nat
      /\ Owner[c] \in Providers /\ items \in [Providers -> Seq(Probes)] /\ pc \in [Conns -> ConnPC]
      /\ orphan \in [Conns -> BOOLEAN]
  BY WakeupsAre DEF TypeOK, QueueTypeOK, ConnTypeOK, TunnelAssumption
<1>2. /\ items' = items /\ orphan' = [orphan EXCEPT ![c] = FALSE]
      /\ pc[c] \in {"cancel", "cancelWoken"}
  BY DEF GetCancelled, queueVars
<1>3. /\ Waiters(left, orphan', Asleep, r) \subseteq Waiters(pc, orphan, Asleep, r)
      /\ Waiters(left, orphan', Awake, r) = Waiters(pc, orphan, Awake, r) \ {c}
  BY <1>1, <1>2 DEF Waiters, Asleep, Awake
<1>4. CASE ~(pc[c] = "cancelWoken" /\ ~orphan[c] /\ items[Owner[c]] # <<>>)
  <2>1. pc' = left
    BY <1>4 DEF GetCancelled
  <2>2. CASE pc[c] = "cancelWoken" /\ ~orphan[c] /\ r = Owner[c]
    <3>1. Len(items'[r]) = 0
      BY <1>2, <1>4, <2>2
    <3> QED
      BY <3>1, CoversNone
  <2>3. CASE ~(pc[c] = "cancelWoken" /\ ~orphan[c] /\ r = Owner[c])
    <3>1. c \notin Waiters(pc, orphan, Awake, r)
      BY <1>2, <2>3 DEF Waiters, Asleep, Awake
    <3>2. /\ Waiters(pc', orphan', Asleep, r) \subseteq Waiters(pc, orphan, Asleep, r)
          /\ Waiters(pc, orphan, Awake, r) \subseteq Waiters(pc', orphan', Awake, r)
      BY <1>3, <2>1, <3>1
    <3>3. Len(items'[r]) \in Nat /\ Len(items'[r]) <= Len(items[r])
      BY <1>1, <1>2
    <3> QED
      BY <1>1, <3>2, <3>3, CoversKeep
  <2> QED
    BY <2>2, <2>3
<1>5. CASE /\ pc[c] = "cancelWoken" /\ ~orphan[c] /\ items[Owner[c]] # <<>>
           /\ WakeOne(Owner[c], left)
  <2>1. CASE r # Owner[c]
    <3>1. /\ Waiters(pc', orphan', Asleep, r) \subseteq Waiters(left, orphan', Asleep, r)
          /\ Waiters(left, orphan', Awake, r) \subseteq Waiters(pc', orphan', Awake, r)
      BY <1>1, <1>5, <2>1 DEF Waiters, Asleep, Awake, WakeOne, Getters
    <3>2. c \notin Waiters(pc, orphan, Awake, r)
      BY <2>1 DEF Waiters, Asleep, Awake
    <3>3. /\ Waiters(pc', orphan', Asleep, r) \subseteq Waiters(pc, orphan, Asleep, r)
          /\ Waiters(pc, orphan, Awake, r) \subseteq Waiters(pc', orphan', Awake, r)
      BY <1>3, <3>1, <3>2
    <3>4. Len(items'[r]) \in Nat /\ Len(items'[r]) <= Len(items[r])
      BY <1>1, <1>2
    <3> QED
      BY <1>1, <3>3, <3>4, CoversKeep
  <2>2. CASE r = Owner[c] /\ Getters(r) = {}
    <3>1. pc' = left
      BY <1>5, <2>2 DEF WakeOne
    <3>2. Waiters(pc', orphan', Asleep, r) = {}
      BY <1>3, <2>2, <3>1 DEF Waiters, Asleep, Awake, Getters
    <3> QED
      BY <3>2 DEF Covers
  <2>3. CASE r = Owner[c] /\ Getters(r) # {}
    <3>1. PICK g \in Getters(r) : pc' = [left EXCEPT ![g] = "woken"]
      BY <1>5, <2>3 DEF WakeOne
    <3>2. g \in Conns /\ Owner[g] = r /\ pc[g] = "getter" /\ ~orphan[g] /\ g # c
      BY <1>5 DEF Getters
    <3>3. Waiters(pc', orphan', Awake, r) = Waiters(left, orphan', Awake, r) \cup {g}
      BY <1>1, <1>2, <3>1, <3>2 DEF Waiters, Asleep, Awake
    <3>4. Waiters(pc', orphan', Awake, r) = (Waiters(pc, orphan, Awake, r) \ {c}) \cup {g}
      BY <1>3, <3>3
    <3>5. c \in Waiters(pc, orphan, Awake, r) /\ g \in Waiters(pc, orphan, Asleep, r)
      BY <1>5, <2>3, <3>2 DEF Waiters, Asleep, Awake
    <3> QED
      BY <1>1, <1>2, <3>4, <3>5, CoversPass
  <2> QED
    BY <2>1, <2>2, <2>3
<1> QED
  BY <1>4, <1>5 DEF GetCancelled

\* The collectors: an emptied queue needs nobody, a shorter one no more.
LEMMA CollectCovers ==
  ASSUME TunnelAssumption, TypeOK, TypeOK', NoLostWakeup, NEW p \in Providers, QueueStep(p) \/ RowRemoved(p)
  PROVE  NoLostWakeup'
<1> SUFFICES ASSUME NEW r \in Providers PROVE Covers(pc', orphan', Len(items'[r]), r)
  BY WakeupsAre
<1>1. /\ Covers(pc, orphan, Len(items[r]), r) /\ Len(items[r]) \in Nat /\ Len(items'[r]) \in Nat
      /\ items \in [Providers -> Seq(Probes)]
  BY WakeupsAre DEF TypeOK, QueueTypeOK
<1>2. CASE CollectQueue(p)
  <2>1. pc' = pc /\ items' = [items EXCEPT ![p] = <<>>]
    BY <1>2 DEF CollectQueue
  <2>2. CASE r = p
    <3>1. Len(items'[r]) = 0
      BY <1>1, <2>1, <2>2
    <3> QED
      BY <3>1, CoversNone
  <2>3. CASE r # p
    <3>1. \A s \in {Asleep, Awake} : Waiters(pc', orphan', s, r) = Waiters(pc, orphan, s, r)
      BY <1>2, <2>1, <2>3 DEF Waiters, Asleep, Awake, CollectQueue, Getters, Woken, Cancelled
    <3>2. Len(items'[r]) <= Len(items[r])
      BY <1>1, <2>1, <2>3
    <3>3. /\ Waiters(pc', orphan', Asleep, r) \subseteq Waiters(pc, orphan, Asleep, r)
          /\ Waiters(pc, orphan, Awake, r) \subseteq Waiters(pc', orphan', Awake, r)
      BY <3>1
    <3> QED
      BY <1>1, <3>2, <3>3, CoversKeep
  <2> QED
    BY <2>2, <2>3
<1>3. CASE GoStale(p) \/ DropClosed(p) \/ RowRemoved(p)
  <2>1. pc' = pc /\ orphan' = orphan
    BY <1>3 DEF GoStale, DropClosed, RowRemoved, connVars
  <2>2. Len(items'[r]) <= Len(items[r])
    <3>1. CASE DropClosed(p)
      <4>1. Len(items'[p]) <= Len(items[p]) /\ \A u \in Providers \ {p} : items'[u] = items[u]
        BY <3>1, DropClosedItems, Zenon
      <4> QED
        BY <1>1, <4>1
    <3>2. CASE GoStale(p) \/ RowRemoved(p)
      BY <1>1, <3>2 DEF GoStale, RowRemoved, queueVars
    <3> QED
      BY <1>3, <3>1, <3>2
  <2> QED
    BY <1>1, <2>1, <2>2, CoversKeep
<1> QED
  BY <1>2, <1>3 DEF QueueStep

LEMMA StutterCovers ==
  ASSUME NoLostWakeup, UNCHANGED <<pc, orphan, items>>
  PROVE  NoLostWakeup'
BY WakeupsAre

\* The handler's own steps.
LEMMA ConnStepCovers ==
  ASSUME TunnelAssumption, TypeOK, TypeOK', HolderState, NoLostWakeup, NEW c \in Conns, ConnStep(c)
  PROVE  NoLostWakeup'
<1>0. /\ Owner[c] \in Providers /\ pc \in [Conns -> ConnPC]
      /\ pc[c] \in {"got", "send"} => held[c] \in Probes
  BY DEF TypeOK, ConnTypeOK, TunnelAssumption, HolderState, HandlerState
<1>1. CASE StartGet(c) \/ ResumeGet(c)
  BY <1>1, GetCovers
<1>2. CASE GetCancelled(c)
  BY <1>2, CancelCovers
<1>3. ASSUME NEW next \in {"unmark", "ended"}, pc[c] \in {"got", "send"},
             Put(Owner[c], held[c], [pc EXCEPT ![c] = next]), UNCHANGED orphan
      PROVE  NoLostWakeup'
  <2> DEFINE from == [pc EXCEPT ![c] = next]
  <2>1. /\ from \in [Conns -> ConnPC]
        /\ \A d \in Conns : from[d] = pc[d] \/ ({from[d], pc[d]} \cap (Asleep \cup Awake) = {})
    BY <1>0, <1>3 DEF ConnPC, Asleep, Awake
  <2>2. Put(Owner[c], held[c], from)
    BY <1>3
  <2> HIDE DEF from
  <2> QED
    BY <1>0, <1>3, <2>1, <2>2, PutCovers
<1>4. CASE PollEof(c)
  BY <1>4, StutterCovers DEF PollEof, queueVars
<1>5. CASE CancelGet(c) \/ MarkAvailable(c) \/ MarkUnavailable(c) \/ SendRequest(c) \/ SimUsed(c) \/ SimUnused(c)
  <2>1. /\ UNCHANGED <<items, orphan>> /\ (pc[c] \in Awake => pc'[c] \in Awake) /\ pc'[c] \notin Asleep
        /\ \A d \in Conns \ {c} : pc'[d] = pc[d]
    BY <1>0, <1>5 DEF CancelGet, MarkAvailable, MarkUnavailable, SendRequest, SimUsed, SimUnused, End, queueVars, Asleep, Awake
  <2> QED
    BY <2>1, ElsewhereCovers
<1>6. CASE GotEntry(c) \/ MarkUnavailableFull(c) \/ ResponseTimeout(c)
  <2>1. /\ UNCHANGED <<items, orphan>> /\ (pc[c] \in Awake => pc'[c] \in Awake) /\ pc'[c] \notin Asleep
        /\ \A d \in Conns \ {c} : pc'[d] = pc[d]
    BY <1>0, <1>6 DEF GotEntry, MarkUnavailableFull, ResponseTimeout, Reject, End, queueVars, Asleep, Awake
  <2> QED
    BY <2>1, ElsewhereCovers
<1>7. CASE RequeueOnEof(c)
  <2>1. CASE Put(Owner[c], held[c], [pc EXCEPT ![c] = "unmark"])
    BY <1>3, <1>7, <2>1 DEF RequeueOnEof
  <2>2. CASE pc' = [pc EXCEPT ![c] = "unmarkFull"] /\ items' = items
    <3>1. /\ UNCHANGED <<items, orphan>> /\ (pc[c] \in Awake => pc'[c] \in Awake) /\ pc'[c] \notin Asleep
          /\ \A d \in Conns \ {c} : pc'[d] = pc[d]
      BY <1>0, <1>7, <2>2 DEF RequeueOnEof, Asleep, Awake
    <3> QED
      BY <3>1, ElsewhereCovers
  <2> QED
    BY <1>7, <2>1, <2>2 DEF RequeueOnEof
<1>8. CASE SendFails(c)
  <2>1. CASE Put(Owner[c], held[c], [pc EXCEPT ![c] = "ended"])
    BY <1>3, <1>8, <2>1 DEF SendFails
  <2>2. CASE Reject(c, "ProviderTimedOut") /\ items' = items
    <3>1. /\ UNCHANGED <<items, orphan>> /\ (pc[c] \in Awake => pc'[c] \in Awake) /\ pc'[c] \notin Asleep
          /\ \A d \in Conns \ {c} : pc'[d] = pc[d]
      BY <1>0, <1>8, <2>2 DEF SendFails, Reject, End, Asleep, Awake
    <3> QED
      BY <3>1, ElsewhereCovers
  <2> QED
    BY <1>8, <2>1, <2>2 DEF SendFails
<1> QED
  BY <1>1, <1>2, <1>4, <1>5, <1>6, <1>7, <1>8 DEF ConnStep

\* What a provider's client brings about happens beside the queue.
LEMMA ConnInputCovers ==
  ASSUME TunnelAssumption, TypeOK, TypeOK', NoLostWakeup, NEW c \in Conns, ConnInput(c)
  PROVE  NoLostWakeup'
<1>1. pc \in [Conns -> ConnPC]
  BY DEF TypeOK, ConnTypeOK
<1>2. CASE ProviderGoes(c)
  BY <1>2, StutterCovers DEF ProviderGoes, queueVars
<1>3. CASE ~ProviderGoes(c)
  <2>1. /\ UNCHANGED <<items, orphan>> /\ (pc[c] \in Awake => pc'[c] \in Awake) /\ pc'[c] \notin Asleep
        /\ \A d \in Conns \ {c} : pc'[d] = pc[d]
    BY <1>1, <1>3
    DEF ConnInput, ConnOpens, ConnAuthenticated, ConnDropped, Accept, Decline, ResponseMalformed,
        ResponseFails, DeclineCloses, DeclineCloseFails, RelayEnds, StreamsClose, StreamsCloseFail, End,
        queueVars, Asleep, Awake
  <2> QED
    BY <2>1, ElsewhereCovers
<1> QED
  BY <1>2, <1>3

LEMMA ProbeCovers ==
  ASSUME TunnelAssumption, TypeOK, HolderState, NoLostWakeup, NEW q \in Probes, ProbeStep(q) \/ ProbeInput(q)
  PROVE  NoLostWakeup'
<1>1. CASE ProbeEnqueue(q) /\ Put(target[q], q, pc)
  <2>1. /\ target[q] \in Providers /\ pc \in [Conns -> ConnPC]
        /\ orphan' = orphan
    BY <1>1 DEF ProbeEnqueue, TypeOK, ProbeTypeOK, ConnTypeOK, HolderState, RequestState
  <2> QED
    BY <1>1, <2>1, PutCovers
<1>2. CASE UNCHANGED <<pc, orphan, items>>
  BY <1>2, StutterCovers
<1> QED
  BY <1>1, <1>2
  DEF ProbeStep, ProbeInput, ProbeEnqueue, ProbeDropped, ProbeConnects, ProbeAuthenticated,
      ProbeForbidden, ProbeGoes, ProbeResolved, connVars, queueVars

\* However handlers start, are cancelled, requeue and end: asyncio.Queue's waiters
\* and connection_queue.py never leave an entry in a queue somebody sleeps on
\* without a handler of its own that was woken.
THEOREM NoWakeupIsLost == Spec => []NoLostWakeup
<1>1. TunnelAssumption /\ Init => NoLostWakeup
  <2> SUFFICES ASSUME Init PROVE NoLostWakeup
    OBVIOUS
  <2>1. \A p \in Providers : Getters(p) = {}
    BY DEF Init, Getters
  <2> QED
    BY <2>1 DEF NoLostWakeup
<1>2. TunnelAssumption /\ IInv /\ IInv' /\ NoLostWakeup /\ [Next]_vars => NoLostWakeup'
  <2> SUFFICES ASSUME TunnelAssumption, IInv, IInv', NoLostWakeup, [Next]_vars PROVE NoLostWakeup'
    OBVIOUS
  <2>0. TypeOK /\ TypeOK' /\ HolderState
    BY DEF IInv
  <2>1. ASSUME NEW c \in Conns, ConnStep(c) \/ ConnInput(c) PROVE NoLostWakeup'
    BY <2>0, <2>1, ConnStepCovers, ConnInputCovers
  <2>2. ASSUME NEW q \in Probes, ProbeStep(q) \/ ProbeInput(q) PROVE NoLostWakeup'
    BY <2>0, <2>2, ProbeCovers
  <2>3. ASSUME NEW p \in Providers, QueueStep(p) \/ RowRemoved(p) PROVE NoLostWakeup'
    BY <2>0, <2>3, CollectCovers
  <2>4. CASE UNCHANGED vars
    BY <2>4, StutterCovers DEF vars, connVars, queueVars
  <2> QED
    BY <2>1, <2>2, <2>3, <2>4 DEF Next
<1> QED
  BY TunnelAssumption, <1>1, <1>2, SpecIInv, PTL DEF Spec

-----------------------------------------------------------------------------
(***************************************************************************)
(* No probe that was handed over is forgotten.                             *)
(***************************************************************************)

Serving == {"use", "relay", "closing", "ended"}
Declining == {"decline", "ended"}

\* Accounted for one probe, of the handlers' places and probes, the answers and the
\* probes in queues.
Safe(at, h, a, queued, q) ==
  \/ a[q] = None /\ (q \in queued \/ \E c \in Conns : h[c] = q)
  \/ a[q] = "Success" /\ \E c \in Conns : h[c] = q /\ at[c] \in Serving
  \/ a[q] = "NotAvailable" /\ \E c \in Conns : h[c] = q /\ at[c] \in Declining

\* A handler that has answered its probe goes on to close it, or ends.
Onwards(s, t) == (s \in Serving => t \in Serving) /\ (s \in Declining => t \in Declining)

LEMMA AccountedIs ==
  /\ Accounted <=> \A q \in Probes : ppc[q] = "handed" => Safe(pc, held, answer, Queued, q)
  /\ Accounted' <=> \A q \in Probes : ppc'[q] = "handed" => Safe(pc', held', answer', Queued', q)
BY DEF Accounted, Safe, Serving, Declining

\* A probe stays accounted for while it is only moved: from a queue to a queue or
\* a handler, and from a handler that has not answered it to a queue.
LEMMA StillAccounted ==
  ASSUME Accounted, NEW q \in Probes, ppc[q] = "handed", answer'[q] = answer[q],
         q \in Queued => q \in Queued' \/ \E c \in Conns : held'[c] = q,
         \A c \in Conns : held[c] = q => held'[c] = q \/ (q \in Queued' /\ answer[q] = None),
         \A c \in Conns : held[c] = q => Onwards(pc[c], pc'[c]),
         \A c \in Conns : held[c] = q /\ pc[c] \in Serving \cup Declining => held'[c] = q
  PROVE  Safe(pc', held', answer', Queued', q)
<1>1. Safe(pc, held, answer, Queued, q)
  BY AccountedIs
<1>2. CASE answer[q] = None /\ (q \in Queued \/ \E c \in Conns : held[c] = q)
  BY <1>2 DEF Safe
<1>3. CASE answer[q] = "Success" /\ \E c \in Conns : held[c] = q /\ pc[c] \in Serving
  BY <1>3 DEF Safe, Onwards
<1>4. CASE answer[q] = "NotAvailable" /\ \E c \in Conns : held[c] = q /\ pc[c] \in Declining
  BY <1>4 DEF Safe, Onwards
<1> QED
  BY <1>1, <1>2, <1>3, <1>4 DEF Safe

\* The same for all of them, when the queues stay.
LEMMA AccountedInPlace ==
  ASSUME Accounted, UNCHANGED items,
         \A q \in Probes : ppc'[q] = "handed" =>
           /\ ppc[q] = "handed" /\ answer'[q] = answer[q]
           /\ \A c \in Conns : held[c] = q => held'[c] = q /\ Onwards(pc[c], pc'[c])
  PROVE  Accounted'
<1>1. Queued' = Queued
  BY DEF Queued
<1> SUFFICES ASSUME NEW q \in Probes, ppc'[q] = "handed"
             PROVE  Safe(pc', held', answer', Queued', q)
  BY AccountedIs
<1> QED
  BY <1>1, StillAccounted

LEMMA PutQueued ==
  ASSUME TypeOK, NEW p \in Providers, NEW q \in Probes, NEW from, Put(p, q, from)
  PROVE  q \in Queued' /\ Queued \subseteq Queued'
<1>1. items' = [items EXCEPT ![p] = Append(items[p], q)] /\ items \in [Providers -> Seq(Probes)]
  BY DEF Put, TypeOK, QueueTypeOK
<1>2. /\ Len(items[p]) + 1 \in DOMAIN items'[p] /\ items'[p][Len(items[p]) + 1] = q
      /\ \A r \in Providers : \A i \in DOMAIN items[r] : i \in DOMAIN items'[r] /\ items'[r][i] = items[r][i]
  BY <1>1
<1> QED
  BY <1>2 DEF Queued

LEMMA TakeQueued ==
  ASSUME TunnelAssumption, TypeOK, NEW c \in Conns, items[Owner[c]] # <<>>, Take(c)
  PROVE  \A q \in Queued : q \in Queued' \/ held'[c] = q
<1> SUFFICES ASSUME NEW q \in Probes, NEW r \in Providers, NEW i \in DOMAIN items[r], items[r][i] = q
             PROVE  q \in Queued' \/ held'[c] = q
  BY DEF Queued
<1>1. /\ items' = [items EXCEPT ![Owner[c]] = Tail(items[Owner[c]])] /\ items \in [Providers -> Seq(Probes)]
      /\ held' = [held EXCEPT ![c] = Head(items[Owner[c]])] /\ held \in [Conns -> Probes \cup {None}]
      /\ Owner[c] \in Providers
  BY DEF Take, TypeOK, QueueTypeOK, ConnTypeOK, TunnelAssumption
<1>2. CASE r = Owner[c] /\ i = 1
  BY <1>1, <1>2
<1>3. CASE r = Owner[c] /\ i # 1
  <2>1. i - 1 \in DOMAIN items'[r] /\ items'[r][i - 1] = q
    BY <1>1, <1>3
  <2> QED
    BY <2>1 DEF Queued
<1>4. CASE r # Owner[c]
  BY <1>1, <1>4 DEF Queued
<1> QED
  BY <1>2, <1>3, <1>4

LEMMA ConnAccounted ==
  ASSUME TunnelAssumption, IInv, Accounted, NEW c \in Conns, ConnStep(c) \/ ConnInput(c)
  PROVE  Accounted'
<1>0. /\ TypeOK /\ SingleHolder /\ HolderState /\ Owner[c] \in Providers
      /\ pc \in [Conns -> ConnPC] /\ held \in [Conns -> Probes \cup {None}]
      /\ ppc \in [Probes -> ProbePC] /\ answer \in [Probes -> ConnectStatus \cup {None}]
      /\ pc[c] \in {"got", "unmarkFull", "send", "await", "decline", "use", "relay", "closing",
                   "unuse"} =>
           held[c] # None /\ held[c] \in Probes
  BY DEF IInv, TypeOK, ConnTypeOK, ProbeTypeOK, TunnelAssumption, HolderState, HandlerState
<1>1. CASE items[Owner[c]] # <<>> /\ Take(c) /\ UNCHANGED probeVars /\ pc[c] \in {"start", "woken"}
  <2>1. held[c] = None
    BY <1>0, <1>1, WaitingHoldsNothing
  <2>2. \A q \in Queued : q \in Queued' \/ held'[c] = q
    BY <1>0, <1>1, TakeQueued
  <2>3. \A d \in Conns : d # c => held'[d] = held[d] /\ pc'[d] = pc[d]
    BY <1>0, <1>1 DEF Take
  <2> SUFFICES ASSUME NEW q \in Probes, ppc'[q] = "handed" PROVE Safe(pc', held', answer', Queued', q)
    BY AccountedIs
  <2>4. /\ ppc[q] = "handed" /\ answer'[q] = answer[q]
        /\ \A d \in Conns : held[d] = q => d # c
    BY <1>1, <2>1 DEF probeVars, TunnelAssumption
  <2> QED
    BY <2>2, <2>3, <2>4, StillAccounted DEF Onwards
<1>2. ASSUME NEW next, Put(Owner[c], held[c], [pc EXCEPT ![c] = next]), pc[c] \in {"got", "send"},
             held' = [held EXCEPT ![c] = None], UNCHANGED <<ppc, answer>>
      PROVE  Accounted'
  <2>1. held[c] \in Queued' /\ Queued \subseteq Queued' /\ answer[held[c]] = None
    BY <1>0, <1>2, PutQueued DEF HolderState, HeldState
  <2>2. \A d \in Conns : d # c => held'[d] = held[d]
    BY <1>0, <1>2
  <2>3. \A d \in Conns : pc[d] \in Serving \cup Declining => pc'[d] = pc[d] /\ d # c
    BY <1>0, <1>2 DEF Put, WakeOne, Getters, Serving, Declining
  <2> SUFFICES ASSUME NEW q \in Probes, ppc'[q] = "handed" PROVE Safe(pc', held', answer', Queued', q)
    BY AccountedIs
  <2>4. ppc[q] = "handed" /\ answer'[q] = answer[q]
    BY <1>2
  <2> QED
    BY <1>2, <2>1, <2>2, <2>3, <2>4, StillAccounted DEF Onwards
<1>3. ASSUME held[c] \in Probes, UNCHANGED items, ppc' = [ppc EXCEPT ![held[c]] = "done"],
             \A q \in Probes : q # held[c] => answer'[q] = answer[q],
             \A d \in Conns : d # c => held'[d] = held[d] /\ pc'[d] = pc[d]
      PROVE  Accounted'
  <2> SUFFICES ASSUME NEW q \in Probes, ppc'[q] = "handed"
               PROVE  /\ ppc[q] = "handed" /\ answer'[q] = answer[q]
                      /\ \A d \in Conns : held[d] = q =>
                           held'[d] = q /\ Onwards(pc[d], pc'[d])
    BY <1>3, AccountedInPlace
  <2>1. q # held[c] /\ ppc[q] = "handed"
    BY <1>0, <1>3
  <2> QED
    BY <1>3, <2>1 DEF Onwards
<1>4. ASSUME UNCHANGED <<items, held, ppc, answer>>,
             \A d \in Conns : Onwards(pc[d], pc'[d])
      PROVE  Accounted'
  BY <1>4, AccountedInPlace
<1>5. CASE StartGet(c) \/ ResumeGet(c)
  <2>1. CASE UNCHANGED <<items, held, ppc, answer>> /\ pc' = [pc EXCEPT ![c] = "getter"]
    BY <1>0, <1>4, <1>5, <2>1 DEF StartGet, ResumeGet, Onwards, Serving, Declining
  <2> QED
    BY <1>1, <1>5, <2>1 DEF StartGet, ResumeGet, probeVars
<1>6. CASE CancelGet(c)
  BY <1>0, <1>4, <1>6 DEF CancelGet, queueVars, probeVars, Onwards, Serving, Declining
<1>18. CASE GetCancelled(c)
  BY <1>0, <1>4, <1>18 DEF GetCancelled, WakeOne, Getters, queueVars, probeVars, Onwards, Serving, Declining
<1>7. CASE GotEntry(c)
  <2>1. CASE ~gone[held[c]]
    BY <1>0, <1>4, <1>7, <2>1 DEF GotEntry, queueVars, Onwards, Serving, Declining
  <2>2. CASE gone[held[c]]
    BY <1>0, <1>3, <1>7, <2>2 DEF GotEntry, queueVars
  <2> QED
    BY <2>1, <2>2
<1>8. CASE RequeueOnEof(c)
  <2>1. CASE pc' = [pc EXCEPT ![c] = "unmarkFull"] /\ UNCHANGED <<items, held>>
    BY <1>0, <1>4, <1>8, <2>1 DEF RequeueOnEof, probeVars, Onwards, Serving, Declining
  <2>2. CASE /\ Put(Owner[c], held[c], [pc EXCEPT ![c] = "unmark"])
             /\ held' = [held EXCEPT ![c] = None]
    BY <1>2, <1>8, <2>2 DEF RequeueOnEof, probeVars
  <2> QED
    BY <1>8, <2>1, <2>2 DEF RequeueOnEof
<1>9. ASSUME NEW s, Reject(c, s), UNCHANGED items, held[c] \in Probes,
             pc[c] \in {"unmarkFull", "send", "await"}
      PROVE  Accounted'
  <2>1. CASE /\ ppc' = [ppc EXCEPT ![held[c]] = "done"]
             /\ answer' = [answer EXCEPT ![held[c]] = s] /\ held' = [held EXCEPT ![c] = None]
    <3>1. /\ \A q \in Probes : q # held[c] => answer'[q] = answer[q]
          /\ \A d \in Conns : d # c => held'[d] = held[d] /\ pc'[d] = pc[d]
      BY <1>0, <1>9, <2>1 DEF Reject, End
    <3> QED
      BY <1>3, <1>9, <2>1, <3>1
  <2>2. CASE UNCHANGED <<answer, ppc, held>>
    BY <1>0, <1>4, <1>9, <2>2 DEF Reject, End, Onwards, Serving, Declining
  <2> QED
    BY <1>9, <2>1, <2>2 DEF Reject
<1>10. CASE SendFails(c)
  <2>1. CASE Reject(c, "ProviderTimedOut") /\ UNCHANGED items
    BY <1>0, <1>9, <1>10, <2>1 DEF SendFails
  <2>2. CASE /\ Put(Owner[c], held[c], [pc EXCEPT ![c] = "ended"])
             /\ held' = [held EXCEPT ![c] = None] /\ UNCHANGED <<ppc, answer>>
    BY <1>2, <1>10, <2>2 DEF SendFails
  <2> QED
    BY <1>10, <2>1, <2>2 DEF SendFails
<1>11. CASE MarkUnavailableFull(c)
  <2>1. CASE registered[Owner[c]]
    BY <1>0, <1>9, <1>11, <2>1 DEF MarkUnavailableFull
  <2>2. CASE ~registered[Owner[c]]
    BY <1>0, <1>4, <1>11, <2>2 DEF MarkUnavailableFull, End, Onwards, Serving, Declining
  <2> QED
    BY <2>1, <2>2
<1>12. CASE ResponseTimeout(c)
  BY <1>0, <1>9, <1>12 DEF ResponseTimeout
<1>13. ASSUME NEW next, NEW s, UNCHANGED <<items, held, ppc>>, pc' = [pc EXCEPT ![c] = next],
              answer' = [answer EXCEPT ![held[c]] = s], held[c] \in Probes,
              \/ next = "use" /\ s = "Success"
              \/ next = "decline" /\ s = "NotAvailable"
       PROVE  Accounted'
  <2>1. Queued' = Queued
    BY <1>13 DEF Queued
  <2> SUFFICES ASSUME NEW q \in Probes, ppc'[q] = "handed" PROVE Safe(pc', held', answer', Queued', q)
    BY AccountedIs
  <2>2. CASE q = held[c]
    <3>1. answer'[q] = s /\ pc'[c] = next /\ held'[c] = q
      BY <1>0, <1>13, <2>2
    <3> QED
      BY <1>13, <3>1 DEF Safe, Serving, Declining
  <2>3. CASE q # held[c]
    <3>1. ppc[q] = "handed" /\ answer'[q] = answer[q]
      BY <1>0, <1>13, <2>3
    <3>2. \A d \in Conns : held[d] = q => held'[d] = q /\ pc'[d] = pc[d]
      BY <1>0, <1>13, <2>3
    <3> QED
      BY <2>1, <3>1, <3>2, StillAccounted DEF Onwards
  <2> QED
    BY <2>2, <2>3
<1>17. CASE Accept(c) \/ Decline(c)
  <2>1. held[c] \in Probes /\ UNCHANGED <<items, held, ppc>>
    BY <1>0, <1>17 DEF Accept, Decline, queueVars
  <2>2. CASE Accept(c)
    BY <1>13, <2>1, <2>2 DEF Accept
  <2>3. CASE Decline(c)
    BY <1>13, <2>1, <2>3 DEF Decline
  <2> QED
    BY <1>17, <2>2, <2>3
<1>14. CASE \/ SimUsed(c) \/ DeclineCloses(c) \/ DeclineCloseFails(c) \/ RelayEnds(c) \/ StreamsClose(c)
            \/ StreamsCloseFail(c)
  <2>1. /\ held[c] \in Probes /\ UNCHANGED <<items, answer>>
        /\ \A d \in Conns : d # c => held'[d] = held[d] /\ pc'[d] = pc[d]
    BY <1>0, <1>14
    DEF SimUsed, DeclineCloses, DeclineCloseFails, RelayEnds, StreamsClose, StreamsCloseFail, End, queueVars,
        probeVars
  <2>2. CASE ppc' = [ppc EXCEPT ![held[c]] = "done"]
    BY <1>3, <2>1, <2>2
  <2>3. CASE UNCHANGED <<held, ppc>> /\ Onwards(pc[c], pc'[c])
    <3>1. \A d \in Conns : Onwards(pc[d], pc'[d])
      BY <2>1, <2>3 DEF Onwards
    <3> QED
      BY <1>4, <2>1, <2>3, <3>1
  <2>4. CASE SimUsed(c) \/ DeclineCloseFails(c) \/ StreamsCloseFail(c)
    <3>1. UNCHANGED held /\ (UNCHANGED ppc \/ ppc' = [ppc EXCEPT ![held[c]] = "done"])
      BY <2>4 DEF SimUsed, DeclineCloseFails, StreamsCloseFail, probeVars
    <3>2. Onwards(pc[c], pc'[c])
      BY <1>0, <2>4 DEF SimUsed, DeclineCloseFails, StreamsCloseFail, End, Onwards, Serving, Declining
    <3> QED
      BY <2>2, <2>3, <3>1, <3>2
  <2> QED
    BY <1>14, <2>2, <2>4 DEF DeclineCloses, RelayEnds, StreamsClose
<1>15. CASE MarkAvailable(c) \/ PollEof(c) \/ MarkUnavailable(c) \/ SendRequest(c) \/ SimUnused(c)
  BY <1>0, <1>4, <1>15 DEF MarkAvailable, PollEof, MarkUnavailable, SendRequest, SimUnused, End, queueVars, probeVars, Onwards, Serving, Declining
<1>16. CASE ConnOpens(c) \/ ConnAuthenticated(c) \/ ConnDropped(c) \/ ResponseMalformed(c) \/ ResponseFails(c)
            \/ ProviderGoes(c)
  BY <1>0, <1>4, <1>16
  DEF ConnOpens, ConnAuthenticated, ConnDropped, ResponseMalformed, ResponseFails, ProviderGoes, End, queueVars,
      probeVars, Onwards, Serving, Declining
<1> QED
  BY <1>5, <1>6, <1>7, <1>8, <1>10, <1>11, <1>12, <1>14, <1>15, <1>16, <1>17, <1>18 DEF ConnStep, ConnInput

LEMMA ProbeAccounted ==
  ASSUME TunnelAssumption, IInv, Accounted, NEW r \in Probes, ProbeStep(r) \/ ProbeInput(r)
  PROVE  Accounted'
<1>0. /\ TypeOK /\ ppc \in [Probes -> ProbePC] /\ answer \in [Probes -> ConnectStatus \cup {None}]
      /\ ppc[r] \in {"resolved", "handed"} => target[r] \in Providers
      /\ ppc[r] = "resolved" => answer[r] = None
  BY DEF IInv, TypeOK, ProbeTypeOK, HolderState, RequestState
<1>1. CASE /\ ProbeEnqueue(r) /\ Put(target[r], r, pc) /\ ppc[r] = "resolved"
           /\ ppc' = [ppc EXCEPT ![r] = "handed"] /\ UNCHANGED answer
  <2>1. r \in Queued' /\ Queued \subseteq Queued' /\ UNCHANGED held /\ answer[r] = None
    BY <1>0, <1>1, PutQueued DEF ProbeEnqueue
  <2>2. \A d \in Conns : Onwards(pc[d], pc'[d])
    BY <1>1 DEF Put, WakeOne, Getters, IInv, TypeOK, ConnTypeOK, Onwards, Serving, Declining
  <2> SUFFICES ASSUME NEW q \in Probes, ppc'[q] = "handed" PROVE Safe(pc', held', answer', Queued', q)
    BY AccountedIs
  <2>3. CASE q = r
    BY <1>1, <2>1, <2>3 DEF Safe
  <2>4. CASE q # r
    <3>1. ppc[q] = "handed" /\ answer'[q] = answer[q]
      BY <1>0, <1>1, <2>4
    <3> QED
      BY <2>1, <2>2, <3>1, StillAccounted
  <2> QED
    BY <2>3, <2>4
<1>2. CASE /\ UNCHANGED <<items, held, pc>>
           /\ \A q \in Probes : ppc'[q] = "handed" => ppc[q] = "handed" /\ answer'[q] = answer[q]
  BY <1>2, AccountedInPlace DEF Onwards
<1>3. CASE ProbeEnqueue(r)
  <2>1. CASE /\ answer' = [answer EXCEPT ![r] = "NotAvailable"] /\ ppc' = [ppc EXCEPT ![r] = "done"]
             /\ UNCHANGED <<items, pc>>
    BY <1>0, <1>2, <1>3, <2>1 DEF ProbeEnqueue
  <2> QED
    BY <1>1, <1>3, <2>1 DEF ProbeEnqueue
<1>4. CASE ~ProbeEnqueue(r)
  BY <1>0, <1>2, <1>4
  DEF ProbeStep, ProbeInput, ProbeDropped, ProbeConnects, ProbeAuthenticated, ProbeForbidden, ProbeGoes,
      ProbeResolved, connVars, queueVars
<1> QED
  BY <1>3, <1>4

LEMMA QueueAccounted ==
  ASSUME TunnelAssumption, IInv, Accounted, NEW p \in Providers, QueueStep(p) \/ RowRemoved(p)
  PROVE  Accounted'
<1>0. TypeOK /\ ppc \in [Probes -> ProbePC] /\ items \in [Providers -> Seq(Probes)]
  BY DEF IInv, TypeOK, ProbeTypeOK, QueueTypeOK
<1>1. CASE GoStale(p) \/ RowRemoved(p)
  BY <1>1, AccountedInPlace DEF Onwards, GoStale, RowRemoved, connVars, queueVars, probeVars
<1>2. ASSUME UNCHANGED <<held, pc>>,
             \A r \in Providers \ {p} : items'[r] = items[r],
             \A q \in Probes : ppc'[q] = "handed" =>
               /\ ppc[q] = "handed" /\ answer'[q] = answer[q]
               /\ \A i \in DOMAIN items[p] : items[p][i] = q => \E j \in DOMAIN items'[p] : items'[p][j] = q
      PROVE  Accounted'
  <2> SUFFICES ASSUME NEW q \in Probes, ppc'[q] = "handed"
               PROVE  Safe(pc', held', answer', Queued', q)
    BY AccountedIs
  <2>1. q \in Queued => q \in Queued'
    BY <1>2 DEF Queued
  <2> QED
    BY <1>2, <2>1, StillAccounted DEF Onwards
<1>3. CASE CollectQueue(p)
  <2>1. /\ UNCHANGED <<held, pc>> /\ items' = [items EXCEPT ![p] = <<>>]
        /\ ppc' = [q \in Probes |-> IF q \in {items[p][i] : i \in DOMAIN items[p]} THEN "done" ELSE ppc[q]]
        /\ answer' = [q \in Probes |-> IF q \in {items[p][i] : i \in DOMAIN items[p]}
                                       THEN "ProviderTimedOut" ELSE answer[q]]
    BY <1>3 DEF CollectQueue
  <2>2. \A q \in Probes : ppc'[q] = "handed" =>
          ppc[q] = "handed" /\ answer'[q] = answer[q] /\ ~\E i \in DOMAIN items[p] : items[p][i] = q
    BY <2>1
  <2>3. \A r \in Providers \ {p} : items'[r] = items[r]
    BY <1>0, <2>1
  <2> QED
    BY <1>2, <2>1, <2>2, <2>3
<1>4. CASE DropClosed(p)
  <2>1. /\ \A r \in Providers \ {p} : items'[r] = items[r]
        /\ \E f \in [DOMAIN items'[p] -> DOMAIN items[p]] :
             /\ \A i, j \in DOMAIN items'[p] : f[i] = f[j] => i = j
             /\ \A i \in DOMAIN items'[p] : items'[p][i] = items[p][f[i]] /\ ~gone[items[p][f[i]]]
             /\ \A k \in DOMAIN items[p] : ~gone[items[p][k]] => \E i \in DOMAIN items'[p] : f[i] = k
    BY <1>0, <1>4, DropClosedItems, Zenon
  <2>2. \A k \in DOMAIN items[p] : ~gone[items[p][k]] =>
          \E i \in DOMAIN items'[p] : items'[p][i] = items[p][k]
    BY <2>1
  <2>3. /\ UNCHANGED <<held, pc, answer>>
        /\ \A q \in Probes : ppc'[q] = "handed" =>
             ppc[q] = "handed" /\ \A k \in DOMAIN items[p] : items[p][k] = q => ~gone[items[p][k]]
    BY <1>4 DEF DropClosed, connVars
  <2> QED
    BY <1>2, <2>1, <2>2, <2>3
<1> QED
  BY <1>1, <1>3, <1>4 DEF QueueStep

\* Whatever is requeued, collected, timed out or fails in provider_handler.py and
\* connection_queue.py: a handed-over probe that is still open is queued, with a
\* handler, in its tunnel, or declined and about to be closed, unless its handler
\* ended before it had answered or closed it.
THEOREM ProbesAreAccountedFor == Spec => []Accounted
<1>1. Init => Accounted
  BY DEF Init, Accounted
<1>2. TunnelAssumption /\ IInv /\ Accounted /\ [Next]_vars => Accounted'
  <2> SUFFICES ASSUME TunnelAssumption, IInv, Accounted, [Next]_vars PROVE Accounted'
    OBVIOUS
  <2>1. CASE UNCHANGED vars
    BY <2>1, AccountedInPlace DEF Onwards, vars, connVars, queueVars, probeVars
  <2> QED
    BY <2>1, ConnAccounted, ProbeAccounted, QueueAccounted DEF Next
<1> QED
  BY TunnelAssumption, <1>1, <1>2, SpecIInv, PTL DEF Spec

-----------------------------------------------------------------------------
(***************************************************************************)
(* TunnelServer implements Matchmaking: its initial states map to initial  *)
(* states, and under the inductive invariant each step maps to a step.     *)
(***************************************************************************)

\* What the steps of one handler leave alone: the other handlers' tunnels and
\* the probes' requests.
LEMMA OthersKeepTunnels ==
  ASSUME TunnelAssumption, IInv, NEW c \in Conns, ConnStep(c) \/ ConnInput(c)
  PROVE  /\ target' = target
         /\ \A d \in Conns \ {c} : held'[d] = held[d] /\ (pc'[d] = pc[d] \/ (pc[d] = "getter" /\ pc'[d] = "woken"))
         /\ Joined' = [Joined EXCEPT ![c] = IF pc'[c] \in {"use", "relay"} THEN held'[c] ELSE None]
<1> USE DEF IInv, TypeOK, ConnTypeOK
<1>1. target' = target
  BY DEF ConnStep, ConnInput, StartGet, ResumeGet, MarkAvailable, PollEof, GotEntry, RequeueOnEof, CancelGet,
     GetCancelled, MarkUnavailable, MarkUnavailableFull, SendRequest, SendFails, ResponseTimeout, SimUsed,
     SimUnused, ConnOpens, ConnAuthenticated, ConnDropped, Accept, Decline, ResponseMalformed, ResponseFails,
     DeclineCloses, DeclineCloseFails, RelayEnds, StreamsClose, StreamsCloseFail, ProviderGoes, probeVars
<1>2. \A d \in Conns \ {c} : held'[d] = held[d] /\ (pc'[d] = pc[d] \/ (pc[d] = "getter" /\ pc'[d] = "woken"))
  <2> TAKE d \in Conns \ {c}
  <2>1. CASE ConnInput(c)
    BY <2>1 DEF ConnInput, ConnOpens, ConnAuthenticated, ConnDropped, Accept, Decline, ResponseMalformed,
       ResponseFails, DeclineCloses, DeclineCloseFails, RelayEnds, StreamsClose, StreamsCloseFail, ProviderGoes,
       End
  <2>2. CASE StartGet(c) \/ ResumeGet(c) \/ MarkAvailable(c) \/ PollEof(c) \/ GotEntry(c) \/ SendRequest(c)
             \/ SimUsed(c) \/ SimUnused(c) \/ MarkUnavailable(c) \/ MarkUnavailableFull(c) \/ ResponseTimeout(c)
    BY <2>2 DEF StartGet, ResumeGet, Take, MarkAvailable, PollEof, GotEntry, SendRequest, SimUsed, SimUnused,
       MarkUnavailable, MarkUnavailableFull, ResponseTimeout, Reject, End
  <2>3. CASE RequeueOnEof(c) \/ SendFails(c) \/ CancelGet(c) \/ GetCancelled(c)
    BY <2>3 DEF RequeueOnEof, SendFails, CancelGet, GetCancelled, Put, WakeOne, Getters, Reject, End
  <2> QED
    BY <2>1, <2>2, <2>3 DEF ConnStep
<1>3. pc' \in [Conns -> ConnPC] /\ held' \in [Conns -> Probes \cup {None}]
  BY ConnStepType, ConnInputType
<1>4. \A d \in Conns \ {c} : Joined'[d] = Joined[d]
  BY <1>2 DEF Joined
<1> QED
  BY <1>1, <1>2, <1>4 DEF Joined

\* A handler turns its probe down.
LEMMA RejectRefuses ==
  ASSUME TunnelAssumption, IInv, NEW c \in Conns, NEW status \in ConnectStatus \ {"Success"},
         pc[c] \in {"unmarkFull", "send", "await"}, Reject(c, status), target' = target,
         Joined' = Joined
  PROVE  Match!Next \/ UNCHANGED answer
<1>1. held[c] \in Probes /\ answer[held[c]] = None
  BY DEF IInv, TypeOK, ConnTypeOK, HolderState, HeldState, HandlerState
<1>2. CASE answer' = [answer EXCEPT ![held[c]] = status]
  <2>1. Match!Refuse({held[c]}, status)
    BY <1>1, <1>2 DEF Match!Refuse, IInv, TypeOK, ProbeTypeOK
  <2> QED
    BY <1>1, <2>1 DEF Match!Next
<1> QED
  BY <1>2 DEF Reject

LEMMA ConnMatch ==
  ASSUME TunnelAssumption, IInv, NEW c \in Conns, ConnStep(c) \/ ConnInput(c)
  PROVE  Match!Next \/ UNCHANGED <<target, answer, Joined>>
<1>1. /\ target' = target
      /\ Joined' = [Joined EXCEPT ![c] = IF pc'[c] \in {"use", "relay"} THEN held'[c] ELSE None]
  BY OthersKeepTunnels
<1>2. Joined[c] = IF pc[c] \in {"use", "relay"} THEN held[c] ELSE None
  BY DEF Joined
<1>3. Joined = [Joined EXCEPT ![c] = Joined[c]]
  BY DEF Joined
<1> USE DEF IInv, TypeOK, ConnTypeOK, ProbeTypeOK
\* The tunnel is joined when the provider's acceptance is forwarded ...
<1>4. CASE Accept(c)
  <2>1. /\ held[c] \in Probes /\ answer[held[c]] = None /\ target[held[c]] = Owner[c]
        /\ Joined[c] = None
    BY <1>4, <1>2 DEF Accept, HolderState, HeldState, HandlerState
  <2>2. Joined' = [Joined EXCEPT ![c] = held[c]]
    BY <1>1, <1>4 DEF Accept
  <2>3. Match!Join(c, held[c])
    BY <1>1, <1>4, <2>1, <2>2 DEF Accept, Match!Join
  <2> QED
    BY <2>1, <2>3 DEF Match!Next
\* ... and parted when it ends, or SimUsed fails.
<1>5. CASE UNCHANGED answer /\ pc[c] \in {"use", "relay"} /\ pc'[c] \notin {"use", "relay"}
  <2>1. Match!Part(c)
    BY <1>1, <1>5 DEF Match!Part
  <2> QED
    BY <2>1 DEF Match!Next
<1>6. CASE UNCHANGED answer /\ pc[c] \in {"use", "relay"} /\ pc'[c] \in {"use", "relay"} /\ UNCHANGED held
  BY <1>1, <1>2, <1>3, <1>6
<1>7. ASSUME pc[c] \notin {"use", "relay"}, pc'[c] \notin {"use", "relay"} PROVE Joined' = Joined
  BY <1>1, <1>2, <1>3, <1>7
<1>13. CASE Decline(c)
  <2>1. /\ held[c] \in Probes /\ answer[held[c]] = None
        /\ answer' = [answer EXCEPT ![held[c]] = "NotAvailable"]
        /\ pc[c] \notin {"use", "relay"} /\ pc'[c] \notin {"use", "relay"}
    BY <1>13 DEF Decline, HolderState, HeldState, HandlerState
  <2>2. Match!Refuse({held[c]}, "NotAvailable")
    BY <1>1, <1>7, <2>1 DEF Match!Refuse
  <2>3. "NotAvailable" \in ConnectStatus \ {"Success"}
    BY DEF ConnectStatus
  <2> QED
    BY <2>1, <2>2, <2>3 DEF Match!Next
<1>8. CASE ResponseTimeout(c) \/ MarkUnavailableFull(c) \/ SendFails(c)
  <2>1. /\ pc[c] \in {"unmarkFull", "send", "await"}
        /\ pc'[c] \notin {"use", "relay"}
    BY <1>8 DEF ResponseTimeout, MarkUnavailableFull, SendFails, Reject, End, Put, WakeOne, Getters
  <2>2. Joined' = Joined
    BY <2>1, <1>7
  <2>3. UNCHANGED answer \/ \E status \in ConnectStatus \ {"Success"} : Reject(c, status)
    BY <1>8 DEF ResponseTimeout, MarkUnavailableFull, SendFails, ConnectStatus
  <2> QED
    BY <1>1, <2>1, <2>2, <2>3, RejectRefuses
<1>9. CASE \/ StartGet(c) \/ ResumeGet(c) \/ MarkAvailable(c) \/ PollEof(c) \/ GotEntry(c) \/ RequeueOnEof(c)
           \/ CancelGet(c) \/ GetCancelled(c) \/ MarkUnavailable(c) \/ SendRequest(c) \/ SimUnused(c)
  <2>1. UNCHANGED answer
    BY <1>9 DEF StartGet, ResumeGet, MarkAvailable, PollEof, GotEntry, RequeueOnEof, CancelGet, GetCancelled,
       MarkUnavailable, SendRequest, SimUnused, probeVars
  <2>2. pc[c] \notin {"use", "relay"}
    BY <1>9 DEF StartGet, ResumeGet, MarkAvailable, PollEof, GotEntry, RequeueOnEof, CancelGet, GetCancelled,
       MarkUnavailable, SendRequest, SimUnused, InLoop
  <2>3. pc'[c] \notin {"use", "relay"}
    <3>1. CASE RequeueOnEof(c) \/ CancelGet(c) \/ GetCancelled(c)
      BY <3>1 DEF RequeueOnEof, CancelGet, GetCancelled, Put, WakeOne, Getters
    <3>2. CASE StartGet(c) \/ ResumeGet(c) \/ MarkAvailable(c) \/ PollEof(c)
      BY <3>2 DEF StartGet, ResumeGet, Take, MarkAvailable, PollEof, InLoop
    <3>3. CASE GotEntry(c) \/ MarkUnavailable(c) \/ SendRequest(c) \/ SimUnused(c)
      BY <3>3 DEF GotEntry, MarkUnavailable, SendRequest, SimUnused, End
    <3> QED
      BY <1>9, <3>1, <3>2, <3>3
  <2> QED
    BY <1>1, <1>7, <2>1, <2>2, <2>3
<1>10. CASE SimUsed(c) \/ RelayEnds(c)
  BY <1>5, <1>6, <1>10 DEF SimUsed, RelayEnds, probeVars
<1>11. CASE ProviderGoes(c)
  BY <1>1, <1>2, <1>3, <1>11 DEF ProviderGoes, probeVars
<1>12. CASE \/ ConnOpens(c) \/ ConnAuthenticated(c) \/ ConnDropped(c) \/ ResponseMalformed(c) \/ ResponseFails(c)
            \/ DeclineCloses(c) \/ DeclineCloseFails(c) \/ StreamsClose(c) \/ StreamsCloseFail(c)
  <2>1. UNCHANGED answer /\ pc[c] \notin {"use", "relay"} /\ pc'[c] \notin {"use", "relay"}
    BY <1>12 DEF ConnOpens, ConnAuthenticated, ConnDropped, ResponseMalformed, ResponseFails, DeclineCloses,
       DeclineCloseFails, StreamsClose, StreamsCloseFail, End, probeVars
  <2> QED
    BY <1>1, <1>7, <2>1
<1> QED
  BY <1>4, <1>8, <1>9, <1>10, <1>11, <1>12, <1>13 DEF ConnStep, ConnInput

LEMMA ProbeMatch ==
  ASSUME TunnelAssumption, IInv, NEW q \in Probes, ProbeStep(q) \/ ProbeInput(q)
  PROVE  Match!Next \/ UNCHANGED <<target, answer, Joined>>
<1> USE DEF IInv, TypeOK, ConnTypeOK, ProbeTypeOK
<1>1. Joined' = Joined
  <2>1. UNCHANGED held
    BY DEF ProbeStep, ProbeInput, ProbeConnects, ProbeAuthenticated, ProbeDropped, ProbeForbidden, ProbeGoes,
       ProbeResolved, ProbeEnqueue, connVars
  <2>2. \A c \in Conns : pc'[c] = pc[c] \/ (pc[c] = "getter" /\ pc'[c] = "woken")
    BY DEF ProbeStep, ProbeInput, ProbeConnects, ProbeAuthenticated, ProbeDropped, ProbeForbidden, ProbeGoes,
       ProbeResolved, ProbeEnqueue, connVars, Put, WakeOne, Getters
  <2> QED
    BY <2>1, <2>2 DEF Joined
<1>2. ASSUME NEW status \in ConnectStatus \ {"Success"}, answer[q] = None,
             answer' = [answer EXCEPT ![q] = status], UNCHANGED target
      PROVE  Match!Next
  <2>1. Match!Refuse({q}, status)
    BY <1>1, <1>2 DEF Match!Refuse
  <2> QED
    BY <2>1 DEF Match!Next
<1>3. CASE ProbeForbidden(q) \/ ProbeEnqueue(q)
  <2>1. answer[q] = None /\ UNCHANGED target
    BY <1>3 DEF ProbeForbidden, ProbeEnqueue, HolderState, RequestState
  <2>2. \/ UNCHANGED answer
        \/ \E status \in ConnectStatus \ {"Success"} : answer' = [answer EXCEPT ![q] = status]
    BY <1>3 DEF ProbeForbidden, ProbeEnqueue, ConnectStatus
  <2> QED
    BY <1>1, <1>2, <2>1, <2>2
<1>4. ASSUME NEW p \in Providers, ProbeResolved(q, p) PROVE Match!Next
  <2>1. Match!Ask(q, p)
    BY <1>1, <1>4 DEF Match!Ask, ProbeResolved, HolderState, RequestState
  <2> QED
    BY <2>1 DEF Match!Next
<1>5. CASE ProbeConnects(q) \/ ProbeAuthenticated(q) \/ ProbeDropped(q) \/ ProbeGoes(q)
  BY <1>1, <1>5 DEF ProbeConnects, ProbeAuthenticated, ProbeDropped, ProbeGoes
<1> QED
  BY <1>3, <1>4, <1>5 DEF ProbeStep, ProbeInput

LEMMA QueueMatch ==
  ASSUME TunnelAssumption, IInv, NEW p \in Providers, QueueStep(p) \/ RowRemoved(p)
  PROVE  Match!Next \/ UNCHANGED <<target, answer, Joined>>
<1>1. UNCHANGED target /\ Joined' = Joined
  BY DEF QueueStep, RowRemoved, GoStale, CollectQueue, DropClosed, connVars, probeVars, Joined
\* The collector turns a whole queue down.
<1>2. CASE CollectQueue(p)
  <2> DEFINE drained == {items[p][i] : i \in DOMAIN items[p]}
  <2>1. drained \in SUBSET Probes /\ \A q \in drained : answer[q] = None
    BY DEF IInv, TypeOK, QueueTypeOK, HolderState, QueuedState
  <2>2. Match!Refuse(drained, "ProviderTimedOut")
    BY <1>1, <1>2, <2>1 DEF Match!Refuse, CollectQueue
  <2>3. "ProviderTimedOut" \in ConnectStatus \ {"Success"}
    BY DEF ConnectStatus
  <2> HIDE DEF drained
  <2> QED
    BY <2>1, <2>2, <2>3 DEF Match!Next
<1>3. CASE GoStale(p) \/ DropClosed(p) \/ RowRemoved(p)
  BY <1>1, <1>3 DEF GoStale, DropClosed, RowRemoved, probeVars
<1> QED
  BY <1>2, <1>3 DEF QueueStep

\* The tunnel server keeps its promise: no interleaving of handlers, collectors,
\* timeouts and disconnects answers a probe twice, joins it with a connection of
\* another provider, or joins a connection with two probes.
THEOREM ServerIsMatchmaking == Spec => IsMatchmaking
<1>1. Init => Match!Init
  BY DEF Init, Match!Init, Joined
<1>2. TunnelAssumption /\ IInv /\ [Next]_vars => [Match!Next]_<<target, answer, Joined>>
  <2> SUFFICES ASSUME TunnelAssumption, IInv, [Next]_vars
               PROVE  Match!Next \/ UNCHANGED <<target, answer, Joined>>
    OBVIOUS
  <2>1. CASE UNCHANGED vars
    BY <2>1 DEF vars, connVars, probeVars, Joined
  <2>2. CASE Next
    BY <2>2, ConnMatch, ProbeMatch, QueueMatch DEF Next
  <2> QED
    BY <2>1, <2>2
<1> QED
  BY TunnelAssumption, <1>1, <1>2, SpecIInv, PTL DEF Spec, IsMatchmaking, Match!Spec
=============================================================================
