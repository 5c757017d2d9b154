---------------------------- MODULE ClientProofs -----------------------------
(***************************************************************************)
(* Proofs about the clients of the tunnel server (moatt_clients).          *)
(*                                                                         *)
(* The SIM provider (SimProvider): for any devices and cards, any number   *)
(* of them and any number of requests.                                     *)
(*                                                                         *)
(* The streams (ClientStreams): for any token, identifiers and packets the *)
(* constructors of moatt_types take.  The codecs come first: what a        *)
(* decoder answers to any part of an encoded message.  Then the bytes that *)
(* are under way, as a sequence of messages of which some prefix has been  *)
(* read; then the invariant, action by action.                             *)
(***************************************************************************)
EXTENDS SimProvider, ClientStreams, FiniteSetTheorems, WellFoundedInduction, SequenceTheorems, TLAPS

Entries == [device : Devices, card : AnyCard]
Registrations == [sims : Seq(Entries), reader : SUBSET Devices]

\* Types beyond ProviderTypeOK: what the lists and the threads' registrations
\* are, and how often a provider that goes on has failed.
TypeInv ==
    /\ ProviderTypeOK
    /\ list \in Seq(Entries) /\ first \in Seq(Entries) /\ serverList \in Seq(Entries)
    /\ put \in [Threads -> Seq(Registrations)]
    /\ main # "stopped" => fails <= FailLimit

\* Who registers when, and what.  If the last registration was not lost, then it
\* is the only one, and of the list as it is.
KnowInv ==
    /\ ~listening => \A t \in Threads : put[t] = <<>>
    /\ main \in {"list", "token"} => ~listening
    /\ main \in {"register", "wait", "start"} /\ ~direct => listening
    /\ direct => main \notin {"list", "token", "register"}
    /\ put["main"] # <<>> => main = "register"
    /\ ~missed => \A t \in Threads : put[t] # <<>> =>
         put[t][1].sims = list /\ \A u \in Threads : put[u] # <<>> => u = t
    /\ ~missed /\ main \in {"wait", "start"} /\ ~direct /\ (\A t \in Threads : put[t] = <<>>) => serverList = list

\* A request that has been accepted is for a SIM the server knew.
RequestIs(r) == /\ r.kind \in {"id", "imsi"}
                /\ r.known \in Seq(Entries) /\ r.id \in DOMAIN r.known /\ r.sim = r.known[r.id].card
RequestInv == main = "start" => RequestIs(request)

\* The entries whose card is still in its device, unless it was taken out of one.
Present == {e \in Entries : e.card \notin moved => InReader(e.device) = e.card}
ListInv == list \in Seq(Present)

\* A tunnel's fields; and that it has connected to the card it was started for,
\* or will find it in its device, unless it was taken out of one.
TunnelIs(t) == t = [req |-> t.req, n |-> t.n, device |-> t.device, same |-> t.same, card |-> t.card, pc |-> t.pc]
TunnelRight(t) ==
    /\ t.req.kind = "imsi" \/ t.same
    /\ t.req.sim \notin moved
    => /\ t.card # Empty => t.card = t.req.sim
       /\ t.pc = "start" => InReader(t.device) = t.req.sim
TunnelsInv == \A t \in tunnels : TunnelIs(t) /\ TunnelRight(t)

IInv == TypeInv /\ KnowInv /\ RequestInv /\ ListInv /\ TunnelsInv

-----------------------------------------------------------------------------
(***************************************************************************)
(* The list of SIMs: the first place of a card, and what is left of it     *)
(* when a device is removed.                                               *)
(***************************************************************************)

LEMMA LeastOf ==
  ASSUME NEW T, T \subseteq Nat, T # {}
  PROVE  \E i \in T : \A k \in T : i <= k
<1>1. \E i \in T : \A k \in T : ~ (<<k, i>> \in OpToRel(<, Nat))
  BY NatLessThanWellFounded, WFMin
<1>2. PICK i \in T : \A k \in T : ~ (<<k, i>> \in OpToRel(<, Nat))
  BY <1>1
<1>3. ASSUME NEW k \in T PROVE i <= k
  <2>1. <<k, i>> \in Nat \X Nat
    OBVIOUS
  <2>2. ~(k < i)
    BY <1>2, <2>1 DEF OpToRel
  <2> QED
    BY <2>2
<1> QED
  BY <1>3

UpTo(kept, m) == {j \in kept : j <= m}

LEMMA PlacesFinite ==
  ASSUME NEW n \in Nat, NEW S \in SUBSET (1..n)
  PROVE  IsFiniteSet(S) /\ Cardinality(S) \in Nat
<1>1. 1 \in Int /\ n \in Int
  OBVIOUS
<1>2. IsFiniteSet(1..n)
  BY <1>1, FS_Interval
<1>3. IsFiniteSet(S)
  BY <1>2, FS_Subset
<1> QED
  BY <1>3, FS_CardinalityType

LEMMA UpToFinite ==
  ASSUME NEW n \in Nat, NEW kept \in SUBSET (1..n), NEW m \in Nat
  PROVE  IsFiniteSet(UpTo(kept, m)) /\ Cardinality(UpTo(kept, m)) \in Nat
<1>1. UpTo(kept, m) \in SUBSET (1..n)
  BY DEF UpTo
<1> QED
  BY <1>1, PlacesFinite

\* The k-th of the places that are kept.
LEMMA PlaceOf ==
  ASSUME NEW n \in Nat, NEW kept \in SUBSET (1..n), NEW k \in 1..Cardinality(kept)
  PROVE  \E i \in kept : Cardinality(UpTo(kept, i)) = k
<1> DEFINE T == {m \in Nat : Cardinality(UpTo(kept, m)) >= k}
<1>1. UpTo(kept, n) = kept /\ Cardinality(kept) \in Nat
  <2>1. \A j \in kept : j <= n
    OBVIOUS
  <2>2. UpTo(kept, n) = kept
    BY <2>1 DEF UpTo
  <2> QED
    BY <2>2, PlacesFinite
<1>2. n \in T
  BY <1>1
<1>3. PICK m \in T : \A l \in T : m <= l
  BY <1>2, LeastOf
<1>4. UpTo(kept, 0) = {} /\ Cardinality({}) = 0
  <2>1. \A j \in kept : ~(j <= 0)
    OBVIOUS
  <2> QED
    BY <2>1, FS_EmptySet DEF UpTo
<1>5. m # 0 /\ m \in Nat /\ m - 1 \in Nat
  BY <1>4
<1>6. ~(Cardinality(UpTo(kept, m - 1)) >= k)
  BY <1>3, <1>5
<1>7. Cardinality(UpTo(kept, m - 1)) \in Nat /\ IsFiniteSet(UpTo(kept, m - 1)) /\ Cardinality(UpTo(kept, m)) \in Nat
  BY <1>5, UpToFinite
<1>8. m \in kept
  <2> SUFFICES ASSUME m \notin kept PROVE FALSE
    OBVIOUS
  <2>1. \A j \in kept : j <= m <=> j <= m - 1
    BY <1>5
  <2>2. UpTo(kept, m) = UpTo(kept, m - 1)
    BY <2>1 DEF UpTo
  <2> QED
    BY <1>3, <1>6, <2>2
<1>9. UpTo(kept, m) = UpTo(kept, m - 1) \cup {m} /\ m \notin UpTo(kept, m - 1)
  <2>1. \A j \in kept : j <= m <=> j <= m - 1 \/ j = m
    BY <1>5
  <2>2. ~(m <= m - 1)
    BY <1>5
  <2> QED
    BY <1>8, <2>1, <2>2 DEF UpTo
<1>10. Cardinality(UpTo(kept, m)) = Cardinality(UpTo(kept, m - 1)) + 1
  BY <1>7, <1>9, FS_AddElement
<1>11. Cardinality(UpTo(kept, m)) >= k /\ k \in Nat
  BY <1>3
<1> QED
  BY <1>6, <1>7, <1>8, <1>10, <1>11

LEMMA RemoveType ==
  ASSUME NEW S, NEW l \in Seq(S), NEW d
  PROVE  RemoveDevice(l, d) \in Seq(S)
<1> DEFINE kept == {i \in DOMAIN l : l[i].device # d}
           place(k) == CHOOSE i \in kept : Cardinality({j \in kept : j <= i}) = k
<1>1. kept \in SUBSET (1..Len(l)) /\ Len(l) \in Nat
  OBVIOUS
<1>2. IsFiniteSet(kept) /\ Cardinality(kept) \in Nat
  BY <1>1, PlacesFinite
<1>3. ASSUME NEW k \in 1..Cardinality(kept) PROVE l[place(k)] \in S
  <2>1. \E i \in kept : Cardinality({j \in kept : j <= i}) = k
    BY <1>1, PlaceOf DEF UpTo
  <2>2. place(k) \in kept
    BY <2>1
  <2> QED
    BY <2>2, <1>1
<1>4. [k \in 1..Cardinality(kept) |-> l[place(k)]] \in [1..Cardinality(kept) -> S]
  BY <1>3
<1>5. ASSUME NEW n \in Nat, NEW f \in [1..n -> S] PROVE f \in Seq(S)
  OBVIOUS
<1>6. [k \in 1..Cardinality(kept) |-> l[place(k)]] \in Seq(S)
  BY <1>2, <1>4, <1>5, Zenon
<1> QED
  BY <1>6 DEF RemoveDevice

\* get_sim finds the SIM that is asked for by its number, and by its id if the
\* list is the one in which the server has found it.
LEMMA FoundSim ==
  ASSUME list \in Seq(Entries), NEW r, RequestIs(r), NEW k \in DOMAIN get_sim(r),
         r.kind = "imsi" \/ list = r.known
  PROVE  get_sim(r)[k].card = r.sim
<1>1. CASE r.kind = "id"
  BY <1>1 DEF get_sim, RequestIs
<1>2. CASE r.kind = "imsi"
  <2> DEFINE n == {i \in DOMAIN list : list[i].card = r.sim}
             i0 == CHOOSE i \in n : \A j \in n : i <= j
  <2>1. get_sim(r) = IF n = {} THEN <<>> ELSE <<list[i0]>>
    BY <1>2 DEF get_sim
  <2>2. n # {} /\ k = 1 /\ get_sim(r)[k] = list[i0]
    <3> HIDE DEF n, i0
    <3> QED
      BY <2>1
  <2>3. n \subseteq Nat
    OBVIOUS
  <2>4. i0 \in n
    <3>1. \E i \in n : \A j \in n : i <= j
      BY <2>2, <2>3, LeastOf
    <3> QED
      BY <3>1
  <2> QED
    BY <2>2, <2>4
<1> QED
  BY <1>1, <1>2 DEF RequestIs

\* The first entry with a card is one of the list.
LEMMA FirstListed ==
  ASSUME NEW S, list \in Seq(S), NEW c, {i \in DOMAIN list : list[i].card = c} # {}
  PROVE  LET n == {i \in DOMAIN list : list[i].card = c}
             i0 == CHOOSE i \in n : \A k \in n : i <= k
         IN  list[i0] \in S /\ list[i0].card = c
<1> DEFINE n == {i \in DOMAIN list : list[i].card = c}
           i0 == CHOOSE i \in n : \A k \in n : i <= k
<1>1. n \subseteq Nat
  OBVIOUS
<1>2. i0 \in n
  <2>1. \E i \in n : \A k \in n : i <= k
    BY <1>1, LeastOf
  <2> QED
    BY <2>1
<1>3. list[i0] \in S
  BY <1>2
<1> QED
  BY <1>2, <1>3

\* What get_sim returns is an entry of the list.
LEMMA FoundListed ==
  ASSUME NEW S, list \in Seq(S), NEW r, RequestIs(r), NEW k \in DOMAIN get_sim(r)
  PROVE  get_sim(r)[k] \in S
<1>1. CASE r.kind = "id"
  <2>1. r.id \in Nat \ {0}
    BY DEF RequestIs
  <2>2. r.id <= Len(list) /\ get_sim(r) = <<list[r.id]>>
    BY <1>1 DEF get_sim
  <2>3. k = 1 /\ r.id \in 1..Len(list)
    BY <2>1, <2>2
  <2> QED
    BY <2>2, <2>3
<1>2. CASE r.kind = "imsi"
  <2> DEFINE n == {i \in DOMAIN list : list[i].card = r.sim}
             i0 == CHOOSE i \in n : \A j \in n : i <= j
  <2>1. get_sim(r) = IF n = {} THEN <<>> ELSE <<list[i0]>>
    BY <1>2 DEF get_sim
  <2>2. n # {} /\ k = 1 /\ get_sim(r)[k] = list[i0]
    <3> HIDE DEF n, i0
    <3> QED
      BY <2>1
  <2> QED
    BY <2>2, FirstListed
<1> QED
  BY <1>1, <1>2 DEF RequestIs

-----------------------------------------------------------------------------
(***************************************************************************)
(* The list and its registration                                           *)
(***************************************************************************)

LEMMA NotifyType ==
  ASSUME TypeInv, NEW t \in Threads, NEW l \in Seq(Entries), NEW reader \in SUBSET Devices,
         Notify(t, l, reader)
  PROVE  /\ list' \in Seq(Entries) /\ put' \in [Threads -> Seq(Registrations)] /\ missed' \in BOOLEAN
         /\ \A u \in Threads : Len(put'[u]) <= 1
<1> DEFINE r == <<[sims |-> l, reader |-> reader]>>
<1>1. r \in Seq(Registrations) /\ Len(r) = 1
  BY DEF Registrations
<1> HIDE DEF r
<1>2. put' = put \/ put' = [put EXCEPT ![t] = r]
  BY DEF Notify, r
<1>3. list' \in Seq(Entries) /\ missed' \in BOOLEAN
  BY DEF Notify, TypeInv, ProviderTypeOK, Overtaken
<1>4. put \in [Threads -> Seq(Registrations)] /\ \A u \in Threads : Len(put[u]) <= 1
  BY DEF TypeInv, ProviderTypeOK
<1>5. \A u \in Threads : put'[u] = put[u] \/ put'[u] = r
  BY <1>2, <1>4
<1>6. put' \in [Threads -> Seq(Registrations)]
  BY <1>1, <1>2, <1>4
<1>7. Len(r) <= 1
  BY <1>1
<1> QED
  BY <1>3, <1>4, <1>5, <1>6, <1>7, Zenon

LEMMA NotifyKnow ==
  ASSUME TypeInv, KnowInv, NEW t \in Threads, t # "main", put[t] = <<>>, NEW l \in Seq(Entries), NEW reader,
         Notify(t, l, reader), UNCHANGED <<listening, serverList, direct, main>>
  PROVE  KnowInv'
<1>1. CASE ~listening
  BY <1>1 DEF Notify, KnowInv, TypeInv, ProviderTypeOK
<1>2. CASE listening /\ ~Listed(l)
  BY <1>2 DEF Notify, Overtaken, KnowInv, TypeInv, ProviderTypeOK
<1>3. CASE listening /\ Listed(l)
  <2> DEFINE r == [sims |-> l, reader |-> reader]
  <2>1. /\ put' = [put EXCEPT ![t] = <<r>>] /\ list' = l /\ r.sims = l
        /\ missed' <=> \E u \in Threads \ {t} : put[u] # <<>>
    BY <1>3 DEF Notify, Overtaken
  <2> HIDE DEF r
  <2>2. put'[t] # <<>> /\ put'[t][1].sims = list' /\ \A u \in Threads \ {t} : put'[u] = put[u]
    BY <2>1 DEF TypeInv
  <2>3. "main" \in Threads /\ put'["main"] = put["main"]
    BY <2>2 DEF Threads
  <2> QED
    BY <1>3, <2>1, <2>2, <2>3 DEF KnowInv
<1> QED
  BY <1>1, <1>2, <1>3

LEMMA PrepareType == ASSUME TypeInv, NEW d \in Devices PROVE Prepare(d) \in Seq(Entries)
<1>1. d \in DOMAIN plugged /\ plugged[d] # Empty => Entry(d, plugged[d]) \in Entries
  BY DEF TypeInv, ProviderTypeOK, Entry, Entries
<1> QED
  BY <1>1 DEF Prepare, TypeInv

\* A card that is listed is in its device now.
LEMMA PreparePresent == ASSUME TypeInv, ListInv, NEW d \in Devices PROVE Prepare(d) \in Seq(Present)
<1>1. d \in DOMAIN plugged /\ plugged[d] # Empty => Entry(d, plugged[d]) \in Present
  BY DEF TypeInv, ProviderTypeOK, Entry, Entries, Present, InReader
<1> QED
  BY <1>1 DEF Prepare, ListInv

\* device_added and device_removed in either thread.
LEMMA ChangeStep ==
  ASSUME IInv, NEW t \in Threads, t # "main", put[t] = <<>>,
         \/ \E d \in Devices, reader \in SUBSET Devices : Notify(t, Prepare(d), reader)
         \/ \E d : NotifyRemove(t, d),
         current' \subseteq Devices, DOMAIN seen' \subseteq Readers,
         UNCHANGED <<plugVars, listening, serverList, mainVars>>
  PROVE  IInv'
<1> DEFINE Changed == /\ list' \in Seq(Entries) /\ put' \in [Threads -> Seq(Registrations)]
                      /\ missed' \in BOOLEAN /\ \A u \in Threads : Len(put'[u]) <= 1
                      /\ KnowInv'
<1>1. Changed
  <2>1. ASSUME NEW l \in Seq(Entries), NEW reader \in SUBSET Devices, Notify(t, l, reader)
        PROVE  Changed
    BY <2>1, NotifyType, NotifyKnow DEF IInv, mainVars
  <2>2. ASSUME NEW d \in Devices, NEW reader \in SUBSET Devices, Notify(t, Prepare(d), reader)
        PROVE  Changed
    BY <2>1, <2>2, PrepareType DEF IInv
  <2>3. ASSUME NEW d, NotifyRemove(t, d), ~HasNone PROVE Changed
    <3>1. RemoveDevice(list, d) \in Seq(Entries)
      BY RemoveType DEF IInv, TypeInv
    <3> QED
      BY <2>1, <2>3, <3>1 DEF NotifyRemove
  <2>4. ASSUME NEW d, NotifyRemove(t, d), HasNone PROVE Changed
    BY <2>4 DEF NotifyRemove, IInv, TypeInv, ProviderTypeOK, KnowInv, mainVars
  <2> QED
    BY <2>2, <2>3, <2>4
<1>2. TypeInv'
  <2>1. \A i \in DOMAIN list' : list'[i] \in Entries
    BY <1>1
  <2> HIDE DEF Changed
  <2>2. ProviderTypeOK'
    <3>1. Changed => missed' \in BOOLEAN /\ \A u \in Threads : Len(put'[u]) <= 1
      BY DEF Changed
    <3> QED
      BY <1>1, <2>1, <3>1 DEF IInv, TypeInv, ProviderTypeOK, Entries, mainVars, plugVars
  <2>3. Changed => list' \in Seq(Entries) /\ put' \in [Threads -> Seq(Registrations)]
    BY DEF Changed
  <2> QED
    BY <1>1, <2>2, <2>3 DEF IInv, TypeInv, mainVars
<1>3. RequestInv' /\ TunnelsInv'
  BY DEF IInv, RequestInv, RequestIs, TunnelsInv, TunnelIs, TunnelRight, InReader, mainVars, plugVars
<1>4. ListInv'
  <2>1. Present' = Present
    BY DEF Present, InReader, plugVars
  <2>2. list' \in Seq(Present)
    <3>1. ASSUME NEW d \in Devices, NEW reader, Notify(t, Prepare(d), reader) PROVE list' \in Seq(Present)
      BY <3>1, PreparePresent DEF Notify, IInv
    <3>2. ASSUME NEW d, NotifyRemove(t, d) PROVE list' \in Seq(Present)
      <4>1. RemoveDevice(list, d) \in Seq(Present)
        BY RemoveType DEF IInv, ListInv
      <4> QED
        BY <3>2, <4>1 DEF NotifyRemove, Notify, IInv, ListInv
    <3> QED
      BY <3>1, <3>2
  <2> QED
    BY <2>1, <2>2 DEF ListInv
<1>5. KnowInv'
  BY <1>1
<1> QED
  BY <1>2, <1>3, <1>4, <1>5 DEF IInv

\* What is in a device stays there, unless it has been taken out.
LEMMA StaysThere ==
  ASSUME NEW d, Unplug(d) \/ (\E c : Plug(d, c)), NEW e, NEW c1, c1 \notin moved', InReader(e) = c1
  PROVE  InReader(e)' = c1 /\ c1 \notin moved
<1>1. moved' = moved \cup {InReader(d)}
  BY DEF Plug, Unplug
<1>2. e # d /\ c1 \notin moved
  BY <1>1
<1>3. InReader(e)' = InReader(e)
  <2>1. CASE \E c : Plug(d, c)
    BY <1>2, <2>1 DEF Plug, With, InReader
  <2>2. CASE Unplug(d)
    BY <1>2, <2>2 DEF Unplug, Without, InReader
  <2> QED
    BY <2>1, <2>2
<1> QED
  BY <1>2, <1>3

\* The threads that look for devices and cards, and these.
LEMMA DevicesStep == ASSUME IInv, DeviceStep PROVE IInv'
<1> PICK d \in Devices : (\E c \in AnyCard \cup {Empty} : Plug(d, c)) \/ Unplug(d)
  BY DEF DeviceStep
<1>1. UNCHANGED <<current, seen, list, listening, put, serverList, mainVars, missed>>
  BY DEF Plug, Unplug
<1>2. DOMAIN plugged' \subseteq Devices /\ \A e \in DOMAIN plugged' : plugged'[e] \in AnyCard \cup {Empty}
  <2>1. CASE \E c \in AnyCard \cup {Empty} : Plug(d, c)
    BY <2>1 DEF Plug, With, IInv, TypeInv, ProviderTypeOK
  <2>2. CASE Unplug(d)
    BY <2>2 DEF Unplug, Without, IInv, TypeInv, ProviderTypeOK
  <2> QED
    BY <2>1, <2>2
<1>3. moved' = moved \cup {InReader(d)} /\ moved' \subseteq AnyCard \cup {Empty}
  <2>1. moved' = moved \cup {InReader(d)}
    BY DEF Plug, Unplug
  <2>2. InReader(d) \in AnyCard \cup {Empty}
    BY DEF InReader, IInv, TypeInv, ProviderTypeOK
  <2> QED
    BY <2>1, <2>2 DEF IInv, TypeInv, ProviderTypeOK
<1>4. TypeInv' /\ KnowInv'
  BY <1>1, <1>2, <1>3 DEF IInv, TypeInv, ProviderTypeOK, KnowInv, mainVars
<1>5. \A e, c1 : c1 \notin moved' /\ InReader(e) = c1 => InReader(e)' = c1
  BY StaysThere
<1>6. ListInv'
  <2>1. Present \subseteq Present'
    BY <1>3, <1>5 DEF Present
  <2>2. list \in Seq(Present')
    BY <2>1 DEF IInv, ListInv
  <2> QED
    BY <1>1, <2>2 DEF ListInv
<1>7. TunnelsInv'
  <2>1. tunnels' = tunnels
    BY <1>1 DEF mainVars
  <2>2. ASSUME NEW t \in tunnels PROVE TunnelIs(t) /\ TunnelRight(t)'
    <3>1. TunnelIs(t) /\ TunnelRight(t)
      BY DEF IInv, TunnelsInv
    <3>2. InReader(t.device) = t.req.sim /\ t.req.sim \notin moved' => InReader(t.device)' = t.req.sim
      BY <1>5
    <3> QED
      BY <1>3, <3>1, <3>2 DEF TunnelRight
  <2> QED
    BY <2>1, <2>2 DEF TunnelsInv, TunnelIs
<1> QED
  BY <1>1, <1>4, <1>6, <1>7 DEF IInv, RequestInv, RequestIs, mainVars

LEMMA ObserversStep == ASSUME IInv, ObserverStep PROVE IInv'
<1> PICK d \in Devices : ObserveSerial(d) \/ ObserveReader(d) \/ ObserveGone(d)
  BY DEF ObserverStep
<1>1. "observer" \in Threads /\ put["observer"] = <<>>
  BY DEF ObserveSerial, ObserveReader, ObserveGone, ObserverIdle, Threads
<1>2. current' \subseteq Devices /\ DOMAIN seen' \subseteq Readers
  BY DEF ObserveSerial, ObserveReader, ObserveGone, IInv, TypeInv, ProviderTypeOK
<1>3. \/ \E e \in Devices, reader \in SUBSET Devices : Notify("observer", Prepare(e), reader)
      \/ \E e : NotifyRemove("observer", e)
  <2>1. CASE ObserveSerial(d)
    BY <2>1 DEF ObserveSerial
  <2>2. CASE ObserveReader(d)
    BY <2>2 DEF ObserveReader
  <2>3. CASE ObserveGone(d)
    BY <2>3 DEF ObserveGone
  <2> QED
    BY <2>1, <2>2, <2>3
<1>4. UNCHANGED <<plugVars, listening, serverList, mainVars>>
  BY DEF ObserveSerial, ObserveReader, ObserveGone
<1> QED
  BY <1>1, <1>2, <1>3, <1>4, ChangeStep

LEMMA MonitorsStep == ASSUME IInv, MonitorStep PROVE IInv'
<1> PICK d \in Readers : MonitorAdds(d) \/ MonitorRemoves(d)
  BY DEF MonitorStep
<1>1. "monitor" \in Threads /\ put["monitor"] = <<>> /\ d \in Devices
  BY DEF MonitorAdds, MonitorRemoves, MonitorIdle, Threads, Devices
<1>2. current' \subseteq Devices /\ DOMAIN seen' \subseteq Readers
  BY DEF MonitorAdds, MonitorRemoves, With, Without, IInv, TypeInv, ProviderTypeOK
<1>3. \/ \E e \in Devices, reader \in SUBSET Devices : Notify("monitor", Prepare(e), reader)
      \/ \E e : NotifyRemove("monitor", e)
  BY <1>1 DEF MonitorAdds, MonitorRemoves
<1>4. UNCHANGED <<plugVars, listening, serverList, mainVars>>
  BY DEF MonitorAdds, MonitorRemoves
<1> QED
  BY <1>1, <1>2, <1>3, <1>4, ChangeStep

-----------------------------------------------------------------------------
(***************************************************************************)
(* Registrations and the main thread                                       *)
(***************************************************************************)

\* Where neither devices, list nor tunnels change, the parts about them hold.
LEMMA SameDevices ==
  ASSUME ListInv, UNCHANGED <<plugVars, list>>
  PROVE  ListInv' /\ (TunnelsInv /\ tunnels' = tunnels => TunnelsInv')
<1>1. \A d : InReader(d)' = InReader(d)
  BY DEF InReader, plugVars
<1>2. Present' = Present
  BY <1>1 DEF Present, plugVars
<1> QED
  BY <1>1, <1>2 DEF ListInv, TunnelsInv, TunnelIs, TunnelRight, plugVars

\* The registration that is over has made the server's list what it put.
LEMMA FinishStep == ASSUME IInv, NEW t \in Threads, NEW ok \in BOOLEAN, FinishPut(t, ok) PROVE IInv'
<1>1. /\ put[t] # <<>> /\ put' = [put EXCEPT ![t] = <<>>]
      /\ serverList' = (IF ok THEN put[t][1].sims ELSE serverList)
      /\ missed' <=> missed \/ ~ok
      /\ main' = (IF t # "main" THEN main ELSE IF ok THEN "wait" ELSE "stopped")
      /\ UNCHANGED <<plugVars, seen, list, listening, direct, first, fails, request, requests, tunnels>>
  BY DEF FinishPut
<1>2. put[t][1] \in Registrations
  BY <1>1 DEF IInv, TypeInv
<1>3. put[t][1].sims \in Seq(Entries) /\ put[t][1].reader \subseteq Devices
  BY <1>2 DEF Registrations
<1>4. \A u \in Threads : put'[u] = IF u = t THEN <<>> ELSE put[u]
  BY <1>1 DEF IInv, TypeInv
<1>5. "main" \in Threads /\ (t = "main" => main = "register")
  BY <1>1 DEF IInv, KnowInv, Threads
<1>6. TypeInv'
  <2>1. current' \subseteq Devices
    BY <1>3 DEF FinishPut, IInv, TypeInv, ProviderTypeOK
  <2>2. <<>> \in Seq(Registrations) /\ Len(<<>>) <= 1
    OBVIOUS
  <2>3. put' \in [Threads -> Seq(Registrations)] /\ \A u \in Threads : Len(put'[u]) <= 1
    BY <1>1, <1>4, <2>2 DEF IInv, TypeInv, ProviderTypeOK
  <2>4. missed' \in BOOLEAN
    BY DEF FinishPut
  <2>5. serverList' \in Seq(Entries)
    BY <1>1, <1>3 DEF IInv, TypeInv
  <2> QED
    BY <1>1, <1>5, <2>1, <2>3, <2>4, <2>5 DEF plugVars, IInv, TypeInv, ProviderTypeOK
<1>7. KnowInv'
  <2>1. ~missed' => ok /\ ~missed /\ serverList' = list' /\ \A u \in Threads : put'[u] = <<>>
    BY <1>1, <1>4 DEF IInv, KnowInv
  <2>2. ~listening' => \A u \in Threads : put'[u] = <<>>
    BY <1>1, <1>4 DEF IInv, KnowInv
  <2>3. main' \in {"register", "wait", "start"} /\ ~direct' => listening'
    BY <1>1, <1>5 DEF IInv, KnowInv
  <2>4. put'["main"] # <<>> => main' = "register"
    BY <1>1, <1>4, <1>5 DEF IInv, KnowInv
  <2>5. main' \in {"list", "token"} => ~listening'
    BY <1>1 DEF IInv, KnowInv
  <2>6. direct' => main' \notin {"list", "token", "register"}
    BY <1>1 DEF IInv, KnowInv
  <2> QED
    BY <2>1, <2>2, <2>3, <2>4, <2>5, <2>6 DEF KnowInv
<1>8. RequestInv'
  BY <1>1 DEF IInv, RequestInv, RequestIs
<1> QED
  BY <1>1, <1>6, <1>7, <1>8, SameDevices DEF IInv

\* The main thread goes on, without a list or a registration.
LEMMA MainKnow ==
  ASSUME KnowInv, main' \in {"wait", "start", "stopped"}, main \in {"wait", "start"},
         UNCHANGED <<list, listening, put, serverList, direct, missed>>
  PROVE  KnowInv'
BY DEF KnowInv

\* main up to its first registration.
LEMMA StartStep ==
  ASSUME IInv, FirstList \/ (\E ok \in BOOLEAN : RegisterProvider(ok)) \/ FirstRegistration
  PROVE  IInv'
<1>1. CASE FirstList
  <2>1. TypeInv'
    BY <1>1 DEF FirstList, deviceVars, plugVars, IInv, TypeInv, ProviderTypeOK
  <2>2. KnowInv'
    BY <1>1 DEF FirstList, IInv, KnowInv
  <2> QED
    BY <1>1, <2>1, <2>2, SameDevices DEF FirstList, IInv, RequestInv, deviceVars
<1>2. ASSUME NEW ok \in BOOLEAN, RegisterProvider(ok) PROVE IInv'
  <2>1. TypeInv'
    BY <1>2 DEF RegisterProvider, SessionToken, deviceVars, plugVars, IInv, TypeInv, ProviderTypeOK
  <2>2. \A t \in Threads : put'[t] = <<>>
    BY <1>2 DEF RegisterProvider, IInv, KnowInv
  <2>3. KnowInv'
    BY <1>2, <2>2 DEF RegisterProvider, SessionToken, IInv, KnowInv, Threads
  <2> QED
    BY <1>2, <2>1, <2>3, SameDevices DEF RegisterProvider, SessionToken, IInv, RequestInv, deviceVars
<1>3. CASE FirstRegistration
  <2> DEFINE r == [sims |-> first, reader |-> {}]
  <2>1. /\ main = "register" /\ main' = main /\ put["main"] = <<>> /\ put' = [put EXCEPT !["main"] = <<r>>]
        /\ missed' <=> (first # list \/ \E t \in Threads : put[t] # <<>>)
        /\ UNCHANGED <<deviceVars, list, listening, serverList, mainVars>>
    BY <1>3 DEF FirstRegistration, mainVars
  <2>2. r.sims = first /\ r \in Registrations /\ Len(<<r>>) <= 1 /\ <<r>> # <<>> /\ <<r>>[1] = r
    BY DEF Registrations, IInv, TypeInv
  <2> HIDE DEF r
  <2>3. <<r>> \in Seq(Registrations)
    BY <2>2
  <2>4. "main" \in Threads /\ \A t \in Threads : put'[t] = IF t = "main" THEN <<r>> ELSE put[t]
    BY <2>1 DEF Threads, IInv, TypeInv
  <2>5. put' \in [Threads -> Seq(Registrations)]
    BY <2>1, <2>3 DEF IInv, TypeInv
  <2>6. \A t \in Threads : Len(put'[t]) <= 1
    BY <2>2, <2>4, Zenon DEF IInv, TypeInv, ProviderTypeOK
  <2>7. TypeInv'
    BY <2>1, <2>5, <2>6 DEF deviceVars, plugVars, mainVars, IInv, TypeInv, ProviderTypeOK
  <2>8. KnowInv'
    <3>1. ~missed' => list' = first /\ \A t \in Threads : put[t] = <<>>
      BY <2>1
    <3>2. ~missed' => \A t \in Threads : put'[t] # <<>> =>
                        put'[t][1].sims = list' /\ \A u \in Threads : put'[u] # <<>> => u = t
      BY <2>2, <2>4, <3>1
    <3>3. listening' /\ listening
      BY <2>1 DEF IInv, KnowInv
    <3>4. ~direct' /\ main' = "register"
      BY <2>1 DEF IInv, KnowInv, mainVars
    <3> QED
      BY <2>4, <3>2, <3>3, <3>4 DEF KnowInv
  <2> QED
    BY <2>1, <2>7, <2>8, SameDevices DEF mainVars, IInv, RequestInv, RequestIs, deviceVars
<1> QED
  BY <1>1, <1>2, <1>3

\* What the server's requests and direct mode's clients bring about.
LEMMA RequestStep ==
  ASSUME IInv,
         \/ \E i \in DOMAIN serverList, kind \in {"id", "imsi"} : ServeRequest(i, kind)
         \/ \E auth \in BOOLEAN : WaitFails(auth)
  PROVE  IInv'
<1>1. /\ UNCHANGED <<deviceVars, list, listening, put, serverList, direct, first, tunnels, missed>>
      /\ main = "wait" /\ main' \in {"wait", "start", "stopped"}
  BY DEF ServeRequest, WaitFails, Failed
<1>2. fails \in Nat /\ FailLimit \in Nat /\ fails <= FailLimit
  BY <1>1, ProviderAssumption DEF IInv, TypeInv, ProviderTypeOK
<1>3. fails' \in 0..(FailLimit + 1) /\ (main' # "stopped" => fails' <= FailLimit)
  <2>1. CASE \E i \in DOMAIN serverList, kind \in {"id", "imsi"} : ServeRequest(i, kind)
    BY <1>2, <2>1 DEF ServeRequest, Failed
  <2>2. CASE \E auth \in BOOLEAN : WaitFails(auth)
    BY <1>2, <2>2 DEF WaitFails, Failed
  <2> QED
    BY <2>1, <2>2
<1>4. TypeInv'
  BY <1>1, <1>3 DEF deviceVars, plugVars, IInv, TypeInv, ProviderTypeOK
<1>5. KnowInv'
  BY <1>1, MainKnow DEF IInv
<1>6. RequestInv'
  <2>1. ASSUME NEW i \in DOMAIN serverList, NEW kind \in {"id", "imsi"}, ServeRequest(i, kind)
        PROVE  RequestInv'
    <3>1. RequestIs(Asked(i, kind))
      BY DEF RequestIs, Asked, IInv, TypeInv
    <3>2. main' = "start" => request' = Asked(i, kind)
      BY <2>1 DEF ServeRequest, Failed
    <3> QED
      BY <3>1, <3>2 DEF RequestInv, RequestIs
  <2>2. ASSUME NEW auth \in BOOLEAN, WaitFails(auth) PROVE RequestInv'
    BY <2>2 DEF WaitFails, Failed, RequestInv
  <2> QED
    BY <2>1, <2>2
<1> QED
  BY <1>1, <1>4, <1>5, <1>6, SameDevices DEF IInv, deviceVars

LEMMA TunnelStep ==
  ASSUME IInv,
         \/ StartTunnel
         \/ \E c \in T1Cards, whole \in BOOLEAN : DirectRequest(c, whole)
         \/ \E t \in tunnels, ok \in BOOLEAN : TunnelStarts(t, ok)
         \/ \E t \in tunnels : TunnelEnds(t)
  PROVE  IInv'
<1>1. /\ UNCHANGED <<deviceVars, list, listening, put, serverList, direct, first, fails, missed>>
      /\ main' = main \/ (main \in {"wait", "start"} /\ main' \in {"wait", "stopped"})
  BY DEF StartTunnel, DirectRequest, TunnelStarts, TunnelEnds
<1>2. TypeInv'
  BY <1>1 DEF deviceVars, plugVars, IInv, TypeInv, ProviderTypeOK
<1>3. KnowInv'
  BY <1>1, MainKnow DEF IInv, KnowInv
<1>4. RequestInv'
  BY <1>1 DEF StartTunnel, DirectRequest, TunnelStarts, TunnelEnds, IInv, RequestInv, RequestIs
<1>5. ListInv'
  BY <1>1, SameDevices DEF IInv, deviceVars
<1>6. \A t : TunnelRight(t)' <=> TunnelRight(t)
  BY <1>1 DEF TunnelRight, InReader, deviceVars, plugVars
<1>7. ASSUME \A t \in tunnels' : t \in tunnels \/ (TunnelIs(t) /\ TunnelRight(t)) PROVE TunnelsInv'
  BY <1>6, <1>7 DEF IInv, TunnelsInv, TunnelIs
<1>8. ASSUME NEW req, NEW entry \in Present, NEW same, req.kind = "imsi" \/ same => entry.card = req.sim
      PROVE  TunnelIs(SimTunnel(req, entry, same)) /\ TunnelRight(SimTunnel(req, entry, same))
  <2> DEFINE t == SimTunnel(req, entry, same)
  <2>1. /\ t.req = req /\ t.n = requests /\ t.device = entry.device /\ t.same = same
        /\ t.card = Empty /\ t.pc = "start"
    BY DEF SimTunnel
  <2>2. TunnelIs(t)
    BY DEF SimTunnel, TunnelIs
  <2>3. entry.card \notin moved => InReader(entry.device) = entry.card
    BY DEF Present
  <2> HIDE DEF t
  <2>4. TunnelRight(t)
    BY <1>8, <2>1, <2>3 DEF TunnelRight
  <2> QED
    BY <2>2, <2>4 DEF t
<1>9. ASSUME StartTunnel PROVE TunnelsInv'
  <2>1. CASE tunnels' = tunnels
    BY <1>7, <2>1
  <2>2. CASE tunnels' = tunnels \cup {SimTunnel(request, get_sim(request)[k], list = request.known) :
                                        k \in DOMAIN get_sim(request)}
    <3>1. RequestIs(request) /\ list \in Seq(Entries) /\ list \in Seq(Present)
      BY <1>9 DEF StartTunnel, IInv, RequestInv, ListInv, TypeInv
    <3>2. ASSUME NEW k \in DOMAIN get_sim(request)
          PROVE  LET t == SimTunnel(request, get_sim(request)[k], list = request.known)
                 IN  TunnelIs(t) /\ TunnelRight(t)
      <4>1. get_sim(request)[k] \in Present
        BY <3>1, FoundListed
      <4>2. request.kind = "imsi" \/ list = request.known => get_sim(request)[k].card = request.sim
        BY <3>1, FoundSim
      <4> QED
        BY <1>8, <4>1, <4>2
    <3> QED
      BY <1>7, <2>2, <3>2
  <2> QED
    BY <1>9, <2>1, <2>2 DEF StartTunnel
<1>10. ASSUME NEW c \in T1Cards, NEW whole \in BOOLEAN, DirectRequest(c, whole) PROVE TunnelsInv'
  <2> DEFINE found == {i \in DOMAIN list : list[i].card = c}
             i0 == CHOOSE i \in found : \A k \in found : i <= k
             req == [kind |-> "imsi", sim |-> c]
             t == SimTunnel(req, list[i0], TRUE)
  <2>1. tunnels' = tunnels \/ (found # {} /\ tunnels' = tunnels \cup {t})
    BY <1>10 DEF DirectRequest
  <2>2. CASE tunnels' = tunnels
    BY <1>7, <2>2
  <2>3. CASE found # {} /\ tunnels' = tunnels \cup {t}
    <3>1. list[i0] \in Present /\ list[i0].card = c
      BY <2>3, FirstListed DEF IInv, ListInv
    <3>2. req.sim = c
      OBVIOUS
    <3> HIDE DEF found, i0, req
    <3>3. TunnelIs(t) /\ TunnelRight(t)
      BY <1>8, <3>1, <3>2
    <3> HIDE DEF t
    <3> QED
      BY <1>7, <2>3, <3>3
  <2> QED
    BY <2>1, <2>2, <2>3
<1>11. ASSUME NEW t \in tunnels, NEW card, NEW pc, pc # "start", card \in {t.card, InReader(t.device), Empty},
              card = InReader(t.device) => card = t.card \/ t.pc = "start",
              tunnels' = (tunnels \ {t}) \cup {[t EXCEPT !.card = card, !.pc = pc]}
       PROVE  TunnelsInv'
  <2> DEFINE t1 == [t EXCEPT !.card = card, !.pc = pc]
  <2>1. TunnelIs(t) /\ TunnelRight(t)
    BY DEF IInv, TunnelsInv
  <2>2. t1 = [req |-> t.req, n |-> t.n, device |-> t.device, same |-> t.same, card |-> card, pc |-> pc]
    <3>1. ASSUME NEW f1, NEW f2, NEW f3, NEW f4, NEW f5, NEW f6,
                 t = [req |-> f1, n |-> f2, device |-> f3, same |-> f4, card |-> f5, pc |-> f6]
          PROVE  t1 = [req |-> f1, n |-> f2, device |-> f3, same |-> f4, card |-> card, pc |-> pc]
      <4> DEFINE u == [t EXCEPT !.card = card]
      <4>1. u = [req |-> f1, n |-> f2, device |-> f3, same |-> f4, card |-> card, pc |-> f6]
        BY <3>1
      <4>2. t1 = [u EXCEPT !.pc = pc]
        OBVIOUS
      <4> HIDE DEF t1, u
      <4> QED
        BY <4>1, <4>2
    <3> HIDE DEF t1
    <3> QED
      BY <2>1, <3>1 DEF TunnelIs
  <2> HIDE DEF t1
  <2>3. /\ t1.req = t.req /\ t1.n = t.n /\ t1.device = t.device /\ t1.same = t.same
        /\ t1.card = card /\ t1.pc = pc
    BY <2>2
  <2>4. TunnelIs(t1)
    BY <2>2, <2>3 DEF TunnelIs
  <2>5. TunnelRight(t1)
    BY <1>11, <2>1, <2>3 DEF TunnelRight
  <2>6. tunnels' = (tunnels \ {t}) \cup {t1}
    BY <1>11 DEF t1
  <2> QED
    BY <1>7, <2>4, <2>5, <2>6
<1>12. ASSUME NEW t \in tunnels, NEW ok \in BOOLEAN, TunnelStarts(t, ok) PROVE TunnelsInv'
  <2> DEFINE card == IF ok THEN InReader(t.device) ELSE Empty
             pc == IF direct /\ card # Empty THEN "serving" ELSE "dead"
  <2>1. t.pc = "start" /\ tunnels' = (tunnels \ {t}) \cup {[t EXCEPT !.card = card, !.pc = pc]}
    BY <1>12 DEF TunnelStarts
  <2>2. pc # "start" /\ card \in {t.card, InReader(t.device), Empty}
    OBVIOUS
  <2> HIDE DEF card, pc
  <2> QED
    BY <1>11, <2>1, <2>2
<1>13. ASSUME NEW t \in tunnels, TunnelEnds(t) PROVE TunnelsInv'
  <2>1. TunnelIs(t)
    BY DEF IInv, TunnelsInv
  <2>2. [t EXCEPT !.pc = "ended"] = [t EXCEPT !.card = t.card, !.pc = "ended"]
    BY <2>1 DEF TunnelIs
  <2>3. tunnels' = (tunnels \ {t}) \cup {[t EXCEPT !.card = t.card, !.pc = "ended"]}
    BY <1>13, <2>2 DEF TunnelEnds
  <2> QED
    BY <1>11, <2>3
<1> QED
  BY <1>2, <1>3, <1>4, <1>5, <1>9, <1>10, <1>12, <1>13 DEF IInv

-----------------------------------------------------------------------------
(***************************************************************************)
(* Theorems                                                                *)
(***************************************************************************)

LEMMA InitIInv == ProviderInit => IInv
<1> SUFFICES ASSUME ProviderInit PROVE IInv
  OBVIOUS
<1>1. <<>> \in Seq(Entries) /\ <<>> \in Seq(Registrations) /\ Len(<<>>) <= 1
  OBVIOUS
<1>2. "main" \in Threads /\ \A t \in Threads : put[t] = <<>>
  BY DEF ProviderInit, Threads
<1>3. PICK D \in SUBSET Devices : plugged \in [D -> AnyCard \cup {Empty}]
  BY DEF ProviderInit
<1>4. FailLimit \in Nat
  BY ProviderAssumption
<1>5. ProviderTypeOK
  <2>1. DOMAIN plugged \subseteq Devices /\ \A d \in DOMAIN plugged : plugged[d] \in AnyCard \cup {Empty}
    BY <1>3
  <2>2. DOMAIN seen = {} /\ DOMAIN list = {}
    BY DEF ProviderInit
  <2>3. fails \in 0..(FailLimit + 1)
    BY <1>4 DEF ProviderInit
  <2> QED
    BY <1>1, <1>2, <2>1, <2>2, <2>3 DEF ProviderInit, ProviderTypeOK
<1>6. TypeInv
  BY <1>1, <1>4, <1>5 DEF ProviderInit, TypeInv
<1>7. <<>> \in Seq(Present)
  OBVIOUS
<1> QED
  BY <1>2, <1>6, <1>7 DEF ProviderInit, IInv, KnowInv, RequestInv, TunnelsInv, ListInv

LEMMA NextIInv == IInv /\ [ProviderNext]_providerVars => IInv'
<1> SUFFICES ASSUME IInv, [ProviderNext]_providerVars PROVE IInv'
  OBVIOUS
<1>1. CASE DeviceStep \/ ObserverStep \/ MonitorStep
  BY <1>1, DevicesStep, ObserversStep, MonitorsStep
<1>2. CASE MainStep
  BY <1>2, StartStep, RequestStep, TunnelStep DEF MainStep
<1>3. CASE \E t \in Threads, ok \in BOOLEAN : FinishPut(t, ok)
  BY <1>3, FinishStep
<1>4. CASE \/ \E t \in tunnels, ok \in BOOLEAN : TunnelStarts(t, ok)
           \/ \E t \in tunnels : TunnelEnds(t)
  BY <1>4, TunnelStep
<1>5. CASE UNCHANGED providerVars
  <2>1. UNCHANGED <<plugVars, list, tunnels>>
    BY <1>5 DEF providerVars, plugVars
  <2> QED
    BY <1>5, <2>1, SameDevices DEF providerVars, IInv, TypeInv, ProviderTypeOK, KnowInv, RequestInv, RequestIs
<1> QED
  BY <1>1, <1>2, <1>3, <1>4, <1>5 DEF ProviderNext

LEMMA SpecIInv == ProviderSpec => []IInv
BY InitIInv, NextIInv, PTL DEF ProviderSpec

\* Type correctness of the provider's three threads: what is removed from the
\* list leaves a list of devices with their cards.
THEOREM ProviderTypeCorrect == ProviderSpec => []ProviderTypeOK
<1>1. IInv => ProviderTypeOK
  BY DEF IInv, TypeInv
<1> QED
  BY <1>1, SpecIInv, PTL

\* provides_sim, get_sim and SimTunnel.run: the card in the device a SimTunnel
\* connects to is the SIM that the tunnel server has found, by its number whatever
\* has become of the list meanwhile, by its id if the list is what it was; as long
\* as nobody has taken that SIM out of its device, whatever else is plugged.
THEOREM TunnelsRunOnTheirSim == ProviderSpec => []RightSim
<1>1. IInv => RightSim
  BY DEF IInv, TunnelsInv, TunnelRight, RightSim
<1> QED
  BY <1>1, SpecIInv, PTL

\* The callbacks of device_added and device_removed keep the tunnel server's list
\* up to date, but for the registrations that fail, raise or overtake each other.
THEOREM ServerKnowsTheSims == ProviderSpec => []ServerKnows
<1>1. IInv => ServerKnows
  BY DEF IInv, KnowInv, ServerKnows
<1> QED
  BY <1>1, SpecIInv, PTL

-----------------------------------------------------------------------------
(***************************************************************************)
(* The codecs of the tunnel protocol                                       *)
(***************************************************************************)

Byte == 0..255

\* Operators of sequences, that the provers are to leave alone.
Cat(a, b) == a \o b
Two(x, y) == <<x, y>>
Three(x, y, z) == <<x, y, z>>
Size(s) == Len(s)

\* What a byte is.
LEMMA ByteFacts == \A e : e \in Byte <=> e \in Nat /\ e < 256
BY DEF Byte

\* The elements of a sequence of bytes.
LEMMA ByteType ==
  ASSUME NEW s \in Seq(Byte), NEW i \in Nat, 1 <= i, i <= Len(s)
  PROVE  s[i] \in Nat /\ s[i] < 256
<1>1. i \in 1..Len(s)
  OBVIOUS
<1>2. s[i] \in Byte
  BY <1>1, ElementOfSeq, Zenon
<1> QED
  BY <1>2, ByteFacts

\* The two bytes of a short, as struct.pack writes it.
LEMMA Pack2 ==
  \A x \in Nat : x < 65536 => Pack(x, 2)[1] = x \div 256 /\ Pack(x, 2)[2] = x % 256
<1> SUFFICES ASSUME NEW x \in Nat, x < 65536
             PROVE  Pack(x, 2)[1] = x \div 256 /\ Pack(x, 2)[2] = x % 256
  OBVIOUS
<1>1. /\ Pack(x, 2)[1] = (x \div 256^1) % 256
      /\ Pack(x, 2)[2] = (x \div 256^0) % 256
  BY DEF Pack
<1>2. x \div 256 \in Nat /\ x \div 256 < 256 /\ x \div 1 = x
  OBVIOUS
<1>3. \A q \in Nat : q < 256 => q % 256 = q
  OBVIOUS
<1> QED
  BY <1>1, <1>2, <1>3

\* struct.unpack of a short returns what struct.pack was given.
LEMMA Unpack2Pack ==
  ASSUME NEW x \in Nat, x < 65536
  PROVE  Unpack(Pack(x, 2)) = x
<1>1. Pack(x, 2)[1] = x \div 256 /\ Pack(x, 2)[2] = x % 256
  BY Pack2
<1>2. x = (x \div 256) * 256 + (x % 256)
  OBVIOUS
<1>3. Pack(x, 2) = [i \in 1..2 |-> IF 2 - i > 3 THEN 0 ELSE (x \div 256^(2 - i)) % 256]
  BY DEF Pack
<1>4. Len(Pack(x, 2)) = 2
  BY <1>3
<1> HIDE DEF Pack
<1>5. Unpack(Pack(x, 2)) = Pack(x, 2)[1] * 256 + Pack(x, 2)[2]
  BY <1>4 DEF Unpack
<1> QED
  BY <1>1, <1>2, <1>5

\* The bytes of an unsigned int are integers.
LEMMA FourInts ==
  ASSUME NEW s \in Seq(Byte), Len(s) = 4
  PROVE  s[1] \in Int /\ s[2] \in Int /\ s[3] \in Int /\ s[4] \in Int
<1>1. \A k \in Nat : 1 <= k /\ k <= Len(s) => s[k] \in Nat
  BY ByteType
<1>2. 1 \in Nat /\ 2 \in Nat /\ 3 \in Nat /\ 4 \in Nat
  OBVIOUS
<1> QED
  BY <1>1, <1>2

\* The value struct.unpack gives four bytes.
LEMMA Unpack4 ==
  ASSUME NEW s \in Seq(Byte), Len(s) = 4
  PROVE  Unpack(s) = ((s[1] * 256 + s[2]) * 256 + s[3]) * 256 + s[4]
<1> DEFINE f == CHOOSE value : value = [i \in 0..4 |-> IF i = 0 THEN 0 ELSE value[i - 1] * 256 + s[Len(s) - 4 + i]]
<1> DEFINE a == 0 * 256 + s[1]
<1> DEFINE b == a * 256 + s[2]
<1> DEFINE c == b * 256 + s[3]
<1> DEFINE d == c * 256 + s[4]
<1> DEFINE g == [i \in 0..4 |-> IF i = 0 THEN 0 ELSE IF i = 1 THEN a ELSE IF i = 2 THEN b ELSE IF i = 3 THEN c ELSE d]
<1>1. g = [i \in 0..4 |-> IF i = 0 THEN 0 ELSE g[i - 1] * 256 + s[Len(s) - 4 + i]]
  BY DEF Byte
<1>2. f = [i \in 0..4 |-> IF i = 0 THEN 0 ELSE f[i - 1] * 256 + s[Len(s) - 4 + i]]
  BY <1>1
<1>3. Unpack(s) = f[4]
  BY DEF Unpack
<1>4. /\ f[0] = 0 /\ f[1] = f[0] * 256 + s[1] /\ f[2] = f[1] * 256 + s[2]
      /\ f[3] = f[2] * 256 + s[3] /\ f[4] = f[3] * 256 + s[4]
  <2> HIDE DEF f
  <2> QED BY <1>2
<1> HIDE DEF f, g
<1>5. s[1] \in Int /\ s[2] \in Int /\ s[3] \in Int /\ s[4] \in Int
  BY FourInts
<1>6. f[1] = s[1] /\ f[0] \in Int /\ f[1] \in Int /\ s[2] \in Int /\ s[3] \in Int /\ s[4] \in Int
  BY <1>4, <1>5
<1>7. f[2] = s[1] * 256 + s[2] /\ f[3] = (s[1] * 256 + s[2]) * 256 + s[3]
  BY <1>4, <1>6
<1> QED
  BY <1>3, <1>4, <1>7

\* Numbers of 32 bits, and their bytes from the highest on.
Fits32(x) == x \in Nat /\ x \div 65536 < 65536
ByteOf(x, i) == IF i = 1 THEN x \div 16777216 ELSE IF i = 2 THEN (x \div 65536) % 256
                ELSE IF i = 3 THEN (x \div 256) % 256 ELSE x % 256

\* The four bytes of an unsigned int.
LEMMA Pack4 ==
  \A x : Fits32(x) =>
    /\ Pack(x, 4)[1] = ByteOf(x, 1) /\ Pack(x, 4)[2] = ByteOf(x, 2)
    /\ Pack(x, 4)[3] = ByteOf(x, 3) /\ Pack(x, 4)[4] = ByteOf(x, 4)
<1> SUFFICES ASSUME NEW x, Fits32(x)
             PROVE  /\ Pack(x, 4)[1] = ByteOf(x, 1) /\ Pack(x, 4)[2] = ByteOf(x, 2)
                    /\ Pack(x, 4)[3] = ByteOf(x, 3) /\ Pack(x, 4)[4] = ByteOf(x, 4)
  OBVIOUS
<1>1. x \in Nat /\ x \div 65536 < 65536
  BY DEF Fits32
<1>2. /\ Pack(x, 4)[1] = (x \div 256^3) % 256 /\ Pack(x, 4)[2] = (x \div 256^2) % 256
      /\ Pack(x, 4)[3] = (x \div 256^1) % 256 /\ Pack(x, 4)[4] = (x \div 256^0) % 256
  BY <1>1 DEF Pack
<1>3. x \div 16777216 \in Nat /\ x \div 16777216 < 256 /\ x \div 1 = x
  BY <1>1
<1>4. \A q \in Nat : q < 256 => q % 256 = q
  OBVIOUS
<1> QED
  BY <1>1, <1>2, <1>3, <1>4 DEF ByteOf

\* struct.pack writes as many bytes as its format says.
LEMMA PackType ==
  ASSUME NEW x \in Nat, NEW n \in Nat
  PROVE  Pack(x, n) \in Seq(Byte) /\ Size(Pack(x, n)) = n
<1> DEFINE e(i) == IF n - i > 3 THEN 0 ELSE (x \div 256^(n - i)) % 256
<1>1. Pack(x, n) = [i \in 1..n |-> e(i)]
  BY DEF Pack
<1>2. ASSUME NEW i \in 1..n PROVE e(i) \in Byte
  <2>1. CASE n - i > 3
    BY <2>1 DEF Byte
  <2>2. CASE n - i = 3
    BY <2>2, ByteFacts
  <2>3. CASE n - i = 2
    BY <2>3, ByteFacts
  <2>4. CASE n - i = 1
    BY <2>4, ByteFacts
  <2>5. CASE n - i = 0
    BY <2>5, ByteFacts
  <2> QED
    BY <2>1, <2>2, <2>3, <2>4, <2>5
<1> HIDE DEF e
<1>3. Pack(x, n) \in [1..n -> Byte]
  BY <1>1, <1>2
<1>4. Pack(x, n) \in Seq(Byte) /\ Len(Pack(x, n)) = n
  BY <1>3
<1> QED
  BY <1>4 DEF Size

\* struct.unpack of an unsigned int returns what struct.pack was given.
LEMMA Unpack4Pack ==
  ASSUME NEW x, Fits32(x)
  PROVE  Unpack(Pack(x, 4)) = x
<1>1. /\ Pack(x, 4)[1] = ByteOf(x, 1) /\ Pack(x, 4)[2] = ByteOf(x, 2)
      /\ Pack(x, 4)[3] = ByteOf(x, 3) /\ Pack(x, 4)[4] = ByteOf(x, 4)
  BY Pack4
<1>2. ((ByteOf(x, 1) * 256 + ByteOf(x, 2)) * 256 + ByteOf(x, 3)) * 256 + ByteOf(x, 4) = x
  <2>1. x \in Nat
    BY DEF Fits32
  <2>2. PICK a \in Nat, b \in Nat, c \in Nat : a = x \div 256 /\ b = x \div 65536 /\ c = x \div 16777216
    BY <2>1
  <2>3. /\ x = a * 256 + (x % 256) /\ a \div 256 = b /\ b \div 256 = c
        /\ a = b * 256 + (a % 256) /\ b = c * 256 + (b % 256)
    BY <2>1, <2>2
  <2>4. ByteOf(x, 1) = c /\ ByteOf(x, 2) = b % 256 /\ ByteOf(x, 3) = a % 256 /\ ByteOf(x, 4) = x % 256
    BY <2>2 DEF ByteOf
  <2> QED
    BY <2>3, <2>4
<1>3. Pack(x, 4) \in Seq(Byte) /\ Len(Pack(x, 4)) = 4
  <2>1. x \in Nat
    BY DEF Fits32
  <2>2. Pack(x, 4) \in Seq(Byte) /\ Size(Pack(x, 4)) = 4
    BY <2>1, PackType
  <2> QED
    BY <2>2 DEF Size
<1>4. PICK s \in Seq(Byte) : s = Pack(x, 4)
  BY <1>3
<1>5. Len(s) = 4 /\ s[1] = ByteOf(x, 1) /\ s[2] = ByteOf(x, 2) /\ s[3] = ByteOf(x, 3) /\ s[4] = ByteOf(x, 4)
  BY <1>1, <1>3, <1>4
<1>6. Unpack(s) = ((s[1] * 256 + s[2]) * 256 + s[3]) * 256 + s[4]
  BY <1>5, Unpack4
<1> QED
  BY <1>2, <1>4, <1>5, <1>6

\* The length of a sequence of bytes.
LEMMA SizeType ==
  \A a \in Seq(Byte) : Size(a) \in Nat
BY LenProperties DEF Size

\* What two byte strings are together.
LEMMA CatType ==
  \A a, b \in Seq(Byte) : Cat(a, b) \in Seq(Byte) /\ Size(Cat(a, b)) = Size(a) + Size(b)
BY ConcatProperties DEF Cat, Size

\* The bytes of the first of two byte strings.
LEMMA CatLeft ==
  \A a, b \in Seq(Byte) : \A i \in Nat : 1 <= i /\ i <= Size(a) => Cat(a, b)[i] = a[i]
<1> SUFFICES ASSUME NEW a \in Seq(Byte), NEW b \in Seq(Byte), NEW i \in Nat, 1 <= i, i <= Size(a)
             PROVE  Cat(a, b)[i] = a[i]
  OBVIOUS
<1>1. Len(a) \in Nat /\ Len(b) \in Nat
  BY LenProperties
<1>2. i \in 1..(Len(a) + Len(b)) /\ i <= Len(a)
  BY <1>1 DEF Size
<1> QED
  BY <1>2, ConcatProperties DEF Cat

\* The bytes of the second of two byte strings.
LEMMA CatAt ==
  \A a, b \in Seq(Byte) : \A i \in Nat : 1 <= i /\ i <= Size(b) => Cat(a, b)[Size(a) + i] = b[i]
<1> SUFFICES ASSUME NEW a \in Seq(Byte), NEW b \in Seq(Byte), NEW i \in Nat, 1 <= i, i <= Size(b)
             PROVE  Cat(a, b)[Size(a) + i] = b[i]
  OBVIOUS
<1>1. Len(a) \in Nat /\ Len(b) \in Nat
  BY LenProperties
<1>2. PICK j \in Nat : j = Len(a) + i
  BY <1>1
<1>3. j \in 1..(Len(a) + Len(b)) /\ ~(j <= Len(a)) /\ j - Len(a) = i
  BY <1>1, <1>2 DEF Size
<1>4. Cat(a, b)[j] = b[i]
  BY <1>3, ConcatProperties DEF Cat
<1> QED
  BY <1>2, <1>4 DEF Size

\* b is what has been read of the bytes e.
IsPart(b, e) ==
    /\ b \in Seq(Byte) /\ e \in Seq(Byte) /\ Size(b) <= Size(e)
    /\ \A i \in Nat : 1 <= i /\ i <= Size(b) => b[i] = e[i]

\* Byte strings with the same bytes are the same.
LEMMA Same ==
  ASSUME NEW a \in Seq(Byte), NEW b \in Seq(Byte), Size(a) = Size(b),
         \A i \in Nat : 1 <= i /\ i <= Size(a) => a[i] = b[i]
  PROVE  a = b
<1>1. Len(a) = Len(b) /\ Len(a) \in Nat
  BY LenProperties DEF Size
<1>2. \A i \in 1..Len(a) : a[i] = b[i]
  BY <1>1 DEF Size
<1> QED
  BY <1>1, <1>2, SeqEqual

\* A part of a message that is as long as the message is the message.
LEMMA WholeSame ==
  \A b, e : IsPart(b, e) /\ Size(b) = Size(e) => b = e
<1> SUFFICES ASSUME NEW b, NEW e, IsPart(b, e), Size(b) = Size(e)
             PROVE  b = e
  OBVIOUS
<1> QED
  BY Same DEF IsPart

\* What a slice of a byte string is.
LEMMA Slice ==
  ASSUME NEW b \in Seq(Byte), NEW m \in Nat \ {0}, NEW n \in Nat, m <= n + 1, n <= Size(b)
  PROVE  /\ SubSeq(b, m, n) \in Seq(Byte) /\ Size(SubSeq(b, m, n)) = n - m + 1
         /\ \A i \in Nat : 1 <= i /\ i <= n - m + 1 => SubSeq(b, m, n)[i] = b[m + i - 1]
<1>1. \A i \in m..n : b[i] \in Byte
  <2>1. Len(b) \in Nat
    BY LenProperties
  <2>2. \A i \in m..n : i \in 1..Len(b)
    BY <2>1 DEF Size
  <2> QED
    BY <2>2, ElementOfSeq
<1>2. /\ SubSeq(b, m, n) \in Seq(Byte)
      /\ Size(SubSeq(b, m, n)) = IF m <= n THEN n - m + 1 ELSE 0
      /\ \A i \in 1..(n - m + 1) : SubSeq(b, m, n)[i] = b[m + i - 1]
  BY <1>1, SubSeqProperties DEF Size
<1> QED
  BY <1>2

\* What has been read of a message begins with the message's first field.
LEMMA HeadPart ==
  ASSUME NEW h \in Seq(Byte), NEW p \in Seq(Byte), NEW b, IsPart(b, Cat(h, p)), Size(h) <= Size(b)
  PROVE  \A i \in Nat : 1 <= i /\ i <= Size(h) => b[i] = h[i]
BY CatType, CatLeft, SizeType DEF IsPart

\* Without the first field, it is part of what follows the field.
LEMMA RestPart ==
  ASSUME NEW h \in Seq(Byte), NEW p \in Seq(Byte), NEW b, IsPart(b, Cat(h, p)), Size(h) <= Size(b)
  PROVE  \A i : i = Size(h) + 1 => IsPart(Rest(b, i), p) /\ Size(Rest(b, i)) = Size(b) - Size(h)
<1> DEFINE r == SubSeq(b, Size(h) + 1, Size(b))
<1>1. /\ Size(h) \in Nat /\ Size(p) \in Nat /\ Size(b) \in Nat /\ b \in Seq(Byte)
      /\ Size(b) <= Size(h) + Size(p)
  BY CatType, SizeType DEF IsPart
<1>2. r = Rest(b, Size(h) + 1)
  BY DEF Rest, Size
<1>3. /\ r \in Seq(Byte) /\ Size(r) = Size(b) - Size(h)
      /\ \A i \in Nat : 1 <= i /\ i <= Size(b) - Size(h) => r[i] = b[Size(h) + 1 + i - 1]
  <2>1. /\ Size(h) + 1 \in Nat \ {0} /\ Size(h) + 1 <= Size(b) + 1
        /\ Size(b) - (Size(h) + 1) + 1 = Size(b) - Size(h)
    BY <1>1
  <2>2. PICK k \in Nat, n \in Nat : k = Size(h) + 1 /\ n = Size(b)
    BY <1>1
  <2>3. /\ SubSeq(b, k, n) \in Seq(Byte) /\ Size(SubSeq(b, k, n)) = n - k + 1
        /\ \A i \in Nat : 1 <= i /\ i <= n - k + 1 => SubSeq(b, k, n)[i] = b[k + i - 1]
    <3>1. k \in Nat \ {0} /\ k <= n + 1 /\ n <= Size(b)
      BY <2>1, <2>2
    <3>2. b \in Seq(Byte)
      BY <1>1
    <3> QED
      BY <2>2, <3>1, <3>2, Slice, Zenon
  <2> QED
    BY <2>1, <2>2, <2>3
<1> HIDE DEF r
<1>4. ASSUME NEW i \in Nat, 1 <= i, i <= Size(r) PROVE r[i] = p[i]
  <2>1. /\ Size(h) + 1 + i - 1 = Size(h) + i /\ Size(h) + i \in Nat /\ 1 <= Size(h) + i /\ Size(h) + i <= Size(b)
        /\ i <= Size(p)
    <3>1. PICK m \in Nat, n \in Nat, z \in Nat : m = Size(h) /\ n = Size(b) /\ z = Size(p)
      BY <1>1
    <3>2. n <= m + z /\ i <= n - m
      BY <1>1, <1>3, <1>4, <3>1
    <3> QED
      BY <1>4, <3>1, <3>2
  <2>2. r[i] = Cat(h, p)[Size(h) + i]
    BY <1>3, <1>4, <2>1 DEF IsPart
  <2>3. Cat(h, p)[Size(h) + i] = p[i]
    BY <1>4, <2>1, CatAt
  <2> QED
    BY <2>1, <2>2, <2>3
<1> QED
  BY <1>1, <1>2, <1>3, <1>4 DEF IsPart

\* The second field of a message, once both have been read.
LEMMA FieldPart ==
  ASSUME NEW h \in Seq(Byte), NEW k \in Seq(Byte), NEW p \in Seq(Byte), NEW b, IsPart(b, Cat(Cat(h, k), p)),
         Size(h) + Size(k) <= Size(b)
  PROVE  \A i, j : i = Size(h) + 1 /\ j = Size(h) + Size(k) => SubSeq(b, i, j) = k
<1>0. PICK m \in Nat, l \in Nat : m = Size(h) /\ l = Size(k)
  BY SizeType
<1>1. Cat(h, k) \in Seq(Byte) /\ Size(Cat(h, k)) = m + l /\ b \in Seq(Byte)
  BY <1>0, CatType DEF IsPart
<1>2. \A i \in Nat : 1 <= i /\ i <= m + l => b[i] = Cat(h, k)[i]
  BY <1>0, <1>1, HeadPart
<1>3. /\ SubSeq(b, m + 1, m + l) \in Seq(Byte) /\ Size(SubSeq(b, m + 1, m + l)) = l
      /\ \A i \in Nat : 1 <= i /\ i <= l => SubSeq(b, m + 1, m + l)[i] = b[m + 1 + i - 1]
  <2>1. m + 1 \in Nat \ {0} /\ m + l \in Nat /\ m + 1 <= (m + l) + 1 /\ (m + l) - (m + 1) + 1 = l
    OBVIOUS
  <2>2. m + l <= Size(b)
    BY <1>0
  <2> QED
    BY <1>1, <2>1, <2>2, Slice
<1>4. ASSUME NEW i \in Nat, 1 <= i, i <= l PROVE SubSeq(b, m + 1, m + l)[i] = k[i]
  <2>1. PICK j \in Nat : j = m + i
    OBVIOUS
  <2>2. m + 1 + i - 1 = j /\ 1 <= j /\ j <= m + l
    BY <1>4, <2>1
  <2>3. Cat(h, k)[j] = k[i]
    BY <1>0, <1>4, <2>1, CatAt
  <2> QED
    BY <1>2, <1>3, <1>4, <2>2, <2>3
<1> QED
  BY <1>0, <1>3, <1>4, Same

\* What a decoder returns of n bytes of a message m of len bytes.
Reads(d, n, len, m) ==
    IF n < len THEN \E x \in Nat : 1 <= x /\ n + x <= len /\ d = Partial(x) ELSE d = Ok(m)

\* A decoder that asks for bytes that are missing reads the message.
LEMMA ReadsPartial ==
  ASSUME NEW n \in Nat, NEW len \in Nat, NEW x \in Nat, 1 <= x, n + x <= len, NEW m
  PROVE  Reads(Partial(x), n, len, m)
BY DEF Reads

\* So does one that returns the message.
LEMMA ReadsOk ==
  ASSUME NEW n \in Nat, NEW m
  PROVE  Reads(Ok(m), n, n, m)
BY DEF Reads

\* What ApduPacket's constructor takes.
Packet == {p \in [op : ApduOps, payload : Seq(Byte)] : Size(p.payload) < 1024}

\* A header of two bytes.
LEMMA Pair ==
  ASSUME NEW x \in Byte, NEW y \in Byte
  PROVE  Two(x, y) \in Seq(Byte) /\ Size(Two(x, y)) = 2 /\ Two(x, y)[1] = x /\ Two(x, y)[2] = y
BY DEF Size, Two

\* A header of three bytes.
LEMMA Triple ==
  ASSUME NEW x \in Byte, NEW y \in Byte, NEW z \in Byte
  PROVE  /\ Three(x, y, z) \in Seq(Byte) /\ Size(Three(x, y, z)) = 3
         /\ Three(x, y, z)[1] = x /\ Three(x, y, z)[2] = y /\ Three(x, y, z)[3] = z
BY DEF Size, Three

\* The fields of a message that has been read beyond two of them.
LEMMA Fields ==
  ASSUME NEW h \in Seq(Byte), NEW k \in Seq(Byte), NEW q \in Seq(Byte), NEW b, IsPart(b, Cat(Cat(h, k), q)),
         Size(h) + Size(k) <= Size(b)
  PROVE  /\ \A i, j : i = Size(h) + 1 /\ j = Size(h) + Size(k) => SubSeq(b, i, j) = k
         /\ \A i \in Nat : 1 <= i /\ i <= Size(h) => b[i] = h[i]
         /\ \A i : i = Size(h) + Size(k) + 1 =>
              IsPart(Rest(b, i), q) /\ Size(Rest(b, i)) = Size(b) - (Size(h) + Size(k))
<1>1. Cat(h, k) \in Seq(Byte) /\ Size(Cat(h, k)) = Size(h) + Size(k) /\ Size(h) \in Nat /\ Size(k) \in Nat
  BY CatType, SizeType
<1>2. \A i, j : i = Size(h) + 1 /\ j = Size(h) + Size(k) => SubSeq(b, i, j) = k
  BY FieldPart
<1>3. ASSUME NEW i \in Nat, 1 <= i, i <= Size(h) PROVE b[i] = h[i]
  <2>1. \A j \in Nat : 1 <= j /\ j <= Size(Cat(h, k)) => b[j] = Cat(h, k)[j]
    BY <1>1, HeadPart
  <2>2. i <= Size(Cat(h, k))
    BY <1>1, <1>3
  <2> QED
    BY <1>3, <2>1, <2>2, CatLeft
<1>4. \A i : i = Size(h) + Size(k) + 1 =>
              IsPart(Rest(b, i), q) /\ Size(Rest(b, i)) = Size(b) - (Size(h) + Size(k))
  BY <1>1, RestPart
<1> QED
  BY <1>2, <1>3, <1>4

\* The same for a header of two bytes and a length of two or four.
LEMMA Frame ==
  ASSUME NEW h \in Seq(Byte), NEW k \in Seq(Byte), NEW q \in Seq(Byte), NEW b, IsPart(b, Cat(Cat(h, k), q)),
         Size(h) + Size(k) <= Size(b)
  PROVE  \A m \in {2, 4} : Size(h) = 2 /\ Size(k) = m =>
         /\ SubSeq(b, 3, 2 + m) = k /\ b[1] = h[1] /\ b[2] = h[2]
         /\ IsPart(Rest(b, 3 + m), q) /\ Size(Rest(b, 3 + m)) = Size(b) - (2 + m)
<1>1. /\ \A i, j : i = Size(h) + 1 /\ j = Size(h) + Size(k) => SubSeq(b, i, j) = k
      /\ \A i \in Nat : 1 <= i /\ i <= Size(h) => b[i] = h[i]
      /\ \A i : i = Size(h) + Size(k) + 1 =>
           IsPart(Rest(b, i), q) /\ Size(Rest(b, i)) = Size(b) - (Size(h) + Size(k))
  BY Fields
<1> SUFFICES ASSUME NEW m \in {2, 4}, Size(h) = 2, Size(k) = m
             PROVE  /\ SubSeq(b, 3, 2 + m) = k /\ b[1] = h[1] /\ b[2] = h[2]
                    /\ IsPart(Rest(b, 3 + m), q) /\ Size(Rest(b, 3 + m)) = Size(b) - (2 + m)
  OBVIOUS
<1>2. /\ 3 = Size(h) + 1 /\ 2 + m = Size(h) + Size(k) /\ 3 + m = Size(h) + Size(k) + 1
      /\ 1 <= Size(h) /\ 2 <= Size(h)
  OBVIOUS
<1>3. SubSeq(b, 3, 2 + m) = k
  BY <1>1, <1>2
<1>4. b[1] = h[1] /\ b[2] = h[2]
  BY <1>1, <1>2
<1>5. IsPart(Rest(b, 3 + m), q) /\ Size(Rest(b, 3 + m)) = Size(b) - (Size(h) + Size(k))
  BY <1>1, <1>2
<1> QED
  BY <1>2, <1>3, <1>4, <1>5

\* The header and the length field of an AuthRequest and of an ApduPacket.
LEMMA Header ==
  ASSUME NEW x \in Byte, NEW y \in Byte, NEW n \in Nat, NEW m, (m = 2 /\ n < 65536) \/ (m = 4 /\ n < 1024)
  PROVE  /\ Two(x, y) \in Seq(Byte) /\ Size(Two(x, y)) = 2 /\ Two(x, y)[1] = x /\ Two(x, y)[2] = y
         /\ Pack(n, m) \in Seq(Byte) /\ Size(Pack(n, m)) = m /\ Unpack(Pack(n, m)) = n
<1>1. CASE m = 2 /\ n < 65536
  <2>1. Unpack(Pack(n, 2)) = n
    BY <1>1, Unpack2Pack
  <2> QED
    BY <1>1, <2>1, Pair, PackType
<1>2. CASE m = 4 /\ n < 1024
  <2>1. Fits32(n)
    BY <1>2 DEF Fits32
  <2> QED
    BY <1>2, <2>1, Pair, PackType, Unpack4Pack
<1> QED
  BY <1>1, <1>2

\* What ApduPacket.encode writes: two bytes, the length in four, the payload.
LEMMA ApduBytes ==
  ASSUME NEW p \in Packet
  PROVE  \E h, k \in Seq(Byte) :
           /\ encode_ApduPacket(p) = Cat(Cat(h, k), p.payload) /\ p.payload \in Seq(Byte)
           /\ Size(h) = 2 /\ h[1] = 1 /\ h[2] = p.op
           /\ Size(k) = 4 /\ Unpack(k) = Size(p.payload) /\ Size(p.payload) < 1024
<1>1. p.op \in Byte /\ 1 \in Byte /\ p.payload \in Seq(Byte) /\ Size(p.payload) < 1024
  BY ByteFacts DEF Packet, ApduOps
<1>2. PICK n \in Nat : n = Size(p.payload) /\ n < 1024
  BY <1>1, SizeType
<1>3. encode_ApduPacket(p) = Cat(Cat(Two(1, p.op), Pack(n, 4)), p.payload)
  BY <1>2 DEF encode_ApduPacket, Cat, Size, Two
<1>4. /\ Two(1, p.op) \in Seq(Byte) /\ Size(Two(1, p.op)) = 2 /\ Two(1, p.op)[1] = 1 /\ Two(1, p.op)[2] = p.op
      /\ Pack(n, 4) \in Seq(Byte) /\ Size(Pack(n, 4)) = 4 /\ Unpack(Pack(n, 4)) = n
  BY <1>1, <1>2, Header
<1> QED
  BY <1>1, <1>2, <1>3, <1>4

\* ApduPacket.decode asks for its header first.
LEMMA ApduShort ==
  ASSUME NEW b, Len(b) < 6
  PROVE  decode_ApduPacket(b) = Partial(6 - Len(b))
BY DEF decode_ApduPacket

\* ApduPacket.decode, when it has a header of a known operation.
LEMMA ApduStep ==
  ASSUME NEW b, NEW size, ~(Len(b) < 6), size = 6 + Unpack(SubSeq(b, 3, 6)), b[1] = 1, b[2] \in ApduOps
  PROVE  decode_ApduPacket(b) = IF Len(b) < size THEN Partial(size - Len(b))
                                 ELSE IF Len(b) > size \/ size - 6 >= 1024 THEN Malformed
                                 ELSE Ok([op |-> b[2], payload |-> Rest(b, 7)])
BY DEF decode_ApduPacket

\* ApduPacket.decode reads what ApduPacket.encode has written: of any part of
\* it, it asks for at least one byte and no more than are missing, and of the
\* whole it returns the packet, for any payload of less than 1024 bytes.
THEOREM ApduReads ==
  ASSUME NEW p \in Packet, NEW b, IsPart(b, encode_ApduPacket(p))
  PROVE  Reads(decode_ApduPacket(b), Size(b), Size(encode_ApduPacket(p)), p)
<1>1. PICK h \in Seq(Byte), k \in Seq(Byte) :
           /\ encode_ApduPacket(p) = Cat(Cat(h, k), p.payload) /\ p.payload \in Seq(Byte)
           /\ Size(h) = 2 /\ h[1] = 1 /\ h[2] = p.op
           /\ Size(k) = 4 /\ Unpack(k) = Size(p.payload) /\ Size(p.payload) < 1024
  BY ApduBytes
<1>2. PICK q \in Seq(Byte) : q = p.payload
  BY <1>1
<1>3. PICK l \in Nat : l = Size(q) /\ l < 1024
  BY <1>1, <1>2, SizeType
<1>4. p.op \in ApduOps /\ p = [op |-> p.op, payload |-> q]
  BY <1>2 DEF Packet
<1>5. IsPart(b, Cat(Cat(h, k), q)) /\ Size(Cat(Cat(h, k), q)) = 6 + l
  BY <1>1, <1>2, <1>3, CatType
<1>6. PICK n \in Nat : n = Size(b) /\ n <= 6 + l
  BY <1>5, SizeType DEF IsPart
<1>7. CASE n < 6
  <2>1. decode_ApduPacket(b) = Partial(6 - n)
    BY <1>6, <1>7, ApduShort DEF Size
  <2>2. Reads(Partial(6 - n), n, 6 + l, p)
    <3>1. PICK x \in Nat : x = 6 - n /\ 1 <= x /\ n + x <= 6 + l
      BY <1>7
    <3> QED
      BY <3>1, ReadsPartial
  <2> QED
    BY <1>1, <1>2, <1>5, <1>6, <2>1, <2>2
<1>8. CASE ~(n < 6)
  <2>1. /\ SubSeq(b, 3, 6) = k /\ b[1] = h[1] /\ b[2] = h[2]
        /\ IsPart(Rest(b, 7), q) /\ Size(Rest(b, 7)) = n - 6
    <3>1. Size(h) + Size(k) <= Size(b) /\ 4 \in {2, 4}
      BY <1>1, <1>6, <1>8
    <3>2. /\ SubSeq(b, 3, 2 + 4) = k /\ b[1] = h[1] /\ b[2] = h[2]
          /\ IsPart(Rest(b, 3 + 4), q) /\ Size(Rest(b, 3 + 4)) = Size(b) - (2 + 4)
      BY <1>1, <1>5, <3>1, Frame
    <3> QED
      BY <1>6, <3>2
  <2>2. decode_ApduPacket(b) = IF n < 6 + l THEN Partial(6 + l - n)
                                ELSE IF n > 6 + l \/ 6 + l - 6 >= 1024 THEN Malformed
                                ELSE Ok([op |-> p.op, payload |-> Rest(b, 7)])
    <3>1. PICK size : size = 6 + l
      OBVIOUS
    <3>2. size = 6 + Unpack(SubSeq(b, 3, 6)) /\ b[1] = 1 /\ b[2] \in ApduOps
      BY <1>1, <1>2, <1>3, <1>4, <2>1, <3>1
    <3>3. ~(Len(b) < 6)
      BY <1>6, <1>8 DEF Size
    <3>4. decode_ApduPacket(b) = IF Len(b) < size THEN Partial(size - Len(b))
                                 ELSE IF Len(b) > size \/ size - 6 >= 1024 THEN Malformed
                                 ELSE Ok([op |-> b[2], payload |-> Rest(b, 7)])
      BY <3>2, <3>3, ApduStep
    <3> QED
      BY <1>1, <1>6, <2>1, <3>1, <3>4 DEF Size
  <2>3. CASE n < 6 + l
    <3>1. Reads(Partial(6 + l - n), n, 6 + l, p)
      <4>1. PICK x \in Nat : x = 6 + l - n /\ 1 <= x /\ n + x <= 6 + l
        BY <2>3
      <4> QED
        BY <4>1, ReadsPartial
    <3> QED
      BY <1>1, <1>2, <1>5, <1>6, <2>2, <2>3, <3>1
  <2>4. CASE n = 6 + l
    <3>1. decode_ApduPacket(b) = Ok([op |-> p.op, payload |-> Rest(b, 7)])
      BY <1>3, <2>2, <2>4
    <3>2. Rest(b, 7) = q
      <4>1. Size(Rest(b, 7)) = Size(q)
        BY <1>3, <2>1, <2>4
      <4> QED
        BY <2>1, <4>1, Same DEF IsPart
    <3>3. Reads(Ok(p), n, n, p)
      BY ReadsOk
    <3> QED
      BY <1>1, <1>2, <1>4, <1>5, <1>6, <2>4, <3>1, <3>2, <3>3
  <2> QED
    BY <1>6, <2>3, <2>4
<1> QED
  BY <1>7, <1>8

-----------------------------------------------------------------------------
\* A token whose length fits the length field.
Token16 == {s \in Seq(Byte) : Size(s) < 65536}

\* AuthRequest.decode of a whole request.
LEMMA AuthStep ==
  ASSUME NEW b, NEW size, ~(Len(b) < 4), size = 4 + Unpack(SubSeq(b, 3, 4)), b[1] = 1, b[2] \in AuthTypes,
         ~(Len(b) < size), ~(Len(b) > size)
  PROVE  decode_AuthRequest(b) = Ok([authType |-> b[2], token |-> Rest(b, 5)])
BY DEF decode_AuthRequest

\* A message is part of itself.
LEMMA Whole ==
  \A e \in Seq(Byte) : IsPart(e, e)
BY SizeType DEF IsPart

\* AuthRequest.decode returns the request that AuthRequest.encode was given.
THEOREM AuthRequestWhole ==
  ASSUME NEW type \in AuthTypes, NEW token \in Token16
  PROVE  LET m == [authType |-> type, token |-> token]
         IN decode_AuthRequest(encode_AuthRequest(m)) = Ok(m)
<1> DEFINE m == [authType |-> type, token |-> token]
<1>1. type \in Byte /\ 1 \in Byte /\ token \in Seq(Byte)
  BY ByteFacts DEF AuthTypes, Token16
<1>2. PICK l \in Nat : l = Size(token) /\ l < 65536
  BY <1>1, SizeType DEF Token16
<1>3. PICK h \in Seq(Byte), k \in Seq(Byte) :
        /\ h = Two(1, type) /\ k = Pack(l, 2) /\ Size(h) = 2 /\ h[1] = 1 /\ h[2] = type
        /\ Size(k) = 2 /\ Unpack(k) = l
  BY <1>1, <1>2, Header
<1>4. PICK e \in Seq(Byte) : e = Cat(Cat(h, k), token) /\ Size(e) = 4 + l
  BY <1>1, <1>2, <1>3, CatType
<1>5. encode_AuthRequest(m) = e
  BY <1>2, <1>3, <1>4 DEF encode_AuthRequest, Cat, Size, Two
<1>6. /\ SubSeq(e, 3, 4) = k /\ e[1] = 1 /\ e[2] = type
      /\ IsPart(Rest(e, 5), token) /\ Size(Rest(e, 5)) = l
  <2>1. Size(h) + Size(k) <= Size(e) /\ 2 \in {2, 4} /\ IsPart(e, Cat(Cat(h, k), token))
    BY <1>3, <1>4, Whole
  <2>2. /\ SubSeq(e, 3, 2 + 2) = k /\ e[1] = h[1] /\ e[2] = h[2]
        /\ IsPart(Rest(e, 3 + 2), token) /\ Size(Rest(e, 3 + 2)) = Size(e) - (2 + 2)
    BY <1>1, <1>3, <2>1, Frame
  <2> QED
    BY <1>3, <1>4, <2>2
<1>7. Rest(e, 5) = token
  BY <1>1, <1>2, <1>6, Same DEF IsPart
<1>8. PICK size \in Nat : size = 4 + l
  OBVIOUS
<1>9. ~(Len(e) < 4) /\ size = 4 + Unpack(SubSeq(e, 3, 4)) /\ ~(Len(e) < size) /\ ~(Len(e) > size)
  <2>1. Size(e) = size /\ size \in Nat /\ 4 <= size
    BY <1>4, <1>8
  <2>2. ~(Len(e) < 4) /\ ~(Len(e) < size) /\ ~(Len(e) > size)
    BY <2>1 DEF Size
  <2>3. size = 4 + Unpack(SubSeq(e, 3, 4))
    BY <1>3, <1>6, <1>8
  <2> QED
    BY <2>2, <2>3
<1>10. decode_AuthRequest(e) = Ok([authType |-> e[2], token |-> Rest(e, 5)])
  BY <1>6, <1>8, <1>9, AuthStep
<1> QED
  BY <1>5, <1>6, <1>7, <1>10

-----------------------------------------------------------------------------
\* What AuthResponse.encode and ConnectResponse.encode write.
LEMMA ResponseBytes ==
  ASSUME NEW status \in ConnectStatuses
  PROVE  LET e == encode_Response([status |-> status])
         IN e \in Seq(Byte) /\ Size(e) = 2 /\ e[1] = 1 /\ e[2] = status
<1>1. 1 \in Byte /\ status \in Byte
  BY ByteFacts DEF ConnectStatuses
<1>2. encode_Response([status |-> status]) = Two(1, status)
  BY DEF encode_Response, Two
<1> QED
  BY <1>1, <1>2, Pair

\* What has been read of a message of two bytes.
LEMMA TwoBytes ==
  ASSUME NEW e \in Seq(Byte), NEW b, IsPart(b, e), Size(e) = 2
  PROVE  Size(b) \in Nat /\ Size(b) <= 2 /\ (Size(b) = 2 => b[1] = e[1] /\ b[2] = e[2])
BY SizeType DEF IsPart

\* ConnectResponse.decode reads what ConnectResponse.encode has written.
LEMMA ConnectResponseReads ==
  ASSUME NEW status \in ConnectStatuses, NEW b, IsPart(b, encode_Response([status |-> status]))
  PROVE  Reads(decode_ConnectResponse(b), Size(b), 2, [status |-> status])
<1>1. PICK e \in Seq(Byte) : e = encode_Response([status |-> status]) /\ Size(e) = 2 /\ e[1] = 1 /\ e[2] = status
  BY ResponseBytes
<1>2. PICK n \in Nat : n = Size(b) /\ n <= 2 /\ (n = 2 => b[1] = 1 /\ b[2] = status)
  BY <1>1, TwoBytes
<1>3. CASE n < 2
  <2>1. PICK x \in Nat : x = 2 - n /\ 1 <= x /\ n + x <= 2
    BY <1>3
  <2>2. Len(b) < 2 /\ 2 - Len(b) = x
    BY <1>2, <1>3, <2>1 DEF Size
  <2>3. decode_ConnectResponse(b) = Partial(x)
    BY <2>2 DEF decode_ConnectResponse
  <2> QED
    BY <1>2, <2>1, <2>3, ReadsPartial
<1>4. CASE n = 2
  <2>1. ~(Len(b) < 2) /\ ~(Len(b) > 2)
    BY <1>2, <1>4 DEF Size
  <2>2. decode_ConnectResponse(b) = Ok([status |-> status])
    BY <1>2, <1>4, <2>1 DEF decode_ConnectResponse
  <2> QED
    BY <1>2, <1>4, <2>2, ReadsOk
<1> QED
  BY <1>2, <1>3, <1>4

\* AuthResponse.decode reads what AuthResponse.encode has written.
LEMMA AuthResponseReads ==
  ASSUME NEW status \in AuthStatuses, NEW b, IsPart(b, encode_Response([status |-> status]))
  PROVE  Reads(decode_AuthResponse(b), Size(b), 2, [status |-> status])
<1>0. status \in ConnectStatuses
  BY DEF AuthStatuses, ConnectStatuses
<1>1. PICK e \in Seq(Byte) : e = encode_Response([status |-> status]) /\ Size(e) = 2 /\ e[1] = 1 /\ e[2] = status
  BY <1>0, ResponseBytes
<1>2. PICK n \in Nat : n = Size(b) /\ n <= 2 /\ (n = 2 => b[1] = 1 /\ b[2] = status)
  BY <1>1, TwoBytes
<1>3. CASE n < 2
  <2>1. PICK x \in Nat : x = 2 - n /\ 1 <= x /\ n + x <= 2
    BY <1>3
  <2>2. Len(b) < 2 /\ 2 - Len(b) = x
    BY <1>2, <1>3, <2>1 DEF Size
  <2>3. decode_AuthResponse(b) = Partial(x)
    BY <2>2 DEF decode_AuthResponse
  <2> QED
    BY <1>2, <2>1, <2>3, ReadsPartial
<1>4. CASE n = 2
  <2>1. ~(Len(b) < 2) /\ ~(Len(b) > 2)
    BY <1>2, <1>4 DEF Size
  <2>2. decode_AuthResponse(b) = Ok([status |-> status])
    BY <1>2, <1>4, <2>1 DEF decode_AuthResponse
  <2> QED
    BY <1>2, <1>4, <2>2, ReadsOk
<1> QED
  BY <1>2, <1>3, <1>4

-----------------------------------------------------------------------------
\* The character of a digit is a byte, and not the padding.
LEMMA Digit == \A e : e \in 48..57 => e \in Byte /\ e # 0
BY ByteFacts

\* The padding of an identifier.
LEMMA ZerosBytes ==
  ASSUME NEW n \in Nat
  PROVE  Zeros(n) \in Seq(Byte) /\ Size(Zeros(n)) = n /\ \A i \in Nat : 1 <= i /\ i <= n => Zeros(n)[i] = 0
<1>1. Zeros(n) = [i \in 1..n |-> 0] /\ 0 \in Byte
  BY ByteFacts DEF Zeros
<1>2. Zeros(n) \in [1..n -> Byte] /\ \A i \in 1..n : Zeros(n)[i] = 0
  BY <1>1
<1>3. Zeros(n) \in Seq(Byte) /\ Len(Zeros(n)) = n
  BY <1>2
<1> QED
  BY <1>2, <1>3 DEF Size

\* Digits that Iccid or Imsi take, of at most len characters.
IsDigits(s, len) == s \in Seq(Byte) /\ Size(s) <= len /\ 5 <= Size(s) /\ \A i \in Nat : 1 <= i /\ i <= Size(s) => s[i] \in 48..57

\* Digits and their padding.
LEMMA DigitsBytes ==
  ASSUME NEW len \in Nat, NEW s, IsDigits(s, len)
  PROVE  /\ encode_Digits(s, len) \in Seq(Byte) /\ Size(encode_Digits(s, len)) = len
         /\ \A i \in Nat : 1 <= i /\ i <= Size(s) => encode_Digits(s, len)[i] = s[i]
         /\ \A i \in Nat : Size(s) < i /\ i <= len => encode_Digits(s, len)[i] = 0
<1>1. PICK n \in Nat : n = Size(s) /\ n <= len /\ s \in Seq(Byte)
  BY SizeType DEF IsDigits
<1>2. PICK k \in Nat : k = len - n
  BY <1>1
<1>3. encode_Digits(s, len) = Cat(s, Zeros(k))
  BY <1>1, <1>2 DEF encode_Digits, Cat, Size
<1>4. Zeros(k) \in Seq(Byte) /\ Size(Zeros(k)) = k /\ \A i \in Nat : 1 <= i /\ i <= k => Zeros(k)[i] = 0
  BY ZerosBytes
<1>5. Cat(s, Zeros(k)) \in Seq(Byte) /\ Size(Cat(s, Zeros(k))) = len
  <2>1. Size(Cat(s, Zeros(k))) = n + k /\ n + k = len
    BY <1>1, <1>2, <1>4, CatType
  <2> QED
    BY <1>1, <1>4, <2>1, CatType
<1>6. ASSUME NEW i \in Nat, n < i, i <= len PROVE Cat(s, Zeros(k))[i] = 0
  <2>1. PICK j \in Nat : j = i - n
    BY <1>6
  <2>2. 1 <= j /\ j <= k /\ i = n + j
    BY <1>2, <1>6, <2>1
  <2>3. Cat(s, Zeros(k))[n + j] = Zeros(k)[j]
    BY <1>1, <1>4, <2>2, CatAt
  <2> QED
    BY <1>4, <2>2, <2>3
<1>7. \A i \in Nat : 1 <= i /\ i <= n => Cat(s, Zeros(k))[i] = s[i]
  BY <1>1, <1>4, CatLeft
<1> QED
  BY <1>1, <1>3, <1>5, <1>6, <1>7

\* Stripped of its padding, an encoded number is what it was: a digit is no
\* padding.
LEMMA StrippedDigits ==
  ASSUME NEW len \in Nat, NEW s, IsDigits(s, len)
  PROVE  Stripped(encode_Digits(s, len)) = s
<1>1. PICK e \in Seq(Byte), n \in Nat :
        /\ e = encode_Digits(s, len) /\ Size(e) = len /\ n = Size(s) /\ n <= len /\ s \in Seq(Byte) /\ 5 <= n
        /\ \A i \in Nat : 1 <= i /\ i <= n => e[i] = s[i] /\ e[i] # 0
        /\ \A i \in Nat : n < i /\ i <= len => e[i] = 0
  <2>1. s \in Seq(Byte) /\ Size(s) \in Nat
    BY SizeType DEF IsDigits
  <2>2. /\ encode_Digits(s, len) \in Seq(Byte) /\ Size(encode_Digits(s, len)) = len
        /\ \A i \in Nat : 1 <= i /\ i <= Size(s) => encode_Digits(s, len)[i] = s[i]
        /\ \A i \in Nat : Size(s) < i /\ i <= len => encode_Digits(s, len)[i] = 0
    BY DigitsBytes
  <2>3. \A i \in Nat : 1 <= i /\ i <= Size(s) => s[i] # 0
    BY Digit DEF IsDigits
  <2> QED
    BY <2>1, <2>2, <2>3 DEF IsDigits
<1> DEFINE kept == {k \in 0..Len(e) : \A i \in (k + 1)..Len(e) : e[i] = 0}
<1>2. \A k : k \in kept <=> k \in Nat /\ k <= len /\ \A i \in Nat : k < i /\ i <= len => e[i] = 0
  <2>1. PICK l \in Nat : l = Len(e) /\ l = len
    BY <1>1 DEF Size
  <2>2. \A k : k \in kept <=> k \in 0..l /\ \A i \in (k + 1)..l : e[i] = 0
    BY <2>1
  <2> HIDE DEF kept
  <2> QED
    BY <2>1, <2>2
<1> HIDE DEF kept
<1>3. n \in kept
  BY <1>1, <1>2
<1>4. ASSUME NEW k \in kept PROVE n <= k
  <2>1. SUFFICES ASSUME k < n PROVE FALSE
    BY <1>2
  <2>2. e[n] = 0
    BY <1>1, <1>2, <2>1
  <2> QED
    BY <1>1, <2>2
<1>5. (CHOOSE m \in kept : \A k \in kept : m <= k) = n
  <2>1. PICK c : c = CHOOSE m \in kept : \A k \in kept : m <= k
    OBVIOUS
  <2>2. c \in kept /\ \A k \in kept : c <= k
    BY <1>3, <1>4, <2>1
  <2>3. c <= n /\ n <= c /\ c \in Nat
    BY <1>2, <1>3, <1>4, <2>2
  <2> QED
    BY <2>1, <2>3
<1>6. Stripped(e) = SubSeq(e, 1, n)
  BY <1>5 DEF Stripped, kept
<1>7. SubSeq(e, 1, n) = s
  <2>1. /\ SubSeq(e, 1, n) \in Seq(Byte) /\ Size(SubSeq(e, 1, n)) = n - 1 + 1
        /\ \A i \in Nat : 1 <= i /\ i <= n - 1 + 1 => SubSeq(e, 1, n)[i] = e[1 + i - 1]
    BY <1>1, Slice
  <2>2. /\ Size(SubSeq(e, 1, n)) = n
        /\ \A i \in Nat : 1 <= i /\ i <= n => SubSeq(e, 1, n)[i] = s[i]
    BY <1>1, <2>1
  <2> QED
    BY <1>1, <2>1, <2>2, Same
<1> QED
  BY <1>1, <1>6, <1>7

\* The constructors of Iccid and Imsi take the digits back.
LEMMA DigitsOk ==
  ASSUME NEW len \in Nat, NEW s, IsDigits(s, len)
  PROVE  Digits(s) /\ Len(s) >= 5
<1>1. s \in Seq(Byte) /\ DOMAIN s = 1..Len(s) /\ Len(s) \in Nat
  BY LenProperties DEF IsDigits
<1>2. \A i \in 1..Len(s) : s[i] \in 48..57
  BY <1>1 DEF IsDigits, Size
<1> QED
  BY <1>1, <1>2 DEF Digits, IsDigits, Size

\* Iccid.decode reads what Iccid.encode has written.
LEMMA IccidReads ==
  ASSUME NEW s, IsDigits(s, 20), NEW b, IsPart(b, encode_Digits(s, 20))
  PROVE  Reads(decode_Iccid(b), Size(b), 20, [type |-> 1, digits |-> s])
<1>1. encode_Digits(s, 20) \in Seq(Byte) /\ Size(encode_Digits(s, 20)) = 20
  BY DigitsBytes
<1>2. PICK n \in Nat : n = Size(b) /\ n <= 20 /\ b \in Seq(Byte)
  BY <1>1, SizeType DEF IsPart
<1>3. CASE n < 20
  <2>1. PICK x \in Nat : x = 20 - n /\ 1 <= x /\ n + x <= 20
    BY <1>3
  <2>2. Len(b) < 20 /\ 20 - Len(b) = x
    BY <1>2, <1>3, <2>1 DEF Size
  <2>3. decode_Iccid(b) = Partial(x)
    BY <2>2 DEF decode_Iccid
  <2> QED
    BY <1>2, <2>1, <2>3, ReadsPartial
<1>4. CASE n = 20
  <2>1. ~(Len(b) < 20) /\ ~(Len(b) > 20)
    BY <1>2, <1>4 DEF Size
  <2>2. b = encode_Digits(s, 20)
    BY <1>1, <1>2, <1>4, WholeSame
  <2>3. Stripped(b) = s
    BY <2>2, StrippedDigits
  <2>4. Digits(s) /\ Len(s) >= 5
    BY DigitsOk
  <2>5. decode_Iccid(b) = Ok([type |-> 1, digits |-> s])
    BY <2>1, <2>3, <2>4 DEF decode_Iccid
  <2> QED
    BY <1>2, <1>4, <2>5, ReadsOk
<1> QED
  BY <1>2, <1>3, <1>4

\* Imsi.decode reads what Imsi.encode has written.
LEMMA ImsiReads ==
  ASSUME NEW s, IsDigits(s, 15), NEW b, IsPart(b, encode_Digits(s, 15))
  PROVE  Reads(decode_Imsi(b), Size(b), 15, [type |-> 2, digits |-> s])
<1>1. encode_Digits(s, 15) \in Seq(Byte) /\ Size(encode_Digits(s, 15)) = 15
  BY DigitsBytes
<1>2. PICK n \in Nat : n = Size(b) /\ n <= 15 /\ b \in Seq(Byte)
  BY <1>1, SizeType DEF IsPart
<1>3. CASE n < 15
  <2>1. PICK x \in Nat : x = 15 - n /\ 1 <= x /\ n + x <= 15
    BY <1>3
  <2>2. Len(b) < 15 /\ 15 - Len(b) = x
    BY <1>2, <1>3, <2>1 DEF Size
  <2>3. decode_Imsi(b) = Partial(x)
    BY <2>2 DEF decode_Imsi
  <2> QED
    BY <1>2, <2>1, <2>3, ReadsPartial
<1>4. CASE n = 15
  <2>1. ~(Len(b) < 15) /\ ~(Len(b) > 15)
    BY <1>2, <1>4 DEF Size
  <2>2. b = encode_Digits(s, 15)
    BY <1>1, <1>2, <1>4, WholeSame
  <2>3. Stripped(b) = s
    BY <2>2, StrippedDigits
  <2>4. Digits(s) /\ Len(s) >= 5
    BY DigitsOk
  <2>5. decode_Imsi(b) = Ok([type |-> 2, digits |-> s])
    BY <2>1, <2>3, <2>4 DEF decode_Imsi
  <2> QED
    BY <1>2, <1>4, <2>5, ReadsOk
<1> QED
  BY <1>2, <1>3, <1>4

-----------------------------------------------------------------------------
\* Of the eight bytes a SIM's number is written in, the last four hold it.
LEMMA Pack8 ==
  ASSUME NEW x, Fits32(x), NEW s \in Seq(Byte), Size(s) = 4,
         \A i \in Nat : 1 <= i /\ i <= 4 => s[i] = Pack(x, 8)[4 + i]
  PROVE  Unpack(s) = x
<1>1. x \in Nat
  BY DEF Fits32
<1>2. /\ Pack(x, 8)[5] = (x \div 256^3) % 256 /\ Pack(x, 8)[6] = (x \div 256^2) % 256
      /\ Pack(x, 8)[7] = (x \div 256^1) % 256 /\ Pack(x, 8)[8] = (x \div 256^0) % 256
  BY <1>1 DEF Pack
<1>3. /\ Pack(x, 4)[1] = (x \div 256^3) % 256 /\ Pack(x, 4)[2] = (x \div 256^2) % 256
      /\ Pack(x, 4)[3] = (x \div 256^1) % 256 /\ Pack(x, 4)[4] = (x \div 256^0) % 256
  BY <1>1 DEF Pack
<1>4. s[1] = Pack(x, 8)[5] /\ s[2] = Pack(x, 8)[6] /\ s[3] = Pack(x, 8)[7] /\ s[4] = Pack(x, 8)[8]
  <2>1. /\ s[1] = Pack(x, 8)[4 + 1] /\ s[2] = Pack(x, 8)[4 + 2]
        /\ s[3] = Pack(x, 8)[4 + 3] /\ s[4] = Pack(x, 8)[4 + 4]
    <3> HIDE DEF Pack
    <3> QED OBVIOUS
  <2> QED
    BY <2>1
<1>5. s[1] = Pack(x, 4)[1] /\ s[2] = Pack(x, 4)[2] /\ s[3] = Pack(x, 4)[3] /\ s[4] = Pack(x, 4)[4]
  BY <1>2, <1>3, <1>4
<1>6. Pack(x, 4) \in Seq(Byte) /\ Size(Pack(x, 4)) = 4
  BY <1>1, PackType
<1>7. s = Pack(x, 4)
  <2>1. \A i \in Nat : 1 <= i /\ i <= Size(s) => s[i] = Pack(x, 4)[i]
    <3>1. \A i \in Nat : 1 <= i /\ i <= 4 => i = 1 \/ i = 2 \/ i = 3 \/ i = 4
      OBVIOUS
    <3> QED
      BY <1>5, <3>1
  <2>2. Size(s) = Size(Pack(x, 4))
    BY <1>6
  <2> QED
    BY <1>6, <2>1, <2>2, Same
<1> QED
  BY <1>7, Unpack4Pack

\* The fields of a SimId or SimIndex, and their bytes.
IsSim(p, x) == p \in Seq(Byte) /\ Size(p) = 16 /\ Fits32(x)
SimBytes(p, x) == Cat(p, Pack(x, 8))

\* Where SimId.decode and SimIndex.decode look for the provider and the number.
LEMMA SimSlices ==
  ASSUME NEW e \in Seq(Byte), Size(e) = 24
  PROVE  /\ SubSeq(e, 1, 16) \in Seq(Byte) /\ Size(SubSeq(e, 1, 16)) = 16
         /\ \A i \in Nat : 1 <= i /\ i <= 16 => SubSeq(e, 1, 16)[i] = e[i]
         /\ Rest(e, 21) \in Seq(Byte) /\ Size(Rest(e, 21)) = 4
         /\ \A i \in Nat : 1 <= i /\ i <= 4 => Rest(e, 21)[i] = e[20 + i]
<1>1. \A m \in Nat \ {0}, n \in Nat : m <= n /\ n <= Size(e) =>
         /\ SubSeq(e, m, n) \in Seq(Byte) /\ Size(SubSeq(e, m, n)) = n - m + 1
         /\ \A i \in Nat : 1 <= i /\ i <= n - m + 1 => SubSeq(e, m, n)[i] = e[m + i - 1]
  BY Slice
<1>2. /\ SubSeq(e, 1, 16) \in Seq(Byte) /\ Size(SubSeq(e, 1, 16)) = 16
      /\ \A i \in Nat : 1 <= i /\ i <= 16 => SubSeq(e, 1, 16)[i] = e[i]
  <2>1. PICK m \in Nat \ {0}, n \in Nat : m = 1 /\ n = 16 /\ m <= n /\ n <= Size(e)
    OBVIOUS
  <2>2. /\ SubSeq(e, m, n) \in Seq(Byte) /\ Size(SubSeq(e, m, n)) = n - m + 1
        /\ \A i \in Nat : 1 <= i /\ i <= n - m + 1 => SubSeq(e, m, n)[i] = e[m + i - 1]
    BY <1>1, <2>1
  <2>3. ASSUME NEW i \in Nat, 1 <= i, i <= 16 PROVE SubSeq(e, m, n)[i] = e[i]
    <3>1. m + i - 1 = i /\ i <= n - m + 1
      BY <2>1, <2>3
    <3> QED
      BY <2>2, <2>3, <3>1
  <2>4. n - m + 1 = 16
    BY <2>1
  <2> QED
    BY <2>1, <2>2, <2>3, <2>4
<1>3. /\ SubSeq(e, 21, 24) \in Seq(Byte) /\ Size(SubSeq(e, 21, 24)) = 4
      /\ \A i \in Nat : 1 <= i /\ i <= 4 => SubSeq(e, 21, 24)[i] = e[20 + i]
  <2>1. PICK m \in Nat \ {0}, n \in Nat : m = 21 /\ n = 24 /\ m <= n /\ n <= Size(e)
    OBVIOUS
  <2>2. /\ SubSeq(e, m, n) \in Seq(Byte) /\ Size(SubSeq(e, m, n)) = n - m + 1
        /\ \A i \in Nat : 1 <= i /\ i <= n - m + 1 => SubSeq(e, m, n)[i] = e[m + i - 1]
    BY <1>1, <2>1
  <2>3. ASSUME NEW i \in Nat, 1 <= i, i <= 4 PROVE SubSeq(e, m, n)[i] = e[20 + i]
    <3>1. m + i - 1 = 20 + i /\ i <= n - m + 1
      BY <2>1, <2>3
    <3> QED
      BY <2>2, <2>3, <3>1
  <2>4. n - m + 1 = 4
    BY <2>1
  <2> QED
    BY <2>1, <2>2, <2>3, <2>4
<1>4. Rest(e, 21) = SubSeq(e, 21, 24)
  <2>1. Len(e) = 24
    BY DEF Size
  <2> QED
    BY <2>1 DEF Rest
<1> QED
  BY <1>2, <1>3, <1>4

\* What they find there.
LEMMA SimFields ==
  ASSUME NEW p, NEW x, IsSim(p, x)
  PROVE  LET e == SimBytes(p, x)
         IN e \in Seq(Byte) /\ Size(e) = 24 /\ SubSeq(e, 1, 16) = p /\ Unpack(Rest(e, 21)) = x
<1>1. p \in Seq(Byte) /\ Size(p) = 16 /\ x \in Nat
  BY DEF IsSim, Fits32
<1>2. PICK k \in Seq(Byte) : k = Pack(x, 8) /\ Size(k) = 8
  BY <1>1, PackType
<1>3. PICK e \in Seq(Byte) : e = SimBytes(p, x) /\ e = Cat(p, k) /\ Size(e) = 24
  BY <1>1, <1>2, CatType DEF SimBytes
<1>4. /\ \A i \in Nat : 1 <= i /\ i <= 16 => e[i] = p[i]
      /\ \A i \in Nat : 1 <= i /\ i <= 8 => e[16 + i] = k[i]
  <2>1. \A i \in Nat : 1 <= i /\ i <= Size(p) => Cat(p, k)[i] = p[i]
    BY <1>1, CatLeft
  <2>2. \A i \in Nat : 1 <= i /\ i <= Size(k) => Cat(p, k)[Size(p) + i] = k[i]
    BY <1>1, CatAt
  <2> QED
    BY <1>1, <1>2, <1>3, <2>1, <2>2
<1>5. SubSeq(e, 1, 16) = p
  <2>1. PICK s \in Seq(Byte) : s = SubSeq(e, 1, 16) /\ Size(s) = 16 /\ \A i \in Nat : 1 <= i /\ i <= 16 => s[i] = e[i]
    BY <1>3, SimSlices
  <2>2. s = p
    <3>1. \A i \in Nat : 1 <= i /\ i <= Size(s) => s[i] = p[i]
      BY <1>4, <2>1
    <3>2. Size(s) = Size(p) /\ p \in Seq(Byte)
      BY <1>1, <2>1
    <3> QED
      BY <3>1, <3>2, Same
  <2> QED
    BY <2>1, <2>2
<1>6. Unpack(Rest(e, 21)) = x
  <2>1. PICK s \in Seq(Byte) : s = Rest(e, 21) /\ Size(s) = 4 /\ \A i \in Nat : 1 <= i /\ i <= 4 => s[i] = e[20 + i]
    BY <1>3, SimSlices
  <2>3. ASSUME NEW i \in Nat, 1 <= i, i <= 4 PROVE s[i] = Pack(x, 8)[4 + i]
    <3>1. PICK j \in Nat : j = 4 + i /\ 20 + i = 16 + j /\ 1 <= j /\ j <= 8
      BY <2>3
    <3> QED
      BY <1>2, <1>4, <2>1, <2>3, <3>1
  <2>4. Unpack(s) = x
    BY <2>1, <2>3, Pack8 DEF IsSim
  <2> QED
    BY <2>1, <2>4
<1> QED
  BY <1>3, <1>5, <1>6

\* SimId.decode and SimIndex.decode read what was encoded, for a number of 32
\* bits.
LEMMA SimReads ==
  ASSUME NEW p, NEW x, IsSim(p, x), NEW b, IsPart(b, SimBytes(p, x))
  PROVE  /\ Reads(decode_SimId(b), Size(b), 24, [type |-> 0, provider |-> p, number |-> x])
         /\ Reads(decode_SimIndex(b), Size(b), 24, [type |-> 3, provider |-> p, number |-> x])
<1>1. PICK e \in Seq(Byte) : /\ e = SimBytes(p, x) /\ Size(e) = 24
                             /\ SubSeq(e, 1, 16) = p /\ Unpack(Rest(e, 21)) = x
  BY SimFields
<1>2. PICK n \in Nat : n = Size(b) /\ n <= 24 /\ b \in Seq(Byte)
  BY <1>1, SizeType DEF IsPart
<1>3. CASE n < 24
  <2>1. PICK y \in Nat : y = 24 - n /\ 1 <= y /\ n + y <= 24
    BY <1>3
  <2>2. Len(b) < 24 /\ 24 - Len(b) = y
    BY <1>2, <1>3, <2>1 DEF Size
  <2>3. decode_SimId(b) = Partial(y) /\ decode_SimIndex(b) = Partial(y)
    BY <2>2 DEF decode_SimId, decode_SimIndex
  <2> QED
    BY <1>2, <2>1, <2>3, ReadsPartial
<1>4. CASE n = 24
  <2>1. ~(Len(b) < 24) /\ ~(Len(b) > 24)
    BY <1>2, <1>4 DEF Size
  <2>2. b = e
    BY <1>1, <1>2, <1>4, WholeSame
  <2>3. /\ decode_SimId(b) = Ok([type |-> 0, provider |-> p, number |-> x])
        /\ decode_SimIndex(b) = Ok([type |-> 3, provider |-> p, number |-> x])
    BY <1>1, <2>1, <2>2 DEF decode_SimId, decode_SimIndex
  <2> QED
    BY <1>2, <1>4, <2>3, ReadsOk
<1> QED
  BY <1>2, <1>3, <1>4

-----------------------------------------------------------------------------
\* An identifier, its bytes and its decoder.
IsIdent(x) ==
    \/ \E s : IsDigits(s, 20) /\ x = [type |-> 1, digits |-> s]
    \/ \E s : IsDigits(s, 15) /\ x = [type |-> 2, digits |-> s]
    \/ \E p, n : IsSim(p, n) /\ x = [type |-> 0, provider |-> p, number |-> n]
    \/ \E p, n : IsSim(p, n) /\ x = [type |-> 3, provider |-> p, number |-> n]

\* The bytes of an identifier, and the decoder of its type.
IdentBytes(x) ==
    IF x.type = 1 THEN encode_Digits(x.digits, 20)
    ELSE IF x.type = 2 THEN encode_Digits(x.digits, 15) ELSE encode_SimId(x)
decode_Ident(type, c) ==
    IF type = 0 THEN decode_SimId(c) ELSE IF type = 1 THEN decode_Iccid(c)
    ELSE IF type = 2 THEN decode_Imsi(c) ELSE decode_SimIndex(c)

\* Whatever an identifier is, its decoder reads what its encoder has written.
LEMMA IdentReads ==
  ASSUME NEW x, IsIdent(x)
  PROVE  /\ x.type \in {0, 1, 2, 3} /\ IdentBytes(x) \in Seq(Byte)
         /\ \A c : IsPart(c, IdentBytes(x)) =>
              Reads(decode_Ident(x.type, c), Size(c), Size(IdentBytes(x)), x)
<1>1. CASE \E s : IsDigits(s, 20) /\ x = [type |-> 1, digits |-> s]
  <2>1. PICK s : IsDigits(s, 20) /\ x = [type |-> 1, digits |-> s]
    BY <1>1
  <2>2. x.type = 1 /\ IdentBytes(x) = encode_Digits(s, 20)
    BY <2>1 DEF IdentBytes
  <2>3. encode_Digits(s, 20) \in Seq(Byte) /\ Size(encode_Digits(s, 20)) = 20
    BY <2>1, DigitsBytes
  <2>4. ASSUME NEW c, IsPart(c, encode_Digits(s, 20)) PROVE Reads(decode_Ident(1, c), Size(c), 20, x)
    <3>1. Reads(decode_Iccid(c), Size(c), 20, [type |-> 1, digits |-> s])
      BY <2>1, <2>4, IccidReads
    <3> QED
      BY <2>1, <3>1 DEF decode_Ident
  <2> QED
    BY <2>2, <2>3, <2>4
<1>2. CASE \E s : IsDigits(s, 15) /\ x = [type |-> 2, digits |-> s]
  <2>1. PICK s : IsDigits(s, 15) /\ x = [type |-> 2, digits |-> s]
    BY <1>2
  <2>2. x.type = 2 /\ IdentBytes(x) = encode_Digits(s, 15)
    BY <2>1 DEF IdentBytes
  <2>3. encode_Digits(s, 15) \in Seq(Byte) /\ Size(encode_Digits(s, 15)) = 15
    BY <2>1, DigitsBytes
  <2>4. ASSUME NEW c, IsPart(c, encode_Digits(s, 15)) PROVE Reads(decode_Ident(2, c), Size(c), 15, x)
    <3>1. Reads(decode_Imsi(c), Size(c), 15, [type |-> 2, digits |-> s])
      BY <2>1, <2>4, ImsiReads
    <3> QED
      BY <2>1, <3>1 DEF decode_Ident
  <2> QED
    BY <2>2, <2>3, <2>4
<1>3. ASSUME NEW p, NEW n, NEW t \in {0, 3}, IsSim(p, n), x = [type |-> t, provider |-> p, number |-> n]
      PROVE  /\ x.type \in {0, 1, 2, 3} /\ IdentBytes(x) \in Seq(Byte)
             /\ \A c : IsPart(c, IdentBytes(x)) =>
                  Reads(decode_Ident(x.type, c), Size(c), Size(IdentBytes(x)), x)
  <2>1. x.type = t /\ x.provider = p /\ x.number = n
    BY <1>3
  <2>2. encode_SimId(x) = SimBytes(p, n)
    BY <2>1 DEF encode_SimId, SimBytes, Cat
  <2>3. IdentBytes(x) = SimBytes(p, n)
    BY <2>1, <2>2 DEF IdentBytes
  <2>4. SimBytes(p, n) \in Seq(Byte) /\ Size(SimBytes(p, n)) = 24
    BY <1>3, SimFields
  <2>5. ASSUME NEW c, IsPart(c, SimBytes(p, n)) PROVE Reads(decode_Ident(t, c), Size(c), 24, x)
    <3>1. /\ Reads(decode_SimId(c), Size(c), 24, [type |-> 0, provider |-> p, number |-> n])
          /\ Reads(decode_SimIndex(c), Size(c), 24, [type |-> 3, provider |-> p, number |-> n])
      BY <1>3, <2>5, SimReads
    <3> QED
      BY <1>3, <3>1 DEF decode_Ident
  <2> QED
    BY <2>1, <2>3, <2>4, <2>5
<1> QED
  BY <1>1, <1>2, <1>3 DEF IsIdent

\* ConnectRequest.decode asks for its header first.
LEMMA ConnectShort ==
  ASSUME NEW b, Len(b) < 3
  PROVE  decode_ConnectRequest(b) = Partial(3 - Len(b))
BY DEF decode_ConnectRequest

\* ConnectRequest.decode, when it has a good header: the identifier's decoder
\* decides.
LEMMA ConnectStep ==
  ASSUME NEW b, ~(Len(b) < 3), b[1] = 1, b[2] \in Flags, b[3] \in {0, 1, 2, 3}, NEW d, d = decode_Ident(b[3], Rest(b, 4))
  PROVE  decode_ConnectRequest(b) = IF d.tag # "ok" THEN d ELSE Ok([flags |-> b[2], identifier |-> d.message])
BY DEF decode_ConnectRequest, decode_Ident

\* What ConnectRequest.encode writes.
LEMMA ConnectBytes ==
  ASSUME NEW f \in Flags, NEW x, IsIdent(x)
  PROVE  encode_ConnectRequest([flags |-> f, identifier |-> x]) = Cat(Three(1, f, x.type), IdentBytes(x))
<1>1. x.type \in {0, 1, 2, 3}
  BY IdentReads
<1> QED
  BY <1>1 DEF encode_ConnectRequest, IdentBytes, Cat, Three

\* ConnectRequest.decode reads what ConnectRequest.encode has written, for every
\* kind of identifier: of any part, it asks for no more than is missing, and of
\* the whole it returns the request.
THEOREM ConnectRequestReads ==
  ASSUME NEW f \in Flags, NEW x, IsIdent(x), NEW b,
         IsPart(b, encode_ConnectRequest([flags |-> f, identifier |-> x]))
  PROVE  LET m == [flags |-> f, identifier |-> x]
         IN /\ encode_ConnectRequest(m) \in Seq(Byte) /\ 3 <= Size(encode_ConnectRequest(m))
            /\ Reads(decode_ConnectRequest(b), Size(b), Size(encode_ConnectRequest(m)), m)
<1> DEFINE m == [flags |-> f, identifier |-> x]
<1>1. PICK t \in {0, 1, 2, 3}, q \in Seq(Byte) :
        /\ t = x.type /\ q = IdentBytes(x)
        /\ \A c : IsPart(c, q) => Reads(decode_Ident(t, c), Size(c), Size(q), x)
  BY IdentReads
<1>2. f \in Byte /\ t \in Byte /\ 1 \in Byte
  BY <1>1, ByteFacts DEF Flags
<1>3. PICK h \in Seq(Byte) : h = Three(1, f, t) /\ Size(h) = 3 /\ h[1] = 1 /\ h[2] = f /\ h[3] = t
  BY <1>2, Triple
<1>4. PICK l \in Nat : l = Size(q)
  BY <1>1, SizeType
<1>5. PICK e \in Seq(Byte) : e = Cat(h, q) /\ Size(e) = 3 + l
  BY <1>3, <1>4, CatType
<1>6. encode_ConnectRequest(m) = e
  BY <1>1, <1>3, <1>5, ConnectBytes
<1>7. IsPart(b, Cat(h, q))
  BY <1>5, <1>6
<1>8. PICK n \in Nat : n = Size(b) /\ n <= 3 + l
  BY <1>5, <1>7, SizeType DEF IsPart
<1> HIDE DEF m
<1>9. CASE n < 3
  <2>1. PICK y \in Nat : y = 3 - n /\ 1 <= y /\ n + y <= 3 + l
    BY <1>9
  <2>2. Len(b) < 3 /\ 3 - Len(b) = y
    BY <1>8, <1>9, <2>1 DEF Size
  <2>3. decode_ConnectRequest(b) = Partial(y)
    BY <2>2, ConnectShort
  <2>4. Reads(Partial(y), n, 3 + l, m)
    BY <2>1, ReadsPartial
  <2> QED
    BY <1>5, <1>6, <1>8, <2>3, <2>4 DEF m
<1>10. CASE ~(n < 3)
  <2>1. Size(h) <= Size(b)
    BY <1>3, <1>8, <1>10
  <2>2. \A i \in Nat : 1 <= i /\ i <= Size(h) => b[i] = h[i]
    BY <1>7, <2>1, HeadPart
  <2>3. b[1] = 1 /\ b[2] = f /\ b[3] = t
    BY <1>3, <2>2
  <2>4. \A i : i = Size(h) + 1 => IsPart(Rest(b, i), q) /\ Size(Rest(b, i)) = Size(b) - Size(h)
    BY <1>7, <2>1, RestPart
  <2>5. PICK c : c = Rest(b, 4) /\ IsPart(c, q) /\ Size(c) = n - 3
    BY <1>3, <1>8, <2>4
  <2>6. PICK k \in Nat : k = n - 3 /\ k <= l
    BY <1>8, <1>10
  <2>7. PICK d : d = decode_Ident(t, c) /\ Reads(d, k, l, x)
    BY <1>1, <1>4, <2>5, <2>6
  <2>8. ~(Len(b) < 3)
    BY <1>8, <1>10 DEF Size
  <2>9. decode_ConnectRequest(b) = IF d.tag # "ok" THEN d ELSE Ok([flags |-> f, identifier |-> d.message])
    BY <1>1, <2>3, <2>5, <2>7, <2>8, ConnectStep
  <2>10. CASE k < l
    <3>1. PICK y \in Nat : 1 <= y /\ k + y <= l /\ d = Partial(y)
      BY <2>7, <2>10 DEF Reads
    <3>2. d.tag # "ok"
      BY <3>1 DEF Partial
    <3>3. n + y <= 3 + l
      BY <2>6, <3>1
    <3>4. Reads(Partial(y), n, 3 + l, m)
      BY <3>1, <3>3, ReadsPartial
    <3> QED
      BY <1>5, <1>6, <1>8, <2>9, <3>1, <3>2, <3>4 DEF m
  <2>11. CASE ~(k < l)
    <3>1. d = Ok(x) /\ d.tag = "ok" /\ d.message = x
      BY <2>7, <2>11 DEF Reads, Ok
    <3>2. decode_ConnectRequest(b) = Ok(m)
      BY <2>9, <3>1 DEF m
    <3>3. n = 3 + l
      BY <2>6, <2>11
    <3>4. Reads(Ok(m), n, n, m)
      BY ReadsOk
    <3> QED
      BY <1>5, <1>6, <1>8, <3>2, <3>3, <3>4 DEF m
  <2> QED
    BY <2>10, <2>11
<1> QED
  BY <1>9, <1>10

-----------------------------------------------------------------------------
(***************************************************************************)
(* The streams of a client                                                 *)
(***************************************************************************)

\* The identifiers the clients ask for are those of the decoders' lemmas.
LEMMA IdentsAre ==
  ASSUME NEW x, IsIdentifier(x)
  PROVE  IsIdent(x)
<1>1. CASE x.type \in {1, 2} /\ x = [type |-> x.type, digits |-> x.digits]
           /\ x.digits \in Seq(48..57) /\ Len(x.digits) \in 5..(IF x.type = 1 THEN 20 ELSE 15)
  <2>1. PICK s \in Seq(48..57), t \in {1, 2} : s = x.digits /\ t = x.type /\ x = [type |-> t, digits |-> s]
    BY <1>1
  <2>2. \A i \in 1..Len(s) : s[i] \in 48..57
    OBVIOUS
  <2>3. s \in [1..Len(s) -> Byte] /\ Len(s) \in Nat
    <3>1. s \in [1..Len(s) -> 48..57] /\ Len(s) \in Nat
      BY LenProperties
    <3> QED
      BY <2>2, <3>1, Digit
  <2>4. s \in Seq(Byte)
    BY <2>3
  <2>5. 5 <= Size(s) /\ Size(s) <= (IF t = 1 THEN 20 ELSE 15)
    BY <1>1, <2>1 DEF Size
  <2>6. \A i \in Nat : 1 <= i /\ i <= Size(s) => s[i] \in 48..57
    BY <2>2, <2>3 DEF Size
  <2> QED
    BY <2>1, <2>4, <2>5, <2>6 DEF IsIdent, IsDigits
<1>2. CASE x.type \in {0, 3} /\ x = [type |-> x.type, provider |-> x.provider, number |-> x.number]
           /\ x.provider \in Seq(0..255) /\ Len(x.provider) = 16
           /\ x.number \in Nat /\ x.number \div 65536 < 65536
  <2>1. Fits32(x.number)
    BY <1>2 DEF Fits32
  <2>2. x.provider \in Seq(Byte) /\ Size(x.provider) = 16
    BY <1>2 DEF Byte, Size
  <2>3. IsSim(x.provider, x.number)
    BY <2>1, <2>2 DEF IsSim
  <2> QED
    BY <1>2, <2>3 DEF IsIdent
<1> QED
  BY <1>1, <1>2 DEF IsIdentifier

\* What the assumption says of the constants, in the terms of the lemmas.
LEMMA Constants ==
  /\ Token \in Token16
  /\ \A p \in Payloads : p \in Packet
  /\ \A x \in Idents : IsIdent(x)
<1>1. Token \in Token16
  BY ClientAssumption DEF Token16, Byte, Size
<1>2. ASSUME NEW p \in Payloads PROVE p \in Packet
  <2>1. p \in [op : ApduOps, payload : Seq(0..255)] /\ Len(p.payload) < 1024
    BY ClientAssumption
  <2> QED
    BY <2>1 DEF Packet, Byte, Size
<1>3. \A x \in Idents : IsIdent(x)
  BY ClientAssumption, IdentsAre
<1> QED
  BY <1>1, <1>2, <1>3

-----------------------------------------------------------------------------
\* What the server means with garbage.
Garbled == [garbage |-> TRUE]

\* The garbage of another version.
LEMMA GarbageBytes ==
  Garbage \in Seq(Byte) /\ Size(Garbage) = 6 /\ Garbage[1] = 2
<1>1. 0 \in Byte /\ 1 \in Byte /\ 2 \in Byte
  BY ByteFacts
<1> QED
  BY <1>1 DEF Garbage, Size

\* What a decoder returns of n bytes of a message m of len bytes, if it may be
\* garbage.
Outcome(d, n, len, m) ==
    \/ d.tag = "partial" /\ d.missing \in Nat /\ 1 <= d.missing /\ n + d.missing <= len
    \/ d.tag = "ok" /\ d.message = m /\ n = len
    \/ d.tag = "malformed" /\ m = Garbled

\* A decoder that reads a message has one of its outcomes.
LEMMA ReadsOutcome ==
  ASSUME NEW d, NEW n \in Nat, NEW len \in Nat, NEW m, Reads(d, n, len, m), n <= len
  PROVE  Outcome(d, n, len, m)
<1>1. CASE n < len
  <2>1. PICK x \in Nat : 1 <= x /\ n + x <= len /\ d = Partial(x)
    BY <1>1 DEF Reads
  <2>2. d.tag = "partial" /\ d.missing = x
    BY <2>1 DEF Partial
  <2> QED
    BY <2>1, <2>2 DEF Outcome
<1>2. CASE n = len
  <2>1. d = Ok(m)
    BY <1>2 DEF Reads
  <2> QED
    BY <1>2, <2>1 DEF Outcome, Ok
<1> QED
  BY <1>1, <1>2

\* Asking for more is such an outcome.
LEMMA PartialOutcome ==
  ASSUME NEW n \in Nat, NEW len \in Nat, NEW x \in Nat, 1 <= x, n + x <= len, NEW m
  PROVE  Outcome(Partial(x), n, len, m)
BY DEF Outcome, Partial

\* Every decoder of a client asks for more of the garbage or calls it malformed.
LEMMA GarbageOutcome ==
  ASSUME NEW b, IsPart(b, Garbage)
  PROVE  /\ Outcome(decode_AuthResponse(b), Size(b), 6, Garbled)
         /\ Outcome(decode_ConnectResponse(b), Size(b), 6, Garbled)
         /\ Outcome(decode_ConnectRequest(b), Size(b), 6, Garbled)
         /\ Outcome(decode_ApduPacket(b), Size(b), 6, Garbled)
<1>1. PICK n \in Nat : n = Size(b) /\ n <= 6 /\ (1 <= n => b[1] = 2)
  BY GarbageBytes, SizeType DEF IsPart
<1>2. Outcome(Malformed, n, 6, Garbled)
  BY DEF Outcome, Malformed
<1>3. ASSUME NEW k \in Nat, k <= 6, n < k PROVE Outcome(Partial(k - n), n, 6, Garbled)
  <2>1. PICK x \in Nat : x = k - n /\ 1 <= x /\ n + x <= 6
    BY <1>3
  <2> QED
    BY <2>1, PartialOutcome
<1>4. /\ Outcome(decode_AuthResponse(b), n, 6, Garbled)
      /\ Outcome(decode_ConnectResponse(b), n, 6, Garbled)
  <2>1. CASE n < 2
    <3>1. Len(b) < 2 /\ 2 - Len(b) = 2 - n
      BY <1>1, <2>1 DEF Size
    <3>2. decode_AuthResponse(b) = Partial(2 - n) /\ decode_ConnectResponse(b) = Partial(2 - n)
      BY <3>1 DEF decode_AuthResponse, decode_ConnectResponse
    <3> QED
      BY <1>3, <2>1, <3>2
  <2>2. CASE ~(n < 2)
    <3>1. ~(Len(b) < 2) /\ ~(b[1] = 1)
      BY <1>1, <2>2 DEF Size
    <3>2. decode_AuthResponse(b) = Malformed /\ decode_ConnectResponse(b) = Malformed
      BY <3>1 DEF decode_AuthResponse, decode_ConnectResponse
    <3> QED
      BY <1>2, <3>2
  <2> QED
    BY <2>1, <2>2
<1>5. Outcome(decode_ConnectRequest(b), n, 6, Garbled)
  <2>1. CASE n < 3
    <3>1. Len(b) < 3 /\ 3 - Len(b) = 3 - n
      BY <1>1, <2>1 DEF Size
    <3>2. decode_ConnectRequest(b) = Partial(3 - n)
      BY <3>1, ConnectShort
    <3> QED
      BY <1>3, <2>1, <3>2
  <2>2. CASE ~(n < 3)
    <3>1. ~(Len(b) < 3) /\ b[1] # 1
      BY <1>1, <2>2 DEF Size
    <3>2. decode_ConnectRequest(b) = Malformed
      BY <3>1 DEF decode_ConnectRequest
    <3> QED
      BY <1>2, <3>2
  <2> QED
    BY <2>1, <2>2
<1>6. Outcome(decode_ApduPacket(b), n, 6, Garbled)
  <2>1. CASE n < 6
    <3>1. Len(b) < 6 /\ 6 - Len(b) = 6 - n
      BY <1>1, <2>1 DEF Size
    <3>2. decode_ApduPacket(b) = Partial(6 - n)
      BY <3>1, ApduShort
    <3> QED
      BY <1>3, <2>1, <3>2
  <2>2. CASE ~(n < 6)
    <3>1. ~(Len(b) < 6) /\ b[1] # 1
      BY <1>1, <2>2 DEF Size
    <3>2. decode_ApduPacket(b) = Malformed
      BY <3>1 DEF decode_ApduPacket
    <3> QED
      BY <1>2, <3>2
  <2> QED
    BY <2>1, <2>2
<1> QED
  BY <1>1, <1>4, <1>5, <1>6

-----------------------------------------------------------------------------
Roles == {"probe", "provider"}

\* The messages of either side.
AuthMessages == {[authType |-> t, token |-> Token] : t \in AuthTypes}
StatusMessages == {[status |-> s] : s \in ConnectStatuses}
RequestMessages == {[flags |-> f, identifier |-> x] : f \in Flags, x \in Idents}
Messages == AuthMessages \cup StatusMessages \cup RequestMessages \cup Payloads \cup {Garbled}

\* The message m may be the k-th of the server to a client, and e its bytes.
IsDown(k, r, m, e) ==
    \/ m = Garbled /\ e = Garbage
    \/ k = 1 /\ \E s \in AuthStatuses : m = [status |-> s] /\ e = encode_Response(m)
    \/ k = 2 /\ r = "probe" /\ m \in StatusMessages /\ e = encode_Response(m)
    \/ k = 2 /\ r = "provider" /\ m \in RequestMessages /\ e = encode_ConnectRequest(m)
    \/ k >= 3 /\ m \in Payloads /\ e = encode_ApduPacket(m)

\* The decoder a client uses for it.
DecodeAt(k, r, b) ==
    IF k = 1 THEN decode_AuthResponse(b)
    ELSE IF k = 2 THEN IF r = "probe" THEN decode_ConnectResponse(b) ELSE decode_ConnectRequest(b)
    ELSE decode_ApduPacket(b)

\* A part is no longer than its message.
LEMMA PartSize ==
  ASSUME NEW b, NEW e, IsPart(b, e)
  PROVE  Size(b) \in Nat /\ Size(e) \in Nat /\ Size(b) <= Size(e)
BY SizeType DEF IsPart

\* A client's decoder reads what the server says, whichever message is due.
LEMMA DownReads ==
  ASSUME NEW k \in Nat, 1 <= k, NEW r \in Roles, NEW m, NEW e, IsDown(k, r, m, e)
  PROVE  /\ e \in Seq(Byte) /\ 1 <= Size(e) /\ m \in Messages
         /\ \A b : IsPart(b, e) => Outcome(DecodeAt(k, r, b), Size(b), Size(e), m)
<1>1. CASE m = Garbled /\ e = Garbage
  <2>1. m \in Messages /\ e \in Seq(Byte) /\ Size(e) = 6
    BY <1>1, GarbageBytes DEF Messages
  <2>2. ASSUME NEW b, IsPart(b, e) PROVE Outcome(DecodeAt(k, r, b), Size(b), 6, m)
    BY <1>1, <2>2, GarbageOutcome DEF DecodeAt
  <2> QED
    BY <2>1, <2>2
<1>2. CASE k = 1 /\ \E s \in AuthStatuses : m = [status |-> s] /\ e = encode_Response(m)
  <2>1. PICK s \in AuthStatuses : m = [status |-> s] /\ e = encode_Response([status |-> s])
    BY <1>2
  <2>2. s \in ConnectStatuses
    BY DEF AuthStatuses, ConnectStatuses
  <2>3. m \in Messages
    BY <2>1, <2>2 DEF Messages, StatusMessages
  <2>4. e \in Seq(Byte) /\ Size(e) = 2
    BY <2>1, <2>2, ResponseBytes
  <2>5. ASSUME NEW b, IsPart(b, e) PROVE Outcome(DecodeAt(k, r, b), Size(b), 2, m)
    <3>1. Reads(decode_AuthResponse(b), Size(b), 2, m)
      BY <2>1, <2>5, AuthResponseReads
    <3>2. Size(b) \in Nat /\ Size(b) <= 2
      BY <2>4, <2>5, PartSize
    <3>3. DecodeAt(k, r, b) = decode_AuthResponse(b)
      BY <1>2 DEF DecodeAt
    <3> QED
      BY <3>1, <3>2, <3>3, ReadsOutcome
  <2> QED
    BY <2>3, <2>4, <2>5
<1>3. CASE k = 2 /\ r = "probe" /\ m \in StatusMessages /\ e = encode_Response(m)
  <2>1. PICK s \in ConnectStatuses : m = [status |-> s] /\ e = encode_Response([status |-> s])
    BY <1>3 DEF StatusMessages
  <2>3. m \in Messages
    BY <1>3 DEF Messages
  <2>4. e \in Seq(Byte) /\ Size(e) = 2
    BY <2>1, ResponseBytes
  <2>5. ASSUME NEW b, IsPart(b, e) PROVE Outcome(DecodeAt(k, r, b), Size(b), 2, m)
    <3>1. Reads(decode_ConnectResponse(b), Size(b), 2, m)
      BY <2>1, <2>5, ConnectResponseReads
    <3>2. Size(b) \in Nat /\ Size(b) <= 2
      BY <2>4, <2>5, PartSize
    <3>3. DecodeAt(k, r, b) = decode_ConnectResponse(b)
      BY <1>3 DEF DecodeAt
    <3> QED
      BY <3>1, <3>2, <3>3, ReadsOutcome
  <2> QED
    BY <2>3, <2>4, <2>5
<1>4. CASE k = 2 /\ r = "provider" /\ m \in RequestMessages /\ e = encode_ConnectRequest(m)
  <2>1. PICK f \in Flags, x \in Idents : m = [flags |-> f, identifier |-> x]
    BY <1>4 DEF RequestMessages
  <2>2. IsIdent(x)
    BY Constants
  <2>3. m \in Messages
    BY <1>4 DEF Messages
  <2>4. ASSUME NEW b, IsPart(b, e)
        PROVE  /\ e \in Seq(Byte) /\ 3 <= Size(e)
               /\ Reads(decode_ConnectRequest(b), Size(b), Size(e), m)
    BY <1>4, <2>1, <2>2, <2>4, ConnectRequestReads
  <2>5. e \in Seq(Byte) /\ 1 <= Size(e)
    <3>1. x.type \in {0, 1, 2, 3} /\ IdentBytes(x) \in Seq(Byte)
      BY <2>2, IdentReads
    <3>2. f \in Byte /\ x.type \in Byte /\ 1 \in Byte
      <4>1. \A i \in {0, 1, 2, 3} : i \in Byte
        BY ByteFacts
      <4>2. f \in {0, 1, 2, 3} /\ 1 \in {0, 1, 2, 3}
        BY DEF Flags
      <4> QED
        BY <3>1, <4>1, <4>2
    <3>3. Three(1, f, x.type) \in Seq(Byte)
      BY <3>2, Triple
    <3>4. e = Cat(Three(1, f, x.type), IdentBytes(x))
      BY <1>4, <2>1, <2>2, ConnectBytes
    <3>5. e \in Seq(Byte)
      BY <3>1, <3>3, <3>4, CatType
    <3>6. IsPart(e, e)
      BY <3>5, Whole
    <3>7. 3 <= Size(e)
      BY <2>4, <3>6
    <3>8. PICK n \in Nat : n = Size(e)
      BY <3>5, SizeType
    <3>9. 1 <= n
      BY <3>7, <3>8
    <3> QED
      BY <3>5, <3>8, <3>9
  <2>6. ASSUME NEW b, IsPart(b, e) PROVE Outcome(DecodeAt(k, r, b), Size(b), Size(e), m)
    <3>1. Size(b) \in Nat /\ Size(e) \in Nat /\ Size(b) <= Size(e)
      BY <2>6, PartSize
    <3>2. DecodeAt(k, r, b) = decode_ConnectRequest(b)
      BY <1>4 DEF DecodeAt
    <3> QED
      BY <2>4, <2>6, <3>1, <3>2, ReadsOutcome
  <2> QED
    BY <2>3, <2>5, <2>6
<1>5. CASE k >= 3 /\ m \in Payloads /\ e = encode_ApduPacket(m)
  <2>1. m \in Packet /\ m \in Messages
    BY <1>5, Constants DEF Messages
  <2>2. PICK h \in Seq(Byte), j \in Seq(Byte), q \in Seq(Byte) : e = Cat(Cat(h, j), q) /\ Size(h) = 2 /\ Size(j) = 4
    BY <1>5, <2>1, ApduBytes
  <2>3. Cat(h, j) \in Seq(Byte) /\ Size(Cat(h, j)) = 6 /\ Size(q) \in Nat
    BY <2>2, CatType, SizeType
  <2>4. e \in Seq(Byte) /\ Size(e) = 6 + Size(q)
    BY <2>2, <2>3, CatType
  <2>5. 1 <= Size(e)
    BY <2>3, <2>4
  <2>6. ASSUME NEW b, IsPart(b, e) PROVE Outcome(DecodeAt(k, r, b), Size(b), Size(e), m)
    <3>1. Size(b) \in Nat /\ Size(e) \in Nat /\ Size(b) <= Size(e)
      BY <2>6, PartSize
    <3>2. DecodeAt(k, r, b) = decode_ApduPacket(b)
      BY <1>5 DEF DecodeAt
    <3>3. Reads(decode_ApduPacket(b), Size(b), Size(e), m)
      BY <1>5, <2>1, <2>6, ApduReads
    <3> QED
      BY <3>1, <3>2, <3>3, ReadsOutcome
  <2> QED
    BY <2>1, <2>4, <2>5, <2>6
<1> QED
  BY <1>1, <1>2, <1>3, <1>4, <1>5 DEF IsDown

\* A decoder that has been given nothing asks for something.
LEMMA NothingRead ==
  ASSUME NEW k \in Nat, 1 <= k, NEW r \in Roles
  PROVE  LET d == DecodeAt(k, r, <<>>) IN d.tag = "partial" /\ d.missing \in Nat /\ 1 <= d.missing
<1>1. Len(<<>>) < 2 /\ Len(<<>>) < 3 /\ Len(<<>>) < 6 /\ Len(<<>>) = 0
  OBVIOUS
<1>2. decode_AuthResponse(<<>>) = Partial(2)
  BY DEF decode_AuthResponse
<1>3. decode_ConnectResponse(<<>>) = Partial(2)
  BY DEF decode_ConnectResponse
<1>4. decode_ConnectRequest(<<>>) = Partial(3)
  BY DEF decode_ConnectRequest
<1>5. decode_ApduPacket(<<>>) = Partial(6)
  BY DEF decode_ApduPacket
<1>6. \A x \in {2, 3, 6} : Partial(x).tag = "partial" /\ Partial(x).missing \in Nat /\ 1 <= Partial(x).missing
  BY DEF Partial
<1> QED
  BY <1>2, <1>3, <1>4, <1>5, <1>6 DEF DecodeAt

\* The message m may be the k-th of a client to the server, and e its bytes.
IsSent(k, r, m, e) ==
    \/ k = 1 /\ m \in AuthMessages /\ e = encode_AuthRequest(m)
    \/ k = 2 /\ r = "probe" /\ m \in RequestMessages /\ e = encode_ConnectRequest(m)
    \/ k = 2 /\ r = "provider" /\ m \in StatusMessages /\ e = encode_Response(m)
    \/ k >= 3 /\ m \in Payloads /\ e = encode_ApduPacket(m)

\* The server's decoders return what a client has sent.
LEMMA UpReads ==
  ASSUME NEW k \in Nat, 1 <= k, NEW r \in Roles, NEW m, NEW e, IsSent(k, r, m, e)
  PROVE  /\ m \in Messages
         /\ k = 1 => decode_AuthRequest(e) = Ok(m)
         /\ k = 2 /\ r = "probe" => decode_ConnectRequest(e) = Ok(m)
         /\ k = 2 /\ r = "provider" => decode_ConnectResponse(e) = Ok(m)
         /\ k >= 3 => decode_ApduPacket(e) = Ok(m)
<1>1. CASE k = 1 /\ m \in AuthMessages /\ e = encode_AuthRequest(m)
  <2>1. PICK t \in AuthTypes : m = [authType |-> t, token |-> Token]
    BY <1>1 DEF AuthMessages
  <2>2. decode_AuthRequest(e) = Ok(m)
    BY <1>1, <2>1, Constants, AuthRequestWhole
  <2> QED
    BY <1>1, <2>2 DEF Messages
<1>2. CASE k = 2 /\ r = "probe" /\ m \in RequestMessages /\ e = encode_ConnectRequest(m)
  <2>1. IsDown(2, "provider", m, e)
    BY <1>2 DEF IsDown
  <2>2. e \in Seq(Byte)
    BY <2>1, DownReads DEF Roles
  <2>3. PICK f \in Flags, x \in Idents : m = [flags |-> f, identifier |-> x]
    BY <1>2 DEF RequestMessages
  <2>4. IsIdent(x) /\ IsPart(e, e)
    BY <2>2, Constants, Whole
  <2>5. Reads(decode_ConnectRequest(e), Size(e), Size(e), m)
    BY <1>2, <2>3, <2>4, ConnectRequestReads
  <2>6. decode_ConnectRequest(e) = Ok(m)
    BY <2>2, <2>5, SizeType DEF Reads
  <2> QED
    BY <1>2, <2>6 DEF Messages
<1>3. CASE k = 2 /\ r = "provider" /\ m \in StatusMessages /\ e = encode_Response(m)
  <2>1. PICK s \in ConnectStatuses : m = [status |-> s] /\ e = encode_Response([status |-> s])
    BY <1>3 DEF StatusMessages
  <2>2. e \in Seq(Byte) /\ Size(e) = 2
    BY <2>1, ResponseBytes
  <2>3. IsPart(e, encode_Response([status |-> s]))
    BY <2>1, <2>2, Whole
  <2>4. Reads(decode_ConnectResponse(e), 2, 2, m)
    BY <2>1, <2>2, <2>3, ConnectResponseReads
  <2>5. decode_ConnectResponse(e) = Ok(m)
    BY <2>4 DEF Reads
  <2> QED
    BY <1>3, <2>5 DEF Messages
<1>4. CASE k >= 3 /\ m \in Payloads /\ e = encode_ApduPacket(m)
  <2>1. IsDown(k, r, m, e)
    BY <1>4 DEF IsDown
  <2>2. e \in Seq(Byte) /\ m \in Messages
    BY <2>1, DownReads
  <2>3. m \in Packet /\ IsPart(e, e)
    BY <1>4, <2>2, Constants, Whole
  <2>4. Reads(decode_ApduPacket(e), Size(e), Size(e), m)
    BY <1>4, <2>3, ApduReads
  <2>5. decode_ApduPacket(e) = Ok(m)
    BY <2>2, <2>4, SizeType DEF Reads
  <2> QED
    BY <1>4, <2>2, <2>5
<1> QED
  BY <1>1, <1>2, <1>3, <1>4 DEF IsSent

-----------------------------------------------------------------------------
(* Bytes under way                                                         *)

\* Byte strings can be joined in any order.
LEMMA CatAssoc ==
  \A a, b, c \in Seq(Byte) : Cat(Cat(a, b), c) = Cat(a, Cat(b, c))
BY ConcatAssociative DEF Cat

\* Nothing joined to a byte string.
LEMMA CatNothing ==
  \A a \in Seq(Byte) : Cat(<<>>, a) = a /\ Cat(a, <<>>) = a
BY ConcatEmptySeq DEF Cat

\* The empty byte string.
LEMMA Nothing == <<>> \in Seq(Byte) /\ Size(<<>>) = 0
BY DEF Size

\* A byte string that is cut in two, as RawStream cuts its buffer.
LEMMA Split ==
  ASSUME NEW s \in Seq(Byte), NEW n \in Nat, n <= Size(s)
  PROVE  /\ SubSeq(s, 1, n) \in Seq(Byte) /\ Size(SubSeq(s, 1, n)) = n
         /\ SubSeq(s, n + 1, Len(s)) \in Seq(Byte) /\ Cat(SubSeq(s, 1, n), SubSeq(s, n + 1, Len(s))) = s
<1>1. PICK l \in Nat : l = Size(s) /\ l = Len(s) /\ n <= l
  BY SizeType DEF Size
<1>2. PICK a \in Seq(Byte) : a = SubSeq(s, 1, n) /\ Size(a) = n /\ \A i \in Nat : 1 <= i /\ i <= n => a[i] = s[i]
  <2>1. /\ SubSeq(s, 1, n) \in Seq(Byte) /\ Size(SubSeq(s, 1, n)) = n - 1 + 1
        /\ \A i \in Nat : 1 <= i /\ i <= n - 1 + 1 => SubSeq(s, 1, n)[i] = s[1 + i - 1]
    <3>1. 1 \in Nat \ {0} /\ 1 <= n + 1
      OBVIOUS
    <3> QED
      BY <3>1, Slice
  <2>2. \A i \in Nat : 1 + i - 1 = i
    OBVIOUS
  <2>3. n - 1 + 1 = n
    OBVIOUS
  <2> QED
    BY <2>1, <2>2, <2>3
<1>3. PICK m \in Nat \ {0} : m = n + 1
  OBVIOUS
<1>4. PICK b \in Seq(Byte) : b = SubSeq(s, m, l) /\ Size(b) = l - n /\ \A i \in Nat : 1 <= i /\ i <= l - n => b[i] = s[n + i]
  <2>1. m <= l + 1 /\ l - m + 1 = l - n /\ \A i \in Nat : m + i - 1 = n + i
    BY <1>1, <1>3
  <2>2. /\ SubSeq(s, m, l) \in Seq(Byte) /\ Size(SubSeq(s, m, l)) = l - m + 1
        /\ \A i \in Nat : 1 <= i /\ i <= l - m + 1 => SubSeq(s, m, l)[i] = s[m + i - 1]
    <3>1. m <= l + 1 /\ l <= Size(s)
      BY <1>1, <2>1
    <3> QED
      BY <3>1, Slice
  <2> QED
    BY <2>1, <2>2
<1>5. Cat(a, b) \in Seq(Byte) /\ Size(Cat(a, b)) = l
  <2>1. n + (l - n) = l
    BY <1>1
  <2> QED
    BY <1>2, <1>4, <2>1, CatType
<1>6. ASSUME NEW i \in Nat, 1 <= i, i <= l PROVE Cat(a, b)[i] = s[i]
  <2>1. CASE i <= n
    BY <1>2, <1>6, <2>1, CatLeft
  <2>2. CASE ~(i <= n)
    <3>1. PICK j \in Nat : j = i - n
      BY <2>2
    <3>2. 1 <= j /\ j <= l - n /\ n + j = i
      BY <1>1, <1>6, <2>2, <3>1
    <3>3. Cat(a, b)[Size(a) + j] = b[j]
      BY <1>4, <3>2, CatAt
    <3> QED
      BY <1>2, <1>4, <3>2, <3>3
  <2> QED
    BY <2>1, <2>2
<1>7. Cat(a, b) = s
  BY <1>1, <1>5, <1>6, Same
<1> QED
  BY <1>1, <1>2, <1>3, <1>4, <1>7

\* The bytes of messages h + 1, ..., n, of which enc[k] is the k-th and ends at
\* byte cut[k] of all that has been said.
Laid(stream, h, n, cut, enc) ==
    /\ cut \in [Nat -> Nat] /\ enc \in [Nat -> Seq(Byte)] /\ stream \in Seq(Byte)
    /\ cut[n] = cut[h] + Size(stream)
    /\ \A k, l \in Nat : k <= l /\ l <= n => cut[k] <= cut[l]
    /\ \A k \in Nat : k < n => cut[k + 1] = cut[k] + Size(enc[k + 1])
    /\ \A k, i \in Nat : h <= k /\ k < n /\ 1 <= i /\ i <= Size(enc[k + 1]) =>
         stream[cut[k] - cut[h] + i] = enc[k + 1][i]

\* Without a message under way there is no byte under way.
LEMMA LaidEmpty ==
  ASSUME NEW stream, NEW h \in Nat, NEW cut, NEW enc, Laid(stream, h, h, cut, enc)
  PROVE  Size(stream) = 0
<1>1. cut[h] \in Nat /\ Size(stream) \in Nat /\ cut[h] = cut[h] + Size(stream)
  BY SizeType DEF Laid
<1> QED
  BY <1>1

\* What is under way begins with the next message.
LEMMA LaidFirst ==
  ASSUME NEW stream, NEW h \in Nat, NEW n \in Nat, h < n, NEW cut, NEW enc, Laid(stream, h, n, cut, enc)
  PROVE  IsPart(enc[h + 1], stream)
<1>1. /\ h + 1 \in Nat /\ h + 1 <= n /\ enc[h + 1] \in Seq(Byte) /\ stream \in Seq(Byte)
      /\ cut[h] \in Nat /\ cut[h + 1] \in Nat /\ cut[n] \in Nat
  BY DEF Laid
<1>2. Size(enc[h + 1]) \in Nat /\ Size(stream) \in Nat
  BY <1>1, SizeType
<1>3. cut[h + 1] <= cut[n] /\ cut[h + 1] = cut[h] + Size(enc[h + 1]) /\ cut[n] = cut[h] + Size(stream)
  BY <1>1 DEF Laid
<1>4. Size(enc[h + 1]) <= Size(stream)
  BY <1>1, <1>2, <1>3
<1>5. ASSUME NEW i \in Nat, 1 <= i, i <= Size(enc[h + 1]) PROVE enc[h + 1][i] = stream[i]
  <2>1. cut[h] - cut[h] + i = i
    BY <1>1
  <2>2. stream[cut[h] - cut[h] + i] = enc[h + 1][i]
    BY <1>5 DEF Laid
  <2> QED
    BY <2>1, <2>2
<1> QED
  BY <1>1, <1>4, <1>5 DEF IsPart

\* A message that has been read leaves those behind it.
LEMMA LaidDrop ==
  ASSUME NEW a \in Seq(Byte), NEW t \in Seq(Byte), NEW h \in Nat, NEW n \in Nat, h < n, NEW cut, NEW enc,
         Laid(Cat(a, t), h, n, cut, enc), Size(a) = Size(enc[h + 1])
  PROVE  Laid(t, h + 1, n, cut, enc)
<1>1. /\ cut \in [Nat -> Nat] /\ enc \in [Nat -> Seq(Byte)]
      /\ \A k, l \in Nat : k <= l /\ l <= n => cut[k] <= cut[l]
      /\ \A k \in Nat : k < n => cut[k + 1] = cut[k] + Size(enc[k + 1])
  BY DEF Laid
<1>2. PICK s \in Seq(Byte) : s = Cat(a, t) /\ Size(s) = Size(a) + Size(t)
  BY CatType
<1>3. PICK g \in Nat : g = h + 1 /\ g <= n
  OBVIOUS
<1>4. PICK c \in Nat, d \in Nat : c = cut[h] /\ d = cut[g]
  BY <1>3 DEF Laid
<1>5. PICK x \in Nat, y \in Nat : x = Size(a) /\ y = Size(t)
  BY SizeType
<1>6. d = c + x
  BY <1>3, <1>4, <1>5 DEF Laid
<1>7. cut[n] = cut[g] + Size(t)
  <2>1. cut[n] = c + (x + y)
    BY <1>2, <1>4, <1>5 DEF Laid
  <2>2. c + (x + y) = d + y
    BY <1>6
  <2> QED
    BY <1>4, <1>5, <2>1, <2>2
<1>8. ASSUME NEW k \in Nat, NEW i \in Nat, g <= k, k < n, 1 <= i, i <= Size(enc[k + 1])
      PROVE  t[cut[k] - d + i] = enc[k + 1][i]
  <2>1. PICK z \in Nat, v \in Nat, w \in Nat : z = cut[k] /\ v = cut[k + 1] /\ w = Size(enc[k + 1])
    <3>1. enc[k + 1] \in Seq(Byte) /\ cut[k] \in Nat /\ cut[k + 1] \in Nat
      <4>1. k + 1 \in Nat
        OBVIOUS
      <4>2. \A j \in Nat : enc[j] \in Seq(Byte) /\ cut[j] \in Nat
        BY <1>1
      <4> QED
        BY <4>1, <4>2
    <3> QED
      BY <3>1, SizeType
  <2>2. v = z + w
    BY <1>8, <2>1 DEF Laid
  <2>3. d <= z
    BY <1>3, <1>4, <1>8, <2>1 DEF Laid
  <2>4. v <= cut[n]
    <3>1. k + 1 \in Nat /\ k + 1 <= n
      BY <1>8
    <3> QED
      BY <2>1, <3>1 DEF Laid
  <2>5. v <= d + y
    BY <1>4, <1>5, <1>7, <2>4
  <2>6. PICK j \in Nat : j = z - d + i
    BY <2>3
  <2>7. 1 <= j /\ j <= y /\ z - c + i = x + j
    <3>1. i <= w /\ 1 <= i
      BY <1>8, <2>1
    <3> QED
      BY <1>6, <2>2, <2>3, <2>5, <2>6, <3>1
  <2>8. Cat(a, t)[z - c + i] = enc[k + 1][i]
    <3>1. h <= k
      BY <1>3, <1>8
    <3> QED
      BY <1>4, <1>8, <2>1, <3>1 DEF Laid
  <2>9. Cat(a, t)[x + j] = t[j]
    BY <1>5, <2>7, CatAt
  <2> QED
    BY <2>1, <2>6, <2>7, <2>8, <2>9
<1>9. Laid(t, g, n, cut, enc)
  BY <1>4, <1>7, <1>8, <1>1 DEF Laid
<1> QED
  BY <1>3, <1>9

\* Where a byte of a message is within all that is under way.
LEMMA Inside ==
  \A c, x, p, w, i \in Nat : c <= p /\ p + w <= c + x /\ 1 <= i /\ i <= w =>
     p - c + i \in Nat /\ 1 <= p - c + i /\ p - c + i <= x
OBVIOUS

\* One more message has been laid.
Extends(s, e, h, n, g, enc) ==
    \E cut2, enc2 : /\ Laid(Cat(s, e), h, g, cut2, enc2) /\ enc2[g] = e
                    /\ \A k \in Nat : k <= n => enc2[k] = enc[k]

\* One more message can follow what is under way.
LEMMA LaidExtend ==
  ASSUME NEW s, NEW h \in Nat, NEW n \in Nat, h <= n, NEW cut, NEW enc, Laid(s, h, n, cut, enc), NEW e \in Seq(Byte),
         NEW g \in Nat, g = n + 1
  PROVE  Extends(s, e, h, n, g, enc)
<1>1. s \in Seq(Byte) /\ cut[n] = cut[h] + Size(s)
  BY DEF Laid
<1>2. \A k \in Nat : cut[k] \in Nat /\ enc[k] \in Seq(Byte)
  BY DEF Laid
<1>3. \A k, l \in Nat : k <= l /\ l <= n => cut[k] <= cut[l]
  BY DEF Laid
<1>4. \A k \in Nat : k < n => cut[k + 1] = cut[k] + Size(enc[k + 1])
  BY DEF Laid
<1>5. \A k, i \in Nat : h <= k /\ k < n /\ 1 <= i /\ i <= Size(enc[k + 1]) =>
        s[cut[k] - cut[h] + i] = enc[k + 1][i]
  BY DEF Laid
<1>6. g = n + 1
  OBVIOUS
<1>7. PICK x \in Nat, y \in Nat, c \in Nat : x = Size(s) /\ y = Size(e) /\ c = cut[h]
  BY <1>1, <1>2, SizeType
<1>8. cut[n] = c + x
  BY <1>1, <1>7
<1>9. PICK z \in Nat : z = c + x + y
  OBVIOUS
<1>10. PICK t \in Seq(Byte) : t = Cat(s, e) /\ Size(t) = x + y
  BY <1>1, <1>7, CatType
<1>11. PICK cut2 \in [Nat -> Nat] : cut2[g] = z /\ \A k \in Nat : k # g => cut2[k] = cut[k]
  <2> DEFINE f == [k \in Nat |-> IF k = g THEN z ELSE cut[k]]
  <2>1. f \in [Nat -> Nat] /\ f[g] = z /\ \A k \in Nat : k # g => f[k] = cut[k]
    BY <1>2
  <2> HIDE DEF f
  <2> QED
    BY <2>1
<1>12. PICK enc2 \in [Nat -> Seq(Byte)] : enc2[g] = e /\ \A k \in Nat : k # g => enc2[k] = enc[k]
  <2> DEFINE f == [k \in Nat |-> IF k = g THEN e ELSE enc[k]]
  <2>1. f \in [Nat -> Seq(Byte)] /\ f[g] = e /\ \A k \in Nat : k # g => f[k] = enc[k]
    BY <1>2
  <2> HIDE DEF f
  <2> QED
    BY <2>1
<1>13. \A k \in Nat : k <= n => k # g
  BY <1>6
<1>14. \A k \in Nat : k <= n => cut2[k] = cut[k] /\ enc2[k] = enc[k]
  BY <1>11, <1>12, <1>13
<1>15. cut2[h] = c
  BY <1>7, <1>14
<1>22. PICK u \in Nat : u = c + x /\ cut2[n] = u
  <2>1. n <= n /\ c + x \in Nat
    OBVIOUS
  <2>2. cut2[n] = cut[n]
    BY <1>14, <2>1
  <2> QED
    BY <1>8, <2>1, <2>2
<1>16. cut2[g] = cut2[h] + Size(t)
  <2>1. z = c + (x + y)
    BY <1>9
  <2> QED
    BY <1>10, <1>11, <1>15, <2>1
<1>17. \A k \in Nat : cut2[k] \in Nat
  OBVIOUS
<1>18. ASSUME NEW k \in Nat, NEW l \in Nat, k <= l, l <= g PROVE cut2[k] <= cut2[l]
  <2>1. CASE l <= n
    <3>1. k <= n
      BY <1>18, <2>1
    <3> QED
      BY <1>3, <1>14, <1>18, <2>1, <3>1
  <2>2. CASE l = g /\ k <= n
    <3>1. PICK q \in Nat : q = cut[k]
      BY <1>2
    <3>2. q <= c + x
      BY <1>3, <1>8, <2>2, <3>1
    <3>3. q <= z
      BY <1>9, <3>2
    <3> QED
      BY <1>11, <1>14, <2>2, <3>1, <3>3
  <2>3. CASE l = g /\ k = g
    BY <1>11, <2>3
  <2>4. l <= n \/ (l = g /\ k <= n) \/ (l = g /\ k = g)
    BY <1>6, <1>18
  <2> QED
    BY <2>1, <2>2, <2>3, <2>4
<1>19. ASSUME NEW k \in Nat, k < g PROVE cut2[k + 1] = cut2[k] + Size(enc2[k + 1])
  <2>1. CASE k = n
    <3>1. k + 1 = g /\ z = c + x + y
      BY <1>6, <1>9, <2>1
    <3>2. cut2[k] = c + x
      BY <1>22, <2>1
    <3>3. Size(enc2[g]) = y
      BY <1>7, <1>12
    <3>4. cut2[g] = cut2[k] + Size(enc2[g])
      BY <1>11, <3>1, <3>2, <3>3
    <3> QED
      BY <3>1, <3>4
  <2>2. CASE k < n
    <3>1. PICK j \in Nat : j = k + 1 /\ j <= n
      BY <2>2
    <3>2. cut[j] = cut[k] + Size(enc[j])
      BY <1>4, <2>2, <3>1
    <3>3. k <= n
      BY <2>2
    <3> QED
      BY <1>14, <3>1, <3>2, <3>3
  <2>3. k = n \/ k < n
    BY <1>6, <1>19
  <2> QED
    BY <2>1, <2>2, <2>3
<1>20. ASSUME NEW k \in Nat, NEW i \in Nat, h <= k, k < g, 1 <= i, i <= Size(enc2[k + 1])
       PROVE  t[cut2[k] - cut2[h] + i] = enc2[k + 1][i]
  <2>0. PICK j \in Nat : j = k + 1
    OBVIOUS
  <2>1. i <= Size(enc2[j])
    BY <1>20, <2>0
  <2>2. CASE k = n
    <3>1. j = g
      BY <1>6, <2>0, <2>2
    <3>2. cut2[k] = c + x
      BY <1>22, <2>2
    <3>3. c + x - c + i = x + i
      OBVIOUS
    <3>4. enc2[j] = e
      BY <1>12, <3>1
    <3>5. i <= y
      BY <1>7, <2>1, <3>4
    <3>6. t[x + i] = e[i]
      BY <1>1, <1>7, <1>10, <1>20, <3>5, CatAt
    <3> QED
      <4>1. cut2[k] - cut2[h] + i = x + i
        BY <1>15, <3>2, <3>3
      <4>2. t[cut2[k] - cut2[h] + i] = e[i]
        BY <3>6, <4>1, Zenon
      <4> QED
        BY <2>0, <3>4, <4>2
  <2>3. CASE k < n
    <3>1. j <= n
      BY <2>0, <2>3
    <3>2. PICK p \in Nat, v \in Nat, w \in Nat : p = cut[k] /\ v = cut[j] /\ w = Size(enc[j])
      BY <1>2, SizeType
    <3>3. cut2[k] = p
      BY <1>14, <2>3, <3>2
    <3>4. enc2[j] = enc[j]
      BY <1>14, <3>1
    <3>5. v = p + w
      BY <1>4, <2>0, <2>3, <3>2
    <3>6. c <= p
      <4>1. k <= n
        BY <2>3
      <4> QED
        BY <1>3, <1>7, <1>20, <3>2, <4>1
    <3>7. v <= c + x
      <4>1. n <= n
        OBVIOUS
      <4> QED
        BY <1>3, <1>8, <3>1, <3>2, <4>1
    <3>8. i <= w
      BY <2>1, <3>2, <3>4
    <3>9. PICK q \in Nat : q = p - c + i /\ 1 <= q /\ q <= x
      <4>1. 1 <= i
        BY <1>20
      <4>2. p + w <= c + x
        BY <3>5, <3>7
      <4> QED
        BY <3>6, <3>8, <4>1, <4>2, Inside
    <3>10. s[q] = enc[j][i]
      <4>1. i <= Size(enc[k + 1])
        BY <2>0, <3>2, <3>8
      <4>2. s[cut[k] - cut[h] + i] = enc[k + 1][i]
        BY <1>5, <1>20, <2>3, <4>1
      <4> QED
        BY <1>7, <2>0, <3>2, <3>9, <4>2
    <3>11. t[q] = s[q]
      BY <1>1, <1>7, <1>10, <3>9, CatLeft
    <3> QED
      BY <1>15, <2>0, <3>3, <3>4, <3>9, <3>10, <3>11
  <2>4. k = n \/ k < n
    BY <1>6, <1>20
  <2> QED
    BY <2>2, <2>3, <2>4
<1>21. Laid(t, h, g, cut2, enc2)
  BY <1>16, <1>18, <1>19, <1>20 DEF Laid
<1> QED
  BY <1>6, <1>10, <1>12, <1>14, <1>21 DEF Extends

\* Nothing is under way at first.
LEMMA LaidNothing ==
  \E cut, enc : Laid(<<>>, 0, 0, cut, enc)
<1>1. Laid(<<>>, 0, 0, [k \in Nat |-> 0], [k \in Nat |-> <<>>])
  BY Nothing DEF Laid
<1> QED
  BY <1>1

-----------------------------------------------------------------------------
(* Messages under way                                                      *)

Added(s, m) == Append(s, m)

\* The length of any sequence.
LEMMA Counted == \A S : \A s \in Seq(S) : Size(s) \in Nat
BY LenProperties DEF Size

\* A sequence with one more element.
LEMMA Appended ==
  \A S : \A s \in Seq(S), m \in S, n, g \in Nat : n = Size(s) /\ g = n + 1 =>
    /\ Added(s, m) \in Seq(S) /\ Size(Added(s, m)) = g /\ Added(s, m)[g] = m
    /\ \A k \in Nat : 1 <= k /\ k <= n => Added(s, m)[k] = s[k]
<1> SUFFICES ASSUME NEW S, NEW s \in Seq(S), NEW m \in S, NEW n \in Nat, NEW g \in Nat, n = Size(s), g = n + 1
             PROVE  /\ Added(s, m) \in Seq(S) /\ Size(Added(s, m)) = g /\ Added(s, m)[g] = m
                    /\ \A k \in Nat : 1 <= k /\ k <= n => Added(s, m)[k] = s[k]
  OBVIOUS
<1>1. n = Len(s) /\ g = Len(s) + 1
  BY DEF Size
<1> QED
  BY <1>1, AppendProperties DEF Size, Added

\* The messages s of the server, of which the client has decoded h, all but the
\* bytes f of message h + 1, and the bytes that are yet to be read.
Framed(r, s, h, f, rest) ==
    /\ h <= Size(s)
    /\ \E cut, enc :
         /\ Laid(Cat(f, rest), h, Size(s), cut, enc)
         /\ \A k \in Nat : h <= k /\ k < Size(s) => IsDown(k + 1, r, s[k + 1], enc[k + 1])
         /\ h < Size(s) => Size(f) <= Size(enc[h + 1])

\* Nothing has been said at first.
LEMMA FramedNothing ==
  ASSUME NEW r
  PROVE  Framed(r, <<>>, 0, <<>>, Cat(<<>>, <<>>))
<1>1. Cat(<<>>, Cat(<<>>, <<>>)) = <<>> /\ Size(<<>>) = 0
  BY CatNothing, Nothing
<1>2. PICK cut, enc : Laid(<<>>, 0, 0, cut, enc)
  BY LaidNothing
<1>3. \A k \in Nat : ~(k < 0)
  OBVIOUS
<1> QED
  BY <1>1, <1>2, <1>3 DEF Framed

\* The server says one more message.
LEMMA FramedExtend ==
  ASSUME NEW r, NEW s \in Seq(Messages), NEW m \in Messages, NEW h \in Nat, NEW f \in Seq(Byte), NEW rest \in Seq(Byte),
         Framed(r, s, h, f, rest), NEW e \in Seq(Byte), \A k \in Nat : k = Size(s) + 1 => IsDown(k, r, m, e)
  PROVE  Framed(r, Added(s, m), h, f, Cat(rest, e))
<1>1. PICK n \in Nat : n = Size(s)
  BY Counted
<1>2. PICK g \in Nat : g = n + 1
  OBVIOUS
<1>3. PICK s2 \in Seq(Messages) : /\ s2 = Added(s, m) /\ Size(s2) = g /\ s2[g] = m
                                  /\ \A k \in Nat : 1 <= k /\ k <= n => s2[k] = s[k]
  BY <1>1, <1>2, Appended
<1>4. PICK cut, enc : /\ Laid(Cat(f, rest), h, n, cut, enc)
                      /\ \A k \in Nat : h <= k /\ k < n => IsDown(k + 1, r, s[k + 1], enc[k + 1])
                      /\ h < n => Size(f) <= Size(enc[h + 1])
  BY <1>1 DEF Framed
<1>5. h <= n
  BY <1>1 DEF Framed
<1>6. PICK cut2, enc2 : /\ Laid(Cat(Cat(f, rest), e), h, g, cut2, enc2) /\ enc2[g] = e
                        /\ \A k \in Nat : k <= n => enc2[k] = enc[k]
  <2>1. PICK x : x = Cat(f, rest)
    OBVIOUS
  <2>2. Laid(x, h, n, cut, enc)
    BY <1>4, <2>1
  <2>3. Extends(x, e, h, n, g, enc)
    BY <1>2, <1>5, <2>2, LaidExtend
  <2> QED
    BY <2>1, <2>3 DEF Extends
<1>7. Laid(Cat(f, Cat(rest, e)), h, g, cut2, enc2)
  BY <1>2, <1>6, CatAssoc
<1>8. ASSUME NEW k \in Nat, h <= k, k < g PROVE IsDown(k + 1, r, s2[k + 1], enc2[k + 1])
  <2>1. PICK j \in Nat : j = k + 1
    OBVIOUS
  <2>2. CASE k = n
    <3>1. j = g /\ j = n + 1
      BY <1>2, <2>1, <2>2
    <3>2. s2[j] = m /\ enc2[j] = e
      BY <1>3, <1>6, <3>1
    <3>3. IsDown(j, r, m, e)
      BY <1>1, <3>1
    <3> QED
      BY <2>1, <3>2, <3>3
  <2>3. CASE k < n
    <3>1. 1 <= j /\ j <= n
      BY <2>1, <2>3
    <3>2. s2[j] = s[j] /\ enc2[j] = enc[j]
      BY <1>3, <1>6, <3>1
    <3>3. IsDown(j, r, s[j], enc[j])
      BY <1>4, <1>8, <2>1, <2>3
    <3> QED
      BY <2>1, <3>2, <3>3
  <2> QED
    BY <1>2, <1>8, <2>2, <2>3
<1>9. h < g => Size(f) <= Size(enc2[h + 1])
  <2>1. PICK j \in Nat : j = h + 1
    OBVIOUS
  <2>2. CASE h = n
    <3>1. Size(Cat(f, rest)) = 0
      BY <1>4, <2>2, LaidEmpty
    <3>2. Size(f) = 0
      <4>1. PICK x \in Nat, y \in Nat : x = Size(f) /\ y = Size(rest) /\ Size(Cat(f, rest)) = x + y
        BY CatType, SizeType
      <4>2. x = 0
        BY <3>1, <4>1
      <4> QED
        BY <4>1, <4>2
    <3>3. enc2[j] = e /\ Size(e) \in Nat
      BY <1>2, <1>6, <2>1, <2>2, SizeType
    <3> QED
      BY <2>1, <3>2, <3>3
  <2>3. CASE h < n
    <3>1. j <= n
      BY <2>1, <2>3
    <3>2. enc2[j] = enc[j]
      BY <1>6, <3>1
    <3> QED
      BY <1>4, <2>1, <2>3, <3>2
  <2> QED
    BY <1>5, <2>2, <2>3
<1>10. h <= g
  BY <1>2, <1>5
<1>11. Framed(r, s2, h, f, Cat(rest, e))
  BY <1>3, <1>7, <1>8, <1>9, <1>10 DEF Framed
<1> QED
  BY <1>3, <1>11

\* A decoder that asks for more.
Pending(d) == d.tag = "partial" /\ d.missing \in Nat /\ 1 <= d.missing

\* What becomes of message g, of which a has been read.
Progress(r, s, h, g, a, rest) ==
    /\ g <= Size(s) /\ a \in Seq(Byte)
    /\ LET d == DecodeAt(g, r, a) IN
       \/ Pending(d) /\ Framed(r, s, h, a, rest)
       \/ d.tag = "ok" /\ d.message = s[g] /\ Framed(r, s, g, <<>>, rest)
       \/ d.tag = "malformed" /\ s[g] = Garbled

\* What has been read is part of the message, if it is no longer.
LEMMA PartOf ==
  ASSUME NEW a \in Seq(Byte), NEW t \in Seq(Byte), NEW e, IsPart(e, Cat(a, t)), Size(a) <= Size(e)
  PROVE  IsPart(a, e)
<1>1. PICK x \in Nat, y \in Nat : x = Size(a) /\ y = Size(e) /\ x <= y /\ e \in Seq(Byte)
  BY SizeType DEF IsPart
<1>2. ASSUME NEW i \in Nat, 1 <= i, i <= x PROVE a[i] = e[i]
  <2>1. Cat(a, t)[i] = a[i]
    BY <1>1, <1>2, CatLeft
  <2>2. e[i] = Cat(a, t)[i]
    <3>1. i <= y
      BY <1>1, <1>2
    <3> QED
      BY <1>1, <1>2, <3>1 DEF IsPart
  <2> QED
    BY <2>1, <2>2
<1> QED
  BY <1>1, <1>2 DEF IsPart

\* A client that reads no more than its decoder asked for never reads beyond the
\* message, so that it can go on, has exactly the message, or has garbage.
LEMMA ReadStep ==
  ASSUME NEW r \in Roles, NEW s \in Seq(Messages), NEW h \in Nat, NEW g \in Nat, g = h + 1,
         NEW f \in Seq(Byte), NEW c \in Seq(Byte), NEW rest \in Seq(Byte), Framed(r, s, h, f, Cat(c, rest)),
         Pending(DecodeAt(g, r, f)), 1 <= Size(c), Size(c) <= DecodeAt(g, r, f).missing
  PROVE  Progress(r, s, h, g, Cat(f, c), rest)
<1>1. PICK l \in Nat, x \in Nat, y \in Nat : l = Size(s) /\ x = Size(f) /\ y = Size(c) /\ 1 <= y
  BY Counted, SizeType
<1>2. PICK a \in Seq(Byte) : a = Cat(f, c) /\ Size(a) = x + y
  BY <1>1, CatType
<1>3. Cat(f, Cat(c, rest)) = Cat(a, rest)
  BY <1>2, CatAssoc
<1>4. PICK cut, enc : /\ Laid(Cat(a, rest), h, l, cut, enc)
                      /\ \A k \in Nat : h <= k /\ k < l => IsDown(k + 1, r, s[k + 1], enc[k + 1])
                      /\ h < l => x <= Size(enc[h + 1])
  BY <1>1, <1>3 DEF Framed
<1>5. Laid(Cat(a, rest), h, l, cut, enc)
  BY <1>4
<1>6. h <= l
  BY <1>1 DEF Framed
<1>7. h < l
  <2>1. SUFFICES ASSUME h = l PROVE FALSE
    BY <1>6
  <2>2. Size(Cat(a, rest)) = 0
    BY <1>5, <2>1, LaidEmpty
  <2>3. PICK z \in Nat : z = Size(rest)
    BY SizeType
  <2>4. x + y + z = 0
    BY <1>2, <2>2, <2>3, CatType
  <2> QED
    BY <1>1, <2>4
<1>8. IsPart(enc[g], Cat(a, rest))
  BY <1>5, <1>7, LaidFirst
<1>9. IsDown(g, r, s[g], enc[g])
  BY <1>4, <1>7
<1>10. PICK e \in Seq(Byte) : e = enc[g] /\ \A b : IsPart(b, e) => Outcome(DecodeAt(g, r, b), Size(b), Size(e), s[g])
  <2>1. 1 <= g
    OBVIOUS
  <2> QED
    BY <1>9, <2>1, DownReads
<1>11. PICK z \in Nat : z = Size(e) /\ x <= z
  BY <1>4, <1>7, <1>10, SizeType
<1>12. IsPart(f, e)
  <2>1. Cat(c, rest) \in Seq(Byte) /\ IsPart(e, Cat(f, Cat(c, rest)))
    BY <1>3, <1>8, <1>10, CatType
  <2> QED
    BY <1>1, <1>11, <2>1, PartOf
<1>13. x + y <= z
  <2>1. Outcome(DecodeAt(g, r, f), x, z, s[g])
    BY <1>1, <1>10, <1>11, <1>12
  <2>2. PICK m \in Nat : m = DecodeAt(g, r, f).missing /\ y <= m
    BY <1>1 DEF Pending
  <2>3. x + m <= z
    BY <2>1, <2>2 DEF Outcome, Pending
  <2> QED
    BY <2>2, <2>3
<1>14. IsPart(a, e)
  BY <1>2, <1>8, <1>10, <1>11, <1>13, PartOf
<1>15. Outcome(DecodeAt(g, r, a), x + y, z, s[g])
  BY <1>2, <1>10, <1>11, <1>14
<1>16. PICK d : d = DecodeAt(g, r, a)
  OBVIOUS
<1>17. g <= l
  BY <1>7
<1>18. CASE d.tag = "partial" /\ d.missing \in Nat /\ 1 <= d.missing /\ x + y + d.missing <= z
  <2>1. Framed(r, s, h, a, rest)
    <3>1. h < l => Size(a) <= Size(enc[h + 1])
      BY <1>2, <1>10, <1>11, <1>13
    <3>2. \A k \in Nat : h <= k /\ k < l => IsDown(k + 1, r, s[k + 1], enc[k + 1])
      BY <1>4
    <3> QED
      BY <1>1, <1>5, <1>6, <3>1, <3>2 DEF Framed
  <2> QED
    BY <1>1, <1>2, <1>16, <1>17, <1>18, <2>1 DEF Progress, Pending
<1>19. CASE d.tag = "ok" /\ d.message = s[g] /\ x + y = z
  <2>1. Size(a) = Size(enc[h + 1])
    BY <1>2, <1>10, <1>11, <1>19
  <2>2. Laid(rest, h + 1, l, cut, enc)
    BY <1>5, <1>7, <2>1, LaidDrop
  <2>3. Laid(Cat(<<>>, rest), g, l, cut, enc)
    BY <2>2, CatNothing
  <2>4. g < l => Size(<<>>) <= Size(enc[g + 1])
    <3>1. SUFFICES ASSUME g < l PROVE Size(<<>>) <= Size(enc[g + 1])
      OBVIOUS
    <3>2. PICK j \in Nat : j = g + 1
      OBVIOUS
    <3>3. enc[j] \in Seq(Byte)
      BY <2>3 DEF Laid
    <3> QED
      BY <3>2, <3>3, Nothing, SizeType
  <2>5. \A k \in Nat : g <= k /\ k < l => IsDown(k + 1, r, s[k + 1], enc[k + 1])
    BY <1>4
  <2>6. Framed(r, s, g, <<>>, rest)
    BY <1>1, <1>17, <2>3, <2>4, <2>5 DEF Framed
  <2> QED
    BY <1>1, <1>2, <1>16, <1>17, <1>19, <2>6 DEF Progress
<1>20. CASE d.tag = "malformed" /\ s[g] = Garbled
  BY <1>1, <1>2, <1>16, <1>17, <1>20 DEF Progress
<1> QED
  BY <1>15, <1>16, <1>18, <1>19, <1>20 DEF Outcome

\* All a client may send.
Encoded == {encode_AuthRequest(m) : m \in AuthMessages} \cup {encode_ConnectRequest(m) : m \in RequestMessages}
             \cup {encode_Response(m) : m \in StatusMessages} \cup {encode_ApduPacket(m) : m \in Payloads}

\* What a client sends is an encoded message.
LEMMA SentEncoded ==
  \A k, r, m, e : IsSent(k, r, m, e) => e \in Encoded /\ m \in Messages
BY DEF IsSent, Encoded, Messages

\* The messages me of a client to the server: the server has decoded the first
\* of them to ta, and up is the bytes of the rest.
InOrder(r, up, me, ta) ==
    /\ up \in Seq(Encoded) /\ me \in Seq(Messages) /\ ta \in Seq(Messages)
    /\ Size(me) = Size(ta) + Size(up)
    /\ \A k \in Nat : 1 <= k /\ k <= Size(ta) => ta[k] = me[k]
    /\ \A i, k \in Nat : 1 <= i /\ i <= Size(up) /\ k = Size(ta) + i => IsSent(k, r, me[k], up[i])

\* A client sends one more message.
LEMMA SendStep ==
  ASSUME NEW r, NEW up, NEW me, NEW ta, InOrder(r, up, me, ta), NEW n \in Nat, n = Size(me), NEW g \in Nat, g = n + 1,
         NEW m, NEW e, IsSent(g, r, m, e)
  PROVE  InOrder(r, Added(up, e), Added(me, m), ta) /\ Size(Added(me, m)) = g
<1>1. e \in Encoded /\ m \in Messages /\ up \in Seq(Encoded) /\ me \in Seq(Messages) /\ ta \in Seq(Messages)
  BY SentEncoded DEF InOrder
<1>2. PICK u \in Nat, v \in Nat, t \in Nat : u = Size(up) /\ v = u + 1 /\ t = Size(ta) /\ n = t + u
  <2>1. PICK u \in Nat, t \in Nat : u = Size(up) /\ t = Size(ta)
    BY <1>1, Counted
  <2>2. Size(me) = Size(ta) + Size(up)
    BY DEF InOrder
  <2>3. PICK v \in Nat : v = u + 1
    OBVIOUS
  <2> QED
    BY <2>1, <2>2, <2>3
<1>3. PICK up2 \in Seq(Encoded) : /\ up2 = Added(up, e) /\ Size(up2) = v /\ up2[v] = e
                                  /\ \A k \in Nat : 1 <= k /\ k <= u => up2[k] = up[k]
  <2>1. e \in Encoded /\ up \in Seq(Encoded) /\ u = Size(up) /\ v = u + 1
    BY <1>1, <1>2
  <2> QED
    BY <2>1, Appended
<1>4. PICK me2 \in Seq(Messages) : /\ me2 = Added(me, m) /\ Size(me2) = g /\ me2[g] = m
                                   /\ \A k \in Nat : 1 <= k /\ k <= n => me2[k] = me[k]
  BY <1>1, Appended
<1>9. u \in Nat /\ v = u + 1 /\ n = t + u /\ g = n + 1 /\ g = t + v
  BY <1>2
<1>5. Size(me2) = Size(ta) + Size(up2)
  <2>1. Size(me2) = g /\ Size(ta) = t /\ Size(up2) = v
    BY <1>2, <1>3, <1>4
  <2> QED
    BY <1>9, <2>1
<1>6. ASSUME NEW k \in Nat, 1 <= k, k <= t PROVE ta[k] = me2[k]
  <2>1. k <= n
    BY <1>2, <1>6
  <2>2. ta[k] = me[k]
    BY <1>2, <1>6 DEF InOrder
  <2> QED
    BY <1>4, <1>6, <2>1, <2>2
<1>7. ASSUME NEW i \in Nat, NEW k \in Nat, 1 <= i, i <= v, k = t + i PROVE IsSent(k, r, me2[k], up2[i])
  <2>1. CASE i = v
    <3>1. k = g
      BY <1>7, <1>9, <2>1
    <3> QED
      BY <1>3, <1>4, <2>1, <3>1
  <2>2. CASE i <= u
    <3>1. 1 <= k /\ k <= n
      BY <1>7, <1>9, <2>2
    <3>2. me2[k] = me[k] /\ up2[i] = up[i]
      BY <1>3, <1>4, <1>7, <2>2, <3>1
    <3>3. IsSent(k, r, me[k], up[i])
      <4>1. i <= Size(up) /\ k = Size(ta) + i
        BY <1>2, <1>7, <2>2
      <4> QED
        BY <1>7, <4>1 DEF InOrder
    <3> QED
      BY <3>2, <3>3
  <2>3. i = v \/ i <= u
    BY <1>7, <1>9
  <2> QED
    BY <2>1, <2>2, <2>3
<1>8. InOrder(r, up2, me2, ta)
  <2>1. \A k \in Nat : 1 <= k /\ k <= Size(ta) => ta[k] = me2[k]
    BY <1>2, <1>6
  <2>2. \A i, k \in Nat : 1 <= i /\ i <= Size(up2) /\ k = Size(ta) + i => IsSent(k, r, me2[k], up2[i])
    BY <1>2, <1>3, <1>7
  <2> QED
    BY <1>1, <1>5, <2>1, <2>2 DEF InOrder
<1> QED
  BY <1>3, <1>4, <1>8

\* The first element of a sequence, and the others.
LEMMA FirstAndRest ==
  \A S : \A u \in Seq(S) : u # <<>> =>
    \E n \in Nat : /\ Size(u) = n + 1 /\ Head(u) = u[1] /\ Tail(u) \in Seq(S) /\ Size(Tail(u)) = n
                   /\ \A i \in Nat : 1 <= i /\ i <= n => Tail(u)[i] = u[i + 1]
<1> SUFFICES ASSUME NEW S, NEW u \in Seq(S), u # <<>>
             PROVE  \E n \in Nat : /\ Size(u) = n + 1 /\ Head(u) = u[1] /\ Tail(u) \in Seq(S) /\ Size(Tail(u)) = n
                                   /\ \A i \in Nat : 1 <= i /\ i <= n => Tail(u)[i] = u[i + 1]
  OBVIOUS
<1>1. PICK n \in Nat : Len(u) = n + 1
  BY EmptySeq, LenProperties
<1>2. Head(u) = u[1] /\ Tail(u) \in Seq(S) /\ Len(Tail(u)) = Len(u) - 1 /\ \A i \in 1..Len(Tail(u)) : Tail(u)[i] = u[i + 1]
  BY HeadTailProperties
<1> QED
  BY <1>1, <1>2 DEF Size

\* The server takes the next message of a client.
LEMMA TakeStep ==
  ASSUME NEW r, NEW up, NEW me, NEW ta, InOrder(r, up, me, ta), up # <<>>, NEW t \in Nat, t = Size(ta), NEW g \in Nat, g = t + 1
  PROVE  /\ IsSent(g, r, me[g], Head(up)) /\ g <= Size(me)
         /\ InOrder(r, Tail(up), me, Added(ta, me[g])) /\ Size(Added(ta, me[g])) = g
<1>1. up \in Seq(Encoded) /\ me \in Seq(Messages) /\ ta \in Seq(Messages)
  BY DEF InOrder
<1>2. PICK n \in Nat : /\ Size(up) = n + 1 /\ Head(up) = up[1] /\ Tail(up) \in Seq(Encoded) /\ Size(Tail(up)) = n
                       /\ \A i \in Nat : 1 <= i /\ i <= n => Tail(up)[i] = up[i + 1]
  BY <1>1, FirstAndRest
<1>3. PICK l \in Nat : l = Size(me) /\ l = t + (n + 1)
  BY <1>1, <1>2, Counted DEF InOrder
<1>4. IsSent(g, r, me[g], up[1])
  <2>1. 1 <= n + 1 /\ 1 \in Nat
    OBVIOUS
  <2> QED
    BY <1>2, <2>1 DEF InOrder
<1>5. me[g] \in Messages
  BY <1>4, SentEncoded
<1>6. PICK ta2 \in Seq(Messages) : /\ ta2 = Added(ta, me[g]) /\ Size(ta2) = g /\ ta2[g] = me[g]
                                   /\ \A k \in Nat : 1 <= k /\ k <= t => ta2[k] = ta[k]
  <2>1. PICK m \in Messages : m = me[g]
    BY <1>5
  <2>2. /\ Added(ta, m) \in Seq(Messages) /\ Size(Added(ta, m)) = g /\ Added(ta, m)[g] = m
        /\ \A k \in Nat : 1 <= k /\ k <= t => Added(ta, m)[k] = ta[k]
    BY <1>1, Appended
  <2> QED
    BY <2>1, <2>2
<1>7. g <= l /\ l = g + n
  BY <1>3
<1>8. ASSUME NEW k \in Nat, 1 <= k, k <= g PROVE ta2[k] = me[k]
  <2>1. CASE k = g
    BY <1>6, <2>1
  <2>2. CASE k <= t
    <3>1. ta[k] = me[k]
      BY <1>8, <2>2 DEF InOrder
    <3> QED
      BY <1>6, <1>8, <2>2, <3>1
  <2> QED
    BY <1>8, <2>1, <2>2
<1>9. ASSUME NEW i \in Nat, NEW k \in Nat, 1 <= i, i <= n, k = g + i PROVE IsSent(k, r, me[k], Tail(up)[i])
  <2>1. PICK j \in Nat : j = i + 1 /\ 1 <= j /\ j <= n + 1 /\ k = t + j
    BY <1>9
  <2>2. IsSent(k, r, me[k], up[j])
    BY <1>2, <2>1 DEF InOrder
  <2> QED
    BY <1>2, <1>9, <2>1, <2>2
<1>10. InOrder(r, Tail(up), me, ta2)
  <2>1. \A k \in Nat : 1 <= k /\ k <= Size(ta2) => ta2[k] = me[k]
    BY <1>6, <1>8
  <2>2. \A i, k \in Nat : 1 <= i /\ i <= Size(Tail(up)) /\ k = Size(ta2) + i => IsSent(k, r, me[k], Tail(up)[i])
    BY <1>2, <1>6, <1>9
  <2>3. Size(me) = Size(ta2) + Size(Tail(up))
    BY <1>2, <1>3, <1>6, <1>7
  <2> QED
    BY <1>1, <1>2, <2>1, <2>2, <2>3 DEF InOrder
<1> QED
  BY <1>2, <1>3, <1>4, <1>6, <1>7, <1>10

-----------------------------------------------------------------------------
(* The invariant                                                           *)

\* Where a client may be: it goes on, it reads, or it has stopped.
Live == {"register", "open", "auth", "await", "up", "asked"}
Reading == {"auth", "await", "up", "asked"}
Places == Live \cup {"closed", "malformed"}

\* The one history is the beginning of the other.
Follows(a, b) == Size(a) <= Size(b) /\ \A k \in Nat : 1 <= k /\ k <= Size(a) => a[k] = b[k]

\* How much a client has heard, and has sent.
HeardSoFar(c, hd) ==
    /\ c \in {"register", "open", "auth"} => Size(hd) = 0
    /\ c = "await" => Size(hd) = 1
    /\ c \in {"up", "asked"} => 2 <= Size(hd)
MeantSoFar(r, c, me) ==
    /\ c \in {"register", "open"} => Size(me) = 0
    /\ c = "auth" => Size(me) = 1
    /\ c = "await" => Size(me) = (IF r = "probe" THEN 2 ELSE 1)
    /\ c \in {"up", "asked"} => 2 <= Size(me)

\* From the server to the client.
Down(r, c, f, b, w, s, hd) ==
    /\ r \in Roles /\ c \in Places
    /\ f \in Seq(Byte) /\ b \in Seq(Byte) /\ w \in Seq(Byte) /\ s \in Seq(Messages) /\ hd \in Seq(Messages)
    /\ Follows(hd, s)
    /\ c = "malformed" => \E k \in Nat : 1 <= k /\ k <= Size(s) /\ s[k] = Garbled
    /\ HeardSoFar(c, hd)
    /\ c \in Live => /\ Framed(r, s, Size(hd), f, Cat(b, w))
                     /\ \A g \in Nat : g = Size(hd) + 1 => Pending(DecodeAt(g, r, f))

\* From the client to the server.
Upward(r, c, up, me, ta) == r \in Roles /\ InOrder(r, up, me, ta) /\ MeantSoFar(r, c, me)

\* How much the server has said, and has taken.
Serving(r, p, s, ta) ==
    /\ p = "auth" => Size(s) = 0 /\ Size(ta) = 0
    /\ p = "request" => r = "probe" /\ Size(s) = 1 /\ Size(ta) = 1
    /\ p = "response" => r = "provider" /\ Size(s) = 2 /\ Size(ta) = 1
    /\ p = "up" => 2 <= Size(s) /\ 2 <= Size(ta)
    /\ p \in {"auth", "request", "response", "up", "refused"}

\* The invariant: what has been heard, kept, buffered and is on its way is what
\* has been said, cut at the messages' ends, and the same towards the server.
StreamInv ==
    /\ Down(role, cpc, frag, rbuf, wire, said, heard)
    /\ Upward(role, cpc, upstream, meant, taken)
    /\ Serving(role, spc, said, taken)

\* What has been heard is what was said first, though more is said.
LEMMA FollowsAdded ==
  ASSUME NEW a \in Seq(Messages), NEW b \in Seq(Messages), NEW m \in Messages, Follows(a, b)
  PROVE  Follows(a, Added(b, m))
<1>1. PICK x \in Nat, y \in Nat, z \in Nat : x = Size(a) /\ y = Size(b) /\ z = y + 1
  <2>1. PICK x \in Nat, y \in Nat : x = Size(a) /\ y = Size(b)
    BY Counted
  <2>2. PICK z \in Nat : z = y + 1
    OBVIOUS
  <2> QED
    BY <2>1, <2>2
<1>2. Size(Added(b, m)) = z /\ \A k \in Nat : 1 <= k /\ k <= y => Added(b, m)[k] = b[k]
  BY <1>1, Appended
<1>3. x <= y /\ x <= z /\ \A k \in Nat : 1 <= k /\ k <= x => a[k] = b[k]
  BY <1>1 DEF Follows
<1>4. ASSUME NEW k \in Nat, 1 <= k, k <= x PROVE a[k] = Added(b, m)[k]
  <2>1. k <= y
    BY <1>3, <1>4
  <2> QED
    BY <1>2, <1>3, <1>4, <2>1
<1> QED
  BY <1>1, <1>2, <1>3, <1>4 DEF Follows

\* The next message that is heard is the next that was said.
LEMMA FollowsNext ==
  ASSUME NEW a \in Seq(Messages), NEW b \in Seq(Messages), Follows(a, b), NEW g \in Nat, g = Size(a) + 1, g <= Size(b)
  PROVE  b[g] \in Messages /\ Added(a, b[g]) \in Seq(Messages) /\ Size(Added(a, b[g])) = g /\ Follows(Added(a, b[g]), b)
<1>1. PICK x \in Nat : x = Size(a) /\ g = x + 1
  BY Counted
<1>2. b[g] \in Messages
  <2>1. g \in 1..Len(b)
    BY LenProperties, <1>1 DEF Size
  <2> QED
    BY <2>1, ElementOfSeq, Zenon
<1>3. PICK m \in Messages : m = b[g]
  BY <1>2
<1>4. /\ Added(a, m) \in Seq(Messages) /\ Size(Added(a, m)) = g /\ Added(a, m)[g] = m
      /\ \A k \in Nat : 1 <= k /\ k <= x => Added(a, m)[k] = a[k]
  BY <1>1, Appended
<1>5. ASSUME NEW k \in Nat, 1 <= k, k <= g PROVE Added(a, m)[k] = b[k]
  <2>1. CASE k = g
    BY <1>3, <1>4, <2>1
  <2>2. CASE k <= x
    <3>1. a[k] = b[k]
      BY <1>1, <1>5, <2>2 DEF Follows
    <3> QED
      BY <1>4, <1>5, <2>2, <3>1
  <2>3. k = g \/ k <= x
    BY <1>1, <1>5
  <2> QED
    BY <2>1, <2>2, <2>3
<1>6. Follows(Added(a, m), b)
  BY <1>4, <1>5 DEF Follows
<1> QED
  BY <1>2, <1>3, <1>4, <1>6

\* The server's next message, whatever the client does.
LEMMA SayStep ==
  ASSUME NEW r, NEW c, NEW f, NEW b, NEW w, NEW s, NEW hd, Down(r, c, f, b, w, s, hd), NEW m, NEW e,
         NEW g \in Nat, g = Size(s) + 1, IsDown(g, r, m, e)
  PROVE  Down(r, c, f, b, Cat(w, e), Added(s, m), hd) /\ Size(Added(s, m)) = g
<1>1. /\ r \in Roles /\ c \in Places
      /\ f \in Seq(Byte) /\ b \in Seq(Byte) /\ w \in Seq(Byte) /\ s \in Seq(Messages) /\ hd \in Seq(Messages)
  BY DEF Down
<1>2. Follows(hd, s) /\ HeardSoFar(c, hd)
  BY DEF Down
<1>3. PICK x \in Nat, y \in Nat : x = Size(hd) /\ y = Size(s) /\ g = y + 1 /\ 1 <= g
  BY <1>1, Counted
<1>4. e \in Seq(Byte) /\ m \in Messages
  BY <1>1, <1>3, DownReads
<1>5. /\ Added(s, m) \in Seq(Messages) /\ Size(Added(s, m)) = g
      /\ \A k \in Nat : 1 <= k /\ k <= y => Added(s, m)[k] = s[k]
  BY <1>1, <1>3, <1>4, Appended
<1>6. Follows(hd, Added(s, m))
  BY <1>1, <1>2, <1>4, FollowsAdded
<1>7. c = "malformed" => \E k \in Nat : 1 <= k /\ k <= Size(Added(s, m)) /\ Added(s, m)[k] = Garbled
  <2>1. SUFFICES ASSUME c = "malformed" PROVE \E k \in Nat : 1 <= k /\ k <= g /\ Added(s, m)[k] = Garbled
    BY <1>5
  <2>2. PICK k \in Nat : 1 <= k /\ k <= y /\ s[k] = Garbled
    BY <1>3, <2>1 DEF Down
  <2>3. k <= g
    BY <1>3, <2>2
  <2> QED
    BY <1>5, <2>2, <2>3
<1>8. Cat(w, e) \in Seq(Byte) /\ Cat(b, w) \in Seq(Byte) /\ Cat(Cat(b, w), e) = Cat(b, Cat(w, e))
  BY <1>1, <1>4, CatType, CatAssoc
<1>9. c \in Live => Framed(r, Added(s, m), x, f, Cat(b, Cat(w, e)))
  <2>1. SUFFICES ASSUME c \in Live PROVE Framed(r, Added(s, m), x, f, Cat(b, Cat(w, e)))
    OBVIOUS
  <2>2. Framed(r, s, x, f, Cat(b, w))
    BY <1>3, <2>1 DEF Down
  <2>3. \A k \in Nat : k = Size(s) + 1 => IsDown(k, r, m, e)
    OBVIOUS
  <2>4. Framed(r, Added(s, m), x, f, Cat(Cat(b, w), e))
    BY <1>1, <1>4, <1>8, <2>2, <2>3, FramedExtend
  <2> QED
    BY <1>8, <2>4
<1>10. c \in Live => \A k \in Nat : k = Size(hd) + 1 => Pending(DecodeAt(k, r, f))
  BY DEF Down
<1>11. Down(r, c, f, b, Cat(w, e), Added(s, m), hd)
  BY <1>1, <1>2, <1>3, <1>5, <1>6, <1>7, <1>8, <1>9, <1>10 DEF Down
<1> QED
  BY <1>5, <1>11

\* Bytes that move from one buffer to the next stay in order.
LEMMA Regroup ==
  \A a, b, c, d \in Seq(Byte) : Cat(b, c) = d =>
    /\ Cat(Cat(a, b), c) = Cat(a, d) /\ Cat(b, Cat(c, a)) = Cat(d, a)
    /\ Cat(a, b) \in Seq(Byte) /\ Cat(c, a) \in Seq(Byte)
<1> SUFFICES ASSUME NEW a \in Seq(Byte), NEW b \in Seq(Byte), NEW c \in Seq(Byte)
             PROVE  /\ Cat(Cat(a, b), c) = Cat(a, Cat(b, c)) /\ Cat(b, Cat(c, a)) = Cat(Cat(b, c), a)
                    /\ Cat(a, b) \in Seq(Byte) /\ Cat(c, a) \in Seq(Byte)
  OBVIOUS
<1>1. Cat(Cat(a, b), c) = Cat(a, Cat(b, c))
  BY CatAssoc
<1>2. Cat(Cat(b, c), a) = Cat(b, Cat(c, a))
  BY CatAssoc
<1>3. Cat(a, b) \in Seq(Byte) /\ Cat(c, a) \in Seq(Byte)
  BY CatType
<1> QED
  BY <1>1, <1>2, <1>3

\* _fill_buf moves bytes and loses none.
LEMMA FillStep ==
  ASSUME NEW r, NEW c, NEW f, NEW b, NEW w, NEW s, NEW hd, Down(r, c, f, b, w, s, hd), NEW n \in Nat, n <= Size(w)
  PROVE  Down(r, c, f, Cat(b, SubSeq(w, 1, n)), SubSeq(w, n + 1, Len(w)), s, hd)
<1>1. f \in Seq(Byte) /\ b \in Seq(Byte) /\ w \in Seq(Byte)
  BY DEF Down
<1>2. PICK x \in Seq(Byte), y \in Seq(Byte) : x = SubSeq(w, 1, n) /\ y = SubSeq(w, n + 1, Len(w)) /\ Cat(x, y) = w
  BY <1>1, Split
<1>3. Cat(Cat(b, x), y) = Cat(b, w) /\ Cat(b, x) \in Seq(Byte)
  <2>1. Cat(x, y) = w
    BY <1>2
  <2> QED
    BY <1>1, <2>1, Regroup
<1>4. Down(r, c, f, Cat(b, x), y, s, hd)
  BY <1>1, <1>3 DEF Down
<1> QED
  BY <1>2, <1>4

\* A client may close at any time.
LEMMA CloseStep ==
  ASSUME NEW r, NEW c, NEW f, NEW b, NEW w, NEW s, NEW hd, Down(r, c, f, b, w, s, hd),
         NEW f2 \in Seq(Byte), NEW b2 \in Seq(Byte)
  PROVE  Down(r, "closed", f2, b2, w, s, hd)
BY DEF Down, HeardSoFar, Places, Live

\* Steps of a client that read nothing.
LEMMA MoveStep ==
  ASSUME NEW r, NEW c, NEW f, NEW b, NEW w, NEW s, NEW hd, Down(r, c, f, b, w, s, hd),
         NEW c2, (c = "register" /\ c2 = "open") \/ (c = "open" /\ c2 = "auth") \/ (c = "up" /\ c2 = "asked")
  PROVE  Down(r, c2, f, b, w, s, hd)
<1>1. c \in Live /\ c2 \in Live /\ c2 \in Places /\ c2 # "malformed"
  BY DEF Live, Places
<1>2. HeardSoFar(c2, hd)
  BY DEF Down, HeardSoFar
<1> QED
  BY <1>1, <1>2 DEF Down

\* The client uses the decoder of the message that is due.
LEMMA DecodesHere ==
  ASSUME NEW r, NEW c, NEW f, NEW b, NEW w, NEW s, NEW hd, Down(r, c, f, b, w, s, hd), c \in Reading,
         r = role, c = cpc, NEW g \in Nat, g = Size(hd) + 1
  PROVE  \A a : Decode(a) = DecodeAt(g, r, a)
<1> SUFFICES ASSUME NEW a PROVE Decode(a) = DecodeAt(g, r, a)
  OBVIOUS
<1>1. PICK x \in Nat : x = Size(hd) /\ g = x + 1
  BY Counted DEF Down
<1>2. CASE c = "auth"
  <2>1. g = 1
    BY <1>1, <1>2 DEF Down, HeardSoFar
  <2> QED
    BY <1>2, <2>1 DEF Decode, DecodeAt
<1>3. CASE c = "await"
  <2>1. g = 2
    BY <1>1, <1>3 DEF Down, HeardSoFar
  <2>2. r \in {"probe", "provider"}
    BY DEF Down, Roles
  <2> QED
    BY <1>3, <2>1, <2>2 DEF Decode, DecodeAt
<1>4. CASE c \in {"up", "asked"}
  <2>1. g # 1 /\ g # 2
    <3>1. 2 <= x
      BY <1>1, <1>4 DEF Down, HeardSoFar
    <3> QED
      BY <1>1, <3>1
  <2> QED
    BY <1>4, <2>1 DEF Decode, DecodeAt
<1> QED
  BY <1>2, <1>3, <1>4 DEF Reading

\* What the decoder's answer d to the bytes a means for a client, that keeps
\* the bytes left.
Took(r, c, w, s, hd, a, left, d) ==
    /\ left \in Seq(Byte)
    /\ d.tag = "partial" => Down(r, c, a, left, w, s, hd)
    /\ d.tag = "malformed" => \A f2, b2 \in Seq(Byte) : Down(r, "malformed", f2, b2, w, s, hd)
    /\ d.tag = "ok" /\ c = "auth" => Down(r, "await", <<>>, left, w, s, Added(hd, d.message))
    /\ d.tag = "ok" /\ c # "auth" => Down(r, "up", <<>>, left, w, s, Added(hd, d.message))

\* What a client does with n bytes that it has asked for.
LEMMA ReadingStep ==
  ASSUME NEW r, NEW c, NEW f, NEW b, NEW w, NEW s, NEW hd, Down(r, c, f, b, w, s, hd), c \in Reading,
         NEW g \in Nat, g = Size(hd) + 1, NEW n \in Nat, 1 <= n, n <= Size(b), n <= DecodeAt(g, r, f).missing,
         NEW a, a = Cat(f, SubSeq(b, 1, n)), NEW left, left = SubSeq(b, n + 1, Len(b))
  PROVE  Took(r, c, w, s, hd, a, left, DecodeAt(g, r, a))
<1>1. /\ r \in Roles /\ c \in Live /\ c \in Places
      /\ f \in Seq(Byte) /\ b \in Seq(Byte) /\ w \in Seq(Byte) /\ s \in Seq(Messages) /\ hd \in Seq(Messages)
  BY DEF Down, Reading, Live, Places
<1>2. Follows(hd, s) /\ HeardSoFar(c, hd)
  BY DEF Down
<1>3. PICK h \in Nat : h = Size(hd) /\ g = h + 1
  BY <1>1, Counted
<1>4. PICK x \in Seq(Byte) : x = SubSeq(b, 1, n) /\ Size(x) = n /\ left \in Seq(Byte) /\ Cat(x, left) = b
  BY <1>1, Split
<1>5. a = Cat(f, x) /\ a \in Seq(Byte) /\ Cat(x, Cat(left, w)) = Cat(b, w) /\ Cat(left, w) \in Seq(Byte)
  <2>1. PICK y \in Seq(Byte) : y = left /\ Cat(x, y) = b
    BY <1>4
  <2>2. Cat(x, Cat(y, w)) = Cat(b, w) /\ Cat(y, w) \in Seq(Byte)
    <3>1. Cat(x, y) = b /\ b \in Seq(Byte) /\ w \in Seq(Byte)
      BY <1>1, <2>1
    <3> QED
      BY <3>1, Regroup
  <2>3. a = Cat(f, x)
    <3>1. x = SubSeq(b, 1, n)
      BY <1>4
    <3>2. a = Cat(f, SubSeq(b, 1, n))
      OBVIOUS
    <3> QED
      BY <3>1, <3>2, Zenon
  <2>4. Cat(f, x) \in Seq(Byte)
    BY <1>1, CatType
  <2> QED
    BY <2>1, <2>2, <2>3, <2>4
<1>6. Framed(r, s, h, f, Cat(x, Cat(left, w))) /\ Pending(DecodeAt(g, r, f))
  BY <1>1, <1>3, <1>5 DEF Down
<1>7. Progress(r, s, h, g, a, Cat(left, w))
  <2>1. 1 <= Size(x) /\ Size(x) <= DecodeAt(g, r, f).missing
    BY <1>4
  <2> QED
    <3>1. PICK rest \in Seq(Byte) : rest = Cat(left, w)
      BY <1>5
    <3>2. Framed(r, s, h, f, Cat(x, rest))
      BY <1>6, <3>1
    <3>3. g = h + 1 /\ r \in Roles /\ s \in Seq(Messages) /\ f \in Seq(Byte) /\ Pending(DecodeAt(g, r, f))
      BY <1>1, <1>3, <1>6
    <3>4. Progress(r, s, h, g, Cat(f, x), rest)
      BY <2>1, <3>2, <3>3, ReadStep
    <3> QED
      BY <1>5, <3>1, <3>4
<1>8. PICK d : d = DecodeAt(g, r, a)
  OBVIOUS
<1>9. CASE d.tag = "partial"
  <2>1. Framed(r, s, h, a, Cat(left, w)) /\ Pending(d)
    BY <1>7, <1>8, <1>9 DEF Progress
  <2>2. \A k \in Nat : k = Size(hd) + 1 => Pending(DecodeAt(k, r, a))
    BY <1>8, <2>1
  <2>3. c # "malformed"
    BY <1>1 DEF Live
  <2>4. Down(r, c, a, left, w, s, hd)
    BY <1>1, <1>2, <1>3, <1>4, <1>5, <2>1, <2>2, <2>3 DEF Down
  <2> QED
    BY <1>4, <1>8, <1>9, <2>4 DEF Took
<1>10. CASE d.tag = "malformed"
  <2>1. s[g] = Garbled /\ g <= Size(s) /\ 1 <= g
    BY <1>3, <1>7, <1>8, <1>10 DEF Progress, Pending
  <2>2. HeardSoFar("malformed", hd) /\ "malformed" \in Places /\ "malformed" \notin Live
    BY DEF HeardSoFar, Places, Live
  <2>3. ASSUME NEW f2 \in Seq(Byte), NEW b2 \in Seq(Byte) PROVE Down(r, "malformed", f2, b2, w, s, hd)
    BY <1>1, <1>2, <2>1, <2>2 DEF Down
  <2> QED
    BY <1>4, <1>8, <1>10, <2>3 DEF Took
<1>11. CASE d.tag = "ok"
  <2>1. d.message = s[g] /\ g <= Size(s) /\ Framed(r, s, g, <<>>, Cat(left, w))
    BY <1>7, <1>8, <1>11 DEF Progress, Pending
  <2>2. PICK h2 \in Seq(Messages) : h2 = Added(hd, d.message) /\ Size(h2) = g /\ Follows(h2, s)
    BY <1>1, <1>2, <1>3, <2>1, FollowsNext
  <2>3. ASSUME NEW k \in Nat, k = Size(h2) + 1 PROVE Pending(DecodeAt(k, r, <<>>))
    <3>1. 1 <= k
      BY <2>2, <2>3
    <3> QED
      BY <1>1, <3>1, NothingRead DEF Pending
  <2>4. ASSUME NEW c2 \in {"await", "up"}, HeardSoFar(c2, h2) PROVE Down(r, c2, <<>>, left, w, s, h2)
    <3>1. c2 \in Places /\ c2 # "malformed"
      BY DEF Places, Live
    <3>2. <<>> \in Seq(Byte)
      BY Nothing
    <3> QED
      BY <1>1, <1>4, <2>1, <2>2, <2>3, <2>4, <3>1, <3>2 DEF Down
  <2>5. c = "auth" => HeardSoFar("await", h2)
    <3>1. SUFFICES ASSUME c = "auth" PROVE g = 1
      BY <2>2 DEF HeardSoFar
    <3> QED
      BY <1>2, <1>3, <3>1 DEF HeardSoFar
  <2>6. c # "auth" => HeardSoFar("up", h2)
    <3>1. SUFFICES ASSUME c # "auth" PROVE 2 <= g
      BY <2>2 DEF HeardSoFar
    <3>2. h = 1 \/ 2 <= h
      BY <1>2, <1>3, <3>1 DEF HeardSoFar, Reading
    <3> QED
      BY <1>3, <3>2
  <2> QED
    BY <1>4, <1>8, <1>11, <2>2, <2>4, <2>5, <2>6 DEF Took
<1>12. CASE d.tag \notin {"partial", "malformed", "ok"}
  BY <1>4, <1>8, <1>12 DEF Took
<1> QED
  BY <1>9, <1>10, <1>11, <1>12

\* A client's next message.
LEMMA WriteStep ==
  ASSUME NEW r, NEW c, NEW up, NEW me, NEW ta, Upward(r, c, up, me, ta), NEW g \in Nat, g = Size(me) + 1,
         NEW m, NEW e, IsSent(g, r, m, e), NEW c2, MeantSoFar(r, c2, Added(me, m))
  PROVE  Upward(r, c2, Added(up, e), Added(me, m), ta)
<1>1. PICK n \in Nat : n = Size(me) /\ g = n + 1
  BY Counted DEF Upward, InOrder
<1>2. InOrder(r, Added(up, e), Added(me, m), ta)
  BY <1>1, SendStep DEF Upward
<1> QED
  BY <1>2 DEF Upward

\* A client that stops sends no more.
LEMMA StopStep ==
  ASSUME NEW r, NEW c, NEW up, NEW me, NEW ta, Upward(r, c, up, me, ta), NEW c2 \in {"closed", "malformed"}
  PROVE  Upward(r, c2, up, me, ta)
BY DEF Upward, MeantSoFar

\* Two ways to write a longer sequence.
LEMMA AsAdded ==
  \A S : \A q \in Seq(S), x \in S : Append(q, x) = Added(q, x) /\ q \o <<x>> = Added(q, x)
BY AppendIsConcat DEF Added

\* The invariant holds before anything is said.
LEMMA InvInit == ClientInit => StreamInv
<1> SUFFICES ASSUME ClientInit PROVE StreamInv
  OBVIOUS
<1>1. /\ role \in Roles /\ cpc \in {"register", "open"} /\ spc = "auth"
      /\ frag = <<>> /\ rbuf = <<>> /\ wire = <<>> /\ upstream = <<>>
      /\ meant = <<>> /\ taken = <<>> /\ said = <<>> /\ heard = <<>>
  BY DEF ClientInit, Roles
<1>2. Size(<<>>) = 0 /\ \A S : <<>> \in Seq(S)
  BY EmptySeq, Nothing
<1>3. \A k \in Nat : ~(1 <= k /\ k <= 0)
  OBVIOUS
<1>4. Follows(<<>>, <<>>)
  BY <1>2, <1>3 DEF Follows
<1>5. HeardSoFar(cpc, <<>>) /\ MeantSoFar(role, cpc, <<>>)
  BY <1>1, <1>2 DEF HeardSoFar, MeantSoFar
<1>6. ASSUME NEW g \in Nat, g = 0 + 1 PROVE Pending(DecodeAt(g, role, <<>>))
  <2>1. 1 <= g
    BY <1>6
  <2> QED
    BY <1>1, <2>1, NothingRead DEF Pending
<1>7. Framed(role, <<>>, 0, <<>>, Cat(<<>>, <<>>))
  BY FramedNothing
<1>8. cpc \in Places /\ cpc # "malformed"
  BY <1>1 DEF Places, Live
<1>9. Down(role, cpc, <<>>, <<>>, <<>>, <<>>, <<>>)
  BY <1>1, <1>2, <1>4, <1>5, <1>6, <1>7, <1>8 DEF Down
<1>10. InOrder(role, <<>>, <<>>, <<>>)
  BY <1>2, <1>3 DEF InOrder
<1>11. Upward(role, cpc, <<>>, <<>>, <<>>)
  BY <1>1, <1>5, <1>10 DEF Upward
<1>12. Serving(role, spc, <<>>, <<>>)
  BY <1>1, <1>2 DEF Serving
<1> QED
  BY <1>1, <1>9, <1>11, <1>12 DEF StreamInv

\* _fill_buf keeps the invariant.
LEMMA FillBufInv ==
  ASSUME StreamInv, NEW n \in 1..Len(wire), FillBuf(n)
  PROVE  StreamInv'
<1>1. wire \in Seq(Byte) /\ n \in Nat /\ n <= Size(wire)
  <2>1. wire \in Seq(Byte)
    BY DEF StreamInv, Down
  <2> QED
    BY <2>1, LenProperties DEF Size
<1>2. Down(role, cpc, frag, Cat(rbuf, SubSeq(wire, 1, n)), SubSeq(wire, n + 1, Len(wire)), said, heard)
  BY <1>1, FillStep DEF StreamInv
<1>3. rbuf' = Cat(rbuf, SubSeq(wire, 1, n)) /\ wire' = SubSeq(wire, n + 1, Len(wire))
  BY DEF FillBuf, Cat
<1>4. UNCHANGED <<role, cpc, frag, upstream, spc, meant, taken, said, heard>>
  BY DEF FillBuf
<1> QED
  BY <1>2, <1>3, <1>4 DEF StreamInv

\* The end of the stream keeps it.
LEMMA ReadEofInv ==
  ASSUME StreamInv, ReadEof
  PROVE  StreamInv'
<1>1. cpc' = "closed" /\ rbuf' = <<>> /\ frag' = <<>> /\ UNCHANGED <<role, wire, said, heard, upstream, meant, taken, spc>>
  BY DEF ReadEof, Abandon, Shutdown, NoWrite, serverSide
<1>2. Down(role, "closed", <<>>, <<>>, wire, said, heard)
  BY CloseStep, Nothing DEF StreamInv
<1>3. Upward(role, "closed", upstream, meant, taken)
  BY StopStep DEF StreamInv
<1> QED
  BY <1>1, <1>2, <1>3 DEF StreamInv

\* register_probe keeps it.
LEMMA RegisterProbeInv ==
  ASSUME StreamInv, NEW ok \in BOOLEAN, RegisterProbe(ok)
  PROVE  StreamInv'
<1>1. cpc = "register" /\ UNCHANGED <<role, frag, rbuf, wire, said, heard, upstream, meant, taken, spc>>
  BY DEF RegisterProbe, NoWrite, serverSide
<1>2. CASE cpc' = "open"
  <2>1. Down(role, "open", frag, rbuf, wire, said, heard)
    BY <1>1, MoveStep DEF StreamInv
  <2>2. Upward(role, "open", upstream, meant, taken)
    BY <1>1 DEF StreamInv, Upward, MeantSoFar
  <2> QED
    BY <1>1, <1>2, <2>1, <2>2 DEF StreamInv
<1>3. CASE cpc' = "closed"
  <2>1. frag \in Seq(Byte) /\ rbuf \in Seq(Byte)
    BY DEF StreamInv, Down
  <2>2. Down(role, "closed", frag, rbuf, wire, said, heard)
    BY <2>1, CloseStep DEF StreamInv
  <2>3. Upward(role, "closed", upstream, meant, taken)
    BY StopStep DEF StreamInv
  <2> QED
    BY <1>1, <1>3, <2>2, <2>3 DEF StreamInv
<1>4. cpc' = "open" \/ cpc' = "closed"
  BY DEF RegisterProbe
<1> QED
  BY <1>2, <1>3, <1>4

\* The connection and the AuthRequest keep it.
LEMMA OpenInv ==
  ASSUME StreamInv, NEW ok \in BOOLEAN, Open(ok)
  PROVE  StreamInv'
<1>1. cpc = "open" /\ UNCHANGED <<role, wire, said, heard, taken, spc>>
  BY DEF Open, serverSide
<1>2. PICK m : m = [authType |-> IF role = "probe" THEN 2 ELSE 1, token |-> Token]
  OBVIOUS
<1>3. CASE cpc' = "auth" /\ upstream' = Append(upstream, encode_AuthRequest(m)) /\ meant' = Append(meant, m)
           /\ UNCHANGED <<rbuf, frag>>
  <2>1. m \in AuthMessages
    BY <1>2 DEF AuthMessages, AuthTypes
  <2>2. IsSent(1, role, m, encode_AuthRequest(m))
    BY <2>1 DEF IsSent
  <2>3. Size(meant) = 0 /\ meant \in Seq(Messages) /\ upstream \in Seq(Encoded)
    BY <1>1 DEF StreamInv, Upward, MeantSoFar, InOrder
  <2>4. encode_AuthRequest(m) \in Encoded /\ m \in Messages
    BY <2>2, SentEncoded
  <2>5. upstream' = Added(upstream, encode_AuthRequest(m)) /\ meant' = Added(meant, m)
    BY <1>3, <2>3, <2>4, AsAdded
  <2>6. 1 \in Nat /\ 1 = Size(meant) + 1
    BY <2>3
  <2>7. Size(Added(meant, m)) = 1
    BY <2>3, <2>4, Appended
  <2>8. MeantSoFar(role, "auth", Added(meant, m))
    BY <2>7 DEF MeantSoFar
  <2>9. Upward(role, "auth", Added(upstream, encode_AuthRequest(m)), Added(meant, m), taken)
    BY <2>2, <2>6, <2>8, WriteStep DEF StreamInv
  <2>10. Down(role, "auth", frag, rbuf, wire, said, heard)
    BY <1>1, MoveStep DEF StreamInv
  <2> QED
    BY <1>1, <1>3, <2>5, <2>9, <2>10 DEF StreamInv
<1>4. CASE cpc' = "closed" /\ rbuf' = <<>> /\ frag' = <<>> /\ UNCHANGED <<upstream, meant>>
  <2>1. Down(role, "closed", <<>>, <<>>, wire, said, heard)
    BY CloseStep, Nothing DEF StreamInv
  <2>2. Upward(role, "closed", upstream, meant, taken)
    BY StopStep DEF StreamInv
  <2> QED
    BY <1>1, <1>4, <2>1, <2>2 DEF StreamInv
<1> QED
  BY <1>2, <1>3, <1>4 DEF Open, Abandon, NoWrite, Writes

\* write_all of the message that is due.
LEMMA WriteHere ==
  ASSUME StreamInv, NEW g \in Nat, g = Size(meant) + 1, NEW m, NEW e, IsSent(g, role, m, e), Writes(m, e),
         NEW c2, \A me2 : Size(me2) = g => MeantSoFar(role, c2, me2)
  PROVE  Upward(role, c2, upstream', meant', taken)
<1>1. meant \in Seq(Messages) /\ upstream \in Seq(Encoded) /\ e \in Encoded /\ m \in Messages
  BY SentEncoded DEF StreamInv, Upward, InOrder
<1>2. upstream' = Added(upstream, e) /\ meant' = Added(meant, m)
  BY <1>1, AsAdded DEF Writes
<1>3. PICK n \in Nat : n = Size(meant) /\ g = n + 1
  BY <1>1, Counted
<1>4. Size(Added(meant, m)) = g
  BY <1>1, <1>3, Appended
<1>5. Upward(role, c2, Added(upstream, e), Added(meant, m), taken)
  BY <1>4, WriteStep DEF StreamInv
<1> QED
  BY <1>2, <1>5

\* A client that reads is told a number of bytes, and not none.
LEMMA MissingType ==
  ASSUME StreamInv, cpc \in Reading
  PROVE  Missing \in Nat /\ 1 <= Missing
<1>1. Down(role, cpc, frag, rbuf, wire, said, heard)
  BY DEF StreamInv
<1>2. PICK g \in Nat : g = Size(heard) + 1
  BY Counted DEF StreamInv, Down
<1>3. Missing = DecodeAt(g, role, frag).missing
  BY <1>1, <1>2, DecodesHere DEF Missing
<1>4. Pending(DecodeAt(g, role, frag))
  BY <1>2 DEF StreamInv, Down, Reading, Live
<1> QED
  BY <1>3, <1>4 DEF Pending

\* read_message and ApduStream.recv, with as many of the bytes they miss.
LEMMA TakeBytes ==
  ASSUME StreamInv, cpc \in Reading, NEW n \in Nat, 1 <= n, n <= Len(rbuf), n <= Missing,
         NEW all, all = frag \o SubSeq(rbuf, 1, n), NEW left, left = SubSeq(rbuf, n + 1, Len(rbuf)),
         NEW d, d = Decode(all)
  PROVE  /\ left \in Seq(Byte)
         /\ d.tag = "partial" => Down(role, cpc, all, left, wire, said, heard)
         /\ d.tag = "malformed" => \A f2, b2 \in Seq(Byte) : Down(role, "malformed", f2, b2, wire, said, heard)
         /\ d.tag = "ok" =>
              /\ cpc = "auth" => Down(role, "await", <<>>, left, wire, said, Append(heard, d.message))
              /\ cpc # "auth" => Down(role, "up", <<>>, left, wire, said, Append(heard, d.message))
<1>1. Down(role, cpc, frag, rbuf, wire, said, heard)
  BY DEF StreamInv
<1>2. PICK g \in Nat : g = Size(heard) + 1
  BY Counted DEF StreamInv, Down
<1>3. \A a : Decode(a) = DecodeAt(g, role, a)
  BY <1>1, <1>2, DecodesHere
<1>4. n <= DecodeAt(g, role, frag).missing
  BY <1>3 DEF Missing
<1>5. n <= Size(rbuf) /\ d = DecodeAt(g, role, all) /\ all = Cat(frag, SubSeq(rbuf, 1, n))
  BY <1>3 DEF Size, Cat
<1>6. Took(role, cpc, wire, said, heard, all, left, d)
  <2>1. Took(role, cpc, wire, said, heard, all, left, DecodeAt(g, role, all))
    BY <1>1, <1>2, <1>4, <1>5, ReadingStep
  <2> QED
    BY <1>5, <2>1
<1> QED
  BY <1>6 DEF Took, Added

\* read_message keeps the invariant, with what _authenticate, _connect and
\* _wait_for_connection do after it.
LEMMA ReadMessageInv ==
  ASSUME StreamInv, NEW ident \in Idents, NEW flags \in Flags, NEW status \in {0, 1}, ReadMessage(ident, flags, status)
  PROVE  StreamInv'
<1>1. cpc \in {"auth", "await"} /\ cpc \in Reading /\ Len(rbuf) >= Missing
  BY DEF ReadMessage, InMessage, Reading
<1>2. PICK n \in Nat : n = Missing /\ 1 <= n /\ n <= Len(rbuf) /\ n <= Missing
  <2>1. Len(rbuf) \in Nat
    BY LenProperties DEF StreamInv, Down
  <2> QED
    BY <1>1, <2>1, MissingType
<1>3. PICK all, left, d : all = frag \o SubSeq(rbuf, 1, n) /\ left = SubSeq(rbuf, n + 1, Len(rbuf)) /\ d = Decode(all)
  OBVIOUS
<1>4. /\ left \in Seq(Byte)
      /\ d.tag = "partial" => Down(role, cpc, all, left, wire, said, heard)
      /\ d.tag = "malformed" => \A f2, b2 \in Seq(Byte) : Down(role, "malformed", f2, b2, wire, said, heard)
      /\ d.tag = "ok" =>
           /\ cpc = "auth" => Down(role, "await", <<>>, left, wire, said, Append(heard, d.message))
           /\ cpc # "auth" => Down(role, "up", <<>>, left, wire, said, Append(heard, d.message))
  BY <1>1, <1>2, <1>3, TakeBytes
<1>5. UNCHANGED <<role, wire, spc, taken, said>>
  BY DEF ReadMessage, serverSide
<1>6. Upward(role, cpc, upstream, meant, taken) /\ Serving(role, spc, said, taken)
  BY DEF StreamInv
<1>7. CASE d.tag = "partial" /\ frag' = all /\ rbuf' = left /\ NoWrite /\ UNCHANGED <<cpc, session, heard>>
  BY <1>4, <1>5, <1>6, <1>7 DEF StreamInv, NoWrite
<1>8. CASE d.tag = "malformed" /\ Abandon("malformed") /\ NoWrite /\ UNCHANGED heard
  <2>1. Down(role, "malformed", <<>>, <<>>, wire, said, heard)
    BY <1>4, <1>8, Nothing
  <2>2. Upward(role, "malformed", upstream, meant, taken)
    BY <1>6, StopStep
  <2> QED
    BY <1>5, <1>6, <1>8, <2>1, <2>2 DEF StreamInv, NoWrite, Abandon
<1>9. CASE /\ d.tag = "ok" /\ heard' = Append(heard, d.message)
           /\ \/ cpc = "auth" /\ Authenticated(d.message, ident, flags)
              \/ cpc = "await" /\ role = "probe" /\ Connected(d.message)
              \/ cpc = "await" /\ role = "provider" /\ Requested(status)
           /\ rbuf' = IF cpc' = "closed" THEN <<>> ELSE left
  <2>1. PICK c2 \in {"await", "up"} : /\ Down(role, c2, <<>>, left, wire, said, heard')
                                      /\ c2 = (IF cpc = "auth" THEN "await" ELSE "up")
    BY <1>1, <1>4, <1>9
  <2>2. CASE cpc' = "closed" /\ frag' = <<>> /\ Upward(role, "closed", upstream', meant', taken)
    <3>1. Down(role, "closed", <<>>, <<>>, wire, said, heard')
      BY <2>1, CloseStep, Nothing
    <3> QED
      BY <1>5, <1>6, <1>9, <2>2, <3>1 DEF StreamInv
  <2>3. CASE cpc' = c2 /\ frag' = <<>> /\ Upward(role, c2, upstream', meant', taken)
    <3>1. rbuf' = left
      BY <1>9, <2>3
    <3> QED
      BY <1>5, <1>6, <2>1, <2>3, <3>1 DEF StreamInv
  <2>4. CASE cpc = "auth" /\ Authenticated(d.message, ident, flags)
    <3>1. CASE d.message.status # Success
      BY <1>6, <2>2, <2>4, <3>1, StopStep DEF Authenticated, Abandon, NoWrite
    <3>2. CASE d.message.status = Success
      <4>1. Size(meant) = 1
        BY <1>6, <2>4 DEF Upward, MeantSoFar
      <4>2. cpc' = c2 /\ c2 = "await" /\ frag' = <<>>
        BY <2>1, <2>4, <3>2 DEF Authenticated
      <4>3. CASE role = "probe"
        <5>1. PICK m : m = [flags |-> flags, identifier |-> ident]
          OBVIOUS
        <5>2. Writes(m, encode_ConnectRequest(m))
          BY <2>4, <3>2, <4>3, <5>1 DEF Authenticated
        <5>3. IsSent(2, role, m, encode_ConnectRequest(m))
          BY <4>3, <5>1 DEF IsSent, RequestMessages
        <5>4. 2 \in Nat /\ 2 = Size(meant) + 1
          BY <4>1
        <5>5. \A me2 : Size(me2) = 2 => MeantSoFar(role, "await", me2)
          BY <4>3 DEF MeantSoFar
        <5>6. Upward(role, "await", upstream', meant', taken)
          BY <5>2, <5>3, <5>4, <5>5, WriteHere
        <5> QED
          BY <2>3, <4>2, <5>6
      <4>4. CASE role # "probe"
        <5>1. UNCHANGED <<upstream, meant>>
          BY <2>4, <3>2, <4>4 DEF Authenticated, NoWrite
        <5>2. Upward(role, "await", upstream, meant, taken)
          BY <1>6, <4>1, <4>4 DEF Upward, MeantSoFar
        <5> QED
          BY <2>3, <4>2, <5>1, <5>2
      <4> QED
        BY <4>3, <4>4
    <3> QED
      BY <3>1, <3>2
  <2>5. CASE cpc = "await" /\ role = "probe" /\ Connected(d.message)
    <3>1. UNCHANGED <<upstream, meant>> /\ frag' = <<>> /\ cpc' \in {"closed", "up"} /\ c2 = "up"
      BY <2>1, <2>5 DEF Connected, NoWrite, Abandon
    <3>2. Upward(role, "closed", upstream, meant, taken)
      BY <1>6, StopStep
    <3>3. Upward(role, "up", upstream, meant, taken)
      BY <1>6, <2>5 DEF Upward, MeantSoFar
    <3> QED
      BY <2>2, <2>3, <3>1, <3>2, <3>3
  <2>6. CASE cpc = "await" /\ role = "provider" /\ Requested(status)
    <3>1. PICK m : m = [status |-> status]
      OBVIOUS
    <3>2. Writes(m, encode_Response(m)) /\ frag' = <<>> /\ cpc' \in {"closed", "up"} /\ c2 = "up"
      BY <2>1, <2>6, <3>1 DEF Requested, Abandon
    <3>3. IsSent(2, role, m, encode_Response(m))
      BY <2>6, <3>1 DEF IsSent, StatusMessages, ConnectStatuses
    <3>4. 2 \in Nat /\ 2 = Size(meant) + 1
      BY <1>6, <2>6 DEF Upward, MeantSoFar
    <3>5. \A c \in {"closed", "up"} : \A me2 : Size(me2) = 2 => MeantSoFar(role, c, me2)
      BY DEF MeantSoFar
    <3>6. \A c \in {"closed", "up"} : Upward(role, c, upstream', meant', taken)
      BY <3>2, <3>3, <3>4, <3>5, WriteHere
    <3> QED
      BY <2>2, <2>3, <3>2, <3>6
  <2> QED
    BY <1>9, <2>4, <2>5, <2>6
<1>10. \/ d.tag = "partial" /\ frag' = all /\ rbuf' = left /\ NoWrite /\ UNCHANGED <<cpc, session, heard>>
       \/ d.tag = "malformed" /\ Abandon("malformed") /\ NoWrite /\ UNCHANGED heard
       \/ /\ d.tag = "ok" /\ heard' = Append(heard, d.message)
          /\ \/ cpc = "auth" /\ Authenticated(d.message, ident, flags)
             \/ cpc = "await" /\ role = "probe" /\ Connected(d.message)
             \/ cpc = "await" /\ role = "provider" /\ Requested(status)
          /\ rbuf' = IF cpc' = "closed" THEN <<>> ELSE left
  BY <1>2, <1>3 DEF ReadMessage
<1> QED
  BY <1>7, <1>8, <1>9, <1>10

\* ApduStream.recv keeps it, with the answer of a provider.
LEMMA RecvApduInv ==
  ASSUME StreamInv, NEW response \in Payloads, RecvApdu(response)
  PROVE  StreamInv'
<1>1. cpc \in {"up", "asked"} /\ cpc \in Reading /\ cpc # "auth" /\ rbuf # <<>>
  BY DEF RecvApdu, Waits, InMessage, Reading
<1>2. PICK n \in Nat : /\ n = (IF Missing <= Len(rbuf) THEN Missing ELSE Len(rbuf))
                       /\ 1 <= n /\ n <= Len(rbuf) /\ n <= Missing
  <2>1. Len(rbuf) \in Nat /\ 1 <= Len(rbuf)
    BY <1>1, EmptySeq, LenProperties DEF StreamInv, Down
  <2> QED
    BY <1>1, <2>1, MissingType
<1>3. PICK all, left, d : all = frag \o SubSeq(rbuf, 1, n) /\ left = SubSeq(rbuf, n + 1, Len(rbuf)) /\ d = Decode(all)
  OBVIOUS
<1>4. /\ left \in Seq(Byte)
      /\ d.tag = "partial" => Down(role, cpc, all, left, wire, said, heard)
      /\ d.tag = "malformed" => \A f2, b2 \in Seq(Byte) : Down(role, "malformed", f2, b2, wire, said, heard)
      /\ d.tag = "ok" => Down(role, "up", <<>>, left, wire, said, Append(heard, d.message))
  BY <1>1, <1>2, <1>3, TakeBytes
<1>5. UNCHANGED <<role, wire, spc, taken, said>> /\ rbuf' = left
  BY <1>2, <1>3 DEF RecvApdu, serverSide
<1>6. Upward(role, cpc, upstream, meant, taken) /\ Serving(role, spc, said, taken)
  BY DEF StreamInv
<1>7. CASE d.tag = "partial" /\ frag' = all /\ NoWrite /\ UNCHANGED <<cpc, heard>>
  BY <1>4, <1>5, <1>6, <1>7 DEF StreamInv, NoWrite
<1>8. CASE d.tag = "malformed" /\ cpc' = "malformed" /\ frag' = <<>> /\ NoWrite /\ UNCHANGED heard
  <2>1. Down(role, "malformed", <<>>, left, wire, said, heard)
    BY <1>4, <1>8, Nothing
  <2>2. Upward(role, "malformed", upstream, meant, taken)
    BY <1>6, StopStep
  <2> QED
    BY <1>5, <1>6, <1>8, <2>1, <2>2 DEF StreamInv, NoWrite
<1>9. CASE /\ d.tag = "ok" /\ frag' = <<>> /\ cpc' = "up"
           /\ heard' = Append(heard, d.message)
           /\ IF role = "provider" THEN Writes(response, encode_ApduPacket(response)) ELSE NoWrite
  <2>1. Down(role, "up", <<>>, left, wire, said, heard')
    BY <1>4, <1>9
  <2>2. Upward(role, "up", upstream', meant', taken)
    <3>1. CASE role = "provider"
      <4>1. PICK k \in Nat, g \in Nat : k = Size(meant) /\ g = k + 1 /\ 3 <= g
        <5>1. PICK k \in Nat : k = Size(meant)
          BY <1>6, Counted DEF Upward, InOrder
        <5>2. 2 <= k
          BY <1>1, <1>6, <5>1 DEF Upward, MeantSoFar
        <5> QED
          BY <5>1, <5>2
      <4>2. IsSent(g, role, response, encode_ApduPacket(response))
        BY <4>1 DEF IsSent
      <4>3. \A me2 : Size(me2) = g => MeantSoFar(role, "up", me2)
        BY <4>1 DEF MeantSoFar
      <4>4. Writes(response, encode_ApduPacket(response))
        BY <1>9, <3>1
      <4> QED
        BY <4>1, <4>2, <4>3, <4>4, WriteHere
    <3>2. CASE role # "provider"
      <4>1. UNCHANGED <<upstream, meant>>
        BY <1>9, <3>2 DEF NoWrite
      <4>2. Upward(role, "up", upstream, meant, taken)
        BY <1>1, <1>6 DEF Upward, MeantSoFar
      <4> QED
        BY <4>1, <4>2
    <3> QED
      BY <3>1, <3>2
  <2> QED
    BY <1>5, <1>6, <1>9, <2>1, <2>2 DEF StreamInv
<1>10. \/ d.tag = "partial" /\ frag' = all /\ NoWrite /\ UNCHANGED <<cpc, heard>>
       \/ d.tag = "malformed" /\ cpc' = "malformed" /\ frag' = <<>> /\ NoWrite /\ UNCHANGED heard
       \/ /\ d.tag = "ok" /\ frag' = <<>> /\ cpc' = "up"
          /\ heard' = Append(heard, d.message)
          /\ IF role = "provider" THEN Writes(response, encode_ApduPacket(response)) ELSE NoWrite
  BY <1>2, <1>3 DEF RecvApdu
<1> QED
  BY <1>7, <1>8, <1>9, <1>10

\* A command of the modem keeps it.
LEMMA HandleApduInv ==
  ASSUME StreamInv, NEW p \in Payloads, HandleApdu(p)
  PROVE  StreamInv'
<1>1. /\ cpc = "up" /\ cpc' = "asked" /\ Writes(p, encode_ApduPacket(p))
      /\ UNCHANGED <<role, frag, rbuf, wire, said, heard, spc, taken>>
  BY DEF HandleApdu, serverSide
<1>2. Down(role, "asked", frag, rbuf, wire, said, heard)
  BY <1>1, MoveStep DEF StreamInv
<1>3. PICK k \in Nat, g \in Nat : k = Size(meant) /\ g = k + 1 /\ 3 <= g
  <2>1. PICK k \in Nat : k = Size(meant)
    BY Counted DEF StreamInv, Upward, InOrder
  <2>2. 2 <= k
    BY <1>1, <2>1 DEF StreamInv, Upward, MeantSoFar
  <2> QED
    BY <2>1, <2>2
<1>4. IsSent(g, role, p, encode_ApduPacket(p))
  BY <1>3 DEF IsSent
<1>5. \A me2 : Size(me2) = g => MeantSoFar(role, "asked", me2)
  BY <1>3 DEF MeantSoFar
<1>6. Upward(role, "asked", upstream', meant', taken)
  BY <1>1, <1>3, <1>4, <1>5, WriteHere
<1> QED
  BY <1>1, <1>2, <1>6 DEF StreamInv

\* The server says something of its own accord.
LEMMA SaysInv ==
  ASSUME StreamInv, NEW m, NEW e, NEW g \in Nat, g = Size(said) + 1, IsDown(g, role, m, e), Says(m, e),
         spc' = "refused" \/ (spc' = "up" /\ spc = "up"),
         UNCHANGED <<role, cpc, frag, rbuf, upstream, meant, taken, heard>>
  PROVE  StreamInv'
<1>1. said \in Seq(Messages) /\ role \in Roles
  BY DEF StreamInv, Down
<1>2. PICK n \in Nat : n = Size(said) /\ g = n + 1
  BY <1>1, Counted
<1>3. m \in Messages
  <2>1. 1 <= g
    BY <1>2
  <2> QED
    BY <1>1, <2>1, DownReads
<1>4. said' = Added(said, m) /\ wire' = Cat(wire, e)
  BY <1>1, <1>3, AsAdded DEF Says, Cat
<1>5. Down(role, cpc, frag, rbuf, Cat(wire, e), Added(said, m), heard) /\ Size(Added(said, m)) = g
  BY SayStep DEF StreamInv
<1>6. Serving(role, spc', Added(said, m), taken)
  <2>1. CASE spc' = "refused"
    BY <2>1 DEF Serving
  <2>2. CASE spc' = "up" /\ spc = "up"
    <3>1. 2 <= n /\ 2 <= Size(taken)
      BY <1>2, <2>2 DEF StreamInv, Serving
    <3>2. 2 <= g
      BY <1>2, <3>1
    <3> QED
      BY <1>5, <2>2, <3>1, <3>2 DEF Serving
  <2> QED
    BY <2>1, <2>2
<1> QED
  BY <1>4, <1>5, <1>6 DEF StreamInv

\* A packet of the other side keeps the invariant.
LEMMA ServerRelaysInv ==
  ASSUME StreamInv, NEW p \in Payloads, ServerRelays(p)
  PROVE  StreamInv'
<1>1. /\ spc = "up" /\ spc' = "up" /\ Says(p, encode_ApduPacket(p))
      /\ UNCHANGED <<role, cpc, frag, rbuf, upstream, meant, taken, heard>>
  BY DEF ServerRelays, IsUp
<1>2. PICK n \in Nat, g \in Nat : n = Size(said) /\ g = n + 1 /\ 3 <= g
  <2>1. PICK n \in Nat : n = Size(said)
    BY Counted DEF StreamInv, Down
  <2>2. 2 <= n
    BY <1>1, <2>1 DEF StreamInv, Serving
  <2> QED
    BY <2>1, <2>2
<1>3. IsDown(g, role, p, encode_ApduPacket(p))
  BY <1>2 DEF IsDown
<1> QED
  BY <1>1, <1>2, <1>3, SaysInv

\* Garbage keeps it.
LEMMA ServerGarblesInv ==
  ASSUME StreamInv, ServerGarbles
  PROVE  StreamInv'
<1>1. /\ spc' = "refused" /\ Says(Garbled, Garbage)
      /\ UNCHANGED <<role, cpc, frag, rbuf, upstream, meant, taken, heard>>
  BY DEF ServerGarbles, Garbled
<1>2. PICK n \in Nat, g \in Nat : n = Size(said) /\ g = n + 1
  <2>1. PICK n \in Nat : n = Size(said)
    BY Counted DEF StreamInv, Down
  <2> QED
    BY <2>1
<1>3. IsDown(g, role, Garbled, Garbage)
  BY DEF IsDown
<1> QED
  BY <1>1, <1>2, <1>3, SaysInv

\* The decoder the server uses.
ServerDecode(bytes) ==
    CASE spc = "auth" -> decode_AuthRequest(bytes)
      [] spc = "request" -> decode_ConnectRequest(bytes)
      [] spc = "response" -> decode_ConnectResponse(bytes)
      [] OTHER -> decode_ApduPacket(bytes)

\* The server decodes the next message of the client, as it was sent.
LEMMA ServerDecodes ==
  ASSUME StreamInv, upstream # <<>>, spc # "refused", NEW g \in Nat, g = Size(taken) + 1
  PROVE  ServerDecode(Head(upstream)) = Ok(meant[g])
<1>1. PICK t \in Nat : t = Size(taken) /\ g = t + 1 /\ 1 <= g
  BY Counted DEF StreamInv, Upward, InOrder
<1>2. PICK m, e : m = meant[g] /\ e = Head(upstream) /\ IsSent(g, role, m, e)
  BY <1>1, TakeStep DEF StreamInv, Upward
<1>3. role \in Roles
  BY DEF StreamInv, Down
<1>4. /\ g = 1 => decode_AuthRequest(e) = Ok(m)
      /\ g = 2 /\ role = "probe" => decode_ConnectRequest(e) = Ok(m)
      /\ g = 2 /\ role = "provider" => decode_ConnectResponse(e) = Ok(m)
      /\ g >= 3 => decode_ApduPacket(e) = Ok(m)
  BY <1>1, <1>2, <1>3, UpReads
<1>5. Serving(role, spc, said, taken)
  BY DEF StreamInv
<1>6. CASE spc = "auth"
  <2>1. g = 1
    BY <1>1, <1>5, <1>6 DEF Serving
  <2> QED
    BY <1>2, <1>4, <1>6, <2>1 DEF ServerDecode
<1>7. CASE spc = "request"
  <2>1. g = 2 /\ role = "probe"
    BY <1>1, <1>5, <1>7 DEF Serving
  <2> QED
    BY <1>2, <1>4, <1>7, <2>1 DEF ServerDecode
<1>8. CASE spc = "response"
  <2>1. g = 2 /\ role = "provider"
    BY <1>1, <1>5, <1>8 DEF Serving
  <2> QED
    BY <1>2, <1>4, <1>8, <2>1 DEF ServerDecode
<1>9. CASE spc = "up"
  <2>1. 2 <= t
    BY <1>1, <1>5, <1>9 DEF Serving
  <2>2. g >= 3
    BY <1>1, <2>1
  <2> QED
    BY <1>2, <1>4, <1>9, <2>2 DEF ServerDecode
<1> QED
  BY <1>5, <1>6, <1>7, <1>8, <1>9 DEF Serving

\* What the server does with a message keeps the invariant.
LEMMA ServerReadsInv ==
  ASSUME StreamInv, NEW status \in ConnectStatuses, NEW ident \in Idents, ServerReads(status, ident)
  PROVE  StreamInv'
<1>1. /\ upstream # <<>> /\ spc # "refused" /\ upstream' = Tail(upstream)
      /\ UNCHANGED <<role, cpc, frag, rbuf, meant, heard>>
  BY DEF ServerReads
<1>2. PICK t, g, m : t \in Nat /\ g \in Nat /\ t = Size(taken) /\ g = t + 1 /\ m = meant[g]
  <2>1. PICK t \in Nat : t = Size(taken)
    BY Counted DEF StreamInv, Upward, InOrder
  <2> QED
    BY <2>1
<1>3. /\ IsSent(g, role, m, Head(upstream)) /\ InOrder(role, Tail(upstream), meant, Added(taken, m))
      /\ Size(Added(taken, m)) = g
  BY <1>1, <1>2, TakeStep DEF StreamInv, Upward
<1>4. ServerDecode(Head(upstream)) = Ok(m)
  BY <1>1, <1>2, ServerDecodes
<1>5. taken \in Seq(Messages) /\ m \in Messages
  BY <1>3, SentEncoded DEF StreamInv, Upward, InOrder
<1>6. taken' = Added(taken, m)
  <2>1. PICK d : d = ServerDecode(Head(upstream)) /\ d.tag = "ok" /\ d.message = m
    BY <1>4 DEF Ok
  <2>2. taken' = Append(taken, IF d.tag = "ok" THEN d.message ELSE d)
    BY <2>1 DEF ServerReads, ServerDecode
  <2> QED
    BY <1>5, <2>1, <2>2, AsAdded
<1>7. Upward(role, cpc, Tail(upstream), meant, Added(taken, m))
  BY <1>3 DEF StreamInv, Upward
<1>8. Down(role, cpc, frag, rbuf, wire, said, heard) /\ Serving(role, spc, said, taken)
  BY DEF StreamInv
<1>9. said \in Seq(Messages) /\ wire \in Seq(Byte) /\ role \in Roles
  BY <1>8 DEF Down
<1>10. ASSUME Down(role, cpc, frag, rbuf, wire', said', heard), Serving(role, spc', said', Added(taken, m))
       PROVE  StreamInv'
  BY <1>1, <1>6, <1>7, <1>10 DEF StreamInv
<1>11. CASE spc = "auth" /\ status \in AuthStatuses
  <2>1. PICK a, ask, x, y : /\ a = [status |-> status] /\ x = encode_Response(a)
                            /\ ask = [flags |-> 0, identifier |-> ident] /\ y = encode_ConnectRequest(ask)
    OBVIOUS
  <2>2. Size(said) = 0 /\ g = 1 /\ 1 = Size(said) + 1
    BY <1>2, <1>8, <1>11 DEF Serving
  <2>3. IsDown(1, role, a, x)
    BY <1>11, <2>1 DEF IsDown
  <2>4. Down(role, cpc, frag, rbuf, Cat(wire, x), Added(said, a), heard) /\ Size(Added(said, a)) = 1
    BY <1>8, <2>2, <2>3, SayStep
  <2>5. Cat(wire, x) \in Seq(Byte) /\ Added(said, a) \in Seq(Messages) /\ a \in Messages
    <3>1. 1 \in Nat /\ 1 <= 1
      OBVIOUS
    <3>2. a \in Messages
      BY <1>9, <2>3, <3>1, DownReads
    <3> QED
      BY <2>4, <3>2 DEF Down
  <2>6. said \o <<a>> = Added(said, a) /\ wire \o x = Cat(wire, x)
    BY <1>9, <2>5, AsAdded DEF Cat
  <2>7. CASE status = Success /\ role = "provider"
    <3>1. IsDown(2, role, ask, y)
      BY <2>1, <2>7 DEF IsDown, RequestMessages, Flags
    <3>2. 2 \in Nat /\ 2 = Size(Added(said, a)) + 1 /\ 1 <= 2
      BY <2>4
    <3>3. Down(role, cpc, frag, rbuf, Cat(Cat(wire, x), y), Added(Added(said, a), ask), heard)
      BY <2>4, <3>1, <3>2, SayStep
    <3>4. Size(Added(Added(said, a), ask)) = 2
      BY <2>4, <3>1, <3>2, SayStep
    <3>5. ask \in Messages
      BY <1>9, <3>1, <3>2, DownReads
    <3>6. spc' = "response" /\ wire' = wire \o x \o y /\ said' = said \o <<a>> \o <<ask>>
      BY <1>11, <2>1, <2>7 DEF ServerReads
    <3>7. wire' = Cat(Cat(wire, x), y)
      BY <2>6, <3>6 DEF Cat
    <3>8. said' = Added(Added(said, a), ask)
      BY <2>5, <2>6, <3>5, <3>6, AsAdded
    <3>9. Serving(role, spc', said', Added(taken, m))
      BY <1>3, <2>2, <2>7, <3>4, <3>6, <3>8 DEF Serving
    <3> QED
      BY <1>10, <3>3, <3>7, <3>8, <3>9
  <2>8. CASE ~(status = Success /\ role = "provider")
    <3>1. /\ spc' = (IF status # Success THEN "refused" ELSE IF role = "probe" THEN "request" ELSE "response")
          /\ wire' = wire \o x \o <<>> /\ said' = said \o <<a>> \o <<>>
      BY <1>11, <2>1, <2>8 DEF ServerReads
    <3>2. wire' = Cat(wire, x) /\ said' = Added(said, a)
      BY <2>5, <2>6, <3>1, ConcatEmptySeq
    <3>3. spc' = "refused" \/ (spc' = "request" /\ role = "probe")
      BY <1>9, <2>8, <3>1 DEF Roles
    <3>4. Serving(role, spc', said', Added(taken, m))
      BY <1>3, <2>2, <2>4, <3>2, <3>3 DEF Serving
    <3> QED
      BY <1>10, <2>4, <3>2, <3>4
  <2> QED
    BY <2>7, <2>8
<1>12. CASE spc = "request"
  <2>1. PICK a, x : a = [status |-> status] /\ x = encode_Response(a)
    OBVIOUS
  <2>2. Size(said) = 1 /\ g = 2 /\ 2 = Size(said) + 1 /\ role = "probe" /\ 1 <= 2
    BY <1>2, <1>8, <1>12 DEF Serving
  <2>3. IsDown(2, role, a, x)
    BY <2>1, <2>2 DEF IsDown, StatusMessages
  <2>4. Down(role, cpc, frag, rbuf, Cat(wire, x), Added(said, a), heard) /\ Size(Added(said, a)) = 2
    BY <1>8, <2>2, <2>3, SayStep
  <2>5. a \in Messages
    BY <1>9, <2>2, <2>3, DownReads
  <2>6. Says(a, x) /\ spc' \in {"up", "refused"}
    BY <1>12, <2>1 DEF ServerReads
  <2>7. wire' = Cat(wire, x) /\ said' = Added(said, a)
    BY <1>9, <2>5, <2>6, AsAdded DEF Says, Cat
  <2>8. Serving(role, spc', said', Added(taken, m))
    BY <1>3, <2>2, <2>4, <2>6, <2>7 DEF Serving
  <2> QED
    BY <1>10, <2>4, <2>7, <2>8
<1>13. CASE spc = "response"
  <2>1. UNCHANGED <<wire, said>> /\ spc' \in {"up", "refused"}
    BY <1>13 DEF ServerReads
  <2>2. Size(said) = 2 /\ g = 2
    BY <1>2, <1>8, <1>13 DEF Serving
  <2>3. Serving(role, spc', said', Added(taken, m))
    BY <1>3, <2>1, <2>2 DEF Serving
  <2> QED
    BY <1>8, <1>10, <2>1, <2>3
<1>14. CASE spc = "up"
  <2>1. UNCHANGED <<spc, wire, said>>
    BY <1>14 DEF ServerReads
  <2>2. 2 <= Size(said) /\ 2 <= t
    BY <1>2, <1>8, <1>14 DEF Serving
  <2>3. 2 <= g
    BY <1>2, <2>2
  <2>4. Serving(role, spc', said', Added(taken, m))
    BY <1>3, <1>14, <2>1, <2>2, <2>3 DEF Serving
  <2> QED
    BY <1>8, <1>10, <2>1, <2>4
<1>15. (spc = "auth" /\ status \in AuthStatuses) \/ spc = "request" \/ spc = "response" \/ spc = "up"
  BY DEF ServerReads
<1> QED
  BY <1>11, <1>12, <1>13, <1>14, <1>15

\* Every step keeps the invariant.
LEMMA InvNext == StreamInv /\ [ClientNext]_streamVars => StreamInv'
<1> SUFFICES ASSUME StreamInv, [ClientNext]_streamVars PROVE StreamInv'
  OBVIOUS
<1>1. CASE \E n \in 1..Len(wire) : FillBuf(n)
  BY <1>1, FillBufInv
<1>2. CASE ReadEof
  BY <1>2, ReadEofInv
<1>3. CASE \E ok \in BOOLEAN : RegisterProbe(ok) \/ Open(ok)
  BY <1>3, RegisterProbeInv, OpenInv
<1>4. CASE \E ident \in Idents, flags \in Flags, status \in {0, 1} : ReadMessage(ident, flags, status)
  BY <1>4, ReadMessageInv
<1>5. CASE \E p \in Payloads : RecvApdu(p) \/ HandleApdu(p) \/ ServerRelays(p)
  BY <1>5, RecvApduInv, HandleApduInv, ServerRelaysInv
<1>6. CASE \E status \in ConnectStatuses, ident \in Idents : ServerReads(status, ident)
  BY <1>6, ServerReadsInv
<1>7. CASE ServerGarbles
  BY <1>7, ServerGarblesInv
<1>8. CASE ServerCloses
  BY <1>8 DEF ServerCloses, StreamInv
<1>9. CASE UNCHANGED streamVars
  BY <1>9 DEF streamVars, StreamInv
<1> QED
  BY <1>1, <1>2, <1>3, <1>4, <1>5, <1>6, <1>7, <1>8, <1>9 DEF ClientNext

\* Following is being a prefix.
LEMMA PrefixOf ==
  ASSUME NEW a \in Seq(Messages), NEW b \in Seq(Messages), Follows(a, b)
  PROVE  IsPrefix(a, b)
<1>1. PICK x \in Nat, y \in Nat : x = Len(a) /\ y = Len(b) /\ x <= y
  BY LenProperties DEF Follows, Size
<1>2. \A k \in 1..x : a[k] = b[k]
  BY <1>1 DEF Follows, Size
<1>3. SubSeq(a, 1, x) = SubSeq(b, 1, x)
  <2>1. SubSeq(a, 1, x) = [i \in 1..x |-> a[i]]
    BY <1>1
  <2>2. SubSeq(b, 1, x) = [i \in 1..x |-> b[i]]
    BY <1>1
  <2> QED
    BY <1>2, <2>1, <2>2
<1> QED
  BY <1>1, <1>3 DEF IsPrefix

\* The invariant is strong enough.
LEMMA InvDelivered == StreamInv => Delivered
<1> SUFFICES ASSUME StreamInv PROVE Delivered
  OBVIOUS
<1>1. IsPrefix(heard, said)
  BY PrefixOf DEF StreamInv, Down
<1>2. IsPrefix(taken, meant)
  <2>1. /\ meant \in Seq(Messages) /\ taken \in Seq(Messages) /\ upstream \in Seq(Encoded)
        /\ Size(meant) = Size(taken) + Size(upstream)
        /\ \A k \in Nat : 1 <= k /\ k <= Size(taken) => taken[k] = meant[k]
    BY DEF StreamInv, Upward, InOrder
  <2>2. Size(taken) <= Size(meant)
    <3>1. PICK x \in Nat, y \in Nat : x = Size(taken) /\ y = Size(upstream)
      BY <2>1, Counted
    <3>2. Size(meant) = x + y /\ x <= x + y
      BY <2>1, <3>1
    <3> QED
      BY <3>1, <3>2
  <2>3. Follows(taken, meant)
    BY <2>1, <2>2 DEF Follows
  <2> QED
    BY <2>1, <2>3, PrefixOf
<1>3. cpc = "malformed" => [garbage |-> TRUE] \in Range(said)
  <2>1. SUFFICES ASSUME cpc = "malformed" PROVE Garbled \in Range(said)
    BY DEF Garbled
  <2>2. PICK k \in Nat : 1 <= k /\ k <= Size(said) /\ said[k] = Garbled
    BY <2>1 DEF StreamInv, Down
  <2>3. said \in Seq(Messages) /\ k \in 1..Len(said)
    BY <2>2, LenProperties DEF Size, StreamInv, Down
  <2>4. k \in DOMAIN said
    BY <2>3
  <2> QED
    BY <2>2, <2>4 DEF Range
<1> QED
  BY <1>1, <1>2, <1>3 DEF Delivered

\* Whatever pieces the bytes arrive in, read_message and ApduStream.recv decode
\* exactly the messages the server has sent, in order, the server those of the
\* client, and a client calls only garbage malformed: for any token, identifiers,
\* packets and lengths.
THEOREM DeliveredAlways == ClientSpec => []Delivered
<1>1. ClientInit => StreamInv
  BY InvInit
<1>2. StreamInv /\ [ClientNext]_streamVars => StreamInv'
  BY InvNext
<1>3. StreamInv => Delivered
  BY InvDelivered
<1> QED
  BY <1>1, <1>2, <1>3, PTL DEF ClientSpec
==============================================================================
