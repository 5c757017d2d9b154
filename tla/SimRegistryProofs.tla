-------------------------- MODULE SimRegistryProofs --------------------------
(***************************************************************************)
(* Proofs about SimRegistry, for any providers, SIM ids and cards.         *)
(***************************************************************************)
EXTENDS SimRegistry, TLAPS

Txns == [provider : Providers \cup {None}, list : Lists \cup {<<>>}, new : BOOLEAN,
         delSims : SUBSET Keys, delProviders : SUBSET Providers, ins : SUBSET Ids,
         written : SUBSET Keys]

TypeOK ==
  /\ known \in [Providers -> BOOLEAN] /\ expired \in [Providers -> BOOLEAN]
  /\ sims \in [Keys -> Cards \cup {None}]
  /\ txn \in [Requests -> Txns]

\* A running registration adds rows of its list only and never removes its own
\* provider.
WritesItsList ==
  \A r \in Requests : Running(r) =>
    /\ txn[r].list \in Lists /\ txn[r].ins \subseteq DOMAIN txn[r].list
    /\ txn[r].provider \notin txn[r].delProviders

OnItsList(k, t) == k[2] \in DOMAIN t.list /\ sims[k] = t.list[k[2]]

\* What it has read of its provider's rows stays true while others commit, but for
\* rows they have written since: they may also remove some.  The rows it leaves
\* are those of its list.
KeepsItsList ==
  \A r \in Requests, k \in Keys : txn[r].provider = k[1] /\ sims[k] # None =>
    k \in txn[r].delSims \/ k \in txn[r].written \/ OnItsList(k, txn[r])

IInv == TypeOK /\ WritesItsList /\ KeepsItsList /\ OneOffer /\ OffererIsKnown

-----------------------------------------------------------------------------
LEMMA SameCardSymmetric == ASSUME NEW c, NEW d, SameCard(c, d) PROVE SameCard(d, c)
BY DEF SameCard

LEMMA KeyParts ==
  ASSUME NEW k \in Keys
  PROVE  k[1] \in Providers /\ k[2] \in Ids /\ k = <<k[1], k[2]>>
BY DEF Keys

\* A row that survives a transaction's deletions is the row there was.
LEMMA RemainingRow ==
  ASSUME NEW t, NEW k \in Keys, Remaining(t)[k] # None
  PROVE  /\ Remaining(t)[k] = sims[k] /\ sims[k] # None
         /\ k \notin t.delSims /\ k[1] \notin t.delProviders
BY DEF Remaining

LEMMA ListsAreLists ==
  ASSUME NEW l \in Lists
  PROVE  /\ DOMAIN l \subseteq Ids /\ \A i \in DOMAIN l : l[i] \in Cards
         /\ \A i, j \in DOMAIN l : SameCard(l[i], l[j]) => i = j
BY DEF Lists

\* The slot of a request that has finished belongs to no provider.
LEMMA IdleIsNobodys == Idle \in Txns /\ Idle.provider = None
BY DEF Idle, Txns

-----------------------------------------------------------------------------
LEMMA InitIInv == Init => IInv
<1> SUFFICES ASSUME Init PROVE IInv
  OBVIOUS
<1>1. TypeOK
  BY IdleIsNobodys DEF Init, TypeOK
<1>2. \A k \in Keys : sims[k] = None
  BY DEF Init
<1>3. WritesItsList /\ KeepsItsList
  BY <1>2, IdleIsNobodys DEF Init, WritesItsList, KeepsItsList, Running
<1> QED
  BY <1>1, <1>2, <1>3 DEF IInv, OneOffer, OffererIsKnown

LEMMA RegisterStep ==
  ASSUME IInv, NEW r \in Requests, NEW p \in Providers, NEW l \in Lists, Register(r, p, l)
  PROVE  IInv'
<1> DEFINE t == txn'[r]
<1>1. /\ txn' = [txn EXCEPT ![r] = t]
      /\ t.provider = p /\ t.list = l
      /\ OwnStale(p, l) \subseteq t.delSims
      /\ t.ins \subseteq DOMAIN l /\ p \notin t.delProviders
      /\ t \in Txns
  <2>1. t = [provider |-> p, list |-> l, new |-> ~known[p],
             delSims |-> OwnStale(p, l) \cup {k \in Existing(p, l) : ~expired[k[1]]},
             delProviders |-> {k[1] : k \in {e \in Existing(p, l) : expired[e[1]]}},
             ins |-> {i \in DOMAIN l : sims[<<p, i>>] # l[i]},
             written |-> {}]
    BY DEF Register, IInv, TypeOK
  <2>2. OwnStale(p, l) \subseteq Keys /\ Existing(p, l) \subseteq Keys
        /\ \A k \in Existing(p, l) : k[1] \in Providers \ {p}
    BY KeyParts DEF OwnStale, Existing
  <2>3. known[p] \in BOOLEAN /\ DOMAIN l \subseteq Ids
    BY ListsAreLists DEF IInv, TypeOK
  <2>4. txn' = [txn EXCEPT ![r] = t]
    BY DEF Register, IInv, TypeOK
  <2> HIDE DEF t
  <2>5. t.provider = p /\ t.list = l /\ OwnStale(p, l) \subseteq t.delSims
        /\ t.ins \subseteq DOMAIN l /\ p \notin t.delProviders
    BY <2>1, <2>2, <2>3
  <2>6. t \in Txns
    BY <2>1, <2>2, <2>3 DEF Txns
  <2> QED
    BY <2>4, <2>5, <2>6
<1> HIDE DEF t
<1>2. UNCHANGED <<known, expired, sims>>
  BY DEF Register
<1>3. TypeOK'
  BY <1>1, <1>2 DEF IInv, TypeOK
<1>4. WritesItsList'
  BY <1>1 DEF IInv, TypeOK, WritesItsList, Running
<1>5. KeepsItsList'
  <2> SUFFICES ASSUME NEW q \in Requests, NEW k \in Keys, txn'[q].provider = k[1], sims[k] # None
               PROVE  k \in txn'[q].delSims \/ k \in txn'[q].written \/ OnItsList(k, txn'[q])
    BY <1>2 DEF KeepsItsList, OnItsList
  <2>1. CASE q = r
    <3>1. txn'[q] = t /\ k[1] = p
      BY <1>1, <2>1 DEF IInv, TypeOK
    <3>2. k \in OwnStale(p, l) \/ (k[2] \in DOMAIN l /\ sims[k] = l[k[2]])
      BY <3>1 DEF OwnStale
    <3> QED
      BY <1>1, <3>1, <3>2 DEF OnItsList
  <2>2. CASE q # r
    <3>1. txn'[q] = txn[q]
      BY <1>1, <2>2 DEF IInv, TypeOK
    <3> QED
      BY <3>1 DEF IInv, KeepsItsList
  <2> QED
    BY <2>1, <2>2
<1> QED
  BY <1>2, <1>3, <1>4, <1>5 DEF IInv, OneOffer, OffererIsKnown

-----------------------------------------------------------------------------
\* What a commit does, of a transaction that may have missed rows: each row
\* afterwards is one of the list, or one of before that was not deleted.
Committed(r, t) ==
  /\ t \in Txns /\ t.provider = txn[r].provider /\ t.list = txn[r].list /\ t.ins = txn[r].ins
  /\ t.delProviders = txn[r].delProviders /\ t.written = txn[r].written /\ t.new = txn[r].new
  /\ t.delSims \subseteq txn[r].delSims /\ txn[r].delSims \ t.delSims \subseteq txn[r].written
  /\ txn' = Finished(r, Inserted(t))
  /\ Fits(t)
  /\ sims' = [k \in Keys |-> IF k \in Inserted(t) THEN t.list[k[2]] ELSE Remaining(t)[k]]
  /\ known' = [q \in Providers |-> (known[q] /\ q \notin t.delProviders) \/ (q = t.provider /\ t.new)]
  /\ expired' = [q \in Providers |-> expired[q] /\ known'[q]]

LEMMA CommitIsCommitted ==
  ASSUME IInv, NEW r \in Requests, Commit(r)
  PROVE  \E t : Committed(r, t)
<1>1. PICK missed \in SUBSET (txn[r].delSims \cap txn[r].written) :
        LET t == [txn[r] EXCEPT !.delSims = @ \ missed] IN
        /\ txn' = Finished(r, Inserted(t))
        /\ Fits(t)
        /\ sims' = [k \in Keys |-> IF k \in Inserted(t) THEN t.list[k[2]] ELSE Remaining(t)[k]]
        /\ known' = [q \in Providers |-> (known[q] /\ q \notin t.delProviders) \/ (q = t.provider /\ t.new)]
        /\ expired' = [q \in Providers |-> expired[q] /\ known'[q]]
  BY DEF Commit
<1> DEFINE t == [txn[r] EXCEPT !.delSims = @ \ missed]
<1>2. txn[r] \in Txns
  BY DEF IInv, TypeOK
<1>3. /\ t \in Txns /\ t.provider = txn[r].provider /\ t.list = txn[r].list /\ t.ins = txn[r].ins
      /\ t.delProviders = txn[r].delProviders /\ t.written = txn[r].written /\ t.new = txn[r].new
      /\ t.delSims = txn[r].delSims \ missed
  BY <1>2 DEF Txns
<1>4. t.delSims \subseteq txn[r].delSims /\ txn[r].delSims \ t.delSims \subseteq txn[r].written
  BY <1>1, <1>3
<1> HIDE DEF t
<1>5. Committed(r, t)
  BY <1>1, <1>3, <1>4 DEF Committed, t
<1> QED
  BY <1>5

LEMMA RowsAfterCommit ==
  ASSUME IInv, NEW r \in Requests, Running(r), NEW t, Committed(r, t), NEW k \in Keys, sims'[k] # None
  PROVE  \/ k[1] = t.provider /\ k[2] \in t.ins /\ sims'[k] = t.list[k[2]] /\ k \in Inserted(t)
         \/ /\ sims'[k] = Remaining(t)[k] /\ sims'[k] = sims[k] /\ sims[k] # None
            /\ k \notin t.delSims /\ k[1] \notin t.delProviders /\ k \notin Inserted(t)
<1>1. sims'[k] = IF k \in Inserted(t) THEN t.list[k[2]] ELSE Remaining(t)[k]
  BY DEF Committed
<1>2. k \in Inserted(t) => k[1] = t.provider /\ k[2] \in t.ins
  BY KeyParts DEF Inserted
<1> QED
  BY <1>1, <1>2, RemainingRow

LEMMA CommitStep ==
  ASSUME IInv, NEW r \in Requests, Commit(r)
  PROVE  IInv'
<1>1. PICK t : Committed(r, t)
  BY CommitIsCommitted
<1>2. /\ Running(r) /\ t \in Txns /\ Fits(t) /\ t.provider = txn[r].provider
      /\ t.list \in Lists /\ t.ins \subseteq DOMAIN t.list /\ t.provider \notin t.delProviders
  BY <1>1 DEF Commit, Committed, IInv, WritesItsList
<1>3. t.provider \in Providers
  BY <1>2 DEF Txns, Running
<1>4. \A i \in t.ins : i \in DOMAIN t.list /\ t.list[i] \in Cards
  BY <1>2, ListsAreLists
<1>5. ASSUME NEW k \in Keys, sims'[k] # None
      PROVE  \/ k[1] = t.provider /\ k[2] \in t.ins /\ sims'[k] = t.list[k[2]] /\ k \in Inserted(t)
             \/ /\ sims'[k] = Remaining(t)[k] /\ sims'[k] = sims[k] /\ sims[k] # None
                /\ k \notin t.delSims /\ k[1] \notin t.delProviders /\ k \notin Inserted(t)
  BY <1>1, <1>2, <1>5, RowsAfterCommit
\* The other requests only learn which rows are new.
<1>6. ASSUME NEW q \in Requests
      PROVE  /\ txn'[q] \in Txns
             /\ q = r => txn'[q] = Idle
             /\ q # r => /\ txn'[q] = [txn[q] EXCEPT !.written = @ \cup Unseen(txn[q], Inserted(t))]
                         /\ txn'[q].written = txn[q].written \cup Unseen(txn[q], Inserted(t))
                         /\ txn'[q].provider = txn[q].provider /\ txn'[q].list = txn[q].list
                         /\ txn'[q].ins = txn[q].ins /\ txn'[q].delSims = txn[q].delSims
                         /\ txn'[q].delProviders = txn[q].delProviders
  <2>1. Inserted(t) \subseteq Keys
    BY <1>2, <1>3 DEF Inserted, Keys, Txns
  <2>2. Unseen(txn[q], Inserted(t)) \subseteq Keys
    BY <2>1 DEF Unseen
  <2>3. txn[q] \in Txns
    BY DEF IInv, TypeOK
  <2>4. txn'[q] = IF q = r THEN Idle
                  ELSE [txn[q] EXCEPT !.written = @ \cup Unseen(txn[q], Inserted(t))]
    BY <1>1 DEF Committed, Finished
  <2>5. CASE q = r
    BY <2>4, <2>5, IdleIsNobodys
  <2>6. CASE q # r
    BY <2>2, <2>3, <2>4, <2>6 DEF Txns
  <2> QED
    BY <2>5, <2>6
<1>7. TypeOK'
  <2>1. \A k \in Keys : sims'[k] \in Cards \cup {None}
    BY <1>4, <1>5 DEF IInv, TypeOK
  <2>2. sims' \in [Keys -> Cards \cup {None}]
    BY <1>1, <2>1 DEF Committed
  <2>3. txn' \in [Requests -> Txns]
    BY <1>1, <1>6 DEF Committed, Finished
  <2>4. known' \in [Providers -> BOOLEAN] /\ expired' \in [Providers -> BOOLEAN]
    BY <1>1 DEF Committed
  <2> QED
    BY <2>2, <2>3, <2>4 DEF TypeOK
<1>8. WritesItsList'
  <2> SUFFICES ASSUME NEW q \in Requests, txn'[q].provider # None
               PROVE  /\ txn'[q].list \in Lists /\ txn'[q].ins \subseteq DOMAIN txn'[q].list
                      /\ txn'[q].provider \notin txn'[q].delProviders
    BY DEF WritesItsList, Running
  <2>1. q # r
    BY <1>6, IdleIsNobodys
  <2> QED
    BY <1>6, <2>1 DEF IInv, WritesItsList, Running
<1>9. KeepsItsList'
  <2> SUFFICES ASSUME NEW q \in Requests, NEW k \in Keys, txn'[q].provider = k[1], sims'[k] # None
               PROVE  k \in txn'[q].delSims \/ k \in txn'[q].written
                      \/ (k[2] \in DOMAIN txn'[q].list /\ sims'[k] = txn'[q].list[k[2]])
    BY DEF KeepsItsList, OnItsList
  <2>1. k[1] # None
    BY KeyParts, RegistryAssumption
  <2>2. q # r
    BY <1>6, <2>1, IdleIsNobodys
  <2>3. CASE k \in Inserted(t)
    BY <1>6, <2>2, <2>3 DEF Unseen
  <2>4. CASE k \notin Inserted(t)
    <3>1. sims'[k] = sims[k]
      BY <1>5, <2>4
    <3>2. /\ txn'[q].provider = txn[q].provider /\ txn'[q].list = txn[q].list
          /\ txn'[q].delSims = txn[q].delSims /\ txn[q].written \subseteq txn'[q].written
      BY <1>6, <2>2
    <3>3. k \in txn[q].delSims \/ k \in txn[q].written \/ OnItsList(k, txn[q])
      BY <3>1, <3>2 DEF IInv, KeepsItsList
    <3> QED
      BY <3>1, <3>2, <3>3 DEF OnItsList
  <2> QED
    BY <2>3, <2>4
<1>10. OneOffer'
  <2> SUFFICES ASSUME NEW k \in Keys, NEW m \in Keys, sims'[k] # None, sims'[m] # None,
                      SameCard(sims'[k], sims'[m])
               PROVE  k = m
    BY DEF OneOffer, SameCard
  <2> DEFINE New(x) == x[1] = t.provider /\ x[2] \in t.ins /\ sims'[x] = t.list[x[2]]
             Left(x) == sims'[x] = Remaining(t)[x] /\ sims'[x] = sims[x] /\ sims[x] # None
  <2>1. (New(k) \/ Left(k)) /\ (New(m) \/ Left(m))
    BY <1>5
  <2>2. \A x, y \in Keys : New(x) /\ Left(y) /\ sims'[y] # None => ~SameCard(sims'[y], sims'[x])
    BY <1>2 DEF Fits
  <2>3. CASE New(k) /\ New(m)
    BY <1>2, <1>4, <2>3, ListsAreLists, KeyParts
  <2>4. CASE New(k) /\ Left(m)
    BY <2>2, <2>4, SameCardSymmetric
  <2>5. CASE Left(k) /\ New(m)
    BY <2>2, <2>5
  <2>6. CASE Left(k) /\ Left(m)
    BY <2>6 DEF IInv, OneOffer
  <2> QED
    BY <2>1, <2>3, <2>4, <2>5, <2>6
<1>11. OffererIsKnown'
  <2> SUFFICES ASSUME NEW k \in Keys, sims'[k] # None PROVE known'[k[1]]
    BY DEF OffererIsKnown
  <2>1. \A q \in Providers : known'[q] = ((known[q] /\ q \notin t.delProviders) \/ (q = t.provider /\ t.new))
    BY <1>1 DEF Committed
  <2>2. CASE k[1] = t.provider /\ k[2] \in t.ins
    <3>1. IF t.new THEN ~known[t.provider] ELSE known[t.provider] \/ t.ins = {}
      BY <1>2 DEF Fits
    <3> QED
      BY <1>2, <1>3, <2>1, <2>2, <3>1
  <2>3. CASE sims[k] # None /\ k[1] \notin t.delProviders
    BY <2>1, <2>3, KeyParts DEF IInv, OffererIsKnown
  <2> QED
    BY <1>5, <2>2, <2>3
<1> QED
  BY <1>7, <1>8, <1>9, <1>10, <1>11 DEF IInv

LEMMA AbortStep == ASSUME IInv, NEW r \in Requests, Abort(r) PROVE IInv'
<1>1. TypeOK'
  BY IdleIsNobodys DEF IInv, TypeOK, Abort
<1>2. \A q \in Requests : txn'[q] = txn[q] \/ txn'[q].provider = None
  BY IdleIsNobodys DEF IInv, TypeOK, Abort
<1>3. WritesItsList'
  BY <1>2 DEF IInv, WritesItsList, Running
<1>4. KeepsItsList'
  BY <1>2, KeyParts, RegistryAssumption DEF IInv, KeepsItsList, OnItsList, Abort
<1> QED
  BY <1>1, <1>3, <1>4 DEF IInv, OneOffer, OffererIsKnown, Abort

LEMMA ExpireStep == ASSUME IInv, NEW p \in Providers, Expire(p) PROVE IInv'
BY DEF IInv, TypeOK, WritesItsList, KeepsItsList, OnItsList, Running, OneOffer, OffererIsKnown, Expire

-----------------------------------------------------------------------------
\* The invariant of the tables and of the transactions that run on them.
THEOREM SpecIInv == Spec => []IInv
<1>1. IInv /\ [Next]_vars => IInv'
  <2> SUFFICES ASSUME IInv, [Next]_vars PROVE IInv'
    OBVIOUS
  <2>1. CASE UNCHANGED vars
    BY <2>1 DEF vars, IInv, TypeOK, WritesItsList, KeepsItsList, OnItsList, Running, OneOffer,
                OffererIsKnown
  <2>2. CASE Next
    BY <2>2, RegisterStep, CommitStep, AbortStep, ExpireStep DEF Next
  <2> QED
    BY <2>1, <2>2
<1> QED
  BY <1>1, InitIInv, PTL DEF Spec

\* Two registrations that race for a card never both end up offering it: the
\* unique columns make the later one fail (auth.register_provider).
THEOREM CardsAreOfferedOnce == Spec => []OneOffer
BY SpecIInv, PTL DEF IInv

\* A registration leaves its provider the rows of its list and no others, although
\* it reads them in one step and writes in another, but for rows that another
\* registration of the same provider wrote while it ran; nothing else adds rows or
\* changes them (auth.register_provider, get_sim).
THEOREM OffersAreListed == Spec => OfferedIsListed
<1>1. ASSUME IInv, NEW r \in Requests, NEW k \in Keys, sims'[k] # None,
             txn[r].provider = k[1], k \notin txn[r].written, Commit(r)
      PROVE  k[2] \in DOMAIN txn[r].list /\ sims'[k] = txn[r].list[k[2]]
  <2>1. PICK t : Committed(r, t)
    BY <1>1, CommitIsCommitted
  <2>2. /\ t.list = txn[r].list /\ t.ins \subseteq DOMAIN t.list
        /\ k \in txn[r].delSims => k \in t.delSims
        /\ Running(r)
    BY <1>1, <2>1 DEF Commit, Committed, IInv, WritesItsList
  <2>3. CASE k[2] \in t.ins /\ sims'[k] = t.list[k[2]]
    BY <2>2, <2>3
  <2>4. CASE sims'[k] = sims[k] /\ sims[k] # None /\ k \notin t.delSims
    BY <1>1, <2>2, <2>4 DEF IInv, KeepsItsList, OnItsList
  <2> QED
    BY <1>1, <2>1, <2>2, <2>3, <2>4, RowsAfterCommit
<1>2. ASSUME IInv, [Next]_vars, NEW k \in Keys, sims'[k] # None, sims'[k] # sims[k]
      PROVE  \E r \in Requests : txn[r].provider = k[1] /\ Commit(r)
  <2>1. PICK r \in Requests : Commit(r)
    BY <1>2 DEF Next, vars, Register, Abort, Expire
  <2>2. PICK t : Committed(r, t)
    BY <1>2, <2>1, CommitIsCommitted
  <2>3. Running(r) /\ t.provider = txn[r].provider
    BY <2>1, <2>2 DEF Commit, Committed
  <2>4. k[1] = t.provider
    BY <1>2, <2>2, <2>3, RowsAfterCommit
  <2> QED
    BY <2>1, <2>3, <2>4
<1>3. IInv /\ [Next]_vars =>
        \A k \in Keys : sims'[k] # None =>
          /\ \A r \in Requests :
               txn[r].provider = k[1] /\ k \notin txn[r].written
                 /\ ~(k[2] \in DOMAIN txn[r].list /\ sims'[k] = txn[r].list[k[2]])
               => ~Commit(r)
          /\ sims'[k] # sims[k] => \E r \in Requests : txn[r].provider = k[1] /\ Commit(r)
  BY <1>1, <1>2
<1> QED
  BY <1>3, SpecIInv, PTL DEF Spec, OfferedIsListed

\* A SIM's provider has a row, whichever registrations have removed expired
\* providers meanwhile (the foreign key of sims, its cascade).
THEOREM OfferersAreKnown == Spec => []OffererIsKnown
BY SpecIInv, PTL DEF IInv
=============================================================================
