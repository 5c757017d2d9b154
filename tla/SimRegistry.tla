----------------------------- MODULE SimRegistry -----------------------------
(***************************************************************************)
(* The SIM cards providers offer: the tables providers and sims, and       *)
(* PUT /provider/sims (auth.register_provider).  A registration reads what *)
(* is there in one step and writes in another: its transaction runs at     *)
(* READ COMMITTED, beside other providers' and beside its own provider's:  *)
(* a client's threads each send their list when they have one.  The        *)
(* unique, primary and foreign keys are what it can rely on.               *)
(***************************************************************************)
EXTENDS Integers, FiniteSets

CONSTANTS
  Requests,   \* the places for requests that are being handled
  Providers,
  Ids,        \* the SIM ids a provider chooses
  Cards,      \* what identifies a SIM: its ICCID and IMSI, each of them optional
  Iccid,      \* Cards -> its ICCID, or None
  Imsi,       \* Cards -> its IMSI, or None
  Protected,  \* the providers whose row has allow_reregistration = FALSE
  None

ASSUME RegistryAssumption ==
  /\ None \notin Cards /\ None \notin Providers
  /\ Protected \subseteq Providers

VARIABLES
  known,    \* the provider has a row
  expired,  \* that row's last_active is older than PROVIDER_EXPIRATION
  sims,     \* the sims table: the card of each (provider, id), or None
  txn       \* what each running registration is going to write

vars == <<known, expired, sims, txn>>

\* The unique columns: NULL equals nothing.
SameCard(c, d) ==
  \/ Iccid[c] # None /\ Iccid[c] = Iccid[d]
  \/ Imsi[c] # None /\ Imsi[c] = Imsi[d]

\* A list of SIMs, as SimList validates it: no ICCID and no IMSI twice.
Lists ==
  {l \in UNION {[I -> Cards] : I \in SUBSET Ids} :
     \A i, j \in DOMAIN l : SameCard(l[i], l[j]) => i = j}

Idle == [provider |-> None, list |-> <<>>, new |-> FALSE,
         delSims |-> {}, delProviders |-> {}, ins |-> {}, written |-> {}]

Running(r) == txn[r].provider # None

\* Every key of the sims table.
Keys == Providers \X Ids

\* The rows of other providers that a list is in the way of: the same id (of
\* whichever provider), the same ICCID or the same IMSI.
Existing(p, l) ==
  {k \in Keys : /\ k[1] # p /\ sims[k] # None
                /\ k[2] \in DOMAIN l \/ \E i \in DOMAIN l : SameCard(sims[k], l[i])}

\* Mutant of OwnStale: SIMs that are not listed any more are kept.
OwnChanged(p, l) ==
  {k \in Keys : k[1] = p /\ sims[k] # None /\ k[2] \in DOMAIN l /\ sims[k] # l[k[2]]}

\* The provider's own rows that are not listed, or not with this card.
OwnStale(p, l) ==
  {k \in Keys : k[1] = p /\ sims[k] # None /\ ~(k[2] \in DOMAIN l /\ sims[k] = l[k[2]])}

-----------------------------------------------------------------------------
\* register_provider up to the flush at its end: with a protected SIM in the way
\* it raises AuthError instead, and nothing is written.
Register(r, p, l) ==
  LET existing == Existing(p, l) IN
  /\ ~Running(r)
  /\ \A k \in existing : k[1] \notin Protected \/ expired[k[1]]
  /\ txn' = [txn EXCEPT ![r] =
       [provider |-> p, list |-> l, new |-> ~known[p],
        delSims |-> OwnStale(p, l) \cup {k \in existing : ~expired[k[1]]},
        delProviders |-> {k[1] : k \in {e \in existing : expired[e[1]]}},
        ins |-> {i \in DOMAIN l : sims[<<p, i>>] # l[i]},
        written |-> {}]]
  /\ UNCHANGED <<known, expired, sims>>

\* Mutant of Remaining: a provider's row takes no SIM with it.
RemainingUncascaded(t) == [k \in Keys |-> IF k \in t.delSims THEN None ELSE sims[k]]

\* The table after the deletions, those of a provider's row being cascaded.
Remaining(t) ==
  [k \in Keys |-> IF k \in t.delSims \/ k[1] \in t.delProviders THEN None ELSE sims[k]]

\* Mutant of Fits: the columns iccid and imsi are not unique.
FitsKeysOnly(t) ==
  /\ IF t.new THEN ~known[t.provider] ELSE known[t.provider] \/ t.ins = {}
  /\ \A i \in t.ins : Remaining(t)[<<t.provider, i>>] = None

\* No constraint is violated: providers' and sims' primary keys, the foreign key
\* and the unique columns.
Fits(t) ==
  /\ IF t.new THEN ~known[t.provider] ELSE known[t.provider] \/ t.ins = {}
  /\ LET rows == Remaining(t) IN
     \A i \in t.ins :
       /\ rows[<<t.provider, i>>] = None
       /\ \A k \in Keys : rows[k] # None => ~SameCard(rows[k], t.list[i])

\* The rows a registration writes.  Those that a running one would delete, or that
\* are its own provider's, it has not seen.
Inserted(t) == {<<t.provider, i>> : i \in t.ins}
Unseen(t, rows) == {k \in rows : k[1] = t.provider \/ k \in t.delSims}
Finished(r, rows) ==
  [q \in Requests |-> IF q = r THEN Idle
                      ELSE [txn[q] EXCEPT !.written = @ \cup Unseen(txn[q], rows)]]

\* The flush and the commit.  A DELETE that waits for another transaction does not
\* see the row that one has written in the place of the deleted one.
Commit(r) ==
  /\ Running(r)
  /\ \E missed \in SUBSET (txn[r].delSims \cap txn[r].written) :
       LET t == [txn[r] EXCEPT !.delSims = @ \ missed]
           p == t.provider
           rows == Remaining(t)
       IN
       /\ txn' = Finished(r, Inserted(t))
       /\ Fits(t)
       /\ sims' = [k \in Keys |-> IF k \in Inserted(t) THEN t.list[k[2]] ELSE rows[k]]
       /\ known' = [q \in Providers |-> (known[q] /\ q \notin t.delProviders) \/ (q = p /\ t.new)]
       /\ expired' = [q \in Providers |-> expired[q] /\ known'[q]]

\* A constraint violation, a deadlock the database resolves, a lost connection:
\* the transaction is rolled back and the request fails.
Abort(r) ==
  /\ Running(r)
  /\ txn' = [txn EXCEPT ![r] = Idle]
  /\ UNCHANGED <<known, expired, sims>>

\* PROVIDER_EXPIRATION after the row was created: nothing renews last_active.
Expire(p) ==
  /\ known[p] /\ ~expired[p]
  /\ expired' = [expired EXCEPT ![p] = TRUE]
  /\ UNCHANGED <<known, sims, txn>>

Init ==
  /\ known = [p \in Providers |-> FALSE]
  /\ expired = [p \in Providers |-> FALSE]
  /\ sims = [k \in Keys |-> None]
  /\ txn = [r \in Requests |-> Idle]

Next ==
  \/ \E r \in Requests :
       \/ \E p \in Providers, l \in Lists : Register(r, p, l)
       \/ Commit(r) \/ Abort(r)
  \/ \E p \in Providers : Expire(p)

Spec == Init /\ [][Next]_vars

-----------------------------------------------------------------------------
(***************************************************************************)
(* Properties                                                              *)
(***************************************************************************)

\* Two registrations that race for a card never both end up offering it: a
\* request by ICCID or IMSI finds one SIM.
OneOffer ==
  \A k, m \in Keys : sims[k] # None /\ sims[m] # None /\ SameCard(sims[k], sims[m]) => k = m

\* What a provider offers is what it listed last: no registration succeeds and
\* leaves its provider a row that is not one of its list, unless another
\* registration of that provider wrote the row while it ran; until the next one,
\* rows only go.  A SIM that was withdrawn, or listed with another card, in a
\* registration that none overlapped is never handed to a probe.
OfferedIsListed ==
  [][\A k \in Keys : sims'[k] # None =>
       /\ \A r \in Requests :
            txn[r].provider = k[1] /\ k \notin txn[r].written
              /\ ~(k[2] \in DOMAIN txn[r].list /\ sims'[k] = txn[r].list[k[2]])
            => ~Commit(r)
       /\ sims'[k] # sims[k] => \E r \in Requests : txn[r].provider = k[1] /\ Commit(r)]_vars

\* A SIM is only ever offered by a provider with a row, whichever registrations
\* have removed that row meanwhile: get_sim reads the row of the SIM's provider.
OffererIsKnown == \A k \in Keys : sims[k] # None => known[k[1]]

\* Protocol.md:25-26, the id "can be freely chosen by a client": a provider loses
\* a SIM to another's registration only if that lists the same card, or it has
\* expired itself.
LostOnlyToClaim ==
  [][\A r \in Requests : Commit(r) =>
       \A k \in Keys : k[1] # txn[r].provider /\ sims[k] # None /\ sims'[k] = None =>
         expired[k[1]] \/ \E i \in DOMAIN txn[r].list : SameCard(sims[k], txn[r].list[i])]_vars
=============================================================================
