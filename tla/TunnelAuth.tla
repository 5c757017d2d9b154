----------------------------- MODULE TunnelAuth -----------------------------
(***************************************************************************)
(* Who may use the SIM tunnel: the MoAt tokens, session tokens and SIM     *)
(* permissions of the management server (tunnel_auth), and the tunnel      *)
(* server that asks it (auth_handlers/moat_management.py, auth.get_sim).   *)
(*                                                                         *)
(* The tunnel server asks once per step of a connection and keeps the      *)
(* identity of a session token in a cache it never empties; session        *)
(* tokens, their owners and permissions change meanwhile.  No code writes  *)
(* a token's expiry date or a SIM's public flag, so both keep the value    *)
(* they are created with: no token expires and no SIM is public.           *)
(***************************************************************************)
EXTENDS MamTokens

CONSTANTS MoatTokens,   \* rows of moat_tokens
          Idents,       \* what a SIM is known by: [iccid, imsi], each may be None
          Offered,      \* the sims of the tunnel server: [provider, id, ident]
          Conns         \* connections of the tunnel server

ASSUME IdentsAssumption == \A i \in Idents : DOMAIN i = {"iccid", "imsi"}

VARIABLES moat,         \* moat[m]: allowed scope and admin flag, or NoMoat
          permits,      \* rows of sims with their token_sim_association
          idCache,      \* idCache[s]: MoatManagementAuth._id_cache
          conn          \* conn[c]: a connection of a probe or a provider

authVars == <<moat, permits, idCache, conn>>

NoMoat == [scope |-> {}, admin |-> FALSE]
MoatScopes == (SUBSET {"Probe", "Provider"}) \ {{}}
NoConn == [pc |-> "idle", s |-> None, sim |-> None]
Permits == [ident : Idents, moat : MoatTokens, provide : BOOLEAN, request : BOOLEAN]

AuthTypeOK ==
    /\ moat \in [MoatTokens -> {NoMoat} \cup [scope : MoatScopes, admin : BOOLEAN]]
    /\ permits \subseteq Permits
    /\ session \in [Sessions -> {NoSession} \cup
                      [state : {"valid", "deleted"}, owner : Tokens \cup Sessions \cup {None},
                       moat : MoatTokens, scope : {"Probe", "Provider"}]]
    /\ idCache \in [Sessions -> Tokens \cup Sessions \cup {None}]
    /\ conn \in [Conns -> [pc : {"idle", "probe", "provider", "granted", "queued", "sims"},
                           s : Sessions \cup {None}, sim : Offered \cup {None}]]

AuthInit == /\ moat = [m \in MoatTokens |-> NoMoat]
            /\ permits = {}
            /\ idCache = [s \in Sessions |-> None]
            /\ conn = [c \in Conns |-> NoConn]

\* SimId.require_id, AllowSim.require_id.
Known(ident) == ident.iccid # None \/ ident.imsi # None

\* A SIM row satisfies a query: every identifier the query names is equal.
Matches(p, ident) == /\ ident.iccid # None => p.ident.iccid = ident.iccid
                     /\ ident.imsi # None => p.ident.imsi = ident.imsi

-----------------------------------------------------------------------------
(* The management server.                                                  *)

\* generate_tunnel_token: a fresh random value, with its scope and admin flag.
GenerateTunnelToken(m, scope, admin) ==
    /\ moat[m] = NoMoat
    /\ moat' = [moat EXCEPT ![m] = [scope |-> scope, admin |-> admin]]

CreateToken(m, scope, admin) ==
    /\ GenerateTunnelToken(m, scope, admin)
    /\ UNCHANGED <<mgmtVars, permits, idCache, conn>>

\* add_sim: a new SIM row and the token's rights on it.  ICCID and IMSI are
\* unique, so a second token can not be given rights on the same SIM.
AddSim(m, ident, provide, request) ==
    /\ moat[m] # NoMoat
    /\ Known(ident)
    /\ \A p \in permits : /\ ident.iccid = None \/ p.ident.iccid # ident.iccid
                          /\ ident.imsi = None \/ p.ident.imsi # ident.imsi
    /\ permits' = permits \cup {[ident |-> ident, moat |-> m,
                                 provide |-> provide, request |-> request]}
    /\ UNCHANGED <<mgmtVars, moat, idCache, conn>>

\* generate_session_token: a fresh random value.
GenerateSession(s, scope, m, owner) ==
    /\ session[s] = NoSession
    /\ scope \in moat[m].scope
    /\ session' = [session EXCEPT ![s] = [state |-> "valid", owner |-> owner,
                                          moat |-> m, scope |-> scope]]
    /\ UNCHANGED <<wgVars, mamVars, authVars>>

\* register_probe: the session token belongs to the probe of the MAM token.
RegisterProbe(s, t, m) == Bearer(t, {"Probe"}) /\ GenerateSession(s, "Probe", m, t)

\* register_provider: every registration makes a provider row, named s here.
RegisterProvider(s, m) == GenerateSession(s, "Provider", m, s)

\* deregister_probe, deregister_provider: delete_session_token.
Deregister(s) ==
    /\ session[s].state = "valid"
    /\ session' = [session EXCEPT ![s] = [@ EXCEPT !.state = "deleted", !.owner = None]]
    /\ UNCHANGED <<wgVars, mamVars, authVars>>

\* get_valid_sess_token, get_valid_probe_token and get_valid_provider_token.
ValidSession(s, scope) == session[s].state = "valid" /\ session[s].scope = scope

\* allowed_sim_registration: exactly one SIM the token may provide, per SIM.
AllowedSimRegistration(s, idents) ==
    /\ ValidSession(s, "Provider")
    /\ \A i \in idents : Known(i)
    /\ \/ moat[session[s].moat].admin
       \/ \A i \in idents :
            Cardinality({p \in permits : p.moat = session[s].moat /\ p.provide /\ Matches(p, i)}) = 1

\* allowed_sim_request: at most one row matches, the identifiers being unique.
AllowedSimRequest(s, ident) ==
    /\ ValidSession(s, "Probe") /\ Known(ident)
    /\ \/ moat[session[s].moat].admin
       \/ \E p \in permits : Matches(p, ident) /\ p.moat = session[s].moat /\ p.request

\* identity: the probe or provider of a session token.
OwnerOf(s) == session[s].owner

-----------------------------------------------------------------------------
(* The tunnel server.                                                      *)

\* Mutant of Identity: the MoAt token in place of the session's owner.
IdentityOfToken(s) == IF idCache[s] # None THEN idCache[s]
                      ELSE IF session[s].owner = None THEN None
                      ELSE CHOOSE o \in Tokens : TRUE

\* MoatManagementAuth.identity: the cached owner, or the management's answer,
\* which is then cached; a token the management does not know raises.
Identity(s) == IF idCache[s] # None THEN idCache[s] ELSE OwnerOf(s)

Remember(s) == idCache' = [idCache EXCEPT ![s] = Identity(s)]
Step(c, pc) == conn' = [conn EXCEPT ![c].pc = pc]
Drop(c) == conn' = [conn EXCEPT ![c] = NoConn]

\* register_probe of the tunnel server: AuthorisationRequest of a probe.
AcceptProbe(c, s) ==
    /\ conn[c] = NoConn /\ ValidSession(s, "Probe")
    /\ conn' = [conn EXCEPT ![c] = [NoConn EXCEPT !.pc = "probe", !.s = s]]
    /\ UNCHANGED <<mgmtVars, moat, permits, idCache>>

\* provider_registered, first await.  The second asks for the identity.
AcceptProvider(c, s) ==
    /\ conn[c] = NoConn /\ ValidSession(s, "Provider")
    /\ conn' = [conn EXCEPT ![c] = [NoConn EXCEPT !.pc = "provider", !.s = s]]
    /\ UNCHANGED <<mgmtVars, moat, permits, idCache>>

\* What a ConnectRequest names a SIM by.
Queries ==
    [kind : {"simid"}, provider : {o.provider : o \in Offered}, id : {o.id : o \in Offered}]
    \cup [kind : {"iccid"}, iccid : {i.iccid : i \in Idents} \ {None}]
    \cup [kind : {"imsi"}, imsi : {i.imsi : i \in Idents} \ {None}]
    \cup [kind : {"index"}, index : 0..Cardinality(Offered)]

\* The rows get_sim may find.  An index counts the SIMs of all providers in
\* the order of their ids, whichever provider the request names.
Lookup(q) ==
    {o \in Offered :
       CASE q.kind = "simid" -> o.provider = q.provider /\ o.id = q.id
         [] q.kind = "iccid" -> o.ident.iccid = q.iccid
         [] q.kind = "imsi"  -> o.ident.imsi = q.imsi
         [] q.kind = "index" -> /\ Cardinality({u \in Offered : u.id < o.id}) <= q.index
                                /\ q.index < Cardinality({u \in Offered : u.id <= o.id})}

\* get_sim: AuthResult members are all true in a condition, so `not' of the
\* answer never refuses.  A SIM with neither ICCID nor IMSI makes the
\* management answer 422, which raises.
RequestSim(c, q) ==
    /\ conn[c].pc = "probe"
    /\ \/ /\ \A o \in Lookup(q) : ~Known(o.ident)
          /\ Drop(c)
       \/ \E o \in Lookup(q) : /\ Known(o.ident)
                               /\ conn' = [conn EXCEPT ![c].pc = "granted", ![c].sim = o]
    /\ UNCHANGED <<mgmtVars, moat, permits, idCache>>

\* The identity that goes into the queue entry, or with the provider's row.
AskIdentity(c) ==
    LET s == conn[c].s IN
    /\ conn[c].pc \in {"granted", "provider"}
    /\ IF Identity(s) = None
       THEN Drop(c) /\ UNCHANGED idCache
       ELSE Remember(s) /\ Step(c, IF conn[c].pc = "granted" THEN "queued" ELSE "sims")
    /\ UNCHANGED <<mgmtVars, moat, permits>>

\* PUT /provider/sims of a provider, up to its identity (auth.register_provider).
RegisterSims(s, idents) ==
    /\ AllowedSimRegistration(s, idents)
    /\ Remember(s)
    /\ UNCHANGED <<mgmtVars, moat, permits, conn>>

\* DELETE /provider (auth.deregister_provider): needs no more than an identity.
DeregisterSims(s) ==
    /\ Identity(s) # None
    /\ Remember(s)
    /\ UNCHANGED <<mgmtVars, moat, permits, conn>>

\* The connection is closed, by either side.
Disconnect(c) == /\ conn[c] # NoConn
                 /\ Drop(c)
                 /\ UNCHANGED <<mgmtVars, moat, permits, idCache>>

\* The probes with the tokens T, deleted by handlers of R.
TunnelAuthNext(R, T) ==
    \/ \E t \in T, ip \in Ips, name \in Names :
         TokenActivate(t, {"Probe"}, ip, name) /\ UNCHANGED authVars
    \/ \E r \in R : /\ DeleteCommit(r) \/ \E t \in T : TokenDeactivate(r, t)
                    /\ UNCHANGED authVars
    \/ \E m \in MoatTokens :
         \/ \E scope \in MoatScopes, admin \in BOOLEAN : CreateToken(m, scope, admin)
         \/ \E i \in Idents, provide, request \in BOOLEAN : AddSim(m, i, provide, request)
         \/ \E s \in Sessions : RegisterProvider(s, m) \/ \E t \in T : RegisterProbe(s, t, m)
    \/ \E s \in Sessions : Deregister(s) \/ DeregisterSims(s) \/ \E i \in SUBSET Idents : RegisterSims(s, i)
    \/ \E c \in Conns :
         \/ \E s \in Sessions : AcceptProbe(c, s) \/ AcceptProvider(c, s)
         \/ \E q \in Queries : RequestSim(c, q)
         \/ AskIdentity(c)
         \/ Disconnect(c)

\* The management server as a whole: all of its handlers, at once.
ManagementNext ==
    \/ VpnNext(Requests, Tokens, Keys, Scopes) /\ UNCHANGED authVars
    \/ TunnelAuthNext(Requests, Tokens)

ManagementSpec == /\ WgInit /\ MamInit /\ AuthInit
                  /\ [][ManagementNext]_<<mgmtVars, authVars>>

-----------------------------------------------------------------------------
(* Properties                                                              *)

\* The identity under which the tunnel server treats a valid session token is
\* its owner's, and a probe that owns one is not deleted: the cache, which is
\* never invalidated, can be behind a deleted session token only.
IdentityHolds ==
    \A s \in Sessions : session[s].state = "valid" =>
        /\ idCache[s] \in {None, session[s].owner}
        /\ session[s].scope = "Probe" => probe[session[s].owner] # None

\* probe_handler.py:82, `Received disallowed SIM request from probe. Closing
\* connection.': a request goes on only if the management allows it.
GrantedIsAllowed ==
    [][\A c \in Conns : conn[c].pc # "granted" /\ conn'[c].pc = "granted" =>
         AllowedSimRequest(conn[c].s, conn'[c].sim.ident)]_<<mgmtVars, authVars>>
=============================================================================
