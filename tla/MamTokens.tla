----------------------------- MODULE MamTokens ------------------------------
(***************************************************************************)
(* The tokens of probes at the management server and the WireGuard         *)
(* configurations they stand for: token_routes.py, wireguard_routes.py,    *)
(* auth.py and the tables of models.py they read and write.                *)
(*                                                                         *)
(* A handler that runs in one database transaction is one action, because  *)
(* the unique and foreign keys of the tables make the later of two         *)
(* conflicting transactions fail.  The handlers that call the WireGuard    *)
(* daemon inside their transaction are split there: what they read before  *)
(* the call may be out of date when they commit.                           *)
(***************************************************************************)
EXTENDS WgDaemon

CONSTANTS Tokens,    \* token values (of candidates and of active tokens)
          Names,     \* probe names
          Sessions,  \* session tokens of the SIM tunnel
          MaxRows    \* bound: rows mam_tokens ever has for one token value

\* An activation gives the probe a name (probe.name is not nullable).
ASSUME TokenAssumption == MaxRows \in Nat /\ None \notin Names

VARIABLES mam,       \* mam[t]: row of mam_tokens with token_candidate t
          row,       \* row[t]: rows of t deleted so far, which tells its rows apart
          config,    \* config[t]: its row of wireguard_config
          probe,     \* probe[t]: name of its row of probe
          attempts,  \* rows of wireguard_config_logs
          session,   \* session[s]: row of moat_session_tokens, see TunnelAuth
          req        \* req[r]: handler r between two of its transactions

mamVars == <<mam, row, config, probe, attempts, req>>
mgmtVars == <<wgVars, mamVars, session>>

Scopes == (SUBSET {"Wireguard", "Probe"}) \ {{}}
NoToken == [state |-> "none", scope |-> {}]
NoConfig == [ip |-> None, publickey |-> None, allow |-> FALSE]
NoSession == [state |-> "unused", owner |-> None, moat |-> None, scope |-> None]
NoReq == [pc |-> "idle", t |-> None, row |-> 0, key |-> None, ip |-> None]

Configs == [ip : Ips, publickey : Keys \cup {None}, allow : BOOLEAN]
Reqs == [pc : {"idle", "register", "adding", "removing", "delete"}, t : Tokens \cup {None},
         row : 0..MaxRows, key : Keys \cup {None}, ip : Ips \cup {None}]

MamTypeOK ==
    /\ mam \in [Tokens -> {NoToken} \cup [state : {"candidate", "active"}, scope : Scopes]]
    /\ row \in [Tokens -> 0..MaxRows]
    /\ config \in [Tokens -> {NoConfig} \cup Configs]
    /\ probe \in [Tokens -> Names \cup {None}]
    /\ attempts \subseteq Tokens \X Keys
    /\ req \in [Requests -> Reqs]

MamInit == /\ mam = [t \in Tokens |-> NoToken]
           /\ row = [t \in Tokens |-> 0]
           /\ config = [t \in Tokens |-> NoConfig]
           /\ probe = [t \in Tokens |-> None]
           /\ attempts = {}
           /\ session = [s \in Sessions |-> NoSession]
           /\ req = [r \in Requests |-> NoReq]

\* check_token: the bearer's token is active and has the scope.
Bearer(t, scope) == mam[t].state = "active" /\ scope \subseteq mam[t].scope

-----------------------------------------------------------------------------
(* Candidates and their activation.                                        *)

\* add_token_candidate: the value is unique.
AddCandidate(t, scope) ==
    /\ mam[t].state = "none" /\ row[t] < MaxRows
    /\ mam' = [mam EXCEPT ![t] = [state |-> "candidate", scope |-> scope]]

\* prune_candidates deletes candidates beyond the ten newest log rows; their
\* log rows still refer to them, so such a registration fails as a whole.
PruneFails(t) == mam' = mam /\ \E c \in Tokens \ {t} : mam[c].state = "candidate"

\* token_register.  A candidate that exists is left as it is (answer 200).
TokenRegister(t, scope) ==
    /\ AddCandidate(t, scope) \/ PruneFails(t)
    /\ UNCHANGED <<wgVars, row, config, probe, attempts, session, req>>

\* Mutant of AfterActivationWg: only a configuration that exists is updated.
ActivationKeepsConfig(t, ip) ==
    config' = IF config[t] = NoConfig THEN config
              ELSE [config EXCEPT ![t] = [@ EXCEPT !.ip = ip, !.allow = TRUE]]

\* wireguard_routes.after_token_activation: a new configuration, or the old
\* one with a new address and its registration window open again.
AfterActivationWg(t, ip) ==
    config' = [config EXCEPT ![t] = [ip |-> ip, publickey |-> @.publickey, allow |-> TRUE]]

\* What handle_activation_error reports after the commit has failed.
DuplicateIp(t, ip) == \E u \in Tokens \ {t} : config[u].ip = ip
DuplicateName(t, name) == \E u \in Tokens \ {t} : probe[u] = name

\* after_token_activation of probe_routes; a token has one probe.
AfterActivationProbe(t, name) ==
    /\ probe[t] = None
    /\ probe' = [probe EXCEPT ![t] = name]

\* token_activate: unknown tokens are added first, the scope must be the one
\* requested, and the commit fails on a duplicate ip, a duplicate name or a
\* second probe of the token.
TokenActivate(t, scope, ip, name) ==
    /\ (mam[t].state = "none" /\ row[t] < MaxRows) \/ mam[t].scope = scope
    /\ mam' = [mam EXCEPT ![t] = [state |-> "active", scope |-> scope]]
    /\ IF "Wireguard" \in scope
       THEN ~DuplicateIp(t, ip) /\ AfterActivationWg(t, ip)
       ELSE config' = config
    /\ IF "Probe" \in scope
       THEN ~DuplicateName(t, name) /\ AfterActivationProbe(t, name)
       ELSE probe' = probe
    /\ UNCHANGED <<wgVars, row, attempts, session, req>>

-----------------------------------------------------------------------------
(* wireguard_register, with the daemon's answer between read and commit.   *)

Idle(r) == req[r] = NoReq /\ answer[r] = "none"
End(r) == req' = [req EXCEPT ![r] = NoReq]

\* The row r has loaded is still there: updates and refreshes go by its id.
SameRow(r) == mam[req[r].t].state # "none" /\ row[req[r].t] = req[r].row

\* Mutant of RegisterLog: the log row waits for the registration's commit.
RegisterUnlogged(r, t, k) ==
    /\ Idle(r)
    /\ Bearer(t, {"Wireguard"})
    /\ req' = [req EXCEPT ![r] = [NoReq EXCEPT !.pc = "register", !.t = t,
                                                 !.row = row[t], !.key = k]]
    /\ UNCHANGED <<wgVars, mam, row, config, probe, attempts, session>>

\* log_config_attempt: a row of wireguard_config_logs.
LogConfigAttempt(t, k) == attempts' = attempts \cup {<<t, k>>}

\* The attempt is logged in a transaction of its own.
RegisterLog(r, t, k) ==
    /\ Idle(r)
    /\ Bearer(t, {"Wireguard"})
    /\ LogConfigAttempt(t, k)
    /\ req' = [req EXCEPT ![r] = [NoReq EXCEPT !.pc = "register", !.t = t,
                                                 !.row = row[t], !.key = k]]
    /\ UNCHANGED <<wgVars, mam, row, config, probe, session>>

\* The token's row is gone (the refresh raises), or its window is closed: 403.
\* The branch for an active token without a configuration is never taken, see
\* ActiveHasConfig.
RegisterRefused(r) ==
    /\ req[r].pc = "register"
    /\ ~SameRow(r) \/ ~config[req[r].t].allow
    /\ End(r)
    /\ UNCHANGED <<wgVars, mam, row, config, probe, attempts, session>>

\* The window is open: the peer is added at the daemon, inside the transaction.
RegisterAdd(r) ==
    LET t == req[r].t IN
    /\ req[r].pc = "register"
    /\ SameRow(r) /\ config[t].allow
    /\ req' = [req EXCEPT ![r].pc = "adding", ![r].ip = config[t].ip]
    /\ Call(r, "add", req[r].key, config[t].ip)
    /\ UNCHANGED <<mam, row, config, probe, attempts, session>>

\* The daemon has answered: commit, unless the row has gone meanwhile (the
\* update matches no row), the call raised or the database fails.
RegisterCommit(r) ==
    LET t == req[r].t IN
    /\ req[r].pc = "adding" /\ answer[r] \in {"ok", "error"}
    /\ \/ /\ answer[r] = "ok" /\ SameRow(r)
          /\ config' = [config EXCEPT ![t].publickey = req[r].key, ![t].allow = FALSE]
       \/ config' = config
    /\ answer' = [answer EXCEPT ![r] = "none"]
    /\ End(r)
    /\ UNCHANGED <<live, saved, job, saving, stale, mam, row, probe, attempts, session>>

-----------------------------------------------------------------------------
(* delete_token, for token_deactivate (by the admin) and revoke (by the    *)
(* token itself).                                                          *)

\* before_token_deletion removes the peer of the stored public key.
DeleteBegin(r, t) ==
    /\ Idle(r)
    /\ mam[t].state # "none"
    /\ req' = [req EXCEPT ![r] = [NoReq EXCEPT !.t = t, !.row = row[t], !.ip = config[t].ip,
                 !.pc = IF config[t].publickey = None THEN "delete" ELSE "removing"]]
    /\ IF config[t].publickey = None THEN UNCHANGED wgVars
       ELSE Call(r, "remove", config[t].publickey, None)
    /\ UNCHANGED <<mam, row, config, probe, attempts, session>>

\* revoke, by the bearer of the token itself.
Revoke(r, t) == Bearer(t, {}) /\ DeleteBegin(r, t)

\* token_deactivate, by the administrator, of any token or candidate.
TokenDeactivate(r, t) == DeleteBegin(r, t)

\* Token, configuration and probe are deleted together (cascades).
DeleteRows(t) ==
    /\ mam' = [mam EXCEPT ![t] = NoToken]
    /\ row' = [row EXCEPT ![t] = @ + 1]
    /\ config' = [config EXCEPT ![t] = NoConfig]
    /\ probe' = [probe EXCEPT ![t] = None]

\* Mutant of SessionsOf: the foreign key is not there.
NoSessionsOf(t) == {}

\* The rows of session tokens that refer to t's probe.
SessionsOf(t) == {s \in Sessions : session[s].owner = t}

\* The commit of delete_token.  It fails if a
\* configuration came up that the deletion has not loaded, and if a session
\* token refers to the probe; the peer stays removed then.
DeleteCommit(r) ==
    LET t == req[r].t
        loaded == config[t] = NoConfig \/ req[r].ip # None
    IN
    /\ \/ req[r].pc = "delete"
       \/ req[r].pc = "removing" /\ answer[r] \in {"ok", "error"}
    /\ \/ /\ answer[r] # "error" /\ SameRow(r) /\ loaded /\ SessionsOf(t) = {}
          /\ DeleteRows(t)
       \/ UNCHANGED <<mam, row, config, probe>>
    /\ answer' = [answer EXCEPT ![r] = "none"]
    /\ End(r)
    /\ UNCHANGED <<live, saved, job, saving, stale, attempts, session>>

-----------------------------------------------------------------------------

\* The handlers R, for the tokens T, with keys of K and scopes of S.
VpnNext(R, T, K, S) ==
    \/ \E t \in T, scope \in S :
         \/ TokenRegister(t, scope)
         \/ \E ip \in Ips, name \in Names : TokenActivate(t, scope, ip, name)
    \/ \E r \in R :
         \/ \E t \in T, k \in K : RegisterLog(r, t, k)
         \/ RegisterRefused(r)
         \/ RegisterAdd(r)
         \/ RegisterCommit(r)
         \/ \E t \in T : Revoke(r, t) \/ TokenDeactivate(r, t)
         \/ DeleteCommit(r)
         \/ ClientTimeout(r) /\ UNCHANGED <<mamVars, session>>
    \/ DaemonNext /\ UNCHANGED <<mamVars, session>>

-----------------------------------------------------------------------------
(* Properties                                                              *)

\* The comment of wireguard_register: an active token with the WireGuard scope
\* has a configuration, whatever is activated, registered and deleted meanwhile.
ActiveHasConfig ==
    \A t \in Tokens : Bearer(t, {"Wireguard"}) => config[t] # NoConfig

\* A key that is a peer of the interface, or of its saved file, is in the log
\* of attempts: the log survives the failures that leave a peer without a row.
PeersAreLogged ==
    \A k \in Keys : {live[k], saved[k]} # {NoPeer} => \E t \in Tokens : <<t, k>> \in attempts
=============================================================================
