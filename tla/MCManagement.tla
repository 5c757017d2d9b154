---------------------------- MODULE MCManagement ----------------------------
(***************************************************************************)
(* The parts of the management server together: tokens and WireGuard       *)
(* configurations (MamTokens), the tunnel's authorisation (TunnelAuth) and *)
(* the probes' status (ProbeStatus), over one set of tables.  A behaviour  *)
(* looks at one part, chosen initially, with the size that part needs.     *)
(***************************************************************************)
EXTENDS ManagementServer

CONSTANTS t1, t2, r1, r2, k1, k2, iccid, imsi

VARIABLE part

vars == <<mgmtVars, authVars, statusVars, part>>

\* A SIM known by both identifiers, one known by its ICCID, one by neither.
Known2 == [iccid |-> iccid, imsi |-> imsi]
Known1 == [iccid |-> iccid, imsi |-> None]
Unknown == [iccid |-> None, imsi |-> None]
SimIdents == {Known2, Known1, Unknown}
OfferedSims == {[provider |-> "a", id |-> 1, ident |-> Known2],
                [provider |-> "b", id |-> 2, ident |-> Unknown]}

\* One job of the daemon at a time, where only the tokens are looked at.
OneJob == Cardinality({j \in Jobs : job'[j] # NoJob}) <= 1

WgOnly == {{"Wireguard"}}

Init == /\ WgInit /\ MamInit /\ AuthInit /\ StatusInit
        /\ part \in {"saves", "keys", "races", "tunnel", "status"}

\* Requests that a client gave up overlap at the daemon.
Saves == part = "saves" /\ VpnNext({r1}, {t1}, {k1}, WgOnly) /\ UNCHANGED <<authVars, statusVars>>

\* A probe registers a second key.
NewKeys == /\ part = "keys"
           /\ VpnNext({r1}, {t1}, Keys, WgOnly) /\ OneJob
           /\ UNCHANGED <<authVars, statusVars>>

\* Two handlers, two tokens, one address.
Races == /\ part = "races"
         /\ VpnNext(Requests, Tokens, {k1}, WgOnly) /\ OneJob
         /\ UNCHANGED <<authVars, statusVars>>

Tunnel == part = "tunnel" /\ TunnelAuthNext({r1}, {t1}) /\ UNCHANGED statusVars

Status == part = "status" /\ StatusNext({r1}, {t1}) /\ UNCHANGED authVars

Next == (Saves \/ NewKeys \/ Races \/ Tunnel \/ Status) /\ UNCHANGED part

Spec == Init /\ [][Next]_vars /\ WF_vars(part = "status" /\ CheckStep /\ UNCHANGED <<authVars, part>>)
=============================================================================
