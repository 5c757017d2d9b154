------------------------------ MODULE MCClients ------------------------------
(***************************************************************************)
(* The tunnel server with two connections of one provider and a probe; the *)
(* connection of a client to that server, byte by byte; and a provider     *)
(* that looks for SIMs and serves requests.  A behaviour looks at one of   *)
(* them, chosen initially.                                                 *)
(***************************************************************************)
EXTENDS MCTunnelServer, SimProvider, ClientStreams

CONSTANTS serial, reader, sim1, sim2, t1card, noIccid, empty

VARIABLE part

allVars == <<vars, providerVars, streamVars, part>>

\* Identifiers of SIMs.
SampleIdents == LET uuid == [k \in 1..16 |-> k]
                    number == <<48, 49, 50, 51, 48>>
                IN {[type |-> 0, provider |-> uuid, number |-> 258], [type |-> 3, provider |-> uuid, number |-> 1],
                    [type |-> 1, digits |-> number], [type |-> 2, digits |-> number]}
SampleToken == <<0, 7>>
SamplePackets == {[op |-> 1, payload |-> <<>>], [op |-> 0, payload |-> <<1, 0>>]}

ClientsInit ==
    /\ Init /\ ProviderInit /\ ClientInit
    /\ part \in {"server", "provider", "client"}
    /\ part = "provider" \/ (~direct /\ plugged = <<>>)
    /\ part = "client" \/ role = "probe"

ServerNext == part = "server" /\ Next /\ UNCHANGED <<providerVars, streamVars, part>>
SimProviderNext == part = "provider" /\ ProviderNext /\ UNCHANGED <<vars, streamVars, part>>
ClientStreamsNext == part = "client" /\ ClientNext /\ UNCHANGED <<vars, providerVars, part>>

\* The fairness is that of the server.
ClientsSpec == ClientsInit /\ [][ServerNext \/ SimProviderNext \/ ClientStreamsNext]_allVars /\ Fairness
=============================================================================
