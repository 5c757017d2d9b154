----------------------------- MODULE Matchmaking -----------------------------
(***************************************************************************)
(* What the tunnel server promises its clients: a probe that asks for a    *)
(* SIM is answered at most once, and is joined, if at all, with one        *)
(* connection of the SIM's provider, which serves no other probe.          *)
(***************************************************************************)
CONSTANTS Providers, Conns, Owner, Probes, Refusals, None

VARIABLES
  wanted,  \* the provider whose SIM each probe has asked for
  answer,  \* the answer it was given
  tunnel   \* the probe each provider connection is joined with

Init ==
  /\ wanted = [q \in Probes |-> None]
  /\ answer = [q \in Probes |-> None]
  /\ tunnel = [c \in Conns |-> None]

Ask(q, p) ==
  /\ wanted[q] = None /\ answer[q] = None
  /\ wanted' = [wanted EXCEPT ![q] = p]
  /\ UNCHANGED <<answer, tunnel>>

\* Some probes are turned down, for the same reason.
Refuse(Q, status) ==
  /\ \A q \in Q : answer[q] = None
  /\ answer' = [q \in Probes |-> IF q \in Q THEN status ELSE answer[q]]
  /\ UNCHANGED <<wanted, tunnel>>

Join(c, q) ==
  /\ wanted[q] = Owner[c] /\ answer[q] = None /\ tunnel[c] = None
  /\ answer' = [answer EXCEPT ![q] = "Success"]
  /\ tunnel' = [tunnel EXCEPT ![c] = q]
  /\ UNCHANGED wanted

Part(c) ==
  /\ tunnel' = [tunnel EXCEPT ![c] = None]
  /\ UNCHANGED <<wanted, answer>>

Next ==
  \/ \E q \in Probes, p \in Providers : Ask(q, p)
  \/ \E Q \in SUBSET Probes, status \in Refusals : Refuse(Q, status)
  \/ \E c \in Conns : Part(c) \/ \E q \in Probes : Join(c, q)

Spec == Init /\ [][Next]_<<wanted, answer, tunnel>>
=============================================================================
