--------------------------- MODULE MCTunnelServer ---------------------------
(***************************************************************************)
(* Small instances of TunnelServer: both connections belong to provider a  *)
(* and compete for its queue, or a and b have one each.                    *)
(***************************************************************************)
EXTENDS TunnelServer

CONSTANTS a, b, c1, c2, q1, q2

OneProvider == [c \in Conns |-> a]
TwoProviders == [c \in Conns |-> IF c = c1 THEN a ELSE b]

\* The providers' rows stay: what happens without RowRemoved.
StableNext == Next /\ UNCHANGED registered
StableSpec == Init /\ [][StableNext]_vars
=============================================================================
