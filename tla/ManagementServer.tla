-------------------------- MODULE ManagementServer ---------------------------
(***************************************************************************)
(* The management server as a whole, with the tunnel server that asks it   *)
(* and the daemons of the probes: all of their steps interleave over the   *)
(* tables they share.  The polls, the check of the statuses and the probe  *)
(* daemons (ProbeStatus) run beside the handlers of tokens, WireGuard      *)
(* configurations and sessions (TunnelAuth); whichever handler deletes a   *)
(* probe deletes its statuses (the cascade of models.py).                  *)
(***************************************************************************)
EXTENDS TunnelAuth, ProbeStatus

serverVars == <<mgmtVars, authVars, statusVars>>

ServerNext == \/ ManagementNext /\ DeleteStatuses
              \/ StatusNext(Requests, Tokens) /\ UNCHANGED authVars

ServerSpec == /\ WgInit /\ MamInit /\ AuthInit /\ StatusInit
              /\ [][ServerNext]_serverVars
=============================================================================
