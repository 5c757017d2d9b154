------------------------------ MODULE WgDaemon ------------------------------
(***************************************************************************)
(* The WireGuard daemon of the management server (wg-daemon): the peers of *)
(* the live interface, the configuration file they are saved to, and the   *)
(* HTTP requests that add and remove peers.                                *)
(*                                                                         *)
(* A request runs `wg set' through sudo, then takes WG_CONFIG_LOCK and     *)
(* runs `wg-quick save'.  sudo() gives up waiting after ten seconds and    *)
(* leaves the process running: the handler fails, and the process takes    *)
(* effect later.  The client (wg_config.py) gives up after httpx's five    *)
(* seconds, and the handler goes on without it.                            *)
(***************************************************************************)
EXTENDS Naturals, FiniteSets

CONSTANTS Keys,      \* public keys of probes
          Ips,       \* addresses inside the VPN
          Requests,  \* HTTP handlers of the management server that may run at once
          Jobs,      \* HTTP handlers of the daemon that may run at once
          NoPeer,    \* the key is no peer of the interface
          NoIp,      \* the peer has lost its allowed ip to another peer
          None       \* absent value

ASSUME WgAssumption == /\ {NoPeer, NoIp, None} \cap (Keys \cup Ips \cup Requests \cup Jobs) = {}
                       /\ NoPeer # NoIp

VARIABLES live,      \* live[k]: allowed ip of peer k on the interface
          saved,     \* the same, as last written by wg-quick save
          job,       \* job[j]: the handler, or the process it left behind
          saving,    \* holder of WG_CONFIG_LOCK
          stale,     \* history: an interface change was not saved, by a failure
          answer     \* answer[r]: what the client's await of the daemon returned

wgVars == <<live, saved, job, saving, stale, answer>>

Peers == [Keys -> Ips \cup {NoPeer, NoIp}]

\* pc: "set" and "read", "write": the two processes; "lock": waiting for the
\* lock.  A job with an `orphan' process has no handler any more.
NoJob == [pc |-> "idle", op |-> None, key |-> None, ip |-> None,
          snap |-> None, client |-> None, orphan |-> FALSE]

JobRecords ==
    [pc : {"idle", "set", "lock", "read", "write"}, op : {"add", "remove", None},
     key : Keys \cup {None}, ip : Ips \cup {None}, snap : Peers \cup {None},
     client : Requests \cup {None}, orphan : BOOLEAN]

WgTypeOK == /\ live \in Peers
            /\ saved \in Peers
            /\ job \in [Jobs -> JobRecords]
            /\ saving \in Jobs \cup {None}
            /\ stale \in BOOLEAN
            /\ answer \in [Requests -> {"none", "wait", "ok", "error"}]

WgInit == /\ live = [k \in Keys |-> NoPeer]
          /\ saved = live
          /\ job = [j \in Jobs |-> NoJob]
          /\ saving = None
          /\ stale = FALSE
          /\ answer = [r \in Requests |-> "none"]

-----------------------------------------------------------------------------
(* The client's side: WgConfig.add_peer and remove_peer.                   *)

\* The request of handler r reaches the daemon, which starts `wg set'.
Call(r, op, k, ip) ==
    /\ \E j \in Jobs :
         /\ job[j] = NoJob
         /\ job' = [job EXCEPT ![j] = [NoJob EXCEPT !.pc = "set", !.op = op, !.key = k,
                                                    !.ip = ip, !.client = r]]
    /\ answer' = [answer EXCEPT ![r] = "wait"]
    /\ UNCHANGED <<live, saved, saving, stale>>

\* httpx's timeout: r's await raises, the daemon's handler does not notice.
ClientTimeout(r) ==
    \E j \in Jobs :
      /\ job[j].client = r
      /\ job' = [job EXCEPT ![j].client = None]
      /\ answer' = [answer EXCEPT ![r] = "error"]
      /\ UNCHANGED <<live, saved, saving, stale>>

-----------------------------------------------------------------------------
(* The daemon's side.                                                      *)

\* The handler of job j ends with result res; an orphaned process has none.
Reply(j, res) ==
    answer' = IF job[j].client \in Requests THEN [answer EXCEPT ![job[j].client] = res]
                                            ELSE answer

\* wg set: a peer's allowed ip is taken from the peer that had it.
WgSet(j) ==
    IF job[j].op = "remove" THEN [live EXCEPT ![job[j].key] = NoPeer]
    ELSE [k \in Keys |-> IF k = job[j].key THEN job[j].ip
                         ELSE IF live[k] = job[j].ip THEN NoIp ELSE live[k]]

\* The wg set process ends; its handler goes on to save, an orphan is gone.
SetDone(j) ==
    /\ job[j].pc = "set"
    /\ live' = WgSet(j)
    /\ job' = [job EXCEPT ![j] = IF job[j].orphan THEN NoJob ELSE [@ EXCEPT !.pc = "lock"]]
    /\ stale' = (stale \/ job[j].orphan)
    /\ UNCHANGED <<saved, saving, answer>>

\* wg set exits with a nonzero status, or the daemon can not be reached.
SetFails(j) ==
    /\ job[j].pc = "set"
    /\ job' = [job EXCEPT ![j] = NoJob]
    /\ Reply(j, "error")
    /\ UNCHANGED <<live, saved, saving, stale>>

\* Mutant of SaveLock: the file is saved without the lock.
SaveUnlocked(j) ==
    /\ job[j].pc = "lock"
    /\ saving' = j
    /\ job' = [job EXCEPT ![j].pc = "read"]
    /\ UNCHANGED <<live, saved, stale, answer>>

\* async with WG_CONFIG_LOCK.
SaveLock(j) ==
    /\ job[j].pc = "lock"
    /\ saving = None
    /\ saving' = j
    /\ job' = [job EXCEPT ![j].pc = "read"]
    /\ UNCHANGED <<live, saved, stale, answer>>

\* wg-quick save reads the interface ...
SaveRead(j) ==
    /\ job[j].pc = "read"
    /\ job' = [job EXCEPT ![j].pc = "write", ![j].snap = live]
    /\ UNCHANGED <<live, saved, saving, stale, answer>>

\* ... and replaces the file.
SaveWrite(j) ==
    /\ job[j].pc = "write"
    /\ saved' = job[j].snap
    /\ job' = [job EXCEPT ![j] = NoJob]
    /\ saving' = IF saving = j THEN None ELSE saving
    /\ stale' = (job[j].orphan \/ (stale /\ saved' # live))
    /\ Reply(j, "ok")
    /\ UNCHANGED live

\* wg-quick save exits with a nonzero status: WgError.
SaveFails(j) ==
    /\ job[j].pc \in {"read", "write"}
    /\ job' = [job EXCEPT ![j] = NoJob]
    /\ saving' = IF saving = j THEN None ELSE saving
    /\ stale' = TRUE
    /\ Reply(j, "error")
    /\ UNCHANGED <<live, saved>>

\* sudo() times out: the handler fails and drops the lock, the process stays.
SudoTimeout(j) ==
    /\ job[j].pc \in {"set", "read", "write"}
    /\ ~job[j].orphan
    /\ job' = [job EXCEPT ![j].orphan = TRUE, ![j].client = None]
    /\ saving' = IF saving = j THEN None ELSE saving
    /\ stale' = TRUE
    /\ Reply(j, "error")
    /\ UNCHANGED <<live, saved>>

DaemonNext == \E j \in Jobs : \/ SetDone(j)
                              \/ SetFails(j)
                              \/ SaveLock(j)
                              \/ SaveRead(j)
                              \/ SaveWrite(j)
                              \/ SaveFails(j)
                              \/ SudoTimeout(j)

-----------------------------------------------------------------------------
(* Properties                                                              *)

\* When the daemon has nothing in progress, the saved configuration is the
\* live one, unless a command failed or outlived its timeout: saves that
\* overlap (_save_wg_config) never leave an older interface in the file.
SavedFollowsLive == (stale \/ \E j \in Jobs : job[j] # NoJob) \/ saved = live
=============================================================================
