-------------------------- MODULE ManagementProofs ---------------------------
(***************************************************************************)
(* Proofs about the management server: WgDaemon, MamTokens and TunnelAuth, *)
(* and ProbeStatus as a part of the whole (ManagementServer), for any      *)
(* tokens, keys, addresses, sessions, polls and any number of handlers at  *)
(* once.                                                                   *)
(***************************************************************************)
EXTENDS ManagementServer, SequenceTheorems, FiniteSetTheorems, TLAPS

-----------------------------------------------------------------------------
(***************************************************************************)
(* The invariant of the WireGuard daemon                                   *)
(***************************************************************************)

\* A handler saves under the lock; only a process it left behind does not.
LockHeld == \A j \in Jobs : job[j].pc \in {"read", "write"} /\ ~job[j].orphan => saving = j

\* A change that is not in the file will be: a handler is still to read the
\* interface, or has read it as it is.
SavePending ==
    ~stale /\ saved # live =>
      \E j \in Jobs : /\ ~job[j].orphan
                      /\ job[j].pc \in {"lock", "read"} \/ (job[j].pc = "write" /\ job[j].snap = live)

\* A handler that is about to write what is out of date is followed by another.
OldWriteFollowed ==
    \A j \in Jobs : job[j].pc = "write" /\ ~job[j].orphan /\ job[j].snap # live =>
      stale \/ \E i \in Jobs : job[i].pc = "lock" /\ ~job[i].orphan

\* What a job's fields hold, as far as its place says; nothing is done for nobody.
JobState ==
    \A j \in Jobs : /\ job[j].pc = "write" => job[j].snap \in Peers
                    /\ job[j].pc # "idle" => job[j].key \in Keys
                    /\ job[j].pc = "set" /\ job[j].op # "remove" => job[j].ip \in Ips

WgInv == WgTypeOK /\ LockHeld /\ SavePending /\ OldWriteFollowed /\ JobState

LEMMA NoJobIs == /\ NoJob \in JobRecords /\ NoJob.pc = "idle" /\ ~NoJob.orphan
                 /\ NoJob.client = None /\ NoJob.snap = None
BY DEF NoJob, JobRecords

LEMMA WgInitInv == WgInit => WgInv
<1> SUFFICES ASSUME WgInit PROVE WgInv
  OBVIOUS
<1>1. WgTypeOK
  BY NoJobIs DEF WgInit, WgTypeOK, Peers
<1>2. \A j \in Jobs : job[j].pc = "idle"
  BY NoJobIs DEF WgInit
<1>3. saved = live
  BY DEF WgInit
<1> QED
  BY <1>1, <1>2, <1>3 DEF WgInv, LockHeld, SavePending, OldWriteFollowed, JobState

LEMMA ReplyAnswers ==
  ASSUME WgTypeOK, NEW j \in Jobs, NEW res \in {"ok", "error"}, Reply(j, res)
  PROVE  answer' \in [Requests -> {"none", "wait", "ok", "error"}]
BY DEF WgTypeOK, Reply

LEMMA CallWg ==
  ASSUME WgInv, NEW r \in Requests, NEW op \in {"add", "remove"}, NEW k \in Keys,
         NEW ip \in Ips \cup {None}, op = "add" => ip \in Ips, Call(r, op, k, ip)
  PROVE  WgInv'
<1>1. PICK j \in Jobs :
         /\ job[j] = NoJob
         /\ job' = [job EXCEPT ![j] = [NoJob EXCEPT !.pc = "set", !.op = op, !.key = k,
                                                    !.ip = ip, !.client = r]]
  BY DEF Call
<1>2. /\ job'[j].pc = "set" /\ job'[j].op = op /\ job'[j].key = k /\ job'[j].ip = ip
      /\ ~job'[j].orphan /\ job'[j] \in JobRecords
  BY <1>1, NoJobIs DEF WgInv, WgTypeOK, NoJob, JobRecords
<1>3. \A i \in Jobs \ {j} : job'[i] = job[i]
  BY <1>1 DEF WgInv, WgTypeOK
<1>4. job' \in [Jobs -> JobRecords]
  BY <1>1, <1>2, <1>3 DEF WgInv, WgTypeOK
<1>5. WgTypeOK'
  BY <1>4 DEF WgInv, WgTypeOK, Call
<1>6. LockHeld'
  BY <1>2, <1>3 DEF WgInv, LockHeld, Call
<1>7. SavePending' /\ OldWriteFollowed'
  BY <1>1, <1>2, <1>3, NoJobIs DEF WgInv, SavePending, OldWriteFollowed, Call
<1>8. JobState'
  BY <1>2, <1>3 DEF WgInv, JobState
<1> QED
  BY <1>5, <1>6, <1>7, <1>8 DEF WgInv

LEMMA ClientTimeoutWg ==
  ASSUME WgInv, NEW r \in Requests, ClientTimeout(r)
  PROVE  WgInv'
<1>1. PICK j \in Jobs : job[j].client = r /\ job' = [job EXCEPT ![j].client = None]
                        /\ answer' = [answer EXCEPT ![r] = "error"]
                        /\ UNCHANGED <<live, saved, saving, stale>>
  BY DEF ClientTimeout
<1>2. \A i \in Jobs : /\ job'[i].pc = job[i].pc /\ job'[i].orphan = job[i].orphan
                      /\ job'[i].snap = job[i].snap /\ job'[i].key = job[i].key
                      /\ job'[i].op = job[i].op /\ job'[i].ip = job[i].ip
                      /\ job'[i] \in JobRecords
  BY <1>1 DEF WgInv, WgTypeOK, JobRecords
<1>3. WgTypeOK'
  BY <1>1, <1>2 DEF WgInv, WgTypeOK
<1> QED
  BY <1>1, <1>2, <1>3 DEF WgInv, LockHeld, SavePending, OldWriteFollowed, JobState

LEMMA SetDoneWg == ASSUME WgInv, NEW j \in Jobs, SetDone(j) PROVE WgInv'
<1>1. job[j] \in JobRecords /\ job[j].key \in Keys
  BY DEF WgInv, WgTypeOK, JobState, SetDone
<1>2. live' \in Peers
  <2>1. CASE job[j].op = "remove"
    BY <1>1, <2>1 DEF SetDone, WgSet, WgInv, WgTypeOK, Peers
  <2>2. CASE job[j].op # "remove"
    <3>1. job[j].ip \in Ips
      BY <2>2 DEF WgInv, JobState, SetDone
    <3> QED
      BY <1>1, <2>2, <3>1 DEF SetDone, WgSet, WgInv, WgTypeOK, Peers
  <2> QED
    BY <2>1, <2>2
<1>3. \A i \in Jobs \ {j} : job'[i] = job[i]
  BY DEF SetDone, WgInv, WgTypeOK
<1>4. CASE job[j].orphan
  <2>1. job'[j] = NoJob /\ stale'
    BY <1>4 DEF SetDone, WgInv, WgTypeOK
  <2>2. job' \in [Jobs -> JobRecords]
    BY <1>3, <2>1, NoJobIs DEF SetDone, WgInv, WgTypeOK
  <2> QED
    BY <1>2, <1>3, <2>1, <2>2, NoJobIs
    DEF SetDone, WgInv, WgTypeOK, LockHeld, SavePending, OldWriteFollowed, JobState
<1>5. CASE ~job[j].orphan
  <2>1. job'[j] = [job[j] EXCEPT !.pc = "lock"]
    BY <1>5 DEF SetDone, WgInv, WgTypeOK
  <2>2. job'[j].pc = "lock" /\ ~job'[j].orphan /\ job'[j].key = job[j].key /\ job'[j] \in JobRecords
    BY <1>1, <1>5, <2>1 DEF JobRecords
  <2>3. job' \in [Jobs -> JobRecords]
    BY <1>3, <2>2 DEF SetDone, WgInv, WgTypeOK
  <2>4. WgTypeOK'
    BY <1>2, <2>3 DEF SetDone, WgInv, WgTypeOK
  <2>5. LockHeld' /\ SavePending' /\ OldWriteFollowed'
    BY <1>3, <2>2 DEF SetDone, WgInv, LockHeld, SavePending, OldWriteFollowed
  <2>6. JobState'
    BY <1>1, <1>3, <2>2 DEF WgInv, JobState
  <2> QED
    BY <2>4, <2>5, <2>6 DEF WgInv
<1> QED
  BY <1>4, <1>5

LEMMA SetFailsWg == ASSUME WgInv, NEW j \in Jobs, SetFails(j) PROVE WgInv'
<1>1. job'[j] = NoJob /\ \A i \in Jobs \ {j} : job'[i] = job[i]
  BY DEF SetFails, WgInv, WgTypeOK
<1>2. job' \in [Jobs -> JobRecords]
  BY <1>1, NoJobIs DEF SetFails, WgInv, WgTypeOK
<1>3. WgTypeOK'
  BY <1>2, ReplyAnswers DEF SetFails, WgInv, WgTypeOK
<1> QED
  BY <1>1, <1>3, NoJobIs
  DEF SetFails, WgInv, LockHeld, SavePending, OldWriteFollowed, JobState

LEMMA SaveLockWg == ASSUME WgInv, NEW j \in Jobs, SaveLock(j) PROVE WgInv'
<1>1. job'[j] = [job[j] EXCEPT !.pc = "read"] /\ \A i \in Jobs \ {j} : job'[i] = job[i]
  BY DEF SaveLock, WgInv, WgTypeOK
<1>2. /\ job'[j].pc = "read" /\ job'[j].orphan = job[j].orphan /\ job'[j].key = job[j].key
      /\ job'[j] \in JobRecords
  BY <1>1 DEF WgInv, WgTypeOK, JobRecords
<1>3. job' \in [Jobs -> JobRecords]
  BY <1>1, <1>2 DEF SaveLock, WgInv, WgTypeOK
<1>4. WgTypeOK'
  BY <1>3 DEF SaveLock, WgInv, WgTypeOK
\* Nobody was saving.
<1>5. \A i \in Jobs : job[i].pc \in {"read", "write"} => job[i].orphan
  BY WgAssumption DEF SaveLock, WgInv, LockHeld
<1>6. LockHeld' /\ OldWriteFollowed'
  BY <1>1, <1>2, <1>5 DEF SaveLock, WgInv, WgTypeOK, LockHeld, OldWriteFollowed
<1>7. SavePending'
  BY <1>1, <1>2 DEF SaveLock, WgInv, SavePending
<1>8. JobState'
  BY <1>1, <1>2 DEF SaveLock, WgInv, JobState
<1> QED
  BY <1>4, <1>6, <1>7, <1>8 DEF WgInv

LEMMA SaveReadWg == ASSUME WgInv, NEW j \in Jobs, SaveRead(j) PROVE WgInv'
<1>1. job'[j] = [job[j] EXCEPT !.pc = "write", !.snap = live]
      /\ \A i \in Jobs \ {j} : job'[i] = job[i]
  BY DEF SaveRead, WgInv, WgTypeOK
<1>2. /\ job'[j].pc = "write" /\ job'[j].orphan = job[j].orphan /\ job'[j].key = job[j].key
      /\ job'[j].snap = live /\ job'[j] \in JobRecords
  <2>1. job[j] \in JobRecords /\ live \in Peers
    BY DEF WgInv, WgTypeOK
  <2> QED
    BY <1>1, <2>1 DEF JobRecords
<1>3. job' \in [Jobs -> JobRecords]
  BY <1>1, <1>2 DEF SaveRead, WgInv, WgTypeOK
<1>4. WgTypeOK'
  BY <1>3 DEF SaveRead, WgInv, WgTypeOK
<1>5. LockHeld' /\ SavePending'
  BY <1>1, <1>2 DEF SaveRead, WgInv, LockHeld, SavePending
<1>6. OldWriteFollowed'
  BY <1>1, <1>2 DEF SaveRead, WgInv, OldWriteFollowed
<1>7. JobState'
  BY <1>1, <1>2 DEF SaveRead, WgInv, WgTypeOK, JobState
<1> QED
  BY <1>4, <1>5, <1>6, <1>7 DEF WgInv

LEMMA SaveWriteWg == ASSUME WgInv, NEW j \in Jobs, SaveWrite(j) PROVE WgInv'
<1>1. job'[j] = NoJob /\ \A i \in Jobs \ {j} : job'[i] = job[i]
  BY DEF SaveWrite, WgInv, WgTypeOK
<1>2. job' \in [Jobs -> JobRecords]
  BY <1>1, NoJobIs DEF SaveWrite, WgInv, WgTypeOK
<1>3. job[j].orphan \in BOOLEAN /\ stale \in BOOLEAN
  BY DEF WgInv, WgTypeOK, JobRecords
<1>4. stale' \in BOOLEAN
  BY <1>3 DEF SaveWrite
<1>5. WgTypeOK'
  BY <1>2, <1>4, ReplyAnswers DEF SaveWrite, WgInv, WgTypeOK, JobState
<1>6. LockHeld' /\ JobState'
  BY <1>1, NoJobIs DEF SaveWrite, WgInv, LockHeld, JobState
\* A file that is behind the interface is followed by the save of another.
<1>7. ~job[j].orphan => stale' \/ saved' = live
                        \/ \E i \in Jobs \ {j} : job[i].pc = "lock" /\ ~job[i].orphan
  BY DEF SaveWrite, WgInv, OldWriteFollowed
<1>8. SavePending'
  <2>1. CASE job[j].orphan
    BY <2>1 DEF SaveWrite, SavePending
  <2>2. CASE ~job[j].orphan
    BY <1>1, <1>7, <2>2 DEF SaveWrite, SavePending
  <2> QED
    BY <2>1, <2>2
<1>9. OldWriteFollowed'
  <2>1. CASE job[j].orphan
    BY <2>1 DEF SaveWrite, OldWriteFollowed
  <2>2. CASE ~job[j].orphan
    BY <1>1, <2>2, NoJobIs DEF SaveWrite, WgInv, LockHeld, OldWriteFollowed
  <2> QED
    BY <2>1, <2>2
<1> QED
  BY <1>5, <1>6, <1>8, <1>9 DEF WgInv

LEMMA SaveFailsWg == ASSUME WgInv, NEW j \in Jobs, SaveFails(j) PROVE WgInv'
<1>1. job'[j] = NoJob /\ \A i \in Jobs \ {j} : job'[i] = job[i]
  BY DEF SaveFails, WgInv, WgTypeOK
<1>2. job' \in [Jobs -> JobRecords]
  BY <1>1, NoJobIs DEF SaveFails, WgInv, WgTypeOK
<1>3. WgTypeOK'
  BY <1>2, ReplyAnswers DEF SaveFails, WgInv, WgTypeOK
<1> QED
  BY <1>1, <1>3, NoJobIs
  DEF SaveFails, WgInv, LockHeld, SavePending, OldWriteFollowed, JobState

LEMMA SudoTimeoutWg == ASSUME WgInv, NEW j \in Jobs, SudoTimeout(j) PROVE WgInv'
<1>1. job'[j] = [job[j] EXCEPT !.orphan = TRUE, !.client = None]
      /\ \A i \in Jobs \ {j} : job'[i] = job[i]
  BY DEF SudoTimeout, WgInv, WgTypeOK
<1>2. /\ job'[j].pc = job[j].pc /\ job'[j].orphan = TRUE /\ job'[j].key = job[j].key
      /\ job'[j].snap = job[j].snap /\ job'[j].ip = job[j].ip /\ job'[j].op = job[j].op
      /\ job'[j] \in JobRecords
  <2>1. job[j] \in JobRecords
    BY DEF WgInv, WgTypeOK
  <2> QED
    BY <1>1, <2>1 DEF JobRecords
<1>3. job' \in [Jobs -> JobRecords]
  BY <1>1, <1>2 DEF SudoTimeout, WgInv, WgTypeOK
<1>4. WgTypeOK'
  BY <1>3, ReplyAnswers DEF SudoTimeout, WgInv, WgTypeOK
<1>5. LockHeld' /\ SavePending' /\ OldWriteFollowed'
  BY <1>1, <1>2 DEF SudoTimeout, WgInv, LockHeld, SavePending, OldWriteFollowed
<1>6. \A i \in Jobs : /\ job'[i].pc = job[i].pc /\ job'[i].key = job[i].key
                      /\ job'[i].snap = job[i].snap /\ job'[i].ip = job[i].ip
                      /\ job'[i].op = job[i].op
  BY <1>1, <1>2
<1>7. JobState'
  BY <1>6 DEF WgInv, JobState
<1> QED
  BY <1>4, <1>5, <1>7 DEF WgInv

LEMMA DaemonWg == ASSUME WgInv, DaemonNext PROVE WgInv'
BY SetDoneWg, SetFailsWg, SaveLockWg, SaveReadWg, SaveWriteWg, SaveFailsWg, SudoTimeoutWg
DEF DaemonNext

\* The handlers of the management server take the daemon's answers only.
LEMMA AnswerTakenWg ==
  ASSUME WgInv, UNCHANGED <<live, saved, job, saving, stale>>,
         answer' \in [Requests -> {"none", "wait", "ok", "error"}]
  PROVE  WgInv'
BY DEF WgInv, WgTypeOK, LockHeld, SavePending, OldWriteFollowed, JobState

-----------------------------------------------------------------------------
(***************************************************************************)
(* The invariant of the tokens                                             *)
(***************************************************************************)

RowsLeft == \A t \in Tokens : mam[t].state # "none" => row[t] < MaxRows

\* The counterpart of ActiveHasConfig for probes.
ActiveHasProbe == \A t \in Tokens : Bearer(t, {"Probe"}) => probe[t] # None

\* The row a handler has loaded is there, or is counted among the deleted ones.
ReqState ==
    \A r \in Requests : req[r].pc # "idle" =>
      /\ req[r].t \in Tokens /\ req[r].row <= row[req[r].t]
      /\ req[r].row = row[req[r].t] => mam[req[r].t].state # "none"
      /\ req[r].pc \in {"register", "adding"} => req[r].key \in Keys

\* While the daemon is asked, the row the handler has loaded keeps its
\* configuration, or is gone.
AddingHasConfig ==
    \A r \in Requests : req[r].pc = "adding" /\ SameRow(r) => config[req[r].t] # NoConfig

MamInv == MamTypeOK /\ RowsLeft /\ ActiveHasConfig /\ ActiveHasProbe /\ ReqState /\ AddingHasConfig

LEMMA ConfigHasIp ==
  ASSUME MamTypeOK, NEW t \in Tokens
  PROVE  /\ config[t] # NoConfig <=> config[t].ip \in Ips
         /\ config[t] # NoConfig => config[t] \in Configs
         /\ config[t].allow => config[t] # NoConfig
         /\ config[t].publickey \in Keys \cup {None} /\ config[t].ip \in Ips \cup {None}
BY WgAssumption DEF MamTypeOK, NoConfig, Configs

LEMMA NoReqIs == NoReq.pc = "idle" /\ NoReq.t = None /\ NoReq.row = 0 /\ NoReq.key = None /\ NoReq.ip = None
BY DEF NoReq

LEMMA MamInitInv == MamInit => MamInv
<1> SUFFICES ASSUME MamInit PROVE MamInv
  OBVIOUS
<1>1. MamTypeOK
  BY TokenAssumption DEF MamInit, MamTypeOK, NoReq, Reqs
<1>2. \A t \in Tokens : mam[t].state = "none"
  BY DEF MamInit, NoToken
<1>3. \A r \in Requests : req[r].pc = "idle"
  BY NoReqIs DEF MamInit
<1> QED
  BY <1>1, <1>2, <1>3
  DEF MamInv, RowsLeft, ActiveHasConfig, ActiveHasProbe, Bearer, ReqState, AddingHasConfig

\* A handler ends; the others are where they were.
LEMMA Ending ==
  ASSUME MamInv, NEW r \in Requests, End(r)
  PROVE  /\ req'[r] = NoReq /\ \A q \in Requests \ {r} : req'[q] = req[q]
         /\ req' \in [Requests -> Reqs]
BY TokenAssumption DEF MamInv, MamTypeOK, End, NoReq, Reqs

LEMMA RegisterMam ==
  ASSUME MamInv, NEW t \in Tokens, NEW scope \in Scopes, TokenRegister(t, scope)
  PROVE  MamInv'
<1>1. UNCHANGED <<row, config, probe, attempts, req>>
  BY DEF TokenRegister
<1>2. CASE mam' = mam
  BY <1>1, <1>2 DEF MamInv, MamTypeOK, RowsLeft, ActiveHasConfig, ActiveHasProbe, Bearer,
                    ReqState, AddingHasConfig, SameRow
<1>3. CASE AddCandidate(t, scope)
  <2>1. /\ mam[t].state = "none" /\ row[t] < MaxRows
        /\ mam'[t].state = "candidate" /\ \A u \in Tokens \ {t} : mam'[u] = mam[u]
    BY <1>3 DEF AddCandidate, MamInv, MamTypeOK
  <2>2. MamTypeOK'
    BY <1>1, <1>3 DEF AddCandidate, MamInv, MamTypeOK
  <2>3. RowsLeft' /\ ActiveHasConfig' /\ ActiveHasProbe' /\ ReqState'
    BY <1>1, <2>1, TokenAssumption DEF MamInv, RowsLeft, ActiveHasConfig, ActiveHasProbe, Bearer, ReqState
  <2>4. AddingHasConfig'
    <3> SUFFICES ASSUME NEW r \in Requests, req[r].pc = "adding", SameRow(r)'
                 PROVE  config[req[r].t] # NoConfig
      BY <1>1 DEF AddingHasConfig
    <3>1. req[r].t \in Tokens
      BY DEF MamInv, ReqState
    <3>2. CASE req[r].t # t
      BY <1>1, <2>1, <3>1, <3>2 DEF SameRow, MamInv, AddingHasConfig
    <3>3. CASE req[r].t = t
      BY <1>1, <2>1, <3>3 DEF SameRow, MamInv, ReqState
    <3> QED
      BY <3>2, <3>3
  <2> QED
    BY <2>2, <2>3, <2>4 DEF MamInv
<1> QED
  BY <1>2, <1>3 DEF TokenRegister, PruneFails

LEMMA ActivateMam ==
  ASSUME MamInv, NEW t \in Tokens, NEW scope \in Scopes, NEW ip \in Ips, NEW name \in Names,
         TokenActivate(t, scope, ip, name)
  PROVE  MamInv'
<1>1. UNCHANGED <<row, attempts, req>>
  BY DEF TokenActivate
<1>2. mam'[t] = [state |-> "active", scope |-> scope] /\ \A u \in Tokens \ {t} : mam'[u] = mam[u]
  BY DEF TokenActivate, MamInv, MamTypeOK
<1>3. \A u \in Tokens \ {t} : config'[u] = config[u] /\ probe'[u] = probe[u]
  BY DEF TokenActivate, AfterActivationWg, AfterActivationProbe, MamInv, MamTypeOK
<1>4. "Wireguard" \in scope => config'[t] # NoConfig /\ config'[t].ip = ip
  BY WgAssumption DEF TokenActivate, AfterActivationWg, MamInv, MamTypeOK, NoConfig
<1>5. "Probe" \in scope => probe'[t] # None
  BY TokenAssumption DEF TokenActivate, AfterActivationProbe, MamInv, MamTypeOK
<1>6. config[t] # NoConfig => config'[t] # NoConfig
  BY <1>4 DEF TokenActivate
<1>7. row[t] < MaxRows
  <2>1. CASE mam[t].state = "none"
    <3>1. mam[t] = NoToken
      <4>1. mam[t] \in {NoToken} \cup [state : {"candidate", "active"}, scope : Scopes]
        BY DEF MamInv, MamTypeOK
      <4>2. ASSUME mam[t] \in [state : {"candidate", "active"}, scope : Scopes] PROVE FALSE
        BY <2>1, <4>2
      <4> QED
        BY <4>1, <4>2
    <3>2. mam[t].scope # scope
      BY <3>1 DEF NoToken, Scopes
    <3> QED
      BY <3>2 DEF TokenActivate
  <2>2. CASE mam[t].state # "none"
    BY <2>2 DEF MamInv, RowsLeft
  <2> QED
    BY <2>1, <2>2
<1>8. MamTypeOK'
  <2>1. mam' \in [Tokens -> {NoToken} \cup [state : {"candidate", "active"}, scope : Scopes]]
    BY DEF TokenActivate, MamInv, MamTypeOK
  <2>2. config' \in [Tokens -> {NoConfig} \cup Configs]
    <3>1. config[t].publickey \in Keys \cup {None}
      BY ConfigHasIp DEF MamInv
    <3>2. CASE "Wireguard" \in scope
      <4>1. [ip |-> ip, publickey |-> config[t].publickey, allow |-> TRUE] \in Configs
        BY <3>1 DEF Configs
      <4> QED
        BY <3>2, <4>1 DEF TokenActivate, AfterActivationWg, MamInv, MamTypeOK
    <3>3. CASE "Wireguard" \notin scope
      BY <3>3 DEF TokenActivate, MamInv, MamTypeOK
    <3> QED
      BY <3>2, <3>3
  <2>3. probe' \in [Tokens -> Names \cup {None}]
    BY DEF TokenActivate, AfterActivationProbe, MamInv, MamTypeOK
  <2> QED
    BY <1>1, <2>1, <2>2, <2>3 DEF MamInv, MamTypeOK
<1>9. RowsLeft' /\ ReqState'
  BY <1>1, <1>2, <1>7 DEF MamInv, RowsLeft, ReqState
<1>10. ActiveHasConfig' /\ ActiveHasProbe'
  BY <1>2, <1>3, <1>4, <1>5 DEF MamInv, ActiveHasConfig, ActiveHasProbe, Bearer
<1>11. AddingHasConfig'
  <2> SUFFICES ASSUME NEW r \in Requests, req[r].pc = "adding", SameRow(r)'
               PROVE  config'[req[r].t] # NoConfig
    BY <1>1 DEF AddingHasConfig
  <2>1. req[r].t \in Tokens /\ SameRow(r)
    BY <1>1 DEF MamInv, ReqState, SameRow
  <2> QED
    BY <1>3, <1>6, <2>1 DEF MamInv, AddingHasConfig
<1> QED
  BY <1>8, <1>9, <1>10, <1>11 DEF MamInv

\* Steps that only move a handler.
LEMMA HandlerMoves ==
  ASSUME MamInv, UNCHANGED <<mam, row, config, probe>>, attempts' \subseteq Tokens \X Keys,
         NEW r \in Requests, \A q \in Requests \ {r} : req'[q] = req[q],
         req' \in [Requests -> Reqs],
         req'[r].pc # "idle" =>
           /\ req'[r].t \in Tokens /\ req'[r].row <= row[req'[r].t]
           /\ req'[r].row = row[req'[r].t] => mam[req'[r].t].state # "none"
           /\ req'[r].pc \in {"register", "adding"} => req'[r].key \in Keys,
         req'[r].pc = "adding" => config[req'[r].t] # NoConfig
  PROVE  MamInv'
<1>1. MamTypeOK'
  BY DEF MamInv, MamTypeOK
<1>2. RowsLeft' /\ ActiveHasConfig' /\ ActiveHasProbe'
  BY DEF MamInv, RowsLeft, ActiveHasConfig, ActiveHasProbe, Bearer
<1>3. ReqState'
  BY DEF MamInv, ReqState
<1>4. AddingHasConfig'
  BY DEF MamInv, AddingHasConfig, SameRow
<1> QED
  BY <1>1, <1>2, <1>3, <1>4 DEF MamInv

LEMMA RegisterLogMam ==
  ASSUME MamInv, NEW r \in Requests, NEW t \in Tokens, NEW k \in Keys, RegisterLog(r, t, k)
  PROVE  MamInv'
<1>1. req' = [req EXCEPT ![r] = [NoReq EXCEPT !.pc = "register", !.t = t, !.row = row[t], !.key = k]]
  BY DEF RegisterLog
<1>2. /\ req'[r] = [pc |-> "register", t |-> t, row |-> row[t], key |-> k, ip |-> None]
      /\ \A q \in Requests \ {r} : req'[q] = req[q]
  BY <1>1 DEF MamInv, MamTypeOK, NoReq
<1>3. row[t] \in 0..MaxRows /\ mam[t].state # "none"
  BY DEF RegisterLog, Bearer, MamInv, MamTypeOK
<1>4. req' \in [Requests -> Reqs]
  <2>1. req'[r] \in Reqs
    BY <1>2, <1>3 DEF Reqs
  <2> QED
    BY <1>1, <1>2, <2>1 DEF MamInv, MamTypeOK
<1>5. attempts' \subseteq Tokens \X Keys /\ UNCHANGED <<mam, row, config, probe>>
  BY DEF RegisterLog, LogConfigAttempt, MamInv, MamTypeOK
<1>6. row[t] <= row[t]
  BY <1>3, TokenAssumption
<1> QED
  BY <1>2, <1>3, <1>4, <1>5, <1>6, HandlerMoves

LEMMA RegisterRefusedMam ==
  ASSUME MamInv, NEW r \in Requests, RegisterRefused(r)
  PROVE  MamInv'
<1>1. UNCHANGED <<mam, row, config, probe, attempts>> /\ End(r)
  BY DEF RegisterRefused
<1> QED
  BY <1>1, Ending, NoReqIs, HandlerMoves DEF MamInv, MamTypeOK

LEMMA RegisterAddMam ==
  ASSUME MamInv, NEW r \in Requests, RegisterAdd(r)
  PROVE  MamInv' /\ req[r].key \in Keys /\ config[req[r].t].ip \in Ips
<1> DEFINE t == req[r].t
<1>1. t \in Tokens /\ req[r].key \in Keys /\ config[t] # NoConfig /\ config[t].ip \in Ips
  BY ConfigHasIp DEF RegisterAdd, MamInv, ReqState
<1>2. req' = [req EXCEPT ![r].pc = "adding", ![r].ip = config[t].ip]
      /\ UNCHANGED <<mam, row, config, probe, attempts>>
  BY DEF RegisterAdd
<1>3. /\ req'[r].pc = "adding" /\ req'[r].t = t /\ req'[r].row = req[r].row
      /\ req'[r].key = req[r].key /\ \A q \in Requests \ {r} : req'[q] = req[q]
      /\ req' \in [Requests -> Reqs]
  <2>1. req[r] \in Reqs
    BY DEF MamInv, MamTypeOK
  <2>2. req'[r] = [req[r] EXCEPT !.pc = "adding", !.ip = config[t].ip]
        /\ \A q \in Requests \ {r} : req'[q] = req[q]
    BY <1>2 DEF MamInv, MamTypeOK
  <2>3. req'[r] \in Reqs /\ req'[r].pc = "adding" /\ req'[r].t = t /\ req'[r].row = req[r].row
        /\ req'[r].key = req[r].key
    BY <1>1, <2>1, <2>2 DEF Reqs
  <2> QED
    BY <1>2, <2>2, <2>3 DEF MamInv, MamTypeOK
<1>4. /\ req[r].row <= row[t] /\ (req[r].row = row[t] => mam[t].state # "none")
      /\ attempts' \subseteq Tokens \X Keys
  BY <1>2 DEF RegisterAdd, MamInv, ReqState, MamTypeOK
<1> HIDE DEF t
<1>5. MamInv'
  BY <1>1, <1>2, <1>3, <1>4, HandlerMoves
<1> QED
  BY <1>1, <1>5 DEF t

LEMMA RegisterCommitMam ==
  ASSUME MamInv, NEW r \in Requests, RegisterCommit(r)
  PROVE  MamInv'
<1> DEFINE t == req[r].t
<1>1. UNCHANGED <<mam, row, probe, attempts>> /\ End(r) /\ t \in Tokens
  BY DEF RegisterCommit, MamInv, ReqState
<1>2. CASE config' = config
  BY <1>1, <1>2, Ending, NoReqIs, HandlerMoves DEF MamInv, MamTypeOK
<1>3. CASE /\ SameRow(r)
           /\ config' = [config EXCEPT ![t].publickey = req[r].key, ![t].allow = FALSE]
  <2>1. config[t] # NoConfig /\ req[r].key \in Keys
    BY <1>3 DEF RegisterCommit, MamInv, AddingHasConfig, ReqState
  <2>2. config[t] \in Configs
    BY <1>1, <2>1, ConfigHasIp DEF MamInv
  <2>3. /\ config'[t] = [ip |-> config[t].ip, publickey |-> req[r].key, allow |-> FALSE]
        /\ \A u \in Tokens \ {t} : config'[u] = config[u]
        /\ config' \in [Tokens -> {NoConfig} \cup Configs]
    <3>1. config'[t] = [config[t] EXCEPT !.publickey = req[r].key, !.allow = FALSE]
          /\ \A u \in Tokens \ {t} : config'[u] = config[u]
      BY <1>1, <1>3 DEF MamInv, MamTypeOK
    <3>2. config'[t] = [ip |-> config[t].ip, publickey |-> req[r].key, allow |-> FALSE]
          /\ config'[t] \in Configs
      BY <2>1, <2>2, <3>1 DEF Configs
    <3> QED
      BY <1>1, <1>3, <3>1, <3>2 DEF MamInv, MamTypeOK
  <2>4. config'[t] # NoConfig
    BY <2>2, <2>3, WgAssumption DEF NoConfig, Configs
  <2>5. \A u \in Tokens : config[u] # NoConfig => config'[u] # NoConfig
    BY <2>3, <2>4
  <2>6. /\ req'[r] = NoReq /\ \A q \in Requests \ {r} : req'[q] = req[q]
        /\ req' \in [Requests -> Reqs]
    BY <1>1, Ending
  <2>7. MamTypeOK'
    BY <1>1, <2>3, <2>6 DEF MamInv, MamTypeOK
  <2>8. RowsLeft' /\ ActiveHasConfig' /\ ActiveHasProbe'
    BY <1>1, <2>5 DEF MamInv, RowsLeft, ActiveHasConfig, ActiveHasProbe, Bearer
  <2>9. ReqState'
    BY <1>1, <2>6, NoReqIs DEF MamInv, ReqState
  <2>10. AddingHasConfig'
    BY <1>1, <2>5, <2>6, NoReqIs DEF MamInv, ReqState, AddingHasConfig, SameRow
  <2> QED
    BY <2>7, <2>8, <2>9, <2>10 DEF MamInv
<1> QED
  BY <1>2, <1>3 DEF RegisterCommit

LEMMA DeleteBeginMam ==
  ASSUME MamInv, NEW r \in Requests, NEW t \in Tokens, DeleteBegin(r, t)
  PROVE  MamInv'
<1> DEFINE pc == IF config[t].publickey = None THEN "delete" ELSE "removing"
<1>1. req' = [req EXCEPT ![r] = [NoReq EXCEPT !.t = t, !.row = row[t], !.ip = config[t].ip, !.pc = pc]]
      /\ UNCHANGED <<mam, row, config, probe, attempts>>
  BY DEF DeleteBegin
<1>2. pc \in {"delete", "removing"}
  OBVIOUS
<1> HIDE DEF pc
<1>3. /\ req'[r] = [pc |-> pc, t |-> t, row |-> row[t], key |-> None, ip |-> config[t].ip]
      /\ \A q \in Requests \ {r} : req'[q] = req[q]
  BY <1>1 DEF MamInv, MamTypeOK, NoReq
<1>4. row[t] \in 0..MaxRows /\ mam[t].state # "none" /\ row[t] <= row[t]
      /\ config[t].ip \in Ips \cup {None} /\ attempts' \subseteq Tokens \X Keys
  BY <1>1, TokenAssumption, ConfigHasIp DEF DeleteBegin, MamInv, MamTypeOK
<1>5. req' \in [Requests -> Reqs]
  <2>1. req'[r] \in Reqs
    BY <1>2, <1>3, <1>4 DEF Reqs
  <2> QED
    BY <1>1, <1>3, <2>1 DEF MamInv, MamTypeOK
<1> QED
  BY <1>1, <1>2, <1>3, <1>4, <1>5, HandlerMoves

LEMMA DeleteCommitMam ==
  ASSUME MamInv, NEW r \in Requests, DeleteCommit(r)
  PROVE  MamInv'
<1> DEFINE t == req[r].t
<1>1. End(r) /\ t \in Tokens /\ UNCHANGED attempts
  BY DEF DeleteCommit, MamInv, ReqState
<1>2. CASE UNCHANGED <<mam, row, config, probe>>
  BY <1>1, <1>2, Ending, NoReqIs, HandlerMoves DEF MamInv, MamTypeOK
<1>3. CASE SameRow(r) /\ DeleteRows(t)
  <2>1. row[t] < MaxRows /\ row[t] \in Nat
    BY <1>1, <1>3, TokenAssumption DEF SameRow, MamInv, RowsLeft, MamTypeOK
  <2>2. /\ mam'[t] = NoToken /\ row'[t] = row[t] + 1 /\ config'[t] = NoConfig /\ probe'[t] = None
        /\ \A u \in Tokens \ {t} : /\ mam'[u] = mam[u] /\ row'[u] = row[u]
                                   /\ config'[u] = config[u] /\ probe'[u] = probe[u]
    BY <1>1, <1>3 DEF DeleteRows, MamInv, MamTypeOK
  <2>3. mam'[t].state = "none"
    BY <2>2 DEF NoToken
  <2>4. /\ req'[r] = NoReq /\ \A q \in Requests \ {r} : req'[q] = req[q]
        /\ req' \in [Requests -> Reqs]
    BY <1>1, Ending
  <2>5. MamTypeOK'
    BY <1>1, <1>3, <2>1, <2>4, TokenAssumption DEF DeleteRows, MamInv, MamTypeOK
  <2>6. RowsLeft' /\ ActiveHasConfig' /\ ActiveHasProbe'
    BY <2>2, <2>3 DEF MamInv, RowsLeft, ActiveHasConfig, ActiveHasProbe, Bearer
  <2>7. \A q \in Requests : req[q].row \in Nat
    BY TokenAssumption DEF MamInv, MamTypeOK, Reqs
  <2>8. ReqState'
    <3> SUFFICES ASSUME NEW q \in Requests, req'[q].pc # "idle"
                 PROVE  /\ req'[q].t \in Tokens /\ req'[q].row <= row'[req'[q].t]
                        /\ req'[q].row = row'[req'[q].t] => mam'[req'[q].t].state # "none"
                        /\ req'[q].pc \in {"register", "adding"} => req'[q].key \in Keys
      BY DEF ReqState
    <3>1. q # r /\ req'[q] = req[q]
      BY <2>4, NoReqIs
    <3>2. /\ req[q].t \in Tokens /\ req[q].row <= row[req[q].t]
          /\ req[q].row = row[req[q].t] => mam[req[q].t].state # "none"
          /\ req[q].pc \in {"register", "adding"} => req[q].key \in Keys
      BY <3>1 DEF MamInv, ReqState
    <3> HIDE DEF t
    <3>3. CASE req[q].t = t
      BY <2>1, <2>2, <2>7, <3>1, <3>2, <3>3
    <3>4. CASE req[q].t # t
      BY <2>2, <3>1, <3>2, <3>4
    <3> QED
      BY <3>3, <3>4
  <2>9. AddingHasConfig'
    <3> SUFFICES ASSUME NEW q \in Requests, req'[q].pc = "adding", SameRow(q)'
                 PROVE  config'[req'[q].t] # NoConfig
      BY DEF AddingHasConfig
    <3>1. q # r /\ req'[q] = req[q] /\ req[q].t \in Tokens
      BY <2>4, NoReqIs DEF MamInv, ReqState
    <3>2. req[q].t # t
      BY <2>3, <3>1 DEF SameRow
    <3> QED
      BY <2>2, <3>1, <3>2 DEF SameRow, MamInv, AddingHasConfig
  <2> QED
    BY <2>5, <2>6, <2>8, <2>9 DEF MamInv
<1> QED
  BY <1>2, <1>3 DEF DeleteCommit

-----------------------------------------------------------------------------
(***************************************************************************)
(* The log of attempts                                                     *)
(***************************************************************************)

Logged(k) == \E t \in Tokens : <<t, k>> \in attempts

\* On its way to the interface and its file, a key is in the log already: in the
\* handler, in the request to the daemon and in what wg-quick has read.
LogInv ==
    /\ \A k \in Keys : live[k] # NoPeer \/ saved[k] # NoPeer => Logged(k)
    /\ \A j \in Jobs : job[j].pc = "write" => \A k \in Keys : job[j].snap[k] # NoPeer => Logged(k)
    /\ \A j \in Jobs : job[j].pc = "set" /\ job[j].op # "remove" => Logged(job[j].key)
    /\ \A r \in Requests : req[r].pc = "register" => Logged(req[r].key)

LEMMA LogInitInv == WgInit /\ MamInit => LogInv
BY NoJobIs, NoReqIs DEF WgInit, MamInit, LogInv

\* No row of the log is ever removed.
LEMMA LogKept ==
  ASSUME LogInv, attempts \subseteq attempts', UNCHANGED <<live, saved>>,
         \A j \in Jobs : /\ job'[j].pc = "write" => job[j].pc = "write" /\ job'[j].snap = job[j].snap
                         /\ job'[j].pc = "set" /\ job'[j].op # "remove" =>
                              \/ job[j].pc = "set" /\ job[j].op # "remove" /\ job'[j].key = job[j].key
                              \/ Logged(job'[j].key),
         \A r \in Requests : req'[r].pc = "register" =>
                               \/ req[r].pc = "register" /\ req'[r].key = req[r].key
                               \/ Logged(req[r].key)'
  PROVE  LogInv'
<1>1. \A k : Logged(k) => \E t \in Tokens : <<t, k>> \in attempts'
  BY DEF Logged
<1>2. (\A k \in Keys : live[k] # NoPeer \/ saved[k] # NoPeer => Logged(k))'
  BY <1>1 DEF LogInv, Logged
<1>3. (\A j \in Jobs : job[j].pc = "write" => \A k \in Keys : job[j].snap[k] # NoPeer => Logged(k))'
  <2>1. \A j \in Jobs : job'[j].pc = "write" => \A k \in Keys : job'[j].snap[k] # NoPeer => Logged(k)
    BY DEF LogInv
  <2> QED
    BY <1>1, <2>1 DEF Logged
<1>4. (\A j \in Jobs : job[j].pc = "set" /\ job[j].op # "remove" => Logged(job[j].key))'
  <2>1. \A j \in Jobs : job'[j].pc = "set" /\ job'[j].op # "remove" => Logged(job'[j].key)
    BY DEF LogInv
  <2> QED
    BY <1>1, <2>1 DEF Logged
<1>5. (\A r \in Requests : req[r].pc = "register" => Logged(req[r].key))'
  <2>1. \A r \in Requests : req'[r].pc = "register" => Logged(req'[r].key) \/ Logged(req[r].key)'
    BY DEF LogInv
  <2> QED
    BY <1>1, <2>1 DEF Logged
<1> QED
  BY <1>2, <1>3, <1>4, <1>5 DEF LogInv

LEMMA CallLog ==
  ASSUME WgInv, LogInv, NEW r \in Requests, NEW op, NEW k, NEW ip, Call(r, op, k, ip),
         op = "remove" \/ Logged(k), UNCHANGED attempts,
         \A q \in Requests : req'[q].pc = "register" =>
                               req[q].pc = "register" /\ req'[q].key = req[q].key
  PROVE  LogInv'
<1>1. PICK j \in Jobs : job' = [job EXCEPT ![j] = [NoJob EXCEPT !.pc = "set", !.op = op, !.key = k,
                                                    !.ip = ip, !.client = r]]
  BY DEF Call
<1>2. job'[j].pc = "set" /\ job'[j].op = op /\ job'[j].key = k
      /\ \A i \in Jobs \ {j} : job'[i] = job[i]
  BY <1>1 DEF WgInv, WgTypeOK, NoJob
<1> QED
  BY <1>2, LogKept DEF Call

LEMMA DaemonLog ==
  ASSUME WgInv, LogInv, DaemonNext, UNCHANGED mamVars
  PROVE  LogInv'
<1>1. PICK j \in Jobs : \/ SetDone(j) \/ SetFails(j) \/ SaveLock(j) \/ SaveRead(j)
                        \/ SaveWrite(j) \/ SaveFails(j) \/ SudoTimeout(j)
  BY DEF DaemonNext
<1>2. /\ \A i \in Jobs \ {j} : job'[i] = job[i]
      /\ \A k : Logged(k)' <=> Logged(k)
      /\ UNCHANGED req
  BY <1>1 DEF WgInv, WgTypeOK, Logged, mamVars, SetDone, SetFails, SaveLock, SaveRead, SaveWrite,
              SaveFails, SudoTimeout
<1>3. CASE SetDone(j)
  <2>1. \A k \in Keys : live'[k] # NoPeer => Logged(k)
    <3>1. CASE job[j].op = "remove"
      BY <1>3, <3>1 DEF SetDone, WgSet, LogInv, WgInv, WgTypeOK, Peers
    <3>2. CASE job[j].op # "remove"
      <4>1. Logged(job[j].key) /\ job[j].ip \in Ips
        BY <1>3, <3>2 DEF SetDone, LogInv, WgInv, JobState
      <4> QED
        BY <1>3, <3>2, <4>1, WgAssumption DEF SetDone, WgSet, LogInv
    <3> QED
      BY <3>1, <3>2
  <2>2. job'[j].pc \in {"idle", "lock"}
    BY <1>3, NoJobIs DEF SetDone, WgInv, WgTypeOK, JobRecords
  <2> QED
    BY <1>2, <1>3, <2>1, <2>2 DEF SetDone, LogInv
<1>4. CASE SaveRead(j)
  <2>1. job'[j].pc = "write" /\ job'[j].snap = live
    BY <1>4 DEF SaveRead, WgInv, WgTypeOK, JobRecords
  <2> QED
    BY <1>2, <1>4, <2>1 DEF SaveRead, LogInv
<1>5. CASE SaveWrite(j)
  <2>1. job'[j].pc = "idle"
    BY <1>5, NoJobIs DEF SaveWrite, WgInv, WgTypeOK
  <2>2. \A k \in Keys : saved'[k] # NoPeer => Logged(k)
    BY <1>5 DEF SaveWrite, LogInv
  <2> QED
    BY <1>2, <1>5, <2>1, <2>2 DEF SaveWrite, LogInv
<1>6. CASE SudoTimeout(j)
  <2>1. job[j] \in JobRecords /\ job'[j] = [job[j] EXCEPT !.orphan = TRUE, !.client = None]
    BY <1>6 DEF SudoTimeout, WgInv, WgTypeOK
  <2>2. job'[j].pc = job[j].pc /\ job'[j].key = job[j].key /\ job'[j].snap = job[j].snap
        /\ job'[j].op = job[j].op
    BY <2>1 DEF JobRecords
  <2>3. \A i \in Jobs : /\ job'[i].pc = job[i].pc /\ job'[i].key = job[i].key
                        /\ job'[i].snap = job[i].snap /\ job'[i].op = job[i].op
    BY <1>2, <2>2
  <2> QED
    BY <1>2, <1>6, <2>3, LogKept DEF SudoTimeout, mamVars
<1>7. CASE SetFails(j) \/ SaveLock(j) \/ SaveFails(j)
  <2>1. job'[j].pc \in {"idle", "read"}
    BY <1>7, NoJobIs DEF SetFails, SaveLock, SaveFails, WgInv, WgTypeOK, JobRecords
  <2> QED
    BY <1>2, <1>7, <2>1, LogKept DEF SetFails, SaveLock, SaveFails, mamVars
<1> QED
  BY <1>1, <1>3, <1>4, <1>5, <1>6, <1>7

LEMMA ClientTimeoutLog ==
  ASSUME WgInv, LogInv, NEW r \in Requests, ClientTimeout(r), UNCHANGED mamVars
  PROVE  LogInv'
<1>1. PICK j \in Jobs : job' = [job EXCEPT ![j].client = None] /\ UNCHANGED <<live, saved>>
  BY DEF ClientTimeout
<1>2. \A i \in Jobs : /\ job'[i].pc = job[i].pc /\ job'[i].key = job[i].key
                      /\ job'[i].snap = job[i].snap /\ job'[i].op = job[i].op
  BY <1>1 DEF WgInv, WgTypeOK, JobRecords
<1> QED
  BY <1>1, <1>2, LogKept DEF mamVars

\* Steps of a handler that neither log a key nor ask the daemon.
LEMMA HandlerLog ==
  ASSUME LogInv, UNCHANGED <<live, saved, job, attempts>>, NEW r \in Requests,
         \A q \in Requests \ {r} : req'[q] = req[q], req'[r].pc # "register"
  PROVE  LogInv'
<1>1. attempts \subseteq attempts' /\ UNCHANGED <<live, saved, job>>
  OBVIOUS
<1> QED
  BY <1>1, LogKept

LEMMA RegisterLogLog ==
  ASSUME MamInv, LogInv, NEW r \in Requests, NEW t \in Tokens, NEW k \in Keys, RegisterLog(r, t, k)
  PROVE  LogInv'
<1>1. req' = [req EXCEPT ![r] = [NoReq EXCEPT !.pc = "register", !.t = t, !.row = row[t], !.key = k]]
  BY DEF RegisterLog
<1>2. req'[r].key = k /\ \A q \in Requests \ {r} : req'[q] = req[q]
  BY <1>1 DEF MamInv, MamTypeOK, NoReq
<1>3. attempts \subseteq attempts' /\ Logged(req[r].key)' /\ UNCHANGED <<live, saved, job>>
  BY <1>2 DEF RegisterLog, LogConfigAttempt, Logged, wgVars
<1> QED
  BY <1>2, <1>3, LogKept

LEMMA RegisterAddLog ==
  ASSUME WgInv, MamInv, LogInv, NEW r \in Requests, RegisterAdd(r)
  PROVE  LogInv'
<1>1. Call(r, "add", req[r].key, config[req[r].t].ip) /\ Logged(req[r].key) /\ UNCHANGED attempts
  BY DEF RegisterAdd, LogInv
<1>2. req'[r].pc = "adding" /\ \A q \in Requests \ {r} : req'[q] = req[q]
  BY DEF RegisterAdd, MamInv, MamTypeOK, Reqs
<1> QED
  BY <1>1, <1>2, CallLog

LEMMA DeleteBeginLog ==
  ASSUME WgInv, MamInv, LogInv, NEW r \in Requests, NEW t \in Tokens, DeleteBegin(r, t)
  PROVE  LogInv'
<1>1. req'[r].pc # "register" /\ \A q \in Requests \ {r} : req'[q] = req[q]
  BY DEF DeleteBegin, MamInv, MamTypeOK, NoReq
<1>2. UNCHANGED attempts
  BY DEF DeleteBegin
<1>3. CASE config[t].publickey = None
  BY <1>1, <1>2, <1>3, HandlerLog DEF DeleteBegin, wgVars
<1>4. CASE config[t].publickey # None
  BY <1>1, <1>2, <1>4, CallLog DEF DeleteBegin
<1> QED
  BY <1>3, <1>4

-----------------------------------------------------------------------------
(***************************************************************************)
(* The management server without its sessions                              *)
(***************************************************************************)

VpnInv == WgInv /\ MamInv /\ LogInv

\* Steps that leave the tables, the log and the daemon alone.
LEMMA VpnUnchanged == ASSUME VpnInv, UNCHANGED <<wgVars, mamVars>> PROVE VpnInv'
<1>1. WgInv'
  BY AnswerTakenWg DEF VpnInv, WgInv, WgTypeOK, wgVars
<1>2. MamInv'
  BY DEF VpnInv, mamVars, MamInv, MamTypeOK, RowsLeft, ActiveHasConfig, ActiveHasProbe, Bearer, ReqState,
         AddingHasConfig, SameRow
<1>3. LogInv'
  BY LogKept DEF VpnInv, wgVars, mamVars
<1> QED
  BY <1>1, <1>2, <1>3 DEF VpnInv

LEMMA ActivateVpn ==
  ASSUME VpnInv, NEW t \in Tokens, NEW scope \in Scopes, NEW ip \in Ips, NEW name \in Names,
         TokenActivate(t, scope, ip, name)
  PROVE  VpnInv'
<1>1. UNCHANGED <<wgVars, attempts, req>>
  BY DEF TokenActivate
<1>2. WgInv'
  BY <1>1, AnswerTakenWg DEF VpnInv, WgInv, WgTypeOK, wgVars
<1> QED
  BY <1>1, <1>2, ActivateMam, LogKept DEF VpnInv, wgVars

LEMMA DeleteBeginVpn ==
  ASSUME VpnInv, NEW r \in Requests, NEW t \in Tokens, DeleteBegin(r, t)
  PROVE  VpnInv'
<1>1. config[t].publickey \in Keys \cup {None}
  BY ConfigHasIp DEF VpnInv, MamInv
<1>2. CASE config[t].publickey = None
  BY <1>2, DeleteBeginMam, DeleteBeginLog, AnswerTakenWg DEF VpnInv, WgInv, WgTypeOK, DeleteBegin, wgVars
<1>3. CASE config[t].publickey # None
  <2>1. Call(r, "remove", config[t].publickey, None) /\ config[t].publickey \in Keys
    BY <1>1, <1>3 DEF DeleteBegin
  <2>2. WgInv'
    BY <2>1, CallWg DEF VpnInv
  <2> QED
    BY <2>2, DeleteBeginMam, DeleteBeginLog DEF VpnInv
<1> QED
  BY <1>2, <1>3

LEMMA DeleteCommitVpn ==
  ASSUME VpnInv, NEW r \in Requests, DeleteCommit(r)
  PROVE  VpnInv'
<1>1. UNCHANGED <<live, saved, job, saving, stale, attempts>> /\ End(r)
      /\ answer' = [answer EXCEPT ![r] = "none"]
  BY DEF DeleteCommit
<1>2. WgInv'
  BY <1>1, AnswerTakenWg DEF VpnInv, WgInv, WgTypeOK
<1>3. LogInv'
  BY <1>1, Ending, NoReqIs, HandlerLog DEF VpnInv
<1> QED
  BY <1>2, <1>3, DeleteCommitMam DEF VpnInv

LEMMA VpnStep ==
  ASSUME VpnInv, VpnNext(Requests, Tokens, Keys, Scopes)
  PROVE  VpnInv'
<1>1. ASSUME NEW t \in Tokens, NEW scope \in Scopes, TokenRegister(t, scope) PROVE VpnInv'
  <2>1. UNCHANGED <<wgVars, attempts, req>>
    BY <1>1 DEF TokenRegister
  <2>2. WgInv'
    BY <2>1, AnswerTakenWg DEF VpnInv, WgInv, WgTypeOK, wgVars
  <2> QED
    BY <1>1, <2>1, <2>2, RegisterMam, LogKept DEF VpnInv, wgVars
<1>2. ASSUME NEW r \in Requests, NEW t \in Tokens, NEW k \in Keys, RegisterLog(r, t, k) PROVE VpnInv'
  <2>1. WgInv'
    BY <1>2, AnswerTakenWg DEF VpnInv, WgInv, WgTypeOK, RegisterLog, wgVars
  <2> QED
    BY <1>2, <2>1, RegisterLogMam, RegisterLogLog DEF VpnInv
<1>3. ASSUME NEW r \in Requests, RegisterRefused(r) PROVE VpnInv'
  <2>1. UNCHANGED <<wgVars, attempts>> /\ End(r)
    BY <1>3 DEF RegisterRefused
  <2>2. WgInv'
    BY <2>1, AnswerTakenWg DEF VpnInv, WgInv, WgTypeOK, wgVars
  <2>3. LogInv'
    BY <2>1, Ending, NoReqIs, HandlerLog DEF VpnInv, wgVars
  <2> QED
    BY <1>3, <2>2, <2>3, RegisterRefusedMam DEF VpnInv
<1>4. ASSUME NEW r \in Requests, RegisterAdd(r) PROVE VpnInv'
  <2>1. MamInv' /\ req[r].key \in Keys /\ config[req[r].t].ip \in Ips
    BY <1>4, RegisterAddMam DEF VpnInv
  <2>2. WgInv'
    BY <1>4, <2>1, CallWg DEF VpnInv, RegisterAdd
  <2> QED
    BY <1>4, <2>1, <2>2, RegisterAddLog DEF VpnInv
<1>5. ASSUME NEW r \in Requests, RegisterCommit(r) PROVE VpnInv'
  <2>1. UNCHANGED <<live, saved, job, saving, stale, attempts>> /\ End(r)
        /\ answer' = [answer EXCEPT ![r] = "none"]
    BY <1>5 DEF RegisterCommit
  <2>2. WgInv'
    BY <2>1, AnswerTakenWg DEF VpnInv, WgInv, WgTypeOK
  <2>3. LogInv'
    BY <2>1, Ending, NoReqIs, HandlerLog DEF VpnInv
  <2> QED
    BY <1>5, <2>2, <2>3, RegisterCommitMam DEF VpnInv
<1>6. ASSUME UNCHANGED mamVars, WgInv', LogInv' PROVE VpnInv'
  BY <1>6 DEF VpnInv, mamVars, MamInv, MamTypeOK, RowsLeft, ActiveHasConfig, ActiveHasProbe, Bearer,
              ReqState, AddingHasConfig, SameRow
<1>7. ASSUME NEW r \in Requests, ClientTimeout(r), UNCHANGED mamVars PROVE VpnInv'
  BY <1>6, <1>7, ClientTimeoutWg, ClientTimeoutLog DEF VpnInv
<1>8. ASSUME DaemonNext, UNCHANGED mamVars PROVE VpnInv'
  BY <1>6, <1>8, DaemonWg, DaemonLog DEF VpnInv
<1> QED
  BY <1>1, <1>2, <1>3, <1>4, <1>5, <1>7, <1>8, ActivateVpn, DeleteBeginVpn, DeleteCommitVpn
  DEF VpnNext, Revoke, TokenDeactivate

-----------------------------------------------------------------------------
(***************************************************************************)
(* The invariant of the sessions and of the tunnel server's cache          *)
(***************************************************************************)

\* A probe's session belongs to a token's probe.
ProbeOwners == \A s \in Sessions : session[s].state = "valid" /\ session[s].scope = "Probe" =>
                                     session[s].owner \in Tokens

\* No identity is known of a session token that does not exist yet.
UnusedUncached == \A s \in Sessions : session[s] = NoSession => idCache[s] = None

\* A connection stands for a session token.
ConnState == \A c \in Conns : conn[c].pc # "idle" => conn[c].s \in Sessions

AuthInv == AuthTypeOK /\ IdentityHolds /\ ProbeOwners /\ UnusedUncached /\ ConnState

SessionRecords == [state : {"valid", "deleted"}, owner : Tokens \cup Sessions \cup {None},
                   moat : MoatTokens, scope : {"Probe", "Provider"}]
ConnRecords == [pc : {"idle", "probe", "provider", "granted", "queued", "sims"},
                s : Sessions \cup {None}, sim : Offered \cup {None}]

LEMMA NoSessionIs == NoSession.state = "unused" /\ NoSession.owner = None
BY DEF NoSession

LEMMA NoConnIs == NoConn.pc = "idle" /\ NoConn.s = None /\ NoConn.sim = None /\ NoConn \in ConnRecords
BY DEF NoConn, ConnRecords

LEMMA AuthInitInv == MamInit /\ AuthInit => AuthInv
<1> SUFFICES ASSUME MamInit, AuthInit PROVE AuthInv
  OBVIOUS
<1>1. AuthTypeOK
  BY NoConnIs DEF MamInit, AuthInit, AuthTypeOK, ConnRecords
<1>2. \A s \in Sessions : session[s].state = "unused" /\ idCache[s] = None
  BY NoSessionIs DEF MamInit, AuthInit
<1>3. ConnState
  BY NoConnIs DEF AuthInit, ConnState
<1> QED
  BY <1>1, <1>2, <1>3 DEF AuthInv, IdentityHolds, ProbeOwners, UnusedUncached

\* What a session's owner owns is kept when probes come, or go without one.
LEMMA ProbesAuth ==
  ASSUME AuthInv, UNCHANGED <<session, authVars>>,
         \A s \in Sessions : session[s].owner \in Tokens /\ probe[session[s].owner] # None
                               => probe'[session[s].owner] # None
  PROVE  AuthInv'
<1>1. AuthTypeOK' /\ ProbeOwners' /\ UnusedUncached' /\ ConnState'
  BY DEF AuthInv, AuthTypeOK, ProbeOwners, UnusedUncached, ConnState, authVars
<1>2. IdentityHolds'
  BY DEF AuthInv, IdentityHolds, ProbeOwners, authVars
<1> QED
  BY <1>1, <1>2 DEF AuthInv

LEMMA ActivateAuth ==
  ASSUME MamInv, AuthInv, NEW t \in Tokens, NEW scope \in Scopes, NEW ip \in Ips, NEW name \in Names,
         TokenActivate(t, scope, ip, name), UNCHANGED authVars
  PROVE  AuthInv'
<1>1. \A u \in Tokens : probe[u] # None => probe'[u] # None
  BY TokenAssumption DEF TokenActivate, AfterActivationProbe, MamInv, MamTypeOK
<1> QED
  BY <1>1, ProbesAuth DEF TokenActivate

LEMMA DeleteCommitAuth ==
  ASSUME MamInv, AuthInv, NEW r \in Requests, DeleteCommit(r), UNCHANGED authVars
  PROVE  AuthInv'
<1>1. CASE probe' = probe
  BY <1>1, ProbesAuth DEF DeleteCommit
<1>2. CASE SessionsOf(req[r].t) = {} /\ DeleteRows(req[r].t)
  <2>1. \A u \in Tokens : u # req[r].t => probe'[u] = probe[u]
    BY <1>2 DEF DeleteRows, MamInv, MamTypeOK
  <2>2. \A s \in Sessions : session[s].owner # req[r].t
    BY <1>2 DEF SessionsOf
  <2> QED
    BY <2>1, <2>2, ProbesAuth DEF DeleteCommit
<1> QED
  BY <1>1, <1>2 DEF DeleteCommit

\* The other steps of the management server have no part in the sessions.
LEMMA VpnAuth ==
  ASSUME MamInv, AuthInv, VpnNext(Requests, Tokens, Keys, Scopes), UNCHANGED authVars
  PROVE  AuthInv'
<1>1. CASE UNCHANGED <<probe, session>>
  BY <1>1, ProbesAuth
<1>2. ASSUME NEW t \in Tokens, NEW scope \in Scopes, TokenRegister(t, scope) PROVE UNCHANGED <<probe, session>>
  BY <1>2 DEF TokenRegister
<1>3. ASSUME NEW r \in Requests,
             \/ \E t \in Tokens, k \in Keys : RegisterLog(r, t, k)
             \/ RegisterRefused(r) \/ RegisterAdd(r) \/ RegisterCommit(r)
             \/ \E t \in Tokens : DeleteBegin(r, t)
      PROVE  UNCHANGED <<probe, session>>
  BY <1>3 DEF RegisterLog, RegisterRefused, RegisterAdd, RegisterCommit, DeleteBegin
<1> QED
  BY <1>1, <1>2, <1>3, ActivateAuth, DeleteCommitAuth DEF VpnNext, Revoke, TokenDeactivate, mamVars

\* An identity is remembered for a session only that has or had an owner.
LEMMA RememberAuth ==
  ASSUME AuthInv, NEW s \in Sessions, Identity(s) # None, Remember(s),
         UNCHANGED <<probe, session, moat, permits>>, conn' \in [Conns -> ConnRecords], ConnState'
  PROVE  AuthInv'
<1>1. idCache'[s] = Identity(s) /\ \A u \in Sessions \ {s} : idCache'[u] = idCache[u]
  BY DEF Remember, AuthInv, AuthTypeOK
<1>2. session[s].owner \in Tokens \cup Sessions \cup {None}
  BY DEF AuthInv, AuthTypeOK, NoSession
<1>3. Identity(s) \in Tokens \cup Sessions
  BY <1>2 DEF Identity, OwnerOf, AuthInv, AuthTypeOK
<1>4. AuthTypeOK'
  BY <1>3 DEF AuthInv, AuthTypeOK, Remember, ConnRecords
<1>5. session[s] # NoSession
  BY NoSessionIs DEF Identity, OwnerOf, AuthInv, UnusedUncached
<1>6. session[s].state = "valid" => Identity(s) \in {None, session[s].owner}
  BY DEF Identity, OwnerOf, AuthInv, IdentityHolds
<1>7. IdentityHolds' /\ ProbeOwners' /\ UnusedUncached'
  BY <1>1, <1>5, <1>6 DEF AuthInv, IdentityHolds, ProbeOwners, UnusedUncached
<1> QED
  BY <1>4, <1>7 DEF AuthInv

\* Steps of a connection that ask for no identity.
LEMMA ConnAuth ==
  ASSUME AuthInv, UNCHANGED <<probe, session, idCache>>, permits' \subseteq Permits,
         moat' \in [MoatTokens -> {NoMoat} \cup [scope : MoatScopes, admin : BOOLEAN]],
         conn' \in [Conns -> ConnRecords], ConnState'
  PROVE  AuthInv'
<1>1. AuthTypeOK'
  BY DEF AuthInv, AuthTypeOK, ConnRecords
<1> QED
  BY <1>1 DEF AuthInv, IdentityHolds, ProbeOwners, UnusedUncached

\* A connection goes on with its session token, or ends.
LEMMA OneConn ==
  ASSUME AuthInv, NEW c \in Conns, NEW x \in ConnRecords, conn' = [conn EXCEPT ![c] = x],
         x.pc = "idle" \/ x.s \in Sessions
  PROVE  conn' \in [Conns -> ConnRecords] /\ ConnState'
BY DEF AuthInv, AuthTypeOK, ConnRecords, ConnState

LEMMA DropConn == ASSUME AuthInv, NEW c \in Conns, Drop(c) PROVE conn' \in [Conns -> ConnRecords] /\ ConnState'
BY OneConn, NoConnIs DEF Drop

LEMMA GenerateAuth ==
  ASSUME AuthInv, NEW s \in Sessions, NEW scope \in {"Probe", "Provider"}, NEW m \in MoatTokens,
         NEW o \in Tokens \cup Sessions, scope = "Probe" => o \in Tokens /\ probe[o] # None,
         GenerateSession(s, scope, m, o)
  PROVE  AuthInv'
<1>1. session'[s] = [state |-> "valid", owner |-> o, moat |-> m, scope |-> scope]
      /\ \A u \in Sessions \ {s} : session'[u] = session[u]
  BY DEF GenerateSession, AuthInv, AuthTypeOK
<1>2. session'[s].state = "valid" /\ session'[s].owner = o /\ session'[s].scope = scope
      /\ session'[s] \in SessionRecords
  BY <1>1 DEF SessionRecords
<1>3. AuthTypeOK'
  <2>1. session' \in [Sessions -> {NoSession} \cup SessionRecords]
    BY <1>2 DEF GenerateSession, AuthInv, AuthTypeOK, SessionRecords
  <2> QED
    BY <2>1 DEF GenerateSession, AuthInv, AuthTypeOK, SessionRecords, authVars
<1>4. idCache[s] = None /\ UNCHANGED <<probe, idCache, conn>>
  BY DEF GenerateSession, AuthInv, UnusedUncached, authVars, mamVars
<1>5. IdentityHolds'
  BY <1>1, <1>2, <1>4 DEF AuthInv, IdentityHolds
<1>6. ProbeOwners' /\ UnusedUncached' /\ ConnState'
  BY <1>1, <1>2, <1>4, NoSessionIs DEF AuthInv, ProbeOwners, UnusedUncached, ConnState
<1> QED
  BY <1>3, <1>5, <1>6 DEF AuthInv

LEMMA DeregisterAuth == ASSUME AuthInv, NEW s \in Sessions, Deregister(s) PROVE AuthInv'
<1>1. session[s] \in SessionRecords
  <2>1. session[s] \in {NoSession} \cup SessionRecords /\ session[s].state = "valid"
    BY DEF Deregister, AuthInv, AuthTypeOK, SessionRecords
  <2> QED
    BY <2>1, NoSessionIs
<1>2. session'[s] = [session[s] EXCEPT !.state = "deleted", !.owner = None]
      /\ \A u \in Sessions \ {s} : session'[u] = session[u]
  BY DEF Deregister, AuthInv, AuthTypeOK
<1>3. session'[s].state = "deleted" /\ session'[s] \in SessionRecords
  BY <1>1, <1>2 DEF SessionRecords
<1>4. AuthTypeOK'
  <2>1. session' \in [Sessions -> {NoSession} \cup SessionRecords]
    BY <1>3 DEF Deregister, AuthInv, AuthTypeOK, SessionRecords
  <2> QED
    BY <2>1 DEF Deregister, AuthInv, AuthTypeOK, SessionRecords, authVars
<1>5. UNCHANGED <<probe, idCache, conn>>
  BY DEF Deregister, authVars, mamVars
<1> QED
  BY <1>2, <1>3, <1>4, <1>5, NoSessionIs
  DEF AuthInv, IdentityHolds, ProbeOwners, UnusedUncached, ConnState

LEMMA AskIdentityAuth == ASSUME AuthInv, NEW c \in Conns, AskIdentity(c) PROVE AuthInv'
<1>1. conn[c] \in ConnRecords /\ conn[c].s \in Sessions
  BY DEF AskIdentity, AuthInv, AuthTypeOK, ConnState, ConnRecords
<1>2. UNCHANGED <<probe, session, moat, permits>>
  BY DEF AskIdentity, mgmtVars, mamVars
<1>3. CASE Drop(c) /\ UNCHANGED idCache
  BY <1>2, <1>3, DropConn, ConnAuth DEF AuthInv, AuthTypeOK
<1>4. CASE /\ Identity(conn[c].s) # None /\ Remember(conn[c].s)
           /\ Step(c, IF conn[c].pc = "granted" THEN "queued" ELSE "sims")
  <2> DEFINE x == [conn[c] EXCEPT !.pc = IF conn[c].pc = "granted" THEN "queued" ELSE "sims"]
  <2>1. x \in ConnRecords /\ x.s \in Sessions
    BY <1>1 DEF ConnRecords
  <2>2. conn' = [conn EXCEPT ![c] = x]
    BY <1>4 DEF Step, AuthInv, AuthTypeOK
  <2>3. conn' \in [Conns -> ConnRecords] /\ ConnState'
    BY <2>1, <2>2, OneConn
  <2> QED
    BY <1>1, <1>2, <1>4, <2>3, RememberAuth
<1> QED
  BY <1>3, <1>4 DEF AskIdentity

LEMMA RequestSimAuth == ASSUME AuthInv, NEW c \in Conns, NEW q, RequestSim(c, q) PROVE AuthInv'
<1>1. conn[c] \in ConnRecords /\ conn[c].s \in Sessions
  BY DEF RequestSim, AuthInv, AuthTypeOK, ConnState, ConnRecords
<1>2. UNCHANGED <<probe, session, idCache, moat, permits>>
  BY DEF RequestSim, mgmtVars, mamVars
<1>3. CASE Drop(c)
  BY <1>2, <1>3, DropConn, ConnAuth DEF AuthInv, AuthTypeOK
<1>4. ASSUME NEW o \in Lookup(q), conn' = [conn EXCEPT ![c].pc = "granted", ![c].sim = o]
      PROVE  AuthInv'
  <2> DEFINE x == [conn[c] EXCEPT !.pc = "granted", !.sim = o]
  <2>1. o \in Offered
    BY DEF Lookup
  <2>2. x \in ConnRecords /\ x.s \in Sessions
    BY <1>1, <2>1 DEF ConnRecords
  <2>3. conn' = [conn EXCEPT ![c] = x]
    BY <1>4 DEF AuthInv, AuthTypeOK
  <2>4. conn' \in [Conns -> ConnRecords] /\ ConnState'
    BY <2>2, <2>3, OneConn
  <2> QED
    BY <1>2, <2>4, ConnAuth DEF AuthInv, AuthTypeOK
<1> QED
  BY <1>3, <1>4 DEF RequestSim

LEMMA AcceptAuth ==
  ASSUME AuthInv, NEW c \in Conns, NEW s \in Sessions, AcceptProbe(c, s) \/ AcceptProvider(c, s)
  PROVE  AuthInv'
<1>1. PICK pc \in {"probe", "provider"} : conn' = [conn EXCEPT ![c] = [NoConn EXCEPT !.pc = pc, !.s = s]]
  BY DEF AcceptProbe, AcceptProvider
<1> DEFINE x == [NoConn EXCEPT !.pc = pc, !.s = s]
<1>2. x \in ConnRecords /\ x.s \in Sessions
  BY DEF NoConn, ConnRecords
<1>3. conn' \in [Conns -> ConnRecords] /\ ConnState'
  BY <1>1, <1>2, OneConn
<1>4. UNCHANGED <<probe, session, idCache, moat, permits>>
  BY DEF AcceptProbe, AcceptProvider, mgmtVars, mamVars
<1> QED
  BY <1>3, <1>4, ConnAuth DEF AuthInv, AuthTypeOK

-----------------------------------------------------------------------------
(***************************************************************************)
(* The management server                                                   *)
(***************************************************************************)

\* The inductive invariant of ManagementSpec.
IInv == VpnInv /\ AuthInv

LEMMA TunnelStep == ASSUME IInv, TunnelAuthNext(Requests, Tokens) PROVE IInv'
<1>1. ASSUME NEW t \in Tokens, NEW ip \in Ips, NEW name \in Names,
             TokenActivate(t, {"Probe"}, ip, name), UNCHANGED authVars
      PROVE  IInv'
  <2>1. {"Probe"} \in Scopes
    BY DEF Scopes
  <2> QED
    BY <1>1, <2>1, ActivateVpn, ActivateAuth DEF IInv, VpnInv
<1>2. ASSUME NEW r \in Requests, DeleteCommit(r), UNCHANGED authVars PROVE IInv'
  BY <1>2, DeleteCommitVpn, DeleteCommitAuth DEF IInv, VpnInv
<1>3. ASSUME NEW r \in Requests, NEW t \in Tokens, TokenDeactivate(r, t), UNCHANGED authVars PROVE IInv'
  BY <1>3, DeleteBeginVpn, ProbesAuth DEF IInv, TokenDeactivate, DeleteBegin
<1>4. ASSUME UNCHANGED <<wgVars, mamVars>>, AuthInv' PROVE IInv'
  BY <1>4, VpnUnchanged DEF IInv
<1>5. ASSUME NEW m \in MoatTokens, NEW scope \in MoatScopes, NEW admin \in BOOLEAN,
             CreateToken(m, scope, admin)
      PROVE  IInv'
  <2>1. moat' \in [MoatTokens -> {NoMoat} \cup [scope : MoatScopes, admin : BOOLEAN]]
    BY <1>5 DEF CreateToken, GenerateTunnelToken, IInv, AuthInv, AuthTypeOK
  <2>2. AuthInv'
    BY <1>5, <2>1, ConnAuth DEF CreateToken, IInv, AuthInv, AuthTypeOK, ConnRecords, ConnState, mgmtVars, mamVars
  <2> QED
    BY <1>4, <1>5, <2>2 DEF CreateToken, mgmtVars
<1>6. ASSUME NEW m \in MoatTokens, NEW i \in Idents, NEW provide \in BOOLEAN, NEW request \in BOOLEAN,
             AddSim(m, i, provide, request)
      PROVE  IInv'
  <2>1. permits' \subseteq Permits
    BY <1>6 DEF AddSim, Permits, IInv, AuthInv, AuthTypeOK
  <2>2. AuthInv'
    BY <1>6, <2>1, ConnAuth DEF AddSim, IInv, AuthInv, AuthTypeOK, ConnRecords, ConnState, mgmtVars, mamVars
  <2> QED
    BY <1>4, <1>6, <2>2 DEF AddSim, mgmtVars
<1>7. ASSUME NEW m \in MoatTokens, NEW s \in Sessions, RegisterProvider(s, m) PROVE IInv'
  BY <1>4, <1>7, GenerateAuth DEF RegisterProvider, GenerateSession, IInv
<1>8. ASSUME NEW m \in MoatTokens, NEW s \in Sessions, NEW t \in Tokens, RegisterProbe(s, t, m) PROVE IInv'
  <2>1. probe[t] # None
    BY <1>8 DEF RegisterProbe, IInv, VpnInv, MamInv, ActiveHasProbe
  <2> QED
    BY <1>4, <1>8, <2>1, GenerateAuth DEF RegisterProbe, GenerateSession, IInv
<1>9. ASSUME NEW s \in Sessions, Deregister(s) PROVE IInv'
  BY <1>4, <1>9, DeregisterAuth DEF Deregister, IInv
<1>10. ASSUME NEW s \in Sessions, NEW i \in SUBSET Idents, RegisterSims(s, i) PROVE IInv'
  <2>1. UNCHANGED <<wgVars, mamVars, probe, session, moat, permits, conn>> /\ Remember(s)
    BY <1>10 DEF RegisterSims, mgmtVars, mamVars
  <2>2. conn' \in [Conns -> ConnRecords] /\ ConnState'
    BY <2>1 DEF IInv, AuthInv, AuthTypeOK, ConnRecords, ConnState
  <2>3. CASE Identity(s) # None
    BY <1>4, <2>1, <2>2, <2>3, RememberAuth DEF IInv
  <2>4. CASE Identity(s) = None
    <3>1. idCache' = idCache
      BY <2>1, <2>4 DEF Remember, Identity, IInv, AuthInv, AuthTypeOK
    <3> QED
      BY <1>4, <2>1, <2>2, <3>1, ConnAuth DEF IInv, AuthInv, AuthTypeOK
  <2> QED
    BY <2>3, <2>4
<1>11. ASSUME NEW s \in Sessions, DeregisterSims(s) PROVE IInv'
  <2>1. UNCHANGED <<wgVars, mamVars, probe, session, moat, permits, conn>>
    BY <1>11 DEF DeregisterSims, mgmtVars, mamVars
  <2>2. conn' \in [Conns -> ConnRecords] /\ ConnState'
    BY <2>1 DEF IInv, AuthInv, AuthTypeOK, ConnRecords, ConnState
  <2> QED
    BY <1>4, <1>11, <2>1, <2>2, RememberAuth DEF DeregisterSims, IInv
<1>12. ASSUME NEW c \in Conns, NEW s \in Sessions, AcceptProbe(c, s) \/ AcceptProvider(c, s) PROVE IInv'
  BY <1>4, <1>12, AcceptAuth DEF AcceptProbe, AcceptProvider, mgmtVars, IInv
<1>13. ASSUME NEW c \in Conns, NEW q \in Queries, RequestSim(c, q) PROVE IInv'
  BY <1>4, <1>13, RequestSimAuth DEF RequestSim, mgmtVars, IInv
<1>14. ASSUME NEW c \in Conns, AskIdentity(c) PROVE IInv'
  BY <1>4, <1>14, AskIdentityAuth DEF AskIdentity, mgmtVars, IInv
<1>15. ASSUME NEW c \in Conns, Disconnect(c) PROVE IInv'
  <2>1. AuthInv'
    BY <1>15, DropConn, ConnAuth DEF Disconnect, IInv, AuthInv, AuthTypeOK, mgmtVars, mamVars
  <2> QED
    BY <1>4, <1>15, <2>1 DEF Disconnect, mgmtVars
<1> QED
  BY <1>1, <1>2, <1>3, <1>5, <1>6, <1>7, <1>8, <1>9, <1>10, <1>11, <1>12, <1>13, <1>14, <1>15
  DEF TunnelAuthNext

LEMMA NextIInv == ASSUME IInv, [ManagementNext]_<<mgmtVars, authVars>> PROVE IInv'
<1>1. CASE VpnNext(Requests, Tokens, Keys, Scopes) /\ UNCHANGED authVars
  BY <1>1, VpnStep, VpnAuth DEF IInv, VpnInv
<1>2. CASE TunnelAuthNext(Requests, Tokens)
  BY <1>2, TunnelStep
<1>3. CASE UNCHANGED <<mgmtVars, authVars>>
  BY <1>3, VpnUnchanged, ProbesAuth DEF IInv, mgmtVars, mamVars
<1> QED
  BY <1>1, <1>2, <1>3 DEF ManagementNext

\* The inductive invariant: what the daemon, the tables, the log of attempts,
\* the sessions and the tunnel server's cache are in every reachable state.
THEOREM SpecIInv == ManagementSpec => []IInv
<1>1. WgInit /\ MamInit /\ AuthInit => IInv
  BY WgInitInv, MamInitInv, LogInitInv, AuthInitInv DEF IInv, VpnInv
<1>2. IInv /\ [ManagementNext]_<<mgmtVars, authVars>> => IInv'
  BY NextIInv
<1> QED
  BY <1>1, <1>2, PTL DEF ManagementSpec

\* When the daemon has nothing in progress and no command has failed or timed
\* out, the file is the interface: the saves of _save_wg_config, run by any
\* number of add_peer and remove_peer handlers, never leave an older state.
THEOREM SavesAreNotLost == ManagementSpec => []SavedFollowsLive
<1>1. IInv => SavedFollowsLive
  BY NoJobIs DEF IInv, VpnInv, WgInv, SavePending, SavedFollowsLive
<1> QED
  BY <1>1, SpecIInv, PTL

\* wireguard_register finds a configuration for every active token with the
\* WireGuard scope: the branch its comment calls impossible is.
THEOREM ActiveTokensAreConfigured == ManagementSpec => []ActiveHasConfig
<1>1. IInv => ActiveHasConfig
  BY DEF IInv, VpnInv, MamInv
<1> QED
  BY <1>1, SpecIInv, PTL

\* Every peer the daemon has on the interface or in the file was logged by
\* log_config_attempt before wireguard_register asked for it.
THEOREM EveryPeerIsLogged == ManagementSpec => []PeersAreLogged
<1>1. IInv => PeersAreLogged
  BY DEF IInv, VpnInv, LogInv, Logged, PeersAreLogged
<1> QED
  BY <1>1, SpecIInv, PTL

\* The tunnel server's _id_cache, which nothing ever empties, agrees with the
\* management about every valid session token, and its probe is not deleted.
THEOREM CachedIdentityHolds == ManagementSpec => []IdentityHolds
<1>1. IInv => IdentityHolds
  BY DEF IInv, AuthInv
<1> QED
  BY <1>1, SpecIInv, PTL

-----------------------------------------------------------------------------
(***************************************************************************)
(* The operators of a poll and of the check, on the rows of one probe      *)
(***************************************************************************)

Reads == [now : 0..MaxTime, row : 0..MaxRows, active : SUBSET Nat, status : Seq(Statuses)]

\* The same row later: it never becomes active again.
Later(a, b) == b.kind = a.kind /\ b.begin = a.begin /\ (b.active => a.active)

\* StatusesTile for one probe, whose statuses have ended by the time.
Tiles(rows, time) ==
    \A i \in DOMAIN rows :
        /\ rows[i].begin <= rows[i].end /\ rows[i].end <= time
        /\ rows[i].active <=> i = Len(rows)
        /\ i > 1 => rows[i].begin = rows[i - 1].end

LastRow(rows) == IF rows = <<>> THEN {} ELSE {Len(rows)}

LEMMA FunctionIsSeq ==
  ASSUME NEW S, NEW n \in Nat, NEW f \in [1..n -> S]
  PROVE  f \in Seq(S) /\ Len(f) = n /\ DOMAIN f = 1..n
OBVIOUS

LEMMA RowIs ==
  ASSUME NEW rows \in Seq(Statuses), NEW i \in DOMAIN rows
  PROVE  /\ rows[i] \in Statuses /\ rows[i].active \in BOOLEAN /\ rows[i].kind \in {"online", "offline"}
         /\ rows[i].begin \in 0..MaxTime /\ rows[i].end \in 0..MaxTime /\ i \in 1..Len(rows)
<1>1. i \in 1..Len(rows)
  OBVIOUS
<1>2. rows[i] \in Statuses
  BY <1>1, ElementOfSeq
<1>3. ASSUME NEW r \in Statuses
      PROVE  /\ r.active \in BOOLEAN /\ r.kind \in {"online", "offline"}
             /\ r.begin \in 0..MaxTime /\ r.end \in 0..MaxTime
  BY DEF Statuses
<1> QED
  BY <1>1, <1>2, <1>3

\* The rows are closed and one more begins where the last has ended.
LEMMA Begun ==
  ASSUME NEW n \in Nat \ {0}, NEW new, DOMAIN new = 1..(n + 1), Len(new) = n + 1, NEW time \in Nat,
         \A i \in 1..n : /\ new[i].begin <= new[i].end /\ new[i].end <= time
                         /\ ~new[i].active
                         /\ i > 1 => new[i].begin = new[i - 1].end,
         new[n + 1].begin = new[n].end, new[n + 1].begin = new[n + 1].end, new[n + 1].active,
         new[n + 1].end \in Nat
  PROVE  Tiles(new, time)
<1> SUFFICES ASSUME NEW i \in 1..(n + 1)
             PROVE  /\ new[i].begin <= new[i].end /\ new[i].end <= time
                    /\ new[i].active <=> i = n + 1
                    /\ i > 1 => new[i].begin = new[i - 1].end
  BY DEF Tiles
<1>1. CASE i \in 1..n
  BY <1>1
<1>2. CASE i = n + 1
  <2>1. n \in 1..n /\ i - 1 = n
    BY <1>2
  <2>2. new[n].end <= time
    BY <2>1
  <2>3. new[n + 1].begin <= new[n + 1].end /\ new[n + 1].end <= time
    BY <2>2
  <2>4. new[i].active <=> i = n + 1
    BY <1>2
  <2> QED
    BY <1>2, <2>1, <2>3, <2>4
<1> QED
  BY <1>1, <1>2

\* What a poll does to rows that another transaction may have changed.
LEMMA PolledRows ==
  ASSUME NEW rows \in Seq(Statuses), NEW read \in Reads, read.active \subseteq DOMAIN rows,
         NEW new, new = Polled(rows, read)
  PROVE  /\ new \in Seq(Statuses) /\ Len(rows) <= Len(new)
         /\ \A i \in DOMAIN rows :
              /\ Later(rows[i], new[i])
              /\ i \notin read.active => new[i] = rows[i]
              /\ i \in read.active /\ new[i].active => read.status[i].kind = "online"
         /\ \A i \in DOMAIN new \ DOMAIN rows : new[i].kind = "online"
<1> DEFINE online == [active |-> TRUE, kind |-> "online", begin |-> read.now, end |-> read.now]
           fresh(i) == read.status[i].kind = "online" /\ read.status[i].end + 2 * Interval > read.now
           kept == [i \in DOMAIN rows |-> IF i \notin read.active THEN rows[i]
                      ELSE [rows[i] EXCEPT !.active = @ /\ fresh(i), !.end = read.now]]
<1>1. new = IF \E i \in read.active : fresh(i) THEN kept ELSE Append(kept, online)
  BY DEF Polled
<1>2. online \in Statuses /\ online.kind = "online" /\ read.now \in 0..MaxTime
  BY DEF Reads, Statuses
<1>3. \A i \in DOMAIN rows :
        /\ kept[i] \in Statuses /\ Later(rows[i], kept[i])
        /\ i \notin read.active => kept[i] = rows[i]
        /\ i \in read.active /\ kept[i].active => fresh(i)
  <2> SUFFICES ASSUME NEW i \in DOMAIN rows
               PROVE  /\ kept[i] \in Statuses /\ Later(rows[i], kept[i])
                      /\ i \notin read.active => kept[i] = rows[i]
                      /\ i \in read.active /\ kept[i].active => fresh(i)
    OBVIOUS
  <2>1. CASE i \notin read.active
    BY <2>1, RowIs DEF Later
  <2>2. CASE i \in read.active
    <3> DEFINE f == fresh(i)
    <3>1. kept[i] = [rows[i] EXCEPT !.active = @ /\ f, !.end = read.now] /\ f \in BOOLEAN
      BY <2>2
    <3>2. rows[i] \in Statuses
      BY RowIs
    <3> HIDE DEF f, kept
    <3>3. /\ kept[i] \in Statuses /\ kept[i].kind = rows[i].kind /\ kept[i].begin = rows[i].begin
          /\ kept[i].active = (rows[i].active /\ f)
      BY <1>2, <3>1, <3>2 DEF Statuses
    <3> QED
      BY <2>2, <3>3 DEF Later, f
  <2> QED
    BY <2>1, <2>2
<1>4. kept \in [1..Len(rows) -> Statuses] /\ DOMAIN rows = 1..Len(rows) /\ Len(rows) \in Nat
  <2>1. DOMAIN rows = 1..Len(rows) /\ Len(rows) \in Nat
    OBVIOUS
  <2>2. kept = [i \in DOMAIN rows |-> kept[i]]
    OBVIOUS
  <2> HIDE DEF kept
  <2> QED
    BY <1>3, <2>1, <2>2
<1> HIDE DEF kept, online
<1>5. kept \in Seq(Statuses) /\ Len(kept) = Len(rows)
  BY <1>4, FunctionIsSeq
<1>6. CASE \E i \in read.active : fresh(i)
  BY <1>1, <1>3, <1>4, <1>5, <1>6
<1>7. CASE ~ \E i \in read.active : fresh(i)
  <2>1. new = Append(kept, online)
    BY <1>1, <1>7
  <2>2. /\ new \in Seq(Statuses) /\ Len(new) = Len(rows) + 1 /\ new[Len(rows) + 1] = online
        /\ \A i \in 1..Len(rows) : new[i] = kept[i]
    BY <1>2, <1>5, <2>1
  <2> QED
    BY <1>2, <1>3, <1>4, <2>2
<1> QED
  BY <1>6, <1>7

\* A poll that nothing has come between.
LEMMA PolledTiles ==
  ASSUME NEW rows \in Seq(Statuses), NEW read \in Reads, read.status = rows,
         read.active = LastRow(rows), Tiles(rows, read.now), NEW new, new = Polled(rows, read)
  PROVE  Tiles(new, read.now)
<1> DEFINE n == Len(rows)
           online == [active |-> TRUE, kind |-> "online", begin |-> read.now, end |-> read.now]
           fresh(i) == rows[i].kind = "online" /\ rows[i].end + 2 * Interval > read.now
           kept == [i \in DOMAIN rows |-> IF i \notin read.active THEN rows[i]
                      ELSE [rows[i] EXCEPT !.active = @ /\ fresh(i), !.end = read.now]]
<1>1. new = IF \E i \in read.active : fresh(i) THEN kept ELSE Append(kept, online)
  BY DEF Polled
<1>2. online \in Statuses /\ read.now \in 0..MaxTime
  BY DEF Reads, Statuses
<1>3. n \in Nat /\ DOMAIN rows = 1..n
  OBVIOUS
<1>4. CASE n = 0
  <2>1. rows = <<>> /\ read.active = {}
    BY <1>4 DEF LastRow
  <2>2. kept = <<>>
    BY <2>1
  <2>3. new = Append(<<>>, online)
    BY <1>1, <2>1, <2>2
  <2>4. Len(new) = 1 /\ new[1] = online /\ DOMAIN new = 1..1
    BY <1>2, <2>3
  <2> QED
    BY <1>2, <2>4 DEF Tiles
<1>5. CASE n > 0
  <2>1. read.active = {n} /\ n \in DOMAIN rows
    BY <1>3, <1>5 DEF LastRow
  <2> DEFINE f == fresh(n)
  <2>2. /\ kept \in [1..n -> Statuses]
        /\ \A i \in 1..n : i # n => kept[i] = rows[i]
        /\ kept[n].active = f /\ kept[n].end = read.now /\ kept[n].begin = rows[n].begin
    <3>1. rows[n].active = TRUE /\ f \in BOOLEAN /\ rows[n] \in Statuses
      BY <2>1, RowIs DEF Tiles
    <3>2. kept[n] = [rows[n] EXCEPT !.active = @ /\ f, !.end = read.now]
      BY <2>1
    <3>3. \A i \in 1..n : i # n => kept[i] = rows[i] /\ rows[i] \in Statuses
      BY <1>3, <2>1, RowIs
    <3>4. DOMAIN kept = 1..n /\ kept = [i \in 1..n |-> kept[i]]
      BY <1>3
    <3> HIDE DEF f, kept
    <3>5. kept[n] \in Statuses /\ kept[n].active = f /\ kept[n].end = read.now /\ kept[n].begin = rows[n].begin
      BY <1>2, <3>1, <3>2 DEF Statuses
    <3> QED
      BY <1>3, <3>3, <3>4, <3>5
  <2> HIDE DEF kept
  <2>3. kept \in Seq(Statuses) /\ Len(kept) = n /\ DOMAIN kept = 1..n
    BY <1>3, <2>2, FunctionIsSeq
  <2>4. \A i \in 1..n : /\ rows[i].begin \in Nat /\ rows[i].end \in Nat
                        /\ rows[i].begin <= rows[i].end /\ rows[i].end <= read.now
                        /\ rows[i].active <=> i = n
                        /\ i > 1 => rows[i].begin = rows[i - 1].end
    <3>1. \A i \in 1..n : rows[i].begin \in Nat /\ rows[i].end \in Nat
      BY <1>3, RowIs
    <3> QED
      BY <1>3, <3>1 DEF Tiles
  <2> HIDE DEF online, n, f
  <2>5. CASE f
    <3>1. new = kept
      BY <1>1, <2>1, <2>5 DEF f
    <3>2. \A i \in 1..n : kept[i].begin <= kept[i].end /\ kept[i].end <= read.now
      BY <1>2, <1>3, <2>2, <2>4
    <3>3. \A i \in 1..n : kept[i].active <=> i = n
      BY <2>2, <2>4, <2>5
    <3>4. \A i \in 1..n : i > 1 => kept[i].begin = kept[i - 1].end
      <4> SUFFICES ASSUME NEW i \in 1..n, i > 1 PROVE kept[i].begin = kept[i - 1].end
        OBVIOUS
      <4>1. i - 1 \in 1..n /\ i - 1 # n
        BY <1>3
      <4> QED
        BY <1>3, <2>2, <2>4, <4>1
    <3> QED
      BY <2>3, <3>1, <3>2, <3>3, <3>4 DEF Tiles
  <2>6. CASE ~f
    <3>1. new = Append(kept, online)
      BY <1>1, <2>1, <2>6 DEF f
    <3>2. Len(new) = n + 1 /\ DOMAIN new = 1..(n + 1) /\ new[n + 1] = online /\ \A i \in 1..n : new[i] = kept[i]
      BY <1>2, <1>3, <2>3, <3>1
    <3>3. \A i \in 1..n : /\ new[i].begin <= new[i].end /\ new[i].end <= read.now
                          /\ ~new[i].active
                          /\ i > 1 => new[i].begin = new[i - 1].end
      BY <1>2, <1>3, <2>2, <2>4, <2>6, <3>2
    <3>4. new[n + 1].begin = new[n].end /\ new[n + 1].begin = read.now /\ new[n + 1].end = read.now
          /\ new[n + 1].active
      BY <1>3, <1>5, <2>2, <3>2 DEF online
    <3> QED
      <4>1. n \in Nat \ {0} /\ read.now \in Nat
        BY <1>2, <1>3, <1>5
      <4>2. new[n + 1].begin = new[n].end /\ new[n + 1].begin = new[n + 1].end /\ new[n + 1].end \in Nat
        BY <3>4, <4>1
      <4>3. new[n + 1].active
        BY <3>4
      <4>4. DOMAIN new = 1..(n + 1) /\ Len(new) = n + 1
        BY <3>2
      <4> QED
        BY ONLY <3>3, <4>1, <4>2, <4>3, <4>4, Begun
  <2> QED
    BY <2>5, <2>6
<1> QED
  BY <1>3, <1>4, <1>5

\* The members of a finite set, in some order.
LEMMA Enumerated ==
  ASSUME NEW S, IsFiniteSet(S), NEW nth,
         nth = CHOOSE f \in [1..Cardinality(S) -> S] : \A m, n \in DOMAIN f : f[m] = f[n] => m = n
  PROVE  nth \in [1..Cardinality(S) -> S] /\ Cardinality(S) \in Nat
<1>1. Cardinality(S) \in Nat /\ ExistsBijection(1..Cardinality(S), S)
  BY FS_CardinalityType
<1>2. \E f \in [1..Cardinality(S) -> S] : \A m, n \in DOMAIN f : f[m] = f[n] => m = n
  BY <1>1 DEF ExistsBijection, Bijection, Injection, IsInjective
<1> QED
  BY <1>1, <1>2

LEMMA Closed ==
  ASSUME NEW r \in Statuses, NEW q, q = [r EXCEPT !.active = FALSE]
  PROVE  q \in Statuses /\ q.active = FALSE /\ q.kind = r.kind /\ q.begin = r.begin /\ q.end = r.end
BY DEF Statuses

LEMMA Prolonged ==
  ASSUME NEW r \in Statuses, NEW time \in 0..MaxTime, NEW q, q = [r EXCEPT !.end = time]
  PROVE  q \in Statuses /\ q.active = r.active /\ q.kind = r.kind /\ q.begin = r.begin /\ q.end = time
BY DEF Statuses

\* What the check does to rows that another transaction may have changed.
LEMMA CheckedRows ==
  ASSUME NEW rows \in Seq(Statuses), NEW read \in Reads, read.active \subseteq DOMAIN rows,
         read.active \subseteq DOMAIN read.status, NEW new, new = Checked(rows, read)
  PROVE  /\ new \in Seq(Statuses) /\ Len(rows) <= Len(new)
         /\ \A i \in DOMAIN rows :
              /\ Later(rows[i], new[i])
              /\ \/ new[i].end = rows[i].end
                 \/ i \in read.active /\ read.status[i].kind = "offline" /\ new[i].end = read.now
         /\ \A i \in DOMAIN new \ DOMAIN rows : new[i].begin = new[i].end
<1> DEFINE was == read.status
           lost == {i \in read.active : Expired(was[i], read.now)}
           k == Cardinality(lost)
           nth == CHOOSE f \in [1..k -> lost] : \A m, n \in DOMAIN f : f[m] = f[n] => m = n
           kept == [i \in DOMAIN rows |->
                      CASE i \in lost -> [rows[i] EXCEPT !.active = FALSE]
                        [] i \in read.active /\ was[i].kind = "offline" -> [rows[i] EXCEPT !.end = read.now]
                        [] OTHER -> rows[i]]
           more == [n \in 1..k |-> [active |-> TRUE, kind |-> "offline",
                                    begin |-> was[nth[n]].end, end |-> was[nth[n]].end]]
<1>1. new = kept \o more
  BY DEF Checked
<1>2. DOMAIN rows = 1..Len(rows) /\ Len(rows) \in Nat /\ was \in Seq(Statuses) /\ read.now \in 0..MaxTime
  BY DEF Reads
<1>3. IsFiniteSet(lost) /\ lost \subseteq read.active
  <2>1. IsFiniteSet(1..Len(rows))
    BY <1>2, FS_Interval
  <2>2. lost \in SUBSET (1..Len(rows))
    BY <1>2
  <2> QED
    BY <2>1, <2>2, FS_Subset
<1> HIDE DEF lost
<1>4. nth \in [1..k -> lost] /\ k \in Nat
  BY <1>3, Enumerated
<1> HIDE DEF k, nth
<1>5. more \in Seq(Statuses) /\ Len(more) = k /\ \A n \in 1..k : more[n].begin = more[n].end
  <2>1. ASSUME NEW n \in 1..k PROVE more[n] \in Statuses /\ more[n].begin = more[n].end
    <3>1. was[nth[n]].end \in 0..MaxTime
      <4>1. nth[n] \in DOMAIN was
        BY <1>3, <1>4
      <4> QED
        BY <1>2, <4>1, RowIs
    <3>2. more[n] = [active |-> TRUE, kind |-> "offline", begin |-> was[nth[n]].end, end |-> was[nth[n]].end]
      OBVIOUS
    <3> QED
      BY <3>1, <3>2 DEF Statuses
  <2>2. more = [n \in 1..k |-> more[n]]
    OBVIOUS
  <2> HIDE DEF more
  <2>3. more \in [1..k -> Statuses]
    BY <2>1, <2>2
  <2> QED
    BY <1>4, <2>1, <2>3, FunctionIsSeq
<1>6. \A i \in DOMAIN rows :
        /\ kept[i] \in Statuses /\ Later(rows[i], kept[i])
        /\ \/ kept[i].end = rows[i].end
           \/ i \in read.active /\ was[i].kind = "offline" /\ kept[i].end = read.now
  <2> SUFFICES ASSUME NEW i \in DOMAIN rows
               PROVE  /\ kept[i] \in Statuses /\ Later(rows[i], kept[i])
                      /\ \/ kept[i].end = rows[i].end
                         \/ i \in read.active /\ was[i].kind = "offline" /\ kept[i].end = read.now
    OBVIOUS
  <2>1. rows[i] \in Statuses
    BY RowIs
  <2>2. CASE kept[i] = [rows[i] EXCEPT !.active = FALSE]
    BY <2>1, <2>2, Closed DEF Later
  <2>3. CASE i \in read.active /\ was[i].kind = "offline" /\ kept[i] = [rows[i] EXCEPT !.end = read.now]
    BY <1>2, <2>1, <2>3, Prolonged DEF Later
  <2>4. CASE kept[i] = rows[i]
    BY <2>1, <2>4 DEF Later
  <2> QED
    BY <2>2, <2>3, <2>4
<1>7. kept \in Seq(Statuses) /\ Len(kept) = Len(rows)
  <2>1. kept = [i \in DOMAIN rows |-> kept[i]]
    OBVIOUS
  <2> HIDE DEF kept
  <2>2. kept \in [1..Len(rows) -> Statuses]
    BY <1>2, <1>6, <2>1
  <2> QED
    BY <1>2, <2>2, FunctionIsSeq
<1> HIDE DEF kept, more
<1>8. /\ new \in Seq(Statuses) /\ Len(new) = Len(rows) + k
      /\ \A i \in 1..(Len(rows) + k) : new[i] = IF i <= Len(rows) THEN kept[i] ELSE more[i - Len(rows)]
  <2>1. /\ kept \o more \in Seq(Statuses) /\ Len(kept \o more) = Len(kept) + Len(more)
        /\ \A i \in 1..(Len(kept) + Len(more)) :
             (kept \o more)[i] = IF i <= Len(kept) THEN kept[i] ELSE more[i - Len(kept)]
    BY ONLY <1>5, <1>7, ConcatProperties
  <2> QED
    BY ONLY <1>1, <1>5, <1>7, <2>1
<1>9. \A i \in DOMAIN rows : new[i] = kept[i]
  BY <1>2, <1>4, <1>8
<1>10. \A i \in DOMAIN new \ DOMAIN rows : \E n \in 1..k : new[i] = more[n]
  <2> SUFFICES ASSUME NEW i \in DOMAIN new \ DOMAIN rows PROVE i - Len(rows) \in 1..k /\ new[i] = more[i - Len(rows)]
    OBVIOUS
  <2>1. i \in 1..(Len(rows) + k) /\ ~(i <= Len(rows))
    BY <1>2, <1>4, <1>8
  <2> QED
    BY <1>2, <1>4, <1>8, <2>1
<1>11. Len(rows) <= Len(new)
  BY <1>2, <1>4, <1>8
<1> QED
  BY <1>5, <1>6, <1>8, <1>9, <1>10, <1>11

\* The check leaves the rows alone when it has read none that are active.
LEMMA CheckedNone ==
  ASSUME NEW rows \in Seq(Statuses), NEW read, read.active = {}
  PROVE  Checked(rows, read) = rows
<1> DEFINE was == read.status
           lost == {i \in read.active : Expired(was[i], read.now)}
           nth == CHOOSE f \in [1..Cardinality(lost) -> lost] : \A m, n \in DOMAIN f : f[m] = f[n] => m = n
           row1(n) == [active |-> TRUE, kind |-> "offline", begin |-> was[nth[n]].end, end |-> was[nth[n]].end]
           kept == [i \in DOMAIN rows |->
                      CASE i \in lost -> [rows[i] EXCEPT !.active = FALSE]
                        [] i \in read.active /\ was[i].kind = "offline" -> [rows[i] EXCEPT !.end = read.now]
                        [] OTHER -> rows[i]]
           more == [n \in 1..Cardinality(lost) |-> row1(n)]
<1>1. Checked(rows, read) = kept \o more
  BY DEF Checked
<1>2. lost = {}
  OBVIOUS
<1>3. kept = rows
  <2>1. \A i \in DOMAIN rows : kept[i] = rows[i]
    BY <1>2
  <2>2. DOMAIN kept = DOMAIN rows /\ kept = [i \in DOMAIN rows |-> kept[i]] /\ rows = [i \in DOMAIN rows |-> rows[i]]
    OBVIOUS
  <2> HIDE DEF kept
  <2> QED
    BY <2>1, <2>2
<1>4. more = <<>>
  <2>1. Cardinality(lost) = 0
    BY <1>2, FS_EmptySet
  <2> HIDE DEF row1, lost
  <2>2. 1..Cardinality(lost) = {}
    BY <2>1
  <2> QED
    BY <2>2
<1> HIDE DEF kept, more
<1> QED
  BY <1>1, <1>3, <1>4, ConcatEmptySeq

\* A check that nothing has come between.
LEMMA CheckedTiles ==
  ASSUME NEW rows \in Seq(Statuses), NEW read \in Reads, read.status = rows,
         read.active = LastRow(rows), Tiles(rows, read.now), NEW new, new = Checked(rows, read)
  PROVE  Tiles(new, read.now)
<1> DEFINE n == Len(rows)
           lost == {i \in read.active : Expired(read.status[i], read.now)}
           k == Cardinality(lost)
           nth == CHOOSE f \in [1..k -> lost] : \A a, b \in DOMAIN f : f[a] = f[b] => a = b
           kept == [i \in DOMAIN rows |->
                      CASE i \in lost -> [rows[i] EXCEPT !.active = FALSE]
                        [] i \in read.active /\ read.status[i].kind = "offline" -> [rows[i] EXCEPT !.end = read.now]
                        [] OTHER -> rows[i]]
           more == [m \in 1..k |-> [active |-> TRUE, kind |-> "offline",
                                    begin |-> read.status[nth[m]].end, end |-> read.status[nth[m]].end]]
<1>1. new = kept \o more
  BY DEF Checked
<1>2. n \in Nat /\ DOMAIN rows = 1..n /\ read.now \in Nat
  BY DEF Reads
<1>3. CASE n = 0
  <2>1. rows = <<>> /\ read.active = {}
    BY <1>3 DEF LastRow
  <2>2. new = rows
    BY <2>1, CheckedNone
  <2> QED
    BY <2>2
<1>4. CASE n > 0
  <2>1. read.active = {n} /\ n \in DOMAIN rows /\ n \in Nat \ {0}
    BY <1>2, <1>4 DEF LastRow
  <2>2. \A i \in 1..n : /\ rows[i].begin \in Nat /\ rows[i].end \in Nat
                        /\ rows[i].begin <= rows[i].end /\ rows[i].end <= read.now
                        /\ rows[i].active <=> i = n
                        /\ i > 1 => rows[i].begin = rows[i - 1].end
    <3>1. \A i \in 1..n : rows[i].begin \in Nat /\ rows[i].end \in Nat
      BY <1>2, RowIs
    <3> QED
      BY <1>2, <3>1 DEF Tiles
  <2>3. rows[n] \in Statuses /\ read.now \in 0..MaxTime
    BY <2>1, RowIs DEF Reads
  <2> HIDE DEF n
  <2>4. \A i \in 1..n : i # n => kept[i] = rows[i]
    BY <1>2, <2>1
  <2>5. CASE Expired(rows[n], read.now)
    <3> DEFINE offline == [active |-> TRUE, kind |-> "offline", begin |-> rows[n].end, end |-> rows[n].end]
    <3>1. lost = {n} /\ k = 1
      BY <2>1, <2>5, FS_Singleton
    <3> HIDE DEF lost
    <3>2. kept[n] = [rows[n] EXCEPT !.active = FALSE]
      <4>1. n \in lost /\ n \in DOMAIN rows /\ read.status[n].kind # "offline"
        BY <2>1, <2>5, <3>1 DEF Expired
      <4> QED
        BY ONLY <4>1 DEF kept
    <3>3. nth \in [1..1 -> {n}]
      BY <3>1, FS_Singleton, Enumerated
    <3> HIDE DEF nth, k
    <3>4. DOMAIN more = 1..1 /\ more[1] = offline /\ more = [m \in 1..1 |-> more[m]]
      <4>1. nth[1] = n
        BY <3>3
      <4>2. more = [m \in 1..1 |-> [active |-> TRUE, kind |-> "offline",
                                   begin |-> rows[nth[m]].end, end |-> rows[nth[m]].end]]
        BY <3>1
      <4> QED
        BY ONLY <4>1, <4>2 DEF offline
    <3>5. kept[n] \in Statuses /\ kept[n].active = FALSE /\ kept[n].begin = rows[n].begin /\ kept[n].end = rows[n].end
      BY <2>3, <3>2, Closed
    <3>6. kept = [i \in 1..n |-> kept[i]]
      BY <1>2
    <3>7. offline \in Statuses /\ offline.active /\ offline.begin = rows[n].end /\ offline.end = rows[n].end
      <4>1. rows[n].end \in 0..MaxTime
        BY <2>1, RowIs
      <4> QED
        BY <4>1 DEF Statuses
    <3> HIDE DEF kept, offline, more
    <3>8. kept \in Seq(Statuses) /\ Len(kept) = n /\ more \in Seq(Statuses) /\ Len(more) = 1
      <4>1. kept \in [1..n -> Statuses]
        BY <1>2, <2>4, <3>5, <3>6, RowIs
      <4>2. more \in [1..1 -> Statuses]
        BY <3>4, <3>7
      <4> QED
        BY <1>2, <4>1, <4>2, FunctionIsSeq
    <3>9. Len(new) = n + 1 /\ DOMAIN new = 1..(n + 1) /\ new[n + 1] = offline
          /\ \A i \in 1..n : new[i] = kept[i]
      <4>1. /\ new \in Seq(Statuses) /\ Len(new) = n + 1
            /\ \A i \in 1..(n + 1) : new[i] = IF i <= n THEN kept[i] ELSE more[i - n]
        <5>1. /\ kept \o more \in Seq(Statuses) /\ Len(kept \o more) = Len(kept) + Len(more)
              /\ \A i \in 1..(Len(kept) + Len(more)) :
                   (kept \o more)[i] = IF i <= Len(kept) THEN kept[i] ELSE more[i - Len(kept)]
          BY ONLY <3>8, ConcatProperties
        <5> QED
          BY ONLY <1>1, <3>8, <5>1
      <4>2. \A i \in 1..n : new[i] = kept[i]
        BY <1>2, <4>1
      <4>3. new[n + 1] = more[1]
        BY <1>2, <4>1
      <4> QED
        BY <3>4, <4>1, <4>2, <4>3
    <3>10. \A i \in 1..n : /\ new[i].begin <= new[i].end /\ new[i].end <= read.now
                           /\ ~new[i].active
                           /\ i > 1 => new[i].begin = new[i - 1].end
      <4>1. \A i \in 1..n : /\ new[i].begin = rows[i].begin /\ new[i].end = rows[i].end
        BY <2>4, <3>5, <3>9
      <4>2. \A i \in 1..n : ~new[i].active
        BY <2>2, <2>4, <3>5, <3>9
      <4>3. \A i \in 1..n : i > 1 => i - 1 \in 1..n
        BY <1>2
      <4> QED
        BY <2>2, <4>1, <4>2, <4>3
    <3>11. new[n + 1].begin = new[n].end /\ new[n + 1].begin = new[n + 1].end /\ new[n + 1].end \in Nat
           /\ new[n + 1].active
      <4>1. n \in 1..n
        BY <2>1
      <4> QED
        BY <2>2, <3>5, <3>7, <3>9, <4>1
    <3> QED
      BY ONLY <1>2, <2>1, <3>9, <3>10, <3>11, Begun
  <2>6. CASE ~Expired(rows[n], read.now)
    <3>1. lost = {} /\ k = 0
      BY <2>1, <2>6, FS_EmptySet
    <3>2. more = <<>>
      <4> HIDE DEF lost, nth
      <4>1. 1..k = {}
        BY <3>1
      <4> HIDE DEF k
      <4> QED
        BY <4>1
    <3>3. kept[n] = IF rows[n].kind = "offline" THEN [rows[n] EXCEPT !.end = read.now] ELSE rows[n]
      BY <2>1, <3>1
    <3>4. kept = [i \in DOMAIN rows |-> kept[i]]
      OBVIOUS
    <3> HIDE DEF kept, more, lost
    <3>5. kept[n].active = rows[n].active /\ kept[n].begin = rows[n].begin /\ kept[n].end \in {rows[n].end, read.now}
      BY <2>3, <3>3, Prolonged
    <3>6. kept \in Seq({kept[i] : i \in 1..n}) /\ Len(kept) = n /\ DOMAIN kept = 1..n
      <4>1. kept \in [1..n -> {kept[i] : i \in 1..n}]
        BY <1>2, <3>4
      <4> QED
        BY <1>2, <4>1, FunctionIsSeq
    <3>7. new = kept
      BY <1>1, <3>2, <3>6, ConcatEmptySeq
    <3>8. \A i \in 1..n : kept[i].begin <= kept[i].end /\ kept[i].end <= read.now
      <4>1. n \in 1..n
        BY <2>1
      <4>2. kept[n].begin <= kept[n].end /\ kept[n].end <= read.now
        <5>1. /\ rows[n].begin \in Nat /\ rows[n].end \in Nat
              /\ rows[n].begin <= rows[n].end /\ rows[n].end <= read.now
          BY <2>2, <4>1
        <5> QED
          BY ONLY <1>2, <3>5, <5>1
      <4> QED
        BY <2>2, <2>4, <4>2
    <3>9. \A i \in 1..n : kept[i].active <=> i = n
      BY <2>2, <2>4, <3>5
    <3>10. \A i \in 1..n : i > 1 => kept[i].begin = kept[i - 1].end
      <4> SUFFICES ASSUME NEW i \in 1..n, i > 1 PROVE kept[i].begin = kept[i - 1].end
        OBVIOUS
      <4>1. i - 1 \in 1..n /\ i - 1 # n
        BY <1>2
      <4> QED
        BY <1>2, <2>2, <2>4, <3>5, <4>1
    <3> QED
      BY <3>6, <3>7, <3>8, <3>9, <3>10 DEF Tiles
  <2> QED
    BY <2>5, <2>6
<1> QED
  BY <1>2, <1>3, <1>4

-----------------------------------------------------------------------------
(***************************************************************************)
(* The invariant of the statuses                                           *)
(***************************************************************************)

PollRecords == [pc : {"idle", "decide", "committed", "subscribed", "answered"}, t : Tokens \cup {None},
                read : Reads, client : BOOLEAN, command : Commands \cup {None}]

StatusTypes ==
    /\ now \in 0..MaxTime
    /\ status \in [Tokens -> Seq(Statuses)]
    /\ overlap \in [Tokens -> BOOLEAN]
    /\ poll \in [Polls -> PollRecords]
    /\ check.pc \in {"sleep", "decide"} /\ \A t \in Tokens : check.read[t] \in Reads

\* A probe's statuses go with it.
NoProbeNoStatus == \A t \in Tokens : probe[t] = None => status[t] = <<>> /\ Noticed(t) = {}

\* OutageReported for one probe.
Outages(rows, ids) ==
    \A i \in DOMAIN rows : /\ rows[i].active /\ rows[i].kind = "offline"
                           /\ rows[i].end - rows[i].begin >= OfflineFor
                           => i \in ids

\* What a transaction has read of a probe is of the probe as it was: if the
\* same probe is still there, then the rows read are, and those whose outage
\* was long enough have been reported.
ReadIn(r, time, n, name, rows, ids) ==
    /\ r.now <= time /\ r.row <= n /\ r.active \subseteq DOMAIN r.status
    /\ r.row = n =>
         \A i \in r.active :
           /\ name # None /\ i \in DOMAIN rows
           /\ rows[i].kind = r.status[i].kind /\ rows[i].begin = r.status[i].begin
           /\ r.status[i].kind = "offline" /\ r.status[i].end - r.status[i].begin >= OfflineFor => i \in ids

PollReads ==
    \A h \in Polls : poll[h].pc = "decide" =>
      /\ poll[h].t \in Tokens
      /\ ReadIn(poll[h].read, now, row[poll[h].t], probe[poll[h].t], status[poll[h].t], Noticed(poll[h].t))

CheckReads ==
    check.pc = "decide" => \A t \in Tokens : ReadIn(check.read[t], now, row[t], probe[t], status[t], Noticed(t))

Deciding(h, t) == poll[h].pc = "decide" /\ poll[h].t = t

\* The statuses are still as the transaction has read them.
Untouched(r, n, rows) == r.row = n => r.status = rows /\ r.active = LastRow(rows) /\ Tiles(rows, r.now)

\* Transactions on a probe that have not overlapped came one after the other.
OneAtATime ==
    \A t \in Tokens : ~overlap[t] =>
      /\ Tiles(status[t], now)
      /\ \A h \in Polls : Deciding(h, t) => /\ check.pc # "decide"
                                            /\ \A g \in Polls : Deciding(g, t) => g = h
                                            /\ Untouched(poll[h].read, row[t], status[t])
      /\ check.pc = "decide" => Untouched(check.read[t], row[t], status[t])

StatusInv == /\ StatusTypes /\ NoProbeNoStatus /\ OutageReported
             /\ PollReads /\ CheckReads /\ OneAtATime

LEMMA OutagesIs ==
  StatusTypes => (OutageReported <=> \A t \in Tokens : Outages(status[t], Noticed(t)))
<1> SUFFICES ASSUME StatusTypes PROVE OutageReported <=> \A t \in Tokens : Outages(status[t], Noticed(t))
  OBVIOUS
<1>1. \A t \in Tokens : DOMAIN status[t] = 1..Len(status[t])
  BY DEF StatusTypes
<1> QED
  BY <1>1 DEF OutageReported, Outages, ActiveRows, Noticed

\* Nothing is noticed or forgotten where neither part changes.
LEMMA NoticedSame == UNCHANGED <<told, unsent>> => \A t : Noticed(t)' = Noticed(t)
BY DEF Noticed

LEMMA NoReadIs == NoRead \in Reads
BY TimeAssumption, TokenAssumption DEF NoRead, Reads

LEMMA StatusInitInv == MamInit /\ StatusInit => StatusInv
<1> SUFFICES ASSUME MamInit, StatusInit PROVE StatusInv
  OBVIOUS
<1>1. NoPoll \in PollRecords /\ NoPoll.pc = "idle"
  BY NoReadIs DEF NoPoll, PollRecords
<1>2. check.pc = "sleep" /\ \A t \in Tokens : check.read[t] \in Reads
  BY NoReadIs DEF StatusInit, Sleeping
<1>3. \A t \in Tokens : status[t] = <<>> /\ Noticed(t) = {}
  BY DEF StatusInit, Noticed
<1>4. poll \in [Polls -> PollRecords] /\ \A h \in Polls : poll[h].pc = "idle"
  BY <1>1 DEF StatusInit
<1>5. StatusTypes
  BY <1>2, <1>4, TimeAssumption DEF StatusInit, StatusTypes
<1>6. OutageReported
  BY <1>3 DEF OutageReported, ActiveRows
<1>7. OneAtATime
  BY <1>2, <1>3, <1>4 DEF OneAtATime, Deciding, Tiles
<1> QED
  BY <1>2, <1>3, <1>4, <1>5, <1>6, <1>7 DEF StatusInv, NoProbeNoStatus, PollReads, CheckReads

\* The rows of a probe grow, and keep what they are.
Grown(a, b) == \A i \in DOMAIN a : i \in DOMAIN b /\ Later(a[i], b[i])

LEMMA ReadKept ==
  ASSUME NEW r \in Reads, NEW t1 \in Nat, NEW t2 \in Nat, t1 <= t2, NEW n \in Nat, NEW m \in Nat,
         NEW x, NEW y, NEW a, NEW b, NEW ids, NEW more, ReadIn(r, t1, n, x, a, ids),
         m > n \/ (m = n /\ (x # None => y # None) /\ Grown(a, b) /\ ids \subseteq more)
  PROVE  ReadIn(r, t2, m, y, b, more)
<1>1. r.now \in Nat /\ r.row \in Nat
  BY TimeAssumption, TokenAssumption DEF Reads
<1>2. r.now <= t2 /\ r.row <= m /\ r.active \subseteq DOMAIN r.status
  BY <1>1 DEF ReadIn
<1>3. CASE m > n
  BY <1>1, <1>2, <1>3 DEF ReadIn
<1>4. CASE m = n /\ (x # None => y # None) /\ Grown(a, b) /\ ids \subseteq more
  BY <1>2, <1>4 DEF ReadIn, Grown, Later
<1> QED
  BY <1>3, <1>4

\* Steps by which no transaction begins: rows are kept as they are, or grow,
\* or their probe is deleted.
LEMMA StatusStep ==
  ASSUME StatusInv, StatusTypes', NoProbeNoStatus', OutageReported', row \in [Tokens -> Nat],
         row' \in [Tokens -> Nat], now <= now',
         \A t \in Tokens : overlap'[t] = overlap[t],
         \A h \in Polls : poll'[h].pc = "decide" =>
           poll[h].pc = "decide" /\ poll'[h].t = poll[h].t /\ poll'[h].read = poll[h].read,
         check'.pc = "decide" => check' = check,
         \A t \in Tokens : \/ row'[t] > row[t]
                           \/ /\ row'[t] = row[t] /\ (probe[t] # None => probe'[t] # None)
                              /\ Grown(status[t], status'[t]) /\ Noticed(t) \subseteq Noticed(t)',
         \A t \in Tokens : ~overlap[t] =>
           /\ Tiles(status'[t], now')
           /\ \/ row'[t] > row[t] \/ status'[t] = status[t]
              \/ check'.pc # "decide" /\ \A h \in Polls : ~(poll'[h].pc = "decide" /\ poll'[h].t = t)
  PROVE  StatusInv'
<1>1. now \in Nat /\ now' \in Nat
  BY TimeAssumption DEF StatusInv, StatusTypes
<1>2. PollReads'
  <2> SUFFICES ASSUME NEW h \in Polls, poll'[h].pc = "decide", NEW t, t = poll'[h].t
               PROVE  t \in Tokens /\ ReadIn(poll'[h].read, now', row'[t], probe'[t], status'[t], Noticed(t)')
    BY DEF PollReads
  <2>1. poll[h].pc = "decide" /\ poll[h].t = t /\ poll'[h].read = poll[h].read /\ poll[h].read \in Reads
    BY DEF StatusInv, StatusTypes, PollRecords
  <2>2. t \in Tokens /\ ReadIn(poll[h].read, now, row[t], probe[t], status[t], Noticed(t))
    BY <2>1 DEF StatusInv, PollReads
  <2>3. row[t] \in Nat /\ row'[t] \in Nat
    BY <2>2
  <2>5. PICK r \in Reads, n \in Nat, m \in Nat : r = poll[h].read /\ n = row[t] /\ m = row'[t]
    BY <2>1, <2>2, <2>3
  <2>6. PICK ids, more, a, b, x, y :
          /\ ids = Noticed(t) /\ more = Noticed(t)'
          /\ a = status[t] /\ b = status'[t] /\ x = probe[t] /\ y = probe'[t]
    OBVIOUS
  <2>7. m > n \/ (m = n /\ (x # None => y # None) /\ Grown(a, b) /\ ids \subseteq more)
    BY <2>2, <2>5, <2>6
  <2>8. ReadIn(r, now, n, x, a, ids)
    BY <2>2, <2>5, <2>6
  <2>9. ReadIn(r, now', m, y, b, more)
    BY <1>1, <2>7, <2>8, ReadKept
  <2> QED
    BY <2>1, <2>2, <2>5, <2>6, <2>9
<1>3. CheckReads'
  <2> SUFFICES ASSUME check'.pc = "decide", NEW t \in Tokens
               PROVE  ReadIn(check'.read[t], now', row'[t], probe'[t], status'[t], Noticed(t)')
    BY DEF CheckReads
  <2>1. check' = check /\ check.read[t] \in Reads /\ ReadIn(check.read[t], now, row[t], probe[t], status[t], Noticed(t))
    BY DEF StatusInv, StatusTypes, CheckReads
  <2>2. row[t] \in Nat /\ row'[t] \in Nat
    OBVIOUS
  <2>5. PICK r \in Reads, n \in Nat, m \in Nat : r = check.read[t] /\ n = row[t] /\ m = row'[t]
    BY <2>1, <2>2
  <2>6. PICK ids, more, a, b, x, y :
          /\ ids = Noticed(t) /\ more = Noticed(t)'
          /\ a = status[t] /\ b = status'[t] /\ x = probe[t] /\ y = probe'[t]
    OBVIOUS
  <2>7. m > n \/ (m = n /\ (x # None => y # None) /\ Grown(a, b) /\ ids \subseteq more)
    BY <2>5, <2>6
  <2>8. ReadIn(r, now, n, x, a, ids)
    BY <2>1, <2>5, <2>6
  <2>9. ReadIn(r, now', m, y, b, more)
    BY <1>1, <2>7, <2>8, ReadKept
  <2> QED
    BY <2>1, <2>5, <2>6, <2>9
<1>4. OneAtATime'
  <2> SUFFICES ASSUME NEW t \in Tokens, ~overlap[t]
               PROVE  /\ \A h \in Polls : Deciding(h, t)' =>
                                            /\ check'.pc # "decide"
                                            /\ \A g \in Polls : Deciding(g, t)' => g = h
                                            /\ Untouched(poll'[h].read, row'[t], status'[t])
                      /\ check'.pc = "decide" => Untouched(check'.read[t], row'[t], status'[t])
    BY DEF OneAtATime
  <2>1. \A h \in Polls : Deciding(h, t)' => Deciding(h, t) /\ poll'[h].read = poll[h].read
    BY DEF Deciding
  <2>2. \A h \in Polls : Deciding(h, t) => /\ check.pc # "decide"
                                           /\ \A g \in Polls : Deciding(g, t) => g = h
                                           /\ Untouched(poll[h].read, row[t], status[t])
                                           /\ poll[h].read.row <= row[t] /\ poll[h].read.row \in Nat
    BY TokenAssumption DEF StatusInv, OneAtATime, Deciding, PollReads, ReadIn, StatusTypes, PollRecords, Reads
  <2>3. check.pc = "decide" => /\ Untouched(check.read[t], row[t], status[t])
                               /\ check.read[t].row <= row[t] /\ check.read[t].row \in Nat
    BY TokenAssumption DEF StatusInv, OneAtATime, CheckReads, ReadIn, StatusTypes, Reads
  <2>4. row[t] \in Nat /\ row'[t] \in Nat
    OBVIOUS
  <2>5. CASE row'[t] > row[t]
    BY <2>1, <2>2, <2>3, <2>4, <2>5 DEF Untouched
  <2>6. CASE status'[t] = status[t] /\ ~(row'[t] > row[t])
    BY <2>1, <2>2, <2>3, <2>6
  <2>7. CASE check'.pc # "decide" /\ \A h \in Polls : ~(poll'[h].pc = "decide" /\ poll'[h].t = t)
    BY <2>7 DEF Deciding
  <2> QED
    BY <2>5, <2>6, <2>7
<1> QED
  BY <1>2, <1>3, <1>4 DEF StatusInv

LEMMA Unchanged ==
  ASSUME NEW a
  PROVE  Grown(a, a)
BY DEF Grown, Later

LEMMA TilesLater ==
  ASSUME NEW rows \in Seq(Statuses), NEW a \in Nat, NEW b \in Nat, a <= b, Tiles(rows, a)
  PROVE  Tiles(rows, b)
<1>1. \A i \in DOMAIN rows : rows[i].end \in Nat
  BY RowIs
<1> QED
  BY <1>1 DEF Tiles

\* Steps that leave the rows as they are, while time passes or polls go on.
LEMMA RowsKept ==
  ASSUME StatusInv, UNCHANGED <<row, probe, status, told, unsent, overlap>>, row \in [Tokens -> Nat],
         now' \in 0..MaxTime, now <= now', poll' \in [Polls -> PollRecords],
         \A h \in Polls : poll'[h].pc = "decide" =>
           poll[h].pc = "decide" /\ poll'[h].t = poll[h].t /\ poll'[h].read = poll[h].read,
         check' = check
  PROVE  StatusInv'
<1>1. StatusTypes' /\ NoProbeNoStatus' /\ OutageReported'
  BY NoticedSame DEF StatusInv, StatusTypes, NoProbeNoStatus, OutageReported, ActiveRows
<1>2. \A t \in Tokens : Grown(status[t], status'[t]) /\ Noticed(t) \subseteq Noticed(t)'
  BY Unchanged, NoticedSame
<1>3. \A t \in Tokens : ~overlap[t] => Tiles(status'[t], now')
  <2>1. now \in Nat /\ now' \in Nat /\ \A t \in Tokens : status[t] \in Seq(Statuses)
    BY TimeAssumption DEF StatusInv, StatusTypes
  <2> QED
    BY <2>1, TilesLater DEF StatusInv, OneAtATime
<1> QED
  BY <1>1, <1>2, <1>3, StatusStep

LEMMA TickStatus == ASSUME StatusInv, row \in [Tokens -> Nat], Tick PROVE StatusInv'
<1>1. now' \in 0..MaxTime /\ now <= now'
  BY TimeAssumption DEF Tick, StatusInv, StatusTypes
<1> QED
  BY <1>1, RowsKept DEF Tick, StatusInv, StatusTypes, mgmtVars, mamVars

\* The steps of a poll after its commit, and of the daemon that waits for it.
LEMMA PollGoesOn ==
  ASSUME StatusInv, row \in [Tokens -> Nat], UNCHANGED <<mgmtVars, now, status, told, unsent, overlap, check>>,
         \A h \in Polls : /\ poll'[h] \in PollRecords
                          /\ poll'[h].pc = "decide" =>
                               poll[h].pc = "decide" /\ poll'[h].t = poll[h].t /\ poll'[h].read = poll[h].read,
         poll' = [h \in Polls |-> poll'[h]]
  PROVE  StatusInv'
<1>1. poll' \in [Polls -> PollRecords]
  OBVIOUS
<1>2. now' \in 0..MaxTime /\ now <= now'
  BY TimeAssumption DEF StatusInv, StatusTypes
<1> QED
  BY <1>1, <1>2, RowsKept DEF mgmtVars, mamVars

LEMMA OnePoll ==
  ASSUME StatusInv, row \in [Tokens -> Nat], UNCHANGED <<mgmtVars, now, status, told, unsent, overlap, check>>,
         NEW h \in Polls, NEW p \in PollRecords, p.pc # "decide", poll' = [poll EXCEPT ![h] = p]
  PROVE  StatusInv'
<1>1. /\ poll'[h] = p /\ \A g \in Polls \ {h} : poll'[g] = poll[g]
      /\ poll' = [g \in Polls |-> poll'[g]] /\ \A g \in Polls : poll[g] \in PollRecords
  BY DEF StatusInv, StatusTypes
<1> QED
  BY <1>1, PollGoesOn

LEMMA PollMoves ==
  ASSUME StatusInv, row \in [Tokens -> Nat], UNCHANGED <<mgmtVars, now, status, told, unsent, overlap, check>>,
         NEW h \in Polls, NEW pc \in {"committed", "subscribed", "answered"}, poll' = [poll EXCEPT ![h].pc = pc]
  PROVE  StatusInv'
<1> DEFINE p == [poll[h] EXCEPT !.pc = pc]
<1>1. poll[h] \in PollRecords /\ poll' = [poll EXCEPT ![h] = p]
  BY DEF StatusInv, StatusTypes
<1>2. p \in PollRecords /\ p.pc = pc
  BY <1>1 DEF PollRecords
<1> HIDE DEF p
<1> QED
  BY <1>1, <1>2, OnePoll

LEMMA ExecuteStatus ==
  ASSUME StatusInv, row \in [Tokens -> Nat], NEW t \in Tokens, NEW c \in Commands, Execute(t, c)
  PROVE  StatusInv'
<1>1. ASSUME NEW h \in Polls
      PROVE  /\ poll'[h] \in PollRecords
             /\ poll'[h].pc = "decide" =>
                  poll[h].pc = "decide" /\ poll'[h].t = poll[h].t /\ poll'[h].read = poll[h].read
  <2>1. poll[h] \in PollRecords
    BY DEF StatusInv, StatusTypes
  <2>2. poll'[h] \in {poll[h], [poll[h] EXCEPT !.pc = "answered", !.command = c]}
    BY DEF Execute
  <2>3. CASE poll'[h] = poll[h]
    BY <2>1, <2>3
  <2>4. CASE poll'[h] = [poll[h] EXCEPT !.pc = "answered", !.command = c]
    BY <2>1, <2>4 DEF PollRecords
  <2> QED
    BY <2>2, <2>3, <2>4
<1>2. poll' = [h \in Polls |-> poll'[h]]
  BY DEF Execute
<1> QED
  BY <1>1, <1>2, PollGoesOn DEF Execute

\* The client of a poll is gone.
LEMMA ClientGone ==
  ASSUME StatusInv, row \in [Tokens -> Nat], NEW t \in Tokens,
         UNCHANGED <<mgmtVars, now, status, told, unsent, overlap, check>>,
         poll' = [h \in Polls |-> IF poll[h].t = t THEN [poll[h] EXCEPT !.client = FALSE] ELSE poll[h]]
  PROVE  StatusInv'
<1>1. ASSUME NEW h \in Polls
      PROVE  /\ poll'[h] \in PollRecords
             /\ poll'[h].pc = "decide" =>
                  poll[h].pc = "decide" /\ poll'[h].t = poll[h].t /\ poll'[h].read = poll[h].read
  <2>1. poll[h] \in PollRecords
    BY DEF StatusInv, StatusTypes
  <2>2. CASE poll'[h] = poll[h]
    BY <2>1, <2>2
  <2>3. CASE poll'[h] = [poll[h] EXCEPT !.client = FALSE]
    BY <2>1, <2>3 DEF PollRecords
  <2> QED
    BY <2>2, <2>3
<1>2. poll' = [h \in Polls |-> poll'[h]]
  OBVIOUS
<1> QED
  BY <1>1, <1>2, PollGoesOn

LEMMA PollCommitStatus ==
  ASSUME StatusInv, row \in [Tokens -> Nat], NEW h \in Polls, PollCommit(h)
  PROVE  StatusInv'
<1> DEFINE t == poll[h].t
           read == poll[h].read
<1>1. poll[h] \in PollRecords /\ read \in Reads /\ t \in Tokens /\ poll[h].pc = "decide"
      /\ ReadIn(read, now, row[t], probe[t], status[t], Noticed(t))
  BY DEF PollCommit, StatusInv, StatusTypes, PollRecords, PollReads
<1>2. UNCHANGED <<mgmtVars, now, told, unsent, overlap, check>> /\ UNCHANGED <<row, probe>>
  BY DEF PollCommit, mgmtVars, mamVars
<1>3. /\ \A g \in Polls \ {h} : poll'[g] = poll[g]
      /\ poll'[h].pc # "decide" /\ poll' \in [Polls -> PollRecords]
  <2>1. \A pc \in {"committed", "answered"} :
          [poll[h] EXCEPT !.pc = pc, !.read = NoRead] \in PollRecords
          /\ [poll[h] EXCEPT !.pc = pc, !.read = NoRead].pc = pc
    BY <1>1, NoReadIs DEF PollRecords
  <2>2. PICK pc \in {"committed", "answered"} : poll' = [poll EXCEPT ![h].pc = pc, ![h].read = NoRead]
    BY DEF PollCommit
  <2>3. poll' = [poll EXCEPT ![h] = [poll[h] EXCEPT !.pc = pc, !.read = NoRead]]
        /\ poll \in [Polls -> PollRecords]
    BY <2>2 DEF StatusInv, StatusTypes
  <2> QED
    BY <2>1, <2>3
<1>4. CASE UNCHANGED status
  <2>1. now' \in 0..MaxTime /\ now <= now'
    BY <1>2, TimeAssumption DEF StatusInv, StatusTypes
  <2> QED
    BY <1>2, <1>3, <1>4, <2>1, RowsKept
<1>5. CASE /\ row[t] = read.row /\ probe[t] # None
           /\ status' = [status EXCEPT ![t] = Polled(status[t], read)]
  <2> DEFINE new == Polled(status[t], read)
  <2>1. status \in [Tokens -> Seq(Statuses)] /\ status[t] \in Seq(Statuses)
    BY <1>1 DEF StatusInv, StatusTypes
  <2>2. read.active \subseteq DOMAIN status[t] /\ \A i \in read.active : status[t][i].kind = read.status[i].kind
    BY <1>1, <1>5 DEF ReadIn
  <2>3. /\ new \in Seq(Statuses) /\ Len(status[t]) <= Len(new)
        /\ \A i \in DOMAIN status[t] :
             /\ Later(status[t][i], new[i])
             /\ i \notin read.active => new[i] = status[t][i]
             /\ i \in read.active /\ new[i].active => read.status[i].kind = "online"
        /\ \A i \in DOMAIN new \ DOMAIN status[t] : new[i].kind = "online"
    BY <1>1, <2>1, <2>2, PolledRows
  <2>4. status'[t] = new /\ \A u \in Tokens \ {t} : status'[u] = status[u]
    BY <1>1, <1>5, <2>1
  <2>5. status' \in [Tokens -> Seq(Statuses)]
    BY <1>5, <2>1, <2>3
  <2>6. ~overlap[t] => Tiles(new, read.now)
    <3>1. ~overlap[t] => Untouched(read, row[t], status[t])
      BY <1>1 DEF StatusInv, OneAtATime, Deciding
    <3> QED
      BY <1>1, <1>5, <2>1, <3>1, PolledTiles DEF Untouched
  <2>7. read.now \in Nat /\ now \in Nat /\ read.now <= now
    BY <1>1, TimeAssumption DEF ReadIn, Reads, StatusInv, StatusTypes
  <2>8. Grown(status[t], new)
    <3>1. \A i \in DOMAIN status[t] : i \in DOMAIN new
      BY <2>1, <2>3
    <3> QED
      BY <2>3, <3>1 DEF Grown
  <2>9. Outages(new, Noticed(t))
    <3> SUFFICES ASSUME NEW i \in DOMAIN new, new[i].active, new[i].kind = "offline",
                        new[i].end - new[i].begin >= OfflineFor
                 PROVE  i \in Noticed(t)
      BY DEF Outages
    <3>1. i \in DOMAIN status[t]
      BY <2>3
    <3>2. i \notin read.active
      BY <2>2, <2>3, <3>1 DEF Later
    <3>3. new[i] = status[t][i]
      BY <2>3, <3>1, <3>2
    <3>4. Outages(status[t], Noticed(t))
      BY <1>1, OutagesIs DEF StatusInv
    <3> QED
      BY <3>1, <3>3, <3>4 DEF Outages
  <2> HIDE DEF new, t, read
  <2>10. StatusTypes'
    BY <1>2, <1>3, <2>5 DEF StatusInv, StatusTypes
  <2>11. NoProbeNoStatus'
    BY <1>1, <1>2, <1>5, <2>4, NoticedSame DEF StatusInv, NoProbeNoStatus
  <2>12. OutageReported'
    <3>1. \A u \in Tokens : Outages(status'[u], Noticed(u)')
      BY <1>2, <2>4, <2>9, OutagesIs, NoticedSame DEF StatusInv
    <3>2. \A u \in Tokens : DOMAIN status'[u] = 1..Len(status'[u])
      BY <2>10 DEF StatusTypes
    <3>3. OutageReported' <=> \A u \in Tokens : Outages(status'[u], Noticed(u)')
      BY <3>2 DEF OutageReported, Outages, ActiveRows, Noticed
    <3> QED
      BY <3>1, <3>3
  <2>13. \A u \in Tokens : Grown(status[u], status'[u]) /\ Noticed(u) \subseteq Noticed(u)'
    BY <1>2, <2>4, <2>8, Unchanged, NoticedSame
  <2>14. \A u \in Tokens : ~overlap[u] => Tiles(status'[u], now')
    <3>1. ~overlap[t] => Tiles(new, now)
      BY <2>3, <2>6, <2>7, TilesLater
    <3> QED
      BY <1>2, <2>4, <3>1 DEF StatusInv, OneAtATime
  <2>15. ~overlap[t] => check'.pc # "decide" /\ \A g \in Polls : ~(poll'[g].pc = "decide" /\ poll'[g].t = t)
    <3>1. ~overlap[t] => check.pc # "decide" /\ \A g \in Polls : Deciding(g, t) => g = h
      BY <1>1 DEF StatusInv, OneAtATime, Deciding, t
    <3> QED
      BY <1>2, <1>3, <3>1 DEF Deciding
  <2>16. row' \in [Tokens -> Nat] /\ now <= now' /\ UNCHANGED <<row, probe, overlap, check>>
    BY <1>2, <2>7
  <2>17. \A g \in Polls : poll'[g].pc = "decide" =>
           poll[g].pc = "decide" /\ poll'[g].t = poll[g].t /\ poll'[g].read = poll[g].read
    BY <1>3
  <2>18. \A u \in Tokens : ~overlap[u] =>
           /\ Tiles(status'[u], now')
           /\ \/ status'[u] = status[u]
              \/ check'.pc # "decide" /\ \A g \in Polls : ~(poll'[g].pc = "decide" /\ poll'[g].t = u)
    BY <2>4, <2>14, <2>15
  <2> QED
    BY <2>10, <2>11, <2>12, <2>13, <2>16, <2>17, <2>18, StatusStep
<1> QED
  BY <1>4, <1>5 DEF PollCommit

\* The outages of a probe that a check has found long enough.
LEMMA CheckedOutages ==
  ASSUME NEW rows \in Seq(Statuses), NEW read \in Reads, NEW time, NEW n, NEW name, NEW ids, NEW more,
         ReadIn(read, time, n, name, rows, ids), read.row = n, Outages(rows, ids),
         more = ids \cup {i \in read.active : Reported(read.status[i], read.now)},
         NEW new, new = Checked(rows, read)
  PROVE  Outages(new, more)
<1>1. read.active \subseteq DOMAIN rows /\ read.active \subseteq DOMAIN read.status
  BY DEF ReadIn
<1>2. /\ new \in Seq(Statuses)
      /\ \A i \in DOMAIN rows :
           /\ Later(rows[i], new[i])
           /\ \/ new[i].end = rows[i].end
              \/ i \in read.active /\ read.status[i].kind = "offline" /\ new[i].end = read.now
      /\ \A i \in DOMAIN new \ DOMAIN rows : new[i].begin = new[i].end
  BY <1>1, CheckedRows
<1> SUFFICES ASSUME NEW i \in DOMAIN new, new[i].active, new[i].kind = "offline",
                    new[i].end - new[i].begin >= OfflineFor
             PROVE  i \in more
  BY DEF Outages
<1>3. new[i].begin \in Nat /\ new[i].end \in Nat /\ OfflineFor \in Nat \ {0}
  BY <1>2, RowIs, TimeAssumption
<1>4. i \in DOMAIN rows
  <2>1. new[i].begin # new[i].end
    BY <1>3
  <2> QED
    BY <1>2, <2>1
<1>5. rows[i].active /\ rows[i].kind = "offline" /\ rows[i].begin = new[i].begin
  BY <1>2, <1>4 DEF Later
<1>6. CASE new[i].end = rows[i].end
  BY <1>4, <1>5, <1>6 DEF Outages
<1>7. CASE i \in read.active /\ read.status[i].kind = "offline" /\ new[i].end = read.now
  <2>1. read.status[i].begin = new[i].begin /\ read.status[i].end \in Nat
    <3>1. i \in DOMAIN read.status /\ read.status \in Seq(Statuses)
      BY <1>1, <1>7 DEF Reads
    <3> QED
      BY <1>5, <1>7, <3>1, RowIs DEF ReadIn
  <2>2. CASE read.status[i].end - read.status[i].begin >= OfflineFor
    BY <1>7, <2>2 DEF ReadIn
  <2>3. CASE ~(read.status[i].end - read.status[i].begin >= OfflineFor)
    <3>1. Reported(read.status[i], read.now)
      BY <1>3, <1>7, <2>1, <2>3 DEF Reported
    <3> QED
      BY <1>7, <3>1
  <2> QED
    BY <2>2, <2>3
<1> QED
  BY <1>2, <1>4, <1>6, <1>7

LEMMA CheckCommitStatus ==
  ASSUME StatusInv, row \in [Tokens -> Nat], CheckCommit
  PROVE  StatusInv'
<1>1. /\ check.pc = "decide" /\ check' = Sleeping
      /\ UNCHANGED <<now, overlap, poll>> /\ UNCHANGED <<row, probe>>
  BY DEF CheckCommit, mgmtVars, mamVars
<1>2. check'.pc = "sleep" /\ \A t \in Tokens : check'.read[t] \in Reads
  BY <1>1, NoReadIs DEF Sleeping
<1>3. now \in 0..MaxTime /\ now \in Nat /\ now <= now' /\ row' \in [Tokens -> Nat]
  BY <1>1, TimeAssumption DEF StatusInv, StatusTypes
\* What happens to one probe.
<1>4. \A t \in Tokens :
        /\ status'[t] \in Seq(Statuses) /\ Grown(status[t], status'[t]) /\ Noticed(t) \subseteq Noticed(t)'
        /\ probe[t] = None => status'[t] = status[t] /\ Noticed(t)' = Noticed(t)
        /\ Outages(status'[t], Noticed(t)')
        /\ ~overlap[t] => Tiles(status'[t], now)
  <2> SUFFICES ASSUME NEW t \in Tokens
               PROVE  /\ status'[t] \in Seq(Statuses) /\ Grown(status[t], status'[t]) /\ Noticed(t) \subseteq Noticed(t)'
                      /\ probe[t] = None => status'[t] = status[t] /\ Noticed(t)' = Noticed(t)
                      /\ Outages(status'[t], Noticed(t)')
                      /\ ~overlap[t] => Tiles(status'[t], now)
    OBVIOUS
  <2> DEFINE read == check.read[t]
  <2>1. /\ status[t] \in Seq(Statuses) /\ read \in Reads /\ Outages(status[t], Noticed(t))
        /\ ReadIn(read, now, row[t], probe[t], status[t], Noticed(t))
        /\ ~overlap[t] => Tiles(status[t], now) /\ Untouched(read, row[t], status[t])
    BY <1>1, OutagesIs DEF StatusInv, StatusTypes, CheckReads, OneAtATime
  <2>2. CASE /\ status'[t] = status[t] /\ Noticed(t) \subseteq Noticed(t)'
             /\ probe[t] = None => Noticed(t)' = Noticed(t)
    <3>1. Outages(status[t], Noticed(t)')
      BY <2>1, <2>2 DEF Outages
    <3> QED
      BY <2>1, <2>2, <3>1, Unchanged
  <2>3. CASE /\ read.active # {} /\ read.row = row[t] /\ status'[t] = Checked(status[t], read)
             /\ Noticed(t)' = Noticed(t) \cup {i \in read.active : Reported(read.status[i], read.now)}
    <3>1. probe[t] # None /\ read.active \subseteq DOMAIN status[t] /\ read.active \subseteq DOMAIN read.status
      BY <2>1, <2>3 DEF ReadIn
    <3>2. /\ status'[t] \in Seq(Statuses) /\ Len(status[t]) <= Len(status'[t])
          /\ \A i \in DOMAIN status[t] : Later(status[t][i], status'[t][i])
      BY <2>1, <2>3, <3>1, CheckedRows
    <3>3. Grown(status[t], status'[t])
      <4>1. \A i \in DOMAIN status[t] : i \in DOMAIN status'[t]
        BY <2>1, <3>2
      <4> QED
        BY <3>2, <4>1 DEF Grown
    <3>4. Outages(status'[t], Noticed(t)')
      BY <2>1, <2>3, CheckedOutages
    <3>5. ~overlap[t] => Tiles(status'[t], now)
      <4>1. read.now \in Nat /\ read.now <= now
        BY <2>1, TimeAssumption DEF ReadIn, Reads
      <4>2. ~overlap[t] => Tiles(status'[t], read.now)
        BY <2>1, <2>3, CheckedTiles DEF Untouched
      <4> QED
        BY <1>3, <3>2, <4>1, <4>2, TilesLater
    <3> QED
      BY <2>3, <3>1, <3>2, <3>3, <3>4, <3>5
  <2>4. CASE /\ read.active = {} /\ status'[t] = Checked(status[t], read)
             /\ Noticed(t)' = Noticed(t) \cup {i \in read.active : Reported(read.status[i], read.now)}
    BY <2>1, <2>2, <2>4, CheckedNone
  <2> DEFINE due == {i \in read.active : Reported(read.status[i], read.now)}
  <2>5. PICK sent : /\ sent \subseteq (IF read.row = row[t] THEN due ELSE {}) /\ told'[t] = told[t] \cup sent
                    /\ \/ status'[t] = status[t] /\ unsent'[t] = unsent[t]
                       \/ /\ read.active = {} \/ read.row = row[t]
                          /\ status'[t] = Checked(status[t], read)
                          /\ unsent'[t] = unsent[t] \cup (due \ sent)
    <3> DEFINE dueOf(u) == {i \in check.read[u].active : Reported(check.read[u].status[i], check.read[u].now)}
    <3>1. PICK sent \in [Tokens -> SUBSET UNION {dueOf(u) : u \in Tokens}] :
            /\ \A u \in Tokens : sent[u] \subseteq IF check.read[u].row = row[u] THEN dueOf(u) ELSE {}
            /\ told' = [u \in Tokens |-> told[u] \cup sent[u]]
            /\ IF \A u \in Tokens : check.read[u].active = {} \/ check.read[u].row = row[u]
               THEN /\ status' = [u \in Tokens |-> Checked(status[u], check.read[u])]
                    /\ unsent' = [u \in Tokens |-> unsent[u] \cup (dueOf(u) \ sent[u])]
               ELSE UNCHANGED <<status, unsent>>
      BY DEF CheckCommit
    <3>2. dueOf(t) = due
      OBVIOUS
    <3> HIDE DEF dueOf, due
    <3>3. /\ sent[t] \subseteq (IF read.row = row[t] THEN due ELSE {})
          /\ told'[t] = told[t] \cup sent[t]
      BY <3>1, <3>2
    <3>4. \/ status'[t] = status[t] /\ unsent'[t] = unsent[t]
          \/ /\ read.active = {} \/ read.row = row[t]
             /\ status'[t] = Checked(status[t], read)
             /\ unsent'[t] = unsent[t] \cup (due \ sent[t])
      BY <3>1, <3>2
    <3> QED
      BY <3>3, <3>4
  <2>6. CASE status'[t] = status[t] /\ unsent'[t] = unsent[t]
    <3>1. Noticed(t) \subseteq Noticed(t)'
      BY <2>5, <2>6 DEF Noticed
    <3>2. ASSUME probe[t] = None PROVE Noticed(t)' = Noticed(t)
      <4>1. read.row = row[t] => due = {}
        BY <2>1, <3>2 DEF ReadIn
      <4>2. sent = {}
        BY <2>5, <4>1
      <4> QED
        BY <2>5, <2>6, <4>2 DEF Noticed
    <3> QED
      BY <2>2, <2>6, <3>1, <3>2
  <2>7. CASE /\ read.active = {} \/ read.row = row[t]
             /\ status'[t] = Checked(status[t], read)
             /\ unsent'[t] = unsent[t] \cup (due \ sent)
    <3>1. sent \subseteq due
      BY <2>5
    <3>2. Noticed(t)' = Noticed(t) \cup due
      <4> HIDE DEF due
      <4> QED
        BY <2>5, <2>7, <3>1 DEF Noticed
    <3>3. read.active = {} \/ (read.active # {} /\ read.row = row[t])
      BY <2>7
    <3> QED
      BY <2>3, <2>4, <2>7, <3>2, <3>3
  <2> HIDE DEF read, due
  <2> QED
    BY <2>5, <2>6, <2>7
<1>5. StatusTypes'
  <2>1. status' \in [Tokens -> Seq(Statuses)]
    <3>1. status' = [t \in Tokens |-> status'[t]]
      BY DEF CheckCommit, StatusInv, StatusTypes
    <3> QED
      BY <1>4, <3>1
  <2> QED
    BY <1>1, <1>2, <1>3, <2>1 DEF StatusInv, StatusTypes
<1>6. OutageReported'
  <2>1. \A u \in Tokens : DOMAIN status'[u] = 1..Len(status'[u])
    BY <1>5 DEF StatusTypes
  <2>2. OutageReported' <=> \A u \in Tokens : Outages(status'[u], Noticed(u)')
    BY <2>1 DEF OutageReported, Outages, ActiveRows, Noticed
  <2> QED
    BY <1>4, <2>2
<1>7. NoProbeNoStatus'
  BY <1>1, <1>4 DEF StatusInv, NoProbeNoStatus
<1>8. \A t \in Tokens : ~overlap[t] =>
        /\ Tiles(status'[t], now')
        /\ check'.pc # "decide" /\ \A h \in Polls : ~(poll'[h].pc = "decide" /\ poll'[h].t = t)
  BY <1>1, <1>2, <1>4 DEF StatusInv, OneAtATime, Deciding
<1> QED
  BY <1>1, <1>2, <1>3, <1>4, <1>5, <1>6, <1>7, <1>8, StatusStep

\* What a transaction reads is what there is.
LEMMA ReadNow ==
  ASSUME StatusInv, row \in [Tokens -> 0..MaxRows], NEW t \in Tokens, NEW one \in SUBSET ActiveRows(t),
         NEW r, r = Read(t, one)
  PROVE  /\ r \in Reads /\ ReadIn(r, now, row[t], probe[t], status[t], Noticed(t))
         /\ ~overlap[t] /\ (one = {} => ActiveRows(t) = {}) => Untouched(r, row[t], status[t])
<1>1. status[t] \in Seq(Statuses) /\ DOMAIN status[t] = 1..Len(status[t]) /\ now \in 0..MaxTime /\ Len(status[t]) \in Nat
  BY DEF StatusInv, StatusTypes
<1>2. one \subseteq DOMAIN status[t] /\ \A i \in one : status[t][i].active
  BY <1>1 DEF ActiveRows
<1>3. r.now = now /\ r.row = row[t] /\ r.active = one /\ r.status = status[t]
  BY DEF Read
<1>4. r \in Reads
  BY <1>1, <1>2 DEF Read, Reads
<1>5. now <= now /\ row[t] <= row[t]
  BY <1>1, TimeAssumption, TokenAssumption
<1>6. one # {} => probe[t] # None
  BY <1>1, <1>2 DEF StatusInv, NoProbeNoStatus
<1>7. Outages(status[t], Noticed(t))
  BY OutagesIs DEF StatusInv
<1>8. ReadIn(r, now, row[t], probe[t], status[t], Noticed(t))
  BY <1>2, <1>3, <1>5, <1>6, <1>7 DEF ReadIn, Outages
<1>9. ASSUME ~overlap[t], one = {} => ActiveRows(t) = {} PROVE Untouched(r, row[t], status[t])
  <2>1. Tiles(status[t], now)
    BY <1>9 DEF StatusInv, OneAtATime
  <2>2. one = LastRow(status[t])
    <3>1. CASE Len(status[t]) = 0
      BY <1>1, <1>2, <3>1 DEF LastRow
    <3>2. CASE Len(status[t]) # 0
      <4>1. Len(status[t]) \in DOMAIN status[t] /\ status[t] # <<>>
        BY <1>1, <3>2
      <4>2. Len(status[t]) \in ActiveRows(t) /\ \A i \in ActiveRows(t) : i = Len(status[t])
        BY <1>1, <2>1, <4>1 DEF ActiveRows, Tiles
      <4> QED
        BY <1>9, <4>1, <4>2 DEF LastRow
    <3> QED
      BY <3>1, <3>2
  <2> QED
    BY <1>3, <2>1, <2>2 DEF Untouched
<1> QED
  BY <1>4, <1>8, <1>9

LEMMA PollReadStatus ==
  ASSUME StatusInv, row \in [Tokens -> 0..MaxRows], NEW h \in Polls, NEW t \in Tokens, PollRead(h, t),
         UNCHANGED <<mgmtVars, now, status, told, unsent, check>>
  PROVE  StatusInv'
<1>1. PICK one \in IF ActiveRows(t) = {} THEN {{}} ELSE {{i} : i \in ActiveRows(t)} :
        poll' = [poll EXCEPT ![h] = [NoPoll EXCEPT !.pc = "decide", !.t = t, !.read = Read(t, one), !.client = TRUE]]
  BY DEF PollRead
<1>2. one \in SUBSET ActiveRows(t) /\ (one = {} => ActiveRows(t) = {})
  BY <1>1
<1>3. PICK r : r = Read(t, one)
  OBVIOUS
<1>4. /\ r \in Reads /\ ReadIn(r, now, row[t], probe[t], status[t], Noticed(t))
      /\ ~overlap[t] => Untouched(r, row[t], status[t])
  BY <1>2, <1>3, ReadNow
<1>5. /\ poll'[h].pc = "decide" /\ poll'[h].t = t /\ poll'[h].read = r /\ poll'[h] \in PollRecords
      /\ \A g \in Polls \ {h} : poll'[g] = poll[g]
      /\ poll' = [g \in Polls |-> poll'[g]]
  <2> DEFINE p == [NoPoll EXCEPT !.pc = "decide", !.t = t, !.read = r, !.client = TRUE]
  <2>1. r \in Reads /\ NoPoll \in PollRecords
    BY <1>4, NoReadIs DEF NoPoll, PollRecords
  <2>2. p \in PollRecords /\ p.pc = "decide" /\ p.t = t /\ p.read = r
    BY <2>1 DEF PollRecords
  <2>3. poll' = [poll EXCEPT ![h] = p]
    BY <1>1, <1>3
  <2> HIDE DEF p
  <2> QED
    BY <2>2, <2>3 DEF StatusInv, StatusTypes
<1>6. UNCHANGED <<now, status, told, unsent, check, row, probe>>
  BY DEF mgmtVars, mamVars
<1>7. poll[h].pc = "idle"
  BY DEF PollRead, NoPoll
<1>8. /\ \A u \in Tokens \ {t} : overlap'[u] = overlap[u]
      /\ ~overlap'[t] => ~overlap[t] /\ ~Open(t)
      /\ overlap' \in [Tokens -> BOOLEAN]
  <2>1. overlap[t] \in BOOLEAN /\ overlap \in [Tokens -> BOOLEAN]
    BY DEF StatusInv, StatusTypes
  <2>2. Open(t) \in BOOLEAN
    BY DEF Open
  <2> QED
    BY <2>1, <2>2 DEF PollRead
<1>9. StatusTypes'
  <2>1. poll' \in [Polls -> PollRecords]
    BY <1>5 DEF StatusInv, StatusTypes
  <2> QED
    BY <1>6, <1>8, <2>1 DEF StatusInv, StatusTypes
<1>10. NoProbeNoStatus' /\ OutageReported' /\ CheckReads'
  BY <1>6, NoticedSame DEF StatusInv, NoProbeNoStatus, OutageReported, ActiveRows, CheckReads
<1>11. PollReads'
  BY <1>4, <1>5, <1>6, NoticedSame DEF StatusInv, PollReads
<1>12. OneAtATime'
  <2> SUFFICES ASSUME NEW u \in Tokens, ~overlap'[u]
               PROVE  /\ Tiles(status[u], now)
                      /\ \A a \in Polls : poll'[a].pc = "decide" /\ poll'[a].t = u =>
                           /\ check.pc # "decide"
                           /\ \A g \in Polls : poll'[g].pc = "decide" /\ poll'[g].t = u => g = a
                           /\ Untouched(poll'[a].read, row[u], status[u])
                      /\ check.pc = "decide" => Untouched(check.read[u], row[u], status[u])
    BY <1>6 DEF OneAtATime, Deciding
  <2>1. CASE u # t
    BY <1>5, <1>8, <2>1 DEF StatusInv, OneAtATime, Deciding
  <2>2. CASE u = t
    <3>1. ~overlap[t] /\ check.pc # "decide" /\ \A g \in Polls : ~(poll[g].pc = "decide" /\ poll[g].t = t)
      BY <1>8, <2>2 DEF Open
    <3> QED
      BY <1>4, <1>5, <2>2, <3>1 DEF StatusInv, OneAtATime
  <2> QED
    BY <2>1, <2>2
<1> QED
  BY <1>9, <1>10, <1>11, <1>12 DEF StatusInv

LEMMA CheckReadStatus ==
  ASSUME StatusInv, row \in [Tokens -> 0..MaxRows], CheckRead
  PROVE  StatusInv'
<1>1. UNCHANGED <<now, status, told, unsent, poll, row, probe>>
  BY DEF CheckRead, mgmtVars, mamVars
<1>2. check'.pc = "decide" /\ \A t \in Tokens : check'.read[t] = Read(t, ActiveRows(t))
  BY DEF CheckRead
<1>3. \A t \in Tokens : /\ check'.read[t] \in Reads
                        /\ ReadIn(check'.read[t], now, row[t], probe[t], status[t], Noticed(t))
                        /\ ~overlap[t] => Untouched(check'.read[t], row[t], status[t])
  BY <1>2, ReadNow
<1>4. overlap' \in [Tokens -> BOOLEAN] /\ \A t \in Tokens : ~overlap'[t] => ~overlap[t] /\ ~Open(t)
  <2>1. \A t \in Tokens : overlap[t] \in BOOLEAN /\ Open(t) \in BOOLEAN
    BY DEF StatusInv, StatusTypes, Open
  <2> QED
    BY <2>1 DEF CheckRead
<1>5. StatusTypes'
  BY <1>1, <1>2, <1>3, <1>4 DEF StatusInv, StatusTypes
<1>6. NoProbeNoStatus' /\ OutageReported' /\ PollReads'
  BY <1>1, NoticedSame DEF StatusInv, NoProbeNoStatus, OutageReported, ActiveRows, PollReads
<1>7. CheckReads'
  BY <1>1, <1>3, NoticedSame DEF CheckReads
<1>8. OneAtATime'
  BY <1>1, <1>3, <1>4 DEF StatusInv, OneAtATime, Deciding, Open
<1> QED
  BY <1>5, <1>6, <1>7, <1>8 DEF StatusInv

-----------------------------------------------------------------------------
(***************************************************************************)
(* The management server as a whole                                        *)
(***************************************************************************)

\* A probe goes with its token's row, and only with it.
LEMMA ProbeRows ==
  ASSUME IInv, [ManagementNext]_<<mgmtVars, authVars>>
  PROVE  /\ row \in [Tokens -> 0..MaxRows] /\ row' \in [Tokens -> 0..MaxRows]
         /\ \A t \in Tokens : \/ row'[t] = row[t] /\ (probe[t] # None => probe'[t] # None)
                              \/ row'[t] > row[t] /\ probe'[t] = None
<1>1. row \in [Tokens -> 0..MaxRows] /\ probe \in [Tokens -> Names \cup {None}] /\ row' \in [Tokens -> 0..MaxRows]
  BY NextIInv DEF IInv, VpnInv, MamInv, MamTypeOK
<1> SUFFICES \A t \in Tokens : \/ row'[t] = row[t] /\ (probe[t] # None => probe'[t] # None)
                               \/ row'[t] > row[t] /\ probe'[t] = None
  BY <1>1
<1>2. CASE UNCHANGED <<row, probe>>
  BY <1>2
<1>3. ASSUME NEW t \in Tokens, NEW scope, NEW ip \in Ips, NEW name \in Names, TokenActivate(t, scope, ip, name)
      PROVE  \A u \in Tokens : row'[u] = row[u] /\ (probe[u] # None => probe'[u] # None)
  BY <1>1, <1>3, TokenAssumption DEF TokenActivate, AfterActivationProbe
<1>4. ASSUME NEW r \in Requests, DeleteCommit(r)
      PROVE  \A u \in Tokens : \/ row'[u] = row[u] /\ (probe[u] # None => probe'[u] # None)
                               \/ row'[u] > row[u] /\ probe'[u] = None
  <2>1. CASE DeleteRows(req[r].t)
    <3>1. \A u \in Tokens : IF u = req[r].t THEN row'[u] = row[u] + 1 /\ probe'[u] = None
                            ELSE row'[u] = row[u] /\ probe'[u] = probe[u]
      BY <1>1, <2>1 DEF DeleteRows
    <3>2. \A u \in Tokens : row[u] \in Nat
      BY <1>1, TokenAssumption
    <3> QED
      BY <3>1, <3>2
  <2> QED
    BY <1>4, <2>1 DEF DeleteCommit
<1>5. ASSUME VpnNext(Requests, Tokens, Keys, Scopes)
      PROVE  \/ UNCHANGED <<row, probe>>
             \/ \E r \in Requests : DeleteCommit(r)
             \/ \E t \in Tokens, scope \in Scopes, ip \in Ips, name \in Names : TokenActivate(t, scope, ip, name)
  BY <1>5 DEF VpnNext, TokenRegister, RegisterLog, RegisterRefused, RegisterAdd, RegisterCommit, Revoke,
              TokenDeactivate, DeleteBegin, mamVars
<1>6. ASSUME TunnelAuthNext(Requests, Tokens)
      PROVE  \/ UNCHANGED <<row, probe>>
             \/ \E r \in Requests : DeleteCommit(r)
             \/ \E t \in Tokens, ip \in Ips, name \in Names : TokenActivate(t, {"Probe"}, ip, name)
  BY <1>6 DEF TunnelAuthNext, TokenDeactivate, DeleteBegin, CreateToken, AddSim, RegisterProvider, RegisterProbe,
              GenerateSession, Deregister, DeregisterSims, RegisterSims, AcceptProbe, AcceptProvider,
              RequestSim, AskIdentity, Disconnect, mgmtVars, mamVars
<1> QED
  BY <1>2, <1>3, <1>4, <1>5, <1>6 DEF ManagementNext, mgmtVars, mamVars

\* Handlers of tokens and sessions, with the statuses of a probe they delete.
LEMMA ManagementStatus ==
  ASSUME IInv, StatusInv, [ManagementNext]_<<mgmtVars, authVars>>,
         DeleteStatuses \/ (UNCHANGED <<now, status, told, unsent, overlap, poll, check>> /\
                            \A t \in Tokens : probe[t] # None => probe'[t] # None)
  PROVE  StatusInv'
<1>1. /\ row \in [Tokens -> Nat] /\ row' \in [Tokens -> Nat]
      /\ \A t \in Tokens : \/ row'[t] = row[t] /\ (probe[t] # None => probe'[t] # None)
                           \/ row'[t] > row[t] /\ probe'[t] = None
  <2>1. \A n \in 0..MaxRows : n \in Nat
    BY TokenAssumption
  <2> QED
    BY <2>1, ProbeRows
<1>2. UNCHANGED <<now, overlap, poll, check>>
  BY DEF DeleteStatuses
<1>3. \A t \in Tokens : IF probe'[t] = None THEN status'[t] = <<>> /\ Noticed(t)' = {}
                        ELSE status'[t] = status[t] /\ Noticed(t)' = Noticed(t)
  BY DEF DeleteStatuses, StatusInv, NoProbeNoStatus, Noticed
<1>4. status' \in [Tokens -> Seq(Statuses)]
  <2>1. status' = [t \in Tokens |-> status'[t]] /\ \A t \in Tokens : status[t] \in Seq(Statuses)
    BY DEF DeleteStatuses, StatusInv, StatusTypes
  <2>2. \A t \in Tokens : status'[t] \in Seq(Statuses)
    BY <1>3, <2>1, EmptySeq
  <2> QED
    BY ONLY <2>1, <2>2
<1>5. StatusTypes' /\ NoProbeNoStatus'
  BY <1>2, <1>3, <1>4 DEF StatusInv, StatusTypes, NoProbeNoStatus
<1>6. OutageReported'
  BY <1>3 DEF StatusInv, OutageReported, ActiveRows, Noticed
<1>7. \A t \in Tokens : row'[t] = row[t] => Grown(status[t], status'[t]) /\ Noticed(t) \subseteq Noticed(t)'
  BY <1>1, <1>3, Unchanged DEF StatusInv, NoProbeNoStatus
<1>8. \A t \in Tokens : ~overlap[t] => /\ Tiles(status'[t], now')
                                       /\ row'[t] > row[t] \/ status'[t] = status[t]
  <2>1. \A time : Tiles(<<>>, time)
    BY DEF Tiles
  <2>2. \A t \in Tokens : ~(row'[t] > row[t]) => status'[t] = status[t]
    BY <1>1, <1>3 DEF StatusInv, NoProbeNoStatus
  <2> QED
    BY <1>2, <1>3, <2>1, <2>2 DEF StatusInv, OneAtATime
<1>9. now <= now'
  BY <1>2, TimeAssumption DEF StatusInv, StatusTypes
<1> QED
  BY <1>1, <1>2, <1>5, <1>6, <1>7, <1>8, <1>9, StatusStep

\* The polls, the check and the probe daemons change the tables of tokens by
\* the handlers of tokens only.
LEMMA ServerStep ==
  ASSUME [ServerNext]_serverVars
  PROVE  [ManagementNext]_<<mgmtVars, authVars>>
<1>1. CASE ManagementNext \/ UNCHANGED serverVars
  BY <1>1 DEF serverVars
<1>2. CASE UNCHANGED <<mgmtVars, authVars>>
  BY <1>2
<1>3. Both \in Scopes
  BY DEF Both, Scopes
<1>4. ASSUME NEW t \in Tokens, UNCHANGED authVars,
             \/ DaemonRegister(t) \/ DaemonAuthenticated(t) \/ DaemonStartup(t)
             \/ DaemonPoll(t) \/ DaemonException(t) \/ DaemonReboot(t)
             \/ \E c \in Commands : Execute(t, c)
      PROVE  [ManagementNext]_<<mgmtVars, authVars>>
  <2>1. CASE TokenRegister(t, Both)
    BY <1>3, <1>4, <2>1 DEF ManagementNext, VpnNext
  <2>2. CASE UNCHANGED mgmtVars
    BY <1>4, <2>2
  <2> QED
    BY <1>4, <2>1, <2>2 DEF DaemonRegister, DaemonAuthenticated, DaemonStartup, DaemonPoll, DaemonException,
                            DaemonReboot, Execute
<1>5. ASSUME NEW t \in Tokens, NEW ip \in Ips, NEW name \in Names, Activate(t, ip, name), UNCHANGED authVars
      PROVE  ManagementNext
  BY <1>3, <1>5 DEF Activate, ManagementNext, VpnNext
<1>6. ASSUME NEW r \in Requests, UNCHANGED authVars, DeactivateCommit(r) \/ \E t \in Tokens : Deactivate(r, t)
      PROVE  ManagementNext
  BY <1>6 DEF DeactivateCommit, Deactivate, ManagementNext, VpnNext
<1>7. ASSUME UNCHANGED authVars,
             \/ Tick \/ CheckRead \/ CheckCommit
             \/ \E h \in Polls : PollCommit(h) \/ Subscribe(h) \/ PollTimeout(h) \/ DaemonAnswer(h)
      PROVE  UNCHANGED <<mgmtVars, authVars>>
  BY <1>7 DEF Tick, CheckRead, CheckCommit, PollCommit, Subscribe, PollTimeout, DaemonAnswer
<1> QED
  BY <1>1, <1>2, <1>4, <1>5, <1>6, <1>7 DEF ServerNext, StatusNext

\* A step of the polls, of the check or of the probe daemons.
LEMMA StatusNextInv ==
  ASSUME IInv, StatusInv, StatusNext(Requests, Tokens), UNCHANGED authVars
  PROVE  StatusInv'
<1>1. row \in [Tokens -> 0..MaxRows] /\ row \in [Tokens -> Nat]
  <2>1. row \in [Tokens -> 0..MaxRows] /\ \A n \in 0..MaxRows : n \in Nat
    BY TokenAssumption DEF IInv, VpnInv, MamInv, MamTypeOK
  <2> QED
    BY <2>1
<1>2. [ManagementNext]_<<mgmtVars, authVars>>
  BY ServerStep DEF ServerNext
<1>3. CASE UNCHANGED <<mgmtVars, now, status, told, unsent, overlap, poll, check>>
  <2>1. \A t \in Tokens : probe[t] # None => probe'[t] # None
    BY <1>3 DEF mgmtVars, mamVars
  <2> QED
    BY <1>2, <1>3, <2>1, ManagementStatus
<1>4. ASSUME NEW h \in Polls, PollCommit(h) \/ Subscribe(h) \/ PollTimeout(h) \/ DaemonAnswer(h) PROVE StatusInv'
  <2>1. CASE PollCommit(h)
    BY <1>1, <2>1, PollCommitStatus
  <2>2. CASE Subscribe(h)
    BY <1>1, <2>2, PollMoves DEF Subscribe
  <2>3. CASE PollTimeout(h)
    BY <1>1, <2>3, PollMoves DEF PollTimeout
  <2>4. CASE DaemonAnswer(h)
    <3>1. NoPoll \in PollRecords /\ NoPoll.pc = "idle"
      BY NoReadIs DEF NoPoll, PollRecords
    <3> QED
      BY <1>1, <2>4, <3>1, OnePoll DEF DaemonAnswer
  <2> QED
    BY <1>4, <2>1, <2>2, <2>3, <2>4
<1>5. ASSUME NEW t \in Tokens,
             \/ DaemonAuthenticated(t) \/ DaemonStartup(t)
             \/ DaemonPoll(t) \/ DaemonException(t) \/ DaemonReboot(t)
             \/ \E c \in Commands : Execute(t, c)
      PROVE  StatusInv'
  <2>1. CASE DaemonAuthenticated(t) \/ DaemonStartup(t)
    BY <1>3, <2>1 DEF DaemonAuthenticated, DaemonStartup
  <2>2. CASE DaemonPoll(t)
    BY <1>1, <1>3, <2>2, PollReadStatus DEF DaemonPoll
  <2>3. CASE DaemonException(t) \/ DaemonReboot(t)
    BY <1>1, <2>3, ClientGone DEF DaemonException, DaemonReboot
  <2>4. CASE \E c \in Commands : Execute(t, c)
    BY <1>1, <2>4, ExecuteStatus
  <2> QED
    BY <1>5, <2>1, <2>2, <2>3, <2>4
<1>6. ASSUME NEW t \in Tokens, DaemonRegister(t) PROVE StatusInv'
  <2>1. probe' = probe /\ UNCHANGED <<now, status, told, unsent, overlap, poll, check>>
    BY <1>6 DEF DaemonRegister, TokenRegister, mgmtVars, mamVars
  <2> QED
    BY <1>2, <2>1, ManagementStatus
<1>7. ASSUME NEW t \in Tokens, NEW ip \in Ips, NEW name \in Names, Activate(t, ip, name) PROVE StatusInv'
  <2>1. UNCHANGED <<row, now, status, told, unsent, overlap, poll, check>>
    BY <1>7 DEF Activate, TokenActivate, statusVars
  <2>2. \A u \in Tokens : probe[u] # None => probe'[u] # None
    <3>1. \A u \in Tokens : ~(row'[u] > row[u])
      BY <1>1, <2>1
    <3> QED
      BY <1>2, <3>1, ProbeRows
  <2> QED
    BY <1>2, <2>1, <2>2, ManagementStatus
<1>8. ASSUME NEW r \in Requests, NEW t \in Tokens, Deactivate(r, t) PROVE StatusInv'
  <2>1. probe' = probe /\ UNCHANGED <<now, status, told, unsent, overlap, poll, check>>
    BY <1>8 DEF Deactivate, TokenDeactivate, DeleteBegin, statusVars
  <2> QED
    BY <1>2, <2>1, ManagementStatus
<1>9. ASSUME NEW r \in Requests, DeactivateCommit(r) PROVE StatusInv'
  BY <1>2, <1>9, ManagementStatus DEF DeactivateCommit
<1> QED
  BY <1>1, <1>4, <1>5, <1>6, <1>7, <1>8, <1>9, TickStatus, CheckReadStatus, CheckCommitStatus DEF StatusNext

\* Whatever the polls, the check of the statuses and the daemons of the probes
\* do, the tokens, configurations and sessions behave as without them: what is
\* proved of the management server's handlers holds in the server as a whole.
THEOREM ServerImplementsManagement == ServerSpec => ManagementSpec
BY ServerStep, PTL DEF ServerSpec, ManagementSpec

\* The inductive invariant of the statuses, beside the one of the tables.
THEOREM ServerInv == ServerSpec => [](IInv /\ StatusInv)
<1>1. WgInit /\ MamInit /\ AuthInit /\ StatusInit => StatusInv
  BY StatusInitInv
<1>2. ASSUME IInv, StatusInv, [ServerNext]_serverVars PROVE StatusInv'
  <2>1. [ManagementNext]_<<mgmtVars, authVars>>
    BY <1>2, ServerStep
  <2>2. CASE ManagementNext /\ DeleteStatuses
    BY <1>2, <2>1, <2>2, ManagementStatus
  <2>3. CASE StatusNext(Requests, Tokens) /\ UNCHANGED authVars
    BY <1>2, <2>3, StatusNextInv
  <2>4. CASE UNCHANGED serverVars
    <3>1. probe' = probe /\ UNCHANGED <<now, status, told, unsent, overlap, poll, check>>
      BY <2>4 DEF serverVars, mgmtVars, mamVars, statusVars
    <3> QED
      BY <1>2, <2>1, <3>1, ManagementStatus
  <2> QED
    BY <1>2, <2>2, <2>3, <2>4 DEF ServerNext
<1>3. ServerSpec => []IInv
  BY ServerImplementsManagement, SpecIInv, PTL
<1> QED
  BY <1>1, <1>2, <1>3, PTL DEF ServerSpec

\* The status intervals of a probe have no gap and no overlap, and the last one
\* is the active one, through polls, checks, deleted and registered probes, as
\* long as no two transactions on them (probe_poll, _check_probe_statuses)
\* were open at once.
THEOREM IntervalsTile == ServerSpec => []StatusesTile
<1>1. StatusInv => StatusesTile
  BY DEF StatusInv, OneAtATime, Tiles, StatusesTile
<1> QED
  BY <1>1, ServerInv, PTL

\* _check_probe_statuses does not skip the half hour: the report of an outage that
\* lasts so long was sent, or was due and given up with its webhook, whatever
\* transactions overlapped and whichever of them failed.
THEOREM OutagesAreReported == ServerSpec => []OutageReported
<1>1. StatusInv => OutageReported
  BY DEF StatusInv
<1> QED
  BY <1>1, ServerInv, PTL
=============================================================================
