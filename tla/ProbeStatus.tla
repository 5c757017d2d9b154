----------------------------- MODULE ProbeStatus ----------------------------
(***************************************************************************)
(* Probes that poll the management server, and the status intervals it     *)
(* keeps of them: the daemon on the probe (mobile-atlas-daemon.py), the    *)
(* long poll with its Redis subscription (probe_routes.py), the check that *)
(* runs every minute, and the commands of an operator (routes.py).         *)
(*                                                                         *)
(* A poll and the check read the statuses, decide, and commit; at READ     *)
(* COMMITTED another transaction may commit in between.  Time passes in    *)
(* units far longer than the millisecond a new interval is given, so that  *)
(* one starts with its end at its beginning.                               *)
(***************************************************************************)
EXTENDS MamTokens, Sequences

CONSTANTS Interval,    \* LONG_POLLING_INTERVAL
          OfflineFor,  \* the half hour after which a probe is reported
          MaxTime,     \* bound: the clock stops here
          Polls,       \* poll handlers that may run at once
          Commands     \* members of ProbeCommand

ASSUME TimeAssumption == /\ Interval \in Nat \ {0} /\ OfflineFor \in Nat \ {0}
                         /\ MaxTime \in Nat /\ "exit" \in Commands

VARIABLES now,
          status,   \* status[t]: rows of probe_status, in the order of insertion
          told,     \* told[t]: rows whose outage was reported to the webhook
          unsent,   \* history: unsent[t], rows whose report was due and went nowhere
          overlap,  \* history: two transactions on t's statuses overlapped
          poll,     \* poll[h]: a poll handler
          check,    \* the periodic check: the rows it has read
          daemon    \* daemon[t]: the daemon of the probe with token t

statusVars == <<now, status, told, unsent, overlap, poll, check, daemon>>

\* What a transaction has read: the clock, the token's row and its status rows.
NoRead == [now |-> 0, row |-> 0, active |-> {}, status |-> <<>>]
NoPoll == [pc |-> "idle", t |-> None, read |-> NoRead, client |-> FALSE, command |-> None]
Sleeping == [pc |-> "sleep", read |-> [t \in Tokens |-> NoRead]]
Statuses == [active : BOOLEAN, kind : {"online", "offline"}, begin : 0..MaxTime, end : 0..MaxTime]

\* The rows whose outage was noticed, whatever became of the report.
Noticed(t) == told[t] \cup unsent[t]

StatusTypeOK ==
    /\ now \in 0..MaxTime
    /\ \A t \in Tokens : status[t] \in Seq(Statuses) /\ Noticed(t) \subseteq 1..Len(status[t])
    /\ overlap \in [Tokens -> BOOLEAN]
    /\ \A h \in Polls : poll[h].pc \in {"idle", "decide", "committed", "subscribed", "answered"}
    /\ check.pc \in {"sleep", "decide"}
    /\ daemon \in [Tokens -> [pc : {"auth", "startup", "poll", "polling"}, registered : BOOLEAN]]

Booting == [pc |-> "auth", registered |-> FALSE]

StatusInit == /\ now = 0
              /\ status = [t \in Tokens |-> <<>>]
              /\ told = [t \in Tokens |-> {}] /\ unsent = [t \in Tokens |-> {}]
              /\ overlap = [t \in Tokens |-> FALSE]
              /\ poll = [h \in Polls |-> NoPoll]
              /\ check = Sleeping
              /\ daemon = [t \in Tokens |-> Booting]

ActiveRows(t) == {i \in 1..Len(status[t]) : status[t][i].active}

\* A transaction on t's statuses is open.
Open(t) == check.pc = "decide" \/ \E h \in Polls : poll[h].pc = "decide" /\ poll[h].t = t

Tick == /\ now < MaxTime
        /\ now' = now + 1
        /\ UNCHANGED <<mgmtVars, status, told, unsent, overlap, poll, check, daemon>>

-----------------------------------------------------------------------------
(* probe_poll.                                                             *)

Read(t, active) == [now |-> now, row |-> row[t], active |-> active, status |-> status[t]]

\* The probe's row and one active status are read, if there is one.
PollRead(h, t) ==
    /\ poll[h] = NoPoll /\ Bearer(t, {"Probe"})
    /\ \E one \in IF ActiveRows(t) = {} THEN {{}} ELSE {{i} : i \in ActiveRows(t)} :
         poll' = [poll EXCEPT ![h] = [NoPoll EXCEPT !.pc = "decide", !.t = t,
                                        !.read = Read(t, one), !.client = TRUE]]
    /\ overlap' = [overlap EXCEPT ![t] = @ \/ Open(t)]

\* Mutant of Polled: an expired status stays active beside the new one.
PolledUnclosed(rows, read) ==
    LET online == [active |-> TRUE, kind |-> "online", begin |-> read.now, end |-> read.now]
        fresh(i) == /\ read.status[i].kind = "online"
                    /\ read.status[i].end + 2 * Interval > read.now
        kept == [i \in DOMAIN rows |->
                   IF i \notin read.active THEN rows[i]
                   ELSE [rows[i] EXCEPT !.end = read.now]]
    IN IF \E i \in read.active : fresh(i) THEN kept ELSE Append(kept, online)

\* The cases of the comment: (2b) the status is prolonged; (2a) it is closed
\* and (1) a new one begins.  Read rows decide; the columns that change are
\* written to rows that another transaction may have changed since.
Polled(rows, read) ==
    LET online == [active |-> TRUE, kind |-> "online", begin |-> read.now, end |-> read.now]
        fresh(i) == /\ read.status[i].kind = "online"
                    /\ read.status[i].end + 2 * Interval > read.now
        kept == [i \in DOMAIN rows |->
                   IF i \notin read.active THEN rows[i]
                   ELSE [rows[i] EXCEPT !.active = @ /\ fresh(i), !.end = read.now]]
    IN IF \E i \in read.active : fresh(i) THEN kept ELSE Append(kept, online)

PollCommit(h) ==
    LET t == poll[h].t IN
    /\ poll[h].pc = "decide"
    /\ IF row[t] = poll[h].read.row /\ probe[t] # None
       THEN /\ status' = [status EXCEPT ![t] = Polled(@, poll[h].read)]
            /\ poll' = [poll EXCEPT ![h].pc = "committed", ![h].read = NoRead]
       ELSE /\ poll' = [poll EXCEPT ![h].pc = "answered", ![h].read = NoRead]
            /\ UNCHANGED status
    /\ UNCHANGED <<mgmtVars, now, told, unsent, overlap, check, daemon>>

Subscribe(h) == /\ poll[h].pc = "committed"
                /\ poll' = [poll EXCEPT ![h].pc = "subscribed"]
                /\ UNCHANGED <<mgmtVars, now, status, told, unsent, overlap, check, daemon>>

\* No message within LONG_POLLING_INTERVAL: the answer is empty.
PollTimeout(h) == /\ poll[h].pc = "subscribed"
                  /\ poll' = [poll EXCEPT ![h].pc = "answered"]
                  /\ UNCHANGED <<mgmtVars, now, status, told, unsent, overlap, check, daemon>>

\* execute_probe: the message reaches the polls that are subscribed, if any.
Execute(t, c) ==
    /\ probe[t] # None
    /\ poll' = [h \in Polls |-> IF poll[h].pc = "subscribed" /\ poll[h].t = t
                                THEN [poll[h] EXCEPT !.pc = "answered", !.command = c]
                                ELSE poll[h]]
    /\ UNCHANGED <<mgmtVars, now, status, told, unsent, overlap, check, daemon>>

-----------------------------------------------------------------------------
(* check_probe_statuses.                                                   *)

CheckRead ==
    /\ check.pc = "sleep"
    /\ check' = [pc |-> "decide", read |-> [t \in Tokens |-> Read(t, ActiveRows(t))]]
    /\ overlap' = [t \in Tokens |-> overlap[t] \/ Open(t)]
    /\ UNCHANGED <<mgmtVars, now, status, told, unsent, poll, daemon>>

Expired(r, time) == r.kind = "online" /\ r.end + 2 * Interval < time

\* Mutant of Checked: only offline statuses are looked at.
CheckedOffline(rows, read) ==
    [i \in DOMAIN rows |-> IF i \in read.active /\ read.status[i].kind = "offline"
                           THEN [rows[i] EXCEPT !.end = read.now] ELSE rows[i]]

\* One pass over a probe's rows, in no particular order: an expired status is
\* closed and an offline one begins where it ended; an offline status is
\* prolonged.
Checked(rows, read) ==
    LET was == read.status
        lost == {i \in read.active : Expired(was[i], read.now)}
        nth == CHOOSE f \in [1..Cardinality(lost) -> lost] : \A m, n \in DOMAIN f : f[m] = f[n] => m = n
        kept == [i \in DOMAIN rows |->
                   CASE i \in lost -> [rows[i] EXCEPT !.active = FALSE]
                     [] i \in read.active /\ was[i].kind = "offline" -> [rows[i] EXCEPT !.end = read.now]
                     [] OTHER -> rows[i]]
    IN kept \o [n \in 1..Cardinality(lost) |->
                  [active |-> TRUE, kind |-> "offline",
                   begin |-> was[nth[n]].end, end |-> was[nth[n]].end]]

\* Mutant of Reported: an outage of exactly half an hour is passed over.
ReportedLater(r, time) == /\ r.kind = "offline"
                          /\ r.end - r.begin < OfflineFor /\ OfflineFor < time - r.begin

\* The outage has just become long enough to be reported.
Reported(r, time) == /\ r.kind = "offline"
                     /\ r.end - r.begin < OfflineFor /\ OfflineFor <= time - r.begin

\* The webhook is called before the commit, which fails as a whole when a row
\* it updates has been deleted.  Without a webhook nothing is sent; a call that
\* raises drops the notices after it, and the check commits all the same.
CheckCommit ==
    LET due(t) == {i \in check.read[t].active :
                     Reported(check.read[t].status[i], check.read[t].now)}
        there(t) == check.read[t].row = row[t]
    IN
    /\ check.pc = "decide"
    /\ \E sent \in [Tokens -> SUBSET UNION {due(t) : t \in Tokens}] :
         /\ \A t \in Tokens : sent[t] \subseteq IF there(t) THEN due(t) ELSE {}
         /\ told' = [t \in Tokens |-> told[t] \cup sent[t]]
         /\ IF \A t \in Tokens : check.read[t].active = {} \/ there(t)
            THEN /\ status' = [t \in Tokens |-> Checked(status[t], check.read[t])]
                 /\ unsent' = [t \in Tokens |-> unsent[t] \cup (due(t) \ sent[t])]
            ELSE UNCHANGED <<status, unsent>>
    /\ check' = Sleeping
    /\ UNCHANGED <<mgmtVars, now, overlap, poll, daemon>>

-----------------------------------------------------------------------------
(* The daemon on the probe.                                                *)

Both == {"Wireguard", "Probe"}
DaemonAt(t, pc) == daemon' = [daemon EXCEPT ![t].pc = pc]

\* authenticate: the candidate is registered; a failed request is repeated.
DaemonRegister(t) ==
    /\ daemon[t].pc = "auth" /\ ~daemon[t].registered
    /\ TokenRegister(t, Both) \/ (mam[t].state # "none" /\ UNCHANGED mgmtVars)
    /\ daemon' = [daemon EXCEPT ![t].registered = mam'[t].state # "none"]
    /\ UNCHANGED <<now, status, told, unsent, overlap, poll, check>>

\* is_token_active, asked every RETRY_INTERVAL.
DaemonAuthenticated(t) ==
    /\ daemon[t].pc = "auth" /\ daemon[t].registered
    /\ Bearer(t, {})
    /\ DaemonAt(t, "startup")
    /\ UNCHANGED <<mgmtVars, now, status, told, unsent, overlap, poll, check>>

\* POST /probe/startup and the system information, whose answers are ignored.
DaemonStartup(t) ==
    /\ daemon[t].pc = "startup"
    /\ DaemonAt(t, "poll")
    /\ UNCHANGED <<mgmtVars, now, status, told, unsent, overlap, poll, check>>

\* The poll request reaches a handler; with a token that is no longer active
\* it is answered 403, and the daemon, which stays authenticated, polls on.
DaemonPoll(t) ==
    /\ daemon[t].pc = "poll"
    /\ \/ (\E h \in Polls : PollRead(h, t)) /\ DaemonAt(t, "polling")
       \/ ~Bearer(t, {"Probe"}) /\ UNCHANGED <<daemon, poll, overlap>>
    /\ UNCHANGED <<mgmtVars, now, status, told, unsent, check>>

\* handle_command: `exit' ends the process, and systemd starts it again; a
\* command that fails raises, and main() starts over; others return.
Handled(command, d) ==
    IF command = "exit" THEN {Booting}
    ELSE {[d EXCEPT !.pc = pc] : pc \in IF command = None THEN {"poll"} ELSE {"poll", "startup"}}

\* The answer, with a command or without; nobody may be there to receive it.
DaemonAnswer(h) ==
    LET t == poll[h].t IN
    /\ poll[h].pc = "answered"
    /\ poll' = [poll EXCEPT ![h] = NoPoll]
    /\ \/ ~poll[h].client /\ daemon' = daemon
       \/ /\ poll[h].client
          /\ \E d \in Handled(poll[h].command, daemon[t]) : daemon' = [daemon EXCEPT ![t] = d]
    /\ UNCHANGED <<mgmtVars, now, status, told, unsent, overlap, check>>

\* The request times out or the connection is lost: main() starts over, the
\* handler goes on without its client.
DaemonException(t) ==
    /\ daemon[t].pc \in {"startup", "poll", "polling"}
    /\ DaemonAt(t, "startup")
    /\ poll' = [h \in Polls |-> IF poll[h].t = t THEN [poll[h] EXCEPT !.client = FALSE] ELSE poll[h]]
    /\ UNCHANGED <<mgmtVars, now, status, told, unsent, overlap, check>>

\* Power off and on: the token file survives, the rest of the state does not.
DaemonReboot(t) ==
    /\ daemon[t] # Booting
    /\ daemon' = [daemon EXCEPT ![t] = Booting]
    /\ poll' = [h \in Polls |-> IF poll[h].t = t THEN [poll[h] EXCEPT !.client = FALSE] ELSE poll[h]]
    /\ UNCHANGED <<mgmtVars, now, status, told, unsent, overlap, check>>

-----------------------------------------------------------------------------
(* The operator activates and deactivates tokens; deleting a probe deletes *)
(* its statuses (cascade="all, delete").                                   *)

Activate(t, ip, name) == /\ TokenActivate(t, Both, ip, name)
                         /\ UNCHANGED statusVars

Deactivate(r, t) == TokenDeactivate(r, t) /\ UNCHANGED statusVars

\* The statuses of the probes that a step deletes; none, for most steps.
DeleteStatuses ==
    /\ status' = [t \in Tokens |-> IF probe'[t] = None THEN <<>> ELSE status[t]]
    /\ told' = [t \in Tokens |-> IF probe'[t] = None THEN {} ELSE told[t]]
    /\ unsent' = [t \in Tokens |-> IF probe'[t] = None THEN {} ELSE unsent[t]]
    /\ UNCHANGED <<now, overlap, poll, check, daemon>>

DeactivateCommit(r) == DeleteCommit(r) /\ DeleteStatuses

\* The probes with the tokens T, deactivated by handlers of R.
StatusNext(R, T) ==
    \/ Tick
    \/ \E h \in Polls : PollCommit(h) \/ Subscribe(h) \/ PollTimeout(h) \/ DaemonAnswer(h)
    \/ CheckRead \/ CheckCommit
    \/ \E t \in T :
         \/ \E c \in Commands : Execute(t, c)
         \/ DaemonRegister(t) \/ DaemonAuthenticated(t) \/ DaemonStartup(t)
         \/ DaemonPoll(t) \/ DaemonException(t) \/ DaemonReboot(t)
         \/ \E ip \in Ips, name \in Names : Activate(t, ip, name)
         \/ \E r \in R : Deactivate(r, t)
    \/ \E r \in R : DeactivateCommit(r)

\* The check is a task of the server that starts again every minute.
CheckStep == CheckRead \/ CheckCommit

-----------------------------------------------------------------------------
(* Properties                                                              *)

\* The intervals of a probe follow each other without a gap, and the last one
\* is the only active one, unless a poll and the check (or two polls) of the
\* probe overlapped: then two statuses may be active.
StatusesTile ==
    \A t \in Tokens : ~overlap[t] =>
        \A i \in DOMAIN status[t] :
            /\ status[t][i].begin <= status[t][i].end
            /\ status[t][i].active <=> i = Len(status[t])
            /\ i > 1 => status[t][i].begin = status[t][i - 1].end

\* An outage that is still going on and has lasted OfflineFor has been reported,
\* or its report was due once and failed or had no webhook to go to: whatever
\* polls, restarts and failed checks happened before, the threshold is not skipped.
OutageReported ==
    \A t \in Tokens : \A i \in ActiveRows(t) :
        /\ status[t][i].kind = "offline"
        /\ status[t][i].end - status[t][i].begin >= OfflineFor
        => i \in told[t] \cup unsent[t]

\* A probe that stopped polling does not stay online: the check closes its
\* status, unless a late poll renews it or the probe is deleted.
SilenceNoticed ==
    \A t \in Tokens :
        (\E i \in ActiveRows(t) : Expired(status[t][i], now))
          ~> ~(\E i \in ActiveRows(t) : Expired(status[t][i], now))
=============================================================================
