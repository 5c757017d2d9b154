------------------------------ MODULE ApduRelay ------------------------------
(***************************************************************************)
(* An established tunnel: the handler's loop over two receiving tasks, the *)
(* APDU log in the database, a queue and a sending task towards each side, *)
(* and the ways a tunnel comes down.  One action is one run of a task      *)
(* between two awaits; a client or the network may act in between.         *)
(***************************************************************************)
EXTENDS Integers, Sequences, FiniteSets, SequencesExt

CONSTANT MaxApdus   \* bound of the model: how many packets each client sends

Sides == {"probe", "provider"}
Other(s) == IF s = "probe" THEN "provider" ELSE "probe"

ASSUME RelayAssumption == MaxApdus \in [Sides -> Nat]

\* The n-th packet of its sender, who had received `after' packets when it
\* sent it.  A packet that cannot be decoded ends the stream (see tail).
Packets ==
  UNION {[from : {s}, n : 1 .. MaxApdus[s], after : 0 .. MaxApdus[Other(s)]] : s \in Sides}

VARIABLES
  sent,     \* the packets each client has sent
  tail,     \* how a client's stream goes on: "open", it "end"s, or it is "lost"
  inq,      \* packets in the server's StreamReader for that side
  rd,       \* its receiving task: "reading", "packet", "over" or "cancelled"
  hand,     \* the packet that task has returned, as a sequence of one
  hpc,      \* the handler: "wait", "handle", "log", the closing steps, "ended"
  todo,     \* the sides in `done' that are still to be handled
  cur,      \* the side whose packet is being logged
  log,      \* the rows of the APDU log, in commit order
  sendq,    \* packets queued for that side by send_background
  stask,    \* its sending task: "none", waiting in "get" or "drain", or "dead"
  out,      \* packets in the transport towards that side
  wst,      \* that transport: "open", "closing" (flushing) or "closed"
  got       \* packets that side has received

taskVars == <<rd, hand, hpc, todo, cur>>
clientVars == <<sent, tail, got>>
vars == <<sent, tail, inq, rd, hand, hpc, todo, cur, log, sendq, stask, out, wst, got>>

Up == hpc \in {"wait", "handle", "log"}

\* A transport that was told to close is gone as soon as its buffer is empty.
Closed(s, buffer) == IF buffer = <<>> THEN "closed" ELSE "closing"

-----------------------------------------------------------------------------
(***************************************************************************)
(* The clients and the network                                             *)
(***************************************************************************)

ClientSends(s) ==
  /\ tail[s] = "open" /\ Len(sent[s]) < MaxApdus[s]
  /\ LET p == [from |-> s, n |-> Len(sent[s]) + 1, after |-> Len(got[s])] IN
     /\ sent' = [sent EXCEPT ![s] = Append(@, p)]
     /\ inq' = [inq EXCEPT ![s] = Append(@, p)]
  /\ UNCHANGED <<tail, taskVars, log, sendq, stask, out, wst, got>>

\* End of file, in the middle of a packet or after one, or a malformed packet.
ClientEnds(s) ==
  /\ tail[s] = "open"
  /\ tail' = [tail EXCEPT ![s] = "end"]
  /\ UNCHANGED <<sent, inq, taskVars, log, sendq, stask, out, wst, got>>

\* The connection is reset or times out: what is in its buffers is gone.
ConnectionLost(s) ==
  /\ tail[s] # "lost" /\ wst[s] # "closed"
  /\ tail' = [tail EXCEPT ![s] = "lost"]
  /\ out' = [out EXCEPT ![s] = <<>>]
  /\ wst' = [wst EXCEPT ![s] = "closed"]
  /\ UNCHANGED <<sent, inq, taskVars, log, sendq, stask, got>>

\* The transport hands its oldest packet to the client.
Flush(s) ==
  /\ out[s] # <<>>
  /\ got' = [got EXCEPT ![s] = Append(@, Head(out[s]))]
  /\ out' = [out EXCEPT ![s] = Tail(@)]
  /\ wst' = [wst EXCEPT ![s] = IF @ = "open" THEN @ ELSE Closed(s, Tail(out[s]))]
  /\ UNCHANGED <<sent, tail, inq, taskVars, log, sendq, stask>>

-----------------------------------------------------------------------------
(***************************************************************************)
(* apdu_stream.py: one receiving and one sending task for each side        *)
(***************************************************************************)

Recv(s) ==
  /\ rd[s] = "reading" /\ inq[s] # <<>> /\ tail[s] # "lost"
  /\ rd' = [rd EXCEPT ![s] = "packet"]
  /\ hand' = [hand EXCEPT ![s] = <<Head(inq[s])>>]
  /\ inq' = [inq EXCEPT ![s] = Tail(@)]
  /\ UNCHANGED <<clientVars, hpc, todo, cur, log, sendq, stask, out, wst>>

\* Mutant of RecvOver: a reset is not seen as the end of the stream.
RecvOverAtEof(s) ==
  /\ rd[s] = "reading" /\ tail[s] = "end" /\ inq[s] = <<>>
  /\ rd' = [rd EXCEPT ![s] = "over"]
  /\ UNCHANGED <<clientVars, inq, hand, hpc, todo, cur, log, sendq, stask, out, wst>>

\* None, IncompleteReadError or ValueError at the end of the stream; after a
\* reset the exception comes first, whatever is still buffered.
RecvOver(s) ==
  /\ rd[s] = "reading"
  /\ tail[s] = "lost" \/ (tail[s] = "end" /\ inq[s] = <<>>)
  /\ rd' = [rd EXCEPT ![s] = "over"]
  /\ UNCHANGED <<clientVars, inq, hand, hpc, todo, cur, log, sendq, stask, out, wst>>

\* _send_bg_task takes a packet and writes it; a closed transport drops it.
SendWrites(s) ==
  /\ stask[s] = "get" /\ sendq[s] # <<>>
  /\ sendq' = [sendq EXCEPT ![s] = Tail(@)]
  /\ out' = [out EXCEPT ![s] = IF wst[s] = "closed" THEN @ ELSE Append(@, Head(sendq[s]))]
  /\ stask' = [stask EXCEPT ![s] = "drain"]
  /\ UNCHANGED <<clientVars, inq, taskVars, log, wst>>

\* drain returns, or raises when the connection is lost: the task is then over
\* and nobody looks at its exception.
SendDrained(s) ==
  /\ stask[s] = "drain"
  /\ stask' = [stask EXCEPT ![s] = IF wst[s] = "closed" THEN "dead" ELSE "get"]
  /\ UNCHANGED <<clientVars, inq, taskVars, log, sendq, out, wst>>

-----------------------------------------------------------------------------
(***************************************************************************)
(* provider_handler.py: handle_established_connection                      *)
(***************************************************************************)

\* asyncio.wait returns with the tasks that are done when the handler resumes.
Wait ==
  /\ hpc = "wait"
  /\ todo' = {s \in Sides : rd[s] # "reading"}
  /\ todo' # {}
  /\ hpc' = "handle"
  /\ UNCHANGED <<clientVars, inq, rd, hand, cur, log, sendq, stask, out, wst>>

\* Mutant of HandlePacket: the packet is forwarded before it is logged.
ForwardFirst(s) ==
  /\ hpc = "handle" /\ s \in todo /\ rd[s] = "packet"
  /\ hpc' = "log"
  /\ cur' = s
  /\ sendq' = [sendq EXCEPT ![Other(s)] = @ \o hand[s]]
  /\ stask' = [stask EXCEPT ![Other(s)] = IF @ = "none" THEN "get" ELSE @]
  /\ UNCHANGED <<clientVars, inq, rd, hand, todo, log, out, wst>>

\* The next result, in either order, is a packet: open the transaction.
HandlePacket(s) ==
  /\ hpc = "handle" /\ s \in todo /\ rd[s] = "packet"
  /\ hpc' = "log"
  /\ cur' = s
  /\ UNCHANGED <<clientVars, inq, rd, hand, todo, log, sendq, stask, out, wst>>

\* Mutant of LogAndForward: the sending task is not created with the queue.
ForwardWithoutTask ==
  /\ hpc = "log"
  /\ log' = log \o hand[cur]
  /\ sendq' = [sendq EXCEPT ![Other(cur)] = @ \o hand[cur]]
  /\ rd' = [rd EXCEPT ![cur] = "reading"]
  /\ hand' = [hand EXCEPT ![cur] = <<>>]
  /\ todo' = todo \ {cur}
  /\ hpc' = IF todo' = {} THEN "wait" ELSE "handle"
  /\ UNCHANGED <<clientVars, inq, cur, stask, out, wst>>

\* Mutant of LogAndForward: the finished receiving task is not replaced.
ForwardStaleTask ==
  /\ hpc = "log"
  /\ log' = log \o hand[cur]
  /\ sendq' = [sendq EXCEPT ![Other(cur)] = @ \o hand[cur]]
  /\ stask' = [stask EXCEPT ![Other(cur)] = IF @ = "none" THEN "get" ELSE @]
  /\ todo' = todo \ {cur}
  /\ hpc' = IF todo' = {} THEN "wait" ELSE "handle"
  /\ UNCHANGED <<clientVars, inq, rd, hand, cur, out, wst>>

\* log_apdu: the packet's row, with its sender.
LogApdu == log' = log \o hand[cur]

\* log_apdu is committed; only then send_background, and a new receiving task.
LogAndForward ==
  LET o == Other(cur) IN
  /\ hpc = "log"
  /\ LogApdu
  /\ sendq' = [sendq EXCEPT ![o] = @ \o hand[cur]]
  /\ stask' = [stask EXCEPT ![o] = IF @ = "none" THEN "get" ELSE @]
  /\ rd' = [rd EXCEPT ![cur] = "reading"]
  /\ hand' = [hand EXCEPT ![cur] = <<>>]
  /\ todo' = todo \ {cur}
  /\ hpc' = IF todo' = {} THEN "wait" ELSE "handle"
  /\ UNCHANGED <<clientVars, inq, cur, out, wst>>

\* The finally clause: both receiving tasks are cancelled and the probe's
\* transport is told to close.
BringDown ==
  /\ rd' = [s \in Sides |-> "cancelled"]
  /\ hand' = [s \in Sides |-> <<>>]
  /\ wst' = [wst EXCEPT !["probe"] = Closed("probe", out["probe"])]
  /\ hpc' = "closeProbe"
  /\ UNCHANGED <<clientVars, inq, todo, cur, log, sendq, stask, out>>

HandleOver(s) ==
  /\ hpc = "handle" /\ s \in todo /\ rd[s] = "over"
  /\ BringDown

\* Mutant of LogFails: the packet goes on without its row.
LogFailsForwards ==
  /\ hpc = "log"
  /\ sendq' = [sendq EXCEPT ![Other(cur)] = @ \o hand[cur]]
  /\ stask' = [stask EXCEPT ![Other(cur)] = IF @ = "none" THEN "get" ELSE @]
  /\ rd' = [rd EXCEPT ![cur] = "reading"]
  /\ hand' = [hand EXCEPT ![cur] = <<>>]
  /\ todo' = todo \ {cur}
  /\ hpc' = IF todo' = {} THEN "wait" ELSE "handle"
  /\ UNCHANGED <<clientVars, inq, cur, log, out, wst>>

\* The database refuses the row: the exception ends the tunnel.
LogFails == hpc = "log" /\ BringDown

\* The probe's transport has closed, with or without an error: either way the
\* provider's is closed next, here or by the caller's finally clause.
ProbeClosed ==
  /\ hpc = "closeProbe" /\ wst["probe"] = "closed"
  /\ wst' = [wst EXCEPT !["provider"] = Closed("provider", out["provider"])]
  /\ hpc' = "closeProvider"
  /\ UNCHANGED <<clientVars, inq, rd, hand, todo, cur, log, sendq, stask, out>>

ProviderClosed ==
  /\ hpc = "closeProvider" /\ wst["provider"] = "closed"
  /\ hpc' = "ended"
  /\ UNCHANGED <<clientVars, inq, rd, hand, todo, cur, log, sendq, stask, out, wst>>

-----------------------------------------------------------------------------
Init ==
  /\ sent = [s \in Sides |-> <<>>]
  /\ tail = [s \in Sides |-> "open"]
  /\ inq = [s \in Sides |-> <<>>]
  /\ rd = [s \in Sides |-> "reading"]
  /\ hand = [s \in Sides |-> <<>>]
  /\ hpc = "wait"
  /\ todo = {}
  /\ cur = "probe"
  /\ log = <<>>
  /\ sendq = [s \in Sides |-> <<>>]
  /\ stask = [s \in Sides |-> "none"]
  /\ out = [s \in Sides |-> <<>>]
  /\ wst = [s \in Sides |-> "open"]
  /\ got = [s \in Sides |-> <<>>]

ClientStep(s) == ClientSends(s) \/ ClientEnds(s) \/ ConnectionLost(s)
TaskStep(s) == Recv(s) \/ RecvOver(s) \/ SendWrites(s) \/ SendDrained(s)
HandlerStep ==
  \/ Wait \/ LogAndForward \/ LogFails \/ ProbeClosed \/ ProviderClosed
  \/ \E s \in Sides : HandlePacket(s) \/ HandleOver(s)

Next ==
  \/ \E s \in Sides : ClientStep(s) \/ Flush(s) \/ TaskStep(s)
  \/ HandlerStep

Spec == Init /\ [][Next]_vars

(***************************************************************************)
(* Tasks run and the database answers; a client reads what is written to   *)
(* it, or its connection is given up by TCP.  Clients need not ever end.   *)
(***************************************************************************)
FairSpec ==
  /\ Spec
  /\ \A s \in Sides : WF_vars(Recv(s) \/ RecvOver(s)) /\ WF_vars(Flush(s))
  /\ WF_vars(HandlerStep)

-----------------------------------------------------------------------------
(***************************************************************************)
(* Properties                                                              *)
(***************************************************************************)

\* Types; a finished receiving task has one packet, and packets only wait for
\* a sending task that exists.
TypeOK ==
  /\ sent \in [Sides -> Seq(Packets)]
  /\ tail \in [Sides -> {"open", "end", "lost"}]
  /\ inq \in [Sides -> Seq(Packets)]
  /\ rd \in [Sides -> {"reading", "packet", "over", "cancelled"}]
  /\ hand \in [Sides -> Seq(Packets)]
  /\ \A s \in Sides : Len(hand[s]) = IF rd[s] = "packet" THEN 1 ELSE 0
  /\ hpc \in {"wait", "handle", "log", "closeProbe", "closeProvider", "ended"}
  /\ todo \subseteq Sides /\ cur \in Sides
  /\ log \in Seq(Packets)
  /\ sendq \in [Sides -> Seq(Packets)]
  /\ stask \in [Sides -> {"none", "get", "drain", "dead"}]
  /\ \A s \in Sides : stask[s] = "none" => sendq[s] = <<>>
  /\ out \in [Sides -> Seq(Packets)]
  /\ wst \in [Sides -> {"open", "closing", "closed"}]
  /\ got \in [Sides -> Seq(Packets)]

\* The rows of sender s in log l, and: its n-th row is the packet p.
RowsOf(l, s) == {j \in DOMAIN l : l[j].from = s}
IsRow(l, s, n, p) ==
  \E j \in RowsOf(l, s) : l[j] = p /\ Cardinality({k \in RowsOf(l, s) : k <= j}) = n

\* The log is complete: what a client has received, or the server has written
\* for it, was committed before, in that order and without a gap.
LoggedBeforeSent ==
  \A s \in Sides : \A n \in DOMAIN (got[s] \o out[s]) :
    IsRow(log, Other(s), n, (got[s] \o out[s])[n])

\* The log is in causal order: a packet is logged after every packet its
\* sender had received when it sent it, commands before their responses.
LogCausal ==
  \A i \in DOMAIN log :
    Cardinality({j \in 1 .. i - 1 : log[j].from # log[i].from}) >= log[i].after

\* A tunnel that one side has left comes down: the handler ends and both
\* transports are closed, whatever the other side does.
ComesDown ==
  (\E s \in Sides : tail[s] # "open") ~> hpc = "ended" /\ \A s \in Sides : wst[s] = "closed"

(***************************************************************************)
(* The relay implements the channel: on its way to a side is what lies in  *)
(* its transport, its queue, the other's receiving task and its reader, as *)
(* far as each stage still passes it on.                                   *)
(***************************************************************************)
Sending(s) == stask[s] # "dead" /\ wst[s] # "closed"
Reading(s) == Up /\ tail[s] # "lost"

Inbound == [s \in Sides |-> sent[Other(s)]]
Transit ==
  [s \in Sides |-> out[s] \o
    IF Sending(s) THEN sendq[s] \o hand[Other(s)] \o
      (IF Reading(Other(s)) THEN inq[Other(s)] ELSE <<>>)
    ELSE <<>>]
Broken == [s \in Sides |-> ~Sending(s) \/ ~Reading(Other(s))]

Channel == INSTANCE DuplexChannel WITH sent <- Inbound, transit <- Transit, broken <- Broken

\* Each direction is a FIFO channel that only ever loses the end of its stream.
IsChannel == Channel!Spec
=============================================================================
