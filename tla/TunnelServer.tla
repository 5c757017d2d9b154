---------------------------- MODULE TunnelServer ----------------------------
(***************************************************************************)
(* The MobileAtlas tunnel server: probe connections wait in a per-provider *)
(* asyncio queue until a connection of that provider takes one, offers it  *)
(* to the provider and relays the tunnel.  One action is one run of a      *)
(* coroutine between two awaits; between them the event loop may run any   *)
(* other task, and either client may go away.                              *)
(***************************************************************************)
EXTENDS Integers, Sequences, FiniteSets

CONSTANTS
  Providers,      \* provider ids, the keys of _QUEUES
  Conns,          \* provider connections; a connection serves one tunnel at most
  Owner,          \* Conns -> Providers: the id auth.identity returns for it
  Probes,         \* probe connections
  NoWait,         \* the probes whose ConnectRequest carries NO_WAIT
  MaxQueueSize,   \* config.MAX_QUEUE_SIZE
  None            \* "no value"

ASSUME TunnelAssumption ==
  /\ Owner \in [Conns -> Providers]
  /\ NoWait \subseteq Probes
  /\ MaxQueueSize \in Nat \ {0}
  /\ None \notin Probes \cup Providers
  /\ IsFiniteSet(Conns)

VARIABLES
  pc,         \* where each provider connection's handler is
  disc,       \* the provider's transport is closing (its client went away)
  eof,        \* the handler's poll_eof task has finished
  held,       \* the queue entry the handler has taken out of a queue
  orphan,     \* the handler waits on a Queue object no longer in _QUEUES
  callback,   \* a task_done callback is registered on the handler's task
  present,    \* the provider's queue is in _QUEUES
  items,      \* its entries, oldest first
  stale,      \* MAX_PROBE_WAITTIME has passed since its last _get
  registered, \* the provider's row is in the database
  ppc,        \* where each probe connection is
  target,     \* the provider of the SIM the probe asked for
  gone,       \* the probe's transport is closing (its client went away)
  answer      \* the ConnectResponse written to the probe

queueVars == <<present, items, stale>>
connVars  == <<pc, disc, eof, held, orphan, callback>>
probeVars == <<ppc, target, gone, answer>>
vars == <<connVars, queueVars, registered, probeVars>>

(***************************************************************************)
(* A handler is in the wait loop from "start" (q_task created) to "got"    *)
(* (q_task done); "getter" and "woken" are asyncio.Queue.get waiting on    *)
(* its future and that future being resolved.  At "cancel" and             *)
(* "cancelWoken" the handler has cancelled q_task in one of these states   *)
(* and q_task has not run since; at "decline" and "closing" the handler    *)
(* waits until a connection it closes is closed.                           *)
(***************************************************************************)
InLoop == {"start", "getter", "woken", "got"}
ConnPC == {"idle", "auth", "mark"} \cup InLoop \cup
          {"cancel", "cancelWoken", "unmark", "unmarkFull", "send", "await",
           "decline", "use", "relay", "closing", "unuse", "ended"}
ProbePC == {"idle", "auth", "request", "resolved", "handed", "done"}
ConnectStatus == {"Success", "Forbidden", "NotAvailable", "ProviderTimedOut"}

Getters(p) == {c \in Conns : Owner[c] = p /\ pc[c] = "getter" /\ ~orphan[c]}
Woken(p)   == {c \in Conns : Owner[c] = p /\ pc[c] \in {"woken", "cancelWoken"} /\ ~orphan[c]}
\* q._getters may still hold the futures of these.
Cancelled(p) == {c \in Conns : Owner[c] = p /\ pc[c] = "cancel" /\ ~orphan[c]}
Queued     == {q \in Probes : \E p \in Providers : \E i \in DOMAIN items[p] : items[p][i] = q}

-----------------------------------------------------------------------------
(***************************************************************************)
(* connection_queue.py                                                     *)
(***************************************************************************)

\* _get_queue: look the queue up and create it, fresh, if it is missing.
CreateIfMissing(p) ==
  /\ present' = [present EXCEPT ![p] = TRUE]
  /\ stale' = [stale EXCEPT ![p] = @ /\ present[p]]

\* put_nowait raises QueueFull: a NO_WAIT entry needs more getters than entries.
\* Those that have been cancelled count until q_task has run or a wake-up has
\* skipped them, so that both answers are possible for a while.
Full(p, q) ==
  \/ q \in NoWait /\ Len(items[p]) >= Cardinality(Getters(p))
  \/ Len(items[p]) >= MaxQueueSize

\* Mutant of HasRoom: one entry too many.
HasRoomOffByOne(p, q) ==
  /\ q \in NoWait => Len(items[p]) < Cardinality(Getters(p) \cup Cancelled(p))
  /\ Len(items[p]) <= MaxQueueSize

HasRoom(p, q) ==
  /\ q \in NoWait => Len(items[p]) < Cardinality(Getters(p) \cup Cancelled(p))
  /\ Len(items[p]) < MaxQueueSize

\* Resolve the future of one waiting getter, if there is one; `from' is the
\* state of the handlers once this step's own handler has moved.
WakeOne(p, from) ==
  IF Getters(p) = {} THEN pc' = from
  ELSE \E g \in Getters(p) : pc' = [from EXCEPT ![g] = "woken"]

\* A successful put_nowait: append and wake one getter.
Put(p, q, from) ==
  /\ CreateIfMissing(p)
  /\ items' = [items EXCEPT ![p] = Append(@, q)]
  /\ WakeOne(p, from)

\* get_nowait on a non-empty queue: _get pops the oldest entry and renews
\* _last_active.  q_task is then done, with the entry as its result.
Take(c) ==
  LET p == Owner[c] IN
  /\ held' = [held EXCEPT ![c] = Head(items[p])]
  /\ items' = [items EXCEPT ![p] = Tail(@)]
  /\ present' = [present EXCEPT ![p] = TRUE]
  /\ stale' = [stale EXCEPT ![p] = FALSE]
  /\ pc' = [pc EXCEPT ![c] = "got"]
  /\ UNCHANGED orphan

\* q_task runs for the first time: connection_queue.get.
StartGet(c) ==
  /\ pc[c] = "start"
  /\ \/ items[Owner[c]] # <<>> /\ Take(c)
     \/ /\ items[Owner[c]] = <<>>
        /\ pc' = [pc EXCEPT ![c] = "getter"]
        /\ CreateIfMissing(Owner[c])
        /\ UNCHANGED <<items, held, orphan>>
  /\ UNCHANGED <<disc, eof, callback, registered, probeVars>>

\* q_task resumes after its future was resolved: it takes the oldest entry, or
\* waits again when another task, or the garbage collector, emptied the queue.
ResumeGet(c) ==
  /\ pc[c] = "woken"
  /\ \/ ~orphan[c] /\ items[Owner[c]] # <<>> /\ Take(c)
     \/ /\ orphan[c] \/ items[Owner[c]] = <<>>
        /\ pc' = [pc EXCEPT ![c] = "getter"]
        /\ UNCHANGED <<items, held, orphan, present, stale>>
  /\ UNCHANGED <<disc, eof, callback, registered, probeVars>>

\* MAX_PROBE_WAITTIME has elapsed since the queue's _last_active.
GoStale(p) ==
  /\ present[p] /\ ~stale[p]
  /\ stale' = [stale EXCEPT ![p] = TRUE]
  /\ UNCHANGED <<connVars, present, items, registered, probeVars>>

\* queue_gc_coro_factory: a queue idle for too long leaves _QUEUES and _cleanup
\* answers and closes every probe in it.  Handlers inside its get() stay there.
CollectQueue(p) ==
  /\ present[p] /\ stale[p]
  /\ present' = [present EXCEPT ![p] = FALSE]
  /\ stale' = [stale EXCEPT ![p] = FALSE]
  /\ items' = [items EXCEPT ![p] = <<>>]
  /\ orphan' = [c \in Conns |-> orphan[c] \/ c \in Getters(p) \cup Woken(p) \cup Cancelled(p)]
  /\ LET drained == {items[p][i] : i \in DOMAIN items[p]} IN
     /\ answer' = [q \in Probes |-> IF q \in drained THEN "ProviderTimedOut" ELSE answer[q]]
     /\ ppc' = [q \in Probes |-> IF q \in drained THEN "done" ELSE ppc[q]]
  /\ UNCHANGED <<pc, disc, eof, held, callback, registered, target, gone>>

\* Queue._gc: keep, in order, exactly the entries whose writer is not closing.
DropClosed(p) ==
  LET kept == {i \in DOMAIN items[p] : ~gone[items[p][i]]} IN
  /\ present[p]
  /\ \E n \in 0 .. Len(items[p]) : \E f \in [1 .. n -> kept] :
       /\ \A i, j \in 1 .. n : i < j => f[i] < f[j]
       /\ \A k \in kept : \E i \in 1 .. n : f[i] = k
       /\ items' = [items EXCEPT ![p] = [i \in 1 .. n |-> items[p][f[i]]]]
  /\ ppc' = [q \in Probes |->
               IF \E i \in DOMAIN items[p] \ kept : items[p][i] = q THEN "done" ELSE ppc[q]]
  /\ UNCHANGED <<connVars, present, stale, registered, target, gone, answer>>

-----------------------------------------------------------------------------
(***************************************************************************)
(* probe_handler.py, and server.py for a probe's connection                *)
(***************************************************************************)

ProbeConnects(q) ==
  /\ ppc[q] = "idle"
  /\ ppc' = [ppc EXCEPT ![q] = "auth"]
  /\ UNCHANGED <<connVars, queueVars, registered, target, gone, answer>>

\* The session token is valid: AuthResponse Success, then wait for the request.
ProbeAuthenticated(q) ==
  /\ ppc[q] = "auth"
  /\ ppc' = [ppc EXCEPT ![q] = "request"]
  /\ UNCHANGED <<connVars, queueVars, registered, target, gone, answer>>

\* Timeout, end of file, a malformed message or an invalid token: closed
\* without a ConnectResponse.
ProbeDropped(q) ==
  /\ ppc[q] \in {"auth", "request"}
  /\ ppc' = [ppc EXCEPT ![q] = "done"]
  /\ UNCHANGED <<connVars, queueVars, registered, target, gone, answer>>

\* auth.get_sim raises AuthError.
ProbeForbidden(q) ==
  /\ ppc[q] = "request"
  /\ answer' = [answer EXCEPT ![q] = "Forbidden"]
  /\ ppc' = [ppc EXCEPT ![q] = "done"]
  /\ UNCHANGED <<connVars, queueVars, registered, target, gone>>

\* auth.get_sim finds a SIM of provider p; its row exists in that transaction.
ProbeResolved(q, p) ==
  /\ ppc[q] = "request" /\ registered[p]
  /\ target' = [target EXCEPT ![q] = p]
  /\ ppc' = [ppc EXCEPT ![q] = "resolved"]
  /\ UNCHANGED <<connVars, queueVars, registered, gone, answer>>

\* After awaiting auth.identity: hand the connection over to the queue, or
\* answer NotAvailable.  The SIM is not looked up again.
ProbeEnqueue(q) ==
  LET p == target[q] IN
  /\ ppc[q] = "resolved"
  /\ \/ /\ Full(p, q)
        /\ CreateIfMissing(p)
        /\ answer' = [answer EXCEPT ![q] = "NotAvailable"]
        /\ ppc' = [ppc EXCEPT ![q] = "done"]
        /\ UNCHANGED <<items, pc>>
     \/ /\ HasRoom(p, q)
        /\ Put(p, q, pc)
        /\ ppc' = [ppc EXCEPT ![q] = "handed"]
        /\ UNCHANGED answer
  /\ UNCHANGED <<disc, eof, held, orphan, callback, registered, target, gone>>

\* The probe's client goes away: its transport starts closing.
ProbeGoes(q) ==
  /\ ppc[q] \notin {"idle", "done"} /\ ~gone[q]
  /\ gone' = [gone EXCEPT ![q] = TRUE]
  /\ UNCHANGED <<connVars, queueVars, registered, ppc, target, answer>>

-----------------------------------------------------------------------------
(***************************************************************************)
(* provider_handler.py, and server.py for a provider's connection          *)
(***************************************************************************)

ConnOpens(c) ==
  /\ pc[c] = "idle"
  /\ pc' = [pc EXCEPT ![c] = "auth"]
  /\ UNCHANGED <<disc, eof, held, orphan, callback, queueVars, registered, probeVars>>

\* auth.provider_registered succeeded: the row existed in that transaction.
ConnAuthenticated(c) ==
  /\ pc[c] = "auth" /\ registered[Owner[c]]
  /\ pc' = [pc EXCEPT ![c] = "mark"]
  /\ UNCHANGED <<disc, eof, held, orphan, callback, queueVars, registered, probeVars>>

\* Timeout, end of file, malformed request or TokenError.
ConnDropped(c) ==
  /\ pc[c] = "auth"
  /\ pc' = [pc EXCEPT ![c] = "ended"]
  /\ UNCHANGED <<disc, eof, held, orphan, callback, queueVars, registered, probeVars>>

\* db.mark_provider_available; its assertion fails when the row is gone.
MarkAvailable(c) ==
  /\ pc[c] = "mark"
  /\ pc' = [pc EXCEPT ![c] = IF registered[Owner[c]] THEN "start" ELSE "ended"]
  /\ UNCHANGED <<disc, eof, held, orphan, callback, queueVars, registered, probeVars>>

\* Mutant of PollEof: the transport is looked at once, not polled.
PollEofOnce(c) ==
  /\ pc[c] = "start" /\ disc[c] /\ ~eof[c]
  /\ eof' = [eof EXCEPT ![c] = TRUE]
  /\ UNCHANGED <<pc, disc, held, orphan, callback, queueVars, registered, probeVars>>

\* poll_eof sees that the provider's transport is closing.
PollEof(c) ==
  /\ pc[c] \in InLoop /\ disc[c] /\ ~eof[c]
  /\ eof' = [eof EXCEPT ![c] = TRUE]
  /\ UNCHANGED <<pc, disc, held, orphan, callback, queueVars, registered, probeVars>>

\* The handler ends; the callbacks it registered call _get_queue (task_done).
End(c, from) ==
  /\ pc' = [from EXCEPT ![c] = "ended"]
  /\ IF callback[c] THEN CreateIfMissing(Owner[c]) ELSE UNCHANGED <<present, stale>>

\* asyncio.wait returned with q_task done and the provider still there.
GotEntry(c) ==
  /\ pc[c] = "got" /\ ~eof[c]
  /\ callback' = [callback EXCEPT ![c] = TRUE]
  /\ \/ /\ ~gone[held[c]]
        /\ pc' = [pc EXCEPT ![c] = "unmark"]
        /\ UNCHANGED <<held, ppc>>
     \/ \* the probe left while it was queued: close it and wait for the next
        \* one, or end when wait_closed raises the error it was lost with
        /\ gone[held[c]]
        /\ \E next \in {"start", "unmark"} : pc' = [pc EXCEPT ![c] = next]
        /\ held' = [held EXCEPT ![c] = None]
        /\ ppc' = [ppc EXCEPT ![held[c]] = "done"]
  /\ UNCHANGED <<disc, eof, orphan, queueVars, registered, target, gone, answer>>

\* Mutant of RequeueOnEof: q_task's result is forgotten when both tasks are done.
ForgetOnEof(c) ==
  /\ pc[c] = "got" /\ eof[c]
  /\ pc' = [pc EXCEPT ![c] = "unmark"]
  /\ held' = [held EXCEPT ![c] = None]
  /\ UNCHANGED <<disc, eof, orphan, callback, queueVars, registered, probeVars>>

\* Both tasks are done: the entry goes back, to the tail of the queue, or is
\* refused with QueueFull.
RequeueOnEof(c) ==
  LET p == Owner[c] IN
  /\ pc[c] = "got" /\ eof[c]
  /\ \/ /\ HasRoom(p, held[c])
        /\ Put(p, held[c], [pc EXCEPT ![c] = "unmark"])
        /\ held' = [held EXCEPT ![c] = None]
     \/ /\ Full(p, held[c])
        /\ CreateIfMissing(p)
        /\ pc' = [pc EXCEPT ![c] = "unmarkFull"]
        /\ UNCHANGED <<items, held>>
  /\ UNCHANGED <<disc, eof, orphan, callback, registered, probeVars>>

\* Only poll_eof is done: q_task is cancelled, before its first step, while its
\* future is pending or after that was resolved.
CancelGet(c) ==
  /\ pc[c] \in {"start", "getter", "woken"} /\ eof[c]
  /\ pc' = [pc EXCEPT ![c] = CASE @ = "start" -> "unmark"
                               [] @ = "getter" -> "cancel"
                               [] @ = "woken" -> "cancelWoken"]
  /\ UNCHANGED <<disc, eof, held, orphan, callback, queueVars, registered, probeVars>>

\* Mutant of GetCancelled: a wake-up that was already delivered is not passed on.
GetCancelledSilently(c) ==
  /\ pc[c] \in {"cancel", "cancelWoken"}
  /\ pc' = [pc EXCEPT ![c] = "unmark"]
  /\ orphan' = [orphan EXCEPT ![c] = FALSE]
  /\ UNCHANGED <<disc, eof, held, callback, queueVars, registered, probeVars>>

\* The cancelled q_task runs: if its future had been resolved, asyncio.Queue.get
\* passes the wake-up on.
GetCancelled(c) ==
  LET left == [pc EXCEPT ![c] = "unmark"] IN
  /\ pc[c] \in {"cancel", "cancelWoken"}
  /\ IF pc[c] = "cancelWoken" /\ ~orphan[c] /\ items[Owner[c]] # <<>>
     THEN WakeOne(Owner[c], left)
     ELSE pc' = left
  /\ orphan' = [orphan EXCEPT ![c] = FALSE]
  /\ UNCHANGED <<disc, eof, held, callback, queueVars, registered, probeVars>>

\* The finally clause: db.mark_provider_unavailable, whose assertion fails when
\* the row is gone; then the entry, if there is one, is dropped with the handler.
MarkUnavailable(c) ==
  /\ pc[c] = "unmark"
  /\ IF held[c] # None /\ registered[Owner[c]]
     THEN pc' = [pc EXCEPT ![c] = "send"] /\ UNCHANGED <<present, stale>>
     ELSE End(c, pc)
  /\ UNCHANGED <<disc, eof, held, orphan, callback, items, registered, probeVars>>

\* Answer and close the entry's probe, and end; the write fails to a probe that
\* has gone, and its exception ends the handler.
Reject(c, status) ==
  /\ \/ /\ answer' = [answer EXCEPT ![held[c]] = status]
        /\ ppc' = [ppc EXCEPT ![held[c]] = "done"]
        /\ held' = [held EXCEPT ![c] = None]
     \/ gone[held[c]] /\ UNCHANGED <<answer, ppc, held>>
  /\ End(c, pc)

\* The same clause while QueueFull propagates: `handle' then answers the probe,
\* unless the failed assertion has replaced QueueFull.
MarkUnavailableFull(c) ==
  /\ pc[c] = "unmarkFull"
  /\ IF registered[Owner[c]] THEN Reject(c, "ProviderTimedOut")
     ELSE End(c, pc) /\ UNCHANGED <<answer, ppc, held>>
  /\ UNCHANGED <<disc, eof, orphan, callback, items, registered, target, gone>>

\* Write the ConnectRequest to the provider.
SendRequest(c) ==
  /\ pc[c] = "send"
  /\ pc' = [pc EXCEPT ![c] = "await"]
  /\ UNCHANGED <<disc, eof, held, orphan, callback, queueVars, registered, probeVars>>

\* Mutant of SendFails: the exception is not raised again after the requeue.
SendFailsGoesOn(c) ==
  LET p == Owner[c] IN
  /\ pc[c] = "send" /\ disc[c] /\ HasRoom(p, held[c])
  /\ Put(p, held[c], [pc EXCEPT ![c] = "await"])
  /\ UNCHANGED <<disc, eof, held, orphan, callback, registered, probeVars>>

\* The write fails: requeue the entry, or answer it when the queue refuses it.
SendFails(c) ==
  LET p == Owner[c] IN
  /\ pc[c] = "send" /\ disc[c]
  /\ \/ /\ HasRoom(p, held[c])
        /\ Put(p, held[c], [pc EXCEPT ![c] = "ended"])
        /\ held' = [held EXCEPT ![c] = None]
        /\ UNCHANGED <<ppc, answer>>
     \/ /\ Full(p, held[c])
        /\ Reject(c, "ProviderTimedOut")
        /\ UNCHANGED items
  /\ UNCHANGED <<disc, eof, orphan, callback, registered, target, gone>>

\* The provider accepts: its ConnectResponse is forwarded to the probe.
Accept(c) ==
  /\ pc[c] = "await"
  /\ answer' = [answer EXCEPT ![held[c]] = "Success"]
  /\ pc' = [pc EXCEPT ![c] = "use"]
  /\ UNCHANGED <<disc, eof, held, orphan, callback, queueVars, registered, ppc, target, gone>>

\* Mutant of Decline: the status of the response is not looked at.
DeclineIgnored(c) ==
  /\ pc[c] = "await"
  /\ answer' = [answer EXCEPT ![held[c]] = "NotAvailable"]
  /\ pc' = [pc EXCEPT ![c] = "use"]
  /\ UNCHANGED <<disc, eof, held, orphan, callback, queueVars, registered, ppc, target, gone>>

\* Mutant of Decline: the declined entry also goes back for another connection.
DeclineRequeues(c) ==
  /\ pc[c] = "await"
  /\ answer' = [answer EXCEPT ![held[c]] = "NotAvailable"]
  /\ Put(Owner[c], held[c], [pc EXCEPT ![c] = "ended"])
  /\ held' = [held EXCEPT ![c] = None]
  /\ UNCHANGED <<disc, eof, orphan, callback, registered, ppc, target, gone>>

\* The provider declines (any other status): forward that to the probe, then
\* close the provider's connection and wait until it is closed.
Decline(c) ==
  /\ pc[c] = "await"
  /\ answer' = [answer EXCEPT ![held[c]] = "NotAvailable"]
  /\ pc' = [pc EXCEPT ![c] = "decline"]
  /\ UNCHANGED <<disc, eof, held, orphan, callback, queueVars, registered, ppc, target, gone>>

\* It is closed, and the probe's connection is as well.
DeclineCloses(c) ==
  /\ pc[c] = "decline"
  /\ ppc' = [ppc EXCEPT ![held[c]] = "done"]
  /\ held' = [held EXCEPT ![c] = None]
  /\ End(c, pc)
  /\ UNCHANGED <<disc, eof, orphan, callback, items, registered, target, gone, answer>>

\* wait_closed raises what the connection was lost with: that ends the handler, and
\* nobody closes the probe's connection.
DeclineCloseFails(c) ==
  /\ pc[c] = "decline"
  /\ End(c, pc)
  /\ UNCHANGED <<disc, eof, held, orphan, callback, items, registered, probeVars>>

\* Mutant of ResponseTimeout: the handler does not return after it.
TimeoutGoesOn(c) ==
  /\ pc[c] = "await"
  /\ answer' = [answer EXCEPT ![held[c]] = "ProviderTimedOut"]
  /\ ppc' = [ppc EXCEPT ![held[c]] = "done"]
  /\ pc' = [pc EXCEPT ![c] = "use"]
  /\ UNCHANGED <<disc, eof, held, orphan, callback, queueVars, registered, target, gone>>

\* Mutant of ResponseTimeout: a silent provider is given all the time it wants.
TimeoutOnlyAtEof(c) ==
  /\ pc[c] = "await" /\ disc[c]
  /\ Reject(c, "ProviderTimedOut")
  /\ UNCHANGED <<disc, eof, orphan, callback, items, registered, target, gone>>

\* PROVIDER_RESPONSE_TIMEOUT.
ResponseTimeout(c) ==
  /\ pc[c] = "await"
  /\ Reject(c, "ProviderTimedOut")
  /\ UNCHANGED <<disc, eof, orphan, callback, items, registered, target, gone>>

\* The provider's response cannot be decoded: ValueError ends the handler.
ResponseMalformed(c) ==
  /\ pc[c] = "await"
  /\ End(c, pc)
  /\ UNCHANGED <<disc, eof, held, orphan, callback, items, registered, probeVars>>

\* End of file instead of a response, or the write to a probe that has gone
\* fails: the exception ends the handler and nothing is written to the probe.
ResponseFails(c) ==
  /\ pc[c] = "await" /\ (disc[c] \/ gone[held[c]])
  /\ End(c, pc)
  /\ UNCHANGED <<disc, eof, held, orphan, callback, items, registered, probeVars>>

\* db.sim_used; its assertion fails when a registration has replaced the SIM's
\* row since the probe's lookup, and the finally clause closes both streams.
SimUsed(c) ==
  /\ pc[c] = "use"
  /\ \E next \in {"relay", "closing"} : pc' = [pc EXCEPT ![c] = next]
  /\ UNCHANGED <<disc, eof, held, orphan, callback, queueVars, registered, probeVars>>

\* handle_established_connection returns or fails: it closes the probe's stream
\* first, and then the finally clause closes both again.
RelayEnds(c) ==
  /\ pc[c] = "relay"
  /\ pc' = [pc EXCEPT ![c] = "closing"]
  /\ ppc' = [ppc EXCEPT ![held[c]] = "done"]
  /\ UNCHANGED <<disc, eof, held, orphan, callback, queueVars, registered, target, gone, answer>>

\* The provider's stream is closed, and then the probe's.
StreamsClose(c) ==
  /\ pc[c] = "closing"
  /\ pc' = [pc EXCEPT ![c] = "unuse"]
  /\ ppc' = [ppc EXCEPT ![held[c]] = "done"]
  /\ UNCHANGED <<disc, eof, held, orphan, callback, queueVars, registered, target, gone, answer>>

\* wait_closed raises for the provider's stream, or for the probe's, which is closed
\* then: what is left of the finally clause is skipped.
StreamsCloseFail(c) ==
  /\ pc[c] = "closing"
  /\ ppc' = ppc \/ ppc' = [ppc EXCEPT ![held[c]] = "done"]
  /\ End(c, pc)
  /\ UNCHANGED <<disc, eof, held, orphan, callback, items, registered, target, gone, answer>>

\* db.sim_unused.
SimUnused(c) ==
  /\ pc[c] = "unuse"
  /\ End(c, pc)
  /\ UNCHANGED <<disc, eof, held, orphan, callback, items, registered, probeVars>>

\* The provider's client goes away.
ProviderGoes(c) ==
  /\ pc[c] \notin {"idle", "ended"} /\ ~disc[c]
  /\ disc' = [disc EXCEPT ![c] = TRUE]
  /\ UNCHANGED <<pc, eof, held, orphan, callback, queueVars, registered, probeVars>>

\* auth.register_provider on behalf of another provider deletes an expired
\* provider's row (module SimRegistry).
RowRemoved(p) ==
  /\ registered[p]
  /\ registered' = [registered EXCEPT ![p] = FALSE]
  /\ UNCHANGED <<connVars, queueVars, probeVars>>

-----------------------------------------------------------------------------
Init ==
  /\ pc = [c \in Conns |-> "idle"]
  /\ disc = [c \in Conns |-> FALSE]
  /\ eof = [c \in Conns |-> FALSE]
  /\ held = [c \in Conns |-> None]
  /\ orphan = [c \in Conns |-> FALSE]
  /\ callback = [c \in Conns |-> FALSE]
  /\ present = [p \in Providers |-> FALSE]
  /\ items = [p \in Providers |-> <<>>]
  /\ stale = [p \in Providers |-> FALSE]
  /\ registered = [p \in Providers |-> TRUE]
  /\ ppc = [q \in Probes |-> "idle"]
  /\ target = [q \in Probes |-> None]
  /\ gone = [q \in Probes |-> FALSE]
  /\ answer = [q \in Probes |-> None]

\* What the server does by itself, in bounded time, once it can.
ConnStep(c) ==
  \/ StartGet(c) \/ ResumeGet(c) \/ MarkAvailable(c) \/ PollEof(c)
  \/ GotEntry(c) \/ RequeueOnEof(c) \/ CancelGet(c) \/ GetCancelled(c)
  \/ MarkUnavailable(c) \/ MarkUnavailableFull(c)
  \/ SendRequest(c) \/ SendFails(c) \/ ResponseTimeout(c)
  \/ SimUsed(c) \/ SimUnused(c)

\* What a provider's client brings about.
ConnInput(c) ==
  \/ ConnOpens(c) \/ ConnAuthenticated(c) \/ ConnDropped(c)
  \/ Accept(c) \/ Decline(c) \/ ResponseMalformed(c) \/ ResponseFails(c)
  \/ DeclineCloses(c) \/ DeclineCloseFails(c)
  \/ RelayEnds(c) \/ StreamsClose(c) \/ StreamsCloseFail(c) \/ ProviderGoes(c)

ProbeStep(q) == ProbeDropped(q) \/ ProbeEnqueue(q)

ProbeInput(q) ==
  \/ ProbeConnects(q) \/ ProbeAuthenticated(q) \/ ProbeForbidden(q) \/ ProbeGoes(q)
  \/ \E p \in Providers : ProbeResolved(q, p)

QueueStep(p) == GoStale(p) \/ CollectQueue(p) \/ DropClosed(p)

Next ==
  \/ \E c \in Conns : ConnStep(c) \/ ConnInput(c)
  \/ \E q \in Probes : ProbeStep(q) \/ ProbeInput(q)
  \/ \E p \in Providers : QueueStep(p) \/ RowRemoved(p)

Spec == Init /\ [][Next]_vars

(***************************************************************************)
(* Ready tasks run, timeouts fire and the periodic collector comes round.  *)
(* Clients owe nothing: no fairness on ConnInput and ProbeInput.           *)
(***************************************************************************)
Fairness ==
  /\ \A c \in Conns : WF_vars(ConnStep(c))
  /\ \A q \in Probes : WF_vars(ProbeStep(q))
  /\ \A p \in Providers : WF_vars(GoStale(p)) /\ WF_vars(CollectQueue(p))

FairSpec == Spec /\ Fairness

-----------------------------------------------------------------------------
(***************************************************************************)
(* Properties                                                              *)
(***************************************************************************)

ConnTypeOK ==
  /\ pc \in [Conns -> ConnPC]
  /\ disc \in [Conns -> BOOLEAN]
  /\ eof \in [Conns -> BOOLEAN]
  /\ held \in [Conns -> Probes \cup {None}]
  /\ orphan \in [Conns -> BOOLEAN]
  /\ callback \in [Conns -> BOOLEAN]

QueueTypeOK ==
  /\ present \in [Providers -> BOOLEAN]
  /\ items \in [Providers -> Seq(Probes)]
  /\ \A p \in Providers : Len(items[p]) <= MaxQueueSize
  /\ stale \in [Providers -> BOOLEAN]

ProbeTypeOK ==
  /\ ppc \in [Probes -> ProbePC]
  /\ target \in [Probes -> Providers \cup {None}]
  /\ gone \in [Probes -> BOOLEAN]
  /\ answer \in [Probes -> ConnectStatus \cup {None}]

\* Types; a queue never exceeds MAX_QUEUE_SIZE.
TypeOK ==
  ConnTypeOK /\ QueueTypeOK /\ ProbeTypeOK /\ registered \in [Providers -> BOOLEAN]

\* Taking, requeueing, collecting and failing never leave a probe's connection
\* in two hands: it is in one place of one queue, or with one handler.
SingleHolder ==
  /\ \A p1, p2 \in Providers : \A i \in DOMAIN items[p1], j \in DOMAIN items[p2] :
       items[p1][i] = items[p2][j] => p1 = p2 /\ i = j
  /\ \A c, d \in Conns : held[c] # None /\ held[c] = held[d] => c = d
  /\ \A c \in Conns : held[c] \notin Queued

\* A probe that was handed to the queue and is still open is never forgotten by
\* all: without an answer it is queued or some handler took it; with Success its
\* tunnel is being set up, running or coming down; declined, it is about to be
\* closed.  Only the handler that answered it can leave it open, which it does if
\* closing its provider's connection raises.
Accounted ==
  \A q \in Probes : ppc[q] = "handed" =>
    \/ answer[q] = None /\ (q \in Queued \/ \E c \in Conns : held[c] = q)
    \/ answer[q] = "Success"
         /\ \E c \in Conns : held[c] = q /\ pc[c] \in {"use", "relay", "closing", "ended"}
    \/ answer[q] = "NotAvailable" /\ \E c \in Conns : held[c] = q /\ pc[c] \in {"decline", "ended"}

\* A tunnel joins the probe with the provider whose SIM it asked for, after
\* Success was written to it, and nothing but Success.
TunnelsPaired ==
  \A c \in Conns : pc[c] \in {"use", "relay"} =>
    held[c] # None /\ target[held[c]] = Owner[c] /\ answer[held[c]] = "Success"

\* A probe is written at most one ConnectResponse, whatever the order in which
\* handlers, timeouts and the collectors reach it.
AnsweredOnce == [][\A q \in Probes : answer[q] # None => UNCHANGED answer[q]]_vars

\* The probe each connection's handler is relaying for, or about to.
Joined == [c \in Conns |-> IF pc[c] \in {"use", "relay"} THEN held[c] ELSE None]

Match == INSTANCE Matchmaking WITH
  wanted <- target,
  tunnel <- Joined,
  Refusals <- ConnectStatus \ {"Success"}

\* The server implements the matchmaking it promises: with every queue,
\* collector, timeout and requeue, each step is a step of Matchmaking or none.
IsMatchmaking == Match!Spec

\* A queued probe is open, unanswered and in the queue of its SIM's provider.
QueuedState ==
  \A p \in Providers : \A i \in DOMAIN items[p] :
    LET q == items[p][i] IN ppc[q] = "handed" /\ answer[q] = None /\ target[q] = p

\* How far a handler is with the probe it took.
HeldState ==
  \A c \in Conns : held[c] # None =>
    LET q == held[c] IN
    /\ target[q] = Owner[c]
    /\ \/ /\ pc[c] \in {"got", "unmark", "unmarkFull", "send", "await", "ended"}
          /\ ppc[q] = "handed" /\ answer[q] = None
       \/ /\ pc[c] \in {"decline", "ended"}
          /\ ppc[q] = "handed" /\ answer[q] = "NotAvailable"
       \/ /\ pc[c] \in {"use", "relay", "closing", "ended"}
          /\ ppc[q] = "handed" /\ answer[q] = "Success"
       \/ /\ pc[c] \in {"closing", "unuse", "ended"}
          /\ ppc[q] = "done" /\ answer[q] = "Success"

\* The states in which a handler works on a probe.
HandlerState ==
  \A c \in Conns :
    pc[c] \in {"got", "unmarkFull", "send", "await", "decline", "use", "relay", "closing", "unuse"}
      => held[c] # None

\* How far a probe's request is before it is handed over.
RequestState ==
  \A q \in Probes :
    /\ ppc[q] \in {"idle", "auth", "request", "resolved"} => answer[q] = None
    /\ ppc[q] \in {"idle", "auth", "request"} => target[q] = None
    /\ ppc[q] \in {"resolved", "handed"} => target[q] # None

\* Who has a probe tells how far its request is: waiting probes are open and
\* unanswered and in the right queue, a handler keeps a probe of its provider
\* until it has answered and closed it, a tunnel's probe is open while it runs, and
\* a handler that ends with an open probe has answered it or failed to read or to
\* forward its provider's answer.
HolderState == QueuedState /\ HeldState /\ HandlerState /\ RequestState

\* No lost wake-up: while a handler sleeps on the provider's queue, each entry
\* in that queue has a handler of its own that has been woken for it, even if that
\* has been cancelled since and must pass the wake-up on.
NoLostWakeup ==
  \A p \in Providers : Getters(p) # {} => Len(items[p]) <= Cardinality(Woken(p))

\* The handler that took the entry ended with an exception before answering.
Abandoned(q) == \E c \in Conns : pc[c] = "ended" /\ held[c] = q

\* Every probe in the queue's hands is answered in the end, unless it leaves
\* or the handler that took it fails: no entry waits in a queue for ever.
HandedIsSettled ==
  \A q \in Probes : ppc[q] = "handed" /\ answer[q] = None ~>
    answer[q] # None \/ gone[q] \/ Abandoned(q)

\* A handler whose provider has gone does not stay in the wait loop, also not
\* on a queue that has been collected under it.
DisconnectNoticed ==
  \A c \in Conns : pc[c] \in InLoop /\ disc[c] ~> pc[c] \notin InLoop

(***************************************************************************)
(* What comments and documents say, and the code does not do (README).     *)
(***************************************************************************)

\* provider_handler.py:214-220: after a response other than Success both
\* connections are closed; a declined probe is open only until its handler has
\* closed the provider's connection.
DeclinedIsClosed ==
  \A q \in Probes : ppc[q] = "handed" /\ answer[q] = "NotAvailable" =>
    gone[q] \/ \E c \in Conns : pc[c] = "decline" /\ held[c] = q

\* provider_handler.py:200-208: after a response that cannot be decoded both
\* connections are closed; no handler ends and leaves an open probe behind.
NoProbeLeftBehind ==
  \A c \in Conns : pc[c] = "ended" /\ held[c] # None =>
    ppc[held[c]] = "done" \/ gone[held[c]]

=============================================================================
