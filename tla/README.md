# Verification of MobileAtlas

MobileAtlas separates SIM cards from the places they are used in. A **SIM provider** offers its cards to a
**tunnel server**; a **probe** with a modem asks the server for one of them, and the server relays the modem's
APDUs to the card. A **management server** hands out the tokens and WireGuard addresses all of them need, and keeps
the probes' status; on the probe a **mediator** turns the signals of ModemManager and NetworkManager into events
that measurement scripts wait for.

The modules here model what of this is concurrent or must survive failure, TLC checks them on small instances, and
TLAPS proves the most important results for every instance.

Paths: `TS` is `src/mobileatlas/tunnel/src/moatt_server/src/moatt_server`, `CL` the `moatt_clients` beside it, `MG`
`src/mobileatlas/management/src/moat_management`, `WG` `src/mobileatlas/wg-daemon/src/wg_daemon`, `MS`
`src/mobileatlas/probe/measurement`, `PC` `src/pico-tunnel`.

## 1. Inventory

| Component | State it keeps | Operations | What is hard, and what makes it correct |
|---|---|---|---|
| Tunnel server, matchmaking (`TS/tunnel/server.py`, `*_handler.py`, `connection_queue.py`, `gc.py`) | one asyncio queue per provider in `_QUEUES`, one handler task per connection, the entry a handler has taken | connect, queue, take, offer, accept or decline, requeue, collect closed probes and idle queues | every `await` is an interleaving; both clients may vanish at each. No request is lost, duplicated or answered twice, and a tunnel joins who asked with who was asked |
| Tunnel server, relay (`handle_established_connection`, `apdu_stream.py`) | two receiving and two sending tasks, two queues, the APDU log | receive, log, forward, tear down | failure of either side, of the database or of a background task with packets under way. A tunnel is a FIFO channel that only loses its tail; the log is complete and causal |
| Tunnel server, SIM registry (`auth.py`, `models.py`, `rest/`) | tables `providers` and `sims` | `PUT /provider/sims`, lookup, expiry | concurrent transactions at READ COMMITTED. A card is offered once, by a provider that exists and lists it |
| Tunnel server, auth handler (`auth_handler.py`, `auth_handlers/`) | cached identities | identity, allowed | stale cache; service errors. An identity is the session's owner, and a refusal refuses |
| Clients (`CL`, `src/sim.py`, `simprovider/`, `probe/tunnel/`) | a stream each; the provider's device list and tunnel threads | connect, wait, respond, send and receive APDUs | fragmented messages, hot-plugging from two threads, lists that change while a request is under way. Messages arrive as sent, the server knows the SIMs, and a tunnel connects to the card that was asked for |
| Mediator and events (`MS/mediator`, `MS/utils/event_utils.py`) | last states of modem and device, three `EnhancedEvent`s, two `Event`s, observers | signals, waits with timeout and debounce, connect and disconnect | two threads. No wake-up is missed, events follow the managers, waits end |
| Tests and payloads (`MS/test`, `MS/payload`, `probe.py`) | return code, callbacks | `execute_test`, connect, measure, clean up | any call may raise; the clean-up must still happen |
| Credit checkers (`MS/credit`) | base bill, session at the operator, consumed units | retrieve, take a base, wait for the bill | operators that answer late, in part or not at all. What is recognised was billed; what was billed is recognised |
| Management, tokens (`MG/token_routes.py`, `auth.py`) | MAM tokens, candidates, log | register, activate, deactivate, revoke, delete, prune | a token changes between two steps of a request. An active token has a configuration |
| Management, WireGuard (`MG/wireguard_routes.py`, `wg_config.py`) and the daemon (`WG`) | configurations, the interface's peers, its saved file | register, add and remove peers | a database transaction around an HTTP call around a `sudo`, each with its own timeout. The saved file follows the interface, and its peers can be accounted for |
| Management, probe status (`MG/probe_routes.py`, `routes.py`) and the probe daemon (`src/setup/systemd`) | status intervals, Redis channels | poll, command, periodic check | poll against check; commands lost between polls. The history has no gaps, silence is noticed, long outages are reported |
| Management, tunnel authorisation (`MG/tunnel_auth`) | session tokens, scopes | login, list, authorise | tokens and probes deleted while used |
| Pico tunnel (`src/pico-tunnel`) | FIFOs between two cores, caches of the last response | T=0 and T=1 exchange, waiting-time extension | two cores, resets at any time, byte-wide lengths. A modem gets the response to its own command |
| Dashboard, configuration, pages, deployment, hardware | none of their own | | not modelled: rendering, settings, playbooks |

The parts meet as follows. A provider registers its SIMs over REST (registry), then opens connections (matchmaking);
each serves one tunnel at most. A probe names a SIM; the server resolves it in the registry, asks the auth handler,
and puts the connection into the queue of the SIM's provider. A provider's handler takes it, forwards the request,
and on success turns into the relay. The auth handler asks the management server for identities. On the probe, the
modem's SIM interface is bridged to the tunnel while a test drives the modem through the mediator.

`PROJECT.json` lists what of all this is hard to test ("hazards"), each at its line, with the property that covers it
or the reason that none does.

## 2. Plan

Done:

1. `TunnelServer`, the core: matchmaking at every await; its abstract specification `Matchmaking`; proofs.
2. `ApduRelay` with its abstract specification `DuplexChannel`: what follows a successful match.
3. `SimRegistry`: where the tunnel server's lookups come from.
4. `NetworkTest`: the mediator's events with the test thread that waits for them; proofs.
5. `WgDaemon`, `MamTokens`, `TunnelAuth`: who may use VPN and tunnel; one action per step between two awaits.
6. `ProbeStatus`: long polling, the periodic check, Redis and the daemon on the probe.
7. `PicoTunnel` and `Atr`: the modem's end of the tunnel.
8. `ConnectMessages`, `ClientStreams`, `SimProvider`: the clients; `CreditCheck`: the bill of a test.
9. `ManagementServer`: the parts of the management server over the tables they share.
10. Proofs about the tunnel server's waiting handlers, the relay with its refinement, the registry, and the management
    server as a whole.
11. Proofs about the provider's registrations and requests, and about the bills of all checkers.
12. Proofs about the Pico's exchanges and its T=1 counters.
13. Proofs about the codecs of the tunnel protocol, and that the clients' streams deliver what was sent.
14. A proof that `parse_ATR` agrees with the structure of every answer to reset.

Next:

15. The columns `in_use` and `available`, if the server comes to read them.

## 3. Modules

Four MC modules host components that belong together but whose product would be too large: a variable `part` is chosen
initially, the behaviour moves only that part, and the others stay in an initial state. An invariant or a liveness
property of a component is thus checked in the behaviours of its part.

| Host | Parts |
|---|---|
| `MCClients` | `server` (`TunnelServer`), `provider` (`SimProvider`), `client` (`ClientStreams` over `ConnectMessages`) |
| `MCSimPath` | `relay` (`ApduRelay`), `pico` (`PicoTunnel`), `atr` (`Atr` over many answers to reset) |
| `MCManagement` (over `ManagementServer`) | `saves`, `keys`, `races` (`MamTokens` and `WgDaemon` in three sizes), `tunnel` (`TunnelAuth`), `status` (`ProbeStatus`) |
| `MCNetworkTest` | `test` (`NetworkTest`), `bill` (`CreditCheck`) |

### `TunnelServer` (with `MCTunnelServer`)

`pc[c]` is where the handler of provider connection `c` is (`provider_handler.py`), `ppc[q]` where probe connection
`q` is (`probe_handler.py`); `items`, `present` and `stale` are `_QUEUES` (`connection_queue.py`); `held` is the entry
a handler has taken. One action is one run of a coroutine between two awaits. The choices made:

- **asyncio.Queue** is modelled with its waiters: `getter` is a task asleep on its future, `woken` one whose future was
  resolved and that has not run. The order in which waiters are woken is left open (asyncio wakes the oldest). A handler
  that cancels its `get` passes through `cancel` or `cancelWoken` until the task has run: its future may still be in
  `q._getters` and be counted there, so that a NO_WAIT request can be taken (`HasRoom`) or refused (`Full`) meanwhile.
- **Closing** is a wait of its own (`decline`, `closing`): `wait_closed` returns, or raises what the connection was lost
  with and ends the handler there, with everything after it left undone.
- **Time** is a flag: `stale` means MAX_PROBE_WAITTIME has passed since the queue's last `_get`; a timeout may fire
  whenever its wait has started.
- **Collected queues.** `orphan[c]` says that the handler waits on a Queue object that was deleted from `_QUEUES`. A
  later request creates a new queue, which that handler never sees.
- **Database.** `registered[p]` is the provider's row. `RowRemoved` deletes it (a registration by someone else, see
  `SimRegistry`), and then `mark_provider_available` and `mark_provider_unavailable` fail their assertions at the next
  await. `StableSpec` leaves `RowRemoved` out, for the runs that show something that happens without it.
- **Answers of other services** (identity, allowed, the SIM lookup, the provider's response) are inputs. Statuses other
  than Success are all refusals: the handler treats them alike.
- **NO_WAIT** requests are refused if every waiter has an entry already; an entry that was accepted may be requeued and
  then wait, which is not claimed to be right or wrong.
- Branches no run can reach are left out: `con_res is None` (`decode` raises instead), `sim.provider is None`.

`Matchmaking` is what the server promises: ask, refuse, join, part. `IsMatchmaking` is the refinement.

### `ApduRelay` (hosted by `MCSimPath`)

`inq`, `rd`, `hand` are a side's StreamReader, receiving task and its result; `hpc`, `todo`, `cur` the loop of
`handle_established_connection`, which handles finished tasks in set order; `sendq`, `stask` what `send_background`
queues and its task; `out`, `wst` the transport. A reset discards what is buffered. The sending tasks are awaited by
nobody: one that dies keeps its queue, and packets are still put into it. Closing waits until the buffer is flushed.
Packets carry the number of packets their sender had received, the means to state causality. A packet that cannot be
decoded ends the stream as end of file does. `IsRow(log, s, n, p)` says that the n-th row of sender `s` is packet `p`.

`DuplexChannel` is the abstract channel, and `IsChannel` the refinement: what is on its way to a side (`Transit`) is what
lies in its transport, its queue, the other side's receiving task and its reader, as far as each stage still passes it
on; a direction is `Broken` once one of them does not.

### `SimRegistry` (with `MCSimRegistry`)

`Register` is `register_provider` up to its flush: it reads the table and decides. `Commit` writes, if no key stands in
the way; deletions are by primary key, as the ORM issues them. Between them other registrations run, in the slots of
`Requests`: of other providers and of the same one, since a client's main thread, observer and card monitor each send
their list (`sim.py`) and neither `auth.py` nor `rest/main.py` serialises them. `written` is what a running
registration cannot know: rows of its provider, or rows it deletes, that others have written since it read the table; a
DELETE that had to wait does not see them (`missed`). `Abort` is any failure: a constraint, a deadlock that the database resolves, a lost
connection. The 201 or 204 of the response and the columns `available` and `in_use` are not modelled. `Expire` can
happen to any row, because `last_active` is never renewed.

### `NetworkTest`

Two threads. The GLib thread dispatches signals (`ModemAppears`, `ModemSignals`, `DeviceSignals`) and is then inside a
handler, one action per event it sets or clears (`UpdateEnabled`, `UpdateRegistered`, `UpdateConnection`,
`NotifyObservers`). The test thread is `at` a place of `execute_test` and, inside a wait, `wpc` tells how far it is:
about to look, asleep, woken, watching an event for its debounce interval, stirred by a change meanwhile, or locked
out by itself. The choices made:

- The modem's states are the four that are told apart by `is_modem_*`, the device's the three that matter.
- An event's time stamp is `none`, `young` or `old`: younger or older than the debounce interval.
- `threading.Event.wait` returns after a notification even if the event was cleared again; `EnhancedEvent` looks again.
- A call of the test thread may raise at any time, which leads to the `finally` clause; so may KeyboardInterrupt, but
  not in that clause.
- What ModemManager last said about a modem stays when it is unplugged, as in the code (`mm_modem_removed`).
- `ModemSignals`, `DeviceSignals` store a state; `HandlerRaises` is the same handler when one of the D-Bus calls of its log line fails first
  (`mobile_atlas_mediator.py:89`, `:116`): nothing is stored and the signal is lost. `said` keeps what each manager signalled last, or
  "lost". `EventsFollow` claims the events for a manager whose last signal was handled; after a lost one the events are stale until that
  manager signals again, which is what the code does.

### `WgDaemon`, `MamTokens`, `TunnelAuth`, `ProbeStatus`, `ManagementServer` (hosted by `MCManagement`)

`WgDaemon` is the interface (`live`), the file `wg-quick save` writes (`saved`) and the daemon's handlers (`job`). Each
`sudo` is a step that takes effect, fails, or is given up after ten seconds and takes effect later as an `orphan`. The
client's own timeout (`ClientTimeout`) leaves the daemon's handler running.

`MamTokens` is the rows of a token (`mam`, `config`, `probe`), the log of registration attempts, and the handlers (`req`)
that wait for the daemon with their transaction open. A handler with one transaction and no call inside is one action:
the unique and foreign keys let the later of two conflicting transactions fail. `row` tells a token's row from one that
was deleted and made again, which is what an update by primary key sees.

`TunnelAuth` adds MoAt tokens, session tokens and SIM permissions, and the tunnel server's side: `AcceptProbe`,
`RequestSim` (`get_sim`), `AskIdentity` with its cache. Nothing sets a token's expiry or a SIM's public flag, so neither
is modelled. `RequestSim` is what the code does with the management's answer, see section 6.

`ProbeStatus` is the status rows of a probe in order of insertion. `PollRead` and `PollCommit`, `CheckRead` and
`CheckCommit` are the transactions; what was read decides what is written to rows that may have changed. The check sends
the notices that are due before it commits: some, none without a webhook, and those after a call that raises not at all
(`told` and `unsent`). The daemon on
the probe authenticates, polls, executes, is given up by its connection and restarts. Time is a clock; a new interval,
one millisecond long in the code, has no length.

`ManagementSpec` (in `TunnelAuth`) has the handlers of tokens, configurations and sessions with the daemon they call.
`ServerSpec` (in `ManagementServer`) adds the polls, the check and the probes: all of them interleave over the same
tables, and whoever deletes a probe deletes its statuses (`DeleteStatuses`, the cascade of `models.py`).

### `PicoTunnel`, `Atr` (hosted by `MCSimPath`)

`core0` watches the reset line and the queues, `core1` runs T=0 or T=1 and is stopped by a reset wherever it is;
`usbOut` and `usbIn` are the messages to and from the proxy, which survive resets, and `half` and `torn` say that a
message was read in part. The modem sends commands of all cases, chains, S-blocks and resets at any time. Responses are
numbered by the command they answer, and lengths are those of the code, modulo 2^8 where it keeps them in eight bits.
`Atr` is `parse_ATR` as it computes and, for comparison, the structure of an answer to reset and what ISO 7816-3 reads
in it. A T=1 reader expects the block numbers of the standard, whatever the Pico sends; what it may not do if
`SequenceHolds` is to hold (`regular`) is decided by what it sends and expects itself.

### `ConnectMessages`, `ClientStreams`, `SimProvider` (hosted by `MCClients`)

`ConnectMessages` is `connect.py`: each `encode`, and each `decode` with its three outcomes: a message, the number of
bytes that are missing, malformed. `ClientStreams` is a probe or a provider on a connection whose bytes arrive in pieces
of any size: `rbuf` is `RawStream.buf`, `frag` what `read_message` has so far, and the `ApduStream` goes on with what the
`RawStream` has left. The server is external and may close or send garbage at any time.

`SimProvider` is the provider's three threads. `list` is its list of SIMs and `serverList` what the tunnel server
knows; the device observer and the card monitor change the list and each register it, `put` being what they have under
way. `tunnels` are the `SimTunnel` threads, each with the request it answers and the `device` of the entry that was found
for it; `TunnelStarts` connects to whatever `card` is in that device by then. Which card is plugged where is external;
`moved` records the cards that were taken out of a device.

### `CreditCheck` (hosted by `MCNetworkTest`)

A test's bill from the base (`execute_test_pre`) to the end of `wait_for_bill`. Traffic is one of four parts: an earlier
session's, two payloads of the test, of which one counts, and what follows. The operator bills each of them at any
time. The 22 checkers are records of traits: what they read (used units, units left, or a list of connections), over web
or SMS, whether zero is taken for no answer, which date they use, and single quirks. Four of them (A1 and RO Telekom by
web, SI A1 by SMS, SK O2 by web) are not registered in the factory; they are modelled like the others.

### Proof modules

`TunnelServerProofs` (invariants, the refinement, the waiting handlers); `ApduRelayProofs`; `SimRegistryProofs`;
`ManagementProofs`, also for `ManagementServer`; `ClientProofs` (`SimProvider`, `ConnectMessages`, `ClientStreams`);
`NetworkTestProofs`; `CreditCheckProofs`; `PicoTunnelProofs`.
Section 5 says what is in them.

## 4. What the runs check

| Run | Instance | Shows |
|---|---|---|
| `tunnel_safety` | 2 connections of one provider, 2 probes (one NO_WAIT), queue of 2 | `SingleHolder`, `HolderState`: an entry is in one place. `Accounted`: none is forgotten. `NoLostWakeup`: each entry of a queue somebody sleeps on has a handler that was woken for it. `AnsweredOnce` |
| `tunnel_pairing` | 2 providers with a connection each, 2 probes, queue of 1 | `TypeOK`, `TunnelsPaired`, and the refinement `IsMatchmaking` |
| `tunnel_liveness` | server: 2 connections, 1 probe, fairness; provider: a serial device, a reader, 4 cards; client: both roles, 2 packets | `HandedIsSettled`: a queued probe is answered unless it leaves or its handler fails. `DisconnectNoticed`: a handler whose provider has left stops waiting. `ServerKnows`: at rest the server knows the provider's SIMs, unless the last registration failed, could not list them, met another thread's, or was the first, of a list that had changed; a later one makes up for it. `RightSim`: the card a tunnel connects to is the SIM that was asked for, by IMSI or by its id in the same list, unless that SIM was taken out of a device: cards are swapped between listing, lookup and connection. `Delivered`: messages survive any fragmentation |
| `tunnel_declined` | 1 connection, 1 probe | violation, see section 6 |
| `tunnel_left_behind` | 1 connection, 1 probe | violation, see section 6 |
| `relay` | relay: 2 commands, 1 response, fairness; Pico: 3 commands, 2 resets, a T=0 and a T=1 card; ATRs of one to four groups | `TypeOK`, `LoggedBeforeSent`, `LogCausal`, the refinement `IsChannel`, `ComesDown`. `RepliesMatch`: the modem gets the whole response to its own command. `SequenceHolds`: T=1 counters agree, and so do the numbers of the blocks of a chain. `Served`: a command is answered. `AtrParsed` |
| `registry` | 2 requests, 2 providers (one protected), 2 ids, 2 cards | `OneOffer`, `OffererIsKnown`. `OfferedIsListed`: a registration that succeeds leaves the rows of its list, and rows that one beside it wrote |
| `registry_ids` | the same with one id, 2 cards | violation, see section 6 |
| `network_test` | 2 attempts, fairness; every credit checker | `TypeOK`, `NothingMissed`, `EventsFollow`, `ToldLast`, `SetWhenPassed`, `WaitsEnd`. `RecognisedIsBilled`, `NothingOverlooked`: the bill that ends a test has the test's traffic, and a bill that has it ends the wait |
| `network_test_lock` | 1 attempt, fairness | violation, see section 6 |
| `management` | up to 2 tokens, 2 handlers, 2 keys, 1 address, 2 jobs of the daemon, 2 sessions, a clock of 3, fairness | `SavedFollowsLive`, `ActiveHasConfig`, `PeersAreLogged`, `IdentityHolds`, `StatusesTile`, `OutageReported`, `SilenceNoticed` |
| `sim_request` | the same | violation, see section 6 |

**Bounds.** Two connections compete for an entry, one may requeue while the other sleeps or has been woken, and the
second probe is overtaken or finds the queue full: each hazard listed for the server needs two of one kind and one of
the other. Connections and probes are used once, as in the code, so a run of the model ends when they are used up
(hence CHECK_DEADLOCK FALSE there). For the relay, two commands are what it takes for one to overtake, be lost before
or be logged after the other, and one response to order them against. In the registry two requests overlap, of
two providers or of one, and the cards are one with both numbers and one with neither, as nullable unique columns allow
it; two ids let a card move from one to the other, or two cards meet at one id. Two
attempts let the network test fail once and try again; the modem may change state any number of times.

On the Pico, response lengths (`Lens`) are none, a status word, one that fits `le` (`LongLe`, 5), one that needs a
chain of T=1 blocks (`Ifsd`, 32), and two at the limit of the eight bits of the cached length (255, 256); three commands (`MaxCmds`) and two resets (`MaxResets`) let a reset cut a command and a
later one meet what it left; `MaxUsb` is never the limit before those. The provider's list has two entries (`MaxListed`),
one change of what is plugged in (`MaxPlugs`; a card that is swapped is one change) and one request (`MaxRequests`) after whatever was there at the start, and it
gives up after the first failed connection (`FailLimit` is 10 in the code, and only counts). A client exchanges two
packets (`MaxPackets`), so that one can arrive with the end of the other. A token has one row after its first
(`MaxRows`): it is deleted and made again. The clock runs to `OfflineFor` (3) at an `Interval` of 1, where an expiry, an
outage and its report all happen. A retrieval of a bill has one repetition (`Retry` is 5 in the code); the allowance
(`Quota`) is 4 units, of which earlier traffic, the test (2 and 1) and later traffic take 5, so that it is used up; the
reserve is 1.

**Fairness.** `TunnelServer!FairSpec` assumes what the event loop gives: a task that can run does, timeouts fire, the
collector comes round. It asks nothing of clients, and nothing of `DropClosed`. The relay's part of `PathFairness` adds
that a client reads what is written to it or TCP gives it up (`Flush`), without which `drain` and `wait_closed` never
return; the sending tasks need no fairness for `ComesDown`. For the Pico it says that both cores loop, that the proxy's
loop goes on, and that a modem sends the rest of a chain it has begun. `NetworkTest!FairSpec` assumes that both threads
run, and is strong for `TimesOut` and `DebounceOver`: between two looks the event may be set and cleared, which disables
them, but a deadline that has passed stays passed, so one of the looks after it ends the wait. `MCManagement` assumes
that the periodic check comes round (`CheckStep`): it is a task with an endless loop (`routes.py:164`). Signals,
interrupts, polls and the operator's actions are never assumed.

## 5. What is proved

Each theorem below says of a model, for every value of its constants, what a run checks for one. Constants are assumed
to be what the code makes them: finitely many connections, each of one provider; a positive MAX_QUEUE_SIZE; at least one
attempt; tags like `None` different from what they tag. Those assumptions are named in the modules (`TunnelAssumption`,
`RelayAssumption`, `RegistryAssumption`, `WgAssumption`, `TokenAssumption`, `TimeAssumption`, `ProviderAssumption`, `ClientAssumption`,
`RetriesAssumption`, `CreditAssumption`, `PicoAssumption`), and TLC evaluates them. Bounds on counters (`MaxApdus`,
`MaxRows`, `MaxTime`) are constants like others: what is proved holds whatever they are.

### Tunnel server

`TunnelServerProofs`: `TypeCorrect`, with the queue bound; `ProbesHaveOneHolder` (`SingleHolder`);
`HoldersKnowTheirProbes` (`HolderState`); `TunnelsArePaired`; `ProbesAnsweredOnce`; `ServerIsMatchmaking`, the server
implements `Matchmaking`.

The invariant is `IInv == TypeOK /\ SingleHolder /\ HolderState`. `SingleHolder` alone is not inductive: a handler that
requeues its entry may only do so if the probe is in no queue, and a probe may only be enqueued if no handler has it.
`HolderState` ties the places together: a queued probe is handed over, unanswered and in the queue of its SIM's
provider; a held one belongs to the handler's provider and is unanswered exactly until that handler answers it. Under
it each action moves a probe from one place to one other. `TunnelsPaired` is a conjunct's consequence, `AnsweredOnce`
follows because every action that writes an answer holds an unanswered probe, and so does the refinement: such an
action is `Join` or `Refuse`, the collectors' a `Refuse` of a set of probes, and all others stutter or `Part`.

And of the waiting handlers, for any number of them and of entries:

- `NoWakeupIsLost` (`NoLostWakeup`): if somebody sleeps on a queue, there is a handler that was woken for each of its
  entries. An action is told by what it does to three numbers, the sleepers, the woken and the entries of each queue: it
  adds an entry and wakes one, a woken handler leaves with an entry, or one that is cancelled after it was woken wakes
  the next. A lemma for each of these says that the inequality stays; an action only has to be shown to be one of them.
- `ProbesAreAccountedFor` (`Accounted`): a probe that was handed over and is still open is in a queue, with a handler or
  in its tunnel or declined and about to be closed, or its handler has failed. The proof follows a probe from place to place under `IInv`.

### Relay

`ApduRelayProofs`, for any number of packets in either direction:

- `RelayTypeCorrect` (`TypeOK`), which includes that a finished receiving task holds one packet.
- `LogIsComplete` (`LoggedBeforeSent`): what a client has received or the server has written for it was logged before,
  in order and without a gap.
- `LogIsCausal` (`LogCausal`): a packet is logged after every packet that its sender had received.
- `RelayIsChannel` (`IsChannel`): the relay implements `DuplexChannel`.

The invariant is `TypeOK /\ StageInv /\ FlowInv /\ LogInv /\ CauseInv`. `StageInv`: where the handler and the receiving
tasks can be together. `FlowInv`: nothing is duplicated on the way, so that numbers stay within the types. `LogInv`: what
a side has received, what lies in its transport and what is queued for it is what was logged, in order, and all of it
unless the transport is closed. `CauseInv`: of a packet that is read and not logged yet, everything its sender had
received is logged. `LoggedBeforeSent` and `LogCausal` are consequences; alone, neither knows of the queue between log
and transport.

The refinement goes action by action: `ClientSends` is `Send`; `Flush` is `Deliver`, and breaks the direction if the
transport closes with it; a lost connection and the handler's tear-down are `Break`, where what is left on the way is a
prefix of what there was; taking a packet, logging it, queueing and writing it move it within `Transit` and stutter.
A sending task only dies when its transport is closed, so that its direction is broken before.

### SIM registry

`SimRegistryProofs`, for any providers, ids, cards and number of overlapping requests: `CardsAreOfferedOnce`
(`OneOffer`), `OffersAreListed` (`OfferedIsListed`), `OfferersAreKnown` (`OffererIsKnown`). The invariant adds what a
running transaction relies on: it adds rows of its own list only and does not remove its own provider
(`WritesItsList`), and each row of its provider that it will leave is the card its list has there or was written since it
read the table (`KeepsItsList`), because others can only write or remove rows meanwhile. `OfferedIsListed` is an action
property: it follows from what a commit does (`Committed`, `RowsAfterCommit`) in a state with the invariant.

### Management server

`ManagementProofs`, about `ManagementSpec`, for any tokens, keys, addresses, sessions and handlers at once:

- `SavesAreNotLost` (`SavedFollowsLive`). The invariant `WgInv` says who holds the lock, that a change which is not in
  the file is about to be read or was read as it is now, and that a handler about to write something older is followed
  by another that waits for the lock.
- `ActiveTokensAreConfigured` (`ActiveHasConfig`). `MamInv` adds what a handler has loaded: its row is there, or is
  counted among the deleted ones, and while the daemon is asked that row keeps its configuration (`AddingHasConfig`).
- `EveryPeerIsLogged` (`PeersAreLogged`). `LogInv` follows a key back from the file over the interface, the daemon's
  handler and the request to the log; the theorem needs all of them.
- `CachedIdentityHolds` (`IdentityHolds`). `AuthInv` adds that no identity is cached of a session that does not exist yet,
  and that a probe's session belongs to a token's probe.

Their invariant, `IInv`, is the conjunction of the four.

And about `ServerSpec`, the whole server:

- `ServerImplementsManagement`: the server with polls, checks and probe daemons implements `ManagementSpec`, so the four
  theorems above hold of the whole.
- `IntervalsTile` (`StatusesTile`) and `OutagesAreReported` (`OutageReported`), from `IInv /\ StatusInv`. A transaction has
  read rows that others may have changed since. `PollReads` and `CheckReads` say what remains true of them: they are
  there, they have the kind and the begin that were read, and if their outage was long enough when they were read, it
  was noticed (`Noticed`: reported, or due in a check that could not send it and committed). `OneAtATime` says that without an overlap the rows are still exactly what was read. The first carries
  `OutageReported` through overlaps, the second `StatusesTile` where none was.

### Provider

`ClientProofs`, for any serial devices, readers, cards and requests (with the type invariant, `ProviderTypeCorrect`):

- `ServerKnowsTheSims` (`ServerKnows`). `KnowInv`: unless the last registration was lost, no more than one is under way
  and it is of the list as it is, and when none is, the server has that list. Three threads register, so each action is
  either silent, or begins a registration (`missed` says then what was met), or ends one.
- `TunnelsRunOnTheirSim` (`RightSim`). A request names a SIM the server knew (`RequestInv`), and the provider looks it up
  in its own list: by IMSI it finds the card of that number; by id the entry at that place, which is the server's if the
  list is the same. An entry is only a device's link, so the rest is about devices: every entry that is listed has its
  card in its device, unless the card was taken out (`ListInv`; it survives the swap of another card, and a device that is
  removed from the list), and so has every tunnel that waits to connect (`TunnelsInv`). What is first in a list, and what
  is left of it when a device goes, are lemmas of their own, on the least of a set of places.

### Codecs and streams

`ClientProofs`, for any token, identifiers and packets as `ClientAssumption` has them, which is as the constructors of
`connect.py` take them: a token that its length field can count, 5 to 15 or 20 digits, a SIM's number of 32 bits (the
limit of the model, see section 7), a payload of less than 1024 bytes.

- `Reads(d, n, len, m)` says of what a decoder returns, `d`, that it is right for `n` bytes of a message `m` that is `len`
  bytes long: short of the whole, it asks for at least one byte and for no more than are missing; of the whole, it is the
  message. That is what `read_message` and `ApduStream.recv` rely on to stop exactly at a message's end. `ApduReads`,
  `ConnectRequestReads` (every kind of identifier) and lemmas for the other messages a client reads say it of the
  decoders of `connect.py`; `AuthRequestWhole` is what the server needs. The lemmas on `struct.pack` and `unpack`
  (`Unpack2Pack`, `Unpack4Pack`) and on slices of byte strings carry them; a recursion over four bytes is written out.
- `DeliveredAlways` (`Delivered`): whatever pieces the bytes arrive in, both sides decode exactly the messages that were
  sent, in order, and a client calls only garbage malformed.

The invariant, `StreamInv`, says where every byte is. As long as the reader goes on, what it has of the message it reads
(`frag`), then `rbuf`, then `wire`, are the encodings of the messages that were said and not heard yet, one after another
(`Laid`, `Framed`); each of them is of the kind that is due there, or garbage, so the decoder in use is one that reads it
or calls it malformed. Towards the server a message is one write, and `upstream` has the encodings of what was meant and
not taken (`InOrder`). Reading keeps this by the decoders' lemmas: a reader that takes no more than it was told to be
missing stays within the first message, or has all of it (`ReadStep`). All other steps move bytes from one buffer to the
next (`Regroup`) or add a message at the end (`SayStep`, `SendStep`). Induction over the list of messages is avoided by
saying at which byte of the stream each message ends.

### Bills

`CreditCheckProofs`, for all 22 checkers, any number of attempts (`Retry`), any allowance and reserve:

- `RecognisedWasBilled` (`RecognisedIsBilled`). `BaseInv`: no base was taken before the bill before the test was asked for;
  `LateInv`: nor was an answer by SMS that may still come. What is new in an answer was therefore billed since
  (`EvidenceIs`), and the units of the bill are no more than its volume and the reserve (`UnitsWereBilled`).
- `NoBillIsOverlooked` (`NothingOverlooked`). Two answers of one operator are comparable (`LateInv` again), so a bill
  that has what the base has not has all of the base, and its units cover what was consumed (`UnitsCover`) unless none
  are left. `OperatorInv`: nothing is billed that was not transferred and counted, and the reserve is not held back
  when the bill is waited for.

The checkers differ in traits only, and one lemma (`CheckerTraits`) says which of them go together.

### Pico

`PicoTunnelProofs`, about `PicoSpec`, for any answers to reset, lengths of responses, block sizes, commands and resets
(with the type invariant, `PicoTypes`):

- `RepliesAreTheirCommands` (`RepliesMatch`). `FlightInv`: unless a reset cut a command, at most one command is in one of
  three places (on its way to the proxy, at the proxy, its response on the way back), and the second core waits for it.
  `ContentInv`: what is there is the modem's command or its response, and what the modem was told to fetch is what the
  card did last and, modulo 256, what the Pico has cached.
- `CountersAgree` (`SequenceHolds`). `CounterInv`: the two counters are one apart before the first command and equal
  afterwards; a chain the reader may take begins with 0, so that the command's counter stays 0 in it, and the response's
  counter is the bit of its next block.

`ProtocolInv` goes with both: the second core runs the protocol of the last answer to reset, and a header that was read
has its message waiting. Of the two protocols only one is at work, so an action of the other leaves them alone. A reset
is the one action that can break the exchange at any place; it either finds nothing under way or counts as a cut.

And about `parse_ATR`, for any set of answers to reset whose announced bytes are all there (`PicoAssumption`):

- `AtrsAreParsedRight` (`AtrParsed`). The lemma behind it, `AtrRight`, is about one such sequence of bytes and no state.
  `StartsHold` and `GroupsHold` say where the groups of interface bytes start and that there is a last one, since each
  TD takes a byte (`SomeIsLast`); if the last group lies inside the ATR, so do all before it (`WholeIsLaidOut`). The
  variables `td` and `index` of `parse_ATR` are where the next group starts, after the first (`FirstIs`), the second
  (`SecondIs`) and each turn of the loop (`LaterIs`); once the last group is read, `td` announces nothing and the loop is
  done. So `Turning`, a set of values of the loop's variables, is one the loop never leaves. Protocol, F and D are
  decided by the first group and no turn changes them (`FirstRight`); the field size and the waiting times are decided
  by the first turn if the third group is the last (`ThirdRight`), and stay the defaults, for any number of groups, if
  none behind the second is for T=0 or T=1 (`DefaultsStay`). `Interface` counts the bytes before TA, TB and TD. Two
  cases are not claimed, since the code reads them in its own way (section 6): no TD1, and a group for T=1 that has
  another behind it.

Both the structure and the loop are recursive functions. That they are what their equations say is proved here rather
than taken from the library (`Recursion`: a start and a step define a function on the naturals), and facts about all of
their values are proved by a least counterexample (`LeastOf`, `Forever`).

### Mediator

`NetworkTestProofs`, for any number of attempts: `TypeCorrect`, `NothingIsMissed`, `EventsFollowManagers`,
`ObserversAreUpToDate`, `PassesOnlyWhenSet`.

Its invariant adds to the type invariant where a thread can be in which stage of a wait (`WaitState`), and what the
events and observers know at each step of a handler (`EventsState`, `ToldState`): `EventsFollow` and `ToldLast` only
speak of the moments between two handlers, so they are not inductive.

### Only model-checked

All liveness (`HandedIsSettled`, `DisconnectNoticed`, `ComesDown`, `Served`, `WaitsEnd`, `SilenceNoticed`): fairness and
ENABLED are out of the prover's reach. Every invariant, every action property and both refinements that the runs check
are theorems.

## 6. Where the code departs from what it says

- **A declined probe can stay open** (`tunnel_declined`). `provider_handler.py:214-216` logs "Received unsuccessful
  connection status response. Closing connections.", and the code then closes the provider's connection, waits for that
  (`wait_closed`), and closes the probe's. If the wait raises what the connection was lost with, the handler ends and the
  probe has its answer and a connection that nobody closes.
- **A malformed response leaves the probe open** (`tunnel_left_behind`). `provider_handler.py:200-208` means to close both
  connections, but `ConnectResponse.decode` raises instead of returning None: the branch is dead, and the probe, taken
  from the queue, is neither answered nor closed. The same happens on end of file.
- **SIM ids are not the provider's own** (`registry_ids`). Protocol.md says that they "can be freely chosen by a client";
  `auth.py:111` looks for them among all providers' SIMs and deletes what it finds.
- **A debounced wait can lock itself out** (`network_test_lock`). `wait_debounced` calls itself with the event's lock
  held (`event_utils.py:88`), which is not reentrant, so `wait_modem_registered` does not time out as it logs
  (`mobile_atlas_mediator.py:181`), and the GLib thread stops at its next update of the event. `WaitsEnd` therefore says
  that a wait ends or gets there.
- **A refused SIM request is granted** (`sim_request`). `probe_handler.py:82` logs "Received disallowed SIM request from
  probe. Closing connection." where `get_sim` raises; `get_sim` tests `not` of an enumeration whose members are all true
  (`auth.py:245`, `auth_handler.py:11-18`), so that it raises only if the SIM is unknown or the management's answer is an
  error.

Some more, which the models contain and for which no line of the repository promises otherwise; the properties name them
as exceptions where they bear on them:

- *Management.* Pruning candidates violates the foreign key of their log rows, so that such a registration fails. A poll
  and the check that overlap can leave two active statuses. A registration with a new key leaves the old key's peer. A
  token with session tokens loses its peer, and then cannot be deleted. A command sent between two polls is lost.
  A notice that the webhook does not take is lost for good, with those after it in the same check: the failure is logged,
  the end of the interval is committed, and the threshold is not crossed again (`unsent`).
- *Registry.* Two registrations of one provider that overlap can leave rows of both lists: the later one neither sees nor
  deletes what the earlier one has written since it read the table. The next registration puts it right.
- *Tunnel server.* The collector (`connection_queue.py:126`) deletes a queue that saw no `_get` for a while although a
  handler sleeps in it; the next probe goes to a new queue, and the handler waits beside it until its provider leaves.
  A probe that was declined, or whose SIM could not be marked as used, stays open if closing the provider's connection
  raises first. A SIM index counts the SIMs of all providers. `last_active` is never renewed. `sim_unused` is skipped if
  a writer fails to close.
- *Pico.* A reset in an exchange leaves the old response in the USB buffers, and replies are off by one from then on. A
  response of 256 bytes or more is cut to its length modulo 256. An empty response of the tunnel is told as 6C FE.
  T=0 without PPS takes the first command for one. T=1 counts from 1, which is right after one S-block; a chain that starts
  with bit 1 numbers its second block 1. The proxy sends one fixed ATR. A card without TD1, which speaks T=0, is refused
  ("ATR parsing failed", `pico_poc.c:565`). The parameters of a group are taken by the T of the group behind it
  (`util.c:918`), so that a group for T=1 followed by one for T=15 leaves the defaults.
- *Provider and clients.* The first list is sent before changes are listened for, and two threads can register in either
  order. A SIM id is a place in a list that may have changed. A card that cannot be read is listed as None, which breaks
  the list's next use, as does a T=1 card; removed readers stay listed. A tunnel runs on the device of an entry: for a SIM
  that was taken out since it was listed, it runs on the card that is there instead, and nothing compares their numbers.
  `ModemTunnel.shutdown` calls `deregister`, a
  name that is defined nowhere in it. `SimTunnel` calls `write_all` on an `ApduStream`, which has no such method.
- *Mediator.* A removed modem's events stay set; the states of a modem that is there at the start are not asked for; a
  clean-up that raises does not reach `shutdown`.
- *Bills.* yesss has no base, so that entries of the five minutes before the start count. spusu compares dates with and
  without a time zone and swallows failures: its wait ends by the timeout of ten hours. An allowance that is used up is never
  recognised, because no base is subtracted from zero. The bases of RO Orange (10 MB) and SK 4ka (8 MB) are lowered, which
  can recognise a bill early. One satisfied unit is enough: an entry per connection, or the date. The schema says that a
  delta of 0 turns the date off; the code only asks whether it is None. A failed payload's size counts as consumed.

## 7. What is not modelled

- Tunnel server: the columns `in_use` and `available` (nothing reads them), identifiers of 64 bits.
- Probe: the direct mode of `modem_tunnel.py`; SMS, calls, USSD, the veth and byte counters of the mediator; the
  measurements themselves; the constants of the D-Bus interfaces.
- Credit: the operators' pages and how they are parsed (an answer is what it says), prices (`get_csv_bill_info`), the
  zero-rated split of A1's SMS.
- Pico: cards of the inverse convention, the waiting-time extension, the bytes of damaged blocks, measurements and debug
  output.
- Management: the system information probes post, names and countries, the WireGuard status page: stored and shown only.
- The dashboard, the pages, the configuration, the playbooks, the status page of the probe and the hardware have no state
  worth checking, or belong to others.
