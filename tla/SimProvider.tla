---------------------------- MODULE SimProvider -----------------------------
(***************************************************************************)
(* A SIM provider (sim.py, simprovider/): one thread looks for serial      *)
(* devices and card readers, the card monitor's thread reports cards, and  *)
(* both change the list of SIMs and, through a callback, register it at    *)
(* the tunnel server over HTTP.  The main thread registers the SIMs it has *)
(* found at first and then serves requests; each one starts a SimTunnel    *)
(* thread on the link of an entry's device, whatever card the device has   *)
(* when the thread connects to it.  In direct mode nothing is registered   *)
(* and clients connect to the provider itself.                             *)
(*                                                                         *)
(* A card is a SIM with an IMSI, a T=1 card (which has the hash of its     *)
(* reader's name for an IMSI and no ICCID) or "blank": one whose ICCID     *)
(* cannot be read, for which query_sim_info returns None, which is listed. *)
(* Tunnels end or not by what their peers do; the bytes they relay are     *)
(* the matter of ClientStreams.                                            *)
(***************************************************************************)
EXTENDS Integers, Sequences, FiniteSets

CONSTANTS Serials,     \* serial devices
          Readers,     \* PC/SC readers
          Sims,        \* cards with ICCID and IMSI
          T1Cards,     \* T=1 cards
          Blank,       \* a card whose ICCID cannot be read
          Empty,       \* no card
          FailLimit,   \* 10 in the code: failed connections in a row main accepts
          MaxListed,   \* bound: entries of the list
          MaxPlugs,    \* bound: times something is plugged or unplugged
          MaxRequests  \* bound: requests for SIMs

Devices == Serials \cup Readers
AnyCard == Sims \cup T1Cards \cup {Blank}

ASSUME ProviderAssumption == /\ Serials \cap Readers = {} /\ Empty \notin AnyCard
                             /\ {FailLimit, MaxListed, MaxPlugs, MaxRequests} \subseteq Nat

VARIABLES
    direct,      \* direct mode
    plugged,     \* devices that are there, with the card in them
    plugs,       \* how often that has changed
    current,     \* SerialObserver.current_devices
    seen,        \* what the card monitor has reported: readers with their card
    list,        \* SimProvider.sims, as records of device and card
    listening,   \* device_change_callback is set
    put,         \* each thread: what it is registering, and for which reader
    serverList,  \* the list the tunnel server knows
    main,        \* the main thread: where it is
    first,       \* the list it has read at first
    fails,       \* failed_connections
    request,     \* the request it is serving
    requests,    \* how many there were
    tunnels,     \* the SimTunnel threads that were started
    missed,      \* history: the last registration was lost, see Overtaken
    moved        \* history: cards that were taken out of a device, or with it

providerVars == <<direct, plugged, plugs, current, seen, list, listening, put, serverList, main, first,
                  fails, request, requests, tunnels, missed, moved>>
plugVars == <<plugged, plugs, moved>>
deviceVars == <<plugVars, current, seen>>
mainVars == <<direct, main, first, fails, request, requests, tunnels>>

Threads == {"main", "observer", "monitor"}
NoRequest == [kind |-> "none"]
Entry(d, c) == [device |-> d, card |-> c]

ProviderTypeOK ==
    /\ direct \in BOOLEAN /\ listening \in BOOLEAN /\ missed \in BOOLEAN
    /\ DOMAIN plugged \subseteq Devices /\ \A d \in DOMAIN plugged : plugged[d] \in AnyCard \cup {Empty}
    /\ current \subseteq Devices /\ DOMAIN seen \subseteq Readers
    /\ \A i \in DOMAIN list : list[i] \in [device : Devices, card : AnyCard]
    /\ \A t \in Threads : Len(put[t]) <= 1
    /\ main \in {"list", "token", "register", "wait", "start", "stopped"}
    /\ fails \in 0..(FailLimit + 1) /\ moved \subseteq AnyCard \cup {Empty}

\* A card is in one place; only readers have T=1 cards or none.
Plausible(f) == /\ \A d \in DOMAIN f : d \in Serials => f[d] \in Sims \cup {Blank}
                /\ \A d, e \in DOMAIN f : f[d] = f[e] /\ d # e => f[d] \in {Blank, Empty}

Without(f, d) == [x \in DOMAIN f \ {d} |-> f[x]]
With(f, d, c) == [x \in DOMAIN f \cup {d} |-> IF x = d THEN c ELSE f[x]]

ProviderInit ==
    /\ direct \in BOOLEAN
    /\ plugged \in UNION {[D -> AnyCard \cup {Empty}] : D \in SUBSET Devices} /\ Plausible(plugged)
    /\ plugs = 0 /\ current = {} /\ seen = <<>> /\ list = <<>>
    /\ listening = FALSE /\ put = [t \in Threads |-> <<>>] /\ serverList = <<>>
    /\ main = IF direct THEN "wait" ELSE "list"
    /\ first = <<>> /\ fails = 0 /\ request = NoRequest /\ requests = 0 /\ tunnels = {}
    /\ missed = FALSE /\ moved = {}

-----------------------------------------------------------------------------
(* Devices and cards come and go; a reader's card may be replaced faster   *)
(* than anyone looks.                                                      *)

InReader(d) == IF d \in DOMAIN plugged THEN plugged[d] ELSE Empty

Plug(d, c) ==
    /\ plugs < MaxPlugs /\ plugs' = plugs + 1 /\ moved' = moved \cup {InReader(d)}
    /\ d \in DOMAIN plugged => d \in Readers /\ plugged[d] # c
    /\ plugged' = With(plugged, d, c) /\ Plausible(plugged')
    /\ UNCHANGED <<current, seen, list, listening, put, serverList, mainVars, missed>>

Unplug(d) ==
    /\ plugs < MaxPlugs /\ plugs' = plugs + 1 /\ moved' = moved \cup {InReader(d)}
    /\ d \in DOMAIN plugged /\ plugged' = Without(plugged, d)
    /\ UNCHANGED <<current, seen, list, listening, put, serverList, mainVars, missed>>

-----------------------------------------------------------------------------
(* SimProvider                                                             *)

\* query_sim_info and prepare_sim_interface: a card that answers is listed,
\* also as None; an exception is logged.
Prepare(d) ==
    IF d \in DOMAIN plugged /\ plugged[d] # Empty THEN Append(list, Entry(d, plugged[d])) ELSE list

HasNone == \E i \in DOMAIN list : list[i].card = Blank

\* get_sims of sim.py raises for a card that has no name, ICCID or IMSI.
Listed(l) == \A i \in DOMAIN l : l[i].card \in Sims

\* With the callback set, thread t's list of SIMs may not become the server's:
\* the listing raises, or another thread is registering a list just now, which
\* may reach the server after this one.
Overtaken(t, l) == ~Listed(l) \/ \E u \in Threads \ {t} : put[u] # <<>>

\* Mutant of Notify: the callback is called only if there are more SIMs now.
NotifyGrown(t, l, reader) ==
    /\ list' = l
    /\ put' = IF listening /\ Listed(l) /\ Len(l) > Len(list)
              THEN [put EXCEPT ![t] = <<[sims |-> l, reader |-> reader]>>] ELSE put
    /\ missed' = IF listening THEN Overtaken(t, l) ELSE missed

\* device_added and device_removed end with the callback, if it is set: it
\* lists the SIMs and puts the list, which makes up for what was missed before.
Notify(t, l, reader) ==
    /\ list' = l
    /\ put' = IF listening /\ Listed(l)
              THEN [put EXCEPT ![t] = <<[sims |-> l, reader |-> reader]>>] ELSE put
    /\ missed' = IF listening THEN Overtaken(t, l) ELSE missed

\* The entries of other devices, in their order.
RemoveDevice(l, d) ==
    LET kept == {i \in DOMAIN l : l[i].device # d} IN
    [k \in 1..Cardinality(kept) |-> l[CHOOSE i \in kept : Cardinality({j \in kept : j <= i}) = k]]

\* device_removed: all entries with that device's name, but a None in the list
\* makes it raise.
NotifyRemove(t, d) ==
    IF HasNone THEN UNCHANGED <<list, put, missed>>
    ELSE Notify(t, RemoveDevice(list, d), {})

-----------------------------------------------------------------------------
(* SerialObserver.observe, device by device.                               *)

ObserverIdle == put["observer"] = <<>>

\* A new serial device is noted before it is reported.
ObserveSerial(d) ==
    /\ ObserverIdle /\ d \in (DOMAIN plugged \cap Serials) \ current
    /\ current' = current \cup {d}
    /\ Len(list) < MaxListed /\ Notify("observer", Prepare(d), {})
    /\ UNCHANGED <<plugVars, seen, listening, serverList, mainVars>>

\* A new reader is noted after it was reported: if that raises, it is new
\* again in the next round, and its card is listed once more.
ObserveReader(d) ==
    /\ ObserverIdle /\ d \in (DOMAIN plugged \cap Readers) \ current
    /\ Len(list) < MaxListed /\ Notify("observer", Prepare(d), {d})
    /\ current' = IF listening THEN current ELSE current \cup {d}
    /\ UNCHANGED <<plugVars, seen, listening, serverList, mainVars>>

\* A device that is gone is reported as a serial one: readers are not found.
ObserveGone(d) ==
    /\ ObserverIdle /\ d \in current \ DOMAIN plugged
    /\ current' = current \ {d}
    /\ NotifyRemove("observer", IF d \in Serials THEN d ELSE Empty)
    /\ UNCHANGED <<plugVars, seen, listening, serverList, mainVars>>

-----------------------------------------------------------------------------
(* DeviceObserver.update, called by the card monitor.                      *)

MonitorIdle == put["monitor"] = <<>>
Seen(d) == IF d \in DOMAIN seen THEN seen[d] ELSE Empty

MonitorAdds(d) ==
    /\ MonitorIdle /\ d \in Readers /\ Seen(d) = Empty /\ InReader(d) # Empty
    /\ seen' = With(seen, d, plugged[d])
    /\ Len(list) < MaxListed /\ Notify("monitor", Prepare(d), {})
    /\ UNCHANGED <<plugVars, current, listening, serverList, mainVars>>

\* get_scard_reader finds no reader that is gone.
MonitorRemoves(d) ==
    /\ MonitorIdle /\ Seen(d) # Empty /\ InReader(d) # Seen(d)
    /\ seen' = Without(seen, d)
    /\ NotifyRemove("monitor", IF d \in DOMAIN plugged THEN d ELSE Empty)
    /\ UNCHANGED <<plugVars, current, listening, serverList, mainVars>>

\* register_sims is over, and the observer notes the reader it was for.  If it
\* fails, the thread logs it and goes on; main stops.
FinishPut(t, ok) ==
    /\ put[t] # <<>> /\ put' = [put EXCEPT ![t] = <<>>]
    /\ serverList' = IF ok THEN put[t][1].sims ELSE serverList
    /\ current' = IF ok THEN current \cup put[t][1].reader ELSE current
    /\ missed' = (missed \/ ~ok)
    /\ main' = IF t # "main" THEN main ELSE IF ok THEN "wait" ELSE "stopped"
    /\ UNCHANGED <<plugVars, seen, list, listening, direct, first, fails, request, requests, tunnels>>

-----------------------------------------------------------------------------
(* main of sim.py, in server mode.                                         *)

\* The list is read before there is a callback; an exception ends main, while
\* the other threads go on.
FirstList ==
    /\ main = "list"
    /\ first' = list /\ main' = IF Listed(list) THEN "token" ELSE "stopped"
    /\ UNCHANGED <<deviceVars, list, listening, put, serverList, direct, fails, request, requests, tunnels, missed>>

\* register_provider returns a session token, or raises, which ends main.
SessionToken(ok) == main' = IF ok THEN "register" ELSE "stopped"

\* With a session token, the callback is set.
RegisterProvider(ok) ==
    /\ main = "token"
    /\ SessionToken(ok)
    /\ listening' = ok
    /\ UNCHANGED <<deviceVars, list, put, serverList, direct, first, fails, request, requests, tunnels, missed>>

\* The list of before is registered, maybe over a newer one.
FirstRegistration ==
    /\ main = "register" /\ put["main"] = <<>>
    /\ put' = [put EXCEPT !["main"] = <<[sims |-> first, reader |-> {}]>>]
    /\ missed' = (first # list \/ \E t \in Threads : put[t] # <<>>)
    /\ UNCHANGED <<deviceVars, list, listening, serverList, mainVars>>

\* Mutant of get_sim: ids count from one.
get_simFromOne(req) ==
    IF req.kind = "id"
    THEN IF req.id > 1 /\ req.id <= Len(list) THEN <<list[req.id - 1]>> ELSE <<>>
    ELSE LET n == {i \in DOMAIN list : list[i].card = req.sim} IN
         IF n = {} THEN <<>> ELSE <<list[CHOOSE i \in n : \A k \in n : i <= k]>>

\* get_sim of sim.py: by its place in the list, or by its IMSI, where a card
\* without one makes it raise.  The result is a sequence of one, or empty.
get_sim(req) ==
    IF req.kind = "id"
    THEN IF req.id <= Len(list) THEN <<list[req.id]>> ELSE <<>>
    ELSE LET n == {i \in DOMAIN list : list[i].card = req.sim} IN
         IF n = {} THEN <<>> ELSE <<list[CHOOSE i \in n : \A k \in n : i <= k]>>

\* get_sims of SimProvider logs every name and IMSI, which a None has not; an
\* identifier is compared with an IMSI as long as nothing has been found.
Raises(req) ==
    \/ HasNone
    \/ /\ req.kind = "imsi"
       /\ \E i \in DOMAIN list : /\ list[i].card \in T1Cards
                                 /\ \A k \in 1..i : list[k].card # req.sim

\* What a probe asks for, and the server has found in its registry: entry i,
\* by its id (1 stands for 0) or by its IMSI.
Asked(i, kind) == [kind |-> kind, id |-> i, sim |-> serverList[i].card, known |-> serverList]

Failed == /\ fails' = fails + 1
          /\ main' = IF fails' > FailLimit THEN "stopped" ELSE "wait"
          /\ request' = NoRequest

\* wait_for_connection: a request comes and the callback provides_sim answers
\* it; a refusal is an exception like the others.
ServeRequest(i, kind) ==
    /\ main = "wait" /\ ~direct /\ requests < MaxRequests
    /\ i \in DOMAIN serverList
    /\ requests' = requests + 1
    /\ LET req == Asked(i, kind) IN
       IF Raises(req) \/ get_sim(req) = <<>> THEN Failed
       ELSE main' = "start" /\ request' = req /\ fails' = 0
    /\ UNCHANGED <<deviceVars, list, listening, put, serverList, direct, first, tunnels, missed>>

\* No connection, or authentication is refused.
WaitFails(auth) ==
    /\ main = "wait" /\ ~direct /\ requests < MaxRequests
    /\ requests' = requests + 1
    /\ IF auth THEN main' = "stopped" /\ UNCHANGED <<fails, request>> ELSE Failed
    /\ UNCHANGED <<deviceVars, list, listening, put, serverList, direct, first, tunnels, missed>>

\* A thread for the link of an entry's device.
SimTunnel(req, entry, same) ==
    [req |-> req, n |-> requests, device |-> entry.device, same |-> same, card |-> Empty, pc |-> "start"]

\* The SIM is looked up once more, and a SimTunnel is started on its entry's
\* link.  An exception ends main.
StartTunnel ==
    /\ main = "start"
    /\ request' = NoRequest
    /\ IF Raises(request) THEN main' = "stopped" /\ UNCHANGED tunnels
       ELSE /\ main' = "wait"
            /\ tunnels' = tunnels \cup {SimTunnel(request, get_sim(request)[k], list = request.known) :
                                            k \in DOMAIN get_sim(request)}
    /\ UNCHANGED <<deviceVars, list, listening, put, serverList, direct, first, fails, requests, missed>>

-----------------------------------------------------------------------------
(* Direct mode.                                                            *)

\* direct_connection: the number asked for equals no IMSI of a SIM, which is a
\* string, only the hash of a T=1 card.  A client that goes away before it has
\* sent its number ends the provider, and so does a None in the list.
DirectRequest(card, whole) ==
    LET found == {i \in DOMAIN list : list[i].card = card} IN
    /\ main = "wait" /\ direct /\ requests < MaxRequests
    /\ requests' = requests + 1
    /\ \/ /\ ~whole \/ HasNone
          /\ main' = "stopped" /\ UNCHANGED tunnels
       \/ /\ whole /\ ~HasNone
          /\ tunnels' = IF found = {} THEN tunnels
                        ELSE tunnels \cup {SimTunnel([kind |-> "imsi", sim |-> card],
                                                      list[CHOOSE i \in found : \A k \in found : i <= k], TRUE)}
          /\ UNCHANGED main
    /\ UNCHANGED <<deviceVars, list, listening, put, serverList, direct, first, fails, request, missed>>

\* SimTunnel.run: the link is connected to the card that is in the device now,
\* if there is one and it answers.  The ATR can be sent in direct mode only:
\* ApduStream has no write_all.
TunnelStarts(t, answers) ==
    /\ t \in tunnels /\ t.pc = "start"
    /\ LET card == IF answers THEN InReader(t.device) ELSE Empty IN
       tunnels' = (tunnels \ {t}) \cup
                  {[t EXCEPT !.card = card, !.pc = IF direct /\ card # Empty THEN "serving" ELSE "dead"]}
    /\ UNCHANGED <<deviceVars, list, listening, put, serverList, direct, main, first, fails, request, requests, missed>>

\* SimTunnel.maintain_connection: the client leaves or the card fails.
TunnelEnds(t) ==
    /\ t \in tunnels /\ t.pc = "serving"
    /\ tunnels' = (tunnels \ {t}) \cup {[t EXCEPT !.pc = "ended"]}
    /\ UNCHANGED <<deviceVars, list, listening, put, serverList, direct, main, first, fails, request, requests, missed>>

DeviceStep == \E d \in Devices : \/ \E c \in AnyCard \cup {Empty} : Plug(d, c)
                                 \/ Unplug(d)
ObserverStep == \E d \in Devices : ObserveSerial(d) \/ ObserveReader(d) \/ ObserveGone(d)
MonitorStep == \E d \in Readers : MonitorAdds(d) \/ MonitorRemoves(d)
MainStep ==
    \/ FirstList \/ FirstRegistration \/ StartTunnel
    \/ \E ok \in BOOLEAN : RegisterProvider(ok) \/ WaitFails(ok)
    \/ \E i \in DOMAIN serverList, kind \in {"id", "imsi"} : ServeRequest(i, kind)
    \/ \E c \in T1Cards, whole \in BOOLEAN : DirectRequest(c, whole)

ProviderNext ==
    \/ DeviceStep \/ ObserverStep \/ MonitorStep \/ MainStep
    \/ \E t \in Threads, ok \in BOOLEAN : FinishPut(t, ok)
    \/ \E t \in tunnels, ok \in BOOLEAN : TunnelStarts(t, ok)
    \/ \E t \in tunnels : TunnelEnds(t)

ProviderSpec == ProviderInit /\ [][ProviderNext]_providerVars

-----------------------------------------------------------------------------
(* Properties                                                              *)

\* The card a SimTunnel has connected to is the SIM the server has found for the
\* request: if it was asked for by IMSI, or by its id while the provider's list
\* was the one the server knew; and if nobody has taken that SIM out of a device,
\* since an entry may outlive its card and the tunnel is on the device.
RightSim ==
    \A t \in tunnels :
        /\ t.card # Empty
        /\ t.req.kind = "imsi" \/ t.same
        /\ t.req.sim \notin moved
        => t.card = t.req.sim

\* The server knows the SIMs of a provider that waits for requests and is not
\* registering any, unless the last registration has failed, could not list the
\* SIMs, met another thread's, or was the first one, of a list that had changed.
ServerKnows ==
    main = "wait" /\ ~direct /\ ~missed /\ (\A t \in Threads : put[t] = <<>>) => serverList = list
=============================================================================
