----------------------------- MODULE NetworkTest -----------------------------
(***************************************************************************)
(* A network test on the probe.  The test thread sets a test up, connects  *)
(* the modem, measures and cleans up, and waits for events in between; the *)
(* GLib thread receives the signals of ModemManager and NetworkManager and *)
(* sets and clears those events (MobileAtlasMediator).  One action is what *)
(* a thread does under one lock, or between two of them.                   *)
(***************************************************************************)
EXTENDS Naturals

CONSTANT Retries   \* `retries' of connect_modem

ASSUME RetriesAssumption == Retries \in Nat \ {0}

VARIABLES
  plugged,     \* the modem is in ModemWatcher.objects
  mm, nm,      \* mm_modem_state and nm_modem_state: what the mediator has stored
  said,        \* what each manager signalled last, "lost" if its handler raised
  stamp,       \* the EnhancedEvents' _timestamp: "none", "young" or "old"
  flag,        \* the threading.Events
  glib,        \* the GLib thread: "off", "idle", where a handler is, "stopped"
  subscribed,  \* the test is among the connection observers
  told,        \* what it was told last
  at,          \* where the test thread is
  wpc,         \* how far it is with the wait it is in
  steady,      \* that event was not cleared since its debounce began
  attempt      \* i of connect_modem's loop, counted from 1

signalled == <<plugged, mm, nm, said>>
testVars == <<at, wpc, steady, attempt>>
vars == <<signalled, stamp, flag, glib, subscribed, told, testVars>>

ModemStates == {"off", "enabled", "registered", "connected"}
DeviceStates == {"disconnected", "activated", "other"}
Events == {"enabled", "registered", "connected"}
Flags == {"added", "nm_disconnected"}

\* The waits of a test, each named for what follows if it fails elsewhere, the
\* event they wait for, and what comes next when they succeed.
FlagWaits == {"added", "plugged", "left"}
EventWaits == {"enabled", "settle", "register", "ready", "join"}
Waits == FlagWaits \cup EventWaits

EventOf == [w \in Waits |->
  CASE w \in {"added", "plugged"} -> "added"
    [] w = "left" -> "nm_disconnected"
    [] w = "enabled" -> "enabled"
    [] w \in {"settle", "register", "ready"} -> "registered"
    [] w = "join" -> "connected"]

After == [w \in Waits |->
  CASE w = "added" -> "enabled"
    [] w = "enabled" -> "hotfix"
    [] w = "settle" -> "plugged"
    [] w = "plugged" -> "register"
    [] w = "register" -> "connect"
    [] w = "ready" -> "activate"
    [] w = "join" -> "measure"
    [] w = "left" -> "finish"]

\* The waits with a debounce interval; of these, the ones with retry = True.
Debounced == {"settle", "register", "join"}
Retried == {"settle", "register"}

\* Where execute_test's try block is, and where its finally clause is.
Trying == Waits \cup {"hotfix", "observe", "connect", "activate", "cooldown",
                      "measure", "leave", "finish"}
Places == Trying \cup {"start", "remove", "cleanup", "shutdown", "ended", "raised"}

IsSet(e) == stamp[e] # "none"
AtLeast(s) == CASE s = "enabled" -> {"enabled", "registered", "connected"}
                [] s = "registered" -> {"registered", "connected"}
                [] s = "connected" -> {"connected"}

-----------------------------------------------------------------------------
(***************************************************************************)
(* event_utils.py: EnhancedEvent, and threading.Event                      *)
(***************************************************************************)

\* The test thread waits for e and is parked in its Condition.
WaitsFor(e) == at \in Waits /\ EventOf[at] = e

\* notify_all: a sleeping waiter has to look again.
NotifyAll(e) ==
  wpc' = CASE WaitsFor(e) /\ wpc = "sleep" -> "woken"
           [] WaitsFor(e) /\ wpc = "watch" -> "stirred"
           [] OTHER -> wpc

\* Mutant of SetOrClear: clear does not notify.
ClearSilently(e, on) ==
  /\ ~(WaitsFor(e) /\ wpc = "locked")
  /\ stamp' = [stamp EXCEPT ![e] = IF on THEN "young" ELSE "none"]
  /\ steady' = (steady /\ (on \/ ~WaitsFor(e)))
  /\ IF on THEN NotifyAll(e) ELSE UNCHANGED wpc

\* EnhancedEvent.set, which renews the time stamp, or clear, under the event's
\* lock: the test thread may be holding it for ever.
SetOrClear(e, on) ==
  /\ ~(WaitsFor(e) /\ wpc = "locked")
  /\ stamp' = [stamp EXCEPT ![e] = IF on THEN "young" ELSE "none"]
  /\ steady' = (steady /\ (on \/ ~WaitsFor(e)))
  /\ NotifyAll(e)

\* threading.Event: only set notifies.
SetOrClearFlag(e, on) ==
  /\ flag' = [flag EXCEPT ![e] = on]
  /\ IF on THEN NotifyAll(e) ELSE UNCHANGED wpc

\* The debounce interval passes since the event was set.
GrowOld(e) ==
  /\ stamp[e] = "young"
  /\ stamp' = [stamp EXCEPT ![e] = "old"]
  /\ UNCHANGED <<signalled, flag, glib, subscribed, told, testVars>>

-----------------------------------------------------------------------------
(***************************************************************************)
(* The GLib thread: modem_watcher.py, network_watcher.py, and the          *)
(* mediator's callbacks                                                    *)
(***************************************************************************)

\* The loop runs, no handler is active and a signal is dispatched.
Dispatch == glib = "idle" /\ at # "ended"

\* on_object_added or removed; the states of the modem that went away stay.
ModemAppears(present) ==
  /\ Dispatch /\ plugged # present
  /\ plugged' = present
  /\ SetOrClearFlag("added", present)
  /\ UNCHANGED <<mm, nm, said, stamp, glib, subscribed, told, at, steady, attempt>>

\* mm_modem_state_changed: its steps are the next three actions.
ModemSignals(s) ==
  /\ Dispatch /\ plugged
  /\ mm' = s /\ said' = [said EXCEPT !.mm = s]
  /\ glib' = "enabled"
  /\ UNCHANGED <<plugged, nm, stamp, flag, subscribed, told, testVars>>

\* modem_state_changed: the modem_enabled event, then modem_registered.
UpdateEnabled ==
  /\ glib = "enabled"
  /\ SetOrClear("enabled", mm \in AtLeast("enabled"))
  /\ glib' = "registered"
  /\ UNCHANGED <<signalled, flag, subscribed, told, at, attempt>>

UpdateRegistered ==
  /\ glib = "registered"
  /\ SetOrClear("registered", mm \in AtLeast("registered"))
  /\ glib' = "connection"
  /\ UNCHANGED <<signalled, flag, subscribed, told, at, attempt>>

\* nm_modem_state_changed, up to connection_state_changed.
DeviceSignals(s) ==
  /\ Dispatch
  /\ nm' = s /\ said' = [said EXCEPT !.nm = s]
  /\ SetOrClearFlag("nm_disconnected", s = "disconnected")
  /\ glib' = "connection"
  /\ UNCHANGED <<plugged, mm, stamp, subscribed, told, at, steady, attempt>>

\* Both handlers log the configuration first, which they ask for over D-Bus: if
\* that raises, the state that was signalled is not stored.
HandlerRaises(manager) ==
  /\ Dispatch /\ (manager = "mm" => plugged)
  /\ said' = [said EXCEPT ![manager] = "lost"]
  /\ UNCHANGED <<plugged, mm, nm, stamp, flag, glib, subscribed, told, testVars>>

Connected == mm \in AtLeast("connected") /\ nm = "activated"

\* Mutant of UpdateConnection: observers only hear of connections.
NotifyOnlyUp ==
  /\ glib = "connection"
  /\ SetOrClear("connected", Connected)
  /\ glib' = IF Connected /\ ~IsSet("connected") THEN "notify" ELSE "idle"
  /\ UNCHANGED <<signalled, flag, subscribed, told, at, attempt>>

\* Mutant of UpdateConnection: ModemManager's state is taken for both.
ModemOnly ==
  /\ glib = "connection"
  /\ SetOrClear("connected", mm \in AtLeast("connected"))
  /\ glib' = IF (mm \in AtLeast("connected")) # IsSet("connected") THEN "notify" ELSE "idle"
  /\ UNCHANGED <<signalled, flag, subscribed, told, at, attempt>>

\* connection_state_changed combines both states.
UpdateConnection ==
  /\ glib = "connection"
  /\ SetOrClear("connected", Connected)
  /\ glib' = IF Connected # IsSet("connected") THEN "notify" ELSE "idle"
  /\ UNCHANGED <<signalled, flag, subscribed, told, at, attempt>>

\* notify_connection_subscriber(new_state).
NotifyObservers ==
  /\ glib = "notify"
  /\ told' = IF ~subscribed THEN told ELSE IF Connected THEN "up" ELSE "down"
  /\ glib' = "idle"
  /\ UNCHANGED <<signalled, stamp, flag, subscribed, testVars>>

\* The loop ends after shutdown.
LoopStops ==
  /\ glib = "idle" /\ at = "ended"
  /\ glib' = "stopped"
  /\ UNCHANGED <<signalled, stamp, flag, subscribed, told, testVars>>

-----------------------------------------------------------------------------
(***************************************************************************)
(* The test thread: its waits                                              *)
(***************************************************************************)

Go(place) == at' = place /\ wpc' = "enter"

\* A wait that fails raises TimeoutError, and the test's finally clause follows;
\* wait_modem_connected returns False instead, and the attempt is over.
Fail == Go(IF at = "join" THEN "cooldown" ELSE "remove")

\* The event was found set: return, or watch it for the rest of the interval.
Found ==
  IF at \in Debounced /\ stamp[EventOf[at]] = "young"
  THEN wpc' = "watch" /\ steady' = TRUE /\ UNCHANGED at
  ELSE Go(After[at]) /\ UNCHANGED steady

\* Mutant of LookForEvent: a waiter that was woken does not look again.
TrustWakeup ==
  /\ at \in EventWaits /\ wpc \in {"enter", "woken"}
  /\ IF wpc = "woken" \/ IsSet(EventOf[at]) THEN Found
     ELSE wpc' = "sleep" /\ UNCHANGED <<at, steady>>
  /\ UNCHANGED <<signalled, stamp, flag, glib, subscribed, told, attempt>>

\* EnhancedEvent.wait and wait_debounced: wait_for(is_set), also after a wake-up.
LookForEvent ==
  /\ at \in EventWaits /\ wpc \in {"enter", "woken"}
  /\ IF IsSet(EventOf[at]) THEN Found
     ELSE wpc' = "sleep" /\ UNCHANGED <<at, steady>>
  /\ UNCHANGED <<signalled, stamp, flag, glib, subscribed, told, attempt>>

\* threading.Event.wait: a waiter that was notified returns, set or not.
LookForFlag ==
  /\ at \in FlagWaits /\ wpc \in {"enter", "woken"}
  /\ IF wpc = "woken" \/ flag[EventOf[at]] THEN Go(After[at])
     ELSE wpc' = "sleep" /\ UNCHANGED at
  /\ UNCHANGED <<signalled, stamp, flag, glib, subscribed, told, steady, attempt>>

\* Mutant of TimesOut: only threading.Events are waited for with a timeout.
FlagTimesOut ==
  /\ at \in FlagWaits /\ wpc = "sleep"
  /\ Fail
  /\ UNCHANGED <<signalled, stamp, flag, glib, subscribed, told, steady, attempt>>

\* The timeout passes and the event is not set.
TimesOut ==
  /\ \/ at \in Waits /\ wpc = "sleep"
     \/ at \in EventWaits /\ wpc = "woken" /\ ~IsSet(EventOf[at])
  /\ Fail
  /\ UNCHANGED <<signalled, stamp, flag, glib, subscribed, told, steady, attempt>>

\* wait_for(is_cleared): the event was cleared within the interval.  Without
\* retry the wait returns False; with it wait_debounced calls itself, holding
\* the lock it then asks for.
LookAtDebounce ==
  /\ wpc = "stirred"
  /\ IF IsSet(EventOf[at]) THEN wpc' = "watch" /\ UNCHANGED at
     ELSE IF at \in Retried THEN wpc' = "locked" /\ UNCHANGED at
     ELSE Fail
  /\ UNCHANGED <<signalled, stamp, flag, glib, subscribed, told, steady, attempt>>

\* The interval is over and the event is set: an event that was set all the
\* time is old now; one that was cleared and set again passes as well.
DebounceOver ==
  /\ wpc \in {"watch", "stirred"} /\ IsSet(EventOf[at])
  /\ stamp' = [stamp EXCEPT ![EventOf[at]] = IF steady THEN "old" ELSE @]
  /\ Go(After[at])
  /\ UNCHANGED <<signalled, flag, glib, subscribed, told, steady, attempt>>

-----------------------------------------------------------------------------
(***************************************************************************)
(* The test thread: test_base.py, test_network_base.py,                    *)
(* mobile_atlas_plugin.py and the mediator's connect_modem                 *)
(***************************************************************************)

\* A call of the test thread that succeeds goes on to `next'; one that raises
\* ends in the finally clause of execute_test.
Call(here, next) ==
  /\ at = here
  /\ Go(next) \/ Go("remove")

\* execute_test_pre: start the GLib loop.
StartTest ==
  /\ at = "start"
  /\ glib' = "idle"
  /\ Go("added")
  /\ UNCHANGED <<signalled, stamp, flag, subscribed, told, steady, attempt>>

\* apply_hotfixes, which calls some types of modem, and the bill before the test.
Hotfix ==
  /\ Call("hotfix", "observe")
  /\ UNCHANGED <<signalled, stamp, flag, glib, subscribed, told, steady, attempt>>

\* setup_callbacks.
Observe ==
  /\ at = "observe"
  /\ subscribed' = TRUE
  /\ Go("settle")
  /\ UNCHANGED <<signalled, stamp, flag, glib, told, steady, attempt>>

\* connect_modem raises ValueError if the modem is connected.
ConnectModem ==
  /\ at = "connect"
  /\ Go(IF IsSet("connected") THEN "remove" ELSE "ready")
  /\ attempt' = 1
  /\ UNCHANGED <<signalled, stamp, flag, glib, subscribed, told, steady>>

\* create_connection and connect_device, or send_connect_device.
Activate ==
  /\ Call("activate", "join")
  /\ UNCHANGED <<signalled, stamp, flag, glib, subscribed, told, steady, attempt>>

\* Mutant of Cooldown: one attempt more than there should be.
CooldownOffByOne ==
  /\ at = "cooldown"
  /\ Go(IF attempt <= Retries THEN "ready" ELSE "remove")
  /\ attempt' = IF attempt <= Retries THEN attempt + 1 ELSE attempt
  /\ UNCHANGED <<signalled, stamp, flag, glib, subscribed, told, steady>>

\* An attempt has failed: sleep, and try again while there are attempts left.
Cooldown ==
  /\ at = "cooldown"
  /\ Go(IF attempt < Retries THEN "ready" ELSE "remove")
  /\ attempt' = IF attempt < Retries THEN attempt + 1 ELSE attempt
  /\ UNCHANGED <<signalled, stamp, flag, glib, subscribed, told, steady>>

\* execute_test_network_core, then disconnect_network.
Measure ==
  /\ Call("measure", "leave")
  /\ UNCHANGED <<signalled, stamp, flag, glib, subscribed, told, steady, attempt>>

Leave ==
  /\ Call("leave", "left")
  /\ UNCHANGED <<signalled, stamp, flag, glib, subscribed, told, steady, attempt>>

\* The test is over, or TestNetworkReconnect connects again.
Finish ==
  /\ Call("finish", "plugged")
  /\ UNCHANGED <<signalled, stamp, flag, glib, subscribed, told, steady, attempt>>

\* KeyboardInterrupt, also while the thread waits for a lock.
Interrupt ==
  /\ at \in Trying
  /\ Go("remove")
  /\ UNCHANGED <<signalled, stamp, flag, glib, subscribed, told, steady, attempt>>

\* remove_callbacks: remove_connection_observer appends the observer.
RemoveCallbacks ==
  /\ at = "remove"
  /\ subscribed' = TRUE
  /\ Go("cleanup")
  /\ UNCHANGED <<signalled, stamp, flag, glib, told, steady, attempt>>

\* cleanup and what precedes it call the modem: if they raise, the exception
\* leaves execute_test and the loop is not stopped.
Cleanup ==
  /\ at = "cleanup"
  /\ (plugged /\ Go("shutdown")) \/ Go("raised")
  /\ UNCHANGED <<signalled, stamp, flag, glib, subscribed, told, steady, attempt>>

Shutdown ==
  /\ at = "shutdown"
  /\ Go("ended")
  /\ UNCHANGED <<signalled, stamp, flag, glib, subscribed, told, steady, attempt>>

-----------------------------------------------------------------------------
\* ModemWatcher's constructor lists the modems that are there; nobody asks for
\* their states.
Init ==
  /\ plugged \in BOOLEAN
  /\ mm = "off" /\ nm = "other"
  /\ said = [mm |-> "off", nm |-> "other"]
  /\ stamp = [e \in Events |-> "none"]
  /\ flag = [e \in Flags |-> e = "added" /\ plugged]
  /\ glib = "off"
  /\ subscribed = FALSE /\ told = "nothing"
  /\ at = "start" /\ wpc = "enter" /\ steady = FALSE /\ attempt = 1

Handler == UpdateEnabled \/ UpdateRegistered \/ UpdateConnection \/ NotifyObservers \/ LoopStops

Signal ==
  \/ \E present \in BOOLEAN : ModemAppears(present)
  \/ \E s \in ModemStates : ModemSignals(s)
  \/ \E s \in DeviceStates : DeviceSignals(s)
  \/ \E manager \in {"mm", "nm"} : HandlerRaises(manager)

Wait == LookForEvent \/ LookForFlag \/ TimesOut \/ LookAtDebounce \/ DebounceOver

Proceed ==
  \/ StartTest \/ Hotfix \/ Observe \/ ConnectModem \/ Activate \/ Cooldown
  \/ Measure \/ Leave \/ Finish \/ RemoveCallbacks \/ Cleanup \/ Shutdown

Next ==
  \/ Handler \/ Signal \/ Wait \/ Proceed \/ Interrupt
  \/ \E e \in Events : GrowOld(e)

Spec == Init /\ [][Next]_vars

(***************************************************************************)
(* Both threads run when they can.  A timeout that has passed stays past:  *)
(* the first look after it that still finds nothing ends the wait, hence   *)
(* the strong fairness.  No signal has to come, and nobody interrupts.     *)
(***************************************************************************)
Fairness ==
  /\ WF_vars(Handler)
  /\ WF_vars(Wait)
  /\ SF_vars(TimesOut)
  /\ SF_vars(DebounceOver)
  /\ WF_vars(Proceed)

FairSpec == Spec /\ Fairness

-----------------------------------------------------------------------------
(***************************************************************************)
(* Properties                                                              *)
(***************************************************************************)

TypeOK ==
  /\ plugged \in BOOLEAN /\ mm \in ModemStates /\ nm \in DeviceStates
  /\ said \in [mm : ModemStates \cup {"lost"}, nm : DeviceStates \cup {"lost"}]
  /\ stamp \in [Events -> {"none", "young", "old"}]
  /\ flag \in [Flags -> BOOLEAN]
  /\ glib \in {"off", "idle", "enabled", "registered", "connection", "notify", "stopped"}
  /\ subscribed \in BOOLEAN /\ told \in {"nothing", "up", "down"}
  /\ at \in Places /\ wpc \in {"enter", "sleep", "woken", "watch", "stirred", "locked"}
  /\ steady \in BOOLEAN /\ attempt \in 1 .. Retries

\* No set or clear is missed between a look and the sleep after it, or while the
\* thread sleeps: it only sleeps for what has not happened yet.
NothingMissed ==
  /\ at \in EventWaits /\ wpc = "sleep" => ~IsSet(EventOf[at])
  /\ at \in FlagWaits /\ wpc = "sleep" => ~flag[EventOf[at]]
  /\ wpc = "watch" => IsSet(EventOf[at])

\* Between two signals the three events say what the two managers have said
\* last, although their states arrive one by one and in any order.  A signal whose
\* handler raised is lost to the events it would have updated, until the same
\* manager signals again; what the other manager said is not touched by it.
EventsFollow ==
  glib \in {"off", "idle", "notify", "stopped"} =>
    /\ said.mm # "lost" =>
         /\ IsSet("enabled") <=> said.mm \in AtLeast("enabled")
         /\ IsSet("registered") <=> said.mm \in AtLeast("registered")
    /\ said.mm # "lost" /\ said.nm # "lost" =>
         (IsSet("connected") <=> said.mm = "connected" /\ said.nm = "activated")

\* A test that counts connections is told of each change: what it was told last
\* is how the modem is, whenever it subscribed.
ToldLast == glib \in {"idle", "stopped"} /\ told # "nothing" =>
    (told = "up" <=> IsSet("connected"))

\* A test only goes on from a wait while its event is set, however often it was
\* set and cleared before the thread looked.
SetWhenPassed ==
  [][\A w \in EventWaits : at = w /\ at' = After[w] => IsSet(EventOf[w])]_vars

\* Every wait ends, by its event or its timeout, whatever the modem does (or
\* with the thread waiting for its own lock, see DebounceEnds).
WaitsEnd == \A w \in Waits : at = w ~> at # w \/ wpc = "locked"

(***************************************************************************)
(* What a message says, and the code does not do (README).                 *)
(***************************************************************************)

\* mobile_atlas_mediator.py:181, "Ensure modem is in registered state, timeout
\* after {timeout} seconds": the wait for a steady registration ends.
DebounceEnds == \A w \in Retried : at = w ~> at # w
=============================================================================
