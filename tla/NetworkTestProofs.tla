-------------------------- MODULE NetworkTestProofs --------------------------
(***************************************************************************)
(* Proofs about NetworkTest, for any number of connection attempts.        *)
(***************************************************************************)
EXTENDS NetworkTest, TLAPS

\* The test thread only sleeps, watches or is locked out inside a wait, and only
\* watches in one with a debounce interval.
WaitState ==
  /\ wpc # "enter" => at \in Waits
  /\ wpc \in {"watch", "stirred", "locked"} => at \in Debounced

\* EventsFollow, at each step of a handler: what it has already updated follows
\* the stored states, which are the signalled ones unless a handler raised.  No
\* handler runs before the test starts the loop.
EventsState ==
  /\ at = "start" => glib = "off"
  /\ said.mm # "lost" => mm = said.mm
  /\ said.nm # "lost" => nm = said.nm
  /\ glib # "enabled" => (IsSet("enabled") <=> mm \in AtLeast("enabled"))
  /\ glib \notin {"enabled", "registered"} => (IsSet("registered") <=> mm \in AtLeast("registered"))
  /\ glib \notin {"enabled", "registered", "connection"} => (IsSet("connected") <=> Connected)

\* ToldLast, at each step of a handler: only between the change of the event and
\* the call of the observers may they know something else.  Nobody else is told.
ToldState ==
  /\ glib # "notify" /\ told # "nothing" => (told = "up" <=> IsSet("connected"))
  /\ ~subscribed => told = "nothing"

IInv == TypeOK /\ WaitState /\ NothingMissed /\ EventsState /\ ToldState

-----------------------------------------------------------------------------
(***************************************************************************)
(* The waits and their events                                              *)
(***************************************************************************)

LEMMA EventWaitsFor ==
  ASSUME NEW w \in EventWaits
  PROVE  EventOf[w] \in Events /\ EventOf[w] \notin Flags /\ After[w] \in Places \ {"start"}
         /\ w \in Waits /\ w \notin FlagWaits /\ w \in Places
BY DEF EventWaits, FlagWaits, Waits, EventOf, After, Flags, Events, Places, Trying

LEMMA FlagWaitsFor ==
  ASSUME NEW w \in FlagWaits
  PROVE  EventOf[w] \in Flags /\ EventOf[w] \notin Events /\ After[w] \in Places \ {"start"}
         /\ w \in Waits /\ w \notin EventWaits /\ w \in Places
BY DEF EventWaits, FlagWaits, Waits, EventOf, After, Flags, Events, Places, Trying

LEMMA DebouncedWaits == Debounced \subseteq EventWaits /\ EventWaits \subseteq Waits
BY DEF Debounced, EventWaits, FlagWaits, Waits

\* What the test thread does with itself when it leaves a wait or a call.
LEMMA Leaving ==
  ASSUME NEW place \in Places \ {"start"}, Go(place)
  PROVE  at' \in Places \ {"start"} /\ wpc' = "enter"
BY DEF Go

LEMMA Failing == ASSUME Fail PROVE at' \in Places \ {"start"} /\ wpc' = "enter"
BY DEF Fail, Go, Places, Trying

-----------------------------------------------------------------------------
(***************************************************************************)
(* The GLib thread sets and clears events                                  *)
(***************************************************************************)

\* A waiter is woken by what it may be waiting for; nothing else changes for it.
LEMMA SettingEvent ==
  ASSUME TypeOK, WaitState, NothingMissed, NEW e \in Events, NEW on \in BOOLEAN,
         SetOrClear(e, on), UNCHANGED <<at, flag>>
  PROVE  /\ stamp' \in [Events -> {"none", "young", "old"}]
         /\ wpc' \in {"enter", "sleep", "woken", "watch", "stirred", "locked"}
         /\ steady' \in BOOLEAN
         /\ IsSet(e)' <=> on
         /\ \A d \in Events \ {e} : IsSet(d)' <=> IsSet(d)
         /\ WaitState' /\ NothingMissed'
<1>1. stamp' \in [Events -> {"none", "young", "old"}]
  BY DEF SetOrClear, TypeOK
<1>2. (IsSet(e)' <=> on) /\ \A d \in Events \ {e} : IsSet(d)' <=> IsSet(d)
  BY DEF SetOrClear, TypeOK, IsSet
<1>3. wpc' \in {"enter", "sleep", "woken", "watch", "stirred", "locked"}
  BY DEF SetOrClear, NotifyAll, TypeOK
<1>4. steady' \in BOOLEAN
  BY DEF SetOrClear, TypeOK
<1>5. WaitState'
  BY DEF SetOrClear, NotifyAll, WaitState
<1>6. at \in EventWaits /\ wpc' = "sleep" => ~IsSet(EventOf[at])'
  <2> SUFFICES ASSUME at \in EventWaits, wpc' = "sleep" PROVE ~IsSet(EventOf[at])'
    OBVIOUS
  <2>1. wpc = "sleep" /\ EventOf[at] # e
    BY EventWaitsFor DEF SetOrClear, NotifyAll, WaitsFor
  <2>2. ~IsSet(EventOf[at]) /\ EventOf[at] \in Events
    BY <2>1, EventWaitsFor DEF NothingMissed
  <2> QED
    BY <1>2, <2>1, <2>2 DEF IsSet
<1>7. at \in FlagWaits /\ wpc' = "sleep" => ~flag'[EventOf[at]]
  BY FlagWaitsFor DEF SetOrClear, NotifyAll, NothingMissed, WaitsFor
<1>8. wpc' = "watch" => IsSet(EventOf[at])'
  <2> SUFFICES ASSUME wpc' = "watch" PROVE IsSet(EventOf[at])'
    OBVIOUS
  <2>1. wpc = "watch" /\ at \in EventWaits
    BY DebouncedWaits DEF SetOrClear, NotifyAll, WaitState
  <2>2. EventOf[at] # e
    BY <2>1, EventWaitsFor DEF SetOrClear, NotifyAll, WaitsFor
  <2> QED
    BY <1>2, <2>1, <2>2, EventWaitsFor DEF IsSet, NothingMissed
<1> QED
  BY <1>1, <1>2, <1>3, <1>4, <1>5, <1>6, <1>7, <1>8 DEF NothingMissed

LEMMA SettingFlag ==
  ASSUME TypeOK, WaitState, NothingMissed, NEW e \in Flags, NEW on \in BOOLEAN,
         SetOrClearFlag(e, on), UNCHANGED <<at, stamp>>
  PROVE  /\ flag' \in [Flags -> BOOLEAN]
         /\ wpc' \in {"enter", "sleep", "woken", "watch", "stirred", "locked"}
         /\ WaitState' /\ NothingMissed'
<1>1. flag' \in [Flags -> BOOLEAN]
  BY DEF SetOrClearFlag, TypeOK
<1>2. wpc' \in {"enter", "sleep", "woken", "watch", "stirred", "locked"}
  BY DEF SetOrClearFlag, NotifyAll, TypeOK
<1>3. WaitState'
  BY DEF SetOrClearFlag, NotifyAll, WaitState
<1>4. at \in EventWaits /\ wpc' = "sleep" => ~IsSet(EventOf[at])'
  BY DEF SetOrClearFlag, NotifyAll, NothingMissed, IsSet
<1>5. at \in FlagWaits /\ wpc' = "sleep" => ~flag'[EventOf[at]]
  <2> SUFFICES ASSUME at \in FlagWaits, wpc' = "sleep" PROVE ~flag'[EventOf[at]]
    OBVIOUS
  <2>1. wpc = "sleep" /\ ~flag[EventOf[at]] /\ EventOf[at] \in Flags
    BY FlagWaitsFor DEF SetOrClearFlag, NotifyAll, NothingMissed
  <2>2. on => EventOf[at] # e
    BY FlagWaitsFor DEF SetOrClearFlag, NotifyAll, WaitsFor
  <2> QED
    BY <2>1, <2>2 DEF SetOrClearFlag, TypeOK
<1>6. wpc' = "watch" => IsSet(EventOf[at])'
  BY DEF SetOrClearFlag, NotifyAll, NothingMissed, IsSet
<1> QED
  BY <1>1, <1>2, <1>3, <1>4, <1>5, <1>6 DEF NothingMissed

-----------------------------------------------------------------------------
(***************************************************************************)
(* The steps of the GLib thread                                            *)
(***************************************************************************)

LEMMA SignalStep == ASSUME IInv, Signal PROVE IInv'
<1>1. ASSUME NEW present \in BOOLEAN, ModemAppears(present) PROVE IInv'
  <2>1. SetOrClearFlag("added", present) /\ "added" \in Flags
    BY <1>1 DEF ModemAppears, Flags
  <2>2. flag' \in [Flags -> BOOLEAN] /\ WaitState' /\ NothingMissed'
        /\ wpc' \in {"enter", "sleep", "woken", "watch", "stirred", "locked"}
    BY <1>1, <2>1, SettingFlag DEF IInv, ModemAppears
  <2>3. TypeOK'
    BY <1>1, <2>2 DEF IInv, TypeOK, ModemAppears
  <2>4. EventsState' /\ ToldState'
    BY <1>1 DEF IInv, EventsState, ToldState, ModemAppears, IsSet, Connected
  <2> QED
    BY <2>2, <2>3, <2>4 DEF IInv
<1>2. ASSUME NEW s \in ModemStates, ModemSignals(s) PROVE IInv'
  <2>1. TypeOK'
    BY <1>2 DEF IInv, TypeOK, ModemSignals, testVars
  <2>2. WaitState' /\ NothingMissed'
    BY <1>2 DEF IInv, WaitState, NothingMissed, ModemSignals, testVars, IsSet
  <2>3. EventsState' /\ ToldState'
    BY <1>2 DEF IInv, EventsState, ToldState, ModemSignals, Dispatch, testVars, IsSet
  <2> QED
    BY <2>1, <2>2, <2>3 DEF IInv
<1>3. ASSUME NEW s \in DeviceStates, DeviceSignals(s) PROVE IInv'
  <2>1. SetOrClearFlag("nm_disconnected", s = "disconnected") /\ "nm_disconnected" \in Flags
    BY <1>3 DEF DeviceSignals, Flags
  <2>2. flag' \in [Flags -> BOOLEAN] /\ WaitState' /\ NothingMissed'
        /\ wpc' \in {"enter", "sleep", "woken", "watch", "stirred", "locked"}
    BY <1>3, <2>1, SettingFlag DEF IInv, DeviceSignals
  <2>3. TypeOK'
    BY <1>3, <2>2 DEF IInv, TypeOK, DeviceSignals
  <2>4. EventsState' /\ ToldState'
    BY <1>3 DEF IInv, EventsState, ToldState, DeviceSignals, Dispatch, IsSet
  <2> QED
    BY <2>2, <2>3, <2>4 DEF IInv
<1>4. ASSUME NEW manager \in {"mm", "nm"}, HandlerRaises(manager) PROVE IInv'
  <2>1. /\ said' \in [mm : ModemStates \cup {"lost"}, nm : DeviceStates \cup {"lost"}]
        /\ said'.mm # "lost" => said'.mm = said.mm
        /\ said'.nm # "lost" => said'.nm = said.nm
    BY <1>4 DEF IInv, TypeOK, HandlerRaises
  <2>2. TypeOK'
    BY <1>4, <2>1 DEF IInv, TypeOK, HandlerRaises, testVars
  <2>3. WaitState' /\ NothingMissed'
    BY <1>4 DEF IInv, WaitState, NothingMissed, HandlerRaises, testVars, IsSet
  <2>4. EventsState' /\ ToldState'
    BY <1>4, <2>1 DEF IInv, EventsState, ToldState, HandlerRaises, testVars, IsSet, Connected
  <2> QED
    BY <2>2, <2>3, <2>4 DEF IInv
<1> QED
  BY <1>1, <1>2, <1>3, <1>4 DEF Signal

LEMMA HandlerStep == ASSUME IInv, Handler PROVE IInv'
<1>1. CASE UpdateEnabled
  <2> DEFINE on == mm \in AtLeast("enabled")
  <2>1. SetOrClear("enabled", on) /\ on \in BOOLEAN /\ "enabled" \in Events
    BY <1>1 DEF UpdateEnabled, Events
  <2>2. /\ stamp' \in [Events -> {"none", "young", "old"}] /\ steady' \in BOOLEAN
        /\ wpc' \in {"enter", "sleep", "woken", "watch", "stirred", "locked"}
        /\ IsSet("enabled")' <=> on
        /\ \A d \in Events \ {"enabled"} : IsSet(d)' <=> IsSet(d)
        /\ WaitState' /\ NothingMissed'
    BY <1>1, <2>1, SettingEvent DEF IInv, UpdateEnabled
  <2>3. TypeOK'
    BY <1>1, <2>2 DEF IInv, TypeOK, UpdateEnabled, signalled
  <2>4. EventsState' /\ ToldState'
    BY <1>1, <2>2 DEF IInv, EventsState, ToldState, UpdateEnabled, signalled, Events
  <2> QED
    BY <2>2, <2>3, <2>4 DEF IInv
<1>2. CASE UpdateRegistered
  <2> DEFINE on == mm \in AtLeast("registered")
  <2>1. SetOrClear("registered", on) /\ on \in BOOLEAN /\ "registered" \in Events
    BY <1>2 DEF UpdateRegistered, Events
  <2>2. /\ stamp' \in [Events -> {"none", "young", "old"}] /\ steady' \in BOOLEAN
        /\ wpc' \in {"enter", "sleep", "woken", "watch", "stirred", "locked"}
        /\ IsSet("registered")' <=> on
        /\ \A d \in Events \ {"registered"} : IsSet(d)' <=> IsSet(d)
        /\ WaitState' /\ NothingMissed'
    BY <1>2, <2>1, SettingEvent DEF IInv, UpdateRegistered
  <2>3. TypeOK'
    BY <1>2, <2>2 DEF IInv, TypeOK, UpdateRegistered, signalled
  <2>4. EventsState' /\ ToldState'
    BY <1>2, <2>2 DEF IInv, EventsState, ToldState, UpdateRegistered, signalled, Events
  <2> QED
    BY <2>2, <2>3, <2>4 DEF IInv
<1>3. CASE UpdateConnection
  <2>1. SetOrClear("connected", Connected) /\ Connected \in BOOLEAN /\ "connected" \in Events
    BY <1>3 DEF UpdateConnection, Events, Connected
  <2>2. /\ stamp' \in [Events -> {"none", "young", "old"}] /\ steady' \in BOOLEAN
        /\ wpc' \in {"enter", "sleep", "woken", "watch", "stirred", "locked"}
        /\ IsSet("connected")' <=> Connected
        /\ \A d \in Events \ {"connected"} : IsSet(d)' <=> IsSet(d)
        /\ WaitState' /\ NothingMissed'
    BY <1>3, <2>1, SettingEvent DEF IInv, UpdateConnection
  <2>3. TypeOK'
    BY <1>3, <2>2 DEF IInv, TypeOK, UpdateConnection, signalled
  <2>4. EventsState'
    BY <1>3, <2>2 DEF IInv, EventsState, UpdateConnection, signalled, Events, Connected
  <2>5. ToldState'
    BY <1>3, <2>2 DEF IInv, ToldState, UpdateConnection, IsSet, Connected
  <2> QED
    BY <2>2, <2>3, <2>4, <2>5 DEF IInv
<1>4. CASE NotifyObservers
  <2>1. IsSet("connected") <=> Connected
    BY <1>4 DEF IInv, EventsState, NotifyObservers
  <2>2. TypeOK'
    BY <1>4 DEF IInv, TypeOK, NotifyObservers, signalled, testVars
  <2>3. WaitState' /\ NothingMissed'
    BY <1>4 DEF IInv, WaitState, NothingMissed, NotifyObservers, testVars, IsSet
  <2>4. EventsState'
    BY <1>4 DEF IInv, EventsState, NotifyObservers, signalled, testVars, IsSet, Connected
  <2>5. IsSet("connected")' <=> IsSet("connected")
    BY <1>4 DEF NotifyObservers, IsSet
  <2>6. ToldState'
    <3>1. CASE subscribed
      <4>1. told' = (IF Connected THEN "up" ELSE "down") /\ subscribed'
        BY <1>4, <3>1 DEF NotifyObservers
      <4>2. CASE Connected
        BY <2>1, <2>5, <4>1, <4>2 DEF ToldState
      <4>3. CASE ~Connected
        <5>1. told' = "down" /\ ~IsSet("connected")'
          BY <2>1, <2>5, <4>1, <4>3
        <5> QED
          BY <4>1, <5>1 DEF ToldState
      <4> QED
        BY <4>2, <4>3
    <3>2. CASE ~subscribed
      BY <1>4, <3>2 DEF IInv, ToldState, NotifyObservers
    <3> QED
      BY <3>1, <3>2
  <2> QED
    BY <2>2, <2>3, <2>4, <2>6 DEF IInv
<1>5. CASE LoopStops
  BY <1>5 DEF IInv, TypeOK, WaitState, NothingMissed, EventsState, ToldState, LoopStops,
              signalled, testVars, IsSet, Connected
<1> QED
  BY <1>1, <1>2, <1>3, <1>4, <1>5 DEF Handler

-----------------------------------------------------------------------------
(***************************************************************************)
(* The steps of the test thread                                            *)
(***************************************************************************)

\* A step of the test thread after which it is not in the middle of a wait.
LEMMA GoStep ==
  ASSUME IInv, UNCHANGED <<signalled, stamp, flag, glib, subscribed, told>>,
         at' \in Places \ {"start"}, wpc' = "enter", steady' \in BOOLEAN, attempt' \in 1 .. Retries
  PROVE  IInv'
<1>1. TypeOK' /\ WaitState'
  BY DEF IInv, TypeOK, WaitState, signalled
<1>2. NothingMissed'
  BY DEF NothingMissed
<1>3. EventsState' /\ ToldState'
  BY DEF IInv, EventsState, ToldState, signalled, IsSet, Connected
<1> QED
  BY <1>1, <1>2, <1>3 DEF IInv

LEMMA FoundStep ==
  ASSUME IInv, Found, at \in EventWaits, IsSet(EventOf[at]),
         UNCHANGED <<signalled, stamp, flag, glib, subscribed, told, attempt>>
  PROVE  IInv'
<1>1. CASE at \in Debounced /\ stamp[EventOf[at]] = "young"
  <2>1. wpc' = "watch" /\ steady' = TRUE /\ at' = at /\ at \in Waits /\ at \notin FlagWaits
    BY <1>1, EventWaitsFor DEF Found
  <2>2. TypeOK' /\ WaitState' /\ NothingMissed'
    BY <1>1, <2>1 DEF IInv, TypeOK, WaitState, NothingMissed, signalled, IsSet
  <2>3. EventsState' /\ ToldState'
    BY <2>1 DEF IInv, EventsState, ToldState, signalled, IsSet, Connected
  <2> QED
    BY <2>2, <2>3 DEF IInv
<1>2. CASE ~(at \in Debounced /\ stamp[EventOf[at]] = "young")
  <2>1. Go(After[at]) /\ steady' = steady
    BY <1>2 DEF Found
  <2>2. at' \in Places \ {"start"} /\ wpc' = "enter"
    BY <2>1, EventWaitsFor, Leaving
  <2> QED
    BY <2>1, <2>2, GoStep DEF IInv, TypeOK
<1> QED
  BY <1>1, <1>2

\* A thread that goes to sleep, or goes on watching or waiting for its own lock.
LEMMA StayStep ==
  ASSUME IInv, at \in Waits, WaitState', NothingMissed',
         wpc' \in {"enter", "sleep", "woken", "watch", "stirred", "locked"},
         UNCHANGED <<signalled, stamp, flag, glib, subscribed, told, at, steady, attempt>>
  PROVE  IInv'
BY DEF IInv, TypeOK, EventsState, ToldState, signalled, IsSet, Connected

LEMMA WaitStep == ASSUME IInv, Wait PROVE IInv'
<1>1. CASE LookForEvent
  <2>1. CASE IsSet(EventOf[at])
    BY <1>1, <2>1, FoundStep DEF LookForEvent
  <2>2. CASE ~IsSet(EventOf[at])
    <3>1. wpc' = "sleep" /\ UNCHANGED <<at, steady>>
      BY <1>1, <2>2 DEF LookForEvent
    <3>2. at \in Waits /\ at \notin FlagWaits
      BY <1>1, EventWaitsFor DEF LookForEvent
    <3>3. WaitState' /\ NothingMissed'
      BY <1>1, <2>2, <3>1, <3>2 DEF WaitState, NothingMissed, LookForEvent, IsSet
    <3> QED
      BY <1>1, <3>1, <3>2, <3>3, StayStep DEF LookForEvent
  <2> QED
    BY <2>1, <2>2
<1>2. CASE LookForFlag
  <2>1. CASE wpc = "woken" \/ flag[EventOf[at]]
    <3>1. at' \in Places \ {"start"} /\ wpc' = "enter"
      BY <1>2, <2>1, FlagWaitsFor, Leaving DEF LookForFlag
    <3> QED
      BY <1>2, <3>1, GoStep DEF IInv, TypeOK, LookForFlag
  <2>2. CASE ~(wpc = "woken" \/ flag[EventOf[at]])
    <3>1. wpc' = "sleep" /\ at' = at
      BY <1>2, <2>2 DEF LookForFlag
    <3>2. at \in Waits /\ at \notin EventWaits
      BY <1>2, FlagWaitsFor DEF LookForFlag
    <3>3. WaitState' /\ NothingMissed'
      BY <1>2, <2>2, <3>1, <3>2 DEF WaitState, NothingMissed, LookForFlag
    <3> QED
      BY <1>2, <3>1, <3>2, <3>3, StayStep DEF LookForFlag
  <2> QED
    BY <2>1, <2>2
<1>3. CASE TimesOut
  <2>1. at' \in Places \ {"start"} /\ wpc' = "enter"
    BY <1>3, Failing DEF TimesOut
  <2> QED
    BY <1>3, <2>1, GoStep DEF IInv, TypeOK, TimesOut
<1>4. CASE LookAtDebounce
  <2>1. at \in Debounced /\ at \in Waits
    BY <1>4, DebouncedWaits DEF IInv, WaitState, LookAtDebounce
  <2>2. CASE IsSet(EventOf[at])
    <3>1. wpc' = "watch" /\ at' = at
      BY <1>4, <2>2 DEF LookAtDebounce
    <3>2. WaitState' /\ NothingMissed'
      BY <1>4, <2>1, <2>2, <3>1 DEF WaitState, NothingMissed, LookAtDebounce, IsSet
    <3> QED
      BY <1>4, <2>1, <3>1, <3>2, StayStep DEF LookAtDebounce
  <2>3. CASE ~IsSet(EventOf[at]) /\ at \in Retried
    <3>1. wpc' = "locked" /\ at' = at
      BY <1>4, <2>3 DEF LookAtDebounce
    <3>2. WaitState' /\ NothingMissed'
      BY <2>1, <3>1 DEF WaitState, NothingMissed
    <3> QED
      BY <1>4, <2>1, <3>1, <3>2, StayStep DEF LookAtDebounce
  <2>4. CASE ~IsSet(EventOf[at]) /\ at \notin Retried
    <3>1. at' \in Places \ {"start"} /\ wpc' = "enter"
      BY <1>4, <2>4, Failing DEF LookAtDebounce
    <3> QED
      BY <1>4, <3>1, GoStep DEF IInv, TypeOK, LookAtDebounce
  <2> QED
    BY <2>2, <2>3, <2>4
<1>5. CASE DebounceOver
  <2>1. at \in EventWaits /\ EventOf[at] \in Events
    BY <1>5, DebouncedWaits, EventWaitsFor DEF IInv, WaitState, DebounceOver
  <2>2. at' \in Places \ {"start"} /\ wpc' = "enter"
    BY <1>5, <2>1, EventWaitsFor, Leaving DEF DebounceOver
  <2>3. stamp' \in [Events -> {"none", "young", "old"}]
    BY <1>5, <2>1 DEF IInv, TypeOK, DebounceOver
  <2>4. \A e \in Events : IsSet(e)' <=> IsSet(e)
    BY <1>5, <2>1 DEF IInv, TypeOK, DebounceOver, IsSet
  <2>5. TypeOK' /\ WaitState' /\ NothingMissed'
    BY <1>5, <2>2, <2>3 DEF IInv, TypeOK, WaitState, NothingMissed, DebounceOver, signalled
  <2>6. EventsState' /\ ToldState'
    BY <1>5, <2>2, <2>4 DEF IInv, EventsState, ToldState, DebounceOver, signalled, Events, Connected
  <2> QED
    BY <2>5, <2>6 DEF IInv
<1> QED
  BY <1>1, <1>2, <1>3, <1>4, <1>5 DEF Wait

LEMMA ProceedStep == ASSUME IInv, Proceed PROVE IInv'
<1> USE RetriesAssumption
<1>1. CASE StartTest
  <2>1. at' = "added" /\ wpc' = "enter" /\ glib = "off" /\ glib' = "idle"
    BY <1>1 DEF IInv, EventsState, StartTest, Go
  <2>2. TypeOK' /\ WaitState' /\ NothingMissed'
    BY <1>1, <2>1 DEF IInv, TypeOK, WaitState, NothingMissed, StartTest, signalled, Places,
                      Trying, Waits, FlagWaits
  <2>3. EventsState' /\ ToldState'
    BY <1>1, <2>1 DEF IInv, EventsState, ToldState, StartTest, signalled, IsSet, Connected
  <2> QED
    BY <2>2, <2>3 DEF IInv
<1>2. CASE Hotfix
  BY <1>2, GoStep DEF IInv, TypeOK, Hotfix, Call, Go, Places, Trying
<1>3. CASE Observe \/ RemoveCallbacks
  <2>1. at' \in Places \ {"start"} /\ wpc' = "enter" /\ subscribed'
    BY <1>3 DEF Observe, RemoveCallbacks, Go, Places, Trying, Waits, EventWaits
  <2>2. UNCHANGED <<signalled, stamp, flag, glib, told, steady, attempt>>
    BY <1>3 DEF Observe, RemoveCallbacks
  <2>3. TypeOK' /\ WaitState' /\ NothingMissed'
    <3>1. subscribed' \in BOOLEAN
      BY <1>3 DEF Observe, RemoveCallbacks
    <3> QED
      BY <2>1, <2>2, <3>1 DEF IInv, TypeOK, WaitState, NothingMissed, signalled
  <2>4. EventsState' /\ ToldState'
    BY <2>1, <2>2 DEF IInv, EventsState, ToldState, signalled, IsSet, Connected
  <2> QED
    BY <2>3, <2>4 DEF IInv
<1>4. CASE ConnectModem
  <2>1. at' \in Places \ {"start"} /\ wpc' = "enter" /\ attempt' \in 1 .. Retries
    BY <1>4 DEF ConnectModem, Go, Places, Trying, Waits, EventWaits
  <2> QED
    BY <1>4, <2>1, GoStep DEF IInv, TypeOK, ConnectModem
<1>5. CASE Activate
  BY <1>5, GoStep DEF IInv, TypeOK, Activate, Call, Go, Places, Trying, Waits, EventWaits
<1>6. CASE Cooldown
  <2>1. at' \in Places \ {"start"} /\ wpc' = "enter"
    BY <1>6 DEF Cooldown, Go, Places, Trying, Waits, EventWaits
  <2>2. attempt' \in 1 .. Retries
    BY <1>6 DEF IInv, TypeOK, Cooldown
  <2> QED
    BY <1>6, <2>1, <2>2, GoStep DEF IInv, TypeOK, Cooldown
<1>7. CASE Measure
  BY <1>7, GoStep DEF IInv, TypeOK, Measure, Call, Go, Places, Trying
<1>8. CASE Leave
  BY <1>8, GoStep DEF IInv, TypeOK, Leave, Call, Go, Places, Trying, Waits, FlagWaits
<1>9. CASE Finish
  BY <1>9, GoStep DEF IInv, TypeOK, Finish, Call, Go, Places, Trying, Waits, FlagWaits
<1>10. CASE Cleanup
  BY <1>10, GoStep DEF IInv, TypeOK, Cleanup, Go, Places, Trying
<1>11. CASE Shutdown
  BY <1>11, GoStep DEF IInv, TypeOK, Shutdown, Go, Places, Trying
<1> QED
  BY <1>1, <1>2, <1>3, <1>4, <1>5, <1>6, <1>7, <1>8, <1>9, <1>10, <1>11 DEF Proceed

LEMMA InterruptStep == ASSUME IInv, Interrupt PROVE IInv'
BY GoStep DEF IInv, TypeOK, Interrupt, Go, Places, Trying

LEMMA GrowOldStep == ASSUME IInv, NEW e \in Events, GrowOld(e) PROVE IInv'
<1>1. stamp' \in [Events -> {"none", "young", "old"}]
  BY DEF IInv, TypeOK, GrowOld
<1>2. \A d \in Events : IsSet(d)' <=> IsSet(d)
  BY DEF IInv, TypeOK, GrowOld, IsSet
<1>3. at \in EventWaits => EventOf[at] \in Events
  BY EventWaitsFor
<1>4. TypeOK' /\ WaitState'
  BY <1>1 DEF IInv, TypeOK, WaitState, GrowOld, signalled, testVars
<1>5. at' = at /\ wpc' = wpc /\ flag' = flag
  BY DEF GrowOld, testVars
<1>6. NothingMissed'
  <2>1. at \in EventWaits => (IsSet(EventOf[at])' <=> IsSet(EventOf[at]))
    BY <1>2, <1>3, <1>5 DEF IsSet
  <2>2. wpc = "watch" => at \in EventWaits
    BY DebouncedWaits DEF IInv, WaitState
  <2> QED
    BY <1>5, <2>1, <2>2 DEF IInv, NothingMissed, IsSet
<1>7. EventsState' /\ ToldState'
  BY <1>2, <1>5 DEF IInv, EventsState, ToldState, GrowOld, signalled, Events, Connected
<1> QED
  BY <1>4, <1>6, <1>7 DEF IInv

-----------------------------------------------------------------------------
(***************************************************************************)
(* The invariant                                                           *)
(***************************************************************************)

LEMMA InitIInv == Init => IInv
<1> SUFFICES ASSUME Init PROVE IInv
  OBVIOUS
<1> USE RetriesAssumption
<1>1. TypeOK /\ WaitState /\ NothingMissed
  <2>1. flag \in [Flags -> BOOLEAN]
    BY ZenonT(30) DEF Init
  <2>2. plugged \in BOOLEAN /\ subscribed \in BOOLEAN /\ steady \in BOOLEAN
    BY DEF Init
  <2>3. attempt \in 1 .. Retries /\ stamp \in [Events -> {"none", "young", "old"}]
    BY DEF Init
  <2>4. mm \in ModemStates /\ nm \in DeviceStates /\ at \in Places
    BY DEF Init, ModemStates, DeviceStates, Places
  <2>5. glib = "off" /\ told = "nothing" /\ wpc = "enter"
    BY DEF Init
  <2>6. said \in [mm : ModemStates \cup {"lost"}, nm : DeviceStates \cup {"lost"}]
    BY DEF Init, ModemStates, DeviceStates
  <2> QED
    BY <2>1, <2>2, <2>3, <2>4, <2>5, <2>6 DEF TypeOK, WaitState, NothingMissed
<1>2. EventsState /\ ToldState
  BY DEF Init, EventsState, ToldState, IsSet, Events, AtLeast, Connected
<1> QED
  BY <1>1, <1>2 DEF IInv

LEMMA NextIInv == IInv /\ [Next]_vars => IInv'
<1> SUFFICES ASSUME IInv, [Next]_vars PROVE IInv'
  OBVIOUS
<1>1. CASE Next
  BY <1>1, HandlerStep, SignalStep, WaitStep, ProceedStep, InterruptStep, GrowOldStep DEF Next
<1>2. CASE UNCHANGED vars
  BY <1>2 DEF IInv, TypeOK, WaitState, NothingMissed, EventsState, ToldState, vars, signalled,
              testVars, IsSet, Connected
<1> QED
  BY <1>1, <1>2

LEMMA SpecIInv == Spec => []IInv
BY InitIInv, NextIInv, PTL DEF Spec

-----------------------------------------------------------------------------
(***************************************************************************)
(* Theorems                                                                *)
(***************************************************************************)

\* The events, the flags and the two threads stay in their domains, and the test
\* thread never starts more attempts to connect than Retries.
THEOREM TypeCorrect == Spec => []TypeOK
BY SpecIInv, PTL DEF IInv

\* No set or clear of an event is missed between a look of the test thread and
\* the sleep after it (EnhancedEvent, threading.Event).
THEOREM NothingIsMissed == Spec => []NothingMissed
BY SpecIInv, PTL DEF IInv

\* Between two signals the mediator's events say what ModemManager and
\* NetworkManager said last (modem_state_changed, connection_state_changed), but
\* for a signal whose handler raised before it stored the state.
THEOREM EventsFollowManagers == Spec => []EventsFollow
<1>1. IInv => EventsFollow
  BY DEF IInv, TypeOK, EventsState, EventsFollow, Connected, AtLeast
<1> QED
  BY <1>1, SpecIInv, PTL

\* A connection observer was told last how the modem is now, whatever order the
\* two managers' states changed in (notify_connection_subscriber).
THEOREM ObserversAreUpToDate == Spec => []ToldLast
<1>1. IInv => ToldLast
  BY DEF IInv, ToldState, ToldLast
<1> QED
  BY <1>1, SpecIInv, PTL

\* What follows a wait that succeeded follows it in no other way.
LEMMA OnlyAfter ==
  ASSUME NEW w \in EventWaits
  PROVE  After[w] \notin {w, "remove", "cooldown"}
BY DEF EventWaits, FlagWaits, Waits, After

\* The test thread goes on from a wait only while the event is set: set, cleared
\* and set again, it is the last one that counts (EnhancedEvent.wait).
THEOREM PassesOnlyWhenSet == Spec => SetWhenPassed
<1>1. ASSUME IInv, [Next]_vars
      PROVE  \A w \in EventWaits : at = w /\ at' = After[w] => IsSet(EventOf[w])
  <2> SUFFICES ASSUME NEW w \in EventWaits, at = w, at' = After[w] PROVE IsSet(EventOf[w])
    OBVIOUS
  <2>1. at' # at /\ at' # "remove" /\ at' # "cooldown"
    BY OnlyAfter
  <2>2. Next
    BY <1>1, <2>1 DEF vars, testVars
  <2>3. ~Handler /\ ~Signal /\ ~\E e \in Events : GrowOld(e)
    BY <2>1 DEF Handler, UpdateEnabled, UpdateRegistered, UpdateConnection, NotifyObservers,
                LoopStops, Signal, ModemAppears, ModemSignals, DeviceSignals, HandlerRaises,
                GrowOld, testVars
  <2>4. ~Interrupt /\ ~Proceed
    BY <2>1, EventWaitsFor DEF Interrupt, Go, Proceed, StartTest, Hotfix, Observe, ConnectModem,
                Activate, Cooldown, Measure, Leave, Finish, RemoveCallbacks, Cleanup, Shutdown,
                Call, EventWaits
  <2>5. Wait /\ ~TimesOut /\ ~LookForFlag
    BY <2>1, <2>2, <2>3, <2>4, EventWaitsFor DEF Next, TimesOut, Fail, Go, LookForFlag
  <2>6. CASE LookForEvent
    BY <2>1, <2>6 DEF LookForEvent
  <2>7. CASE LookAtDebounce
    BY <2>1, <2>7 DEF LookAtDebounce, Fail, Go
  <2>8. CASE DebounceOver
    BY <2>8 DEF DebounceOver
  <2> QED
    BY <2>5, <2>6, <2>7, <2>8 DEF Wait
<1> QED
  BY <1>1, SpecIInv, PTL DEF Spec, SetWhenPassed
====
