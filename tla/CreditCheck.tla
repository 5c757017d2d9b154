----------------------------- MODULE CreditCheck -----------------------------
(***************************************************************************)
(* The bill of a test.  A credit checker asks the operator for the bill    *)
(* before the test and takes it as the base; after the test it asks until  *)
(* the difference covers what the test has consumed.  The operator, which  *)
(* is external, bills traffic late and in any order, may not answer, and   *)
(* answers by SMS may arrive after their request has been given up.        *)
(*                                                                         *)
(* The checkers of the operators differ in what they read and in how they  *)
(* fail; each is a record of these traits.  Traffic comes in parts: what   *)
(* was transferred in an earlier session, the test's payloads, of which    *)
(* one is added to the consumed units, and what follows the test.          *)
(***************************************************************************)
EXTENDS Integers, FiniteSets, FiniteSetsExt

CONSTANTS
  Retry,     \* `retry' of _retrieve_current_bill: attempts after the first
  Quota,     \* the units of the operator's allowance
  Reserve    \* the units an operator may hold back, and by which a base is lowered

ASSUME CreditAssumption == Retry \in Nat /\ Quota \in Nat /\ Reserve \in Nat

VARIABLES
  checker,    \* the traits of the test's credit checker
  age,        \* of the earlier session: before or after startup_time - 5 min
  stage,      \* where the test is with its bill
  tries,      \* failed attempts of the current retrieval
  session,    \* self.s: "none", "open", or "dead" (it will not answer again)
  base,       \* base_bill, as the answer it was taken from
  answer,     \* the answer the last retrieval has used
  late,       \* answers of requests that were given up
  consumed,   \* consumed_credit: traffic_bytes_total and ...
  connections,\* ... traffic_cnt_connections
  transferred,\* the traffic there has been
  billed,     \* the traffic the operator has billed
  held,       \* it holds the reserve back
  asOf,       \* its bill's date is past the end of the test plus the delta
  clock,      \* since wait_for_bill began: "start", past the "delta" or "over"
  before      \* what was billed when the bill before the test was asked for

operatorVars == <<billed, held, asOf>>
checkerVars == <<tries, session, base, answer, late>>
creditVars == <<checker, age, stage, checkerVars, consumed, connections,
                transferred, operatorVars, clock, before>>

Traffic == {"earlier", "free", "counted", "after"}
Size(c) == IF c = "counted" THEN 2 ELSE 1
Volume(S) ==
  LET units(c) == IF c \in S THEN Size(c) ELSE 0
  IN  units("earlier") + units("free") + units("counted") + units("after")

None == [billed |-> {"nothing"}, held |-> FALSE]

-----------------------------------------------------------------------------
(***************************************************************************)
(* The checkers: what the operator shows (the units used, the units left,  *)
(* or a list of connections), how it is asked, whether zero is taken for   *)
(* no answer, which date the bill has, whether the base is lowered by the  *)
(* reserve, and the quirks of single checkers.                             *)
(***************************************************************************)

Plain == [shows |-> "used", via |-> "web", zeroIsNone |-> FALSE,
          date |-> "none", lowered |-> FALSE, quirk |-> "none"]

\* The difference of two differences: base_bill_app and base_bill are the same.
AT_A1 == Plain
\* The zero-rated units, which the bill is reduced by, come in a second SMS.
AT_A1_SMS == [Plain EXCEPT !.via = "modem"]
AT_Drei == Plain
AT_HoT == Plain
AT_Magenta == [Plain EXCEPT !.date = "operator"]
RO_Telekom == [Plain EXCEPT !.date = "operator"]
SK_O2 == [Plain EXCEPT !.zeroIsNone = TRUE]

HR_A1 == [Plain EXCEPT !.shows = "left", !.date = "operator"]
HR_Telekom == HR_A1
HR_Telemach == [Plain EXCEPT !.shows = "left", !.zeroIsNone = TRUE]
SI_Telekom == HR_Telemach
SK_Orange == HR_Telemach
SK_4ka == [HR_Telemach EXCEPT !.lowered = TRUE]
RO_Orange == [HR_A1 EXCEPT !.lowered = TRUE]
\* After 50 minutes refresh_token is called, which is a string by then.
RO_Vodafone == [Plain EXCEPT !.shows = "left", !.quirk = "token"]
RO_Telekom_Ussd == [Plain EXCEPT !.shows = "left", !.via = "modem"]
SI_A1_SMS == RO_Telekom_Ussd

AT_eety == [Plain EXCEPT !.shows = "list", !.date = "latest"]
\* base_bill is [] from the start: no base is ever taken.
AT_yesss == [AT_eety EXCEPT !.quirk = "no base"]
\* Dates without a time zone cannot be compared, and a ConnectionError or an
\* AttributeError is neither raised nor the end of a session.
AT_spusu == [AT_eety EXCEPT !.quirk = "naive"]
\* The date is taken from entries of all kinds, of which some are not converted.
SI_A1 == [AT_eety EXCEPT !.quirk = "mixed"]
SK_O2_Web == SI_A1

Checkers == {AT_A1, AT_A1_SMS, AT_Drei, AT_HoT, AT_Magenta, RO_Telekom, SK_O2, HR_A1,
             HR_Telekom, HR_Telemach, SI_Telekom, SK_Orange, SK_4ka, RO_Orange, RO_Vodafone,
             RO_Telekom_Ussd, SI_A1_SMS, AT_eety, AT_yesss, AT_spusu, SI_A1, SK_O2_Web}

-----------------------------------------------------------------------------
(***************************************************************************)
(* credit_checker.py: the bill                                             *)
(***************************************************************************)

\* traffic_bytes_total as the operator shows it: units left count negative.
Shown(a) ==
  IF checker.shows = "used" THEN Volume(a.billed)
  ELSE -Max({0, Quota - Volume(a.billed) - (IF a.held THEN Reserve ELSE 0)})

\* subtract_base_bill, which leaves zero alone, on either side.
SubtractBaseBill(v, b) == IF v # 0 /\ b # 0 THEN v - b ELSE v

\* Mutant of NewEntries: entries of old sessions are not discarded.
AnyNewEntries(a, b) == a.billed \ b.billed

\* subtract_list_of_dict, and only the entries of this session.
NewEntries(a, b) == {c \in a.billed \ b.billed : c = "earlier" => age = "recent"}

\* traffic_bytes_total and traffic_cnt_connections of the bill for the answer a.
Units(a, b) ==
  IF checker.shows = "list" THEN Volume(NewEntries(a, b))
  ELSE SubtractBaseBill(Shown(a), Shown(b) - (IF checker.lowered THEN Reserve ELSE 0))
Entries(a, b) == IF checker.shows = "list" THEN Cardinality(NewEntries(a, b)) ELSE 0

\* timestamp_effective_date against the end of the test plus the delta; naive
\* dates cannot be compared (see DatesClash).
DateReached(a) ==
  /\ checker.quirk # "naive"
  /\ CASE checker.date = "none" -> FALSE
       [] checker.date = "operator" -> asOf
       [] checker.date = "latest" -> "after" \in a.billed

\* Mutant of Covers: more than what is required.
Exceeds(unit, required) == unit # 0 /\ required # 0 /\ unit > required

Covers(unit, required) == unit # 0 /\ required # 0 /\ unit >= required

\* is_requirement_fullfilled: one unit that is there and covers what is required
\* is enough.
Fulfilled(a, b) ==
  \/ Covers(Units(a, b), consumed)
  \/ Covers(Entries(a, b), connections)
  \/ DateReached(a)

\* The dates cannot be compared: TypeError leaves wait_for_bill.
DatesClash(a) ==
  CASE checker.quirk = "naive" -> {a.billed # {}}
    [] checker.quirk = "mixed" -> IF a.billed = {} THEN BOOLEAN ELSE {FALSE}
    [] OTHER -> {FALSE}

-----------------------------------------------------------------------------
(***************************************************************************)
(* _retrieve_current_bill: up to Retry + 1 attempts                        *)
(***************************************************************************)

Asking == stage \in {"pre", "waiting"}
Running == stage \in {"pre", "test", "waiting", "asleep"}
Now == [billed |-> billed, held |-> held]

\* The bill before the test is asked for, over the web each time anew.
NoteBefore ==
  before' = IF stage = "pre" /\ (checker.via = "web" \/ tries = 0) THEN billed ELSE before

\* The answer is there, but the attempt raises: zero bytes, or a new entry whose
\* naive date is compared with startup_time.
Unusable(a, b) ==
  \/ checker.zeroIsNone /\ Shown(a) = 0
  \/ checker.quirk = "naive" /\ a.billed \ b.billed # {}

\* new_base, if there is none.
BaseAfter(a) == IF base = None THEN a ELSE base

\* wait_for_bill with a bill that does not suffice.
AskAgain == stage' = IF clock = "over" THEN "timeout" ELSE "asleep"

\* login_websession, if there is no session.
LogIn == session' = IF checker.via = "web" THEN "open" ELSE session

\* An attempt succeeds.  The queue is new and holds nothing that arrived before
\* the request, but an SMS may be the late answer to an earlier one.
Succeed(a) ==
  /\ Asking /\ session # "dead" /\ ~Unusable(a, BaseAfter(a))
  /\ a = Now \/ (checker.via = "modem" /\ a \in late)
  /\ late' \in IF a = Now THEN {late} ELSE {{}, {Now}}
  /\ base' = BaseAfter(a)
  /\ answer' = a
  /\ LogIn
  /\ tries' = 0
  /\ NoteBefore
  /\ IF stage = "pre" THEN stage' = "test"
     ELSE IF Fulfilled(a, base') THEN stage' = "recognised"
     ELSE \E clash \in DatesClash(a) : IF clash THEN stage' = "raised" ELSE AskAgain
  /\ UNCHANGED <<checker, age, consumed, connections, transferred, operatorVars, clock>>

\* An attempt raises: the next one logs in again; after the last one the bill
\* before the test, and with it the test, fails, or wait_for_bill does.  The
\* answer to an SMS may still come.
FailAttempt ==
  /\ Asking
  /\ late' \in IF checker.via = "modem" THEN {late, {Now}} ELSE {late}
  /\ NoteBefore
  /\ IF tries < Retry
     THEN tries' = tries + 1 /\ session' = "none" /\ UNCHANGED stage
     ELSE tries' = 0 /\ UNCHANGED session
          /\ stage' = IF stage = "pre" THEN "aborted" ELSE "raised"
  /\ UNCHANGED <<checker, age, base, answer, consumed, connections, transferred, operatorVars, clock>>

\* setup_callbacks, before the first attempt: no modem registers, or there is no
\* gateway to the operator's site.
FailSetup ==
  /\ Asking /\ tries = 0
  /\ stage' = IF stage = "pre" THEN "aborted" ELSE "raised"
  /\ UNCHANGED <<checker, age, checkerVars, consumed, connections, transferred, operatorVars,
                 clock, before>>

\* AT_spusu: a ConnectionError or a page without the bill.  The session object
\* stays, logged in or not, and after the last attempt the bill is empty.
SwallowFailure ==
  /\ Asking /\ checker.quirk = "naive"
  /\ session' = IF session = "none" THEN "dead" ELSE session
  /\ NoteBefore
  /\ IF tries < Retry THEN tries' = tries + 1 /\ UNCHANGED <<stage, answer>>
     ELSE /\ tries' = 0 /\ answer' = None
          /\ IF stage = "pre" THEN stage' = "test" ELSE AskAgain
  /\ UNCHANGED <<checker, age, base, late, consumed, connections, transferred, operatorVars, clock>>

\* RO_Vodafone: the token is 50 minutes old.
TokenExpires ==
  /\ Running /\ checker.quirk = "token" /\ session = "open"
  /\ session' = "dead"
  /\ UNCHANGED <<checker, age, stage, tries, base, answer, late, consumed, connections,
                 transferred, operatorVars, clock, before>>

-----------------------------------------------------------------------------
(***************************************************************************)
(* The test: test_network_billing.py and wait_for_bill                     *)
(***************************************************************************)

\* TestNetworkBase.connection_state_changed.
CountConnection ==
  /\ stage = "test" /\ connections = 0
  /\ connections' = 1
  /\ UNCHANGED <<checker, age, stage, checkerVars, consumed, transferred, operatorVars, clock, before>>

\* execute_test_network_core: the next payload.  One that gives up after some
\* failures ends like any other, and its size is added all the same.
ExecutePayload(c, moved) ==
  /\ stage = "test" /\ connections > 0
  /\ consumed = 0 /\ c \notin transferred
  /\ transferred' = IF moved THEN transferred \cup {c} ELSE transferred
  /\ consumed' = IF c = "counted" THEN consumed + Size(c) ELSE consumed
  /\ UNCHANGED <<checker, age, stage, checkerVars, connections, operatorVars, clock, before>>

\* The test succeeds and the bill is waited for, with the radio off unless the
\* checker needs the modem, or the test fails.
FinishTest(ok) ==
  /\ stage = "test"
  /\ stage' = IF ok THEN "waiting" ELSE "aborted"
  /\ held' = FALSE
  /\ UNCHANGED <<checker, age, checkerVars, consumed, connections, transferred, billed, asOf,
                 clock, before>>

\* time.sleep is over: ask again.
WakeUp ==
  /\ stage = "asleep"
  /\ stage' = "waiting"
  /\ answer' = None
  /\ UNCHANGED <<checker, age, tries, session, base, late, consumed, connections, transferred,
                 operatorVars, clock, before>>

-----------------------------------------------------------------------------
(***************************************************************************)
(* The operator, and time                                                  *)
(***************************************************************************)

Bill(c) ==
  /\ Running /\ c \in transferred \ billed
  /\ billed' = billed \cup {c}
  /\ UNCHANGED <<checker, age, stage, checkerVars, consumed, connections, transferred, held,
                 asOf, clock, before>>

\* The reserve is held back while the SIM is attached.
HoldBack(on) ==
  /\ stage \in {"pre", "test"} /\ checker.lowered /\ held # on
  /\ held' = on
  /\ UNCHANGED <<checker, age, stage, checkerVars, consumed, connections, transferred, billed,
                 asOf, clock, before>>

DateBill ==
  /\ Running /\ checker.date = "operator" /\ clock # "start" /\ ~asOf
  /\ asOf' = TRUE
  /\ UNCHANGED <<checker, age, stage, checkerVars, consumed, connections, transferred, billed,
                 held, clock, before>>

\* The SIM is used again, by whoever has it.
UseAgain ==
  /\ stage \in {"waiting", "asleep"} /\ clock # "start" /\ checker.date = "latest"
  /\ transferred' = transferred \cup {"after"}
  /\ UNCHANGED <<checker, age, stage, checkerVars, consumed, connections, operatorVars, clock, before>>

Elapse ==
  /\ stage \in {"waiting", "asleep"} /\ clock # "over"
  /\ clock' = IF clock = "start" THEN "delta" ELSE "over"
  /\ UNCHANGED <<checker, age, stage, checkerVars, consumed, connections, transferred,
                 operatorVars, before>>

-----------------------------------------------------------------------------
CreditInit ==
  /\ checker \in Checkers
  /\ age \in IF checker.shows = "list" THEN {"old", "recent"} ELSE {"old"}
  /\ stage = "pre" /\ tries = 0 /\ session = "none"
  /\ base = IF checker.quirk = "no base" THEN [billed |-> {}, held |-> FALSE] ELSE None
  /\ answer = None /\ late = {}
  /\ consumed = 0 /\ connections = 0
  /\ transferred \in {{}, {"earlier"}} /\ billed \in {{}, transferred}
  /\ held = FALSE /\ asOf = FALSE /\ clock = "start" /\ before = {}

CreditNext ==
  \/ \E a \in {Now} \cup late : Succeed(a)
  \/ FailAttempt \/ FailSetup \/ SwallowFailure \/ TokenExpires
  \/ CountConnection \/ WakeUp
  \/ \E c \in {"free", "counted"}, moved \in BOOLEAN : ExecutePayload(c, moved)
  \/ \E ok \in BOOLEAN : FinishTest(ok)
  \/ \E c \in Traffic : Bill(c)
  \/ \E on \in BOOLEAN : HoldBack(on)
  \/ DateBill \/ UseAgain \/ Elapse

CreditSpec == CreditInit /\ [][CreditNext]_creditVars

-----------------------------------------------------------------------------
(***************************************************************************)
(* Properties                                                              *)
(***************************************************************************)

\* What the operator has billed since the bill before the test was asked for; a
\* list is only read for entries of this session, the one of AT_yesss for all of
\* them, whenever they were billed.
Evidence ==
  LET since == IF checker.quirk = "no base" THEN billed ELSE billed \ before
  IN  {c \in since : checker.shows = "list" /\ c = "earlier" => age = "recent"}

\* wait_for_bill recognises units only when the operator has billed them: what was
\* billed before the test, or (in a list) for an older session, is never taken for
\* the test's, however late, out of order or stale the answers were.  The reserve
\* of two checkers counts as billed, one entry per connection is enough in a list,
\* and a bill dated ten minutes after the test is taken as complete.
RecognisedIsBilled ==
  stage = "recognised" =>
    \/ Volume(Evidence) + (IF checker.lowered THEN Reserve ELSE 0) >= consumed /\ consumed > 0
    \/ checker.shows = "list" /\ Cardinality(Evidence) >= connections /\ connections > 0
    \/ checker.date = "operator" /\ asOf
    \/ checker.date = "latest" /\ "after" \in billed

\* wait_for_bill does not go to sleep on a bill that has all the test has
\* consumed and that the base has not, unless the allowance is used up: the
\* units left are zero then, from which no base is subtracted.
NothingOverlooked ==
  stage = "asleep" /\ answer # None /\ "counted" \in answer.billed \ base.billed =>
    checker.shows = "left" /\ Shown(answer) = 0
=============================================================================
