-------------------------- MODULE PicoTunnelProofs ---------------------------
(***************************************************************************)
(* Proofs about PicoTunnel, for any answers to reset, lengths and sizes,   *)
(* any number of commands and of resets: the lemmas called ...Does say     *)
(* what a step changes, the invariant is then kept part by part.  Last,    *)
(* parse_ATR against the structure of an ATR, for every ATR.               *)
(***************************************************************************)
EXTENDS PicoTunnel, SequenceTheorems, FiniteSetTheorems, WellFoundedInduction, TLAPS

-----------------------------------------------------------------------------
(***************************************************************************)
(* The inductive invariant                                                 *)
(***************************************************************************)

CardAtr == Parsed[cardAtr]
FromPico == [op : {"apdu"}, n : Nat, ins : {"other", "getresponse"}]
            \cup [op : {"sendatr"}] \cup [op : {"state"}, ready : BOOLEAN]
ToPico == [op : {"apdu"}, ref : Nat, len : Nat, more : BOOLEAN]
          \cup [op : {"atr"}, atr : {cardAtr}] \cup [op : {"state", "config"}]

Places == {"off", "waiting", "start", "pps", "t0", "t0usb", "t1", "t1usb", "chain", "garbled"}
Responses == [ref : Nat, len : Nat]
Core1s == [pc : Places, le : Nat, cache : Responses, seq : 0..1, size : Nat \ {0}, left : Int, cnt : 0..1, bit : 0..1]
Situations == {"reset", "atr", "pps", "ready", "sent"}
Modems == [pc : Situations, n : Nat, ins : {"other", "getresponse"},
           due : Responses, expect : 0..1, regular : {"fresh", "ok", "off"}]
T0Places == {"pps", "t0", "t0usb"}
T1Places == {"t1", "t1usb", "chain"}

TypeInv ==
    /\ cardAtr \in Atrs
    /\ usbOut \in Seq(FromPico) /\ usbIn \in Seq(ToPico)
    /\ proxy = <<>> \/ \E msg \in FromPico : msg.op = "apdu" /\ proxy = <<msg>>
    /\ card \in Nat /\ half \in BOOLEAN /\ torn \in BOOLEAN
    /\ core0 \in {"ask", "boot", "loop", "high"}
    /\ atr \in {NoAtr, CardAtr} /\ atrQueue \in Seq({CardAtr}) /\ relayConfig \in Seq({CardAtr})
    /\ core1 \in Core1s /\ modem \in Modems
    /\ line \in BOOLEAN /\ interrupted \in BOOLEAN /\ resets \in Nat

\* The second core runs the protocol of the card's ATR, of which there is one, and
\* a message whose header it has read is there.
ProtocolInv ==
    /\ core0 \in {"ask", "boot"} => core1.pc = "off" /\ ~half
    /\ half => usbIn # <<>>
    /\ core0 \notin {"ask", "boot"} => atr = CardAtr
    /\ core1.pc \in T0Places => CardAtr.protocol = 0
    /\ core1.pc \in T1Places => CardAtr.protocol = 1
    /\ modem.ins = "getresponse" \/ modem.due # NoDue => CardAtr.protocol = 0

\* Where the counters are, as long as the reader keeps to what the Pico numbers
\* correctly: one apart before its first command, equal from then on, and in a
\* chain the counter of the response goes with the reader's.
CounterInv ==
    /\ core1.pc \in {"t1usb", "chain"} => modem.pc # "ready"
    /\ core1.pc \in T1Places /\ modem.pc \in {"ready", "sent"} /\ modem.regular = "fresh" =>
         core1.pc = "t1" /\ core1.seq = Flip(modem.expect)
    /\ core1.pc = "chain" /\ modem.pc = "sent" /\ modem.regular = "ok" =>
         core1.cnt = core1.bit /\ core1.seq = 0

\* The places of a command: on the way to the proxy, at the proxy, and as its
\* response on the way back.
Apdus(s) == {i \in DOMAIN s : s[i].op = "apdu"}
AtOut == Apdus(usbOut)
AtIn == Apdus(usbIn)
InFlight == AtOut # {} \/ proxy # <<>> \/ AtIn # {}

\* Unless a reset has cut a command, there is one under way at most, which the
\* second core waits for, and the modem too, if it is not in reset.
FlightInv ==
    ~interrupted =>
      /\ ~torn
      /\ InFlight => core1.pc \in {"t0usb", "t1usb"} /\ modem.pc \in {"sent", "reset", "atr"}
      /\ \A i, j \in AtOut : i = j
      /\ \A i, j \in AtIn : i = j
      /\ AtOut # {} => proxy = <<>> /\ AtIn = {}
      /\ proxy # <<>> => AtIn = {}

\* What is under way is the command the modem waits for, or its response; what
\* it was told to fetch is what the card has done last, and what is cached.
ContentInv ==
    ~interrupted =>
      /\ modem.pc \in {"reset", "atr", "pps"} => modem.due = NoDue
      /\ modem.due # NoDue => modem.due.ref = card
      /\ \A i \in AtOut : modem.pc = "sent" => usbOut[i].n = modem.n /\ usbOut[i].ins = modem.ins
      /\ proxy # <<>> /\ modem.pc = "sent" => proxy[1].n = modem.n /\ proxy[1].ins = modem.ins
      /\ \A i \in AtIn :
           /\ usbIn[i].ref = card
           /\ modem.pc = "sent" /\ modem.ins = "other" => card = modem.n
      /\ core1.pc = "t0usb" => core1.cache = Off.cache
      /\ core1.pc = "t0usb" /\ modem.pc = "sent" /\ modem.ins = "other" => modem.due = NoDue
      /\ core1.pc = "t0usb" /\ modem.pc = "sent" /\ modem.ins = "getresponse" =>
           modem.due # NoDue /\ modem.due.len \notin 1..255
      /\ core1.pc = "t0" /\ modem.pc = "ready" /\ modem.due # NoDue =>
           /\ core1.cache.len = modem.due.len % 256
           /\ core1.cache.len > 0 => core1.cache.ref = modem.due.ref

\* The queues, the cached length and the bounds.
BoundInv == /\ Len(atrQueue) <= 2 /\ Len(relayConfig) <= 1 /\ core1.cache.len <= 255
            /\ resets <= MaxResets /\ modem.n <= MaxCmds

IInv == /\ TypeInv /\ ProtocolInv /\ CounterInv /\ FlightInv /\ ContentInv /\ BoundInv
        /\ SequenceHolds /\ RepliesMatch

-----------------------------------------------------------------------------
(***************************************************************************)
(* Messages                                                                *)
(***************************************************************************)

\* Taking a message from a queue, adding one, and adding several that are no
\* commands or responses.
LEMMA HeadAndTail ==
  ASSUME NEW S, NEW s \in Seq(S), s # <<>>
  PROVE  /\ Head(s) \in S /\ Tail(s) \in Seq(S)
         /\ Head(s).op = "apdu" <=> 1 \in Apdus(s)
         /\ Head(s) = s[1]
         /\ \A i \in Apdus(Tail(s)) : i \in Nat /\ i # 0 /\ i + 1 \in Apdus(s) /\ Tail(s)[i] = s[i + 1]
<1>1. Len(s) \in Nat /\ Len(s) > 0 /\ DOMAIN s = 1..Len(s) /\ Head(s) = s[1] /\ Head(s) \in S /\ Tail(s) \in Seq(S)
  OBVIOUS
<1>2. Len(Tail(s)) = Len(s) - 1 /\ DOMAIN Tail(s) = 1..(Len(s) - 1)
  OBVIOUS
<1>3. \A i \in 1..(Len(s) - 1) : Tail(s)[i] = s[i + 1]
  OBVIOUS
<1>4. Head(s).op = "apdu" <=> 1 \in Apdus(s)
  BY <1>1 DEF Apdus
<1>5. ASSUME NEW i \in Apdus(Tail(s)) PROVE i \in Nat /\ i # 0 /\ i + 1 \in Apdus(s) /\ Tail(s)[i] = s[i + 1]
  <2>1. i \in 1..(Len(s) - 1) /\ Tail(s)[i].op = "apdu"
    BY <1>2 DEF Apdus
  <2>2. i + 1 \in 1..Len(s) /\ s[i + 1].op = "apdu" /\ Tail(s)[i] = s[i + 1]
    BY <1>1, <1>3, <2>1
  <2> QED
    BY <1>1, <2>1, <2>2 DEF Apdus
<1> QED
  BY <1>1, <1>4, <1>5

LEMMA Appended ==
  ASSUME NEW S, NEW s \in Seq(S), NEW e \in S
  PROVE  /\ Append(s, e) \in Seq(S)
         /\ Apdus(Append(s, e)) = IF e.op = "apdu" THEN Apdus(s) \cup {Len(s) + 1} ELSE Apdus(s)
         /\ \A i \in Apdus(s) : Append(s, e)[i] = s[i]
         /\ Append(s, e)[Len(s) + 1] = e
<1>1. Append(s, e) \in Seq(S) /\ Len(s) \in Nat /\ DOMAIN s = 1..Len(s) /\ DOMAIN Append(s, e) = 1..(Len(s) + 1)
  OBVIOUS
<1>2. \A i \in 1..Len(s) : Append(s, e)[i] = s[i]
  OBVIOUS
<1>3. Append(s, e)[Len(s) + 1] = e
  OBVIOUS
<1>4. \A i : i \in 1..(Len(s) + 1) <=> i \in 1..Len(s) \/ i = Len(s) + 1
  BY <1>1
<1>5. \A i : i \in Apdus(Append(s, e)) <=> i \in Apdus(s) \/ (i = Len(s) + 1 /\ e.op = "apdu")
  BY <1>1, <1>2, <1>3, <1>4 DEF Apdus
<1>6. \A i \in Apdus(s) : Append(s, e)[i] = s[i]
  BY <1>1, <1>2 DEF Apdus
<1> QED
  BY <1>1, <1>3, <1>5, <1>6

\* What the proxy sends on its own is no response.
LEMMA Informed ==
  ASSUME NEW S, NEW s \in Seq(S), NEW more \in Seq(S), \A i \in DOMAIN more : more[i].op # "apdu"
  PROVE  /\ s \o more \in Seq(S) /\ Apdus(s \o more) = Apdus(s)
         /\ \A i \in Apdus(s) : (s \o more)[i] = s[i]
         /\ Len(s) <= Len(s \o more)
<1>1. /\ s \o more \in Seq(S) /\ Len(s \o more) = Len(s) + Len(more)
      /\ \A i \in 1..(Len(s) + Len(more)) : (s \o more)[i] = IF i <= Len(s) THEN s[i] ELSE more[i - Len(s)]
  BY ConcatProperties
<1>2. /\ Len(s) \in Nat /\ Len(more) \in Nat /\ DOMAIN s = 1..Len(s) /\ DOMAIN more = 1..Len(more)
      /\ DOMAIN (s \o more) = 1..Len(s \o more)
  BY <1>1
<1>3. ASSUME NEW i \in 1..Len(s) PROVE i \in 1..(Len(s) + Len(more)) /\ (s \o more)[i] = s[i]
  BY <1>1, <1>2
<1>4. ASSUME NEW i \in 1..(Len(s) + Len(more)), i \notin 1..Len(s)
      PROVE  (s \o more)[i].op # "apdu"
  <2>1. ~(i <= Len(s)) /\ i - Len(s) \in 1..Len(more)
    BY <1>2, <1>4
  <2> QED
    BY <1>1, <1>2, <1>4, <2>1
<1> QED
  BY <1>1, <1>2, <1>3, <1>4 DEF Apdus

LEMMA MessageTypes ==
  /\ \A msg \in FromPico :
       /\ msg.op \in {"apdu", "sendatr", "state"}
       /\ msg.op = "apdu" => msg.n \in Nat /\ msg.ins \in {"other", "getresponse"}
  /\ \A msg \in ToPico :
       /\ msg.op \in {"apdu", "atr", "state", "config"}
       /\ msg.op = "apdu" => msg.ref \in Nat /\ msg.len \in Nat
       /\ msg.op = "atr" => msg.atr = cardAtr
BY DEF FromPico, ToPico

\* The flight of a command never has more than one place of a message.
LEMMA OnlyHead ==
  ASSUME NEW S, NEW s \in Seq(S), s # <<>>, \A i, j \in Apdus(s) : i = j
  PROVE  /\ \A i, j \in Apdus(Tail(s)) : i = j
         /\ Head(s).op = "apdu" => Apdus(Tail(s)) = {}
<1>1. \A i \in Apdus(Tail(s)) : i \in Nat /\ i # 0 /\ i + 1 \in Apdus(s)
  BY HeadAndTail
<1>2. ASSUME NEW i \in Apdus(Tail(s)), NEW j \in Apdus(Tail(s)) PROVE i = j
  <2>1. i \in Nat /\ j \in Nat /\ i + 1 = j + 1
    BY <1>1
  <2> QED
    BY <2>1
<1>3. ASSUME Head(s).op = "apdu", NEW i \in Apdus(Tail(s)) PROVE FALSE
  <2>1. 1 \in Apdus(s)
    BY <1>3, HeadAndTail
  <2>2. i \in Nat /\ i # 0 /\ i + 1 = 1
    BY <1>1, <1>3, <2>1
  <2> QED
    BY <2>2
<1> QED
  BY <1>2, <1>3

-----------------------------------------------------------------------------
(***************************************************************************)
(* Types                                                                   *)
(***************************************************************************)

LEMMA InitIInv == PicoInit => IInv
<1> SUFFICES ASSUME PicoInit PROVE IInv
  OBVIOUS
<1>1. Off \in Core1s /\ Off.pc = "off" /\ NoModem \in Modems /\ NoModem.pc = "reset" /\ NoModem.ins = "other"
      /\ NoModem.due = NoDue /\ NoDue \in Responses
  BY DEF Off, Core1s, NoModem, Modems, NoDue, Places, Situations, Responses
<1>2. /\ cardAtr \in Atrs /\ proxy = <<>> /\ card = 0 /\ usbOut = <<>> /\ usbIn = <<[op |-> "state"], [op |-> "config"]>>
      /\ half = FALSE /\ torn = FALSE /\ core0 = "ask" /\ atr = NoAtr /\ atrQueue = <<>> /\ relayConfig = <<>>
      /\ core1 = Off /\ line = FALSE /\ resets = 0 /\ modem = NoModem /\ reply = NoReply /\ interrupted = FALSE
  BY DEF PicoInit
<1>3. TypeInv
  <2>1. [op |-> "state"] \in ToPico /\ [op |-> "config"] \in ToPico
    BY DEF ToPico
  <2>2. usbIn \in Seq(ToPico)
    BY <1>2, <2>1
  <2>3. usbOut \in Seq(FromPico) /\ atrQueue \in Seq({CardAtr}) /\ relayConfig \in Seq({CardAtr})
    BY <1>2
  <2>4. core1 \in Core1s /\ modem \in Modems /\ atr \in {NoAtr, CardAtr}
    BY <1>1, <1>2
  <2> QED
    BY <1>2, <2>2, <2>3, <2>4 DEF TypeInv
<1>4. ProtocolInv /\ CounterInv /\ SequenceHolds
  BY <1>1, <1>2 DEF ProtocolInv, CounterInv, SequenceHolds, T0Places, T1Places
<1>5. AtOut = {} /\ AtIn = {}
  BY <1>2 DEF AtOut, AtIn, Apdus
<1>6. FlightInv /\ ContentInv
  BY <1>1, <1>2, <1>5 DEF FlightInv, ContentInv, InFlight
<1>7. RepliesMatch
  BY <1>2 DEF RepliesMatch, NoReply
<1>8. BoundInv
  BY <1>2, PicoAssumption DEF BoundInv, Off, NoModem
<1> QED
  BY <1>3, <1>4, <1>6, <1>7, <1>8 DEF IInv

LEMMA OffTypes ==
  /\ Off \in Core1s /\ Off.cache = [ref |-> 0, len |-> 0] /\ Off.cache \in Responses /\ NoDue \in Responses
  /\ \A pc \in {"off", "waiting", "start"} : [Off EXCEPT !.pc = pc] \in Core1s /\ [Off EXCEPT !.pc = pc].pc = pc
BY DEF Off, Core1s, NoDue, Places, Responses

\* The fields of the second core's state and of the modem's.
Core(c, pc, le, cache, seq, cnt, bit) ==
    c \in Core1s /\ c.pc = pc /\ c.le = le /\ c.cache = cache /\ c.seq = seq /\ c.cnt = cnt /\ c.bit = bit
Modem(m, pc, n, ins, due, expect, regular) ==
    m \in Modems /\ m.pc = pc /\ m.n = n /\ m.ins = ins /\ m.due = due /\ m.expect = expect /\ m.regular = regular

LEMMA CoreTypes ==
  ASSUME NEW c \in Core1s
  PROVE  /\ c.le \in Nat /\ c.cache \in Responses /\ c.seq \in 0..1 /\ c.size \in Nat \ {0} /\ c.left \in Int
         /\ c.cnt \in 0..1 /\ c.bit \in 0..1 /\ c.pc \in Places
BY DEF Core1s

LEMMA ModemTypes ==
  ASSUME NEW m \in Modems
  PROVE  /\ m.pc \in Situations /\ m.n \in Nat /\ m.ins \in {"other", "getresponse"}
         /\ m.due \in Responses /\ m.expect \in 0..1 /\ m.regular \in {"fresh", "ok", "off"}
BY DEF Modems

\* What the steps of the second core change of its state.
LEMMA CoreUpdates ==
  ASSUME NEW c \in Core1s
  PROVE  /\ Core(c, c.pc, c.le, c.cache, c.seq, c.cnt, c.bit)
         /\ \A pc \in Places :
              Core([c EXCEPT !.pc = pc], pc, c.le, c.cache, c.seq, c.cnt, c.bit)
         /\ \A seq \in 0..1 :
              Core([c EXCEPT !.seq = seq], c.pc, c.le, c.cache, seq, c.cnt, c.bit)
         /\ \A cnt \in 0..1 :
              Core([c EXCEPT !.cnt = cnt], c.pc, c.le, c.cache, c.seq, cnt, c.bit)
         /\ \A pc \in Places, seq \in 0..1 :
              Core([c EXCEPT !.pc = pc, !.seq = seq], pc, c.le, c.cache, seq, c.cnt, c.bit)
         /\ \A seq \in 0..1, size \in Nat \ {0} :
              Core([c EXCEPT !.seq = seq, !.size = size], c.pc, c.le, c.cache, seq, c.cnt, c.bit)
         /\ \A pc \in Places, cache \in Responses :
              Core([c EXCEPT !.pc = pc, !.cache = cache], pc, c.le, cache, c.seq, c.cnt, c.bit)
         /\ \A pc \in Places, le \in Nat, cache \in Responses :
              Core([c EXCEPT !.pc = pc, !.le = le, !.cache = cache], pc, le, cache, c.seq, c.cnt, c.bit)
         /\ \A pc \in Places, left \in Int, cnt \in 0..1, bit \in 0..1, seq \in 0..1 :
              Core([c EXCEPT !.pc = pc, !.left = left, !.cnt = cnt, !.bit = bit, !.seq = seq], pc, c.le, c.cache, seq, cnt, bit)
<1>1. Core(c, c.pc, c.le, c.cache, c.seq, c.cnt, c.bit)
  BY DEF Core
<1>2. ASSUME NEW pc \in Places
      PROVE  Core([c EXCEPT !.pc = pc], pc, c.le, c.cache, c.seq, c.cnt, c.bit)
  BY <1>2 DEF Core, Core1s
<1>3. ASSUME NEW seq \in 0..1
      PROVE  Core([c EXCEPT !.seq = seq], c.pc, c.le, c.cache, seq, c.cnt, c.bit)
  BY <1>3 DEF Core, Core1s
<1>4. ASSUME NEW cnt \in 0..1
      PROVE  Core([c EXCEPT !.cnt = cnt], c.pc, c.le, c.cache, c.seq, cnt, c.bit)
  BY <1>4 DEF Core, Core1s
<1>5. ASSUME NEW pc \in Places, NEW seq \in 0..1
      PROVE  Core([c EXCEPT !.pc = pc, !.seq = seq], pc, c.le, c.cache, seq, c.cnt, c.bit)
  BY <1>5 DEF Core, Core1s
<1>6. ASSUME NEW seq \in 0..1, NEW size \in Nat \ {0}
      PROVE  Core([c EXCEPT !.seq = seq, !.size = size], c.pc, c.le, c.cache, seq, c.cnt, c.bit)
  BY <1>6 DEF Core, Core1s
<1>7. ASSUME NEW pc \in Places, NEW cache \in Responses
      PROVE  Core([c EXCEPT !.pc = pc, !.cache = cache], pc, c.le, cache, c.seq, c.cnt, c.bit)
  BY <1>7 DEF Core, Core1s
<1>8. ASSUME NEW pc \in Places, NEW le \in Nat, NEW cache \in Responses
      PROVE  Core([c EXCEPT !.pc = pc, !.le = le, !.cache = cache], pc, le, cache, c.seq, c.cnt, c.bit)
  BY <1>8 DEF Core, Core1s
<1>9. ASSUME NEW pc \in Places, NEW left \in Int, NEW cnt \in 0..1, NEW bit \in 0..1, NEW seq \in 0..1
      PROVE  Core([c EXCEPT !.pc = pc, !.left = left, !.cnt = cnt, !.bit = bit, !.seq = seq], pc, c.le, c.cache, seq, cnt, bit)
  BY <1>9 DEF Core, Core1s
<1> QED
  BY <1>1, <1>2, <1>3, <1>4, <1>5, <1>6, <1>7, <1>8, <1>9

\* What the modem's steps change of its state.
LEMMA ModemUpdates ==
  ASSUME NEW m \in Modems
  PROVE  /\ Modem(m, m.pc, m.n, m.ins, m.due, m.expect, m.regular)
         /\ \A pc \in Situations :
              Modem([m EXCEPT !.pc = pc], pc, m.n, m.ins, m.due, m.expect, m.regular)
         /\ \A regular \in {"fresh", "ok", "off"} :
              Modem([m EXCEPT !.regular = regular], m.pc, m.n, m.ins, m.due, m.expect, regular)
         /\ \A pc \in Situations, due \in Responses :
              Modem([m EXCEPT !.pc = pc, !.due = due], pc, m.n, m.ins, due, m.expect, m.regular)
         /\ \A expect \in 0..1, regular \in {"fresh", "ok", "off"} :
              Modem([m EXCEPT !.expect = expect, !.regular = regular], m.pc, m.n, m.ins, m.due, expect, regular)
         /\ \A regular \in {"fresh", "ok", "off"}, pc \in Situations :
              Modem([m EXCEPT !.regular = regular, !.pc = pc], pc, m.n, m.ins, m.due, m.expect, regular)
         /\ \A pc \in Situations, expect \in 0..1, regular \in {"fresh", "ok", "off"} :
              Modem([m EXCEPT !.pc = pc, !.expect = expect, !.regular = regular], pc, m.n, m.ins, m.due, expect, regular)
         /\ \A expect \in 0..1, regular \in {"fresh", "ok", "off"}, pc \in Situations :
              Modem([m EXCEPT !.expect = expect, !.regular = regular, !.pc = pc], pc, m.n, m.ins, m.due, expect, regular)
         /\ \A n \in Nat, pc \in Situations, regular \in {"fresh", "ok", "off"} :
              Modem([m EXCEPT !.n = n, !.pc = pc, !.regular = regular], pc, n, m.ins, m.due, m.expect, regular)
         /\ \A n \in Nat, ins \in {"other", "getresponse"}, pc \in Situations, due \in Responses :
              Modem([m EXCEPT !.n = n, !.ins = ins, !.pc = pc, !.due = due], pc, n, ins, due, m.expect, m.regular)
<1>1. Modem(m, m.pc, m.n, m.ins, m.due, m.expect, m.regular)
  BY DEF Modem
<1>2. ASSUME NEW pc \in Situations
      PROVE  Modem([m EXCEPT !.pc = pc], pc, m.n, m.ins, m.due, m.expect, m.regular)
  BY <1>2 DEF Modem, Modems
<1>3. ASSUME NEW regular \in {"fresh", "ok", "off"}
      PROVE  Modem([m EXCEPT !.regular = regular], m.pc, m.n, m.ins, m.due, m.expect, regular)
  BY <1>3 DEF Modem, Modems
<1>4. ASSUME NEW pc \in Situations, NEW due \in Responses
      PROVE  Modem([m EXCEPT !.pc = pc, !.due = due], pc, m.n, m.ins, due, m.expect, m.regular)
  BY <1>4 DEF Modem, Modems
<1>5. ASSUME NEW expect \in 0..1, NEW regular \in {"fresh", "ok", "off"}
      PROVE  Modem([m EXCEPT !.expect = expect, !.regular = regular], m.pc, m.n, m.ins, m.due, expect, regular)
  BY <1>5 DEF Modem, Modems
<1>6. ASSUME NEW regular \in {"fresh", "ok", "off"}, NEW pc \in Situations
      PROVE  Modem([m EXCEPT !.regular = regular, !.pc = pc], pc, m.n, m.ins, m.due, m.expect, regular)
  BY <1>6 DEF Modem, Modems
<1>7. ASSUME NEW pc \in Situations, NEW expect \in 0..1, NEW regular \in {"fresh", "ok", "off"}
      PROVE  Modem([m EXCEPT !.pc = pc, !.expect = expect, !.regular = regular], pc, m.n, m.ins, m.due, expect, regular)
  BY <1>7 DEF Modem, Modems
<1>8. ASSUME NEW expect \in 0..1, NEW regular \in {"fresh", "ok", "off"}, NEW pc \in Situations
      PROVE  Modem([m EXCEPT !.expect = expect, !.regular = regular, !.pc = pc], pc, m.n, m.ins, m.due, expect, regular)
  BY <1>8 DEF Modem, Modems
<1>9. ASSUME NEW n \in Nat, NEW pc \in Situations, NEW regular \in {"fresh", "ok", "off"}
      PROVE  Modem([m EXCEPT !.n = n, !.pc = pc, !.regular = regular], pc, n, m.ins, m.due, m.expect, regular)
  BY <1>9 DEF Modem, Modems
<1>10. ASSUME NEW n \in Nat, NEW ins \in {"other", "getresponse"}, NEW pc \in Situations, NEW due \in Responses
      PROVE  Modem([m EXCEPT !.n = n, !.ins = ins, !.pc = pc, !.due = due], pc, n, ins, due, m.expect, m.regular)
  BY <1>10 DEF Modem, Modems
<1> QED
  BY <1>1, <1>2, <1>3, <1>4, <1>5, <1>6, <1>7, <1>8, <1>9, <1>10

\* The messages of the first core and the proxy.
LEMMA TypeCore0 ==
  ASSUME TypeInv, ProtocolInv, Core0Step
  PROVE  TypeInv'
<1>1. CASE RequestAtr
  <2>1. [op |-> "sendatr"] \in FromPico
    BY DEF FromPico
  <2>2. usbOut' \in Seq(FromPico)
    BY <1>1, <2>1 DEF RequestAtr, TypeInv
  <2> QED
    BY <1>1, <2>2 DEF RequestAtr, TypeInv, ToPico, CardAtr, modemVars
<1>2. CASE ReadUsbAtr
  <2> DEFINE msg == Head(usbIn)
  <2>1. /\ usbIn # <<>> /\ msg \in ToPico /\ usbIn' \in Seq(ToPico)
        /\ UNCHANGED <<cardAtr, proxy, card, half, torn, atrQueue, modemVars>>
    BY <1>2, HeadAndTail DEF ReadUsbAtr, TypeInv
  <2>2. CASE msg.op = "atr"
    <3>1. msg.atr = cardAtr
      BY <2>1, <2>2, MessageTypes
    <3>2. /\ atr' = CardAtr /\ relayConfig' = <<CardAtr>> /\ core1' = [Off EXCEPT !.pc = "waiting"]
          /\ usbOut' = usbOut /\ core0' = "loop"
      BY <1>2, <2>2, <3>1 DEF ReadUsbAtr, CardAtr
    <3>3. relayConfig' \in Seq({CardAtr})
      BY <3>2
    <3>4. core1' \in Core1s
      BY <3>2, OffTypes
    <3>5. CardAtr' = CardAtr /\ ToPico' = ToPico
      BY <2>1 DEF CardAtr, ToPico
    <3>6. UNCHANGED <<cardAtr, proxy, card, half, torn, atrQueue, line, resets, modem, interrupted>>
      BY <2>1 DEF modemVars
    <3>7. usbIn' \in Seq(ToPico) /\ usbOut' = usbOut /\ core0' = "loop" /\ atr' = CardAtr
      BY <2>1, <3>2
    <3> QED
      BY <3>3, <3>4, <3>5, <3>6, <3>7 DEF TypeInv
  <2>3. CASE msg.op = "state"
    <3>1. [op |-> "state", ready |-> FALSE] \in FromPico
      BY DEF FromPico
    <3>2. usbOut' = Append(usbOut, [op |-> "state", ready |-> FALSE]) /\ core0' = "ask" /\ UNCHANGED <<atr, relayConfig, core1>>
      BY <1>2, <2>3 DEF ReadUsbAtr
    <3>3. usbOut' \in Seq(FromPico)
      BY <3>1, <3>2 DEF TypeInv
    <3> QED
      BY <2>1, <3>2, <3>3 DEF TypeInv, ToPico, CardAtr, modemVars
  <2>4. CASE msg.op \notin {"atr", "state"}
    <3>1. UNCHANGED <<usbOut, core0, atr, relayConfig, core1>>
      BY <1>2, <2>4 DEF ReadUsbAtr
    <3> QED
      BY <2>1, <3>1 DEF TypeInv, ToPico, CardAtr, modemVars
  <2> QED
    BY <2>2, <2>3, <2>4
<1>3. CASE Launch
  <2>1. /\ core1' \in Core1s /\ torn' \in BOOLEAN /\ half' \in BOOLEAN /\ interrupted' \in BOOLEAN /\ core0' = "high"
        /\ relayConfig' = <<CardAtr>>
        /\ UNCHANGED <<cardAtr, proxy, card, usbOut, usbIn, atr, atrQueue, line, resets, modem>>
    BY <1>3, OffTypes DEF Launch, TypeInv, ProtocolInv
  <2>2. relayConfig' \in Seq({CardAtr})
    BY <2>1
  <2> QED
    BY <2>1, <2>2 DEF TypeInv, ToPico, CardAtr
<1>4. CASE LineDown
  BY <1>4 DEF LineDown, TypeInv, ToPico, CardAtr, usbVars, modemVars
<1>5. CASE UpdateAtr
  <2>1. atrQueue # <<>> /\ atr' = Head(atrQueue) /\ atrQueue' = Tail(atrQueue)
        /\ UNCHANGED <<cardAtr, usbVars, core0, relayConfig, core1, modemVars>>
    BY <1>5 DEF UpdateAtr
  <2>2. atr' \in {CardAtr} /\ atrQueue' \in Seq({CardAtr})
    BY <2>1 DEF TypeInv
  <2> QED
    BY <2>1, <2>2 DEF TypeInv, ToPico, CardAtr, usbVars, modemVars
<1> QED
  BY <1>1, <1>2, <1>3, <1>4, <1>5 DEF Core0Step

LEMMA ProxyInforms ==
  ASSUME TypeInv, ProxyReads
  PROVE  /\ usbIn' \in Seq(ToPico) /\ Len(usbIn) <= Len(usbIn') /\ Apdus(usbIn') = Apdus(usbIn)
         /\ \A i \in Apdus(usbIn) : usbIn'[i] = usbIn[i]
<1> DEFINE msg == Head(usbOut)
           more == CASE msg.op = "sendatr" -> <<[op |-> "atr", atr |-> cardAtr]>>
                     [] msg.op = "state" /\ ~msg.ready -> <<[op |-> "state"], [op |-> "config"]>>
                     [] OTHER -> <<>>
<1>1. usbIn' = usbIn \o more
  BY DEF ProxyReads
<1>2. more \in {<<[op |-> "atr", atr |-> cardAtr]>>, <<[op |-> "state"], [op |-> "config"]>>, <<>>}
  OBVIOUS
<1> HIDE DEF more
<1>3. [op |-> "atr", atr |-> cardAtr] \in ToPico /\ [op |-> "state"] \in ToPico /\ [op |-> "config"] \in ToPico
  BY DEF ToPico
<1>4. more \in Seq(ToPico) /\ \A i \in DOMAIN more : more[i].op # "apdu"
  <2>1. CASE more = <<[op |-> "atr", atr |-> cardAtr]>>
    BY <1>3, <2>1
  <2>2. CASE more = <<[op |-> "state"], [op |-> "config"]>>
    <3>1. DOMAIN more = {1, 2} /\ more[1] = [op |-> "state"] /\ more[2] = [op |-> "config"]
      BY <2>2
    <3>2. more \in Seq(ToPico)
      BY <1>3, <2>2
    <3> QED
      BY <3>1, <3>2
  <2>3. CASE more = <<>>
    BY <2>3
  <2> QED
    BY <1>2, <2>1, <2>2, <2>3
<1> QED
  BY <1>1, <1>4, Informed DEF TypeInv

LEMMA TypeUsb ==
  ASSUME TypeInv, ProtocolInv, ProxyStep \/ ReadHeader \/ ReadMeta
  PROVE  TypeInv'
<1>1. ASSUME UNCHANGED cardAtr PROVE CardAtr' = CardAtr /\ ToPico' = ToPico
  BY <1>1 DEF CardAtr, ToPico
<1>2. CASE ProxyReads
  <2> DEFINE msg == Head(usbOut)
  <2>1. /\ usbOut # <<>> /\ usbOut' = Tail(usbOut) /\ proxy' = IF msg.op = "apdu" THEN <<msg>> ELSE <<>>
        /\ UNCHANGED <<cardAtr, card, half, torn, core0, atr, atrQueue, relayConfig, core1, line, resets, modem, interrupted>>
    BY <1>2 DEF ProxyReads, core0Vars, modemVars
  <2>2. msg \in FromPico /\ usbOut' \in Seq(FromPico)
    BY <2>1, HeadAndTail DEF TypeInv
  <2>3. usbIn' \in Seq(ToPico)
    BY <1>2, ProxyInforms
  <2> QED
    BY <1>1, <2>1, <2>2, <2>3 DEF TypeInv
<1>3. ASSUME NEW len \in Lens, NEW more \in BOOLEAN, ProxyAnswers(len, more) PROVE TypeInv'
  <2>1. /\ card' \in {card, proxy[1].n} /\ proxy # <<>> /\ proxy' = <<>>
        /\ usbIn' = Append(usbIn, [op |-> "apdu", ref |-> card', len |-> len, more |-> more])
        /\ UNCHANGED <<cardAtr, usbOut, half, torn, core0, atr, atrQueue, relayConfig, core1, line, resets, modem, interrupted>>
    BY <1>3 DEF ProxyAnswers, core0Vars, modemVars
  <2>2. card' \in Nat
    BY <2>1, MessageTypes DEF TypeInv
  <2>3. [op |-> "apdu", ref |-> card', len |-> len, more |-> more] \in ToPico
    BY <2>2, PicoAssumption DEF ToPico
  <2>4. usbIn' \in Seq(ToPico)
    BY <2>1, <2>3, Appended DEF TypeInv
  <2> QED
    BY <1>1, <2>1, <2>2, <2>4 DEF TypeInv
<1>4. CASE ReadHeader
  <2>1. core1' \in {core1, [core1 EXCEPT !.pc = "garbled"]} /\ half' \in BOOLEAN
        /\ UNCHANGED <<cardAtr, proxy, card, usbOut, usbIn, torn, core0, atr, atrQueue, relayConfig, line, resets, modem,
                       interrupted>>
    BY <1>4 DEF ReadHeader, TypeInv, core0Vars, modemVars
  <2>2. core1 \in Core1s /\ "garbled" \in Places
    BY DEF TypeInv, Places
  <2>3. core1' \in Core1s
    <3>1. [core1 EXCEPT !.pc = "garbled"] \in Core1s
      BY <2>2, CoreUpdates, Zenon DEF Core
    <3> QED
      BY <2>1, <2>2, <3>1, Zenon
  <2> QED
    BY <1>1, <2>1, <2>3 DEF TypeInv
<1>5. CASE ReadMeta
  <2> DEFINE msg == Head(usbIn)
  <2>1. /\ usbIn # <<>> /\ usbIn' = Tail(usbIn) /\ half' = FALSE
        /\ UNCHANGED <<cardAtr, proxy, card, torn, core0, atr, relayConfig, core1, line, resets, modem, interrupted>>
    BY <1>5 DEF ReadMeta, ProtocolInv, modemVars
  <2>2. msg \in ToPico /\ usbIn' \in Seq(ToPico)
    BY <2>1, HeadAndTail DEF TypeInv
  <2>3. atrQueue' \in Seq({CardAtr})
    <3>1. CASE msg.op = "atr" /\ Len(atrQueue) < 2
      <4>1. msg.atr = cardAtr
        BY <2>2, <3>1, MessageTypes
      <4>2. atrQueue' = Append(atrQueue, CardAtr)
        BY <1>5, <3>1, <4>1 DEF ReadMeta, CardAtr
      <4> QED
        BY <4>2 DEF TypeInv
    <3>2. CASE ~(msg.op = "atr" /\ Len(atrQueue) < 2)
      BY <1>5, <3>2 DEF ReadMeta, TypeInv
    <3> QED
      BY <3>1, <3>2
  <2>4. usbOut' \in Seq(FromPico)
    <3>1. [op |-> "state", ready |-> TRUE] \in FromPico
      BY DEF FromPico
    <3> QED
      BY <1>5, <3>1 DEF ReadMeta, TypeInv
  <2> QED
    BY <1>1, <2>1, <2>2, <2>3, <2>4 DEF TypeInv
<1> QED
  BY <1>2, <1>3, <1>4, <1>5 DEF ProxyStep

LEMMA TypeOf ==
  ASSUME TypeInv, UNCHANGED <<cardAtr, proxy, card, torn, core0, atr, atrQueue, interrupted>>,
         core1' \in Core1s, modem' \in Modems, usbOut' \in Seq(FromPico), usbIn' \in Seq(ToPico), half' \in BOOLEAN,
         relayConfig' \in Seq({CardAtr}), line' \in BOOLEAN, resets' \in Nat
  PROVE  TypeInv'
<1>1. CardAtr' = CardAtr /\ ToPico' = ToPico
  BY DEF CardAtr, ToPico
<1> QED
  BY <1>1 DEF TypeInv

LEMMA AnswerArrives ==
  ASSUME TypeInv, ProtocolInv, Received
  PROVE  /\ usbIn # <<>> /\ Head(usbIn).op = "apdu" /\ 1 \in AtIn /\ usbIn[1] = Head(usbIn)
         /\ Head(usbIn).ref \in Nat /\ Head(usbIn).len \in Nat
         /\ usbIn' = Tail(usbIn) /\ usbIn' \in Seq(ToPico) /\ half' = FALSE
<1>1. usbIn # <<>> /\ Head(usbIn).op = "apdu" /\ usbIn' = Tail(usbIn) /\ half' = FALSE
  BY DEF Received, ProtocolInv
<1>2. /\ Head(usbIn) \in ToPico /\ Tail(usbIn) \in Seq(ToPico) /\ Head(usbIn) = usbIn[1]
      /\ Head(usbIn).op = "apdu" <=> 1 \in Apdus(usbIn)
  BY <1>1, HeadAndTail DEF TypeInv
<1> QED
  BY <1>1, <1>2, MessageTypes DEF AtIn

LEMMA CommandLeaves ==
  ASSUME TypeInv, NEW n \in Nat, NEW ins \in {"other", "getresponse"}, Forward(n, ins)
  PROVE  /\ usbOut' \in Seq(FromPico) /\ AtOut' = AtOut \cup {Len(usbOut) + 1}
         /\ \A i \in AtOut : usbOut'[i] = usbOut[i]
         /\ usbOut'[Len(usbOut) + 1].n = n /\ usbOut'[Len(usbOut) + 1].ins = ins
<1> DEFINE msg == [op |-> "apdu", n |-> n, ins |-> ins]
<1>1. msg \in FromPico /\ msg.op = "apdu" /\ msg.n = n /\ msg.ins = ins
  BY DEF FromPico
<1>2. usbOut' = Append(usbOut, msg)
  BY DEF Forward
<1> HIDE DEF msg
<1>3. usbOut \in Seq(FromPico)
  BY DEF TypeInv
<1>4. /\ Append(usbOut, msg) \in Seq(FromPico)
      /\ Apdus(Append(usbOut, msg)) = Apdus(usbOut) \cup {Len(usbOut) + 1}
      /\ \A i \in Apdus(usbOut) : Append(usbOut, msg)[i] = usbOut[i]
      /\ Append(usbOut, msg)[Len(usbOut) + 1] = msg
  <2>1. Append(usbOut, msg) \in Seq(FromPico) /\ Append(usbOut, msg)[Len(usbOut) + 1] = msg
    BY <1>1, <1>3
  <2>2. Apdus(Append(usbOut, msg)) = Apdus(usbOut) \cup {Len(usbOut) + 1}
    BY <1>1, <1>3, Appended
  <2>3. ASSUME NEW i \in Apdus(usbOut) PROVE Append(usbOut, msg)[i] = usbOut[i]
    BY <1>1, <1>3 DEF Apdus
  <2> QED
    BY <2>1, <2>2, <2>3
<1>5. AtOut' = Apdus(Append(usbOut, msg)) /\ AtOut = Apdus(usbOut)
  BY <1>2 DEF AtOut, Apdus
<1> QED
  BY <1>1, <1>2, <1>4, <1>5

-----------------------------------------------------------------------------
(***************************************************************************)
(* What the steps of the second core and of the modem do                   *)
(***************************************************************************)

Frame == UNCHANGED <<cardAtr, proxy, card, torn, core0, atr, atrQueue, interrupted>>

LEMMA StartDoes ==
  ASSUME TypeInv, NEW protocol, NEW pc \in {"pps", "t1"}, NEW then \in {"pps", "ready"}, SendAtr(protocol, pc, then)
  PROVE  /\ core1.pc = "start" /\ CardAtr.protocol = protocol
         /\ Core(core1', pc, core1.le, core1.cache, 1, core1.cnt, core1.bit)
         /\ Modem(modem', IF modem.pc = "atr" THEN then ELSE modem.pc, modem.n, modem.ins, modem.due, 0, "fresh")
         /\ Frame /\ UNCHANGED <<usbOut, usbIn, half, reply>>
         /\ TypeInv'
<1> DEFINE p == IF modem.pc = "atr" THEN then ELSE modem.pc
<1>1. core1 \in Core1s /\ modem \in Modems /\ usbOut \in Seq(FromPico) /\ usbIn \in Seq(ToPico)
      /\ relayConfig \in Seq({CardAtr}) /\ half \in BOOLEAN /\ line \in BOOLEAN /\ resets \in Nat
  BY DEF TypeInv
<1>2. /\ core1.pc = "start" /\ relayConfig # <<>> /\ Head(relayConfig).protocol = protocol /\ relayConfig' = Tail(relayConfig)
      /\ core1' = [core1 EXCEPT !.pc = pc, !.seq = 1] /\ modem' = [modem EXCEPT !.pc = p, !.expect = 0, !.regular = "fresh"]
      /\ Frame /\ UNCHANGED <<usbOut, usbIn, half, line, resets, reply>>
  BY DEF SendAtr, usbVars, Frame
<1>3. pc \in Places /\ 1 \in 0..1 /\ 0 \in 0..1 /\ p \in Situations /\ "fresh" \in {"fresh", "ok", "off"}
  BY <1>1, ModemTypes DEF Places, Situations
<1> HIDE DEF p
<1>4. Core(core1', pc, core1.le, core1.cache, 1, core1.cnt, core1.bit)
  BY <1>1, <1>2, <1>3, CoreUpdates, Zenon
<1>5. Modem(modem', p, modem.n, modem.ins, modem.due, 0, "fresh")
  BY <1>1, <1>2, <1>3, ModemUpdates, Zenon
<1>6. Head(relayConfig) \in {CardAtr} /\ relayConfig' \in Seq({CardAtr})
  BY <1>1, <1>2
<1>7. core1' \in Core1s /\ modem' \in Modems
  BY <1>4, <1>5, Zenon DEF Core, Modem
<1>8. TypeInv'
  BY <1>1, <1>2, <1>6, <1>7, TypeOf DEF Frame
<1>9. CardAtr.protocol = protocol
  BY <1>2, <1>6
<1> QED
  BY <1>2, <1>4, <1>5, <1>8, <1>9, Zenon DEF p

LEMMA PpsDoes ==
  ASSUME TypeInv, ExchangePps
  PROVE  /\ core1.pc = "pps" /\ modem.pc = "pps"
         /\ \E place \in {"t0", "garbled"}, situation \in {"ready", "sent"} :
              /\ place = "t0" <=> situation = "ready"
              /\ Core(core1', place, core1.le, core1.cache, core1.seq, core1.cnt, core1.bit)
              /\ Modem(modem', situation, modem.n, modem.ins, modem.due, modem.expect, modem.regular)
         /\ Frame /\ UNCHANGED <<usbOut, usbIn, half, reply>>
         /\ TypeInv'
<1>1. core1 \in Core1s /\ modem \in Modems /\ usbOut \in Seq(FromPico) /\ usbIn \in Seq(ToPico)
      /\ relayConfig \in Seq({CardAtr}) /\ half \in BOOLEAN /\ line \in BOOLEAN /\ resets \in Nat
  BY DEF TypeInv
<1>2. PICK place \in {"t0", "garbled"}, situation \in {"ready", "sent"} :
        (place = "t0" <=> situation = "ready") /\ core1' = [core1 EXCEPT !.pc = place] /\ modem' = [modem EXCEPT !.pc = situation]
  BY DEF ExchangePps
<1>3. core1.pc = "pps" /\ modem.pc = "pps" /\ Frame /\ UNCHANGED <<usbOut, usbIn, half, relayConfig, line, resets, reply>>
  BY DEF ExchangePps, usbVars, core0Vars, Frame
<1>4. place \in Places /\ situation \in Situations
  BY DEF Places, Situations
<1>5. Core(core1', place, core1.le, core1.cache, core1.seq, core1.cnt, core1.bit)
  BY <1>1, <1>2, <1>4, CoreUpdates, Zenon
<1>6. Modem(modem', situation, modem.n, modem.ins, modem.due, modem.expect, modem.regular)
  BY <1>1, <1>2, <1>4, ModemUpdates, Zenon
<1>7. core1' \in Core1s /\ modem' \in Modems
  BY <1>5, <1>6, Zenon DEF Core, Modem
<1>8. TypeInv'
  BY <1>1, <1>3, <1>7, TypeOf DEF Frame
<1> QED
  BY <1>2, <1>3, <1>5, <1>6, <1>8, Zenon

LEMMA LineDoes ==
  ASSUME TypeInv, NEW up \in BOOLEAN, LineGoes(up)
  PROVE  /\ Modem(modem', IF up THEN "atr" ELSE "reset", modem.n, modem.ins, NoDue, modem.expect, modem.regular)
         /\ Frame /\ UNCHANGED <<usbOut, usbIn, half, core1, reply>>
         /\ TypeInv'
<1> DEFINE p == IF up THEN "atr" ELSE "reset"
<1>1. core1 \in Core1s /\ modem \in Modems /\ usbOut \in Seq(FromPico) /\ usbIn \in Seq(ToPico)
      /\ relayConfig \in Seq({CardAtr}) /\ half \in BOOLEAN /\ resets \in Nat
  BY DEF TypeInv
<1>2. /\ line' = up /\ resets' \in {resets, resets + 1} /\ modem' = [modem EXCEPT !.pc = p, !.due = NoDue]
      /\ Frame /\ UNCHANGED <<usbOut, usbIn, half, relayConfig, core1, reply>>
  BY DEF LineGoes, usbVars, core0Vars, Frame
<1>3. p \in Situations /\ NoDue \in Responses
  BY OffTypes DEF Situations
<1> HIDE DEF p
<1>4. Modem(modem', p, modem.n, modem.ins, NoDue, modem.expect, modem.regular)
  BY <1>1, <1>2, <1>3, ModemUpdates, Zenon
<1>5. modem' \in Modems /\ resets' \in Nat /\ core1' \in Core1s
  BY <1>1, <1>2, <1>4 DEF Modem
<1>6. TypeInv'
  BY <1>1, <1>2, <1>5, TypeOf DEF Frame
<1> QED
  BY <1>2, <1>4, <1>6, Zenon DEF p

\* Commands over T=0.
Cached(ins) == ins = "getresponse" /\ core1.cache.len > 0

LEMMA T0CommandDoes ==
  ASSUME TypeInv, NEW ins \in {"other", "getresponse"}, NEW le \in Nat, T0Command(ins, le)
  PROVE  /\ core1.pc = "t0" /\ modem.pc = "ready" /\ (ins = "getresponse" => modem.due # NoDue)
         /\ Cached(ins) => /\ core1' = core1 /\ usbOut' = usbOut
                           /\ Modem(modem', "ready", modem.n + 1, ins, NoDue, modem.expect, modem.regular)
                           /\ reply' = [want |-> modem.due.ref, full |-> modem.due.len,
                                        ref |-> core1.cache.ref, len |-> core1.cache.len]
         /\ ~Cached(ins) => /\ Forward(modem.n + 1, ins) /\ reply' = reply
                            /\ Core(core1', "t0usb", le, Off.cache, core1.seq, core1.cnt, core1.bit)
                            /\ Modem(modem', "sent", modem.n + 1, ins, IF ins = "getresponse" THEN modem.due ELSE NoDue,
                                     modem.expect, modem.regular)
         /\ Frame /\ UNCHANGED <<usbIn, half>>
         /\ TypeInv'
<1> DEFINE p == IF Cached(ins) THEN "ready" ELSE "sent"
           d == IF ins = "getresponse" /\ ~Cached(ins) THEN modem.due ELSE NoDue
           n == modem.n + 1
<1>1. core1 \in Core1s /\ modem \in Modems /\ usbOut \in Seq(FromPico) /\ usbIn \in Seq(ToPico)
      /\ relayConfig \in Seq({CardAtr}) /\ half \in BOOLEAN /\ line \in BOOLEAN /\ resets \in Nat
  BY DEF TypeInv
<1>2. /\ core1.pc = "t0" /\ modem.pc = "ready" /\ (ins = "getresponse" => modem.due # NoDue)
      /\ Frame /\ UNCHANGED <<usbIn, half, relayConfig, line, resets>>
  BY DEF T0Command, core0Vars, Frame
<1>3. modem' = [modem EXCEPT !.n = n, !.ins = ins, !.pc = p, !.due = d]
  BY DEF T0Command, Cached
<1>4. n \in Nat /\ p \in Situations /\ d \in Responses /\ "t0usb" \in Places /\ Off.cache \in Responses
  BY <1>1, ModemTypes, OffTypes DEF Situations, Places
<1> HIDE DEF p, d, n
<1>5. Modem(modem', p, n, ins, d, modem.expect, modem.regular)
  BY <1>1, <1>3, <1>4, ModemUpdates, Zenon
<1>6. modem'.n = n /\ modem'.ins = ins /\ modem' \in Modems
  BY <1>5, Zenon DEF Modem
<1>7. ASSUME Cached(ins)
      PROVE  /\ core1' = core1 /\ usbOut' = usbOut
             /\ reply' = [want |-> modem.due.ref, full |-> modem.due.len,
                          ref |-> core1.cache.ref, len |-> core1.cache.len]
             /\ p = "ready" /\ d = NoDue
  <2>1. core1' = core1 /\ usbOut' = usbOut /\ Answer(core1.cache.ref, core1.cache.len) /\ ins = "getresponse"
    BY <1>7 DEF T0Command, Cached
  <2>2. modem'.ins = "getresponse"
    BY <1>6, <2>1
  <2> QED
    BY <1>7, <2>1, <2>2 DEF Answer, p, d
<1>8. ASSUME ~Cached(ins)
      PROVE  /\ Forward(n, ins) /\ reply' = reply
             /\ Core(core1', "t0usb", le, Off.cache, core1.seq, core1.cnt, core1.bit)
             /\ p = "sent" /\ d = IF ins = "getresponse" THEN modem.due ELSE NoDue
  <2>1. T0Forward(n, ins, le) /\ reply' = reply
    BY <1>6, <1>8 DEF T0Command, Cached
  <2>2. Forward(n, ins) /\ core1' = [core1 EXCEPT !.pc = "t0usb", !.le = le, !.cache = Off.cache]
    BY <2>1 DEF T0Forward
  <2>3. Core(core1', "t0usb", le, Off.cache, core1.seq, core1.cnt, core1.bit)
    BY <1>1, <1>4, <2>2, CoreUpdates, Zenon
  <2> QED
    BY <1>8, <2>1, <2>2, <2>3 DEF p, d
<1>9. core1' \in Core1s /\ usbOut' \in Seq(FromPico)
  <2>1. CASE Cached(ins)
    BY <1>1, <1>7, <2>1
  <2>2. CASE ~Cached(ins)
    BY <1>4, <1>8, <2>2, CommandLeaves DEF Core
  <2> QED
    BY <2>1, <2>2
<1>10. TypeInv'
  BY <1>1, <1>2, <1>6, <1>9, TypeOf DEF Frame
<1> QED
  BY <1>2, <1>5, <1>7, <1>8, <1>10, Zenon DEF n

LEMMA T0AnswerDoes ==
  ASSUME TypeInv, ProtocolInv, T0Answer
  PROVE  LET msg == Head(usbIn)
             ends == msg.len = 2 \/ msg.len = core1.le
             due == IF msg.len = 2 /\ msg.more THEN [ref |-> msg.ref, len |-> 0]
                    ELSE IF ~ends /\ msg.len > core1.le THEN [ref |-> msg.ref, len |-> msg.len] ELSE NoDue
             cache == IF ends THEN core1.cache ELSE [ref |-> msg.ref, len |-> msg.len % 256]
         IN  /\ core1.pc = "t0usb" /\ Received
             /\ Core(core1', "t0", core1.le, cache, core1.seq, core1.cnt, core1.bit)
             /\ modem.pc = "sent" =>
                  /\ Modem(modem', "ready", modem.n, modem.ins, due, modem.expect, modem.regular)
                  /\ reply'.want = IF modem.ins = "getresponse" THEN modem.due.ref ELSE modem.n
                  /\ reply'.full = IF modem.ins = "getresponse" THEN modem.due.len ELSE 0
                  /\ reply'.ref = msg.ref
             /\ modem.pc # "sent" => modem' = modem /\ reply' = reply
             /\ Frame /\ UNCHANGED usbOut
             /\ TypeInv'
<1> DEFINE msg == Head(usbIn)
           ends == msg.len = 2 \/ msg.len = core1.le
           due == IF msg.len = 2 /\ msg.more THEN [ref |-> msg.ref, len |-> 0]
                  ELSE IF ~ends /\ msg.len > core1.le THEN [ref |-> msg.ref, len |-> msg.len] ELSE NoDue
           cache == IF ends THEN core1.cache ELSE [ref |-> msg.ref, len |-> msg.len % 256]
           len == IF ends THEN msg.len ELSE modem.due.len
<1>1. core1 \in Core1s /\ modem \in Modems /\ usbOut \in Seq(FromPico) /\ usbIn \in Seq(ToPico)
      /\ relayConfig \in Seq({CardAtr}) /\ half \in BOOLEAN /\ line \in BOOLEAN /\ resets \in Nat
  BY DEF TypeInv
<1>2. /\ core1.pc = "t0usb" /\ Received
      /\ Frame /\ UNCHANGED <<usbOut, relayConfig, line, resets>>
  BY DEF T0Answer, core0Vars, Frame
<1>3. msg.ref \in Nat /\ msg.len \in Nat /\ usbIn' \in Seq(ToPico) /\ half' = FALSE
  BY <1>2, AnswerArrives
<1>4. core1' = [core1 EXCEPT !.pc = "t0", !.cache = cache]
  BY DEF T0Answer
<1>5. Listens([modem EXCEPT !.pc = "ready", !.due = due], msg.ref, len)
  BY DEF T0Answer
<1>6. [ref |-> msg.ref, len |-> 0] \in Responses /\ [ref |-> msg.ref, len |-> msg.len] \in Responses
      /\ [ref |-> msg.ref, len |-> msg.len % 256] \in Responses
  BY <1>3 DEF Responses
<1>7. due \in Responses /\ cache \in Responses /\ "t0" \in Places /\ "ready" \in Situations
  BY <1>1, <1>6, OffTypes, CoreTypes DEF Places, Situations
<1> HIDE DEF ends, due, cache, len
<1>8. Core(core1', "t0", core1.le, cache, core1.seq, core1.cnt, core1.bit)
  BY <1>1, <1>4, <1>7, CoreUpdates, Zenon
<1>9. ASSUME modem.pc = "sent"
      PROVE  /\ Modem(modem', "ready", modem.n, modem.ins, due, modem.expect, modem.regular)
             /\ reply'.want = IF modem.ins = "getresponse" THEN modem.due.ref ELSE modem.n
             /\ reply'.full = IF modem.ins = "getresponse" THEN modem.due.len ELSE 0
             /\ reply'.ref = msg.ref
  <2>1. modem' = [modem EXCEPT !.pc = "ready", !.due = due] /\ Answer(msg.ref, len)
    BY <1>5, <1>9 DEF Listens
  <2>2. Modem(modem', "ready", modem.n, modem.ins, due, modem.expect, modem.regular)
    BY <1>1, <1>7, <2>1, ModemUpdates, Zenon
  <2>3. modem'.n = modem.n /\ modem'.ins = modem.ins
    BY <2>2, Zenon DEF Modem
  <2> QED
    BY <2>1, <2>2, <2>3 DEF Answer
<1>10. modem.pc # "sent" => modem' = modem /\ reply' = reply
  BY <1>5 DEF Listens
<1>11. core1' \in Core1s /\ modem' \in Modems
  BY <1>1, <1>8, <1>9, <1>10, Zenon DEF Core, Modem
<1>12. TypeInv'
  BY <1>1, <1>2, <1>3, <1>11, TypeOf DEF Frame
<1> QED
  BY <1>2, <1>8, <1>9, <1>10, <1>12, Zenon DEF ends, due, cache

\* T=1: blocks that are no command, before and between commands.
LEMMA T1BlockDoes ==
  ASSUME TypeInv,
         \/ T1Damaged \/ T1RBlock
         \/ \E kind \in {"resync", "ifsd", "abort"}, size \in Ifsd : T1SBlock(kind, size)
  PROVE  /\ core1.pc = "t1" /\ modem.pc = "ready"
         /\ \E seq \in 0..1, expect \in 0..1, regular \in {"ok", "off"} :
              /\ Core(core1', "t1", core1.le, core1.cache, seq, core1.cnt, core1.bit)
              /\ Modem(modem', "ready", modem.n, modem.ins, modem.due, expect, regular)
              /\ regular = "ok" => \/ seq = 0 /\ expect = 0
                                   \/ modem.regular = "fresh" /\ seq = Flip(core1.seq) /\ expect = modem.expect
         /\ Frame /\ UNCHANGED <<usbOut, usbIn, half, reply>>
         /\ TypeInv'
<1>1. core1 \in Core1s /\ modem \in Modems /\ usbOut \in Seq(FromPico) /\ usbIn \in Seq(ToPico)
      /\ relayConfig \in Seq({CardAtr}) /\ half \in BOOLEAN /\ line \in BOOLEAN /\ resets \in Nat
  BY DEF TypeInv
<1>2. core1.pc = "t1" /\ modem.pc = "ready" /\ Frame /\ UNCHANGED <<usbOut, usbIn, half, relayConfig, line, resets, reply>>
  BY DEF T1Damaged, T1RBlock, T1SBlock, T1Read, usbVars, core0Vars, Frame
<1> DEFINE f == Flip(core1.seq)
           r == IF modem.regular = "fresh" THEN "ok" ELSE "off"
           E(seq, expect, regular) ==
             /\ Core(core1', "t1", core1.le, core1.cache, seq, core1.cnt, core1.bit)
             /\ Modem(modem', "ready", modem.n, modem.ins, modem.due, expect, regular)
             /\ regular = "ok" => \/ seq = 0 /\ expect = 0
                                  \/ modem.regular = "fresh" /\ seq = Flip(core1.seq) /\ expect = modem.expect
<1>3. core1.seq \in 0..1 /\ modem.expect \in 0..1 /\ 0 \in 0..1 /\ 32 \in Nat \ {0}
      /\ \A size \in Ifsd : size \in Nat \ {0}
  <2>1. \A size \in Ifsd : size \in Nat \ {0}
    BY PicoAssumption
  <2> QED
    BY <1>1, <2>1, CoreTypes, ModemTypes
<1>4. f \in 0..1 /\ r \in {"ok", "off"} /\ r \in {"fresh", "ok", "off"} /\ (r = "ok" => modem.regular = "fresh")
      /\ "ok" \in {"fresh", "ok", "off"} /\ "off" \in {"fresh", "ok", "off"}
  BY <1>3 DEF Flip
<1>5. \/ core1' = [core1 EXCEPT !.seq = f] /\ modem' = [modem EXCEPT !.regular = "off"]
      \/ core1' = [core1 EXCEPT !.seq = f] /\ modem' = [modem EXCEPT !.regular = r]
      \/ \E size \in Ifsd : core1' = [core1 EXCEPT !.seq = f, !.size = size] /\ modem' = [modem EXCEPT !.regular = r]
      \/ core1' = [core1 EXCEPT !.seq = 0, !.size = 32] /\ modem' = [modem EXCEPT !.expect = 0, !.regular = "ok"]
  BY DEF T1Damaged, T1RBlock, T1SBlock, Shifted
<1> HIDE DEF f, r
<1>6. ASSUME core1' = [core1 EXCEPT !.seq = f], modem' = [modem EXCEPT !.regular = "off"]
      PROVE  E(f, modem.expect, "off")
  <2>1. Core(core1', core1.pc, core1.le, core1.cache, f, core1.cnt, core1.bit)
    BY <1>1, <1>3, <1>4, <1>6, CoreUpdates, Zenon
  <2>2. Modem(modem', modem.pc, modem.n, modem.ins, modem.due, modem.expect, "off")
    BY <1>1, <1>3, <1>4, <1>6, ModemUpdates, Zenon
  <2> QED
    BY <1>2, <1>4, <2>1, <2>2, Zenon DEF f
<1>7. ASSUME core1' = [core1 EXCEPT !.seq = f], modem' = [modem EXCEPT !.regular = r]
      PROVE  E(f, modem.expect, r)
  <2>1. Core(core1', core1.pc, core1.le, core1.cache, f, core1.cnt, core1.bit)
    BY <1>1, <1>3, <1>4, <1>7, CoreUpdates, Zenon
  <2>2. Modem(modem', modem.pc, modem.n, modem.ins, modem.due, modem.expect, r)
    BY <1>1, <1>3, <1>4, <1>7, ModemUpdates, Zenon
  <2> QED
    BY <1>2, <1>4, <2>1, <2>2, Zenon DEF f
<1>8. ASSUME NEW size \in Ifsd, core1' = [core1 EXCEPT !.seq = f, !.size = size], modem' = [modem EXCEPT !.regular = r]
      PROVE  E(f, modem.expect, r)
  <2>1. Core(core1', core1.pc, core1.le, core1.cache, f, core1.cnt, core1.bit)
    BY <1>1, <1>3, <1>4, <1>8, CoreUpdates, Zenon
  <2>2. Modem(modem', modem.pc, modem.n, modem.ins, modem.due, modem.expect, r)
    BY <1>1, <1>3, <1>4, <1>8, ModemUpdates, Zenon
  <2> QED
    BY <1>2, <1>4, <2>1, <2>2, Zenon DEF f
<1>9. ASSUME core1' = [core1 EXCEPT !.seq = 0, !.size = 32], modem' = [modem EXCEPT !.expect = 0, !.regular = "ok"]
      PROVE  E(0, 0, "ok")
  <2>1. Core(core1', core1.pc, core1.le, core1.cache, 0, core1.cnt, core1.bit)
    BY <1>1, <1>3, <1>4, <1>9, CoreUpdates, Zenon
  <2>2. Modem(modem', modem.pc, modem.n, modem.ins, modem.due, 0, "ok")
    BY <1>1, <1>3, <1>4, <1>9, ModemUpdates, Zenon
  <2> QED
    BY <1>2, <1>4, <2>1, <2>2, Zenon DEF f
<1> HIDE DEF E
<1>10. \E seq \in 0..1, expect \in 0..1, regular \in {"ok", "off"} : E(seq, expect, regular)
  <2>1. \/ E(f, modem.expect, "off") \/ E(f, modem.expect, r) \/ E(0, 0, "ok")
    BY <1>5, <1>6, <1>7, <1>8, <1>9, Zenon
  <2>2. "off" \in {"ok", "off"} /\ "ok" \in {"ok", "off"}
    OBVIOUS
  <2> QED
    BY <1>3, <1>4, <2>1, <2>2, Zenon
<1>11. core1' \in Core1s /\ modem' \in Modems
  BY <1>10, Zenon DEF E, Core, Modem
<1>12. TypeInv'
  BY <1>1, <1>2, <1>11, TypeOf DEF Frame
<1> QED
  BY <1>2, <1>10, <1>12, Zenon DEF E

LEMMA T1CommandDoes ==
  ASSUME TypeInv, T1Command
  PROVE  /\ core1.pc = "t1" /\ modem.pc = "ready" /\ Forward(modem.n + 1, "other")
         /\ Core(core1', "t1usb", core1.le, core1.cache, core1.seq, core1.cnt, core1.bit)
         /\ Modem(modem', "sent", modem.n + 1, modem.ins, modem.due, modem.expect,
                  IF modem.regular = "fresh" THEN "off" ELSE modem.regular)
         /\ Frame /\ UNCHANGED <<usbIn, half, reply>>
         /\ TypeInv'
<1> DEFINE n == modem.n + 1
           r == IF modem.regular = "fresh" THEN "off" ELSE modem.regular
<1>1. core1 \in Core1s /\ modem \in Modems /\ usbOut \in Seq(FromPico) /\ usbIn \in Seq(ToPico)
      /\ relayConfig \in Seq({CardAtr}) /\ half \in BOOLEAN /\ line \in BOOLEAN /\ resets \in Nat
  BY DEF TypeInv
<1>2. core1.pc = "t1" /\ modem.pc = "ready" /\ Frame /\ UNCHANGED <<usbIn, half, relayConfig, line, resets, reply>>
  BY DEF T1Command, T1Read, core0Vars, Frame
<1>3. modem' = [modem EXCEPT !.n = n, !.pc = "sent", !.regular = r] /\ core1' = [core1 EXCEPT !.pc = "t1usb"]
  BY DEF T1Command
<1>4. n \in Nat /\ r \in {"fresh", "ok", "off"} /\ "sent" \in Situations /\ "t1usb" \in Places
  BY <1>1, ModemTypes DEF Situations, Places
<1> HIDE DEF n, r
<1>5. Core(core1', "t1usb", core1.le, core1.cache, core1.seq, core1.cnt, core1.bit)
  BY <1>1, <1>3, <1>4, CoreUpdates, Zenon
<1>6. Modem(modem', "sent", n, modem.ins, modem.due, modem.expect, r)
  BY <1>1, <1>3, <1>4, ModemUpdates, Zenon
<1>7. core1' \in Core1s /\ modem' \in Modems /\ modem'.n = n
  BY <1>5, <1>6, Zenon DEF Core, Modem
<1>8. Forward(n, "other")
  BY <1>7 DEF T1Command
<1>9. TypeInv'
  BY <1>1, <1>2, <1>4, <1>7, <1>8, CommandLeaves, TypeOf DEF Frame
<1> QED
  BY <1>2, <1>5, <1>6, <1>8, <1>9, Zenon DEF n, r

LEMMA BlockCount ==
  ASSUME NEW len \in Nat, NEW size \in Nat \ {0}
  PROVE  Blocks(len, size) \in Nat
BY DEF Blocks

LEMMA T1AnswerDoes ==
  ASSUME TypeInv, ProtocolInv, T1Answer
  PROVE  LET msg == Head(usbIn) IN
         /\ core1.pc = "t1usb" /\ Received
         /\ \E last \in BOOLEAN :
              /\ Core(core1', IF last THEN "t1" ELSE "chain", core1.le, core1.cache,
                      IF last THEN Flip(core1.seq) ELSE core1.seq, 1, 1)
              /\ modem.pc = "sent" =>
                   Modem(modem', IF last THEN "ready" ELSE "sent", modem.n, modem.ins, modem.due, Flip(modem.expect),
                         IF ~last /\ modem.expect = 1 THEN "off" ELSE modem.regular)
         /\ modem.pc = "sent" =>
              /\ reply'.want = IF modem.ins = "getresponse" THEN modem.due.ref ELSE modem.n
              /\ reply'.full = IF modem.ins = "getresponse" THEN modem.due.len ELSE 0
              /\ reply'.ref = msg.ref
         /\ modem.pc # "sent" => modem' = modem /\ reply' = reply
         /\ Frame /\ UNCHANGED usbOut
         /\ TypeInv'
<1> DEFINE msg == Head(usbIn)
           left == Blocks(msg.len, core1.size) - 1
           last == left = 0
           place == IF last THEN "t1" ELSE "chain"
           seq == IF last THEN Flip(core1.seq) ELSE core1.seq
           situation == IF last THEN "ready" ELSE "sent"
           regular == IF ~last /\ modem.expect = 1 THEN "off" ELSE modem.regular
           expect == Flip(modem.expect)
<1>1. core1 \in Core1s /\ modem \in Modems /\ usbOut \in Seq(FromPico) /\ usbIn \in Seq(ToPico)
      /\ relayConfig \in Seq({CardAtr}) /\ half \in BOOLEAN /\ line \in BOOLEAN /\ resets \in Nat
  BY DEF TypeInv
<1>2. core1.pc = "t1usb" /\ Received /\ Frame /\ UNCHANGED <<usbOut, relayConfig, line, resets>>
  BY DEF T1Answer, core0Vars, Frame
<1>3. msg.ref \in Nat /\ msg.len \in Nat /\ usbIn' \in Seq(ToPico) /\ half' = FALSE
  BY <1>2, AnswerArrives
<1>4. core1' = [core1 EXCEPT !.pc = place, !.left = left, !.cnt = 1, !.bit = 1, !.seq = seq]
  BY DEF T1Answer, T1Returned
<1>5. modem.pc = "sent" => Took(TRUE, last) = [modem EXCEPT !.expect = expect, !.regular = regular, !.pc = situation]
  BY DEF Took
<1>6. Listens(Took(TRUE, last), msg.ref, msg.len)
  BY DEF T1Answer
<1>7. left \in Int
  <2>1. Blocks(msg.len, core1.size) \in Nat
    BY <1>1, <1>3, BlockCount, CoreTypes
  <2> QED
    BY <2>1
<1>8. core1.seq \in 0..1 /\ modem.expect \in 0..1 /\ modem.regular \in {"fresh", "ok", "off"}
  BY <1>1, CoreTypes, ModemTypes
<1>9. seq \in 0..1 /\ expect \in 0..1 /\ 1 \in 0..1
  BY <1>8 DEF Flip
<1>10. place \in Places /\ situation \in Situations /\ regular \in {"fresh", "ok", "off"}
  BY <1>8 DEF Places, Situations
<1> HIDE DEF left, place, seq, situation, regular, expect
<1>11. Core(core1', place, core1.le, core1.cache, seq, 1, 1)
  BY <1>1, <1>4, <1>7, <1>9, <1>10, CoreUpdates, Zenon
<1>12. ASSUME modem.pc = "sent"
       PROVE  /\ Modem(modem', situation, modem.n, modem.ins, modem.due, expect, regular)
              /\ reply'.want = IF modem.ins = "getresponse" THEN modem.due.ref ELSE modem.n
              /\ reply'.full = IF modem.ins = "getresponse" THEN modem.due.len ELSE 0
              /\ reply'.ref = msg.ref
  <2>1. modem' = [modem EXCEPT !.expect = expect, !.regular = regular, !.pc = situation] /\ Answer(msg.ref, msg.len)
    BY <1>5, <1>6, <1>12 DEF Listens
  <2>2. Modem(modem', situation, modem.n, modem.ins, modem.due, expect, regular)
    BY <1>1, <1>9, <1>10, <2>1, ModemUpdates, Zenon
  <2>3. modem'.n = modem.n /\ modem'.ins = modem.ins
    BY <2>2, Zenon DEF Modem
  <2> QED
    BY <2>1, <2>2, <2>3 DEF Answer
<1>13. modem.pc # "sent" => modem' = modem /\ reply' = reply
  BY <1>6 DEF Listens
<1>14. core1' \in Core1s /\ modem' \in Modems
  BY <1>1, <1>11, <1>12, <1>13, Zenon DEF Core, Modem
<1>15. TypeInv'
  BY <1>1, <1>2, <1>3, <1>14, TypeOf DEF Frame
<1>16. last \in BOOLEAN
  OBVIOUS
<1> QED
  BY <1>2, <1>11, <1>12, <1>13, <1>15, <1>16, Zenon DEF place, seq, situation, regular, expect

LEMMA T1ChainDoes ==
  ASSUME TypeInv, NEW r \in {"ok", "error", "ifsd", "abort", "resync", "other"}, T1Chain(r)
  PROVE  /\ core1.pc = "chain" /\ modem.pc = "sent"
         /\ \E last \in BOOLEAN, seq \in 0..1, cnt \in 0..1, bit \in 0..1, expect \in 0..1, regular \in {"fresh", "ok", "off"} :
              /\ Core(core1', IF last THEN "t1" ELSE "chain", core1.le, core1.cache, seq, cnt, bit)
              /\ Modem(modem', IF last THEN "ready" ELSE "sent", modem.n, modem.ins, modem.due, expect, regular)
              /\ regular # "off" =>
                   /\ regular = modem.regular
                   /\ cnt = Flip(core1.cnt) /\ bit = cnt /\ expect = Flip(modem.expect)
                   /\ seq = IF last /\ cnt = 1 THEN Flip(core1.seq) ELSE core1.seq
         /\ Frame /\ UNCHANGED <<usbOut, usbIn, half, reply>>
         /\ TypeInv'
<1> DEFINE last == core1.left = 1
           was == CASE r \in {"ifsd", "abort"} -> Flip(core1.cnt) [] r = "resync" -> 0 [] OTHER -> core1.cnt
           cnt == Flip(was)
           flip == Flip(core1.cnt)
           place == IF last THEN "t1" ELSE "chain"
           left == core1.left - 1
           seq == IF last /\ cnt = 1 THEN Flip(core1.seq) ELSE core1.seq
           situation == IF last THEN "ready" ELSE "sent"
           regular == modem.regular
           expect == Flip(modem.expect)
           E(l, s, c, b, e, g) ==
              /\ Core(core1', IF l THEN "t1" ELSE "chain", core1.le, core1.cache, s, c, b)
              /\ Modem(modem', IF l THEN "ready" ELSE "sent", modem.n, modem.ins, modem.due, e, g)
              /\ g # "off" =>
                   /\ g = modem.regular
                   /\ c = Flip(core1.cnt) /\ b = c /\ e = Flip(modem.expect)
                   /\ s = IF l /\ c = 1 THEN Flip(core1.seq) ELSE core1.seq
<1>1. core1 \in Core1s /\ modem \in Modems /\ usbOut \in Seq(FromPico) /\ usbIn \in Seq(ToPico)
      /\ relayConfig \in Seq({CardAtr}) /\ half \in BOOLEAN /\ line \in BOOLEAN /\ resets \in Nat
  BY DEF TypeInv
<1>2. core1.pc = "chain" /\ modem.pc = "sent" /\ Frame /\ UNCHANGED <<usbOut, usbIn, half, relayConfig, line, resets, reply>>
  BY DEF T1Chain, usbVars, core0Vars, Frame
<1>3. \/ core1' = [core1 EXCEPT !.cnt = flip] /\ modem' = [modem EXCEPT !.regular = "off"]
      \/ /\ core1' = [core1 EXCEPT !.pc = place, !.left = left, !.cnt = cnt, !.bit = cnt, !.seq = seq]
         /\ \/ r = "ok" /\ modem' = [modem EXCEPT !.expect = expect, !.regular = regular, !.pc = situation]
            \/ modem' = [modem EXCEPT !.regular = "off", !.pc = situation]
  <2>1. core1.pc = "chain" /\ modem.pc = "sent"
    BY <1>2
  <2>2. CASE r = "error"
    BY <2>2 DEF T1Chain
  <2>3. ASSUME r # "error"
        PROVE core1' = [core1 EXCEPT !.pc = place, !.left = left, !.cnt = cnt, !.bit = cnt, !.seq = seq]
    BY <2>1, <2>3 DEF T1Chain, T1Returned
  <2>4. CASE r = "ok"
    <3>1. modem' = Took(FALSE, last)
      BY <2>4 DEF T1Chain
    <3>2. modem' = [modem EXCEPT !.expect = expect, !.regular = regular, !.pc = situation]
      BY <2>1, <3>1 DEF Took
    <3> QED
      BY <2>3, <2>4, <3>2
  <2>5. CASE r \notin {"ok", "error"}
    <3>1. modem' = [modem EXCEPT !.regular = "off", !.pc = situation]
      BY <2>1, <2>5 DEF T1Chain
    <3> QED
      BY <2>3, <2>5, <3>1
  <2> QED
    BY <2>2, <2>4, <2>5
<1>4. core1.seq \in 0..1 /\ core1.cnt \in 0..1 /\ core1.bit \in 0..1 /\ core1.left \in Int
      /\ modem.expect \in 0..1 /\ modem.regular \in {"fresh", "ok", "off"}
  BY <1>1, CoreTypes, ModemTypes
<1>5. flip \in 0..1 /\ was \in 0..1 /\ expect \in 0..1 /\ left \in Int
  BY <1>4 DEF Flip
<1>6. cnt \in 0..1 /\ (r = "ok" => cnt = flip)
  <2> HIDE DEF was
  <2>1. cnt \in 0..1
    BY <1>5 DEF Flip
  <2>2. r = "ok" => was = core1.cnt
    BY DEF was
  <2> QED
    BY <2>1, <2>2
<1> HIDE DEF was, cnt, left
<1>7. seq \in 0..1 /\ place \in Places /\ situation \in Situations /\ regular \in {"fresh", "ok", "off"}
  BY <1>4 DEF Flip, Places, Situations
<1>8. "off" \in {"fresh", "ok", "off"} /\ last \in BOOLEAN /\ FALSE \in BOOLEAN
  OBVIOUS
<1> HIDE DEF flip, place, seq, situation, regular, expect, last
<1>9. ASSUME core1' = [core1 EXCEPT !.cnt = flip], modem' = [modem EXCEPT !.regular = "off"]
      PROVE  E(FALSE, core1.seq, flip, core1.bit, modem.expect, "off")
  <2>1. Core(core1', core1.pc, core1.le, core1.cache, core1.seq, flip, core1.bit)
    BY <1>1, <1>5, <1>9, CoreUpdates, Zenon
  <2>2. Modem(modem', modem.pc, modem.n, modem.ins, modem.due, modem.expect, "off")
    BY <1>1, <1>8, <1>9, ModemUpdates, Zenon
  <2> QED
    BY <1>2, <2>1, <2>2, Zenon
<1>10. ASSUME core1' = [core1 EXCEPT !.pc = place, !.left = left, !.cnt = cnt, !.bit = cnt, !.seq = seq]
       PROVE  Core(core1', place, core1.le, core1.cache, seq, cnt, cnt)
  BY <1>1, <1>5, <1>6, <1>7, <1>10, CoreUpdates, Zenon
<1>11. ASSUME core1' = [core1 EXCEPT !.pc = place, !.left = left, !.cnt = cnt, !.bit = cnt, !.seq = seq],
              modem' = [modem EXCEPT !.regular = "off", !.pc = situation]
       PROVE  E(last, seq, cnt, cnt, modem.expect, "off")
  <2>1. Modem(modem', situation, modem.n, modem.ins, modem.due, modem.expect, "off")
    BY <1>1, <1>7, <1>8, <1>11, ModemUpdates, Zenon
  <2> QED
    BY <1>10, <1>11, <2>1, Zenon DEF place, situation
<1>12. ASSUME core1' = [core1 EXCEPT !.pc = place, !.left = left, !.cnt = cnt, !.bit = cnt, !.seq = seq],
              r = "ok", modem' = [modem EXCEPT !.expect = expect, !.regular = regular, !.pc = situation]
       PROVE  E(last, seq, cnt, cnt, expect, regular)
  <2>1. Modem(modem', situation, modem.n, modem.ins, modem.due, expect, regular)
    BY <1>1, <1>5, <1>7, <1>12, ModemUpdates, Zenon
  <2>2. regular = modem.regular
    BY DEF regular
  <2> QED
    BY <1>6, <1>10, <1>12, <2>1, <2>2, Zenon DEF place, situation, seq, flip, expect
<1> HIDE DEF E
<1>13. \E l \in BOOLEAN, s \in 0..1, c \in 0..1, b \in 0..1, e \in 0..1, g \in {"fresh", "ok", "off"} : E(l, s, c, b, e, g)
  <2>1. \/ E(FALSE, core1.seq, flip, core1.bit, modem.expect, "off")
        \/ E(last, seq, cnt, cnt, modem.expect, "off")
        \/ E(last, seq, cnt, cnt, expect, regular)
    BY <1>3, <1>9, <1>11, <1>12, Zenon
  <2>2. CASE E(FALSE, core1.seq, flip, core1.bit, modem.expect, "off")
    BY <1>4, <1>5, <1>8, <2>2, Zenon
  <2>3. CASE E(last, seq, cnt, cnt, modem.expect, "off")
    BY <1>4, <1>6, <1>7, <1>8, <2>3, SMT
  <2>4. CASE E(last, seq, cnt, cnt, expect, regular)
    BY <1>5, <1>6, <1>7, <1>8, <2>4, SMT
  <2> QED
    BY <2>1, <2>2, <2>3, <2>4
<1>14. core1' \in Core1s /\ modem' \in Modems
  BY <1>13, Zenon DEF E, Core, Modem
<1>15. TypeInv'
  BY <1>1, <1>2, <1>14, TypeOf DEF Frame
<1> QED
  BY <1>2, <1>13, <1>15, Zenon DEF E

LEMMA Garbled ==
  ASSUME TypeInv
  PROVE  Core([core1 EXCEPT !.pc = "garbled"], "garbled", core1.le, core1.cache, core1.seq, core1.cnt, core1.bit)
<1>1. core1 \in Core1s /\ "garbled" \in Places
  BY DEF TypeInv, Places
<1> QED
  BY <1>1, CoreUpdates, Zenon

\* What a reader sends that is no command (T=1), and the steps as they are taken up
\* below.
T1Block ==
    T1Damaged \/ T1RBlock \/ \E kind \in {"resync", "ifsd", "abort"}, size \in Ifsd : T1SBlock(kind, size)

LEMMA Steps ==
  ASSUME TypeInv, PicoNext
  PROVE  \/ Core0Step \/ ProxyStep \/ ReadHeader \/ ReadMeta
         \/ T0Start \/ ExchangePps \/ T0Answer \/ \E ins \in {"other", "getresponse"}, le \in Nat : T0Command(ins, le)
         \/ T1Start \/ T1Block \/ T1Command \/ T1Answer
         \/ \E r \in {"ok", "error", "ifsd", "abort", "resync", "other"} : T1Chain(r)
         \/ \E up \in BOOLEAN : LineGoes(up)
<1>1. CASE T0Sends
  <2>1. ASSUME NEW le \in LongLe \cup {2}, T0Command("other", le)
        PROVE  \E ins \in {"other", "getresponse"}, l \in Nat : T0Command(ins, l)
    <3>1. le \in Nat
      BY PicoAssumption
    <3> QED
      BY <2>1, <3>1
  <2>2. ASSUME T0Command("getresponse", IF modem.due.len = 0 THEN 258 ELSE modem.due.len)
        PROVE  \E ins \in {"other", "getresponse"}, l \in Nat : T0Command(ins, l)
    <3> DEFINE le == IF modem.due.len = 0 THEN 258 ELSE modem.due.len
    <3>1. modem.due.len \in Nat
      BY ModemTypes DEF TypeInv, Responses
    <3>2. le \in Nat
      BY <3>1
    <3> HIDE DEF le
    <3>3. T0Command("getresponse", le)
      BY <2>2 DEF le
    <3> QED
      BY <3>2, <3>3
  <2> QED
    BY <1>1, <2>1, <2>2 DEF T0Sends
<1> QED
  BY <1>1, Zenon DEF PicoNext, Core1Step, ModemStep, T1Block

LEMMA TypeKept ==
  ASSUME TypeInv, ProtocolInv, PicoNext
  PROVE  TypeInv'
<1>1. CASE T0Start \/ T1Start
  BY <1>1, StartDoes DEF T0Start, T1Start
<1>2. CASE T1Block
  BY <1>2, T1BlockDoes DEF T1Block
<1>3. ASSUME NEW r \in {"ok", "error", "ifsd", "abort", "resync", "other"}, T1Chain(r) PROVE TypeInv'
  BY <1>3, T1ChainDoes
<1>4. ASSUME NEW ins \in {"other", "getresponse"}, NEW le \in Nat, T0Command(ins, le) PROVE TypeInv'
  BY <1>4, T0CommandDoes
<1>5. ASSUME NEW up \in BOOLEAN, LineGoes(up) PROVE TypeInv'
  BY <1>5, LineDoes
<1>6. CASE ExchangePps \/ T0Answer \/ T1Command \/ T1Answer
  BY <1>6, PpsDoes, T0AnswerDoes, T1CommandDoes, T1AnswerDoes
<1>7. CASE Core0Step \/ ProxyStep \/ ReadHeader \/ ReadMeta
  BY <1>7, TypeCore0, TypeUsb
<1> QED
  BY <1>1, <1>2, <1>3, <1>4, <1>5, <1>6, <1>7, Steps, Zenon

-----------------------------------------------------------------------------
(***************************************************************************)
(* The protocol is that of the ATR                                         *)
(***************************************************************************)

LEMMA SameProtocol ==
  ASSUME TypeInv, ProtocolInv, Frame, core1.pc # "off" \/ UNCHANGED <<core1, half>>, half' => usbIn' # <<>>,
         core1'.pc \in T0Places => CardAtr.protocol = 0, core1'.pc \in T1Places => CardAtr.protocol = 1,
         modem'.ins = "getresponse" \/ modem'.due # NoDue => CardAtr.protocol = 0
  PROVE  ProtocolInv'
<1>1. CardAtr' = CardAtr /\ core0' = core0 /\ atr' = atr
  BY DEF Frame, CardAtr
<1>2. core0' \in {"ask", "boot"} => core1'.pc = "off" /\ ~half'
  BY <1>1 DEF ProtocolInv
<1>3. core0' \notin {"ask", "boot"} => atr' = CardAtr'
  BY <1>1 DEF ProtocolInv
<1> QED
  BY <1>1, <1>2, <1>3 DEF ProtocolInv

LEMMA ProtocolCore0 ==
  ASSUME TypeInv, ProtocolInv, Core0Step
  PROVE  ProtocolInv'
<1>1. ASSUME UNCHANGED cardAtr PROVE CardAtr' = CardAtr
  BY <1>1 DEF CardAtr
<1>2. CASE RequestAtr
  BY <1>1, <1>2 DEF RequestAtr, ProtocolInv, modemVars
<1>3. CASE ReadUsbAtr
  <2> DEFINE msg == Head(usbIn)
  <2>1. core0 = "boot" /\ usbIn # <<>> /\ msg \in ToPico /\ UNCHANGED <<cardAtr, half, modem>>
    BY <1>3, HeadAndTail DEF ReadUsbAtr, TypeInv, modemVars
  <2>2. CASE msg.op = "atr"
    <3>1. msg.atr = cardAtr
      BY <2>1, <2>2, MessageTypes
    <3>2. atr' = CardAtr /\ core1' = [Off EXCEPT !.pc = "waiting"] /\ core0' = "loop"
      BY <1>3, <2>2, <3>1 DEF ReadUsbAtr, CardAtr
    <3>3. core1'.pc = "waiting"
      BY <3>2, OffTypes
    <3> QED
      BY <1>1, <2>1, <3>2, <3>3 DEF ProtocolInv, T0Places, T1Places
  <2>3. CASE msg.op # "atr"
    <3>1. core1' = core1 /\ core0' \in {"ask", "boot"}
      BY <1>3, <2>1, <2>3 DEF ReadUsbAtr
    <3> QED
      BY <1>1, <2>1, <3>1 DEF ProtocolInv
  <2> QED
    BY <2>2, <2>3
<1>4. CASE Launch
  <2>1. core1'.pc \in {"off", "start"}
    BY <1>4, OffTypes DEF Launch, Off
  <2> QED
    BY <1>1, <1>4, <2>1 DEF Launch, ProtocolInv, T0Places, T1Places
<1>5. CASE LineDown
  BY <1>1, <1>5 DEF LineDown, ProtocolInv, usbVars, modemVars
<1>6. CASE UpdateAtr
  <2>1. atr' = CardAtr
    BY <1>6 DEF UpdateAtr, TypeInv
  <2> QED
    BY <1>1, <1>6, <2>1 DEF UpdateAtr, ProtocolInv, usbVars, modemVars
<1> QED
  BY <1>2, <1>3, <1>4, <1>5, <1>6 DEF Core0Step

LEMMA ProtocolKept ==
  ASSUME TypeInv, ProtocolInv, PicoNext
  PROVE  ProtocolInv'
<1>1. CASE T0Start \/ T1Start
  BY <1>1, StartDoes, SameProtocol DEF T0Start, T1Start, ProtocolInv, Core, Modem, T0Places, T1Places
<1>2. CASE T1Block
  BY <1>2, T1BlockDoes, SameProtocol DEF T1Block, ProtocolInv, Core, Modem, T0Places, T1Places
<1>3. ASSUME NEW r \in {"ok", "error", "ifsd", "abort", "resync", "other"}, T1Chain(r) PROVE ProtocolInv'
  BY <1>3, T1ChainDoes, SameProtocol DEF ProtocolInv, Core, Modem, T0Places, T1Places
<1>4. ASSUME NEW ins \in {"other", "getresponse"}, NEW le \in Nat, T0Command(ins, le) PROVE ProtocolInv'
  BY <1>4, T0CommandDoes, SameProtocol DEF ProtocolInv, Core, Modem, T0Places, T1Places
<1>5. ASSUME NEW up \in BOOLEAN, LineGoes(up) PROVE ProtocolInv'
  BY <1>5, LineDoes, SameProtocol DEF ProtocolInv, Core, Modem, T0Places, T1Places
<1>6. CASE ExchangePps
  BY <1>6, PpsDoes, SameProtocol DEF ProtocolInv, Core, Modem, T0Places, T1Places
<1>7. CASE T0Answer
  BY <1>7, T0AnswerDoes, AnswerArrives, SameProtocol DEF ProtocolInv, Core, Modem, T0Places, T1Places
<1>8. CASE T1Answer
  BY <1>8, T1AnswerDoes, AnswerArrives, SameProtocol DEF ProtocolInv, Core, Modem, T0Places, T1Places
<1>9. CASE T1Command
  BY <1>9, T1CommandDoes, SameProtocol DEF ProtocolInv, Core, Modem, T0Places, T1Places
<1>10. CASE ReadHeader \/ ReadMeta
  <2>1. /\ core1.pc # "off" /\ modem' = modem /\ (half' => usbIn' # <<>>)
        /\ core1' = core1 \/ core1' = [core1 EXCEPT !.pc = "garbled"]
        /\ UNCHANGED <<cardAtr, core0, atr>>
    BY <1>10 DEF ReadHeader, ReadMeta, Reads, core0Vars, modemVars
  <2>2. core1'.pc \in {core1.pc, "garbled"}
    BY <2>1, Garbled, Zenon DEF Core
  <2>3. CardAtr' = CardAtr
    BY <2>1 DEF CardAtr
  <2> QED
    BY <2>1, <2>2, <2>3 DEF ProtocolInv, T0Places, T1Places
<1>11. CASE ProxyStep
  <2>1. UNCHANGED <<cardAtr, core0, atr, core1, half, modem>>
    BY <1>11 DEF ProxyStep, ProxyReads, ProxyAnswers, core0Vars, modemVars
  <2>2. usbIn # <<>> => usbIn' # <<>>
    <3>1. CASE ProxyReads
      <4>1. usbIn' \in Seq(ToPico) /\ usbIn \in Seq(ToPico) /\ Len(usbIn) <= Len(usbIn')
        BY <3>1, ProxyInforms DEF TypeInv
      <4> QED
        BY <4>1
    <3>2. ASSUME NEW len \in Lens, NEW more \in BOOLEAN, ProxyAnswers(len, more) PROVE usbIn' # <<>>
      BY <3>2 DEF ProxyAnswers, TypeInv
    <3> QED
      BY <1>11, <3>1, <3>2 DEF ProxyStep
  <2>3. CardAtr' = CardAtr
    BY <2>1 DEF CardAtr
  <2> QED
    BY <2>1, <2>2, <2>3 DEF ProtocolInv
<1> QED
  BY <1>1, <1>2, <1>3, <1>4, <1>5, <1>6, <1>7, <1>8, <1>9, <1>10, <1>11, ProtocolCore0, Steps, Zenon

-----------------------------------------------------------------------------
(***************************************************************************)
(* The counters of T=1                                                     *)
(***************************************************************************)

LEMMA CounterKept ==
  ASSUME TypeInv, ProtocolInv, CounterInv, SequenceHolds, PicoNext
  PROVE  CounterInv' /\ SequenceHolds'
<1> USE DEF T1Places
<1>1. core1.seq \in 0..1 /\ core1.cnt \in 0..1 /\ core1.bit \in 0..1 /\ modem.expect \in 0..1
  BY CoreTypes, ModemTypes DEF TypeInv
<1>2. ASSUME core1'.pc \notin T1Places PROVE CounterInv' /\ SequenceHolds'
  BY <1>2 DEF CounterInv, SequenceHolds
<1>3. ASSUME UNCHANGED <<core1, modem>> PROVE CounterInv' /\ SequenceHolds'
  BY <1>3 DEF CounterInv, SequenceHolds
<1>4. ASSUME modem'.pc \notin {"ready", "sent"} PROVE CounterInv' /\ SequenceHolds'
  BY <1>4 DEF CounterInv, SequenceHolds
<1>5. CASE T0Start
  BY <1>2, <1>5, StartDoes DEF T0Start, Core
<1>6. CASE T1Start
  <2>1. core1'.pc = "t1" /\ core1'.seq = 1 /\ modem'.expect = 0 /\ modem'.regular = "fresh"
    BY <1>6, StartDoes DEF T1Start, Core, Modem
  <2> QED
    BY <2>1 DEF CounterInv, SequenceHolds, Flip
<1>7. CASE T1Block
  <2>1. PICK seq \in 0..1, expect \in 0..1, regular \in {"ok", "off"} :
          /\ core1'.pc = "t1" /\ core1'.seq = seq /\ modem'.pc = "ready" /\ modem'.expect = expect /\ modem'.regular = regular
          /\ regular = "ok" => \/ seq = 0 /\ expect = 0
                               \/ modem.regular = "fresh" /\ seq = Flip(core1.seq) /\ expect = modem.expect
    BY <1>7, T1BlockDoes DEF T1Block, Core, Modem
  <2>2. core1.pc = "t1" /\ modem.pc = "ready"
    BY <1>7, T1BlockDoes DEF T1Block
  <2>3. regular = "ok" => seq = expect
    BY <1>1, <2>1, <2>2 DEF CounterInv, Flip
  <2> QED
    BY <2>1, <2>3 DEF CounterInv, SequenceHolds
<1>8. CASE T1Command
  <2>1. /\ core1.pc = "t1" /\ modem.pc = "ready" /\ core1'.pc = "t1usb" /\ core1'.seq = core1.seq /\ modem'.pc = "sent"
        /\ modem'.expect = modem.expect /\ modem'.regular = IF modem.regular = "fresh" THEN "off" ELSE modem.regular
    BY <1>8, T1CommandDoes DEF Core, Modem
  <2> QED
    BY <2>1 DEF CounterInv, SequenceHolds
<1>9. CASE T1Answer
  <2>1. PICK last \in BOOLEAN :
          /\ core1'.pc = IF last THEN "t1" ELSE "chain"
          /\ core1'.seq = IF last THEN Flip(core1.seq) ELSE core1.seq
          /\ core1'.cnt = 1 /\ core1'.bit = 1
          /\ modem.pc = "sent" =>
               /\ modem'.pc = IF last THEN "ready" ELSE "sent"
               /\ modem'.expect = Flip(modem.expect)
               /\ modem'.regular = IF ~last /\ modem.expect = 1 THEN "off" ELSE modem.regular
    BY <1>9, T1AnswerDoes DEF Core, Modem
  <2>2. core1.pc = "t1usb" /\ (modem.pc # "sent" => modem' = modem)
    BY <1>9, T1AnswerDoes
  <2>3. CASE modem.pc # "sent"
    BY <1>4, <2>2, <2>3 DEF CounterInv
  <2>4. CASE modem.pc = "sent"
    <3>1. modem.regular # "fresh" /\ (modem'.regular = "ok" => core1.seq = modem.expect /\ (last \/ modem.expect = 0))
      BY <1>1, <2>1, <2>2, <2>4 DEF CounterInv, SequenceHolds
    <3> QED
      BY <1>1, <2>1, <2>4, <3>1 DEF CounterInv, SequenceHolds, Flip
  <2> QED
    BY <2>3, <2>4
<1>10. ASSUME NEW r \in {"ok", "error", "ifsd", "abort", "resync", "other"}, T1Chain(r)
       PROVE  CounterInv' /\ SequenceHolds'
  <2>1. PICK last \in BOOLEAN, seq \in 0..1, cnt \in 0..1, bit \in 0..1, expect \in 0..1, regular \in {"fresh", "ok", "off"} :
          /\ Core(core1', IF last THEN "t1" ELSE "chain", core1.le, core1.cache, seq, cnt, bit)
          /\ Modem(modem', IF last THEN "ready" ELSE "sent", modem.n, modem.ins, modem.due, expect, regular)
          /\ regular # "off" =>
               /\ regular = modem.regular
               /\ cnt = Flip(core1.cnt) /\ bit = cnt /\ expect = Flip(modem.expect)
               /\ seq = IF last /\ cnt = 1 THEN Flip(core1.seq) ELSE core1.seq
    BY <1>10, T1ChainDoes, Zenon
  <2>2. core1.pc = "chain" /\ modem.pc = "sent"
    BY <1>10, T1ChainDoes
  <2>5. /\ core1'.pc = (IF last THEN "t1" ELSE "chain") /\ core1'.seq = seq /\ core1'.cnt = cnt /\ core1'.bit = bit
        /\ modem'.pc = (IF last THEN "ready" ELSE "sent") /\ modem'.expect = expect /\ modem'.regular = regular
    BY <2>1, Zenon DEF Core, Modem
  <2>3. regular # "fresh"
    BY <2>1, <2>2 DEF CounterInv
  <2>4. ASSUME regular = "ok"
        PROVE  cnt = bit /\ bit = expect /\ (IF last THEN seq = expect ELSE seq = 0)
    <3>1. core1.cnt = core1.bit /\ core1.seq = 0 /\ core1.bit = modem.expect
      BY <2>1, <2>2, <2>4 DEF CounterInv, SequenceHolds
    <3> QED
      BY <1>1, <2>1, <2>4, <3>1 DEF Flip
  <2> QED
    BY <2>3, <2>4, <2>5 DEF CounterInv, SequenceHolds
<1>11. ASSUME NEW ins \in {"other", "getresponse"}, NEW le \in Nat, T0Command(ins, le)
       PROVE  CounterInv' /\ SequenceHolds'
  BY <1>2, <1>11, T0CommandDoes DEF Core
<1>12. CASE T0Answer
  BY <1>2, <1>12, T0AnswerDoes DEF Core
<1>13. CASE ExchangePps
  BY <1>2, <1>13, PpsDoes DEF Core
<1>14. ASSUME NEW up \in BOOLEAN, LineGoes(up) PROVE CounterInv' /\ SequenceHolds'
  BY <1>4, <1>14, LineDoes DEF Modem
<1>15. CASE ReadHeader \/ ReadMeta
  <2>1. modem' = modem /\ core1' \in {core1, [core1 EXCEPT !.pc = "garbled"]}
    BY <1>15 DEF ReadHeader, ReadMeta, modemVars
  <2> QED
    BY <1>2, <1>3, <2>1, Garbled DEF Core
<1>16. CASE ProxyStep
  BY <1>3, <1>16 DEF ProxyStep, ProxyReads, ProxyAnswers, modemVars
<1>17. CASE Core0Step
  <2>1. modem' = modem
    BY <1>17 DEF Core0Step, RequestAtr, ReadUsbAtr, Launch, LineDown, UpdateAtr, modemVars
  <2>2. core1' = core1 \/ core1'.pc \in {"off", "waiting", "start"}
    BY <1>17, OffTypes DEF Core0Step, RequestAtr, ReadUsbAtr, Launch, LineDown, UpdateAtr, Off
  <2> QED
    BY <1>2, <1>3, <2>1, <2>2
<1> QED
  BY <1>5, <1>6, <1>7, <1>8, <1>9, <1>10, <1>11, <1>12, <1>13, <1>14, <1>15, <1>16, <1>17, Steps, Zenon

-----------------------------------------------------------------------------
(***************************************************************************)
(* The flight of a command                                                 *)
(***************************************************************************)

LEMMA Ahead ==
  /\ AtOut = Apdus(usbOut) /\ AtIn = Apdus(usbIn)
  /\ AtOut' = Apdus(usbOut') /\ AtIn' = Apdus(usbIn')
BY DEF AtOut, AtIn, Apdus

\* A step that puts no command into flight.
LEMMA NoTakeOff ==
  ASSUME FlightInv, ~interrupted' => ~interrupted /\ ~torn',
         ~interrupted =>
           /\ AtOut' # {} => AtOut # {}
           /\ AtIn' # {} => AtIn # {}
           /\ proxy' # <<>> => proxy # <<>>
           /\ \A i, j \in AtOut' : i = j
           /\ \A i, j \in AtIn' : i = j
           /\ InFlight => core1'.pc \in {"t0usb", "t1usb"} /\ modem'.pc \in {"sent", "reset", "atr"}
  PROVE  FlightInv'
<1>1. CASE interrupted'
  BY <1>1 DEF FlightInv
<1>2. CASE ~interrupted'
  <2>1. ~interrupted /\ ~torn'
    BY <1>2
  <2>2. InFlight' => InFlight
    BY <2>1 DEF InFlight
  <2> QED
    BY <2>1, <2>2 DEF FlightInv
<1> QED
  BY <1>1, <1>2

\* A step that leaves the messages alone.
LEMMA FlightGoesOn ==
  ASSUME FlightInv, UNCHANGED <<usbOut, usbIn, proxy, torn, interrupted>>,
         ~interrupted /\ InFlight => core1'.pc \in {"t0usb", "t1usb"} /\ modem'.pc \in {"sent", "reset", "atr"}
  PROVE  FlightInv' /\ AtOut' = AtOut /\ AtIn' = AtIn
<1>1. AtOut' = AtOut /\ AtIn' = AtIn
  BY Ahead
<1>2. ~interrupted' => ~interrupted /\ ~torn'
  BY DEF FlightInv
<1> QED
  BY <1>1, <1>2, NoTakeOff DEF FlightInv

\* A command leaves the second core.
LEMMA TakeOff ==
  ASSUME TypeInv, FlightInv, NEW n \in Nat, NEW ins \in {"other", "getresponse"}, Forward(n, ins), Frame, usbIn' = usbIn,
         core1.pc \notin {"t0usb", "t1usb"}, core1'.pc \in {"t0usb", "t1usb"}, modem'.pc = "sent"
  PROVE  /\ FlightInv'
         /\ ~interrupted => AtOut' = {Len(usbOut) + 1} /\ AtIn' = {} /\ proxy = <<>>
<1>1. AtIn' = AtIn /\ AtOut' = AtOut \cup {Len(usbOut) + 1}
  BY Ahead, CommandLeaves
<1>2. ~interrupted => AtOut = {} /\ AtIn = {} /\ proxy = <<>> /\ ~torn
  BY DEF FlightInv, InFlight
<1>3. ~interrupted => AtOut' = {Len(usbOut) + 1} /\ AtIn' = {} /\ proxy' = <<>> /\ ~torn'
  BY <1>1, <1>2 DEF Frame
<1>4. interrupted' = interrupted /\ proxy' = proxy
  BY DEF Frame
<1> QED
  BY <1>2, <1>3, <1>4 DEF FlightInv

\* A response reaches it.
LEMMA Landing ==
  ASSUME TypeInv, ProtocolInv, FlightInv, Received, Frame, usbOut' = usbOut
  PROVE  /\ FlightInv'
         /\ ~interrupted => /\ AtOut' = {} /\ AtIn' = {} /\ proxy' = <<>>
                            /\ 1 \in AtIn /\ modem.pc \in {"sent", "reset", "atr"}
<1>1. usbIn # <<>> /\ Head(usbIn).op = "apdu" /\ 1 \in AtIn /\ usbIn' = Tail(usbIn)
  BY AnswerArrives
<1>2. usbIn \in Seq(ToPico)
  BY DEF TypeInv
<1>3. ASSUME ~interrupted
      PROVE  AtOut' = {} /\ AtIn' = {} /\ proxy' = <<>> /\ modem.pc \in {"sent", "reset", "atr"} /\ ~torn'
  <2>1. AtOut = {} /\ proxy = <<>> /\ modem.pc \in {"sent", "reset", "atr"} /\ ~torn
    BY <1>1, <1>3 DEF FlightInv, InFlight
  <2>2. \A i, j \in Apdus(usbIn) : i = j
    BY <1>3, Ahead DEF FlightInv
  <2>3. Apdus(Tail(usbIn)) = {}
    BY <1>1, <1>2, <2>2, OnlyHead
  <2> QED
    BY <1>1, <2>1, <2>3, Ahead DEF Frame
<1>4. interrupted' = interrupted
  BY DEF Frame
<1> QED
  BY <1>1, <1>3, <1>4 DEF FlightInv, InFlight

-----------------------------------------------------------------------------
(***************************************************************************)
(* The response is that of the command                                     *)
(***************************************************************************)

Waits == {"t0usb", "t1usb"}
InReset == {"reset", "atr", "pps"}

\* A step of the second core or the modem while nothing is in flight.
LEMMA IdleKept ==
  ASSUME FlightInv, ContentInv, RepliesMatch, core1.pc \notin Waits, core1'.pc \notin Waits,
         Frame, UNCHANGED <<usbOut, usbIn, reply>>, modem'.due = modem.due,
         modem'.pc \in InReset => modem.pc \in InReset, core1'.pc = "t0" => modem.pc \in InReset
  PROVE  FlightInv' /\ ContentInv' /\ RepliesMatch'
<1> USE DEF Waits, InReset
<1>1. interrupted' = interrupted /\ proxy' = proxy /\ card' = card /\ torn' = torn
  BY DEF Frame
<1>2. ~interrupted => ~InFlight
  BY DEF FlightInv
<1>3. FlightInv' /\ AtOut' = AtOut /\ AtIn' = AtIn
  BY <1>1, <1>2, FlightGoesOn
<1>4. ~interrupted => AtOut' = {} /\ AtIn' = {} /\ proxy' = <<>>
  BY <1>1, <1>2, <1>3 DEF InFlight
<1>5. ASSUME ~interrupted
      PROVE  /\ modem'.pc \in {"reset", "atr", "pps"} => modem'.due = NoDue
             /\ modem'.due # NoDue => modem'.due.ref = card'
             /\ core1'.pc = "t0" => modem'.due = NoDue
  BY <1>1, <1>5 DEF ContentInv
<1>6. ContentInv'
  BY <1>1, <1>4, <1>5 DEF ContentInv
<1> QED
  BY <1>1, <1>3, <1>6 DEF RepliesMatch

LEMMA IdleSteps ==
  ASSUME TypeInv, ProtocolInv, FlightInv, ContentInv, RepliesMatch,
         \/ T0Start \/ T1Start \/ ExchangePps \/ T1Block
         \/ \E r \in {"ok", "error", "ifsd", "abort", "resync", "other"} : T1Chain(r)
  PROVE  FlightInv' /\ ContentInv' /\ RepliesMatch'
<1> USE DEF Waits, InReset
<1>1. CASE T0Start
  BY <1>1, StartDoes, IdleKept DEF T0Start, Core, Modem
<1>2. CASE T1Start
  BY <1>2, StartDoes, IdleKept DEF T1Start, Core, Modem
<1>3. CASE ExchangePps
  BY <1>3, PpsDoes, IdleKept DEF Core, Modem
<1>4. CASE T1Block
  BY <1>4, T1BlockDoes, IdleKept DEF T1Block, Core, Modem
<1>5. ASSUME NEW r \in {"ok", "error", "ifsd", "abort", "resync", "other"}, T1Chain(r)
      PROVE  FlightInv' /\ ContentInv' /\ RepliesMatch'
  <2>1. core1.pc = "chain" /\ modem.pc = "sent" /\ Frame /\ UNCHANGED <<usbOut, usbIn, reply>>
    BY <1>5, T1ChainDoes
  <2>2. core1'.pc \in {"t1", "chain"} /\ modem'.pc \in {"ready", "sent"} /\ modem'.due = modem.due
    BY <1>5, T1ChainDoes DEF Core, Modem
  <2> QED
    BY <2>1, <2>2, IdleKept
<1> QED
  BY <1>1, <1>2, <1>3, <1>4, <1>5

LEMMA LineKeeps ==
  ASSUME TypeInv, FlightInv, ContentInv, RepliesMatch, NEW up \in BOOLEAN, LineGoes(up)
  PROVE  FlightInv' /\ ContentInv' /\ RepliesMatch'
<1>1. /\ modem'.pc \in {"reset", "atr"} /\ modem'.due = NoDue /\ modem'.n = modem.n /\ modem'.ins = modem.ins
      /\ Frame /\ UNCHANGED <<usbOut, usbIn, core1, reply>>
  BY LineDoes DEF Modem
<1>2. UNCHANGED <<interrupted, proxy, card, torn>>
  BY <1>1 DEF Frame
<1>3. FlightInv' /\ AtOut' = AtOut /\ AtIn' = AtIn
  BY <1>1, <1>2, FlightGoesOn DEF FlightInv
<1>4. ContentInv'
  BY <1>1, <1>2, <1>3 DEF ContentInv
<1> QED
  BY <1>1, <1>2, <1>3, <1>4 DEF RepliesMatch

LEMMA CommandKeeps ==
  ASSUME TypeInv, ProtocolInv, FlightInv, ContentInv, RepliesMatch,
         T1Command \/ \E ins \in {"other", "getresponse"}, le \in Nat : T0Command(ins, le)
  PROVE  FlightInv' /\ ContentInv' /\ RepliesMatch'
<1>1. modem.n + 1 \in Nat /\ modem.due.len \in Nat /\ core1.cache.len \in Nat
  BY CoreTypes, ModemTypes DEF TypeInv, Responses
<1>2. CASE T1Command
  <2>1. /\ core1.pc = "t1" /\ modem.pc = "ready" /\ Forward(modem.n + 1, "other")
        /\ core1'.pc = "t1usb" /\ modem'.pc = "sent" /\ modem'.n = modem.n + 1
        /\ modem'.ins = modem.ins /\ modem'.due = modem.due /\ Frame /\ UNCHANGED <<usbIn, reply>>
    BY <1>2, T1CommandDoes DEF Core, Modem
  <2>2. modem.ins = "other" /\ modem.due = NoDue
    BY <2>1, ModemTypes DEF ProtocolInv, T1Places, TypeInv
  <2>3. FlightInv' /\ (~interrupted => AtOut' = {Len(usbOut) + 1} /\ AtIn' = {} /\ proxy = <<>>)
    BY <1>1, <2>1, TakeOff
  <2>4. usbOut'[Len(usbOut) + 1].n = modem'.n /\ usbOut'[Len(usbOut) + 1].ins = modem'.ins
    BY <1>1, <2>1, <2>2, CommandLeaves
  <2>5. UNCHANGED <<interrupted, proxy, card>>
    BY <2>1 DEF Frame
  <2>6. ContentInv'
    BY <2>1, <2>2, <2>3, <2>4, <2>5 DEF ContentInv
  <2> QED
    BY <2>1, <2>3, <2>5, <2>6 DEF RepliesMatch
<1>3. ASSUME NEW ins \in {"other", "getresponse"}, NEW le \in Nat, T0Command(ins, le), Cached(ins)
      PROVE  FlightInv' /\ ContentInv' /\ RepliesMatch'
  <2>1. /\ core1.pc = "t0" /\ modem.pc = "ready" /\ modem.due # NoDue
        /\ core1' = core1 /\ UNCHANGED <<usbOut, usbIn>> /\ modem'.pc = "ready" /\ modem'.due = NoDue
        /\ reply' = [want |-> modem.due.ref, full |-> modem.due.len, ref |-> core1.cache.ref, len |-> core1.cache.len]
        /\ Frame
    BY <1>3, T0CommandDoes DEF Modem, Cached
  <2>2. UNCHANGED <<interrupted, proxy, card, torn>>
    BY <2>1 DEF Frame
  <2>3. ~interrupted => ~InFlight
    BY <2>1 DEF FlightInv
  <2>4. FlightInv' /\ AtOut' = AtOut /\ AtIn' = AtIn
    BY <2>1, <2>2, <2>3, FlightGoesOn
  <2>5. ContentInv'
    BY <2>1, <2>2, <2>3, <2>4 DEF ContentInv, InFlight
  <2>6. ~interrupted => core1.cache.len = modem.due.len % 256 /\ core1.cache.ref = modem.due.ref
    BY <1>3, <2>1 DEF ContentInv, Cached
  <2>7. modem.due.len \in 1..255 => modem.due.len % 256 = modem.due.len
    BY <1>1
  <2>8. RepliesMatch'
    BY <2>1, <2>2, <2>6, <2>7 DEF RepliesMatch
  <2> QED
    BY <2>4, <2>5, <2>8
<1>4. ASSUME NEW ins \in {"other", "getresponse"}, NEW le \in Nat, T0Command(ins, le), ~Cached(ins)
      PROVE  FlightInv' /\ ContentInv' /\ RepliesMatch'
  <2>1. /\ core1.pc = "t0" /\ modem.pc = "ready" /\ (ins = "getresponse" => modem.due # NoDue)
        /\ Forward(modem.n + 1, ins) /\ core1'.pc = "t0usb" /\ core1'.cache = Off.cache
        /\ modem'.pc = "sent" /\ modem'.n = modem.n + 1 /\ modem'.ins = ins
        /\ modem'.due = (IF ins = "getresponse" THEN modem.due ELSE NoDue)
        /\ Frame /\ UNCHANGED <<usbIn, reply>>
    BY <1>4, T0CommandDoes DEF Core, Modem
  <2>2. FlightInv' /\ (~interrupted => AtOut' = {Len(usbOut) + 1} /\ AtIn' = {} /\ proxy = <<>>)
    BY <1>1, <2>1, TakeOff
  <2>3. usbOut'[Len(usbOut) + 1].n = modem'.n /\ usbOut'[Len(usbOut) + 1].ins = modem'.ins
    BY <1>1, <2>1, CommandLeaves
  <2>4. UNCHANGED <<interrupted, proxy, card>>
    BY <2>1 DEF Frame
  <2>5. ~interrupted /\ ins = "getresponse" => modem.due.len \notin 1..255
    <3>1. ASSUME ~interrupted, ins = "getresponse" PROVE modem.due.len % 256 = 0
      <4>1. core1.cache.len = modem.due.len % 256
        BY <2>1, <3>1 DEF ContentInv
      <4>2. core1.cache.len = 0
        BY <1>1, <1>4, <3>1 DEF Cached
      <4> QED
        BY <4>1, <4>2
    <3> QED
      BY <1>1, <3>1
  <2>6. ~interrupted => (modem.due # NoDue => modem.due.ref = card)
    BY DEF ContentInv
  <2>7. ContentInv'
    BY <2>1, <2>2, <2>3, <2>4, <2>5, <2>6 DEF ContentInv
  <2> QED
    BY <2>1, <2>2, <2>4, <2>7 DEF RepliesMatch
<1> QED
  BY <1>2, <1>3, <1>4

LEMMA AnswerKeeps ==
  ASSUME TypeInv, ProtocolInv, FlightInv, ContentInv, RepliesMatch, T0Answer \/ T1Answer
  PROVE  FlightInv' /\ ContentInv' /\ RepliesMatch'
<1> DEFINE msg == Head(usbIn)
<1>1. Received /\ Frame /\ usbOut' = usbOut
  BY T0AnswerDoes, T1AnswerDoes
<1>2. /\ FlightInv'
      /\ ~interrupted => /\ AtOut' = {} /\ AtIn' = {} /\ proxy' = <<>>
                         /\ 1 \in AtIn /\ modem.pc \in {"sent", "reset", "atr"}
  BY <1>1, Landing
<1>3. UNCHANGED <<interrupted, card>> /\ usbIn[1] = msg /\ msg.len \in Nat
  BY <1>1, AnswerArrives DEF Frame
<1>4. ASSUME ~interrupted PROVE msg.ref = card /\ (modem.pc = "sent" /\ modem.ins = "other" => card = modem.n)
  BY <1>2, <1>3, <1>4 DEF ContentInv
<1>5. modem.ins \in {"other", "getresponse"}
  BY ModemTypes DEF TypeInv
<1>6. CASE T0Answer
  <2> DEFINE ends == msg.len = 2 \/ msg.len = core1.le
             due == IF msg.len = 2 /\ msg.more THEN [ref |-> msg.ref, len |-> 0]
                    ELSE IF ~ends /\ msg.len > core1.le THEN [ref |-> msg.ref, len |-> msg.len] ELSE NoDue
             cache == IF ends THEN core1.cache ELSE [ref |-> msg.ref, len |-> msg.len % 256]
  <2>1. /\ core1.pc = "t0usb" /\ core1'.pc = "t0" /\ core1'.cache = cache
        /\ modem.pc = "sent" =>
             /\ modem'.pc = "ready" /\ modem'.n = modem.n /\ modem'.ins = modem.ins /\ modem'.due = due
             /\ reply'.want = IF modem.ins = "getresponse" THEN modem.due.ref ELSE modem.n
             /\ reply'.full = IF modem.ins = "getresponse" THEN modem.due.len ELSE 0
             /\ reply'.ref = msg.ref
        /\ modem.pc # "sent" => modem' = modem /\ reply' = reply
    BY <1>6, T0AnswerDoes DEF Core, Modem
  <2>2. ASSUME ~interrupted, due # NoDue
        PROVE  /\ due.ref = card
               /\ cache.len = due.len % 256 /\ (cache.len > 0 => cache.ref = due.ref)
    <3>1. CASE msg.len = 2 /\ msg.more
      <4>1. cache = [ref |-> 0, len |-> 0]
        BY <2>1, <2>2, <3>1, OffTypes DEF ContentInv
      <4> QED
        BY <1>4, <2>2, <3>1, <4>1
    <3>2. CASE ~(msg.len = 2 /\ msg.more)
      <4>1. due = [ref |-> msg.ref, len |-> msg.len] /\ cache = [ref |-> msg.ref, len |-> msg.len % 256]
        BY <2>2, <3>2
      <4> QED
        BY <1>4, <2>2, <4>1
    <3> QED
      BY <3>1, <3>2
  <2> HIDE DEF ends, due, cache
  <2>3. CASE modem.pc = "sent"
    <3>1. ContentInv'
      BY <1>2, <1>3, <2>1, <2>2, <2>3 DEF ContentInv
    <3>2. ASSUME ~interrupted PROVE reply'.ref = reply'.want /\ reply'.full \notin 1..255
      <4>1. CASE modem.ins = "other"
        BY <1>4, <2>1, <2>3, <3>2, <4>1
      <4>2. CASE modem.ins = "getresponse"
        BY <1>4, <2>1, <2>3, <3>2, <4>2 DEF ContentInv
      <4> QED
        BY <1>5, <4>1, <4>2
    <3> QED
      BY <1>2, <1>3, <3>1, <3>2 DEF RepliesMatch
  <2>4. CASE modem.pc # "sent"
    <3>1. ContentInv'
      BY <1>2, <1>3, <2>1, <2>4 DEF ContentInv
    <3> QED
      BY <1>2, <1>3, <2>1, <2>4, <3>1 DEF RepliesMatch
  <2> QED
    BY <2>3, <2>4
<1>7. CASE T1Answer
  <2>1. /\ core1.pc = "t1usb" /\ core1'.pc \in {"t1", "chain"}
        /\ modem.pc = "sent" =>
             /\ modem'.pc \in {"ready", "sent"} /\ modem'.n = modem.n /\ modem'.ins = modem.ins /\ modem'.due = modem.due
             /\ reply'.want = IF modem.ins = "getresponse" THEN modem.due.ref ELSE modem.n
             /\ reply'.full = IF modem.ins = "getresponse" THEN modem.due.len ELSE 0
             /\ reply'.ref = msg.ref
        /\ modem.pc # "sent" => modem' = modem /\ reply' = reply
    BY <1>7, T1AnswerDoes DEF Core, Modem
  <2>2. modem.ins = "other" /\ modem.due = NoDue
    BY <1>5, <2>1 DEF ProtocolInv, T1Places
  <2>3. ContentInv'
    BY <1>2, <1>3, <2>1, <2>2 DEF ContentInv
  <2>4. ASSUME ~interrupted, modem.pc = "sent" PROVE reply'.ref = reply'.want /\ reply'.full \notin 1..255
    BY <1>4, <2>1, <2>2, <2>4
  <2>5. RepliesMatch'
    <3>1. CASE modem.pc = "sent"
      BY <1>3, <2>4, <3>1 DEF RepliesMatch
    <3>2. CASE modem.pc # "sent"
      <4>1. reply' = reply
        BY <2>1, <3>2
      <4> QED
        BY <1>3, <4>1 DEF RepliesMatch
    <3> QED
      BY <3>1, <3>2
  <2> QED
    BY <1>2, <2>3, <2>5
<1> QED
  BY <1>6, <1>7

LEMMA ReadsKeep ==
  ASSUME TypeInv, ProtocolInv, FlightInv, ContentInv, RepliesMatch, ReadHeader \/ ReadMeta
  PROVE  FlightInv' /\ ContentInv' /\ RepliesMatch'
<1>1. CASE ReadHeader
  <2>1. /\ torn => core1' = [core1 EXCEPT !.pc = "garbled"]
        /\ ~torn => core1' = core1
        /\ UNCHANGED <<usbOut, usbIn, proxy, card, torn, interrupted, modem, reply>>
    BY <1>1 DEF ReadHeader, modemVars
  <2>2. ~interrupted => core1' = core1
    BY <2>1 DEF FlightInv
  <2>3. FlightInv' /\ AtOut' = AtOut /\ AtIn' = AtIn
    BY <2>1, <2>2, FlightGoesOn DEF FlightInv
  <2>4. ContentInv'
    BY <2>1, <2>2, <2>3 DEF ContentInv
  <2> QED
    BY <2>1, <2>3, <2>4 DEF RepliesMatch
<1>2. CASE ReadMeta
  <2> DEFINE msg == Head(usbIn)
  <2>1. /\ usbIn # <<>> /\ usbIn' = Tail(usbIn)
        /\ usbOut' = IF msg.op = "state" THEN Append(usbOut, [op |-> "state", ready |-> TRUE]) ELSE usbOut
        /\ UNCHANGED <<proxy, card, torn, interrupted, core1, modem, reply>>
    BY <1>2 DEF ReadMeta, ProtocolInv, modemVars
  <2>2. usbIn \in Seq(ToPico) /\ usbOut \in Seq(FromPico)
    BY DEF TypeInv
  <2>3. /\ \A i \in AtIn' : i + 1 \in AtIn /\ usbIn'[i] = usbIn[i + 1]
        /\ \A i \in AtIn' : i \in Nat
    BY <2>1, <2>2, HeadAndTail, Ahead
  <2>4. AtOut' = AtOut /\ \A i \in AtOut : usbOut'[i] = usbOut[i]
    <3>1. CASE msg.op = "state"
      <4> DEFINE m == [op |-> "state", ready |-> TRUE]
      <4>1. m \in FromPico /\ m.op # "apdu"
        BY DEF FromPico
      <4>2. usbOut' = Append(usbOut, m)
        BY <2>1, <3>1
      <4> HIDE DEF m
      <4>3. Apdus(Append(usbOut, m)) = Apdus(usbOut)
        BY <2>2, <4>1, Appended
      <4>4. ASSUME NEW i \in Apdus(usbOut) PROVE Append(usbOut, m)[i] = usbOut[i]
        BY <2>2 DEF Apdus
      <4> QED
        BY <4>2, <4>3, <4>4, Ahead
    <3>2. CASE msg.op # "state"
      BY <2>1, <3>2, Ahead
    <3> QED
      BY <3>1, <3>2
  <2>5. ASSUME ~interrupted PROVE \A i, j \in AtIn' : i = j
    <3>1. \A i, j \in AtIn : i = j
      BY <2>5 DEF FlightInv
    <3>2. ASSUME NEW i \in AtIn', NEW j \in AtIn' PROVE i = j
      <4>1. i \in Nat /\ j \in Nat /\ i + 1 = j + 1
        BY <2>3, <3>1, <3>2
      <4> QED
        BY <4>1
    <3> QED
      BY <3>2
  <2>6. FlightInv'
    <3>1. ~interrupted' => ~interrupted /\ ~torn'
      BY <2>1 DEF FlightInv
    <3>2. ~interrupted => /\ AtIn' # {} => AtIn # {}
                          /\ \A i, j \in AtOut' : i = j
                          /\ InFlight => core1'.pc \in {"t0usb", "t1usb"} /\ modem'.pc \in {"sent", "reset", "atr"}
      BY <2>1, <2>3, <2>4 DEF FlightInv
    <3> QED
      BY <2>1, <2>4, <2>5, <3>1, <3>2, NoTakeOff
  <2>7. ContentInv'
    BY <2>1, <2>3, <2>4 DEF ContentInv
  <2> QED
    BY <2>1, <2>6, <2>7 DEF RepliesMatch
<1> QED
  BY <1>1, <1>2

LEMMA ProxyKeeps ==
  ASSUME TypeInv, ProtocolInv, FlightInv, ContentInv, RepliesMatch, ProxyStep
  PROVE  FlightInv' /\ ContentInv' /\ RepliesMatch'
<1>1. CASE ProxyReads
  <2> DEFINE msg == Head(usbOut)
  <2>1. /\ proxy = <<>> /\ usbOut # <<>> /\ usbOut' = Tail(usbOut)
        /\ proxy' = IF msg.op = "apdu" THEN <<msg>> ELSE <<>>
        /\ UNCHANGED <<card, torn, interrupted, core1, modem, reply>>
    BY <1>1 DEF ProxyReads, modemVars
  <2>2. usbOut \in Seq(FromPico)
    BY DEF TypeInv
  <2>3. AtIn' = AtIn /\ \A i \in AtIn : usbIn'[i] = usbIn[i]
    BY <1>1, ProxyInforms, Ahead
  <2>4. /\ \A i \in AtOut' : i + 1 \in AtOut /\ usbOut'[i] = usbOut[i + 1]
        /\ \A i \in AtOut' : i \in Nat
    BY <2>1, <2>2, HeadAndTail, Ahead
  <2>5. msg.op = "apdu" => 1 \in AtOut /\ msg = usbOut[1]
    BY <2>1, <2>2, HeadAndTail, Ahead
  <2>6. ASSUME ~interrupted
        PROVE  (\A i, j \in AtOut' : i = j) /\ (msg.op = "apdu" => AtOut' = {})
    <3>1. \A i, j \in Apdus(usbOut) : i = j
      BY <2>6, Ahead DEF FlightInv
    <3> QED
      BY <2>1, <2>2, <3>1, OnlyHead, Ahead
  <2>7. FlightInv'
    <3>1. CASE interrupted
      BY <2>1, <3>1 DEF FlightInv
    <3>2. CASE ~interrupted
      BY <2>1, <2>3, <2>4, <2>5, <2>6, <3>2 DEF FlightInv, InFlight
    <3> QED
      BY <3>1, <3>2
  <2>8. ContentInv'
    <3>1. ASSUME ~interrupted
          PROVE proxy' # <<>> /\ modem.pc = "sent" => proxy'[1].n = modem.n /\ proxy'[1].ins = modem.ins
      BY <2>1, <2>5, <3>1 DEF ContentInv
    <3> QED
      BY <2>1, <2>3, <2>4, <3>1 DEF ContentInv
  <2> QED
    BY <2>1, <2>7, <2>8 DEF RepliesMatch
<1>2. ASSUME NEW len \in Lens, NEW more \in BOOLEAN, ProxyAnswers(len, more)
      PROVE  FlightInv' /\ ContentInv' /\ RepliesMatch'
  <2> DEFINE m == [op |-> "apdu", ref |-> card', len |-> len, more |-> more]
  <2>1. /\ proxy # <<>> /\ proxy' = <<>> /\ usbIn' = Append(usbIn, m)
        /\ card' = IF proxy[1].ins = "getresponse" THEN card ELSE proxy[1].n
        /\ UNCHANGED <<usbOut, torn, interrupted, core1, modem, reply>>
    BY <1>2 DEF ProxyAnswers, modemVars
  <2>2. usbIn \in Seq(ToPico) /\ card' \in Nat /\ len \in Nat
    BY <2>1, MessageTypes, PicoAssumption DEF TypeInv
  <2>3. m \in ToPico /\ m.op = "apdu" /\ m.ref = card'
    BY <2>2 DEF ToPico
  <2> HIDE DEF m
  <2>4. AtOut' = AtOut /\ AtIn' = AtIn \cup {Len(usbIn) + 1} /\ usbIn'[Len(usbIn) + 1] = m
    <3>1. Apdus(Append(usbIn, m)) = Apdus(usbIn) \cup {Len(usbIn) + 1}
      BY <2>2, <2>3, Appended
    <3>2. Append(usbIn, m)[Len(usbIn) + 1] = m
      BY <2>2
    <3> QED
      BY <2>1, <3>1, <3>2, Ahead
  <2>5. ASSUME ~interrupted
        PROVE  /\ AtOut = {} /\ AtIn = {} /\ ~torn
               /\ core1.pc \in {"t0usb", "t1usb"} /\ modem.pc \in {"sent", "reset", "atr"}
    BY <2>1, <2>5 DEF FlightInv, InFlight
  <2>6. FlightInv'
    BY <2>1, <2>4, <2>5 DEF FlightInv
  <2>7. ASSUME ~interrupted PROVE modem.pc = "sent" /\ modem.ins = "other" => card' = modem.n
    BY <2>1, <2>7 DEF ContentInv
  <2>8. ASSUME ~interrupted, modem.due # NoDue PROVE modem.due.ref = card'
    <3>1. modem.due.ref = card /\ modem.pc = "sent" /\ core1.pc \in {"t0usb", "t1usb"}
      BY <2>5, <2>8 DEF ContentInv
    <3>2. core1.pc = "t0usb"
      BY <2>8, <3>1 DEF ProtocolInv, T1Places
    <3>3. modem.ins = "getresponse"
      BY <2>8, <3>1, <3>2, ModemTypes DEF ContentInv, TypeInv
    <3> QED
      BY <2>1, <2>8, <3>1, <3>3 DEF ContentInv
  <2>9. ContentInv'
    BY <2>1, <2>3, <2>4, <2>5, <2>7, <2>8 DEF ContentInv
  <2> QED
    BY <2>1, <2>6, <2>9 DEF RepliesMatch
<1> QED
  BY <1>1, <1>2 DEF ProxyStep

\* What main asks of the proxy is no command.
LEMMA MainAsks ==
  ASSUME TypeInv, NEW m \in FromPico, m.op # "apdu", usbOut' = Append(usbOut, m)
  PROVE  AtOut' = AtOut /\ \A i \in AtOut : usbOut'[i] = usbOut[i]
<1>1. usbOut \in Seq(FromPico)
  BY DEF TypeInv
<1>2. Apdus(Append(usbOut, m)) = Apdus(usbOut)
  BY <1>1, Appended
<1>3. ASSUME NEW i \in Apdus(usbOut) PROVE Append(usbOut, m)[i] = usbOut[i]
  BY <1>1 DEF Apdus
<1> QED
  BY <1>2, <1>3, Ahead

LEMMA Core0Keeps ==
  ASSUME TypeInv, ProtocolInv, FlightInv, ContentInv, RepliesMatch, Core0Step
  PROVE  FlightInv' /\ ContentInv' /\ RepliesMatch'
<1>1. CASE RequestAtr
  <2>1. usbOut' = Append(usbOut, [op |-> "sendatr"]) /\ UNCHANGED <<proxy, card, usbIn, torn, interrupted, core1, modem, reply>>
    BY <1>1 DEF RequestAtr, modemVars
  <2>2. AtOut' = AtOut /\ \A i \in AtOut : usbOut'[i] = usbOut[i]
    BY <2>1, MainAsks DEF FromPico
  <2>3. AtIn' = AtIn
    BY <2>1, Ahead
  <2>4. FlightInv'
    BY <2>1, <2>2, <2>3 DEF FlightInv, InFlight
  <2>5. ContentInv'
    BY <2>1, <2>2, <2>3 DEF ContentInv
  <2> QED
    BY <2>1, <2>4, <2>5 DEF RepliesMatch
<1>2. CASE ReadUsbAtr
  <2>1. /\ core0 = "boot" /\ usbIn # <<>> /\ usbIn' = Tail(usbIn)
        /\ UNCHANGED <<proxy, card, torn, interrupted, modem, reply>>
    BY <1>2 DEF ReadUsbAtr, modemVars
  <2>2. core1.pc = "off"
    BY <2>1 DEF ProtocolInv
  <2>3. core1'.pc \in {"off", "waiting"}
    BY <1>2, <2>2, OffTypes DEF ReadUsbAtr
  <2>4. AtOut' = AtOut /\ \A i \in AtOut : usbOut'[i] = usbOut[i]
    <3>1. CASE usbOut' = usbOut
      BY <3>1, Ahead
    <3>2. CASE usbOut' = Append(usbOut, [op |-> "state", ready |-> FALSE])
      BY <3>2, MainAsks DEF FromPico
    <3> QED
      BY <1>2, <3>1, <3>2 DEF ReadUsbAtr
  <2>5. ASSUME ~interrupted PROVE AtOut' = {} /\ AtIn' = {} /\ proxy' = <<>> /\ ~torn' /\ ~InFlight
    <3>1. ~InFlight /\ ~torn
      BY <2>2, <2>5 DEF FlightInv
    <3>2. usbIn \in Seq(ToPico)
      BY DEF TypeInv
    <3>3. \A i \in Apdus(Tail(usbIn)) : i + 1 \in Apdus(usbIn)
      BY <2>1, <3>2, HeadAndTail
    <3>4. AtIn = {}
      BY <3>1 DEF InFlight
    <3>5. Apdus(usbIn) = {} /\ AtIn' = Apdus(Tail(usbIn))
      BY <2>1, <3>4, Ahead
    <3>6. AtIn' = {}
      BY <3>3, <3>5
    <3> QED
      BY <2>1, <2>4, <3>1, <3>6 DEF InFlight
  <2>6. FlightInv'
    BY <2>1, <2>5 DEF FlightInv, InFlight
  <2>7. ContentInv'
    BY <2>1, <2>3, <2>5 DEF ContentInv
  <2> QED
    BY <2>1, <2>6, <2>7 DEF RepliesMatch
<1>3. CASE Launch
  <2>1. /\ UNCHANGED <<proxy, card, usbOut, usbIn, modem, reply>>
        /\ torn' = (torn \/ half) /\ interrupted' = (interrupted \/ UnderWay)
    BY <1>3 DEF Launch
  <2>2. core1'.pc \in {"off", "start"}
    BY <1>3, OffTypes DEF Launch, Off
  <2>3. AtOut' = AtOut /\ AtIn' = AtIn
    BY <2>1, Ahead
  <2>4. ASSUME ~interrupted' PROVE ~interrupted /\ AtOut' = {} /\ AtIn' = {} /\ proxy' = <<>> /\ ~torn'
    <3>1. ~interrupted /\ ~UnderWay
      BY <2>1, <2>4
    <3>2. AtOut = {} /\ AtIn = {} /\ proxy = <<>> /\ ~half
      BY <3>1 DEF UnderWay, AtOut, AtIn, Apdus
    <3> QED
      BY <2>1, <2>3, <3>1, <3>2 DEF FlightInv
  <2>5. FlightInv'
    BY <2>4 DEF FlightInv, InFlight
  <2>6. ContentInv'
    BY <2>1, <2>2, <2>4 DEF ContentInv
  <2>7. RepliesMatch'
    BY <2>1, <2>4 DEF RepliesMatch
  <2> QED
    BY <2>5, <2>6, <2>7
<1>4. CASE LineDown \/ UpdateAtr
  <2>1. UNCHANGED <<proxy, card, usbOut, usbIn, torn, interrupted, core1, modem, reply>>
    BY <1>4 DEF LineDown, UpdateAtr, usbVars, modemVars
  <2>2. AtOut' = AtOut /\ AtIn' = AtIn
    BY <2>1, Ahead
  <2>3. FlightInv'
    BY <2>1, <2>2 DEF FlightInv, InFlight
  <2>4. ContentInv'
    BY <2>1, <2>2 DEF ContentInv
  <2> QED
    BY <2>1, <2>3, <2>4 DEF RepliesMatch
<1> QED
  BY <1>1, <1>2, <1>3, <1>4 DEF Core0Step

-----------------------------------------------------------------------------
(***************************************************************************)
(* Bounds                                                                  *)
(***************************************************************************)

LEMMA QueuesKept ==
  ASSUME TypeInv, BoundInv, PicoNext
  PROVE  Len(atrQueue') <= 2 /\ Len(relayConfig') <= 1 /\ resets' <= MaxResets
<1>1. atrQueue \in Seq({CardAtr}) /\ relayConfig \in Seq({CardAtr}) /\ resets \in Nat /\ MaxResets \in Nat
  BY PicoAssumption DEF TypeInv
<1>2. Len(atrQueue') <= 2
  <2>1. \/ atrQueue' = atrQueue
        \/ atrQueue # <<>> /\ atrQueue' = Tail(atrQueue)
        \/ Len(atrQueue) < 2 /\ \E p : atrQueue' = Append(atrQueue, p)
    <3>1. CASE Core0Step \/ ReadHeader \/ ReadMeta
      BY <3>1 DEF Core0Step, RequestAtr, ReadUsbAtr, Launch, LineDown, UpdateAtr, ReadHeader, ReadMeta, core0Vars
    <3>2. CASE ProxyStep \/ ModemStep
      BY <3>2 DEF ProxyStep, ProxyReads, ProxyAnswers, ModemStep, ExchangePps, T0Sends, T0Command, T1Command, T1Damaged, T1RBlock,
                  T1SBlock, T1Chain, LineGoes, core0Vars
    <3>3. CASE T0Start \/ T1Start \/ T0Answer \/ T1Answer
      BY <3>3 DEF T0Start, T1Start, SendAtr, T0Answer, T1Answer, core0Vars
    <3> QED
      BY <3>1, <3>2, <3>3 DEF PicoNext, Core1Step
  <2> QED
    BY <1>1, <2>1 DEF BoundInv
<1>3. Len(relayConfig') <= 1
  <2>1. \/ relayConfig' = relayConfig
        \/ relayConfig # <<>> /\ relayConfig' = Tail(relayConfig)
        \/ \E p : relayConfig' = <<p>>
    <3>1. CASE Core0Step \/ ReadHeader \/ ReadMeta
      BY <3>1 DEF Core0Step, RequestAtr, ReadUsbAtr, Launch, LineDown, UpdateAtr, ReadHeader, ReadMeta, core0Vars
    <3>2. CASE ProxyStep \/ ModemStep
      BY <3>2 DEF ProxyStep, ProxyReads, ProxyAnswers, ModemStep, ExchangePps, T0Sends, T0Command, T1Command, T1Damaged, T1RBlock,
                  T1SBlock, T1Chain, LineGoes, core0Vars
    <3>3. CASE T0Start \/ T1Start \/ T0Answer \/ T1Answer
      BY <3>3 DEF T0Start, T1Start, SendAtr, T0Answer, T1Answer, core0Vars
    <3> QED
      BY <3>1, <3>2, <3>3 DEF PicoNext, Core1Step
  <2>2. Len(relayConfig) <= 1 /\ Len(relayConfig) \in Nat
    BY <1>1 DEF BoundInv
  <2>3. CASE relayConfig' = relayConfig
    BY <2>2, <2>3
  <2>4. CASE relayConfig # <<>> /\ relayConfig' = Tail(relayConfig)
    <3>1. Len(Tail(relayConfig)) = Len(relayConfig) - 1
      BY <1>1, <2>4
    <3> QED
      BY <2>2, <2>4, <3>1
  <2>5. ASSUME NEW p, relayConfig' = <<p>> PROVE Len(relayConfig') <= 1
    <3>1. Len(<<p>>) = 1
      OBVIOUS
    <3> QED
      BY <2>5, <3>1
  <2> QED
    BY <2>1, <2>3, <2>4, <2>5
<1>4. resets' <= MaxResets
  <2>1. resets' = resets \/ (resets < MaxResets /\ resets' = resets + 1)
    <3>1. CASE Core0Step \/ ReadHeader \/ ReadMeta
      BY <3>1 DEF Core0Step, RequestAtr, ReadUsbAtr, Launch, LineDown, UpdateAtr, ReadHeader, ReadMeta, modemVars
    <3>2. CASE ProxyStep \/ ModemStep
      BY <3>2 DEF ProxyStep, ProxyReads, ProxyAnswers, ModemStep, ExchangePps, T0Sends, T0Command, T1Command, T1Damaged, T1RBlock,
                  T1SBlock, T1Chain, LineGoes, modemVars
    <3>3. CASE T0Start \/ T1Start \/ T0Answer \/ T1Answer
      BY <3>3 DEF T0Start, T1Start, SendAtr, T0Answer, T1Answer
    <3> QED
      BY <3>1, <3>2, <3>3 DEF PicoNext, Core1Step
  <2> QED
    BY <1>1, <2>1 DEF BoundInv
<1> QED
  BY <1>2, <1>3, <1>4

LEMMA BoundKept ==
  ASSUME TypeInv, ProtocolInv, BoundInv, PicoNext
  PROVE  BoundInv'
<1>1. modem.n \in Nat /\ MaxCmds \in Nat
  BY ModemTypes, PicoAssumption DEF TypeInv
<1>2. core1.cache.len <= 255 /\ modem.n <= MaxCmds
  BY DEF BoundInv
<1>3. Off.cache.len <= 255
  BY OffTypes
<1> SUFFICES core1'.cache.len <= 255 /\ modem'.n <= MaxCmds
  BY QueuesKept DEF BoundInv
<1>4. CASE T0Start \/ T1Start \/ ExchangePps
  BY <1>2, <1>4, StartDoes, PpsDoes DEF T0Start, T1Start, Core, Modem
<1>5. CASE T1Block
  BY <1>2, <1>5, T1BlockDoes DEF T1Block, Core, Modem
<1>6. ASSUME NEW r \in {"ok", "error", "ifsd", "abort", "resync", "other"}, T1Chain(r)
      PROVE  core1'.cache.len <= 255 /\ modem'.n <= MaxCmds
  BY <1>2, <1>6, T1ChainDoes DEF Core, Modem
<1>7. CASE T1Command
  <2>1. modem.n < MaxCmds
    BY <1>7 DEF T1Command
  <2>2. core1'.cache = core1.cache /\ modem'.n = modem.n + 1
    BY <1>7, T1CommandDoes DEF Core, Modem
  <2> QED
    BY <1>1, <1>2, <2>1, <2>2
<1>8. ASSUME NEW ins \in {"other", "getresponse"}, NEW le \in Nat, T0Command(ins, le)
      PROVE  core1'.cache.len <= 255 /\ modem'.n <= MaxCmds
  <2>1. modem.n < MaxCmds
    BY <1>8 DEF T0Command
  <2>2. core1'.cache \in {core1.cache, Off.cache} /\ modem'.n = modem.n + 1
    BY <1>8, T0CommandDoes DEF Core, Modem
  <2> QED
    BY <1>1, <1>2, <1>3, <2>1, <2>2
<1>9. CASE T0Answer
  <2> DEFINE msg == Head(usbIn)
  <2>1. msg.len \in Nat
    BY <1>9, AnswerArrives DEF T0Answer
  <2>2. msg.len % 256 <= 255
    BY <2>1
  <2>3. modem'.n = modem.n
    BY <1>9, T0AnswerDoes DEF Modem
  <2>4. core1'.cache = core1.cache \/ core1'.cache = [ref |-> msg.ref, len |-> msg.len % 256]
    BY <1>9, T0AnswerDoes DEF Core
  <2> HIDE DEF msg
  <2> QED
    BY <1>2, <2>2, <2>3, <2>4
<1>10. CASE T1Answer
  BY <1>2, <1>10, T1AnswerDoes DEF Core, Modem
<1>11. ASSUME NEW up \in BOOLEAN, LineGoes(up) PROVE core1'.cache.len <= 255 /\ modem'.n <= MaxCmds
  BY <1>2, <1>11, LineDoes DEF Modem
<1>12. CASE ReadHeader \/ ReadMeta
  <2>1. modem' = modem /\ core1' \in {core1, [core1 EXCEPT !.pc = "garbled"]}
    BY <1>12 DEF ReadHeader, ReadMeta, modemVars
  <2> QED
    BY <1>2, <2>1, Garbled DEF Core
<1>13. CASE ProxyStep
  BY <1>2, <1>13 DEF ProxyStep, ProxyReads, ProxyAnswers, modemVars
<1>14. CASE Core0Step
  <2>1. modem' = modem
    BY <1>14 DEF Core0Step, RequestAtr, ReadUsbAtr, Launch, LineDown, UpdateAtr, modemVars
  <2>2. core1' \in {core1, Off, [Off EXCEPT !.pc = "waiting"], [Off EXCEPT !.pc = "start"]}
    BY <1>14 DEF Core0Step, RequestAtr, ReadUsbAtr, Launch, LineDown, UpdateAtr
  <2>3. core1'.cache.len <= 255
    BY <1>2, <2>2 DEF Off
  <2> QED
    BY <1>2, <2>1, <2>3
<1> QED
  BY <1>4, <1>5, <1>6, <1>7, <1>8, <1>9, <1>10, <1>11, <1>12, <1>13, <1>14, Steps, Zenon

-----------------------------------------------------------------------------
(***************************************************************************)
(* The theorems                                                            *)
(***************************************************************************)

LEMMA NextIInv == IInv /\ [PicoNext]_picoVars => IInv'
<1> SUFFICES ASSUME IInv, [PicoNext]_picoVars PROVE IInv'
  OBVIOUS
<1>1. CASE PicoNext
  <2>1. TypeInv' /\ ProtocolInv' /\ CounterInv' /\ SequenceHolds'
    BY <1>1, TypeKept, ProtocolKept, CounterKept DEF IInv
  <2>3. BoundInv'
    BY <1>1, BoundKept DEF IInv
  <2>2. FlightInv' /\ ContentInv' /\ RepliesMatch'
    <3>1. TypeInv /\ ProtocolInv /\ FlightInv /\ ContentInv /\ RepliesMatch
      BY DEF IInv
    <3>2. ASSUME NEW up \in BOOLEAN, LineGoes(up) PROVE FlightInv' /\ ContentInv' /\ RepliesMatch'
      BY <3>1, <3>2, LineKeeps
    <3>3. CASE Core0Step \/ ProxyStep \/ ReadHeader \/ ReadMeta
      BY <3>1, <3>3, Core0Keeps, ProxyKeeps, ReadsKeep
    <3>4. CASE T0Answer \/ T1Answer
      BY <3>1, <3>4, AnswerKeeps
    <3>5. CASE T1Command \/ \E ins \in {"other", "getresponse"}, le \in Nat : T0Command(ins, le)
      BY <3>1, <3>5, CommandKeeps, Zenon
    <3>6. CASE \/ T0Start \/ T1Start \/ ExchangePps \/ T1Block
               \/ \E r \in {"ok", "error", "ifsd", "abort", "resync", "other"} : T1Chain(r)
      BY <3>1, <3>6, IdleSteps, Zenon
    <3> QED
      BY <1>1, <3>1, <3>2, <3>3, <3>4, <3>5, <3>6, Steps, Zenon
  <2> QED
    BY <2>1, <2>2, <2>3 DEF IInv
<1>2. CASE UNCHANGED picoVars
  <2>1. UNCHANGED <<cardAtr, proxy, card, usbOut, usbIn, half, torn, core0, atr, atrQueue, relayConfig, core1, line, resets,
                    modem, reply, interrupted>>
    BY <1>2 DEF picoVars
  <2>2. CardAtr' = CardAtr /\ ToPico' = ToPico /\ AtOut' = AtOut /\ AtIn' = AtIn
    BY <2>1, Ahead DEF CardAtr, ToPico
  <2>3. TypeInv'
    BY <2>1, <2>2 DEF IInv, TypeInv
  <2>4. ProtocolInv' /\ CounterInv' /\ SequenceHolds'
    BY <2>1, <2>2 DEF IInv, ProtocolInv, CounterInv, SequenceHolds
  <2>5. FlightInv'
    BY <2>1, <2>2 DEF IInv, FlightInv, InFlight
  <2>6. ContentInv'
    BY <2>1, <2>2 DEF IInv, ContentInv
  <2>7. RepliesMatch'
    BY <2>1 DEF IInv, RepliesMatch
  <2>8. BoundInv'
    BY <2>1 DEF IInv, BoundInv
  <2> QED
    BY <2>3, <2>4, <2>5, <2>6, <2>7, <2>8 DEF IInv
<1> QED
  BY <1>1, <1>2

LEMMA SpecIInv == PicoSpec => []IInv
<1>1. PicoInit => IInv
  BY InitIInv
<1>2. IInv /\ [PicoNext]_picoVars => IInv'
  BY NextIInv
<1> QED
  BY <1>1, <1>2, PTL DEF PicoSpec

\* The variables of the Pico, the proxy and the modem have their types; main's queues
\* hold no more than their two entries, and a cached length fits its eight bits.
THEOREM PicoTypes == PicoSpec => []PicoTypeOK
<1>1. IInv => PicoTypeOK
  <2> SUFFICES ASSUME IInv PROVE PicoTypeOK
    OBVIOUS
  <2>1. \A i \in DOMAIN usbIn : usbIn[i].op \in {"apdu", "atr", "state", "config"}
    BY MessageTypes DEF IInv, TypeInv
  <2>2. \A i \in DOMAIN usbOut : usbOut[i].op \in {"apdu", "sendatr", "state"}
    BY MessageTypes DEF IInv, TypeInv
  <2>3. /\ core1.pc \in {"off", "waiting", "start", "pps", "t0", "t0usb", "t1", "t1usb", "chain", "garbled"}
        /\ core1.seq \in 0..1 /\ core1.cnt \in 0..1 /\ core1.bit \in 0..1 /\ core1.cache.len \in Nat
    <3>1. core1 \in Core1s
      BY DEF IInv, TypeInv
    <3>2. core1.pc \in Places /\ core1.cache \in Responses /\ core1.seq \in 0..1 /\ core1.cnt \in 0..1 /\ core1.bit \in 0..1
      BY <3>1, CoreTypes
    <3>3. core1.cache.len \in Nat
      BY <3>2 DEF Responses
    <3> QED
      BY <3>2, <3>3 DEF Places
  <2>4. modem.n \in Nat /\ resets \in Nat /\ MaxCmds \in Nat /\ MaxResets \in Nat
    BY ModemTypes, PicoAssumption DEF IInv, TypeInv
  <2>5. core1.cache.len \in 0..255 /\ resets \in 0..MaxResets /\ modem.n \in 0..MaxCmds
    <3>1. core1.cache.len <= 255 /\ resets <= MaxResets /\ modem.n <= MaxCmds
      BY DEF IInv, BoundInv
    <3>2. core1.cache.len \in 0..255
      BY <2>3, <3>1
    <3> QED
      BY <2>4, <3>1, <3>2
  <2>6. Len(atrQueue) <= 2 /\ Len(relayConfig) <= 2
    <3>1. Len(relayConfig) \in Nat
      BY DEF IInv, TypeInv
    <3> QED
      BY <3>1 DEF IInv, BoundInv
  <2>7. {half, torn, line, interrupted} \subseteq BOOLEAN /\ core0 \in {"ask", "boot", "loop", "high"}
    BY DEF IInv, TypeInv
  <2> QED
    BY <2>1, <2>2, <2>3, <2>5, <2>6, <2>7 DEF PicoTypeOK
<1> QED
  BY <1>1, SpecIInv, PTL

\* Unless a reset cuts a command short, the modem gets the response to its own
\* command or the one it was told to fetch, and all of it if its length fits the eight
\* bits of prot_t0's len_response_cache: the proxy, the cache and both cores never mix
\* up two responses, for any responses of the card and any number of resets.
THEOREM RepliesAreTheirCommands == PicoSpec => []RepliesMatch
<1>1. IInv => RepliesMatch
  BY DEF IInv
<1> QED
  BY <1>1, SpecIInv, PTL

\* The counter of prot_t1 stays in step with the reader's, and each block of a chain has
\* the number the reader expects, over any commands, chains and resets, for a reader that
\* shifts the numbering once before its first command and not after, or resynchronises,
\* and expects a 0 of the first block of a chain.
THEOREM CountersAgree == PicoSpec => []SequenceHolds
<1>1. IInv => SequenceHolds
  BY DEF IInv
<1> QED
  BY <1>1, SpecIInv, PTL

-----------------------------------------------------------------------------
(***************************************************************************)
(* Answers to reset: the groups of interface bytes, and the loop over them *)
(***************************************************************************)

\* A set of numbers that is not empty has a least element.
LEMMA LeastOf ==
  ASSUME NEW U, U \subseteq Nat, U # {}
  PROVE  \E i \in U : \A k \in U : i <= k
<1>1. PICK i \in U : \A k \in U : ~ (<<k, i>> \in OpToRel(<, Nat))
  BY NatLessThanWellFounded, WFMin
<1>2. ASSUME NEW k \in U PROVE i <= k
  <2>1. <<k, i>> \in Nat \X Nat
    OBVIOUS
  <2>2. ~(k < i)
    BY <1>1, <2>1 DEF OpToRel
  <2> QED
    BY <2>2
<1> QED
  BY <1>2

\* What holds of a number and goes on to the next one holds of all from there on.
LEMMA Forever ==
  ASSUME NEW S, NEW w, NEW m \in Nat, w[m] \in S,
         \A n \in Nat : m <= n /\ w[n] \in S => w[n + 1] \in S
  PROVE  \A n \in Nat : m <= n => w[n] \in S
<1> DEFINE U == {n \in Nat : m <= n /\ w[n] \notin S}
<1>1. SUFFICES ASSUME U # {} PROVE FALSE
  OBVIOUS
<1>2. PICK i \in U : \A k \in U : i <= k
  <2>1. U \subseteq Nat
    OBVIOUS
  <2> HIDE DEF U
  <2> QED
    BY <1>1, <2>1, LeastOf
<1>3. i # m /\ i \in Nat /\ m <= i
  OBVIOUS
<1>4. i - 1 \in Nat /\ m <= i - 1 /\ i - 1 + 1 = i
  BY <1>3
<1>5. w[i - 1] \in S
  BY <1>2, <1>4
<1>6. w[i] \in S
  BY <1>4, <1>5
<1> QED
  BY <1>2, <1>6

\* The first n + 1 values of a function on Nat given by a start a and a step.
Stage(w, n, S, a, step) ==
    /\ w \in [0..n -> S] /\ w[0] = a
    /\ \A k \in Nat : k + 1 <= n => w[k + 1] = step[w[k]]

\* Two such beginnings agree as far as both go.
LEMMA StagesAgree ==
  ASSUME NEW S, NEW a, NEW step, NEW m \in Nat, NEW n \in Nat, NEW v, NEW w,
         Stage(v, m, S, a, step), Stage(w, n, S, a, step)
  PROVE  \A k \in Nat : k <= m /\ k <= n => v[k] = w[k]
<1> DEFINE U == {k \in Nat : k <= m /\ k <= n /\ v[k] # w[k]}
<1>1. SUFFICES ASSUME U # {} PROVE FALSE
  OBVIOUS
<1>2. PICK i \in U : \A k \in U : i <= k
  <2>1. U \subseteq Nat
    OBVIOUS
  <2> HIDE DEF U
  <2> QED
    BY <1>1, <2>1, LeastOf
<1>3. i \in Nat /\ i <= m /\ i <= n /\ v[i] # w[i] /\ i # 0
  BY DEF Stage
<1>4. PICK j \in Nat : i = j + 1
  BY <1>3
<1>5. v[j] = w[j]
  BY <1>2, <1>3, <1>4
<1>6. v[i] = step[v[j]] /\ w[i] = step[w[j]]
  BY <1>3, <1>4 DEF Stage
<1> QED
  BY <1>3, <1>5, <1>6

\* Each can be made one value longer.
LEMMA StageExtends ==
  ASSUME NEW S, NEW a, NEW step \in [S -> S], NEW n \in Nat, NEW v, Stage(v, n, S, a, step)
  PROVE  \E w : Stage(w, n + 1, S, a, step)
<1> DEFINE w == [k \in 0..(n + 1) |-> IF k = n + 1 THEN step[v[n]] ELSE v[k]]
<1>1. v \in [0..n -> S] /\ v[0] = a /\ \A k \in Nat : k + 1 <= n => v[k + 1] = step[v[k]]
  BY DEF Stage
<1>2. v[n] \in S /\ step[v[n]] \in S
  BY <1>1
<1>3. w \in [0..(n + 1) -> S]
  BY <1>1, <1>2
<1>4. w[0] = a
  BY <1>1
<1>5. ASSUME NEW k \in Nat, k + 1 <= n + 1 PROVE w[k + 1] = step[w[k]]
  BY <1>1, <1>5
<1> HIDE DEF w
<1> QED
  BY <1>3, <1>4, <1>5 DEF Stage

\* There is one of every length.
LEMMA StagesExist ==
  ASSUME NEW S, NEW a \in S, NEW step \in [S -> S]
  PROVE  \A n \in Nat : \E w : Stage(w, n, S, a, step)
<1> DEFINE U == {n \in Nat : ~ \E w : Stage(w, n, S, a, step)}
<1>1. SUFFICES ASSUME U # {} PROVE FALSE
  OBVIOUS
<1>2. PICK i \in U : \A k \in U : i <= k
  <2>1. U \subseteq Nat
    OBVIOUS
  <2> HIDE DEF U
  <2> QED
    BY <1>1, <2>1, LeastOf
<1>3. Stage([k \in 0..0 |-> a], 0, S, a, step)
  BY DEF Stage
<1>4. i # 0
  BY <1>3
<1>5. PICK j \in Nat : i = j + 1
  BY <1>4
<1>6. PICK v : Stage(v, j, S, a, step)
  BY <1>2, <1>5
<1>7. \E w : Stage(w, j + 1, S, a, step)
  BY <1>6, StageExtends
<1> QED
  BY <1>5, <1>7

\* A start and a step define a function on Nat: what the local functions of
\* Starts and parse_ATR need to be what their equations say.
LEMMA Recursion ==
  ASSUME NEW S, NEW a \in S, NEW step \in [S -> S]
  PROVE  \E w \in [Nat -> S] : w[0] = a /\ \A n \in Nat : w[n + 1] = step[w[n]]
<1> DEFINE St(n) == CHOOSE v : Stage(v, n, S, a, step)
<1> DEFINE w == [n \in Nat |-> St(n)[n]]
<1>1. \A n \in Nat : Stage(St(n), n, S, a, step)
  BY StagesExist
<1> HIDE DEF St
<1>2. w \in [Nat -> S]
  <2>1. ASSUME NEW n \in Nat PROVE St(n)[n] \in S
    <3>1. St(n) \in [0..n -> S] /\ n \in 0..n
      BY <1>1 DEF Stage
    <3> QED
      BY <3>1
  <2> QED
    BY <2>1
<1>3. w[0] = a
  BY <1>1 DEF Stage
<1>4. ASSUME NEW n \in Nat PROVE w[n + 1] = step[w[n]]
  <2>1. Stage(St(n), n, S, a, step) /\ Stage(St(n + 1), n + 1, S, a, step) /\ n + 1 \in Nat
    BY <1>1
  <2>2. St(n)[n] = St(n + 1)[n]
    BY <2>1, StagesAgree
  <2>3. St(n + 1)[n + 1] = step[St(n + 1)[n]]
    BY <2>1 DEF Stage
  <2> QED
    BY <2>1, <2>2, <2>3
<1> HIDE DEF w
<1> QED
  BY <1>2, <1>3, <1>4

\* The bits of a byte that announce others, and its protocol.
LEMMA Bits ==
  ASSUME NEW b \in 0..255
  PROVE  /\ Bit(b, 4) \in 0..1 /\ Bit(b, 5) \in 0..1 /\ Bit(b, 6) \in 0..1 /\ Bit(b, 7) \in 0..1
         /\ Announced(b) = Bit(b, 4) + Bit(b, 5) + Bit(b, 6) + Bit(b, 7)
         /\ T(b) \in 0..15
         /\ b < 16 => Bit(b, 4) = 0 /\ Bit(b, 5) = 0 /\ Bit(b, 6) = 0 /\ Bit(b, 7) = 0
<1>1. /\ Bit(b, 4) = (b \div 16) % 2 /\ Bit(b, 5) = (b \div 32) % 2
      /\ Bit(b, 6) = (b \div 64) % 2 /\ Bit(b, 7) = (b \div 128) % 2
  <2>1. 2^4 = 16 /\ 2^5 = 32 /\ 2^6 = 64 /\ 2^7 = 128
    OBVIOUS
  <2> QED
    BY <2>1 DEF Bit
<1>2. \A n \in Nat : n % 2 \in 0..1
  OBVIOUS
<1>3. b \div 16 \in Nat /\ b \div 32 \in Nat /\ b \div 64 \in Nat /\ b \div 128 \in Nat
  <2>1. \A n \in Nat : n \div 16 \in Nat /\ n \div 32 \in Nat /\ n \div 64 \in Nat /\ n \div 128 \in Nat
    OBVIOUS
  <2> QED
    BY <2>1
<1>4. /\ Bit(b, 4) \in 0..1 /\ Bit(b, 5) \in 0..1 /\ Bit(b, 6) \in 0..1 /\ Bit(b, 7) \in 0..1
  BY <1>1, <1>2, <1>3
<1>5. ASSUME b < 16 PROVE Bit(b, 4) = 0 /\ Bit(b, 5) = 0 /\ Bit(b, 6) = 0 /\ Bit(b, 7) = 0
  <2>1. b \div 16 = 0 /\ b \div 32 = 0 /\ b \div 64 = 0 /\ b \div 128 = 0
    BY <1>5
  <2> QED
    BY <1>1, <2>1
<1>6. T(b) \in 0..15
  BY DEF T
<1> QED
  BY <1>4, <1>5, <1>6 DEF Announced

\* Bytes, and an ATR as parse_ATR takes it: with TS and T0.
Bytes == 0..255
IsAtr(p) == p \in Seq(Bytes) /\ Len(p) >= 2

\* A C index below the length is one of a byte of the ATR.
LEMMA Inside ==
  ASSUME NEW p, IsAtr(p), NEW i \in Nat, i < Len(p)
  PROVE  At(p, i) \in Bytes
<1>1. p \in Seq(Bytes) /\ Len(p) \in Nat
  BY LenProperties DEF IsAtr
<1>2. i + 1 \in 1..Len(p)
  BY <1>1
<1>3. p[i + 1] \in Bytes
  BY <1>1, <1>2, ElementOfSeq, Zenon
<1> QED
  BY <1>3 DEF At

\* Where the group after the one that starts at a starts.
NextIndex(a) == a[2] + Announced(a[1])

\* The next value of Starts.
After(p, a) == IF Bit(a[1], 7) = 1 /\ NextIndex(a) <= Len(p)
               THEN <<At(p, NextIndex(a) - 1), NextIndex(a)>> ELSE <<0, NextIndex(a)>>

\* The values of Starts.
Position == Bytes \X Nat

\* Positions go up where a TD leads on.
LEMMA NextIndexIs ==
  ASSUME NEW a \in Position
  PROVE  /\ a[1] \in Bytes /\ a[2] \in Nat /\ a = <<a[1], a[2]>>
         /\ NextIndex(a) \in Nat /\ NextIndex(a) >= a[2] /\ (Bit(a[1], 7) = 1 => NextIndex(a) > a[2])
<1>1. PICK b \in Bytes, i \in Nat : a = <<b, i>>
  BY DEF Position
<1>2. PICK k \in Nat : k = Announced(b) /\ (Bit(b, 7) = 1 => k >= 1)
  <2>1. b \in 0..255
    BY DEF Bytes
  <2>2. /\ Bit(b, 4) \in 0..1 /\ Bit(b, 5) \in 0..1 /\ Bit(b, 6) \in 0..1 /\ Bit(b, 7) \in 0..1
        /\ Announced(b) = Bit(b, 4) + Bit(b, 5) + Bit(b, 6) + Bit(b, 7)
    BY <2>1, Bits
  <2>3. Announced(b) \in Nat /\ (Bit(b, 7) = 1 => Announced(b) >= 1)
    BY <2>2
  <2> QED
    BY <2>3
<1>3. NextIndex(a) = i + k
  BY <1>1, <1>2 DEF NextIndex
<1> QED
  BY <1>1, <1>2, <1>3

\* Starts stays among the positions.
LEMMA AfterType ==
  ASSUME NEW p, IsAtr(p), NEW a \in Position
  PROVE  After(p, a) \in Position /\ After(p, a)[2] = NextIndex(a)
<1>1. PICK n \in Nat : n = NextIndex(a) /\ (Bit(a[1], 7) = 1 => n >= 1)
  BY NextIndexIs
<1>2. ASSUME Bit(a[1], 7) = 1, n <= Len(p) PROVE At(p, n - 1) \in Bytes
  <2>1. PICK i \in Nat : n = i + 1
    BY <1>1, <1>2
  <2> QED
    <3>1. n - 1 = i /\ i < Len(p)
      <4>1. Len(p) \in Nat
        BY LenProperties DEF IsAtr
      <4> QED
        BY <1>2, <2>1, <4>1
    <3> QED
      BY <3>1, Inside
<1>3. <<0, n>> \in Position
  BY DEF Position, Bytes
<1>4. Bit(a[1], 7) = 1 /\ n <= Len(p) => <<At(p, n - 1), n>> \in Position
  BY <1>2 DEF Position
<1> QED
  BY <1>1, <1>3, <1>4 DEF After

\* What Starts is to be: the first group and, from each, the next.
StartsAre(p, s) ==
    /\ s \in [Nat -> Position] /\ s[1] = <<At(p, 1), 2>>
    /\ \A n \in Nat : 1 <= n => s[n + 1] = After(p, s[n])

\* Starts is that, for any ATR.
LEMMA StartsHold ==
  ASSUME NEW p, IsAtr(p)
  PROVE  StartsAre(p, Starts(p))
<1> DEFINE first == <<At(p, 1), 2>>
<1> DEFINE f == CHOOSE start : start = [n \in Nat |-> IF n <= 1 THEN first ELSE After(p, start[n - 1])]
<1>1. Starts(p) = f
  BY DEF Starts, After, NextIndex
<1>2. first \in Position
  <2>1. At(p, 1) \in Bytes
    <3>1. Len(p) \in Nat /\ Len(p) >= 2
      BY LenProperties DEF IsAtr
    <3> QED
      BY <3>1, Inside
  <2> QED
    BY <2>1 DEF Position
<1> HIDE DEF first
<1>3. PICK w \in [Nat -> Position] : w[0] = first /\ \A n \in Nat : w[n + 1] = After(p, w[n])
  <2> DEFINE step == [a \in Position |-> After(p, a)]
  <2>1. \A a \in Position : step[a] = After(p, a)
    OBVIOUS
  <2>0. step \in [Position -> Position]
    BY AfterType
  <2> HIDE DEF step
  <2>2. PICK x \in Position, s \in [Position -> Position] : x = first /\ s = step
    BY <1>2, <2>0
  <2>3. PICK w \in [Nat -> Position] : w[0] = x /\ \A n \in Nat : w[n + 1] = s[w[n]]
    BY Recursion
  <2> QED
    BY <2>1, <2>2, <2>3
<1> DEFINE g == [n \in Nat |-> IF n <= 1 THEN first ELSE w[n - 1]]
<1>4. ASSUME NEW n \in Nat, ~(n <= 1) PROVE w[n - 1] = After(p, g[n - 1])
  <2>1. PICK k \in Nat : n - 1 = k + 1
    BY <1>4
  <2>2. w[k + 1] = After(p, w[k])
    BY <1>3
  <2>3. g[k + 1] = w[k]
    BY <1>3
  <2> HIDE DEF g
  <2> QED
    BY <2>1, <2>2, <2>3
<1>5. g = [n \in Nat |-> IF n <= 1 THEN first ELSE After(p, g[n - 1])]
  BY <1>4
<1>6. f = [n \in Nat |-> IF n <= 1 THEN first ELSE After(p, f[n - 1])]
  <2> HIDE DEF g
  <2> QED
    BY <1>5
<1> HIDE DEF f
<1>7. f[1] = first
  BY <1>6
<1>8. ASSUME NEW n \in Nat, 1 <= n PROVE f[n + 1] = After(p, f[n])
  BY <1>6, <1>8
<1>9. \A n \in Nat : 1 <= n => f[n] \in Position
  <2>1. \A n \in Nat : 1 <= n /\ f[n] \in Position => f[n + 1] \in Position
    BY <1>8, AfterType
  <2> QED
    BY <1>2, <1>7, <2>1, Forever
<1>10. f \in [Nat -> Position]
  <2>1. f[0] = first
    BY <1>6
  <2>2. \A n \in Nat : f[n] \in Position
    BY <1>2, <1>9, <2>1
  <2> QED
    BY <1>6, <2>2
<1> QED
  BY <1>1, <1>7, <1>8, <1>10 DEF StartsAre, first

\* The bytes a byte announces are counted by its four bits.
LEMMA Announces ==
  \A b \in Bytes : /\ Announced(b) \in Nat
                  /\ Bit(b, 4) \in {0, 1} /\ Bit(b, 5) \in {0, 1} /\ Bit(b, 6) \in {0, 1} /\ Bit(b, 7) \in {0, 1}
                  /\ Announced(b) = Bit(b, 4) + Bit(b, 5) + Bit(b, 6) + Bit(b, 7)
<1> SUFFICES ASSUME NEW b \in 0..255
             PROVE  /\ Announced(b) \in Nat
                    /\ Bit(b, 4) \in {0, 1} /\ Bit(b, 5) \in {0, 1} /\ Bit(b, 6) \in {0, 1} /\ Bit(b, 7) \in {0, 1}
                    /\ Announced(b) = Bit(b, 4) + Bit(b, 5) + Bit(b, 6) + Bit(b, 7)
  BY DEF Bytes
<1>1. /\ Bit(b, 4) \in 0..1 /\ Bit(b, 5) \in 0..1 /\ Bit(b, 6) \in 0..1 /\ Bit(b, 7) \in 0..1
      /\ Announced(b) = Bit(b, 4) + Bit(b, 5) + Bit(b, 6) + Bit(b, 7)
  BY Bits
<1> QED
  BY <1>1

\* The bit of a position that announces TD.
LEMMA BitType == \A a \in Position : Bit(a[1], 7) \in {0, 1}
<1> SUFFICES ASSUME NEW a \in Position PROVE Bit(a[1], 7) \in {0, 1}
  OBVIOUS
<1>1. a[1] \in 0..255
  BY NextIndexIs DEF Bytes
<1>2. Bit(a[1], 7) \in 0..1
  BY <1>1, Bits
<1> QED
  BY <1>2

\* Zero, which stands for no TD, announces none.
LEMMA NoTd == Bit(0, 7) = 0
<1>1. 0 \in 0..255 /\ 0 < 16
  OBVIOUS
<1> QED
  BY <1>1, Bits

\* Group m is the first one without TD.
IsLast(s, m) == 1 <= m /\ Bit(s[m][1], 7) = 0 /\ \A k \in Nat : 1 <= k /\ k < m => Bit(s[k][1], 7) = 1

\* There is one: each TD takes a byte, and the ATR ends.
LEMMA SomeIsLast ==
  ASSUME NEW p, IsAtr(p), NEW s, StartsAre(p, s)
  PROVE  \E n \in Nat : n <= Len(p) /\ IsLast(s, n)
<1>0. PICK len \in Nat : len = Len(p) /\ len >= 2
  BY LenProperties DEF IsAtr
<1>1. s \in [Nat -> Position] /\ \A n \in Nat : s[n] \in Position
  BY DEF StartsAre
<1>2. s[1][2] = 2 /\ \A n \in Nat : 1 <= n => s[n + 1] = After(p, s[n])
  BY DEF StartsAre
<1> DEFINE V == {n \in Nat : 1 <= n /\ n <= len /\ Bit(s[n][1], 7) = 0}
<1>3. V # {}
  <2> SUFFICES ASSUME V = {} PROVE FALSE
    OBVIOUS
  <2>1. \A n \in Nat : 1 <= n /\ n <= len => Bit(s[n][1], 7) = 1
    BY <1>1, BitType
  <2> DEFINE U == {n \in Nat : 1 <= n /\ n <= len /\ ~(s[n][2] >= n + 1)}
  <2>2. U = {}
    <3> SUFFICES ASSUME U # {} PROVE FALSE
      OBVIOUS
    <3>1. PICK i \in U : \A k \in U : i <= k
      <4>1. U \subseteq Nat
        OBVIOUS
      <4> HIDE DEF U
      <4> QED
        BY <4>1, LeastOf
    <3>2. i \in Nat /\ i <= len /\ ~(s[i][2] >= i + 1) /\ i # 1 /\ 1 <= i
      BY <1>2
    <3>3. PICK j \in Nat : i = j + 1 /\ 1 <= j
      BY <3>2
    <3>4. PICK x \in Nat : x = s[j][2] /\ x >= j + 1
      <4>1. j \notin U /\ j <= len
        BY <3>1, <3>2, <3>3
      <4>2. s[j][2] \in Nat
        BY <1>1, NextIndexIs
      <4> QED
        BY <3>3, <4>1, <4>2
    <3>5. s[i][2] = NextIndex(s[j])
      BY <1>1, <1>2, <3>3, AfterType
    <3>6. NextIndex(s[j]) > x /\ NextIndex(s[j]) \in Nat
      <4>1. Bit(s[j][1], 7) = 1
        BY <2>1, <3>2, <3>3
      <4> QED
        BY <1>1, <3>4, <4>1, NextIndexIs
    <3> HIDE DEF U
    <3> QED
      BY <3>2, <3>3, <3>4, <3>5, <3>6
  <2>3. PICK j \in Nat : len = j + 1 /\ 1 <= j
    BY <1>0
  <2>4. s[len] = After(p, s[j]) /\ s[len][2] = NextIndex(s[j])
    BY <1>1, <1>2, <2>3, AfterType
  <2>5. s[len][2] >= len + 1
    BY <1>0, <2>2
  <2>6. NextIndex(s[j]) \in Nat /\ ~(NextIndex(s[j]) <= len)
    <3>1. NextIndex(s[j]) \in Nat
      BY <1>1, NextIndexIs
    <3> QED
      BY <2>4, <2>5, <3>1
  <2>7. s[len] = <<0, NextIndex(s[j])>>
    BY <1>0, <2>4, <2>6 DEF After
  <2>8. Bit(s[len][1], 7) = 1
    BY <1>0, <2>1
  <2> QED
    BY <2>7, <2>8, NoTd
<1>4. PICK n \in V : \A k \in V : n <= k
  <2>1. V \subseteq Nat
    OBVIOUS
  <2> HIDE DEF V
  <2> QED
    BY <1>3, <2>1, LeastOf
<1>5. n \in Nat /\ 1 <= n /\ n <= len /\ Bit(s[n][1], 7) = 0
  OBVIOUS
<1>6. ASSUME NEW k \in Nat, 1 <= k, k < n PROVE Bit(s[k][1], 7) = 1
  <2>1. k \notin V /\ k <= len
    BY <1>4, <1>5, <1>6
  <2> QED
    BY <1>1, <1>6, <2>1, BitType
<1> QED
  BY <1>0, <1>5, <1>6 DEF IsLast

\* Groups are those up to the last one.
LEMMA GroupsHold ==
  ASSUME NEW p, IsAtr(p)
  PROVE  \E m \in Nat : m <= Len(p) /\ IsLast(Starts(p), m) /\ Groups(p) = [n \in 1..m |-> Starts(p)[n]]
<1> DEFINE s == Starts(p)
<1>1. StartsAre(p, s)
  BY StartsHold
<1> HIDE DEF s
<1>0. PICK len \in Nat : len = Len(p)
  BY LenProperties DEF IsAtr
<1> DEFINE m == CHOOSE n \in 1..Len(p) : Bit(s[n][1], 7) = 0 /\ \A k \in 1..(n - 1) : Bit(s[k][1], 7) = 1
<1>2. Groups(p) = [n \in 1..m |-> s[n]]
  BY DEF Groups, s
<1>3. PICK n \in Nat : n <= len /\ IsLast(s, n)
  BY <1>0, <1>1, SomeIsLast
<1>4. n \in 1..Len(p) /\ Bit(s[n][1], 7) = 0 /\ \A k \in 1..(n - 1) : Bit(s[k][1], 7) = 1
  <2>1. 1 <= n /\ Bit(s[n][1], 7) = 0 /\ \A k \in Nat : 1 <= k /\ k < n => Bit(s[k][1], 7) = 1
    BY <1>3 DEF IsLast
  <2>2. \A k \in 1..(n - 1) : k \in Nat /\ 1 <= k /\ k < n
    OBVIOUS
  <2> QED
    BY <1>0, <1>3, <2>1, <2>2
<1>5. m \in 1..Len(p) /\ Bit(s[m][1], 7) = 0 /\ \A k \in 1..(m - 1) : Bit(s[k][1], 7) = 1
  BY <1>4
<1> HIDE DEF m
<1>6. m \in Nat /\ m <= Len(p) /\ 1 <= m
  BY <1>0, <1>5
<1>7. ASSUME NEW k \in Nat, 1 <= k, k < m PROVE Bit(s[k][1], 7) = 1
  <2>1. k \in 1..(m - 1)
    BY <1>6, <1>7
  <2> QED
    BY <1>5, <2>1
<1>8. IsLast(s, m)
  BY <1>5, <1>6, <1>7 DEF IsLast
<1> QED
  BY <1>2, <1>6, <1>8 DEF s

\* All bytes of an ATR's m groups are there.
\* The groups up to m lie inside the ATR, one after the other.
LaidOut(p, s, m) ==
    \A n \in Nat : 1 <= n /\ n <= m =>
      /\ NextIndex(s[n]) <= Len(p)
      /\ s[n + 1] = <<IF Bit(s[n][1], 7) = 1 THEN At(p, NextIndex(s[n]) - 1) ELSE 0, NextIndex(s[n])>>

\* They do if the last one does.
LEMMA WholeIsLaidOut ==
  ASSUME NEW p, IsAtr(p), NEW s, StartsAre(p, s), NEW m \in Nat, IsLast(s, m), NextIndex(s[m]) <= Len(p)
  PROVE  LaidOut(p, s, m)
<1>1. \A n \in Nat : s[n] \in Position /\ (1 <= n => s[n + 1] = After(p, s[n]))
  BY DEF StartsAre
<1>2. 1 <= m /\ Bit(s[m][1], 7) = 0 /\ \A k \in Nat : 1 <= k /\ k < m => Bit(s[k][1], 7) = 1
  BY DEF IsLast
<1> SUFFICES ASSUME NEW n \in Nat, 1 <= n, n <= m
             PROVE  /\ NextIndex(s[n]) <= Len(p)
                    /\ s[n + 1] = <<IF Bit(s[n][1], 7) = 1 THEN At(p, NextIndex(s[n]) - 1) ELSE 0, NextIndex(s[n])>>
  BY DEF LaidOut
<1>3. NextIndex(s[n]) <= Len(p)
  <2>1. CASE n = m
    BY <2>1
  <2>2. CASE n < m
    <3> SUFFICES ASSUME ~(NextIndex(s[n]) <= Len(p)) PROVE FALSE
      OBVIOUS
    <3>1. s[n + 1] = <<0, NextIndex(s[n])>>
      BY <1>1 DEF After
    <3>2. Bit(s[n + 1][1], 7) = 0
      BY <3>1, NoTd
    <3>3. n + 1 = m
      BY <1>2, <2>2, <3>2
    <3>4. PICK a \in Position, b \in Position : a = s[n] /\ b = s[n + 1]
      BY <1>1
    <3>5. NextIndex(b) >= b[2] /\ NextIndex(b) \in Nat /\ NextIndex(a) \in Nat
      BY NextIndexIs
    <3>6. b[2] = NextIndex(a)
      BY <3>1, <3>4
    <3>7. Len(p) \in Nat
      BY LenProperties DEF IsAtr
    <3>8. NextIndex(b) <= Len(p)
      BY <3>3, <3>4
    <3>9. ~(NextIndex(a) <= Len(p))
      BY <3>4
    <3> QED
      BY <3>5, <3>6, <3>7, <3>8, <3>9
  <2> QED
    BY <2>1, <2>2
<1> QED
  BY <1>1, <1>3 DEF After

\* The values the loop of parse_ATR goes through.
Turns(p) == [D : {FirstGroup(p).D}, F : {FirstGroup(p).F}, protocol : {FirstGroup(p).protocol},
             IFSC : Nat, BWI : Nat, CWI : Nat, index : Nat, td : Bytes]

\* The variables index and td after the first group are where the second starts.
LEMMA FirstIs ==
  ASSUME NEW p, IsAtr(p), NEW s, StartsAre(p, s), NEW m \in Nat, 1 <= m, LaidOut(p, s, m)
  PROVE  /\ s[2] = <<FirstGroup(p).td, FirstGroup(p).index>>
         /\ FirstGroup(p).IFSC = 32 /\ FirstGroup(p).BWI = 4 /\ FirstGroup(p).CWI = 13
<1>1. s[1] = <<At(p, 1), 2>> /\ s[1] \in Position
  BY DEF StartsAre
<1>2. s[2] = <<IF Bit(s[1][1], 7) = 1 THEN At(p, NextIndex(s[1]) - 1) ELSE 0, NextIndex(s[1])>>
  <2>1. 1 \in Nat /\ 1 <= 1 /\ 1 + 1 = 2
    OBVIOUS
  <2> QED
    BY <2>1 DEF LaidOut
<1>3. NextIndex(s[1]) = 2 + Announced(At(p, 1))
  BY <1>1 DEF NextIndex
<1>4. PICK k \in Nat : k = 2 + Announced(At(p, 1)) /\ (Bit(At(p, 1), 7) = 1 => k > 2)
  BY <1>1, <1>3, NextIndexIs
<1>5. FirstGroup(p).index = 2 + Announced(At(p, 1))
  BY DEF FirstGroup
<1>6. FirstGroup(p).td = IF Bit(At(p, 1), 7) = 1 THEN At(p, 1 + Announced(At(p, 1))) ELSE 0
  BY DEF FirstGroup
<1>7. Announced(At(p, 1)) \in Int
  <2>1. At(p, 1) \in Bytes
    BY <1>1, NextIndexIs
  <2> QED
    BY <2>1, Announces
<1>8. 1 + Announced(At(p, 1)) = k - 1
  BY <1>4, <1>7
<1>9. FirstGroup(p).IFSC = 32 /\ FirstGroup(p).BWI = 4 /\ FirstGroup(p).CWI = 13
  BY DEF FirstGroup
<1> QED
  BY <1>1, <1>2, <1>3, <1>4, <1>5, <1>6, <1>8, <1>9

\* What skipping the second group does, field by field.
LEMMA SecondFields ==
  ASSUME NEW p, NEW f \in Turns(p), f = FirstGroup(p), NEW x \in Nat, x = f.index, NEW k \in Nat, k = Announced(f.td)
  PROVE  /\ SecondGroup(p).td = IF Bit(f.td, 7) = 1 THEN At(p, x + k - 1) ELSE 0
         /\ SecondGroup(p).index = x + k
         /\ SecondGroup(p).IFSC = f.IFSC /\ SecondGroup(p).BWI = f.BWI /\ SecondGroup(p).CWI = f.CWI
         /\ SecondGroup(p).td \in Bytes => SecondGroup(p) \in Turns(p)
<1>1. SecondGroup(p).td = IF Bit(f.td, 7) = 1 THEN At(p, x + k - 1) ELSE 0
  BY DEF SecondGroup, Turns
<1>2. SecondGroup(p).index = x + k
  BY DEF SecondGroup, Turns
<1>3. SecondGroup(p).IFSC = f.IFSC /\ SecondGroup(p).BWI = f.BWI /\ SecondGroup(p).CWI = f.CWI
  BY DEF SecondGroup, Turns
<1>4. ASSUME SecondGroup(p).td \in Bytes PROVE SecondGroup(p) \in Turns(p)
  <2>1. SecondGroup(p) \in [D : {FirstGroup(p).D}, F : {FirstGroup(p).F}, protocol : {FirstGroup(p).protocol},
            IFSC : {SecondGroup(p).IFSC}, BWI : {SecondGroup(p).BWI}, CWI : {SecondGroup(p).CWI},
            index : {SecondGroup(p).index}, td : {SecondGroup(p).td}]
    BY DEF SecondGroup, Turns
  <2>2. f.IFSC \in Nat /\ f.BWI \in Nat /\ f.CWI \in Nat
    BY DEF Turns
  <2>3. x + k \in Nat
    OBVIOUS
  <2> QED
    BY <1>2, <1>3, <1>4, <2>1, <2>2, <2>3 DEF Turns
<1> QED
  BY <1>1, <1>2, <1>3, <1>4

\* What a turn of the loop does, field by field.
LEMMA LaterFields ==
  ASSUME NEW p, NEW g \in Turns(p), NEW x \in Nat, x = g.index, NEW k \in Nat, k = Announced(g.td),
         NEW a \in {0, 1}, a = Bit(g.td, 4), NEW t, t = IF Bit(g.td, 7) = 1 THEN At(p, x + k - 1) ELSE 0,
         NEW c \in BOOLEAN, c <=> T(IF Bit(g.td, 7) = 1 THEN t ELSE g.td) <= 1
  PROVE  /\ LaterGroup(p, g).td = t
         /\ LaterGroup(p, g).index = x + k
         /\ LaterGroup(p, g).IFSC = IF ~c THEN g.IFSC ELSE IF a = 1 THEN At(p, x) ELSE 32
         /\ LaterGroup(p, g).BWI = IF ~c THEN g.BWI ELSE IF Bit(g.td, 5) = 1 THEN At(p, x + a) \div 16 ELSE 4
         /\ LaterGroup(p, g).CWI = IF ~c THEN g.CWI ELSE IF Bit(g.td, 5) = 1 THEN At(p, x + a) % 16 ELSE 13
         /\ LaterGroup(p, g) \in [D : {FirstGroup(p).D}, F : {FirstGroup(p).F}, protocol : {FirstGroup(p).protocol},
               IFSC : {LaterGroup(p, g).IFSC}, BWI : {LaterGroup(p, g).BWI}, CWI : {LaterGroup(p, g).CWI}, index : {x + k}, td : {t}]
<1>1. LaterGroup(p, g).td = t
  BY DEF LaterGroup, Turns
<1>2. LaterGroup(p, g).index = x + k
  BY DEF LaterGroup, Turns
<1>0. x + 0 = x
  OBVIOUS
<1>3. LaterGroup(p, g).IFSC = IF ~c THEN g.IFSC ELSE IF a = 1 THEN At(p, x) ELSE 32
  BY <1>0 DEF LaterGroup, Turns
<1>4. LaterGroup(p, g).BWI = IF ~c THEN g.BWI ELSE IF Bit(g.td, 5) = 1 THEN At(p, x + a) \div 16 ELSE 4
  BY DEF LaterGroup, Turns
<1>5. LaterGroup(p, g).CWI = IF ~c THEN g.CWI ELSE IF Bit(g.td, 5) = 1 THEN At(p, x + a) % 16 ELSE 13
  BY DEF LaterGroup, Turns
<1>6. LaterGroup(p, g) \in [D : {FirstGroup(p).D}, F : {FirstGroup(p).F}, protocol : {FirstGroup(p).protocol},
               IFSC : {LaterGroup(p, g).IFSC}, BWI : {LaterGroup(p, g).BWI}, CWI : {LaterGroup(p, g).CWI}, index : {x + k}, td : {t}]
  BY <1>1, <1>2 DEF LaterGroup, Turns
<1> QED
  BY <1>1, <1>2, <1>3, <1>4, <1>5, <1>6

\* The next index, by the parts of a position.
LEMMA NextParts ==
  ASSUME NEW s, NEW n \in Nat, s[n] \in Position, NEW b \in Bytes, NEW x \in Nat, s[n] = <<b, x>>
  PROVE  \E k \in Nat : k = Announced(b) /\ NextIndex(s[n]) = x + k /\ s[n][1] = b
<1>1. PICK k \in Nat : k = Announced(b)
  BY Announces
<1>2. NextIndex(s[n]) = x + k
  BY <1>1 DEF NextIndex
<1> QED
  BY <1>1, <1>2

\* After the second group, td and index are where the third starts, if there is one.
LEMMA SecondIs ==
  ASSUME NEW p, IsAtr(p), NEW s, StartsAre(p, s), NEW m \in Nat, IsLast(s, m), LaidOut(p, s, m)
  PROVE  /\ SecondGroup(p) \in Turns(p)
         /\ m >= 2 => s[3] = <<SecondGroup(p).td, SecondGroup(p).index>>
         /\ m < 3 => SecondGroup(p).td = 0
         /\ SecondGroup(p).IFSC = 32 /\ SecondGroup(p).BWI = 4 /\ SecondGroup(p).CWI = 13
<1>1. 1 <= m /\ s[2] \in Position /\ s[3] \in Position
  BY DEF IsLast, StartsAre
<1>2. s[2] = <<FirstGroup(p).td, FirstGroup(p).index>>
      /\ FirstGroup(p).IFSC = 32 /\ FirstGroup(p).BWI = 4 /\ FirstGroup(p).CWI = 13
  BY <1>1, FirstIs
<1>3. FirstGroup(p).td \in Bytes /\ FirstGroup(p).index \in Nat
  <2>1. <<FirstGroup(p).td, FirstGroup(p).index>> \in Position
    BY <1>1, <1>2
  <2> QED
    BY <2>1 DEF Position
<1>4. FirstGroup(p) \in Turns(p)
  <2>1. FirstGroup(p) \in [D : {FirstGroup(p).D}, F : {FirstGroup(p).F}, protocol : {FirstGroup(p).protocol},
            IFSC : {FirstGroup(p).IFSC}, BWI : {FirstGroup(p).BWI}, CWI : {FirstGroup(p).CWI},
            index : {FirstGroup(p).index}, td : {FirstGroup(p).td}]
    BY DEF FirstGroup
  <2>2. 32 \in Nat /\ 4 \in Nat /\ 13 \in Nat
    OBVIOUS
  <2> QED
    BY <1>2, <1>3, <2>1, <2>2 DEF Turns
<1>5. PICK f \in Turns(p), x \in Nat, b \in Bytes : f = FirstGroup(p) /\ x = f.index /\ b = f.td
  BY <1>3, <1>4
<1>6. PICK k \in Nat : k = Announced(b) /\ NextIndex(s[2]) = x + k /\ s[2][1] = b
  <2>1. 2 \in Nat /\ s[2] = <<b, x>>
    BY <1>2, <1>5
  <2> QED
    BY <1>1, <2>1, NextParts
<1> DEFINE g == SecondGroup(p)
<1>7. /\ g.td = IF Bit(b, 7) = 1 THEN At(p, x + k - 1) ELSE 0
      /\ g.index = x + k
      /\ g.IFSC = f.IFSC /\ g.BWI = f.BWI /\ g.CWI = f.CWI
      /\ g.td \in Bytes => g \in Turns(p)
  BY <1>5, <1>6, SecondFields
<1> HIDE DEF g
<1>8. m >= 2 => s[3] = <<g.td, g.index>>
  <2>1. 2 \in Nat /\ 1 <= 2 /\ 2 + 1 = 3
    OBVIOUS
  <2>2. m >= 2 => s[3] = <<IF Bit(s[2][1], 7) = 1 THEN At(p, NextIndex(s[2]) - 1) ELSE 0, NextIndex(s[2])>>
    BY <2>1 DEF LaidOut
  <2> QED
    BY <1>6, <1>7, <2>2
<1>9. m < 3 => Bit(s[2][1], 7) = 0
  <2>1. CASE m = 1
    <3>1. s[2] = <<IF Bit(s[1][1], 7) = 1 THEN At(p, NextIndex(s[1]) - 1) ELSE 0, NextIndex(s[1])>>
      <4>1. 1 \in Nat /\ 1 <= 1 /\ 1 + 1 = 2
        OBVIOUS
      <4> QED
        BY <2>1, <4>1 DEF LaidOut
    <3>2. Bit(s[1][1], 7) = 0
      BY <2>1 DEF IsLast
    <3> QED
      BY <3>1, <3>2, NoTd
  <2>2. CASE m = 2
    BY <2>2 DEF IsLast
  <2> QED
    BY <1>1, <2>1, <2>2
<1>10. m < 3 => g.td = 0
  BY <1>6, <1>7, <1>9
<1>11. g.td \in Bytes
  <2>1. CASE m >= 2
    <3>1. <<g.td, g.index>> \in Position
      BY <1>1, <1>8, <2>1
    <3> QED
      BY <3>1 DEF Position
  <2>2. CASE m < 3
    BY <1>10, <2>2 DEF Bytes
  <2> QED
    BY <2>1, <2>2
<1> QED
  BY <1>2, <1>5, <1>7, <1>8, <1>10, <1>11 DEF g

\* A turn of the loop takes td and index from one group to the next.
LEMMA LaterIs ==
  ASSUME NEW p, IsAtr(p), NEW s, StartsAre(p, s), NEW m \in Nat, IsLast(s, m), LaidOut(p, s, m),
         NEW g \in Turns(p), NEW n \in Nat, 1 <= n, n <= m, s[n] = <<g.td, g.index>>
  PROVE  /\ LaterGroup(p, g) \in Turns(p)
         /\ s[n + 1] = <<LaterGroup(p, g).td, LaterGroup(p, g).index>>
         /\ n = m => LaterGroup(p, g).td = 0
<1>1. PICK b \in Bytes, x \in Nat : b = g.td /\ x = g.index
  BY DEF Turns
<1>2. s[n] \in Position /\ s[n + 1] \in Position /\ s[n] = <<b, x>>
  BY <1>1 DEF StartsAre
<1>3. PICK k \in Nat : k = Announced(b) /\ NextIndex(s[n]) = x + k /\ s[n][1] = b
  BY <1>2, NextParts
<1>4. x + k <= Len(p) /\ s[n + 1] = <<IF Bit(b, 7) = 1 THEN At(p, x + k - 1) ELSE 0, x + k>>
  BY <1>3 DEF LaidOut
<1>5. PICK a \in {0, 1}, a5 \in {0, 1}, a6 \in {0, 1}, a7 \in {0, 1} :
        a = Bit(b, 4) /\ a5 = Bit(b, 5) /\ a6 = Bit(b, 6) /\ a7 = Bit(b, 7) /\ k = a + a5 + a6 + a7
  BY <1>3, Announces
<1>6. PICK t : t = IF Bit(b, 7) = 1 THEN At(p, x + k - 1) ELSE 0
  OBVIOUS
<1>7. PICK c \in BOOLEAN : c <=> T(IF Bit(b, 7) = 1 THEN t ELSE b) <= 1
  OBVIOUS
<1> DEFINE h == LaterGroup(p, g)
<1>8. /\ h.td = t /\ h.index = x + k
      /\ h.IFSC = IF ~c THEN g.IFSC ELSE IF a = 1 THEN At(p, x) ELSE 32
      /\ h.BWI = IF ~c THEN g.BWI ELSE IF Bit(b, 5) = 1 THEN At(p, x + a) \div 16 ELSE 4
      /\ h.CWI = IF ~c THEN g.CWI ELSE IF Bit(b, 5) = 1 THEN At(p, x + a) % 16 ELSE 13
      /\ h \in [D : {FirstGroup(p).D}, F : {FirstGroup(p).F}, protocol : {FirstGroup(p).protocol},
                IFSC : {h.IFSC}, BWI : {h.BWI}, CWI : {h.CWI}, index : {x + k}, td : {t}]
  <2>1. k = Announced(g.td) /\ a = Bit(g.td, 4)
    BY <1>1, <1>3, <1>5
  <2>2. t = IF Bit(g.td, 7) = 1 THEN At(p, x + k - 1) ELSE 0
    BY <1>1, <1>6
  <2>3. c <=> T(IF Bit(g.td, 7) = 1 THEN t ELSE g.td) <= 1
    BY <1>1, <1>7
  <2>4. /\ h.td = t /\ h.index = x + k
        /\ h.IFSC = IF ~c THEN g.IFSC ELSE IF a = 1 THEN At(p, x) ELSE 32
        /\ h.BWI = IF ~c THEN g.BWI ELSE IF Bit(g.td, 5) = 1 THEN At(p, x + a) \div 16 ELSE 4
        /\ h.CWI = IF ~c THEN g.CWI ELSE IF Bit(g.td, 5) = 1 THEN At(p, x + a) % 16 ELSE 13
        /\ h \in [D : {FirstGroup(p).D}, F : {FirstGroup(p).F}, protocol : {FirstGroup(p).protocol},
                  IFSC : {h.IFSC}, BWI : {h.BWI}, CWI : {h.CWI}, index : {x + k}, td : {t}]
    BY <1>1, <2>1, <2>2, <2>3, LaterFields
  <2> QED
    BY <1>1, <2>4
<1> HIDE DEF h
<1>9. s[n + 1] = <<h.td, h.index>>
  BY <1>4, <1>6, <1>8
<1>10. h.td \in Bytes /\ h.index \in Nat
  <2>1. <<h.td, h.index>> \in Position
    BY <1>2, <1>9
  <2> QED
    BY <2>1 DEF Position
<1>11. (a = 1 => At(p, x) \in Bytes) /\ (a5 = 1 => At(p, x + a) \in Bytes)
  <2>1. PICK len \in Nat : len = Len(p) /\ x + (a + a5 + a6 + a7) <= len
    <3>1. Len(p) \in Nat
      BY LenProperties DEF IsAtr
    <3> QED
      BY <1>4, <1>5, <3>1
  <2>2. a = 1 => x < len
    BY <2>1
  <2>3. a5 = 1 => x + a < len /\ x + a \in Nat
    BY <2>1
  <2> QED
    BY <2>1, <2>2, <2>3, Inside
<1>12. h.IFSC \in Nat /\ h.BWI \in Nat /\ h.CWI \in Nat
  <2>1. g.IFSC \in Nat /\ g.BWI \in Nat /\ g.CWI \in Nat
    BY DEF Turns
  <2>2. \A e \in Bytes : e \in Nat /\ e \div 16 \in Nat /\ e % 16 \in Nat
    BY DEF Bytes
  <2>3. h.IFSC \in Nat
    BY <1>8, <1>11, <2>1, <2>2
  <2>4. h.BWI \in Nat
    BY <1>5, <1>8, <1>11, <2>1, <2>2
  <2>5. h.CWI \in Nat
    BY <1>5, <1>8, <1>11, <2>1, <2>2
  <2> QED
    BY <2>3, <2>4, <2>5
<1>13. h \in Turns(p)
  BY <1>8, <1>10, <1>12 DEF Turns
<1>14. n = m => h.td = 0
  <2>1. Bit(s[m][1], 7) = 0
    BY DEF IsLast
  <2> QED
    BY <1>3, <1>6, <1>8, <2>1
<1> QED
  BY <1>9, <1>13, <1>14 DEF h

\* A turn of the loop, or none once td has nothing more to announce.
Turn(p, g) == IF g.td < 16 THEN g ELSE LaterGroup(p, g)

\* The loop is at the start of one of the groups, or done.
Turning(p, s, m) == {g \in Turns(p) : g.td < 16 \/ \E n \in Nat : 3 <= n /\ n <= m /\ s[n] = <<g.td, g.index>>}

\* A turn leaves it so.
LEMMA TurnStays ==
  ASSUME NEW p, IsAtr(p), NEW s, StartsAre(p, s), NEW m \in Nat, IsLast(s, m), LaidOut(p, s, m),
         NEW g \in Turning(p, s, m)
  PROVE  Turn(p, g) \in Turning(p, s, m)
<1>1. g \in Turns(p) /\ (g.td < 16 \/ \E n \in Nat : 3 <= n /\ n <= m /\ s[n] = <<g.td, g.index>>)
  BY DEF Turning
<1>2. CASE g.td < 16
  BY <1>2 DEF Turn
<1>3. CASE ~(g.td < 16)
  <2>1. PICK n \in Nat : 3 <= n /\ n <= m /\ s[n] = <<g.td, g.index>>
    BY <1>1, <1>3
  <2>2. 1 <= n
    BY <2>1
  <2> DEFINE h == LaterGroup(p, g)
  <2>3. h \in Turns(p) /\ s[n + 1] = <<h.td, h.index>> /\ (n = m => h.td = 0)
    BY <1>1, <2>1, <2>2, LaterIs
  <2>4. Turn(p, g) = h
    BY <1>3 DEF Turn
  <2> HIDE DEF h
  <2>5. CASE n = m
    BY <2>3, <2>4, <2>5 DEF Turning
  <2>6. CASE n # m
    <3>1. PICK l \in Nat : l = n + 1
      OBVIOUS
    <3>2. 3 <= l /\ l <= m /\ s[l] = <<h.td, h.index>>
      BY <2>1, <2>3, <2>6, <3>1
    <3> QED
      BY <2>3, <2>4, <3>2 DEF Turning
  <2> QED
    BY <2>5, <2>6
<1> QED
  BY <1>2, <1>3

\* It starts so.
LEMMA SecondTurns ==
  ASSUME NEW p, IsAtr(p), NEW s, StartsAre(p, s), NEW m \in Nat, IsLast(s, m), LaidOut(p, s, m)
  PROVE  SecondGroup(p) \in Turning(p, s, m)
<1> DEFINE g == SecondGroup(p)
<1>1. g \in Turns(p) /\ (m >= 2 => s[3] = <<g.td, g.index>>) /\ (m < 3 => g.td = 0)
  BY SecondIs
<1> HIDE DEF g
<1>2. CASE m < 3
  BY <1>1, <1>2 DEF Turning, g
<1>3. CASE m >= 3
  <2>1. 3 \in Nat /\ 3 <= 3 /\ 3 <= m /\ s[3] = <<g.td, g.index>>
    BY <1>1, <1>3
  <2> QED
    BY <1>1, <2>1 DEF Turning, g
<1> QED
  BY <1>2, <1>3

\* While no group is for T=0 or T=1, a turn leaves the parameters as they were.
Untouched(p, s, m) == {g \in Turning(p, s, m) : Defaults(g)}

LEMMA DefaultsStay ==
  ASSUME NEW p, IsAtr(p), NEW s, StartsAre(p, s), NEW m \in Nat, IsLast(s, m), LaidOut(p, s, m),
         \A n \in 3..m : T(s[n][1]) > 1,
         NEW g \in Untouched(p, s, m)
  PROVE  Turn(p, g) \in Untouched(p, s, m)
<1>1. g \in Turning(p, s, m) /\ Defaults(g)
  BY DEF Untouched
<1>2. g \in Turns(p) /\ (g.td < 16 \/ \E n \in Nat : 3 <= n /\ n <= m /\ s[n] = <<g.td, g.index>>)
  BY <1>1 DEF Turning
<1>3. Turn(p, g) \in Turning(p, s, m)
  BY <1>1, TurnStays
<1>4. CASE g.td < 16
  BY <1>1, <1>3, <1>4 DEF Turn, Untouched
<1>5. CASE ~(g.td < 16)
  <2>1. PICK n \in Nat : 3 <= n /\ n <= m /\ s[n] = <<g.td, g.index>>
    BY <1>2, <1>5
  <2>2. PICK b \in Bytes, x \in Nat : b = g.td /\ x = g.index
    BY <1>2 DEF Turns
  <2>3. s[n] \in Position /\ s[n] = <<b, x>> /\ 1 <= n
    BY <2>1, <2>2 DEF StartsAre
  <2>4. PICK k \in Nat : k = Announced(b) /\ NextIndex(s[n]) = x + k /\ s[n][1] = b
    BY <2>3, NextParts
  <2>5. PICK t : t = IF Bit(b, 7) = 1 THEN At(p, x + k - 1) ELSE 0
    OBVIOUS
  <2>6. s[n + 1] = <<t, x + k>>
    <3>1. s[n + 1] = <<IF Bit(s[n][1], 7) = 1 THEN At(p, NextIndex(s[n]) - 1) ELSE 0, NextIndex(s[n])>>
      BY <2>1, <2>3 DEF LaidOut
    <3> QED
      BY <2>4, <2>5, <3>1
  <2>7. T(b) > 1
    <3>1. n \in 3..m
      BY <2>1
    <3> QED
      BY <2>4, <3>1
  <2>8. Bit(b, 7) = 1 => T(t) > 1
    <3>1. SUFFICES ASSUME Bit(b, 7) = 1 PROVE T(t) > 1
      OBVIOUS
    <3>2. n # m
      BY <2>4, <3>1 DEF IsLast
    <3>3. n + 1 \in 3..m
      BY <2>1, <3>2
    <3>4. s[n + 1][1] = t
      BY <2>6
    <3> QED
      BY <3>3, <3>4
  <2>9. PICK l : l = IF Bit(b, 7) = 1 THEN t ELSE b
    OBVIOUS
  <2>10. T(l) > 1
    BY <2>7, <2>8, <2>9
  <2>11. PICK a \in {0, 1} : a = Bit(b, 4)
    BY Announces
  <2>12. PICK c \in BOOLEAN : c <=> T(l) <= 1
    OBVIOUS
  <2> DEFINE h == LaterGroup(p, g)
  <2>13. /\ h.IFSC = IF ~c THEN g.IFSC ELSE IF a = 1 THEN At(p, x) ELSE 32
         /\ h.BWI = IF ~c THEN g.BWI ELSE IF Bit(g.td, 5) = 1 THEN At(p, x + a) \div 16 ELSE 4
         /\ h.CWI = IF ~c THEN g.CWI ELSE IF Bit(g.td, 5) = 1 THEN At(p, x + a) % 16 ELSE 13
    <3>1. k = Announced(g.td) /\ a = Bit(g.td, 4)
      BY <2>2, <2>4, <2>11
    <3>2. t = IF Bit(g.td, 7) = 1 THEN At(p, x + k - 1) ELSE 0
      BY <2>2, <2>5
    <3>3. c <=> T(IF Bit(g.td, 7) = 1 THEN t ELSE g.td) <= 1
      BY <2>2, <2>9, <2>12
    <3> QED
      BY <1>2, <2>2, <3>1, <3>2, <3>3, LaterFields
  <2> HIDE DEF h
  <2>14. ~c
    <3>1. T(l) \in Int
      <4>1. l \in Bytes
        <5>1. s[n + 1] \in Position
          BY <2>1 DEF StartsAre
        <5>2. t \in Bytes
          BY <2>6, <5>1 DEF Position
        <5> QED
          BY <2>9, <5>2
      <4> QED
        BY <4>1 DEF T, Bytes
    <3> QED
      BY <2>10, <2>12, <3>1
  <2>15. Defaults(h)
    BY <1>1, <2>13, <2>14 DEF Defaults
  <2>16. Turn(p, g) = h
    BY <1>5 DEF Turn, h
  <2> QED
    BY <1>3, <2>15, <2>16 DEF Untouched
<1> QED
  BY <1>4, <1>5

\* A set the loop never leaves, and the loop as a function into it.
Kept(p, S) == SecondGroup(p) \in S /\ \A g \in S : Turn(p, g) \in S
Walks(p, S) == \E w \in [Nat -> S] : /\ w[0] = SecondGroup(p) /\ parse_ATR(p) = w[Len(p)]
                                     /\ \A n \in Nat : w[n + 1] = Turn(p, w[n])

\* The local function of parse_ATR is what its equation says.
LEMMA WalkHolds ==
  ASSUME NEW p, NEW S, Kept(p, S)
  PROVE  Walks(p, S)
<1> USE DEF Kept, Walks
<1> DEFINE f == CHOOSE walk : walk = [n \in Nat |-> IF n = 0 THEN SecondGroup(p) ELSE Turn(p, walk[n - 1])]
<1>1. parse_ATR(p) = f[Len(p)]
  BY DEF parse_ATR, Turn
<1>2. PICK w \in [Nat -> S] : w[0] = SecondGroup(p) /\ \A n \in Nat : w[n + 1] = Turn(p, w[n])
  <2> DEFINE step == [g \in S |-> Turn(p, g)]
  <2>1. \A g \in S : step[g] = Turn(p, g)
    OBVIOUS
  <2>2. step \in [S -> S]
    OBVIOUS
  <2> HIDE DEF step
  <2>3. PICK x \in S, t \in [S -> S] : x = SecondGroup(p) /\ t = step
    BY <2>2
  <2>4. PICK w \in [Nat -> S] : w[0] = x /\ \A n \in Nat : w[n + 1] = t[w[n]]
    BY Recursion
  <2> QED
    BY <2>1, <2>3, <2>4
<1>3. w = [n \in Nat |-> IF n = 0 THEN SecondGroup(p) ELSE Turn(p, w[n - 1])]
  <2>1. ASSUME NEW n \in Nat, n # 0 PROVE w[n] = Turn(p, w[n - 1])
    <3>1. PICK k \in Nat : n = k + 1
      BY <2>1
    <3> QED
      BY <1>2, <3>1
  <2> QED
    BY <1>2, <2>1
<1>4. f = [n \in Nat |-> IF n = 0 THEN SecondGroup(p) ELSE Turn(p, f[n - 1])]
  BY <1>3
<1> HIDE DEF f
<1>5. f[0] = SecondGroup(p)
  BY <1>4
<1>6. ASSUME NEW n \in Nat PROVE f[n + 1] = Turn(p, f[n])
  BY <1>4
<1>7. \A n \in Nat : 0 <= n => f[n] \in S
  BY <1>5, <1>6, Forever
<1>8. f \in [Nat -> S]
  <2>1. \A n \in Nat : f[n] \in S
    BY <1>7
  <2> QED
    BY <1>4, <2>1
<1> QED
  BY <1>1, <1>5, <1>6, <1>8

\* One more element, if a bit is set, is counted by the bit.
LEMMA AddOne ==
  ASSUME NEW S, IsFiniteSet(S), NEW x, x \notin S, NEW c \in {0, 1}, NEW R, R = S \cup (IF c = 1 THEN {x} ELSE {})
  PROVE  IsFiniteSet(R) /\ Cardinality(R) = Cardinality(S) + c
<1>1. Cardinality(S) \in Nat
  BY FS_CardinalityType
<1>2. CASE c = 1
  <2>1. R = S \cup {x}
    BY <1>2
  <2> QED
    BY <1>2, <2>1, FS_AddElement
<1>3. CASE c = 0
  <2>1. R = S
    BY <1>3
  <2> QED
    BY <1>1, <1>3, <2>1
<1> QED
  BY <1>2, <1>3

\* Where TA, TB and TD of a group are: after those announced before them.
LEMMA Interface ==
  ASSUME NEW p, NEW b \in Bytes, NEW i \in Nat, NEW c4 \in {0, 1}, NEW c5 \in {0, 1}, NEW c6 \in {0, 1},
         c4 = Bit(b, 4), c5 = Bit(b, 5), c6 = Bit(b, 6)
  PROVE  /\ Byte(p, <<b, i>>, 0) = At(p, i) /\ Byte(p, <<b, i>>, 1) = At(p, i + c4)
         /\ Byte(p, <<b, i>>, 3) = At(p, i + (c4 + c5 + c6))
<1> DEFINE R(X) == {k \in 0..(X - 1) : Bit(b, 4 + k) = 1}
<1>1. R(0) = {} /\ IsFiniteSet({}) /\ Cardinality({}) = 0
  <2>1. 0..(0 - 1) = {}
    OBVIOUS
  <2> QED
    BY <2>1, FS_EmptySet
<1>2. R(1) = {} \cup (IF c4 = 1 THEN {0} ELSE {})
  <2>1. \A k : k \in 0..(1 - 1) <=> k = 0
    OBVIOUS
  <2>2. 4 + 0 = 4
    OBVIOUS
  <2> QED
    BY <2>1, <2>2
<1>3. R(2) = R(1) \cup (IF c5 = 1 THEN {1} ELSE {})
  <2>1. \A k : k \in 0..(2 - 1) <=> k \in 0..(1 - 1) \/ k = 1
    OBVIOUS
  <2>2. 4 + 1 = 5
    OBVIOUS
  <2> QED
    BY <2>1, <2>2
<1>4. R(3) = R(2) \cup (IF c6 = 1 THEN {2} ELSE {})
  <2>1. \A k : k \in 0..(3 - 1) <=> k \in 0..(2 - 1) \/ k = 2
    OBVIOUS
  <2>2. 4 + 2 = 6
    OBVIOUS
  <2> QED
    BY <2>1, <2>2
<1>5. 0 \notin {} /\ 1 \notin R(1) /\ 2 \notin R(2)
  OBVIOUS
<1>6. Byte(p, <<b, i>>, 0) = At(p, i + Cardinality(R(0))) /\ Byte(p, <<b, i>>, 1) = At(p, i + Cardinality(R(1)))
      /\ Byte(p, <<b, i>>, 3) = At(p, i + Cardinality(R(3)))
  BY DEF Byte
<1> HIDE DEF R
<1>7. PICK r0, r1, r2, r3 : r0 = {} /\ r1 = R(1) /\ r2 = R(2) /\ r3 = R(3)
  OBVIOUS
<1>8. /\ IsFiniteSet(r0) /\ Cardinality(r0) = 0 /\ 0 \notin r0 /\ 1 \notin r1 /\ 2 \notin r2
      /\ r1 = r0 \cup (IF c4 = 1 THEN {0} ELSE {})
      /\ r2 = r1 \cup (IF c5 = 1 THEN {1} ELSE {})
      /\ r3 = r2 \cup (IF c6 = 1 THEN {2} ELSE {})
  BY <1>1, <1>2, <1>3, <1>4, <1>5, <1>7
<1>9. Cardinality(R(1)) = 0 + c4 /\ Cardinality(R(3)) = 0 + c4 + c5 + c6
  <2>1. IsFiniteSet(r1) /\ Cardinality(r1) = 0 + c4
    BY <1>8, AddOne
  <2>2. IsFiniteSet(r2) /\ Cardinality(r2) = 0 + c4 + c5
    BY <1>8, <2>1, AddOne
  <2>3. Cardinality(r3) = 0 + c4 + c5 + c6
    <3>1. Cardinality(r3) = Cardinality(r2) + c6
      <4>1. 2 \notin r2 /\ r3 = r2 \cup (IF c6 = 1 THEN {2} ELSE {})
        BY <1>8
      <4> QED
        BY <2>2, <4>1, AddOne
    <3> QED
      BY <2>2, <3>1
  <2> QED
    BY <1>7, <2>1, <2>3
<1>10. i + 0 = i /\ i + (0 + c4) = i + c4 /\ i + (0 + c4 + c5 + c6) = i + (c4 + c5 + c6)
  OBVIOUS
<1> QED
  BY <1>1, <1>6, <1>9, <1>10

\* Protocol, F and D are those of the first group.
LEMMA FirstRight ==
  ASSUME NEW p, NEW t0 \in Bytes, t0 = At(p, 1), NEW a \in Turns(p),
         Bit(t0, 7) = 1 => At(p, 1 + Announced(t0)) \in Bytes
  PROVE  RightProtocol(p, <<t0, 2>>, a) /\ RightSpeed(p, <<t0, 2>>, a)
<1>1. PICK b4 \in {0, 1}, b5 \in {0, 1}, b6 \in {0, 1}, b7 \in {0, 1} :
        /\ b4 = Bit(t0, 4) /\ b5 = Bit(t0, 5) /\ b6 = Bit(t0, 6) /\ b7 = Bit(t0, 7)
        /\ Announced(t0) = b4 + b5 + b6 + b7
  BY Announces
<1>2. PICK td : td = At(p, 2 + (b4 + b5 + b6))
  OBVIOUS
<1>3. /\ Byte(p, <<t0, 2>>, 0) = At(p, 2) /\ Byte(p, <<t0, 2>>, 3) = td
      /\ Has(<<t0, 2>>, 0) <=> b4 = 1
      /\ Has(<<t0, 2>>, 3) <=> b7 = 1
  <2>1. Byte(p, <<t0, 2>>, 0) = At(p, 2) /\ Byte(p, <<t0, 2>>, 3) = At(p, 2 + (b4 + b5 + b6))
    <3>1. PICK i \in Nat : i = 2
      OBVIOUS
    <3>2. Byte(p, <<t0, i>>, 0) = At(p, i) /\ Byte(p, <<t0, i>>, 3) = At(p, i + (b4 + b5 + b6))
      BY <1>1, Interface
    <3> QED
      BY <3>1, <3>2
  <2>2. 4 + 0 = 4 /\ 4 + 3 = 7
    OBVIOUS
  <2> QED
    BY <1>1, <1>2, <2>1, <2>2 DEF Has
<1>4. b7 = 1 => At(p, 1 + Announced(t0)) = td
  <2>1. b7 = 1 => 1 + Announced(t0) = 2 + (b4 + b5 + b6)
    BY <1>1
  <2> QED
    BY <1>2, <2>1
<1>5. PICK f : f = FirstGroup(p) /\ a.D = f.D /\ a.F = f.F /\ a.protocol = f.protocol
  BY DEF Turns
<1>6. PICK other \in BOOLEAN : other <=> b7 = 1 /\ T(td) > 1
  OBVIOUS
<1>7. f.protocol = IF b7 = 1 /\ T(td) <= 1 THEN T(td) ELSE 2
  BY <1>1, <1>4, <1>5 DEF FirstGroup
<1>8. f.F = IF b4 = 1 /\ ~other THEN convert_f(At(p, 2)) ELSE 372
  BY <1>1, <1>4, <1>5, <1>6 DEF FirstGroup
<1>9. f.D = IF b4 = 1 /\ ~other THEN convert_d(At(p, 2)) ELSE 1
  BY <1>1, <1>4, <1>5, <1>6 DEF FirstGroup
<1>12. b7 = 1 => T(td) \in Nat
  <2>1. b7 = 1 => td \in Bytes
    BY <1>1, <1>4
  <2>2. \A e \in Bytes : T(e) \in Nat
    BY DEF T, Bytes
  <2> QED
    BY <2>1, <2>2
<1>13. b7 = 1 => IF T(td) <= 1 THEN f.protocol = T(td) ELSE f.protocol \notin {0, 1}
  BY <1>7
<1>14. ASSUME b7 = 1 => T(td) <= 1 PROVE ~other
  BY <1>6, <1>12, <1>14
<1>15. (b7 = 1 => T(td) <= 1)
           => /\ f.F = IF b4 = 1 THEN convert_f(At(p, 2)) ELSE 372
              /\ f.D = IF b4 = 1 THEN convert_d(At(p, 2)) ELSE 1
  BY <1>8, <1>9, <1>14
<1> HIDE DEF convert_f, convert_d
<1>16. RightProtocol(p, <<t0, 2>>, a)
  BY <1>3, <1>5, <1>13 DEF RightProtocol
<1>17. RightSpeed(p, <<t0, 2>>, a)
  BY <1>3, <1>5, <1>15 DEF RightSpeed
<1> QED
  BY <1>16, <1>17

\* A byte is its two halves.
LEMMA Nibbles == \A z \in Nat : 16 * (z \div 16) + (z % 16) = z
OBVIOUS

\* The loop's first turn takes the parameters of the third group if it is the last one
\* and for T=0 or T=1, and then the loop is done.
LEMMA ThirdRight ==
  ASSUME NEW p, IsAtr(p), NEW s, StartsAre(p, s), IsLast(s, 3), LaidOut(p, s, 3), T(s[3][1]) <= 1
  PROVE  Turn(p, SecondGroup(p)).td < 16 /\ RightThird(p, s[3], Turn(p, SecondGroup(p)))
<1> DEFINE g == SecondGroup(p)
<1>1. g \in Turns(p) /\ s[3] = <<g.td, g.index>> /\ g.IFSC = 32 /\ g.BWI = 4 /\ g.CWI = 13
  <2>1. 3 \in Nat /\ 3 >= 2
    OBVIOUS
  <2> QED
    BY <2>1, SecondIs
<1> HIDE DEF g
<1>2. PICK b \in Bytes, x \in Nat : b = g.td /\ x = g.index
  BY <1>1 DEF Turns
<1>3. s[3] = <<b, x>> /\ s[3] \in Position /\ 3 \in Nat
  BY <1>1, <1>2 DEF StartsAre
<1>4. PICK k \in Nat : k = Announced(b) /\ NextIndex(s[3]) = x + k /\ s[3][1] = b
  BY <1>3, NextParts
<1>5. x + k <= Len(p) /\ Bit(b, 7) = 0
  BY <1>3, <1>4 DEF LaidOut, IsLast
<1>6. PICK a \in {0, 1}, a5 \in {0, 1}, a6 \in {0, 1}, a7 \in {0, 1} :
        a = Bit(b, 4) /\ a5 = Bit(b, 5) /\ a6 = Bit(b, 6) /\ a7 = Bit(b, 7) /\ k = a + a5 + a6 + a7
  BY <1>4, Announces
<1>7. /\ Byte(p, s[3], 0) = At(p, x) /\ Byte(p, s[3], 1) = At(p, x + a)
      /\ Has(s[3], 0) <=> a = 1
      /\ Has(s[3], 1) <=> a5 = 1
  <2>1. Byte(p, <<b, x>>, 0) = At(p, x) /\ Byte(p, <<b, x>>, 1) = At(p, x + a)
    BY <1>6, Interface
  <2>2. 4 + 0 = 4 /\ 4 + 1 = 5
    OBVIOUS
  <2> QED
    BY <1>3, <1>6, <2>1, <2>2 DEF Has
<1>8. CASE b < 16
  <2>1. b \in 0..255
    BY DEF Bytes
  <2>2. a = 0 /\ a5 = 0
    BY <1>6, <1>8, <2>1, Bits
  <2>3. Turn(p, g) = g
    BY <1>2, <1>8 DEF Turn
  <2>4. RightThird(p, s[3], g)
    BY <1>1, <1>7, <2>2 DEF RightThird
  <2> QED
    BY <1>2, <1>8, <2>3, <2>4 DEF g
<1>9. CASE ~(b < 16)
  <2> DEFINE h == LaterGroup(p, g)
  <2>1. Turn(p, g) = h
    BY <1>2, <1>9 DEF Turn
  <2>10. PICK t : t = 0
    OBVIOUS
  <2>11. PICK c \in BOOLEAN : c = TRUE
    OBVIOUS
  <2>2. t = 0 /\ c = TRUE
    BY <2>10, <2>11
  <2>3. k = Announced(g.td) /\ a = Bit(g.td, 4) /\ Bit(g.td, 7) = 0 /\ a5 = Bit(g.td, 5)
    BY <1>2, <1>4, <1>5, <1>6
  <2>4. t = IF Bit(g.td, 7) = 1 THEN At(p, x + k - 1) ELSE 0
    BY <2>2, <2>3
  <2>5. c <=> T(IF Bit(g.td, 7) = 1 THEN t ELSE g.td) <= 1
    BY <1>2, <1>4, <2>2, <2>3
  <2>6. /\ h.td = t
        /\ h.IFSC = IF ~c THEN g.IFSC ELSE IF a = 1 THEN At(p, x) ELSE 32
        /\ h.BWI = IF ~c THEN g.BWI ELSE IF Bit(g.td, 5) = 1 THEN At(p, x + a) \div 16 ELSE 4
        /\ h.CWI = IF ~c THEN g.CWI ELSE IF Bit(g.td, 5) = 1 THEN At(p, x + a) % 16 ELSE 13
    BY <1>1, <1>2, <2>3, <2>4, <2>5, LaterFields
  <2> HIDE DEF h
  <2>7. h.td = 0 /\ h.IFSC = (IF a = 1 THEN At(p, x) ELSE 32)
    BY <2>2, <2>6
  <2>8. h.BWI * 16 + h.CWI = IF a5 = 1 THEN At(p, x + a) ELSE 77
    <3>1. CASE a5 = 1
      <4>1. PICK len \in Nat : len = Len(p) /\ x + (a + a5 + a6 + a7) <= len
        <5>1. Len(p) \in Nat
          BY LenProperties DEF IsAtr
        <5> QED
          BY <1>5, <1>6, <5>1
      <4>2. x + a < len /\ x + a \in Nat
        BY <3>1, <4>1
      <4>3. PICK e \in Bytes : e = At(p, x + a)
        BY <4>1, <4>2, Inside
      <4>4. PICK q \in Nat, r \in Nat : q = e \div 16 /\ r = e % 16
        BY DEF Bytes
      <4>5. h.BWI = q /\ h.CWI = r
        BY <2>2, <2>3, <2>6, <3>1, <4>3, <4>4
      <4>6. q * 16 + r = e
        BY <4>4, Nibbles DEF Bytes
      <4>7. h.BWI * 16 + h.CWI = e
        BY <4>5, <4>6
      <4> QED
        BY <3>1, <4>3, <4>7
    <3>2. CASE a5 = 0
      <4>1. h.BWI = 4 /\ h.CWI = 13
        BY <2>2, <2>3, <2>6, <3>2
      <4> QED
        BY <3>2, <4>1
    <3> QED
      BY <3>1, <3>2
  <2>9. RightThird(p, s[3], h)
    BY <1>7, <2>7, <2>8 DEF RightThird
  <2> QED
    BY <2>1, <2>7, <2>9 DEF g
<1> QED
  BY <1>8, <1>9

\* parse_ATR agrees with the structure of every whole ATR.
LEMMA AtrRight ==
  ASSUME NEW p, IsAtr(p), Whole(p)
  PROVE  ParsedRight(p, parse_ATR(p))
<1> DEFINE s == Starts(p)
<1>1. StartsAre(p, s)
  BY StartsHold
<1>2. PICK m \in Nat : IsLast(s, m) /\ Groups(p) = [n \in 1..m |-> s[n]]
  BY GroupsHold
<1> HIDE DEF s
<1>3. 1 <= m /\ Len(Groups(p)) = m /\ Groups(p)[1] = s[1] /\ Groups(p)[m] = s[m] /\ (m = 3 => Groups(p)[3] = s[3])
  <2>1. 1 <= m
    BY <1>2 DEF IsLast
  <2>2. PICK g : g = [n \in 1..m |-> s[n]]
    OBVIOUS
  <2>3. Len(g) = m
    BY <2>2
  <2>4. g[1] = s[1] /\ g[m] = s[m] /\ (m = 3 => g[3] = s[3])
    BY <2>1, <2>2
  <2> QED
    BY <1>2, <2>1, <2>2, <2>3, <2>4
<1>4. NextIndex(s[m]) <= Len(p)
  <2>1. s[m] \in Position
    BY <1>1 DEF StartsAre
  <2>2. Len(p) >= s[m][2] + Announced(s[m][1])
    BY <1>3 DEF Whole
  <2>3. NextIndex(s[m]) \in Nat /\ Len(p) \in Nat
    BY <2>1, NextIndexIs, LenProperties DEF IsAtr
  <2> QED
    BY <2>2, <2>3 DEF NextIndex
<1>5. LaidOut(p, s, m)
  BY <1>1, <1>2, <1>4, WholeIsLaidOut
<1> DEFINE S == Turning(p, s, m)
<1>6. PICK w \in [Nat -> S] : /\ w[0] = SecondGroup(p) /\ parse_ATR(p) = w[Len(p)]
                              /\ \A n \in Nat : w[n + 1] = Turn(p, w[n])
  <2>1. SecondGroup(p) \in S
    BY <1>1, <1>2, <1>5, SecondTurns
  <2>2. \A g \in S : Turn(p, g) \in S
    BY <1>1, <1>2, <1>5, TurnStays
  <2> HIDE DEF S
  <2>3. Kept(p, S)
    BY <2>1, <2>2 DEF Kept
  <2>4. Walks(p, S)
    BY <2>3, WalkHolds
  <2> QED
    BY <2>4 DEF Walks
<1>7. PICK len \in Nat : len = Len(p) /\ len >= 2
  BY LenProperties DEF IsAtr
<1>8. parse_ATR(p) = w[len] /\ w[len] \in S /\ w[len] \in Turns(p)
  BY <1>6, <1>7 DEF Turning
<1>9. RightProtocol(p, s[1], w[len]) /\ RightSpeed(p, s[1], w[len])
  <2>1. s[1] = <<At(p, 1), 2>> /\ s[1] \in Position
    BY <1>1 DEF StartsAre
  <2>2. PICK t0 \in Bytes : t0 = At(p, 1)
    BY <2>1 DEF Position
  <2>3. ASSUME Bit(t0, 7) = 1 PROVE At(p, 1 + Announced(t0)) \in Bytes
    <3>1. s[2] = <<IF Bit(s[1][1], 7) = 1 THEN At(p, NextIndex(s[1]) - 1) ELSE 0, NextIndex(s[1])>>
      <4>1. 1 \in Nat /\ 1 <= 1 /\ 1 + 1 = 2
        OBVIOUS
      <4> QED
        BY <1>3, <1>5, <4>1 DEF LaidOut
    <3>2. PICK k \in Nat : k = Announced(t0)
      BY <2>2, Announces
    <3>3. NextIndex(s[1]) = 2 + k
      BY <2>1, <2>2, <3>2 DEF NextIndex
    <3>4. s[2][1] = At(p, 1 + k)
      <4>1. 2 + k - 1 = 1 + k
        OBVIOUS
      <4> QED
        BY <2>1, <2>2, <2>3, <3>1, <3>3, <4>1
    <3>5. s[2] \in Position
      BY <1>1 DEF StartsAre
    <3> QED
      BY <3>2, <3>4, <3>5 DEF Position
  <2> QED
    BY <1>8, <2>1, <2>2, <2>3, FirstRight
<1>10. ASSUME m = 3, T(s[3][1]) = 1 PROVE RightThird(p, s[3], w[len])
  <2> DEFINE U == {g \in Turns(p) : g.td < 16 /\ RightThird(p, s[3], g)}
  <2>1. w[1] = Turn(p, SecondGroup(p)) /\ w[1] \in Turns(p)
    <3>1. 0 \in Nat /\ 0 + 1 = 1 /\ 1 \in Nat
      OBVIOUS
    <3> QED
      BY <1>6, <3>1 DEF Turning
  <2>2. w[1] \in U
    <3>1. T(s[3][1]) <= 1
      BY <1>10
    <3> QED
      BY <1>1, <1>2, <1>5, <1>10, <2>1, <3>1, ThirdRight
  <2>3. ASSUME NEW n \in Nat, 1 <= n, w[n] \in U PROVE w[n + 1] \in U
    BY <1>6, <2>3 DEF Turn
  <2> HIDE DEF U
  <2>4. \A n \in Nat : 1 <= n => w[n] \in U
    BY <2>2, <2>3, Forever
  <2>5. w[len] \in U
    BY <1>7, <2>4
  <2> QED
    BY <2>5 DEF U
<1>11. ASSUME \A n \in 3..m : T(s[n][1]) > 1 PROVE Defaults(w[len])
  <2> DEFINE V == Untouched(p, s, m)
  <2>1. w[0] \in V
    BY <1>1, <1>2, <1>5, <1>6, SecondIs, SecondTurns DEF Untouched, Defaults
  <2>2. ASSUME NEW n \in Nat, 0 <= n, w[n] \in V PROVE w[n + 1] \in V
    BY <1>1, <1>2, <1>5, <1>6, <1>11, <2>2, DefaultsStay
  <2> HIDE DEF V
  <2>3. \A n \in Nat : 0 <= n => w[n] \in V
    BY <2>1, <2>2, Forever
  <2>4. w[len] \in V
    BY <1>7, <2>3
  <2> QED
    BY <2>4 DEF V, Untouched
<1>12. ASSUME \A n \in 3..Len(Groups(p)) : T(Groups(p)[n][1]) > 1 PROVE \A n \in 3..m : T(s[n][1]) > 1
  <2> SUFFICES ASSUME NEW n \in 3..m PROVE T(s[n][1]) > 1
    OBVIOUS
  <2>1. n \in 1..m
    OBVIOUS
  <2>2. Groups(p)[n] = s[n]
    BY <1>2, <2>1
  <2> QED
    BY <1>3, <1>12, <2>2
<1> QED
  BY <1>3, <1>8, <1>9, <1>10, <1>11, <1>12 DEF ParsedRight

\* Whatever answers to reset the cards have, if all their announced bytes are there,
\* what parse_ATR takes from the card's is what ISO 7816-3 reads in its structure: the
\* protocol of TD1 where there is one, F and D of TA1, and the parameters of a third and
\* last group for T=1, or the defaults if no group behind the second is for T=0 or T=1.
THEOREM AtrsAreParsedRight == PicoSpec => []AtrParsed
<1>1. IInv => AtrParsed
  <2> SUFFICES ASSUME IInv PROVE AtrParsed
    OBVIOUS
  <2>1. cardAtr \in Atrs
    BY DEF IInv, TypeInv
  <2>2. IsAtr(cardAtr) /\ Whole(cardAtr)
    BY <2>1, PicoAssumption DEF IsAtr, Bytes, Whole
  <2>3. ParsedRight(cardAtr, parse_ATR(cardAtr))
    BY <2>2, AtrRight
  <2> QED
    BY <2>1, <2>3 DEF AtrParsed, Agrees
<1> QED
  BY <1>1, SpecIInv, PTL
=============================================================================
