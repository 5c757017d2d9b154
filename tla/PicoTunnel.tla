----------------------------- MODULE PicoTunnel -----------------------------
(***************************************************************************)
(* The Pico between a modem (or card reader) and pico_proxy.py: the first  *)
(* core watches the reset line and starts a protocol on the second, which  *)
(* exchanges commands with the modem over the UART and relays them over    *)
(* USB.  The proxy answers one message at a time.                          *)
(*                                                                         *)
(* A reset stops the second core wherever it is, also between the header   *)
(* and the data of a USB message, and leaves the USB buffers as they are.  *)
(* What the modem sends is read as it comes: sc_write discards the rest.   *)
(* Responses are numbered by the command they answer; their lengths are    *)
(* in bytes, with the two of the status word.  The proxy as it stands      *)
(* sends one fixed ATR; the Pico takes any, and so does the model.  Debug  *)
(* messages and measurements are left out, and so are UART mode and log    *)
(* level, which a "config" message stands for.                             *)
(***************************************************************************)
EXTENDS Atr

CONSTANTS Atrs,       \* answers to reset a card may have, as bytes
          Lens,       \* lengths of the card's responses; 0: the tunnel is closed
          LongLe,     \* expected lengths (le) of the modem's case 2 commands
          Ifsd,       \* information field sizes a reader asks for (T=1)
          MaxCmds,    \* bound: commands the modem sends
          MaxResets,  \* bound: times the modem raises the reset line
          MaxUsb      \* bound: messages of the proxy that wait at the Pico

ASSUME PicoAssumption == /\ \A p \in Atrs : p \in Seq(0..255) /\ Whole(p)
                         /\ Lens \subseteq Nat /\ LongLe \subseteq Nat \ {0, 1, 2}
                         /\ Ifsd \subseteq 1..254
                         /\ {MaxCmds, MaxResets, MaxUsb} \subseteq Nat

VARIABLES
    cardAtr,     \* the ATR the proxy sends, as bytes
    proxy,       \* pico_proxy: <<>>, or <<the command whose response it awaits>>
    card,        \* number of the last command the card executed
    usbOut,      \* messages from the Pico to the proxy
    usbIn,       \* messages from the proxy to the Pico
    half,        \* the header of Head(usbIn) has been read, its data not
    torn,        \* a reset has cut a message: the stream is out of step
    core0,       \* main: "ask", "boot", "loop" or "high"
    atr,         \* its ATR, parsed; None before the first one
    atrQueue,    \* update_atr_queue
    relayConfig, \* relay_config_queue
    core1,       \* the second core: where it is, and the protocol's variables
    line,        \* the reset line, as the modem drives it
    resets,      \* how often it went up
    modem,       \* the modem: where it is, its command, what it was told
    reply,       \* history: the last reply it got
    interrupted  \* history: a reset came while a command was under way

picoVars == <<cardAtr, proxy, card, usbOut, usbIn, half, torn, core0, atr, atrQueue,
              relayConfig, core1, line, resets, modem, reply, interrupted>>
usbVars == <<proxy, card, usbOut, usbIn, half, torn>>
core0Vars == <<core0, atr, atrQueue, relayConfig>>
modemVars == <<line, resets, modem, reply, interrupted>>

\* parse_ATR, once for each ATR.
Parsed == [p \in Atrs |-> parse_ATR(p)]

\* parse_ATR and the structure of the ATR, compared once for each ATR.
Agrees == [p \in Atrs |-> ParsedRight(p, parse_ATR(p))]

NoAtr == [protocol |-> 2]
Off == [pc |-> "off", le |-> 2, cache |-> [ref |-> 0, len |-> 0],
        seq |-> 0, size |-> 32, left |-> 0, cnt |-> 0, bit |-> 0]
NoReply == [want |-> 0, ref |-> 0, full |-> 0, len |-> 0]
NoDue == [ref |-> 0, len |-> 0]

\* The modem: in reset, waiting for the ATR, ready or waiting for an answer to
\* command n; the response it was told to fetch; the sequence bit it expects
\* next and whether it has kept to what the Pico numbers correctly (T=1).
NoModem == [pc |-> "reset", n |-> 0, ins |-> "other", due |-> NoDue,
            expect |-> 0, regular |-> "fresh"]

PicoTypeOK ==
    /\ \A i \in DOMAIN usbIn : usbIn[i].op \in {"apdu", "atr", "state", "config"}
    /\ \A i \in DOMAIN usbOut : usbOut[i].op \in {"apdu", "sendatr", "state"}
    /\ {half, torn, line, interrupted} \subseteq BOOLEAN
    /\ core0 \in {"ask", "boot", "loop", "high"}
    /\ Len(atrQueue) <= 2 /\ Len(relayConfig) <= 2
    /\ core1.pc \in {"off", "waiting", "start", "pps", "t0", "t0usb", "t1", "t1usb", "chain", "garbled"}
    /\ core1.seq \in 0..1 /\ core1.cnt \in 0..1 /\ core1.bit \in 0..1 /\ core1.cache.len \in 0..255
    /\ resets \in 0..MaxResets /\ modem.n \in 0..MaxCmds

PicoInit ==
    /\ cardAtr \in Atrs
    /\ proxy = <<>> /\ card = 0
    /\ usbOut = <<>> /\ usbIn = <<[op |-> "state"], [op |-> "config"]>>
    /\ half = FALSE /\ torn = FALSE
    /\ core0 = "ask" /\ atr = NoAtr /\ atrQueue = <<>> /\ relayConfig = <<>>
    /\ core1 = Off
    /\ line = FALSE /\ resets = 0 /\ modem = NoModem /\ reply = NoReply /\ interrupted = FALSE

-----------------------------------------------------------------------------
(* pico_proxy.py.                                                          *)

\* relay_with_pico: the next message.  REQUEST_STATE is answered with the
\* state; zero, before the first ATR, makes configure_pico send its messages.
ProxyReads ==
    LET msg == Head(usbOut) IN
    /\ proxy = <<>> /\ usbOut # <<>> /\ Len(usbIn) < MaxUsb
    /\ usbOut' = Tail(usbOut)
    /\ proxy' = IF msg.op = "apdu" THEN <<msg>> ELSE <<>>
    /\ usbIn' = usbIn \o CASE msg.op = "sendatr" -> <<[op |-> "atr", atr |-> cardAtr]>>
                           [] msg.op = "state" /\ ~msg.ready -> <<[op |-> "state"], [op |-> "config"]>>
                           [] OTHER -> <<>>
    /\ UNCHANGED <<cardAtr, card, half, torn, core0Vars, core1, modemVars>>

\* The response arrives through the tunnel.  A status word alone may say that
\* the card has more (9F), which GET RESPONSE fetches from it.
ProxyAnswers(len, more) ==
    /\ proxy # <<>>
    /\ more => len = 2
    /\ card' = IF proxy[1].ins = "getresponse" THEN card ELSE proxy[1].n
    /\ usbIn' = Append(usbIn, [op |-> "apdu", ref |-> card', len |-> len, more |-> more])
    /\ proxy' = <<>>
    /\ UNCHANGED <<cardAtr, usbOut, half, torn, core0Vars, core1, modemVars>>

-----------------------------------------------------------------------------
(* main, on the first core.                                                *)

RequestAtr ==
    /\ core0 = "ask"
    /\ usbOut' = Append(usbOut, [op |-> "sendatr"])
    /\ core0' = "boot"
    /\ UNCHANGED <<cardAtr, proxy, card, usbIn, half, torn, atr, atrQueue, relayConfig, core1, modemVars>>

\* read_usb_atr, and the start of the second core once there is an ATR.  A
\* state request makes main ask again; configuration is taken in passing.
ReadUsbAtr ==
    LET msg == Head(usbIn) IN
    /\ core0 = "boot" /\ usbIn # <<>>
    /\ usbIn' = Tail(usbIn)
    /\ \/ /\ msg.op = "atr"
          /\ atr' = Parsed[msg.atr] /\ core0' = "loop"
          /\ relayConfig' = <<atr'>>
          /\ core1' = [Off EXCEPT !.pc = "waiting"]
          /\ UNCHANGED usbOut
       \/ /\ msg.op = "state"
          /\ usbOut' = Append(usbOut, [op |-> "state", ready |-> FALSE])
          /\ core0' = "ask"
          /\ UNCHANGED <<atr, relayConfig, core1>>
       \/ msg.op = "config" /\ UNCHANGED <<usbOut, core0, atr, relayConfig, core1>>
    /\ UNCHANGED <<cardAtr, proxy, card, half, torn, atrQueue, modemVars>>

\* A command of the modem has left the modem and not come back.
UnderWay == \/ modem.pc = "sent" \/ proxy # <<>> \/ half
            \/ \E i \in DOMAIN usbOut : usbOut[i].op = "apdu"
            \/ \E i \in DOMAIN usbIn : usbIn[i].op = "apdu"

\* The line is up: the second core is reset and starts the ATR's protocol.
Launch ==
    /\ core0 = "loop" /\ line
    /\ relayConfig' = <<atr>>
    /\ core1' = IF atr.protocol \in {0, 1} THEN [Off EXCEPT !.pc = "start"] ELSE Off
    /\ torn' = (torn \/ half) /\ half' = FALSE
    /\ interrupted' = (interrupted \/ UnderWay)
    /\ core0' = "high"
    /\ UNCHANGED <<cardAtr, proxy, card, usbOut, usbIn, atr, atrQueue, line, resets, modem, reply>>

LineDown == /\ core0 = "high" /\ ~line
            /\ core0' = "loop"
            /\ UNCHANGED <<cardAtr, usbVars, atr, atrQueue, relayConfig, core1, modemVars>>

\* The rest of main's loop: an ATR the second core has read replaces main's.
UpdateAtr == /\ core0 = "loop" /\ ~line /\ atrQueue # <<>>
             /\ atr' = Head(atrQueue) /\ atrQueue' = Tail(atrQueue)
             /\ UNCHANGED <<cardAtr, usbVars, core0, relayConfig, core1, modemVars>>

-----------------------------------------------------------------------------
(* read_usb_uart_apdu, on the second core.                                 *)

Reads == core1.pc \in {"waiting", "t0usb", "t1usb"}

\* Opcode and length.  Out of step they are anybody's guess, and the core may
\* wait for gigabytes.
ReadHeader ==
    /\ Reads /\ ~half /\ usbIn # <<>>
    /\ IF torn THEN core1' = [core1 EXCEPT !.pc = "garbled"] /\ UNCHANGED half
               ELSE half' = TRUE /\ UNCHANGED core1
    /\ UNCHANGED <<cardAtr, proxy, card, usbOut, usbIn, torn, core0Vars, modemVars>>

\* The data of a message that is not a response: the function calls itself
\* again.  An ATR goes to main, unless its queue of two is full.
ReadMeta ==
    LET msg == Head(usbIn) IN
    /\ Reads /\ half /\ (msg.op # "apdu" \/ core1.pc = "waiting")
    /\ usbIn' = Tail(usbIn) /\ half' = FALSE
    /\ atrQueue' = IF msg.op = "atr" /\ Len(atrQueue) < 2 THEN Append(atrQueue, Parsed[msg.atr]) ELSE atrQueue
    /\ usbOut' = IF msg.op = "state" THEN Append(usbOut, [op |-> "state", ready |-> TRUE]) ELSE usbOut
    /\ UNCHANGED <<cardAtr, proxy, card, torn, core0, atr, relayConfig, core1, modemVars>>

\* The data of a response.
Received == Reads /\ half /\ Head(usbIn).op = "apdu" /\ usbIn' = Tail(usbIn) /\ half' = FALSE

\* write_usb_uart_apdu.
Forward(n, ins) == usbOut' = Append(usbOut, [op |-> "apdu", n |-> n, ins |-> ins])

-----------------------------------------------------------------------------
(* Both protocols begin with the ATR.                                      *)

\* The modem gets the ATR if it is waiting for one.
SendAtr(protocol, pc, then) ==
    /\ core1.pc = "start" /\ relayConfig # <<>> /\ Head(relayConfig).protocol = protocol
    /\ relayConfig' = Tail(relayConfig)
    /\ core1' = [core1 EXCEPT !.pc = pc, !.seq = 1]
    /\ modem' = [modem EXCEPT !.pc = IF @ = "atr" THEN then ELSE @, !.expect = 0, !.regular = "fresh"]
    /\ UNCHANGED <<cardAtr, usbVars, core0, atr, atrQueue, line, resets, reply, interrupted>>

T0Start == SendAtr(0, "pps", "pps")
T1Start == SendAtr(1, "t1", "ready")

\* T=0 waits for a PPS request; without one the first four bytes of a command
\* are taken for it, and what follows is out of step.
ExchangePps ==
    /\ core1.pc = "pps" /\ modem.pc = "pps"
    /\ \/ core1' = [core1 EXCEPT !.pc = "t0"] /\ modem' = [modem EXCEPT !.pc = "ready"]
       \/ core1' = [core1 EXCEPT !.pc = "garbled"] /\ modem' = [modem EXCEPT !.pc = "sent"]
    /\ UNCHANGED <<cardAtr, usbVars, core0Vars, line, resets, reply, interrupted>>

-----------------------------------------------------------------------------
(* prot_t0.                                                                *)

\* What the modem gets for command n: the reference it asked for, the one it
\* got, the length it was promised (0: none) and the length that came.
Answer(ref, len) ==
    reply' = [want |-> IF modem'.ins = "getresponse" THEN modem.due.ref ELSE modem'.n,
              full |-> IF modem'.ins = "getresponse" THEN modem.due.len ELSE 0,
              ref |-> ref, len |-> len]

\* A modem that waits for an answer gets it; one that is in reset does not.
Listens(m, ref, len) ==
    IF modem.pc = "sent" THEN modem' = m /\ Answer(ref, len) ELSE UNCHANGED <<modem, reply>>

\* Mutant of T0Forward: what was cached for an earlier command stays.
T0ForwardKeeps(n, ins, le) ==
    /\ Forward(n, ins)
    /\ core1' = [core1 EXCEPT !.pc = "t0usb", !.le = le]

T0Forward(n, ins, le) ==
    /\ Forward(n, ins)
    /\ core1' = [core1 EXCEPT !.pc = "t0usb", !.le = le, !.cache = Off.cache]

\* A command: its case and P3 give le, the procedure byte and the data of
\* cases 3 and 4 are exchanged.  A GET RESPONSE is served from the cache, if
\* there is something in it, which is then kept.
T0Command(ins, le) ==
    LET cached == ins = "getresponse" /\ core1.cache.len > 0 IN
    /\ core1.pc = "t0" /\ modem.pc = "ready" /\ modem.n < MaxCmds
    /\ ins = "getresponse" => modem.due # NoDue
    /\ modem' = [modem EXCEPT !.n = @ + 1, !.ins = ins, !.pc = IF cached THEN "ready" ELSE "sent",
                              !.due = IF ins = "getresponse" /\ ~cached THEN @ ELSE NoDue]
    /\ \/ /\ cached
          /\ Answer(core1.cache.ref, core1.cache.len)
          /\ UNCHANGED <<usbOut, core1>>
       \/ /\ ~cached
          /\ T0Forward(modem'.n, ins, le)
          /\ UNCHANGED reply
    /\ UNCHANGED <<cardAtr, proxy, card, usbIn, half, torn, core0Vars, line, resets, interrupted>>

\* The commands of a modem: case 2 expects data, the other cases a status
\* word; GET RESPONSE expects as much as was announced, and 256 bytes for 0.
T0Sends == \/ \E le \in LongLe \cup {2} : T0Command("other", le)
           \/ T0Command("getresponse", IF modem.due.len = 0 THEN 258 ELSE modem.due.len)

\* Mutant of T0Answer: an empty response is passed over like no response.
T0AnswerWaits ==
    LET msg == Head(usbIn) IN
    /\ core1.pc = "t0usb" /\ Received
    /\ IF msg.len = 0 THEN UNCHANGED <<modem, core1, reply>>
       ELSE /\ Listens([modem EXCEPT !.pc = "ready", !.due = NoDue], msg.ref, msg.len)
            /\ core1' = [core1 EXCEPT !.pc = "t0"]
    /\ UNCHANGED <<cardAtr, proxy, card, usbOut, torn, core0Vars, line, resets, interrupted>>

\* The status word alone, or response and status word, or an announcement of
\* what is cached: 61 if it is longer than expected, 6C (command again) if it
\* is shorter.  The cached length has eight bits, the announced one too.
T0Answer ==
    LET msg == Head(usbIn)
        exact == msg.len = core1.le
        told == IF msg.len > core1.le THEN [ref |-> msg.ref, len |-> msg.len] ELSE NoDue
    IN
    /\ core1.pc = "t0usb" /\ Received
    /\ Listens([modem EXCEPT !.pc = "ready",
                              !.due = IF msg.len = 2 /\ msg.more THEN [ref |-> msg.ref, len |-> 0]
                                      ELSE IF msg.len = 2 \/ exact THEN NoDue ELSE told],
               msg.ref, IF msg.len = 2 \/ exact THEN msg.len ELSE modem.due.len)
    /\ core1' = [core1 EXCEPT !.pc = "t0", !.cache = IF msg.len = 2 \/ exact THEN @
                                                     ELSE [ref |-> msg.ref, len |-> msg.len % 256]]
    /\ UNCHANGED <<cardAtr, proxy, card, usbOut, torn, core0Vars, line, resets, interrupted>>

-----------------------------------------------------------------------------
(* prot_t1.  The sequence counter is kept modulo 2, as it is used.  The    *)
(* alarm that asks for more waiting time counts in a variable of its own   *)
(* (util.h defines seq in each file), so it does not disturb this one.     *)

Flip(b) == 1 - b

\* How many blocks t1_write_complete_buffer makes of a response.
Blocks(len, size) ==
    IF len % size = 0 /\ len # 0 THEN len \div size ELSE len \div size + 1

\* The reader has sent a block that shifts the numbering by one: right before
\* its first command, wrong after that.
Shifted == [modem EXCEPT !.regular = IF @ = "fresh" THEN "ok" ELSE "off"]

\* t1_read is over with a block of that kind, after a PPS request (echoed) or
\* a timeout if need be, which make prot_t1 read again.
T1Read == core1.pc = "t1" /\ modem.pc = "ready"

\* A damaged block is answered by an R block, which counts.
T1Damaged ==
    /\ T1Read
    /\ core1' = [core1 EXCEPT !.seq = Flip(@)]
    /\ modem' = [modem EXCEPT !.regular = "off"]
    /\ UNCHANGED <<cardAtr, usbVars, core0Vars, line, resets, reply, interrupted>>

\* t1_handle_s_block: IFSD and abort requests count, a resynchronisation
\* starts anew, a response of the reader changes nothing.
T1SBlock(kind, size) ==
    /\ T1Read
    /\ \/ /\ kind = "resync"
          /\ core1' = [core1 EXCEPT !.seq = 0, !.size = 32]
          /\ modem' = [modem EXCEPT !.expect = 0, !.regular = "ok"]
       \/ /\ kind = "ifsd"
          /\ core1' = [core1 EXCEPT !.seq = Flip(@), !.size = size]
          /\ modem' = Shifted
       \/ /\ kind = "abort"
          /\ core1' = [core1 EXCEPT !.seq = Flip(@)]
          /\ modem' = Shifted
    /\ UNCHANGED <<cardAtr, usbVars, core0Vars, line, resets, reply, interrupted>>

\* An R block that reports an error, or is none of the known ones, repeats the
\* last response (what prot_t1 keeps of it), which counts.
T1RBlock ==
    /\ T1Read
    /\ core1' = [core1 EXCEPT !.seq = Flip(@)]
    /\ modem' = [modem EXCEPT !.regular = "off"]
    /\ UNCHANGED <<cardAtr, usbVars, core0Vars, line, resets, reply, interrupted>>

\* An I block: a command.  It is forwarded and the alarm is set.
T1Command ==
    /\ T1Read /\ modem.n < MaxCmds
    /\ modem' = [modem EXCEPT !.n = @ + 1, !.pc = "sent",
                              !.regular = IF @ = "fresh" THEN "off" ELSE @]
    /\ Forward(modem'.n, "other")
    /\ core1' = [core1 EXCEPT !.pc = "t1usb"]
    /\ UNCHANGED <<cardAtr, proxy, card, usbIn, half, torn, core0Vars, line, resets, reply, interrupted>>

\* The reader after a block, the first or the last one of a response or not.
\* It cannot expect 1 of the first block of a chain: the Pico numbers the second
\* one 1 whatever the first was.
Took(first, last) ==
    [modem EXCEPT !.expect = Flip(@), !.regular = IF first /\ ~last /\ modem.expect = 1 THEN "off" ELSE @,
                  !.pc = IF last THEN "ready" ELSE @]

\* Mutant of T1Returned: every response counts for one.
T1ReturnedOne(seq, bit) == Flip(seq)

\* What prot_t1 adds: the sequence bit after the last block (pcb is 0 but for
\* that bit).
T1Returned(seq, bit) == IF bit = 1 THEN Flip(seq) ELSE seq

\* The response: its first block has the bit of the counter, and the blocks
\* after it are numbered from 1, whatever that was.
T1Answer ==
    LET msg == Head(usbIn)
        left == Blocks(msg.len, core1.size) - 1
    IN
    /\ core1.pc = "t1usb" /\ Received
    /\ Listens(Took(TRUE, left = 0), msg.ref, msg.len)
    /\ core1' = [core1 EXCEPT !.pc = IF left = 0 THEN "t1" ELSE "chain", !.left = left, !.cnt = 1, !.bit = 1,
                              !.seq = IF left = 0 THEN T1Returned(@, 1) ELSE @]
    /\ UNCHANGED <<cardAtr, proxy, card, usbOut, torn, core0Vars, line, resets, interrupted>>

\* Between two blocks of a response the reader acknowledges.  An R block with
\* an error makes the Pico send the old block with the next one's bit, and
\* count it; an S block is handled as ever, on the counter of this response
\* (one that changes the size leaves the number of blocks as it was); any
\* other block, or none, is passed over.
T1Chain(r) ==
    LET last == core1.left = 1
        was == CASE r \in {"ifsd", "abort"} -> Flip(core1.cnt) [] r = "resync" -> 0 [] OTHER -> core1.cnt
        cnt == Flip(was)
    IN
    /\ core1.pc = "chain" /\ modem.pc = "sent"
    /\ \/ /\ r = "error"
          /\ core1' = [core1 EXCEPT !.cnt = Flip(@)]
          /\ modem' = [modem EXCEPT !.regular = "off"]
       \/ /\ r # "error"
          /\ core1' = [core1 EXCEPT !.pc = IF last THEN "t1" ELSE @, !.left = @ - 1, !.cnt = cnt, !.bit = cnt,
                                    !.seq = IF last THEN T1Returned(@, cnt) ELSE @]
          /\ modem' = IF r = "ok" THEN Took(FALSE, last)
                      ELSE [modem EXCEPT !.regular = "off", !.pc = IF last THEN "ready" ELSE @]
    /\ UNCHANGED <<cardAtr, usbVars, core0Vars, line, resets, reply, interrupted>>

-----------------------------------------------------------------------------
(* The modem drives the reset line; a short pulse may escape main's poll.  *)

LineGoes(up) ==
    /\ line # up /\ line' = up
    /\ up => resets < MaxResets
    /\ resets' = IF up THEN resets + 1 ELSE resets
    /\ modem' = [modem EXCEPT !.pc = IF up THEN "atr" ELSE "reset", !.due = NoDue]
    /\ UNCHANGED <<cardAtr, usbVars, core0Vars, core1, reply, interrupted>>

Core0Step == RequestAtr \/ ReadUsbAtr \/ Launch \/ LineDown \/ UpdateAtr
Core1Step == ReadHeader \/ ReadMeta \/ T0Start \/ T1Start \/ T0Answer \/ T1Answer
ProxyStep == ProxyReads \/ \E len \in Lens, more \in BOOLEAN : ProxyAnswers(len, more)
ModemStep == \/ ExchangePps \/ T0Sends \/ T1Command \/ T1Damaged \/ T1RBlock
             \/ \E kind \in {"resync", "ifsd", "abort"}, size \in Ifsd : T1SBlock(kind, size)
             \/ \E r \in {"ok", "error", "ifsd", "abort", "resync", "other"} : T1Chain(r)
             \/ \E up \in BOOLEAN : LineGoes(up)

PicoNext == Core0Step \/ Core1Step \/ ProxyStep \/ ModemStep

PicoSpec == PicoInit /\ [][PicoNext]_picoVars

-----------------------------------------------------------------------------
(* Properties                                                              *)

\* Unless a reset has cut a command short, what the modem gets is the response
\* to its own command, or the one it was told to fetch, and all of it as long
\* as its length fits the eight bits of len_response_cache.
RepliesMatch ==
    ~interrupted => /\ reply.ref = reply.want
                    /\ reply.full \in 1..255 => reply.len = reply.full

\* The sequence counter agrees with the reader's (T=1), and so does the number
\* of each block of a chain, if the reader asks for IFSD (or aborts) exactly once
\* before its first command or resynchronises, repeats and interrupts nothing,
\* and expects a 0 of the first block of a chain.
SequenceHolds ==
    modem.regular = "ok" /\ modem.pc \in {"ready", "sent"}
        => /\ core1.pc \in {"t1", "t1usb"} => core1.seq = modem.expect
           /\ core1.pc = "chain" => core1.bit = modem.expect

\* A command that no reset cuts short is answered, if the proxy, the tunnel
\* and both cores go on, or the Pico is out of step since the PPS exchange.
Served ==
    modem.pc = "sent" /\ ~interrupted /\ core1.pc # "garbled"
        ~> modem.pc # "sent" \/ interrupted \/ core1.pc = "garbled"

\* parse_ATR agrees with the structure of the ATR.
AtrParsed == Agrees[cardAtr]
=============================================================================
