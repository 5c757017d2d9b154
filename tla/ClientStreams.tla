---------------------------- MODULE ClientStreams ---------------------------
(***************************************************************************)
(* A client of the tunnel server (moatt_clients): it opens a connection,   *)
(* authenticates, asks for a SIM (probe) or waits for a request            *)
(* (provider), and then exchanges APDU packets.  The bytes of the server   *)
(* arrive in pieces of any size: RawStream keeps what was read too much,   *)
(* read_message asks for what its decoder misses, and ApduStream.recv      *)
(* collects a packet from what there is.                                   *)
(*                                                                         *)
(* A probe runs inside a ModemTunnel, which registers a session first and  *)
(* sends a command only after the response to the one before.  The server  *)
(* is external here: it keeps to the protocol or sends garbage, sends what *)
(* it likes when it is its turn, and may close the connection at any time. *)
(***************************************************************************)
EXTENDS ConnectMessages, SequencesExt

CONSTANTS Token,       \* the bytes of the session token
          Idents,      \* identifiers of SIMs that are asked for
          Payloads,     \* APDU packets that are exchanged
          MaxPackets   \* bound: APDU packets the server sends

\* An Iccid or Imsi of so many digits, a SimId or SimIndex of 16 bytes and a
\* number of 32 bits.
IsIdentifier(x) ==
    \/ /\ x.type \in {1, 2} /\ x = [type |-> x.type, digits |-> x.digits]
       /\ x.digits \in Seq(48..57) /\ Len(x.digits) \in 5..(IF x.type = 1 THEN 20 ELSE 15)
    \/ /\ x.type \in {0, 3} /\ x = [type |-> x.type, provider |-> x.provider, number |-> x.number]
       /\ x.provider \in Seq(0..255) /\ Len(x.provider) = 16
       /\ x.number \in Nat /\ x.number \div 65536 < 65536

ASSUME ClientAssumption == /\ Token \in Seq(0..255) /\ Len(Token) < 65536 /\ MaxPackets \in Nat
                           /\ Payloads \subseteq [op : ApduOps, payload : Seq(0..255)]
                           /\ \A p \in Payloads : Len(p.payload) < 1024
                           /\ \A x \in Idents : IsIdentifier(x)

VARIABLES
    role,      \* "probe" or "provider"
    session,   \* the probe's session: "none", "held" or "dropped"
    cpc,       \* where the client is
    frag,      \* the bytes of the message that is being read
    rbuf,      \* RawStream.buf
    wire,      \* bytes of the server on their way
    hangup,    \* the server has closed its side
    upstream,  \* messages of the client on their way, encoded
    spc,       \* the server: what it waits for
    meant,     \* history: the messages the client has sent
    taken,     \* history: the messages the server has decoded
    said,      \* history: the messages the server has sent
    heard      \* history: the messages the client has decoded

streamVars == <<role, session, cpc, frag, rbuf, wire, hangup, upstream, spc, meant, taken, said, heard>>
serverSide == <<wire, hangup, spc, taken, said>>

ClientTypeOK ==
    /\ role \in {"probe", "provider"} /\ session \in {"none", "held", "dropped"}
    /\ cpc \in {"register", "open", "auth", "await", "up", "asked", "closed", "malformed"}
    /\ spc \in {"auth", "request", "response", "up", "refused"}
    /\ \A i \in DOMAIN rbuf : rbuf[i] \in 0..255

ClientInit ==
    /\ role \in {"probe", "provider"} /\ session = "none"
    /\ cpc = IF role = "probe" THEN "register" ELSE "open"
    /\ frag = <<>> /\ rbuf = <<>> /\ wire = <<>> /\ hangup = FALSE /\ upstream = <<>>
    /\ spc = "auth" /\ meant = <<>> /\ taken = <<>> /\ said = <<>> /\ heard = <<>>

-----------------------------------------------------------------------------
(* RawStream                                                               *)

\* write_all.
Writes(message, bytes) == upstream' = Append(upstream, bytes) /\ meant' = Append(meant, message)
NoWrite == UNCHANGED <<upstream, meant>>

\* The decoder of the message the client waits for.
Decode(bytes) ==
    CASE cpc = "auth" -> decode_AuthResponse(bytes)
      [] cpc = "await" /\ role = "probe" -> decode_ConnectResponse(bytes)
      [] cpc = "await" /\ role = "provider" -> decode_ConnectRequest(bytes)
      [] OTHER -> decode_ApduPacket(bytes)

Waits == cpc \in {"auth", "await", "asked"} \/ (cpc = "up" /\ role = "provider")
InMessage == cpc \in {"auth", "await"}

\* ApduStream._bytes_missing, and what a decoder says is missing.
Missing == Decode(frag).missing

\* read_exactly waits until there is enough, read for anything at all.
Starved == Waits /\ IF InMessage THEN Len(rbuf) < Missing ELSE rbuf = <<>>

\* _fill_buf: n bytes arrive.
FillBuf(n) ==
    /\ Starved /\ n \in 1..Len(wire)
    /\ rbuf' = rbuf \o SubSeq(wire, 1, n)
    /\ wire' = SubSeq(wire, n + 1, Len(wire))
    /\ UNCHANGED <<role, session, cpc, frag, hangup, upstream, spc, meant, taken, said, heard>>

\* deregister_probe: ModemTunnel gives its session up, whatever is returned.
DeregisterProbe == session' = IF session = "held" THEN "dropped" ELSE session

\* close, after an error while the connection is set up.
Abandon(pc) == cpc' = pc /\ rbuf' = <<>> /\ frag' = <<>> /\ DeregisterProbe

\* ModemTunnel.shutdown, after the end of the stream: the stream is closed, and
\* then a function that does not exist (deregister) is called.
Shutdown == cpc' = "closed" /\ rbuf' = <<>> /\ frag' = <<>> /\ UNCHANGED session

\* The end of the stream.  Amid a message, or while the connection is set up,
\* it is an EOFError, between two packets it is the end.
ReadEof ==
    /\ Starved /\ hangup /\ wire = <<>>
    /\ IF InMessage THEN Abandon("closed") ELSE Shutdown
    /\ NoWrite
    /\ UNCHANGED <<role, serverSide, heard>>

-----------------------------------------------------------------------------
(* The clients                                                             *)

\* register_probe: a session token of the management server, or an exception
\* (an error status, or an answer without a well-formed token).
NewSession(ok) == session' = IF ok THEN "held" ELSE "none"

\* ModemTunnel's constructor, up to its session.
RegisterProbe(ok) ==
    /\ cpc = "register"
    /\ NewSession(ok)
    /\ cpc' = IF ok THEN "open" ELSE "closed"
    /\ NoWrite
    /\ UNCHANGED <<role, frag, rbuf, serverSide, heard>>

\* The connection is opened, or not, and the client sends its token.
Open(ok) ==
    LET request == [authType |-> IF role = "probe" THEN 2 ELSE 1, token |-> Token] IN
    /\ cpc = "open"
    /\ \/ ok /\ cpc' = "auth" /\ Writes(request, encode_AuthRequest(request)) /\ UNCHANGED <<session, rbuf, frag>>
       \/ ~ok /\ Abandon("closed") /\ NoWrite
    /\ UNCHANGED <<role, serverSide, heard>>

\* _authenticate, after the response.  A probe goes on with its request.
Authenticated(response, ident, flags) ==
    LET request == [flags |-> flags, identifier |-> ident] IN
    IF response.status # Success THEN Abandon("closed") /\ NoWrite
    ELSE /\ cpc' = "await" /\ frag' = <<>> /\ UNCHANGED session
         /\ IF role = "probe" THEN Writes(request, encode_ConnectRequest(request)) ELSE NoWrite

\* ProbeClient._connect, after the response.
Connected(response) ==
    /\ NoWrite
    /\ IF response.status # Success THEN Abandon("closed")
       ELSE cpc' = "up" /\ frag' = <<>> /\ UNCHANGED session

\* ProviderClient._wait_for_connection, after a request: the callback decides.
Requested(status) ==
    /\ Writes([status |-> status], encode_Response([status |-> status]))
    /\ IF status # Success THEN Abandon("closed")
       ELSE cpc' = "up" /\ frag' = <<>> /\ UNCHANGED session

\* read_message: as much as the decoder has asked for.
ReadMessage(ident, flags, status) ==
    LET all == frag \o SubSeq(rbuf, 1, Missing)
        d == Decode(all)
        left == SubSeq(rbuf, Missing + 1, Len(rbuf))
    IN
    /\ InMessage /\ Len(rbuf) >= Missing
    /\ \/ d.tag = "partial" /\ frag' = all /\ rbuf' = left /\ NoWrite /\ UNCHANGED <<cpc, session, heard>>
       \/ d.tag = "malformed" /\ Abandon("malformed") /\ NoWrite /\ UNCHANGED heard
       \/ /\ d.tag = "ok"
          /\ heard' = Append(heard, d.message)
          /\ \/ cpc = "auth" /\ Authenticated(d.message, ident, flags)
             \/ cpc = "await" /\ role = "probe" /\ Connected(d.message)
             \/ cpc = "await" /\ role = "provider" /\ Requested(status)
          /\ rbuf' = IF cpc' = "closed" THEN <<>> ELSE left
    /\ UNCHANGED <<role, serverSide>>

\* ApduStream.recv: as much as there is of what is missing.  A provider
\* answers, as its caller would.
RecvApdu(response) ==
    LET n == IF Missing <= Len(rbuf) THEN Missing ELSE Len(rbuf)
        all == frag \o SubSeq(rbuf, 1, n)
        d == Decode(all)
    IN
    /\ Waits /\ ~InMessage /\ rbuf # <<>>
    /\ rbuf' = SubSeq(rbuf, n + 1, Len(rbuf))
    /\ \/ d.tag = "partial" /\ frag' = all /\ NoWrite /\ UNCHANGED <<cpc, heard>>
       \/ d.tag = "malformed" /\ cpc' = "malformed" /\ frag' = <<>> /\ NoWrite /\ UNCHANGED heard
       \/ /\ d.tag = "ok" /\ frag' = <<>> /\ cpc' = "up"
          /\ heard' = Append(heard, d.message)
          /\ IF role = "provider" THEN Writes(response, encode_ApduPacket(response)) ELSE NoWrite
    /\ UNCHANGED <<role, session, serverSide>>

\* handle_apdu_indirect: a command of the modem goes out.
HandleApdu(p) ==
    /\ cpc = "up" /\ role = "probe"
    /\ Writes(p, encode_ApduPacket(p))
    /\ cpc' = "asked"
    /\ UNCHANGED <<role, session, frag, rbuf, serverSide, heard>>

-----------------------------------------------------------------------------
(* The server                                                              *)

Says(message, bytes) == wire' = wire \o bytes /\ said' = Append(said, message)
IsUp == spc = "up" /\ ~hangup

\* It reads a message of the client and acts on it.
ServerReads(status, ident) ==
    LET bytes == Head(upstream)
        d == CASE spc = "auth" -> decode_AuthRequest(bytes)
               [] spc = "request" -> decode_ConnectRequest(bytes)
               [] spc = "response" -> decode_ConnectResponse(bytes)
               [] OTHER -> decode_ApduPacket(bytes)
    IN
    /\ upstream # <<>> /\ spc # "refused" /\ ~hangup
    /\ upstream' = Tail(upstream)
    /\ taken' = Append(taken, IF d.tag = "ok" THEN d.message ELSE d)
    /\ \/ /\ spc = "auth" /\ status \in AuthStatuses
          /\ LET ask == [flags |-> 0, identifier |-> ident]
                 ok == status = Success
             IN /\ spc' = IF ~ok THEN "refused" ELSE IF role = "probe" THEN "request" ELSE "response"
                /\ wire' = wire \o encode_Response([status |-> status]) \o
                             IF ok /\ role = "provider" THEN encode_ConnectRequest(ask) ELSE <<>>
                /\ said' = said \o <<[status |-> status]>> \o IF ok /\ role = "provider" THEN <<ask>> ELSE <<>>
       \/ /\ spc = "request" /\ status \in ConnectStatuses
          /\ spc' = IF status = Success THEN "up" ELSE "refused"
          /\ Says([status |-> status], encode_Response([status |-> status]))
       \/ /\ spc = "response"
          /\ spc' = IF taken'[Len(taken')].status = Success THEN "up" ELSE "refused"
          /\ UNCHANGED <<wire, said>>
       \/ spc = "up" /\ UNCHANGED <<spc, wire, said>>
    /\ UNCHANGED <<role, session, cpc, frag, rbuf, hangup, meant, heard>>

Relayed == Len(SelectSeq(said, LAMBDA m : "op" \in DOMAIN m))

ServerRelays(p) ==
    /\ IsUp /\ Relayed < MaxPackets
    /\ Says(p, encode_ApduPacket(p))
    /\ UNCHANGED <<role, session, cpc, frag, rbuf, hangup, upstream, spc, meant, taken, heard>>

\* Another version of the protocol answers, or something else does.
Garbage == <<2, 1, 0, 0, 0, 0>>
ServerGarbles ==
    /\ spc # "refused" /\ ~hangup /\ wire = <<>> /\ spc' = "refused"
    /\ Says([garbage |-> TRUE], Garbage)
    /\ UNCHANGED <<role, session, cpc, frag, rbuf, hangup, upstream, meant, taken, heard>>

ServerCloses ==
    /\ ~hangup /\ hangup' = TRUE
    /\ UNCHANGED <<role, session, cpc, frag, rbuf, wire, upstream, spc, meant, taken, said, heard>>

ClientNext ==
    \/ \E n \in 1..Len(wire) : FillBuf(n)
    \/ ReadEof
    \/ \E ok \in BOOLEAN : RegisterProbe(ok) \/ Open(ok)
    \/ \E ident \in Idents, flags \in Flags, status \in {0, 1} : ReadMessage(ident, flags, status)
    \/ \E p \in Payloads : RecvApdu(p) \/ HandleApdu(p) \/ ServerRelays(p)
    \/ \E status \in ConnectStatuses, ident \in Idents : ServerReads(status, ident)
    \/ ServerGarbles \/ ServerCloses

ClientSpec == ClientInit /\ [][ClientNext]_streamVars

-----------------------------------------------------------------------------
(* Properties                                                              *)

\* Whatever pieces the bytes arrive in, each side decodes exactly the messages
\* the other one has sent, in order, and a client gives a message up as
\* malformed only if it is: what follows garbage is never taken for a message.
Delivered ==
    /\ IsPrefix(heard, said) /\ IsPrefix(taken, meant)
    /\ cpc = "malformed" => [garbage |-> TRUE] \in Range(said)
=============================================================================
