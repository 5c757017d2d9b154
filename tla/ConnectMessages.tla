-------------------------- MODULE ConnectMessages ---------------------------
(***************************************************************************)
(* The messages of the tunnel protocol (moatt_types/connect.py), byte by   *)
(* byte: encode of each class and decode, which returns a message, raises  *)
(* PartialInput with the number of bytes that are missing, or raises a     *)
(* ValueError.  A byte is 0..255, a string its ASCII bytes.  Identifiers   *)
(* of SIMs and providers that need all of 64 bits are left out: TLC's      *)
(* integers have 32.                                                       *)
(***************************************************************************)
EXTENDS Integers, Sequences

Partial(n) == [tag |-> "partial", missing |-> n]
Malformed == [tag |-> "malformed"]
Ok(message) == [tag |-> "ok", message |-> message]

\* struct.pack and unpack, big endian, for a field of n bytes.
Pack(x, n) == [i \in 1..n |-> IF n - i > 3 THEN 0 ELSE (x \div 256^(n - i)) % 256]
Unpack(s) == LET value[i \in 0..4] == IF i = 0 THEN 0 ELSE value[i - 1] * 256 + s[Len(s) - 4 + i]
             IN IF Len(s) = 2 THEN s[1] * 256 + s[2] ELSE value[4]

Zeros(n) == [i \in 1..n |-> 0]
Rest(msg, from) == SubSeq(msg, from, Len(msg))

\* Enums: the values of AuthType, AuthStatus, ConnectStatus, ApduOp and
\* ConnectionRequestFlags.
AuthTypes == {1, 2}
AuthStatuses == {0, 1, 3}
ConnectStatuses == 0..4
ApduOps == {0, 1}
Flags == {0, 1}
Success == 0

-----------------------------------------------------------------------------
(* ApduPacket                                                              *)

\* Mutant of encode_ApduPacket: the length of the whole packet.
encode_ApduPacketWhole(p) == <<1, p.op>> \o Pack(Len(p.payload) + 6, 4) \o p.payload

encode_ApduPacket(p) == <<1, p.op>> \o Pack(Len(p.payload), 4) \o p.payload

decode_ApduPacket(msg) ==
    IF Len(msg) < 6 THEN Partial(6 - Len(msg))
    ELSE LET size == 6 + Unpack(SubSeq(msg, 3, 6)) IN
         IF msg[1] # 1 \/ msg[2] \notin ApduOps THEN Malformed
         ELSE IF Len(msg) < size THEN Partial(size - Len(msg))
         ELSE IF Len(msg) > size \/ size - 6 >= 1024 THEN Malformed
         ELSE Ok([op |-> msg[2], payload |-> Rest(msg, 7)])

-----------------------------------------------------------------------------
(* SIM identifiers: type 0 SimId, 1 Iccid, 2 Imsi, 3 SimIndex              *)

Digits(s) == \A i \in DOMAIN s : s[i] \in 48..57

\* Imsi and Iccid: at most LEN digits, padded with zeros.
encode_Digits(s, len) == s \o Zeros(len - Len(s))

\* rstrip(b"\x00").
Stripped(s) ==
    LET kept == {n \in 0..Len(s) : \A i \in (n + 1)..Len(s) : s[i] = 0}
    IN SubSeq(s, 1, CHOOSE n \in kept : \A k \in kept : n <= k)

decode_Imsi(msg) ==
    CASE Len(msg) < 15 -> Partial(15 - Len(msg))
      [] Len(msg) > 15 -> Malformed
      [] OTHER -> LET s == Stripped(msg) IN
                  IF Digits(s) /\ Len(s) >= 5 THEN Ok([type |-> 2, digits |-> s]) ELSE Malformed

decode_Iccid(msg) ==
    CASE Len(msg) < 20 -> Partial(20 - Len(msg))
      [] Len(msg) > 20 -> Malformed
      [] OTHER -> LET s == Stripped(msg) IN
                  IF Digits(s) /\ Len(s) >= 5 THEN Ok([type |-> 1, digits |-> s]) ELSE Malformed

\* SimId and SimIndex: the 16 bytes of the provider's UUID and 8 of a number.
encode_SimId(x) == x.provider \o Pack(x.number, 8)

decode_SimId(msg) ==
    CASE Len(msg) < 24 -> Partial(24 - Len(msg))
      [] Len(msg) > 24 -> Malformed
      [] OTHER -> Ok([type |-> 0, provider |-> SubSeq(msg, 1, 16), number |-> Unpack(Rest(msg, 21))])

decode_SimIndex(msg) ==
    CASE Len(msg) < 24 -> Partial(24 - Len(msg))
      [] Len(msg) > 24 -> Malformed
      [] OTHER -> Ok([type |-> 3, provider |-> SubSeq(msg, 1, 16), number |-> Unpack(Rest(msg, 21))])

-----------------------------------------------------------------------------
(* The messages that open a connection                                     *)

encode_AuthRequest(m) == <<1, m.authType>> \o Pack(Len(m.token), 2) \o m.token

decode_AuthRequest(msg) ==
    IF Len(msg) < 4 THEN Partial(4 - Len(msg))
    ELSE LET size == 4 + Unpack(SubSeq(msg, 3, 4)) IN
         IF msg[1] # 1 THEN Malformed
         ELSE IF Len(msg) < size THEN Partial(size - Len(msg))
         ELSE IF Len(msg) > size \/ msg[2] \notin AuthTypes THEN Malformed
         ELSE Ok([authType |-> msg[2], token |-> Rest(msg, 5)])

\* AuthResponse and ConnectResponse: version and status.
encode_Response(m) == <<1, m.status>>

decode_AuthResponse(msg) ==
    CASE Len(msg) < 2 -> Partial(2 - Len(msg))
      [] Len(msg) > 2 -> Malformed
      [] OTHER -> IF msg[1] = 1 /\ msg[2] \in AuthStatuses THEN Ok([status |-> msg[2]]) ELSE Malformed

decode_ConnectResponse(msg) ==
    CASE Len(msg) < 2 -> Partial(2 - Len(msg))
      [] Len(msg) > 2 -> Malformed
      [] OTHER -> IF msg[1] = 1 /\ msg[2] \in ConnectStatuses THEN Ok([status |-> msg[2]]) ELSE Malformed

encode_ConnectRequest(m) ==
    <<1, m.flags, m.identifier.type>> \o
        CASE m.identifier.type = 1 -> encode_Digits(m.identifier.digits, 20)
          [] m.identifier.type = 2 -> encode_Digits(m.identifier.digits, 15)
          [] OTHER -> encode_SimId(m.identifier)

decode_ConnectRequest(msg) ==
    IF Len(msg) < 3 THEN Partial(3 - Len(msg))
    ELSE LET ident == CASE msg[3] = 0 -> decode_SimId(Rest(msg, 4))
                        [] msg[3] = 1 -> decode_Iccid(Rest(msg, 4))
                        [] msg[3] = 2 -> decode_Imsi(Rest(msg, 4))
                        [] msg[3] = 3 -> decode_SimIndex(Rest(msg, 4))
                        [] OTHER -> Malformed
         IN IF msg[1] # 1 \/ msg[2] \notin Flags THEN Malformed
            ELSE IF ident.tag # "ok" THEN ident
            ELSE Ok([flags |-> msg[2], identifier |-> ident.message])
=============================================================================
