----------------------------- MODULE MCSimPath -------------------------------
(***************************************************************************)
(* Both ends of the path of an APDU: the Pico and its proxy, which take it *)
(* from the modem, and the relay of the tunnel server.  A behaviour looks  *)
(* at one of them, chosen initially; part "atr" only looks at how the Pico *)
(* reads many an answer to reset.                                          *)
(***************************************************************************)
EXTENDS ApduRelay, PicoTunnel

VARIABLE part

pathVars == <<vars, picoVars, part>>

\* Two commands of the probe and one response to them.
TwoCommands == [s \in Sides |-> IF s = "probe" THEN 2 ELSE 1]

\* A T=1 card and a T=0 card.
TwoCards == {<<59, 255, 19, 0, 255, 129, 49, 254, 65, 69>>, <<59, 159, 149, 128, 31, 199>>}

\* Interface bytes that y announces: each present or not, td the last of them.
Interface(y, n, td) == (IF y % 2 = 1 THEN <<148 + n>> ELSE <<>>)
                       \o (IF (y \div 2) % 2 = 1 THEN <<64 + n>> ELSE <<>>)
                       \o (IF (y \div 4) % 2 = 1 THEN <<n>> ELSE <<>>)
                       \o (IF y \div 8 = 1 THEN <<td>> ELSE <<>>)

\* ATRs with one to three groups, for T=0, T=1 and others, and with a fourth.
ManyAtrs == TwoCards \cup
    {<<59, 128, 129, 128 + t>> \o Interface(15, 2, 16 * y + t) \o Interface(y, 3, 0)
        : t \in {1, 15}, y \in {0, 2, 7}} \cup
    {<<59, 16 * y1>> \o Interface(y1, 1, 16 * y2 + t1)
                     \o (IF y1 \div 8 = 1 THEN Interface(y2, 2, 16 * y3 + t2) ELSE <<>>)
                     \o (IF y1 \div 8 = 1 /\ y2 \div 8 = 1 THEN Interface(y3, 3, 0) ELSE <<>>)
        : y1 \in {1, 6, 8, 9, 13, 15}, y2 \in {0, 5, 8, 10, 15}, y3 \in {0, 1, 2, 5, 7},
          t1 \in {0, 1, 15}, t2 \in {0, 1, 15}}

PathInit ==
    /\ Init /\ PicoInit
    /\ part \in {"relay", "pico", "atr"}
    /\ part = "atr" \/ cardAtr \in TwoCards
    /\ part = "relay" => cardAtr[2] = 255

RelayNext == part = "relay" /\ Next /\ UNCHANGED <<picoVars, part>>
PicoTunnelNext == part = "pico" /\ PicoNext /\ UNCHANGED <<vars, part>>

RelayFrame == UNCHANGED <<picoVars, part>>
PicoFrame == UNCHANGED <<vars, part>>

\* The relay's fairness is that of its FairSpec.  Both cores of the Pico and
\* the proxy loop, and a modem sends all blocks of a chain.
PathFairness ==
    /\ \A s \in Sides : /\ WF_pathVars(part = "relay" /\ (Recv(s) \/ RecvOver(s)) /\ RelayFrame)
                        /\ WF_pathVars(part = "relay" /\ Flush(s) /\ RelayFrame)
    /\ WF_pathVars(part = "relay" /\ HandlerStep /\ RelayFrame)
    /\ WF_pathVars(part = "pico" /\ Core0Step /\ PicoFrame)
    /\ WF_pathVars(part = "pico" /\ Core1Step /\ PicoFrame)
    /\ WF_pathVars(part = "pico" /\ ProxyStep /\ PicoFrame)
    /\ WF_pathVars(part = "pico" /\ T1Chain("ok") /\ PicoFrame)

PathSpec == PathInit /\ [][RelayNext \/ PicoTunnelNext]_pathVars /\ PathFairness
=============================================================================
