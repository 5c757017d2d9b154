---------------------------- MODULE DuplexChannel ----------------------------
(***************************************************************************)
(* What a tunnel promises its two ends: each direction is a FIFO channel   *)
(* that delivers every packet once and in order, until it breaks; what is  *)
(* lost then is the end of the stream, never something in the middle.      *)
(***************************************************************************)
EXTENDS Naturals, Sequences, SequencesExt

CONSTANTS Sides, Packets

VARIABLES
  sent,     \* the packets sent to each side
  transit,  \* the packets on their way to each side
  got,      \* the packets each side has received
  broken    \* nothing more gets on its way to that side

Init ==
  /\ sent = [s \in Sides |-> <<>>]
  /\ transit = [s \in Sides |-> <<>>]
  /\ got = [s \in Sides |-> <<>>]
  /\ broken = [s \in Sides |-> FALSE]

\* A packet sent into a broken direction is lost.
Send(s, p) ==
  /\ sent' = [sent EXCEPT ![s] = Append(@, p)]
  /\ transit' = [transit EXCEPT ![s] = IF broken[s] THEN @ ELSE Append(@, p)]
  /\ UNCHANGED <<got, broken>>

\* What is left of a direction is `rest', or the direction breaks and loses
\* what follows some point of it.
Remains(s, rest) ==
  /\ IsPrefix(transit'[s], rest)
  /\ broken[s] \/ transit'[s] # rest => broken'[s]

\* The next packet arrives; the direction may break with it.
Deliver(s) ==
  /\ transit[s] # <<>>
  /\ got' = [got EXCEPT ![s] = Append(@, Head(transit[s]))]
  /\ Remains(s, Tail(transit[s]))
  /\ \A r \in Sides \ {s} : transit'[r] = transit[r] /\ broken'[r] = broken[r]
  /\ UNCHANGED sent

\* One direction, or both, break.
Break ==
  /\ \A s \in Sides : Remains(s, transit[s])
  /\ UNCHANGED <<sent, got>>

Next ==
  \/ \E s \in Sides : Deliver(s) \/ \E p \in Packets : Send(s, p)
  \/ Break

Spec == Init /\ [][Next]_<<sent, transit, got, broken>>
=============================================================================
