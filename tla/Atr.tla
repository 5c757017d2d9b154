-------------------------------- MODULE Atr ---------------------------------
(***************************************************************************)
(* parse_ATR of the Pico tunnel (util.c): what a card's answer to reset    *)
(* says about the protocol and its parameters, as the code computes it and *)
(* as its structure (groups of interface bytes, each announced by the one  *)
(* before) has it.  Bytes are 0..255.  The inverse convention (first byte  *)
(* 3F) is left out: the code keeps a pointer into its stack frame then.    *)
(***************************************************************************)
EXTENDS Integers, Sequences, FiniteSets

Bit(b, k) == (b \div 2^k) % 2
T(td) == td % 16

\* How many of the bytes TA, TB, TC and TD follow a byte that announces them.
Announced(b) == Bit(b, 4) + Bit(b, 5) + Bit(b, 6) + Bit(b, 7)

\* convert_f and convert_d: the conversion tables, with their default.
convert_f(ta1) ==
    LET f == ta1 \div 16
        table == [i \in {2, 3, 4, 5, 6, 9, 10, 11, 12, 13} |->
                    CASE i = 2 -> 558  [] i = 3 -> 744  [] i = 4 -> 1116 [] i = 5 -> 1408
                      [] i = 6 -> 1860 [] i = 9 -> 512  [] i = 10 -> 768 [] i = 11 -> 1024
                      [] i = 12 -> 1536 [] i = 13 -> 2048]
    IN IF f \in DOMAIN table THEN table[f] ELSE 372

convert_d(ta1) ==
    LET d == ta1 % 16
    IN CASE d \in 1..6 -> 2^(d - 1) [] d = 8 -> 12 [] d = 9 -> 20 [] OTHER -> 1

\* calculate_baudrate, in 32 bits.
calculate_baudrate(fi, di, clk) == ((clk * di) % 2^32) \div fi

\* The byte with C index i.
At(p, i) == p[i + 1]

\* The defaults, T0 and the first group.  Protocol 2 stands for any other.
FirstGroup(p) ==
    LET t0 == At(p, 1)
        ta1 == Bit(t0, 4) = 1
        td1 == IF Bit(t0, 7) = 1 THEN At(p, 1 + Announced(t0)) ELSE 0
        other == Bit(t0, 7) = 1 /\ T(td1) > 1
    IN [D |-> IF ta1 /\ ~other THEN convert_d(At(p, 2)) ELSE 1,
        F |-> IF ta1 /\ ~other THEN convert_f(At(p, 2)) ELSE 372,
        protocol |-> IF Bit(t0, 7) = 1 /\ T(td1) <= 1 THEN T(td1) ELSE 2,
        IFSC |-> 32, BWI |-> 4, CWI |-> 13,
        index |-> 2 + Announced(t0), td |-> td1]

\* The second group is skipped but for TD2.
SecondGroup(p) ==
    LET g == FirstGroup(p)
        next == g.index + Announced(g.td)
    IN [g EXCEPT !.index = next, !.td = IF Bit(g.td, 7) = 1 THEN At(p, next - 1) ELSE 0]

\* Mutant of LaterGroup: TC is not skipped.
LaterGroupShort(p, g) ==
    LET next == g.index + Announced(g.td) - Bit(g.td, 6)
    IN [g EXCEPT !.IFSC = IF Bit(g.td, 4) = 1 THEN At(p, g.index) ELSE 32,
                 !.index = next,
                 !.td = IF Bit(g.td, 7) = 1 THEN At(p, next - 1) ELSE 0]

\* One turn of the loop over the groups from the third on.  Their parameters
\* are taken if the protocol of the next group, or else of this one, is 0 or 1.
LaterGroup(p, g) ==
    LET b(k) == At(p, g.index + k)
        next == g.index + Announced(g.td)
        more == Bit(g.td, 7) = 1
        tdNext == IF more THEN At(p, next - 1) ELSE 0
        counts == T(IF more THEN tdNext ELSE g.td) <= 1
        tb == Bit(g.td, 5) = 1
    IN [g EXCEPT !.IFSC = IF ~counts THEN @ ELSE IF Bit(g.td, 4) = 1 THEN b(0) ELSE 32,
                 !.BWI = IF ~counts THEN @ ELSE IF tb THEN b(Bit(g.td, 4)) \div 16 ELSE 4,
                 !.CWI = IF ~counts THEN @ ELSE IF tb THEN b(Bit(g.td, 4)) % 16 ELSE 13,
                 !.index = next, !.td = tdNext]

parse_ATR(p) ==
    LET walk[n \in Nat] ==
          IF n = 0 THEN SecondGroup(p)
          ELSE LET g == walk[n - 1] IN IF g.td < 16 THEN g ELSE LaterGroup(p, g)
    IN walk[Len(p)]

-----------------------------------------------------------------------------
(* The structure of an ATR, to compare with.                               *)

\* Where the groups of interface bytes start: <<announcing byte, C index>>.
\* The first is announced by T0, each other one by TD of the group before it.
Starts(p) ==
    LET start[n \in Nat] ==
          IF n <= 1 THEN <<At(p, 1), 2>>
          ELSE LET a == start[n - 1]
                   next == a[2] + Announced(a[1])
               IN IF Bit(a[1], 7) = 1 /\ next <= Len(p) THEN <<At(p, next - 1), next>> ELSE <<0, next>>
    IN start

\* A group without TD is the last one.
Groups(p) ==
    LET start == Starts(p)
        many == CHOOSE n \in 1..Len(p) : Bit(start[n][1], 7) = 0 /\ \A k \in 1..(n - 1) : Bit(start[k][1], 7) = 1
    IN [n \in 1..many |-> start[n]]

\* TX of a group, if it is there: X = 0 for TA, 1 for TB, 2 for TC, 3 for TD.
Byte(p, g, X) == At(p, g[2] + Cardinality({k \in 0..(X - 1) : Bit(g[1], 4 + k) = 1}))
Has(g, X) == Bit(g[1], 4 + X) = 1

\* Length of the interface bytes: an ATR is whole if they are all there.
Whole(p) == LET g == Groups(p) IN Len(p) >= 2 /\ Len(p) >= g[Len(g)][2] + Announced(g[Len(g)][1])

\* What ISO 7816-3 reads in that structure.  The card speaks the protocol of
\* TD1, and no other is taken for T=0 or T=1.  Without TD1 it speaks T=0: there
\* the code differs (protocol stays 2 and main refuses the card).
RightProtocol(p, g, a) ==
    Has(g, 3) => LET t == T(Byte(p, g, 3)) IN IF t <= 1 THEN a.protocol = t ELSE a.protocol \notin {0, 1}

\* TA1 has F and D for T=0 and T=1.
RightSpeed(p, g, a) ==
    (Has(g, 3) => T(Byte(p, g, 3)) <= 1)
        => /\ a.F = IF Has(g, 0) THEN convert_f(Byte(p, g, 0)) ELSE 372
           /\ a.D = IF Has(g, 0) THEN convert_d(Byte(p, g, 0)) ELSE 1

\* The parameters of T=1: in TA and TB of the first group for T=1 behind the
\* second group, by their defaults where these are absent.
RightThird(p, g, a) ==
    /\ a.IFSC = IF Has(g, 0) THEN Byte(p, g, 0) ELSE 32
    /\ a.BWI * 16 + a.CWI = IF Has(g, 1) THEN Byte(p, g, 1) ELSE 77

Defaults(a) == a.IFSC = 32 /\ a.BWI = 4 /\ a.CWI = 13

\* A group for T=1 with one more group behind it is left out: there the code
\* goes by the T of the group behind, and a group for T=15 loses them.
ParsedRight(p, a) ==
    LET g == Groups(p)
    IN /\ RightProtocol(p, g[1], a) /\ RightSpeed(p, g[1], a)
       /\ Len(g) = 3 /\ T(g[3][1]) = 1 => RightThird(p, g[3], a)
       /\ (\A n \in 3..Len(g) : T(g[n][1]) > 1) => Defaults(a)
=============================================================================
