---------------------------- MODULE MCSimRegistry ----------------------------
(***************************************************************************)
(* Cards of which two share their ICCID, one of them without an IMSI, and  *)
(* one that has neither; a provider that is protected and one that is not. *)
(***************************************************************************)
EXTENDS SimRegistry, TLC

CONSTANTS a, b, r, s, i, j, iccid, imsi, full, bare, blank

CardIccid == [c \in Cards |-> IF c = blank THEN None ELSE iccid]
CardImsi == [c \in Cards |-> IF c = full THEN imsi ELSE None]

\* The ids and the requests are only compared.
Symmetry == Permutations(Ids) \cup Permutations(Requests)
=============================================================================
