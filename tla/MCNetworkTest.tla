--------------------------- MODULE MCNetworkTest ---------------------------
(***************************************************************************)
(* A network test on the probe (NetworkTest) and the bill of a test        *)
(* (CreditCheck), each against its own environment: TLC explores one or    *)
(* the other, as `part' says.                                              *)
(***************************************************************************)
EXTENDS NetworkTest, CreditCheck

VARIABLE part   \* "test" or "bill": the one that runs

allVars == <<part, vars, creditVars>>

\* A part that does not run stays in one initial state.
Stopped ==
  /\ plugged = FALSE /\ Init
ParkedBill ==
  /\ checker = AT_A1 /\ age = "old" /\ transferred = {} /\ billed = {} /\ CreditInit

TestInit ==
  \/ part = "test" /\ Init /\ ParkedBill
  \/ part = "bill" /\ CreditInit /\ Stopped

TestNext ==
  /\ UNCHANGED part
  /\ \/ part = "test" /\ Next /\ UNCHANGED creditVars
     \/ part = "bill" /\ CreditNext /\ UNCHANGED vars

\* Only the test part runs under fairness; NetworkTest says why.
TestSpec == TestInit /\ [][TestNext]_allVars /\ Fairness
=============================================================================
