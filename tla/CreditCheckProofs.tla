-------------------------- MODULE CreditCheckProofs --------------------------
(***************************************************************************)
(* Proofs about CreditCheck, for all 22 checkers, any number of attempts,  *)
(* any allowance and any reserve.                                          *)
(***************************************************************************)
EXTENDS CreditCheck, FiniteSetTheorems, TLAPS

-----------------------------------------------------------------------------
(***************************************************************************)
(* The inductive invariant                                                 *)
(***************************************************************************)

Answers == [billed : SUBSET Traffic, held : BOOLEAN]

CreditTypeOK ==
  /\ checker \in Checkers /\ age \in {"old", "recent"}
  /\ stage \in {"pre", "test", "waiting", "asleep", "recognised", "raised", "timeout", "aborted"}
  /\ tries \in 0..Retry /\ session \in {"none", "open", "dead"}
  /\ base \in Answers \cup {None} /\ answer \in Answers \cup {None} /\ late \in SUBSET Answers
  /\ consumed \in {0, 2} /\ connections \in {0, 1}
  /\ transferred \in SUBSET Traffic /\ billed \in SUBSET Traffic /\ before \in SUBSET Traffic
  /\ held \in BOOLEAN /\ asOf \in BOOLEAN /\ clock \in {"start", "delta", "over"}

\* What the operator bills was transferred, and the test has counted its part.
OperatorInv ==
  /\ before \subseteq billed /\ billed \subseteq transferred
  /\ "counted" \in transferred => consumed = 2
  /\ held => checker.lowered
  /\ stage \in {"waiting", "asleep"} => ~held

\* The base was not taken before the bill before the test was asked for.
BaseInv ==
  /\ checker.quirk = "no base" => base = [billed |-> {}, held |-> FALSE]
  /\ stage = "pre" /\ checker.quirk # "no base" => base = None
  /\ base # None => /\ base.billed \subseteq billed
                    /\ base.held => checker.lowered
                    /\ checker.quirk # "no base" => before \subseteq base.billed

\* Nor was an answer that may still come.  Answers are bills of one operator:
\* one of them has what the other has.
LateInv ==
  /\ stage = "pre" /\ tries = 0 => late = {}
  /\ \A l \in late : /\ checker.via = "modem" /\ ~l.held
                     /\ before \subseteq l.billed /\ l.billed \subseteq billed
                     /\ base # None => l.billed \subseteq base.billed \/ base.billed \subseteq l.billed

IInv == CreditTypeOK /\ OperatorInv /\ BaseInv /\ LateInv /\ RecognisedIsBilled /\ NothingOverlooked

-----------------------------------------------------------------------------
(***************************************************************************)
(* Volumes of traffic, the maximum and the checkers                        *)
(***************************************************************************)

LEMMA VolumeIs ==
  ASSUME NEW S
  PROVE  Volume(S) = (IF "earlier" \in S THEN 1 ELSE 0) + (IF "free" \in S THEN 1 ELSE 0)
                     + (IF "counted" \in S THEN 2 ELSE 0) + (IF "after" \in S THEN 1 ELSE 0)
BY DEF Volume, Size

LEMMA VolumeNat == \A S : Volume(S) \in Nat
BY VolumeIs

LEMMA VolumeGrows ==
  ASSUME NEW S, NEW T, S \subseteq T
  PROVE  Volume(S) <= Volume(T)
BY VolumeIs

LEMMA VolumeZero ==
  ASSUME NEW S \in SUBSET Traffic, Volume(S) = 0
  PROVE  S = {}
BY VolumeIs DEF Traffic

\* What one bill has more than another is no more than what is new in it, ...
LEMMA VolumeNew ==
  ASSUME NEW S, NEW T
  PROVE  Volume(S) - Volume(T) <= Volume(S \ T)
BY VolumeIs

\* ... and no less, if it has the other's entries.
LEMMA VolumeMore ==
  ASSUME NEW S, NEW T, T \subseteq S, "counted" \in S \ T
  PROVE  Volume(S) - Volume(T) >= 2
BY VolumeIs

LEMMA MaxOfZero ==
  ASSUME NEW x \in Int
  PROVE  Max({0, x}) = IF x > 0 THEN x ELSE 0
<1>1. \A y \in {0, x} : (IF x > 0 THEN x ELSE 0) >= y
  OBVIOUS
<1>2. (IF x > 0 THEN x ELSE 0) \in {0, x}
  OBVIOUS
<1>3. \A m \in {0, x} : (\A y \in {0, x} : m >= y) => m = IF x > 0 THEN x ELSE 0
  OBVIOUS
<1> QED
  BY <1>1, <1>2, <1>3 DEF Max

LEMMA CheckerTraits ==
  ASSUME NEW c \in Checkers
  PROVE  /\ c.shows \in {"used", "left", "list"} /\ c.via \in {"web", "modem"}
         /\ c.zeroIsNone \in BOOLEAN /\ c.lowered \in BOOLEAN
         /\ c.date \in {"none", "operator", "latest"}
         /\ c.quirk \in {"none", "token", "no base", "naive", "mixed"}
         /\ c.lowered => c.shows = "left" /\ c.via = "web"
         /\ c.quirk \in {"no base", "naive", "mixed"} => c.shows = "list" /\ c.date = "latest" /\ c.via = "web"
<1> DEFINE Traits == [shows : {"used", "left", "list"}, via : {"web", "modem"}, zeroIsNone : BOOLEAN,
                      date : {"none", "operator", "latest"}, lowered : BOOLEAN,
                      quirk : {"none", "token", "no base", "naive", "mixed"}]
           Sound(d) == /\ d \in Traits
                       /\ d.lowered => d.shows = "left" /\ d.via = "web"
                       /\ d.quirk \in {"no base", "naive", "mixed"} => d.shows = "list" /\ d.date = "latest" /\ d.via = "web"
<1>1. Sound(AT_A1) /\ Sound(AT_A1_SMS) /\ Sound(AT_Drei) /\ Sound(AT_HoT) /\ Sound(AT_Magenta) /\ Sound(RO_Telekom)
      /\ Sound(SK_O2)
  BY DEF Plain, AT_A1, AT_A1_SMS, AT_Drei, AT_HoT, AT_Magenta, RO_Telekom, SK_O2
<1>2. Sound(HR_A1) /\ Sound(HR_Telekom) /\ Sound(HR_Telemach) /\ Sound(SI_Telekom) /\ Sound(SK_Orange)
  BY DEF Plain, HR_A1, HR_Telekom, HR_Telemach, SI_Telekom, SK_Orange
<1>3. Sound(SK_4ka) /\ Sound(RO_Orange) /\ Sound(RO_Vodafone) /\ Sound(RO_Telekom_Ussd) /\ Sound(SI_A1_SMS)
  BY DEF Plain, HR_A1, HR_Telemach, SK_4ka, RO_Orange, RO_Vodafone, RO_Telekom_Ussd, SI_A1_SMS
<1>4. Sound(AT_eety) /\ Sound(AT_yesss) /\ Sound(AT_spusu) /\ Sound(SI_A1) /\ Sound(SK_O2_Web)
  BY DEF Plain, AT_eety, AT_yesss, AT_spusu, SI_A1, SK_O2_Web
<1> HIDE DEF Sound
<1>5. Sound(c)
  BY <1>1, <1>2, <1>3, <1>4 DEF Checkers
<1> QED
  BY <1>5 DEF Sound

-----------------------------------------------------------------------------
(***************************************************************************)
(* The units of a bill                                                     *)
(***************************************************************************)

Lowering == IF checker.lowered THEN Reserve ELSE 0
Left(a) == Quota - Volume(a.billed) - (IF a.held THEN Reserve ELSE 0)

LEMMA ShownIs ==
  ASSUME NEW a
  PROVE  /\ Left(a) \in Int
         /\ checker.shows = "used" => Shown(a) = Volume(a.billed)
         /\ checker.shows # "used" => Shown(a) = IF Left(a) > 0 THEN -Left(a) ELSE 0
<1>1. Left(a) \in Int
  BY VolumeNat, CreditAssumption DEF Left
<1>2. Max({0, Left(a)}) = IF Left(a) > 0 THEN Left(a) ELSE 0
  BY <1>1, MaxOfZero
<1> QED
  BY <1>1, <1>2 DEF Shown, Left

LEMMA UnitsAre ==
  ASSUME NEW a, NEW b, checker \in Checkers, checker.shows # "list"
  PROVE  /\ checker.shows = "used" => Units(a, b) = SubtractBaseBill(Volume(a.billed), Volume(b.billed))
         /\ checker.shows = "left" =>
              Units(a, b) = SubtractBaseBill(IF Left(a) > 0 THEN -Left(a) ELSE 0,
                                             (IF Left(b) > 0 THEN -Left(b) ELSE 0) - Lowering)
<1>1. checker.shows = "used" => ~checker.lowered
  BY CheckerTraits
<1>2. Volume(b.billed) \in Nat
  BY VolumeNat
<1>3. Units(a, b) = SubtractBaseBill(Shown(a), Shown(b) - Lowering)
  BY DEF Units, Lowering
<1>4. ASSUME checker.shows = "used" PROVE Units(a, b) = SubtractBaseBill(Volume(a.billed), Volume(b.billed))
  <2>1. Shown(a) = Volume(a.billed) /\ Shown(b) - Lowering = Volume(b.billed)
    BY <1>1, <1>2, <1>4, ShownIs DEF Lowering
  <2> QED
    BY <1>3, <2>1
<1>5. ASSUME checker.shows = "left"
      PROVE  Units(a, b) = SubtractBaseBill(IF Left(a) > 0 THEN -Left(a) ELSE 0,
                                            (IF Left(b) > 0 THEN -Left(b) ELSE 0) - Lowering)
  <2>1. Shown(a) = IF Left(a) > 0 THEN -Left(a) ELSE 0
    BY <1>5, ShownIs
  <2>2. Shown(b) = IF Left(b) > 0 THEN -Left(b) ELSE 0
    BY <1>5, ShownIs
  <2> QED
    BY <1>3, <2>1, <2>2
<1> QED
  BY <1>4, <1>5

\* What is more than the base has been billed since, but for the reserve.
LEMMA UnitsWereBilled ==
  ASSUME NEW a, NEW b, NEW E, NEW n \in Nat, n > 0, checker \in Checkers, checker.shows # "list",
         ~a.held, b.billed \in SUBSET Traffic, a.billed \ b.billed \subseteq E, Units(a, b) >= n
  PROVE  Volume(E) + Lowering >= n
<1>1. /\ Volume(a.billed) \in Nat /\ Volume(b.billed) \in Nat /\ Volume(E) \in Nat /\ Quota \in Nat
      /\ Reserve \in Nat /\ Lowering \in Nat
  BY VolumeNat, CreditAssumption DEF Lowering
<1>2. Volume(a.billed) - Volume(b.billed) <= Volume(E)
  <2>1. Volume(a.billed) - Volume(b.billed) <= Volume(a.billed \ b.billed)
    BY VolumeNew
  <2>2. Volume(a.billed \ b.billed) <= Volume(E) /\ Volume(a.billed \ b.billed) \in Nat
    BY VolumeGrows, VolumeNat
  <2> QED
    BY <1>1, <2>1, <2>2
<1>3. CASE checker.shows = "used"
  <2>1. Units(a, b) = SubtractBaseBill(Volume(a.billed), Volume(b.billed))
    BY <1>3, UnitsAre
  <2>2. SubtractBaseBill(Volume(a.billed), Volume(b.billed)) \in {0, Volume(a.billed) - Volume(b.billed)}
    BY <1>1 DEF SubtractBaseBill
  <2> QED
    BY <1>1, <1>2, <2>1, <2>2
<1>4. CASE checker.shows = "left"
  <2>1. Units(a, b) = SubtractBaseBill(IF Left(a) > 0 THEN -Left(a) ELSE 0,
                                       (IF Left(b) > 0 THEN -Left(b) ELSE 0) - Lowering)
    BY <1>4, UnitsAre
  <2>2. Left(a) = Quota - Volume(a.billed)
    BY <1>1 DEF Left
  <2>3. Left(b) <= Quota - Volume(b.billed) /\ Left(b) \in Int /\ Left(a) \in Int
    BY <1>1 DEF Left
  <2>4. Left(a) > 0
    BY <1>1, <2>1, <2>3 DEF SubtractBaseBill
  <2>5. Units(a, b) <= (IF Left(b) > 0 THEN Left(b) ELSE 0) + Lowering - Left(a)
    BY <1>1, <2>1, <2>3, <2>4 DEF SubtractBaseBill
  <2>6. Units(a, b) \in Int
    BY <1>1, <2>1, <2>3 DEF SubtractBaseBill
  <2> QED
    BY <1>1, <1>2, <2>2, <2>3, <2>4, <2>5, <2>6
<1> QED
  BY <1>3, <1>4, CheckerTraits

\* A bill that has what the test has consumed, and that the base has not, covers
\* it, unless nothing is left.
LEMMA UnitsCover ==
  ASSUME NEW a, NEW b, checker \in Checkers, checker.shows # "list", b.billed \subseteq a.billed,
         "counted" \in a.billed \ b.billed, ~a.held, b.held => checker.lowered,
         checker.shows = "left" => Shown(a) # 0
  PROVE  Units(a, b) \in Int /\ Units(a, b) >= 2
<1>1. /\ Volume(a.billed) \in Nat /\ Volume(b.billed) \in Nat /\ Quota \in Nat /\ Reserve \in Nat
      /\ Lowering \in Nat
  BY VolumeNat, CreditAssumption DEF Lowering
<1>2. Volume(a.billed) - Volume(b.billed) >= 2
  BY VolumeMore
<1>3. CASE checker.shows = "used"
  <2>1. Units(a, b) = SubtractBaseBill(Volume(a.billed), Volume(b.billed))
    BY <1>3, UnitsAre
  <2> QED
    BY <1>1, <1>2, <2>1 DEF SubtractBaseBill
<1>4. CASE checker.shows = "left"
  <2>1. Units(a, b) = SubtractBaseBill(IF Left(a) > 0 THEN -Left(a) ELSE 0,
                                       (IF Left(b) > 0 THEN -Left(b) ELSE 0) - Lowering)
    BY <1>4, UnitsAre
  <2>2. Left(a) = Quota - Volume(a.billed) /\ Left(a) \in Int
    BY <1>1 DEF Left
  <2>3. Left(b) = Quota - Volume(b.billed) \/ Left(b) = Quota - Volume(b.billed) - Lowering
    BY <1>1 DEF Left, Lowering
  <2>4. Left(a) > 0
    BY <1>4, <2>2, ShownIs
  <2> QED
    BY <1>1, <1>2, <2>1, <2>2, <2>3, <2>4 DEF SubtractBaseBill
<1> QED
  BY <1>3, <1>4, CheckerTraits

-----------------------------------------------------------------------------
(***************************************************************************)
(* An answer                                                               *)
(***************************************************************************)

\* The answer that is used, and the base it is compared with.
LEMMA AnswerIs ==
  ASSUME IInv, NEW a \in {Now} \cup late, Succeed(a)
  PROVE  /\ a \in Answers /\ a.billed \subseteq billed
         /\ stage = "waiting" => ~a.held
         /\ a.held => checker.lowered
         /\ base' \in Answers /\ base'.billed \subseteq billed
         /\ base'.held => checker.lowered
         /\ checker.quirk = "no base" => base' = [billed |-> {}, held |-> FALSE]
         /\ checker.quirk # "no base" => before' \subseteq base'.billed
         /\ a.billed \subseteq base'.billed \/ base'.billed \subseteq a.billed
         /\ before' \subseteq billed
<1>1. Now \in Answers /\ Now.billed = billed /\ Now.held = held
  BY DEF Now, Answers, IInv, CreditTypeOK
<1>2. ~None.held /\ None \notin Answers
  BY DEF None, Answers, Traffic
<1>3. a \in Answers /\ a.billed \subseteq billed
  BY <1>1 DEF IInv, CreditTypeOK, LateInv
<1>4. (stage = "waiting" => ~a.held) /\ (a.held => checker.lowered)
  BY <1>1 DEF IInv, OperatorInv, LateInv
<1>5. base' = (IF base = None THEN a ELSE base)
  BY DEF Succeed, BaseAfter
<1>6. base' \in Answers /\ base'.billed \subseteq billed /\ (base'.held => checker.lowered)
  BY <1>3, <1>4, <1>5 DEF IInv, CreditTypeOK, BaseInv
<1>7. a.billed \subseteq base'.billed \/ base'.billed \subseteq a.billed
  BY <1>1, <1>3, <1>5, <1>6 DEF IInv, LateInv
<1>8. before' \subseteq billed
  BY DEF Succeed, NoteBefore, IInv, OperatorInv
<1>9. ASSUME checker.quirk = "no base" PROVE base' = [billed |-> {}, held |-> FALSE]
  <2>1. base = [billed |-> {}, held |-> FALSE] /\ [billed |-> {}, held |-> FALSE] \in Answers
    BY <1>9 DEF IInv, BaseInv, Answers
  <2> QED
    BY <1>2, <1>5, <2>1
<1>10. ASSUME checker.quirk # "no base" PROVE before' \subseteq base'.billed
  <2>1. CASE stage # "pre"
    <3>1. before' = before
      BY <2>1 DEF Succeed, NoteBefore
    <3>2. before \subseteq a.billed
      BY <1>1 DEF IInv, OperatorInv, LateInv
    <3> QED
      BY <1>5, <1>10, <3>1, <3>2 DEF IInv, BaseInv
  <2>2. CASE stage = "pre"
    <3>1. base' = a
      BY <1>5, <1>10, <2>2 DEF IInv, BaseInv
    <3>2. CASE a = Now
      BY <1>1, <1>8, <3>1, <3>2
    <3>3. CASE a \in late
      <4>1. checker.via = "modem" /\ tries # 0 /\ before \subseteq a.billed
        BY <2>2, <3>3 DEF IInv, LateInv
      <4>2. before' = before
        BY <4>1 DEF Succeed, NoteBefore
      <4> QED
        BY <3>1, <4>1, <4>2
    <3> QED
      BY <3>2, <3>3
  <2> QED
    BY <2>1, <2>2
<1> QED
  BY <1>3, <1>4, <1>6, <1>7, <1>8, <1>9, <1>10

\* A base is taken after the bill before the test was asked for: what is new to a
\* list is evidence, and what is new to another bill is all of it.
LEMMA EvidenceIs ==
  ASSUME NEW a \in Answers, NEW b \in Answers, checker \in Checkers, a.billed \subseteq billed,
         checker.quirk # "no base" => before \subseteq b.billed
  PROVE  /\ checker.shows = "list" => NewEntries(a, b) \subseteq Evidence
         /\ checker.shows # "list" => a.billed \ b.billed \subseteq Evidence
<1>1. checker.shows # "list" => checker.quirk # "no base"
  BY CheckerTraits
<1> QED
  BY <1>1 DEF NewEntries, Evidence

LEMMA SubsetCardinality ==
  ASSUME NEW S, NEW T \in SUBSET Traffic, S \subseteq T
  PROVE  Cardinality(S) \in Nat /\ Cardinality(T) \in Nat /\ Cardinality(S) <= Cardinality(T)
<1>1. IsFiniteSet({}) /\ IsFiniteSet({} \cup {"earlier"})
  BY FS_EmptySet, FS_AddElement
<1>2. IsFiniteSet({"earlier"} \cup {"free"})
  BY <1>1, FS_AddElement
<1>3. IsFiniteSet(({"earlier"} \cup {"free"}) \cup {"counted"})
  BY <1>2, FS_AddElement
<1>4. IsFiniteSet((({"earlier"} \cup {"free"}) \cup {"counted"}) \cup {"after"})
  BY <1>3, FS_AddElement
<1>5. Traffic = (({"earlier"} \cup {"free"}) \cup {"counted"}) \cup {"after"}
  BY DEF Traffic
<1>6. IsFiniteSet(T)
  BY <1>4, <1>5, FS_Subset
<1>7. IsFiniteSet(S) /\ Cardinality(S) <= Cardinality(T)
  BY <1>6, FS_Subset
<1> QED
  BY <1>6, <1>7, FS_CardinalityType

\* A bill is recognised for what the operator has billed.
LEMMA SucceedRecognised ==
  ASSUME IInv, NEW a \in {Now} \cup late, Succeed(a)
  PROVE  RecognisedIsBilled'
<1> SUFFICES ASSUME stage' = "recognised" PROVE RecognisedIsBilled'
  BY DEF RecognisedIsBilled
<1>1. /\ stage = "waiting" /\ Fulfilled(a, base')
      /\ UNCHANGED <<checker, age, billed, asOf, consumed, connections>> /\ before' = before
  BY DEF Succeed, Asking, AskAgain, NoteBefore, operatorVars
<1>2. /\ a \in Answers /\ base' \in Answers /\ a.billed \subseteq billed /\ ~a.held
      /\ checker.quirk # "no base" => before \subseteq base'.billed
  <2>1. /\ a \in Answers /\ a.billed \subseteq billed /\ (stage = "waiting" => ~a.held) /\ base' \in Answers
        /\ checker.quirk # "no base" => before' \subseteq base'.billed
    BY AnswerIs
  <2> QED
    BY <1>1, <2>1
<1>3. checker \in Checkers /\ consumed \in {0, 2} /\ connections \in {0, 1} /\ billed \in SUBSET Traffic
  BY DEF IInv, CreditTypeOK
<1>4. Evidence' = Evidence
  BY <1>1 DEF Evidence
<1>5. /\ checker.shows = "list" => NewEntries(a, base') \subseteq Evidence
      /\ checker.shows # "list" => a.billed \ base'.billed \subseteq Evidence
      /\ Evidence \subseteq Traffic
  <2>1. checker.quirk # "no base" => before \subseteq base'.billed
    BY <1>2
  <2>2. Evidence \subseteq Traffic
    BY <1>3 DEF Evidence, Traffic
  <2> QED
    BY <1>2, <1>3, <2>1, <2>2, EvidenceIs
<1>6. ASSUME Covers(Units(a, base'), consumed) PROVE Volume(Evidence) + Lowering >= consumed /\ consumed > 0
  <2>1. consumed = 2 /\ Units(a, base') >= consumed
    BY <1>3, <1>6 DEF Covers
  <2>2. CASE checker.shows = "list"
    <3>1. Volume(NewEntries(a, base')) <= Volume(Evidence)
      BY <1>5, <2>2, VolumeGrows
    <3>2. Volume(NewEntries(a, base')) >= 2
      BY <2>1, <2>2 DEF Units
    <3>3. Volume(NewEntries(a, base')) \in Nat /\ Volume(Evidence) \in Nat /\ Lowering \in Nat
      BY VolumeNat, CreditAssumption DEF Lowering
    <3> QED
      BY <2>1, <3>1, <3>2, <3>3
  <2>3. CASE checker.shows # "list"
    <3>1. a.billed \ base'.billed \subseteq Evidence
      BY <1>5, <2>3
    <3>2. base'.billed \in SUBSET Traffic /\ ~a.held
      BY <1>2 DEF Answers
    <3>3. checker \in Checkers /\ 2 \in Nat /\ 2 > 0 /\ Units(a, base') >= 2
      BY <1>3, <2>1
    <3>4. Volume(Evidence) + Lowering >= 2
      BY <2>3, <3>1, <3>2, <3>3, UnitsWereBilled
    <3> QED
      BY <2>1, <3>4
  <2> QED
    BY <2>2, <2>3
<1>7. ASSUME Covers(Entries(a, base'), connections)
      PROVE  checker.shows = "list" /\ Cardinality(Evidence) >= connections /\ connections > 0
  <2>1. connections = 1 /\ Entries(a, base') >= 1 /\ Entries(a, base') # 0
    BY <1>3, <1>7 DEF Covers
  <2>2. checker.shows = "list" /\ Entries(a, base') = Cardinality(NewEntries(a, base'))
    BY <2>1 DEF Entries
  <2>3. Cardinality(NewEntries(a, base')) <= Cardinality(Evidence) /\ Cardinality(Evidence) \in Nat
        /\ Cardinality(NewEntries(a, base')) \in Nat
    BY <1>5, <2>2, SubsetCardinality
  <2> QED
    BY <2>1, <2>2, <2>3
<1>8. ASSUME DateReached(a)
      PROVE  (checker.date = "operator" /\ asOf) \/ (checker.date = "latest" /\ "after" \in billed)
  BY <1>2, <1>3, <1>8, CheckerTraits DEF DateReached
<1>9. \/ Volume(Evidence) + Lowering >= consumed /\ consumed > 0
      \/ checker.shows = "list" /\ Cardinality(Evidence) >= connections /\ connections > 0
      \/ (checker.date = "operator" /\ asOf) \/ (checker.date = "latest" /\ "after" \in billed)
  BY <1>1, <1>6, <1>7, <1>8 DEF Fulfilled
<1> QED
  BY <1>1, <1>4, <1>9 DEF RecognisedIsBilled, Lowering

\* A bill that does not suffice has not got what was consumed.
LEMMA SucceedOverlooks ==
  ASSUME IInv, NEW a \in {Now} \cup late, Succeed(a)
  PROVE  NothingOverlooked'
<1> SUFFICES ASSUME stage' = "asleep", "counted" \in a.billed \ base'.billed, ~(checker.shows = "left" /\ Shown(a) = 0)
             PROVE  FALSE
  <2>1. UNCHANGED checker /\ answer' = a
    BY DEF Succeed
  <2> QED
    BY <2>1 DEF NothingOverlooked, Shown
<1>1. stage = "waiting" /\ ~Fulfilled(a, base')
  BY DEF Succeed, Asking
<1>2. /\ a \in Answers /\ a.billed \subseteq billed /\ ~a.held /\ (base'.held => checker.lowered)
      /\ a.billed \subseteq base'.billed \/ base'.billed \subseteq a.billed
  BY <1>1, AnswerIs
<1>3. consumed = 2
  BY <1>2 DEF IInv, OperatorInv
<1>4. Units(a, base') \in Int /\ Units(a, base') >= 2
  <2>1. CASE checker.shows = "list"
    <3>1. "counted" \in NewEntries(a, base')
      BY DEF NewEntries
    <3>2. Volume(NewEntries(a, base')) >= 2 /\ Volume(NewEntries(a, base')) \in Nat
      BY <3>1, VolumeIs
    <3> QED
      BY <2>1, <3>2 DEF Units
  <2>2. CASE checker.shows # "list"
    BY <1>2, <2>2, UnitsCover DEF IInv, CreditTypeOK
  <2> QED
    BY <2>1, <2>2
<1> QED
  BY <1>1, <1>3, <1>4 DEF Fulfilled, Covers

-----------------------------------------------------------------------------
(***************************************************************************)
(* Every step preserves the invariant                                      *)
(***************************************************************************)

LEMMA NowIs ==
  ASSUME CreditTypeOK
  PROVE  Now \in Answers /\ Now.billed = billed /\ Now.held = held
BY DEF CreditTypeOK, Now, Answers

LEMMA CreditInitIInv == CreditInit => IInv
<1> SUFFICES ASSUME CreditInit PROVE IInv
  OBVIOUS
<1>1. checker \in Checkers /\ stage = "pre" /\ late = {} /\ before = {} /\ held = FALSE /\ answer = None
  BY DEF CreditInit
<1>2. CreditTypeOK
  <2>1. base \in Answers \cup {None}
    <3>1. [billed |-> {}, held |-> FALSE] \in Answers
      BY DEF Answers
    <3> QED
      BY <3>1 DEF CreditInit
  <2>2. tries \in 0..Retry
    <3>1. tries = 0
      BY DEF CreditInit
    <3> QED
      BY <3>1, CreditAssumption
  <2>3. transferred \in SUBSET Traffic /\ billed \in SUBSET Traffic
    BY DEF CreditInit, Traffic
  <2>4. age \in {"old", "recent"}
    BY DEF CreditInit
  <2> QED
    BY <1>1, <2>1, <2>2, <2>3, <2>4 DEF CreditInit, CreditTypeOK
<1>3. OperatorInv
  BY DEF CreditInit, OperatorInv
<1>4. BaseInv
  BY DEF CreditInit, BaseInv
<1>5. LateInv /\ RecognisedIsBilled /\ NothingOverlooked
  BY <1>1 DEF LateInv, RecognisedIsBilled, NothingOverlooked
<1> QED
  BY <1>2, <1>3, <1>4, <1>5 DEF IInv

LEMMA SucceedIInv ==
  ASSUME IInv, NEW a \in {Now} \cup late, Succeed(a)
  PROVE  IInv'
<1>1. /\ a \in Answers /\ base' \in Answers /\ base'.billed \subseteq billed /\ (base'.held => checker.lowered)
      /\ checker.quirk = "no base" => base' = [billed |-> {}, held |-> FALSE]
      /\ checker.quirk # "no base" => before' \subseteq base'.billed
      /\ before' \subseteq billed
  BY AnswerIs
<1>2. Now \in Answers /\ Now.billed = billed /\ Now.held = held
  BY NowIs DEF IInv
<1>3. /\ stage \in {"pre", "waiting"} /\ stage' \in {"test", "recognised", "raised", "timeout", "asleep"}
      /\ stage = "pre" => stage' = "test"
      /\ UNCHANGED <<checker, age, consumed, connections, transferred, billed, held, asOf, clock>>
  BY DEF Succeed, Asking, AskAgain, operatorVars
<1>4. late' \in SUBSET (late \cup {Now}) /\ (late' # late => checker.via = "modem") /\ (a # Now => late' \subseteq {Now})
  BY DEF Succeed
<1>5. CreditTypeOK'
  <2>1. session' \in {"none", "open", "dead"} /\ tries' \in 0..Retry /\ answer' \in Answers
    <3>1. session' \in {session, "open"} /\ tries' = 0 /\ answer' = a
      BY DEF Succeed, LogIn
    <3>2. session' \in {"none", "open", "dead"}
      BY <3>1 DEF IInv, CreditTypeOK
    <3>3. 0 \in 0..Retry
      BY CreditAssumption
    <3>4. tries' \in 0..Retry
      BY <3>1, <3>3
    <3>5. answer' \in Answers
      BY <1>1, <3>1
    <3> QED
      BY <3>2, <3>4, <3>5
  <2>2. before' \in SUBSET Traffic
    BY <1>1 DEF IInv, CreditTypeOK
  <2>3. late' \in SUBSET Answers
    BY <1>2, <1>4 DEF IInv, CreditTypeOK
  <2> QED
    BY <1>1, <1>3, <2>1, <2>2, <2>3 DEF IInv, CreditTypeOK
<1>6. OperatorInv'
  BY <1>1, <1>3 DEF IInv, OperatorInv
<1>7. BaseInv'
  BY <1>1, <1>3 DEF BaseInv
<1>8. LateInv'
  <2> SUFFICES ASSUME NEW l \in late'
               PROVE  /\ checker.via = "modem" /\ ~l.held /\ before' \subseteq l.billed /\ l.billed \subseteq billed
                      /\ l.billed \subseteq base'.billed \/ base'.billed \subseteq l.billed
    BY <1>3 DEF LateInv
  <2>1. checker.via = "modem"
    BY <1>4 DEF IInv, LateInv
  <2>2. CASE l = Now
    <3>1. ~held
      BY <2>1, CheckerTraits DEF IInv, CreditTypeOK, OperatorInv
    <3> QED
      BY <1>1, <1>2, <2>1, <2>2, <3>1
  <2>3. CASE l # Now
    <3>1. l \in late /\ a = Now
      BY <1>4, <2>3
    <3>2. ~l.held /\ before \subseteq l.billed /\ l.billed \subseteq billed
      BY <3>1 DEF IInv, LateInv
    <3>3. before' = before
      BY <2>1, <3>1, CheckerTraits DEF Succeed, NoteBefore, IInv, LateInv, CreditTypeOK
    <3>4. l.billed \subseteq base'.billed \/ base'.billed \subseteq l.billed
      <4>1. CASE base = None
        BY <1>2, <3>1, <3>2, <4>1 DEF Succeed, BaseAfter
      <4>2. CASE base # None
        BY <3>1, <4>2 DEF Succeed, BaseAfter, IInv, LateInv
      <4> QED
        BY <4>1, <4>2
    <3> QED
      BY <2>1, <3>2, <3>3, <3>4
  <2> QED
    BY <2>2, <2>3
<1>9. RecognisedIsBilled' /\ NothingOverlooked'
  BY SucceedRecognised, SucceedOverlooks
<1> QED
  BY <1>5, <1>6, <1>7, <1>8, <1>9 DEF IInv

LEMMA FailAttemptIInv == IInv /\ FailAttempt => IInv'
<1> SUFFICES ASSUME IInv, FailAttempt PROVE IInv'
  OBVIOUS
<1>1. Now \in Answers /\ Now.billed = billed /\ Now.held = held
  BY NowIs DEF IInv
<1>2. /\ stage \in {"pre", "waiting"} /\ stage' \in {stage, "aborted", "raised"}
      /\ UNCHANGED <<checker, age, base, answer, consumed, connections, transferred, billed, held, asOf, clock>>
  BY DEF FailAttempt, Asking, operatorVars
<1>3. tries' \in 0..Retry /\ (stage' = "pre" => stage = "pre" /\ tries' # 0)
  BY CreditAssumption DEF FailAttempt, IInv, CreditTypeOK
<1>4. late' = late \/ (late' = {Now} /\ checker.via = "modem")
  BY DEF FailAttempt
<1>5. /\ before' \subseteq billed
      /\ stage # "pre" => before' = before
      /\ checker.via = "modem" /\ tries # 0 => before' = before
  BY CheckerTraits DEF FailAttempt, NoteBefore, IInv, OperatorInv, CreditTypeOK
<1>6. CreditTypeOK'
  <2>1. session' \in {"none", "open", "dead"} /\ before' \in SUBSET Traffic /\ late' \in SUBSET Answers
    BY <1>1, <1>4, <1>5 DEF FailAttempt, IInv, CreditTypeOK
  <2> QED
    BY <1>2, <1>3, <2>1 DEF IInv, CreditTypeOK
<1>7. OperatorInv'
  BY <1>2, <1>5 DEF IInv, OperatorInv
<1>8. BaseInv'
  BY <1>2, <1>3, <1>5 DEF IInv, BaseInv
<1>9. LateInv'
  <2> SUFFICES ASSUME NEW l \in late'
               PROVE  /\ checker.via = "modem" /\ ~l.held /\ before' \subseteq l.billed /\ l.billed \subseteq billed
                      /\ base # None => l.billed \subseteq base.billed \/ base.billed \subseteq l.billed
    BY <1>2, <1>3 DEF LateInv
  <2>1. checker.via = "modem"
    BY <1>4 DEF IInv, LateInv
  <2>2. CASE l = Now
    <3>1. ~held
      BY <2>1, CheckerTraits DEF IInv, CreditTypeOK, OperatorInv
    <3>2. base # None => base.billed \subseteq billed
      BY DEF IInv, BaseInv
    <3> QED
      BY <1>1, <1>5, <2>1, <2>2, <3>1, <3>2
  <2>3. CASE l # Now
    <3>1. l \in late
      BY <1>4, <2>3
    <3>2. before' = before
      BY <1>5, <2>1, <3>1 DEF IInv, LateInv
    <3> QED
      BY <3>1, <3>2 DEF IInv, LateInv
  <2> QED
    BY <2>2, <2>3
<1>10. RecognisedIsBilled' /\ NothingOverlooked'
  BY <1>2 DEF RecognisedIsBilled, NothingOverlooked
<1> QED
  BY <1>6, <1>7, <1>8, <1>9, <1>10 DEF IInv

LEMMA SwallowFailureIInv == IInv /\ SwallowFailure => IInv'
<1> SUFFICES ASSUME IInv, SwallowFailure PROVE IInv'
  OBVIOUS
<1>1. late = {} /\ checker.quirk # "no base"
  BY CheckerTraits DEF SwallowFailure, IInv, CreditTypeOK, LateInv
<1>2. /\ stage \in {"pre", "waiting"} /\ stage' \in {stage, "test", "asleep", "timeout"}
      /\ stage' = "asleep" => stage = "waiting" /\ answer' = None
      /\ answer' \in {answer, None}
      /\ UNCHANGED <<checker, age, base, late, consumed, connections, transferred, billed, held, asOf, clock>>
  BY DEF SwallowFailure, Asking, AskAgain, operatorVars
<1>3. tries' \in 0..Retry /\ session' \in {"none", "open", "dead"}
  BY CreditAssumption DEF SwallowFailure, IInv, CreditTypeOK
<1>4. before' \subseteq billed /\ (stage # "pre" => before' = before)
  BY DEF SwallowFailure, NoteBefore, IInv, OperatorInv
<1>5. CreditTypeOK'
  BY <1>2, <1>3, <1>4 DEF IInv, CreditTypeOK
<1>6. OperatorInv'
  BY <1>2, <1>4 DEF IInv, OperatorInv
<1>7. BaseInv'
  BY <1>1, <1>2, <1>4 DEF IInv, BaseInv
<1>8. LateInv' /\ RecognisedIsBilled' /\ NothingOverlooked'
  BY <1>1, <1>2 DEF LateInv, RecognisedIsBilled, NothingOverlooked
<1> QED
  BY <1>5, <1>6, <1>7, <1>8 DEF IInv

LEMMA ExecutePayloadIInv ==
  ASSUME IInv, NEW c \in {"free", "counted"}, NEW moved \in BOOLEAN, ExecutePayload(c, moved)
  PROVE  IInv'
<1>1. /\ stage = "test" /\ consumed = 0
      /\ transferred \subseteq transferred' /\ transferred' \subseteq transferred \cup {c}
      /\ consumed' = IF c = "counted" THEN 2 ELSE 0
      /\ UNCHANGED <<checker, age, stage, tries, session, base, answer, late, connections, billed, held, asOf, clock, before>>
  BY DEF ExecutePayload, Size, checkerVars, operatorVars
<1>2. CreditTypeOK'
  BY <1>1 DEF IInv, CreditTypeOK, Traffic
<1>3. OperatorInv'
  BY <1>1 DEF IInv, OperatorInv
<1>4. BaseInv' /\ LateInv'
  BY <1>1 DEF IInv, BaseInv, LateInv
<1>5. RecognisedIsBilled' /\ NothingOverlooked'
  BY <1>1 DEF RecognisedIsBilled, NothingOverlooked
<1> QED
  BY <1>2, <1>3, <1>4, <1>5 DEF IInv

\* The stage changes otherwise, or the operator's reserve.
LEMMA StageIInv ==
  ASSUME IInv,
         \/ FailSetup \/ WakeUp \/ (\E ok \in BOOLEAN : FinishTest(ok)) \/ (\E on \in BOOLEAN : HoldBack(on))
  PROVE  IInv'
<1>1. /\ stage' \in {"pre", "test", "waiting", "raised", "aborted"} /\ (stage' = "pre" => stage = "pre")
      /\ held' \in BOOLEAN /\ (held' => checker.lowered) /\ (stage' = "waiting" => ~held')
      /\ answer' \in {answer, None}
      /\ UNCHANGED <<checker, age, tries, session, base, late, consumed, connections, transferred, billed, asOf, clock, before>>
  <2>1. held \in BOOLEAN /\ (held => checker.lowered) /\ (stage \in {"waiting", "asleep"} => ~held)
    BY DEF IInv, OperatorInv, CreditTypeOK
  <2>2. CASE FailSetup
    BY <2>1, <2>2 DEF FailSetup, Asking, checkerVars, operatorVars
  <2>3. CASE WakeUp
    BY <2>1, <2>3 DEF WakeUp, operatorVars
  <2>4. CASE \E ok \in BOOLEAN : FinishTest(ok)
    BY <2>4 DEF FinishTest, checkerVars
  <2>5. CASE \E on \in BOOLEAN : HoldBack(on)
    BY <2>5 DEF HoldBack, checkerVars
  <2> QED
    BY <2>2, <2>3, <2>4, <2>5
<1>2. CreditTypeOK'
  BY <1>1 DEF IInv, CreditTypeOK
<1>3. OperatorInv'
  BY <1>1 DEF IInv, OperatorInv
<1>4. BaseInv' /\ LateInv'
  BY <1>1 DEF IInv, BaseInv, LateInv
<1>5. RecognisedIsBilled' /\ NothingOverlooked'
  BY <1>1 DEF RecognisedIsBilled, NothingOverlooked
<1> QED
  BY <1>2, <1>3, <1>4, <1>5 DEF IInv

\* The operator bills more, and time passes, but nothing is asked for.
LEMMA OperatorIInv ==
  ASSUME IInv,
         \/ TokenExpires \/ CountConnection \/ DateBill \/ UseAgain \/ Elapse
         \/ \E c \in Traffic : Bill(c)
  PROVE  IInv'
<1>1. /\ stage # "recognised" /\ session' \in {"none", "open", "dead"} /\ connections' \in {0, 1}
      /\ asOf' \in BOOLEAN /\ clock' \in {"start", "delta", "over"}
      /\ transferred \subseteq transferred' /\ transferred' \subseteq transferred \cup {"after"}
      /\ billed \subseteq billed' /\ billed' \subseteq transferred'
      /\ UNCHANGED <<checker, age, stage, tries, base, answer, late, consumed, held, before>>
  BY DEF TokenExpires, CountConnection, DateBill, UseAgain, Elapse, Bill, Running, checkerVars, operatorVars,
         IInv, OperatorInv, CreditTypeOK
<1>2. CreditTypeOK'
  BY <1>1 DEF IInv, CreditTypeOK, Traffic
<1>3. OperatorInv'
  BY <1>1 DEF IInv, OperatorInv
<1>4. BaseInv' /\ LateInv'
  BY <1>1 DEF IInv, BaseInv, LateInv
<1>5. RecognisedIsBilled'
  BY <1>1 DEF RecognisedIsBilled
<1>6. NothingOverlooked'
  BY <1>1 DEF IInv, NothingOverlooked, Shown
<1> QED
  BY <1>2, <1>3, <1>4, <1>5, <1>6 DEF IInv

LEMMA NextIInv == IInv /\ [CreditNext]_creditVars => IInv'
<1> SUFFICES ASSUME IInv, [CreditNext]_creditVars PROVE IInv'
  OBVIOUS
<1>1. ASSUME NEW a \in {Now} \cup late, Succeed(a) PROVE IInv'
  BY <1>1, SucceedIInv
<1>2. CASE FailAttempt \/ SwallowFailure
  BY <1>2, FailAttemptIInv, SwallowFailureIInv
<1>3. ASSUME NEW c \in {"free", "counted"}, NEW moved \in BOOLEAN, ExecutePayload(c, moved) PROVE IInv'
  BY <1>3, ExecutePayloadIInv
<1>4. CASE FailSetup \/ WakeUp \/ (\E ok \in BOOLEAN : FinishTest(ok)) \/ (\E on \in BOOLEAN : HoldBack(on))
  BY <1>4, StageIInv
<1>5. CASE TokenExpires \/ CountConnection \/ DateBill \/ UseAgain \/ Elapse \/ \E c \in Traffic : Bill(c)
  BY <1>5, OperatorIInv
<1>6. CASE UNCHANGED creditVars
  <2>1. CreditTypeOK'
    BY <1>6 DEF IInv, CreditTypeOK, creditVars, checkerVars, operatorVars
  <2>2. OperatorInv' /\ BaseInv' /\ LateInv'
    BY <1>6 DEF IInv, OperatorInv, BaseInv, LateInv, creditVars, checkerVars, operatorVars
  <2>3. RecognisedIsBilled'
    BY <1>6 DEF IInv, RecognisedIsBilled, Evidence, creditVars, checkerVars, operatorVars
  <2>4. NothingOverlooked'
    BY <1>6 DEF IInv, NothingOverlooked, Shown, creditVars, checkerVars, operatorVars
  <2> QED
    BY <2>1, <2>2, <2>3, <2>4 DEF IInv
<1> QED
  BY <1>1, <1>2, <1>3, <1>4, <1>5, <1>6 DEF CreditNext

LEMMA SpecIInv == CreditSpec => []IInv
<1>1. CreditInit => IInv
  BY CreditInitIInv
<1>2. IInv /\ [CreditNext]_creditVars => IInv'
  BY NextIInv
<1> QED
  BY <1>1, <1>2, PTL DEF CreditSpec

-----------------------------------------------------------------------------
(***************************************************************************)
(* Theorems                                                                *)
(***************************************************************************)

\* wait_for_bill recognises units only when the operator has billed them, for any
\* checker, allowance and reserve: neither the base, whenever it was taken, nor an
\* answer by SMS that came late gives the test what was billed before.
THEOREM RecognisedWasBilled == CreditSpec => []RecognisedIsBilled
<1>1. IInv => RecognisedIsBilled
  BY DEF IInv
<1> QED
  BY <1>1, SpecIInv, PTL

\* wait_for_bill never sleeps on a bill that has all the test has consumed and the
\* base has not, unless nothing of the allowance is left.
THEOREM NoBillIsOverlooked == CreditSpec => []NothingOverlooked
<1>1. IInv => NothingOverlooked
  BY DEF IInv
<1> QED
  BY <1>1, SpecIInv, PTL
=============================================================================
