------------------------------ MODULE DonutProofs ------------------------------
(***************************************************************************)
(* For every fraction a registry may hold and every inflow whose products  *)
(* fit into 63 bits: the split is fair to the micro-dollar, and exactly    *)
(* what was signed verifies.                                               *)
(***************************************************************************)
EXTENDS DonutMath, TLAPS

-----------------------------------------------------------------------------
(* Numbers in range are not changed by wrapping.                           *)
LEMMA WrapIsIdentity == ASSUME NEW n \in Int, 0 <= n, n < HalfRange  PROVE Wrap(n) = n
<1>1. HalfRange \in Nat \ {0}
  BY DonutAssumption
<1> DEFINE r == n + HalfRange  w == 2 * HalfRange
<1>2. r \in Int /\ w \in Int /\ 0 <= r /\ r < w
  BY <1>1
<1> HIDE DEF r, w
<1>3. r % w = r
  BY <1>2
<1> QED  BY <1>1, <1>3 DEF Wrap, r, w

LEMMA PartsOfDonut ==
  ASSUME NEW d \in Nat, d * 70 < HalfRange
  PROVE  /\ Builder(d) = (d * 70) \div 100 /\ Reviewers(d) = (d * 20) \div 100
         /\ Ecosystem(d) = d - Builder(d) - Reviewers(d)
         /\ Builder(d) \in Nat /\ Reviewers(d) \in Nat /\ Ecosystem(d) \in Nat
         /\ Builder(d) + Reviewers(d) + Ecosystem(d) = d
         /\ 70 * d - 100 < 100 * Builder(d) /\ 100 * Builder(d) <= 70 * d
         /\ 20 * d - 100 < 100 * Reviewers(d) /\ 100 * Reviewers(d) <= 20 * d
         /\ 100 * Ecosystem(d) >= 10 * d
         /\ InRange(Builder(d) + Ecosystem(d))
<1>0. HalfRange \in Nat \ {0}
  BY DonutAssumption
<1>1. Wrap(d * 70) = d * 70 /\ Wrap(d * 20) = d * 20
  BY <1>0, WrapIsIdentity
<1>2. Builder(d) = (d * 70) \div 100 /\ Reviewers(d) = (d * 20) \div 100
  BY <1>1 DEF Builder, Reviewers, TruncDiv
<1> DEFINE b == (d * 70) \div 100  r == (d * 20) \div 100
<1>3. b \in Nat /\ r \in Nat /\ 70 * d - 100 < 100 * b /\ 100 * b <= 70 * d
      /\ 20 * d - 100 < 100 * r /\ 100 * r <= 20 * d
  OBVIOUS
<1> HIDE DEF b, r
<1>4. d - b - r \in Nat /\ d - b - r < HalfRange /\ 100 * (d - b - r) >= 10 * d
  BY <1>0, <1>3
<1>5. Ecosystem(d) = d - b - r
  BY <1>2, <1>3, <1>4, WrapIsIdentity DEF Ecosystem, b, r
<1> QED  BY <1>0, <1>2, <1>3, <1>4, <1>5 DEF InRange, b, r

LEMMA DonutOfInflow ==
  ASSUME NEW i \in Int, NEW f \in [num : Int, den : Int], f.num >= 0, f.den > 0,
         i * f.num < HalfRange
  PROVE  Donut(i, f) \in Nat
<1> DEFINE p == (IF i > 0 THEN i ELSE 0) * f.num
<1>0. HalfRange \in Nat \ {0}
  BY DonutAssumption
<1>1. p \in Int /\ 0 <= p /\ p < HalfRange
  <2>1. CASE i > 0
    BY <1>0, <2>1
  <2>2. CASE ~(i > 0)
    BY <1>0, <2>2
  <2> QED  BY <2>1, <2>2
<1> HIDE DEF p
<1>2. Donut(i, f) = p \div f.den
  BY <1>1, WrapIsIdentity DEF Donut, TruncDiv, p
<1>3. p \div f.den \in Nat
  BY <1>1
<1> QED  BY <1>2, <1>3

-----------------------------------------------------------------------------
(* The inductive invariant: a signed attestation is as attest made it.     *)

Ids == {AdapterId(p, src, dst) : p \in FillProtocols, src \in FillChains, dst \in FillChains}

Attestations ==
  [inflow : Int, num : Int, den : Int, donut : Int, builder : Int, reviewers : Int,
   ecosystem : Int, protocol : FillProtocols, adapter : Ids,
   paidTo : {PaidTo(id) : id \in Ids}, signed : BOOLEAN]

AsSigned(a) ==
  /\ a.den > 0
  /\ a.donut = Donut(a.inflow, [num |-> a.num, den |-> a.den])
  /\ a.builder = Builder(a.donut) /\ a.reviewers = Reviewers(a.donut)
  /\ a.ecosystem = Ecosystem(a.donut)

DonutInv ==
  /\ override \in [num : Int, den : Int]
  /\ att = NoAtt => judged = "none"
  /\ att # NoAtt => att \in Attestations /\ (att.signed => AsSigned(att))
  /\ judged \in {"none", "accepted", "rejected"}
  /\ judged # "none" => (judged = "accepted" <=> Accepts(att))

LEMMA WrapIsInt == ASSUME NEW n \in Int  PROVE Wrap(n) \in Int
BY DonutAssumption DEF Wrap

LEMMA TruncDivIsInt == ASSUME NEW a \in Int, NEW b \in Int, b > 0  PROVE TruncDiv(a, b) \in Int
<1>1. CASE a >= 0
  BY <1>1 DEF TruncDiv
<1>2. CASE ~(a >= 0)
  BY <1>2 DEF TruncDiv
<1> QED  BY <1>1, <1>2

LEMMA AmountsAreInts ==
  ASSUME NEW i \in Int, NEW f \in [num : Int, den : Int], f.den > 0
  PROVE  /\ Donut(i, f) \in Int
         /\ \A d \in Int : Builder(d) \in Int /\ Reviewers(d) \in Int /\ Ecosystem(d) \in Int
<1>1. Donut(i, f) \in Int
  <2>1. (IF i > 0 THEN i ELSE 0) * f.num \in Int
    OBVIOUS
  <2> QED  BY <2>1, WrapIsInt, TruncDivIsInt DEF Donut
<1>2. ASSUME NEW d \in Int
      PROVE  Builder(d) \in Int /\ Reviewers(d) \in Int /\ Ecosystem(d) \in Int
  <2>1. Builder(d) \in Int /\ Reviewers(d) \in Int
    BY WrapIsInt, TruncDivIsInt DEF Builder, Reviewers
  <2> QED  BY <2>1, WrapIsInt DEF Ecosystem
<1> QED  BY <1>1, <1>2

LEMMA DonutInvInit == DonutInit => DonutInv
BY DonutAssumption DEF DonutInit, DonutInv, NoAtt

LEMMA AttestKeepsInv ==
  ASSUME DonutInv, NEW i \in Inflows, NEW p \in FillProtocols, NEW src \in FillChains,
         NEW dst \in FillChains, Attest(i, p, src, dst)
  PROVE  DonutInv'
<1> DEFINE f == Effective(override)
           d == Donut(i, f)
           id == AdapterId(p, src, dst)
<1>1. f \in [num : Int, den : Int] /\ f.den > 0 /\ i \in Int
  BY DonutAssumption DEF DonutInv, Effective, Default
<1>2. d \in Int /\ Builder(d) \in Int /\ Reviewers(d) \in Int /\ Ecosystem(d) \in Int
  BY <1>1, AmountsAreInts
<1>3. id \in Ids /\ PaidTo(id) \in {PaidTo(k) : k \in Ids}
  BY DEF Ids
<1>4. f = [num |-> f.num, den |-> f.den]
  BY <1>1
<1>5. /\ att' = [inflow |-> i, num |-> f.num, den |-> f.den, donut |-> d,
                 builder |-> Builder(d), reviewers |-> Reviewers(d), ecosystem |-> Ecosystem(d),
                 protocol |-> p, adapter |-> id, paidTo |-> PaidTo(id), signed |-> TRUE]
      /\ att = NoAtt /\ override' = override /\ judged' = judged
  BY DEF Attest
<1> HIDE DEF f, d, id
<1>6. att' \in Attestations
  BY <1>1, <1>2, <1>3, <1>5 DEF Attestations
<1>7. AsSigned(att')
  BY <1>1, <1>4, <1>5 DEF AsSigned, d
<1>8. judged' = "none"
  BY <1>5 DEF DonutInv
<1> QED  BY <1>5, <1>6, <1>7, <1>8 DEF DonutInv

LEMMA TamperKeepsInv ==
  ASSUME DonutInv, NEW i \in Inflows, Tamper(i)
  PROVE  DonutInv'
<1>1. att # NoAtt /\ att \in Attestations /\ AsSigned(att) /\ i \in Int
  BY DonutAssumption DEF Tamper, DonutInv, NoAtt
<1>2. att' = [att EXCEPT !.inflow = i, !.signed = i = att.inflow]
      /\ judged = "none" /\ judged' = judged /\ override' = override
  BY DEF Tamper
<1>3. att' \in Attestations
  BY <1>1, <1>2 DEF Attestations
<1>4. ASSUME att'.signed  PROVE AsSigned(att')
  <2>1. i = att.inflow
    BY <1>1, <1>2, <1>4 DEF Attestations
  <2>2. /\ att'.inflow = i /\ att'.num = att.num /\ att'.den = att.den
        /\ att'.donut = att.donut /\ att'.builder = att.builder
        /\ att'.reviewers = att.reviewers /\ att'.ecosystem = att.ecosystem
    BY <1>1, <1>2 DEF Attestations
  <2> QED  BY <1>1, <2>1, <2>2 DEF AsSigned
<1> QED  BY <1>1, <1>2, <1>3, <1>4 DEF DonutInv

LEMMA DonutInvStep == DonutInv /\ [DonutNext]_donutVars => DonutInv'
<1> SUFFICES ASSUME DonutInv, [DonutNext]_donutVars  PROVE DonutInv'
  OBVIOUS
<1>1. ASSUME NEW f \in Fractions, LoadRegistry(f)  PROVE DonutInv'
  BY <1>1, DonutAssumption DEF LoadRegistry, DonutInv
<1>2. CASE \E i \in Inflows, p \in FillProtocols, src, dst \in FillChains : Attest(i, p, src, dst)
  BY <1>2, AttestKeepsInv
<1>3. CASE \E i \in Inflows : Tamper(i)
  BY <1>3, TamperKeepsInv
<1>4. CASE Judge
  <2>1. att' = att /\ override' = override /\ att # NoAtt
        /\ judged' = IF Accepts(att) THEN "accepted" ELSE "rejected"
    BY <1>4 DEF Judge
  <2>2. (judged' = "accepted" <=> Accepts(att)) /\ judged' \in {"none", "accepted", "rejected"}
    BY <2>1
  <2>3. AsSigned(att') <=> AsSigned(att)
    BY <2>1
  <2>4. Accepts(att') <=> Accepts(att)
    BY <2>1
  <2> QED  BY <2>1, <2>2, <2>3, <2>4 DEF DonutInv
<1>5. CASE UNCHANGED donutVars
  BY <1>5 DEF donutVars, DonutInv
<1> QED  BY <1>1, <1>2, <1>3, <1>4, <1>5 DEF DonutNext

LEMMA DonutInvAlways == DonutSpec => []DonutInv
BY DonutInvInit, DonutInvStep, PTL DEF DonutSpec

-----------------------------------------------------------------------------
LEMMA SmallDonut ==
  ASSUME NEW a \in Attestations, AsSigned(a), a.num >= 0, Small(a)
  PROVE  a.donut \in Nat /\ a.donut * 70 < HalfRange
<1> DEFINE f == [num |-> a.num, den |-> a.den]
<1>1. a.inflow \in Int /\ f \in [num : Int, den : Int] /\ f.num = a.num /\ f.den = a.den
  BY DEF Attestations
<1> HIDE DEF f
<1>2. Donut(a.inflow, f) \in Nat
  BY <1>1, DonutOfInflow DEF AsSigned, Small
<1> QED  BY <1>2 DEF AsSigned, Small, f

(* The builder and the reviewers get their parts, rounded down by less     *)
(* than a micro-dollar, the ecosystem the rest, and nothing is left over.  *)
THEOREM SplitIsFair == DonutSpec => []SharesAreFair
<1>1. DonutInv => SharesAreFair
  <2> SUFFICES ASSUME DonutInv, att # NoAtt, att.num >= 0, att.signed, Small(att)
               PROVE  SharesAreFair
    BY DEF SharesAreFair
  <2>1. att \in Attestations /\ AsSigned(att)
    BY DEF DonutInv
  <2>2. att.donut \in Nat /\ att.donut * 70 < HalfRange
    BY <2>1, SmallDonut
  <2> DEFINE d == att.donut
  <2>3. /\ Builder(d) + Reviewers(d) + Ecosystem(d) = d
        /\ 70 * d - 100 < 100 * Builder(d) /\ 100 * Builder(d) <= 70 * d
        /\ 20 * d - 100 < 100 * Reviewers(d) /\ 100 * Reviewers(d) <= 20 * d
        /\ 100 * Ecosystem(d) >= 10 * d
        /\ Builder(d) \in Nat /\ Reviewers(d) \in Nat /\ Ecosystem(d) \in Nat
    BY <2>2, PartsOfDonut
  <2>4. att.builder = Builder(d) /\ att.reviewers = Reviewers(d) /\ att.ecosystem = Ecosystem(d)
    BY <2>1 DEF AsSigned
  <2>5. att.builder + att.reviewers + att.ecosystem = d
    BY <2>3, <2>4
  <2> QED  BY <2>2, <2>3, <2>4, <2>5 DEF SharesAreFair
<1> QED  BY <1>1, DonutInvAlways, PTL

(* Exactly what was signed verifies, whatever the registry holds by then.  *)
THEOREM SignedVerifies == DonutSpec => []SignedIsAccepted
<1>1. DonutInv => SignedIsAccepted
  <2> SUFFICES ASSUME DonutInv, judged # "none", att.num >= 0, Small(att)
               PROVE  (judged = "accepted") = att.signed
    BY DEF SignedIsAccepted
  <2>1. att \in Attestations /\ (att.signed => AsSigned(att)) /\ (judged = "accepted" <=> Accepts(att))
    BY DEF DonutInv
  <2>2. CASE att.signed
    <3>1. att.donut \in Nat /\ att.donut * 70 < HalfRange
      BY <2>1, <2>2, SmallDonut
    <3>2. SumsUp(att)
      <4>1. /\ Builder(att.donut) + Reviewers(att.donut) + Ecosystem(att.donut) = att.donut
            /\ Builder(att.donut) \in Nat /\ Reviewers(att.donut) \in Nat
            /\ Ecosystem(att.donut) \in Nat
            /\ InRange(Builder(att.donut) + Ecosystem(att.donut))
        BY <3>1, PartsOfDonut
      <4> QED  BY <2>1, <2>2, <4>1 DEF SumsUp, AsSigned
    <3>3. Accepts(att)
      BY <2>1, <2>2, <3>2 DEF Accepts, AsSigned
    <3> QED  BY <2>1, <2>2, <3>3
  <2>3. CASE ~att.signed
    <3>1. att.signed = FALSE /\ Accepts(att) = FALSE
      BY <2>1, <2>3 DEF Accepts, Attestations
    <3> QED  BY <2>1, <3>1
  <2>4. att.signed \in BOOLEAN
    BY <2>1 DEF Attestations
  <2> QED  BY <2>2, <2>3, <2>4
<1> QED  BY <1>1, DonutInvAlways, PTL

\* A number of 64 bits is a number of 64 bits.
LEMMA WrapInRange == ASSUME NEW n \in Int  PROVE Wrap(n) \in Int /\ InRange(Wrap(n))
<1> DEFINE r == n + HalfRange  w == 2 * HalfRange
<1>1. r \in Int /\ w \in Int /\ w > 0 /\ HalfRange \in Nat
  BY DonutAssumption
<1> HIDE DEF r, w
<1>2. r % w \in 0..(w - 1)
  BY <1>1
<1>3. Wrap(n) = (r % w) - HalfRange
  BY DEF Wrap, r, w
<1>4. w = 2 * HalfRange
  BY DEF w
<1> HIDE DEF w
<1> QED  BY <1>1, <1>2, <1>3, <1>4 DEF InRange

\* Dividing does not enlarge.
LEMMA QuotientIsSmaller == ASSUME NEW a \in Nat, NEW b \in Nat \ {0}  PROVE a \div b \in 0..a
OBVIOUS

\* Nor does truncating towards zero.
LEMMA TruncDivInRange ==
  ASSUME NEW a \in Int, InRange(a), NEW b \in Int, b > 0  PROVE InRange(TruncDiv(a, b))
<1>1. CASE a >= 0
  <2>1. a \div b \in 0..a
    BY <1>1, QuotientIsSmaller
  <2> QED  BY <1>1, <2>1, DonutAssumption DEF TruncDiv, InRange
<1>2. CASE ~(a >= 0)
  <2>1. (-a) \div b \in 0..(-a)
    BY <1>2, QuotientIsSmaller
  <2> QED  BY <1>2, <2>1, DonutAssumption DEF TruncDiv, InRange
<1> QED  BY <1>1, <1>2

\* The three parts of a donut fit.
LEMMA PartsInRange ==
  ASSUME NEW d \in Int
  PROVE  InRange(Builder(d)) /\ InRange(Reviewers(d)) /\ InRange(Ecosystem(d))
<1>1. InRange(Builder(d)) /\ InRange(Reviewers(d))
  BY WrapInRange, TruncDivInRange DEF Builder, Reviewers
<1>2. Builder(d) \in Int /\ Reviewers(d) \in Int
  BY WrapIsInt, TruncDivIsInt DEF Builder, Reviewers
<1>3. InRange(Ecosystem(d))
  BY <1>2, WrapInRange DEF Ecosystem
<1> QED  BY <1>1, <1>3

\* So does the donut.
LEMMA DonutInRange ==
  ASSUME NEW i \in Int, NEW f \in [num : Int, den : Int], f.den > 0  PROVE InRange(Donut(i, f))
<1>1. (IF i > 0 THEN i ELSE 0) * f.num \in Int
  OBVIOUS
<1> QED  BY <1>1, WrapInRange, TruncDivInRange DEF Donut

DonutTyped == DonutInv /\ DonutTypeOK

\* No attestation at the start.
LEMMA DonutTypesInit == DonutInit => DonutTyped
BY DonutInvInit DEF DonutInit, DonutTyped, DonutTypeOK

\* Whatever is attested or tampered with, its amounts fit into 64 bits.
LEMMA DonutTypesStep == DonutTyped /\ [DonutNext]_donutVars => DonutTyped'
<1> SUFFICES ASSUME DonutTyped, [DonutNext]_donutVars  PROVE DonutTyped'
  OBVIOUS
<1>0. DonutInv'
  BY DonutInvStep DEF DonutTyped
<1>1. ASSUME NEW f \in Fractions, LoadRegistry(f)  PROVE DonutTyped'
  BY <1>0, <1>1 DEF LoadRegistry, DonutTyped, DonutTypeOK
<1>2. ASSUME NEW i \in Inflows, NEW p \in FillProtocols, NEW src \in FillChains,
             NEW dst \in FillChains, Attest(i, p, src, dst)
      PROVE  DonutTyped'
  <2> DEFINE f == Effective(override)
             d == Donut(i, f)
  <2>1. f \in [num : Int, den : Int] /\ f.den > 0 /\ i \in Int
    BY DonutAssumption DEF DonutTyped, DonutInv, Effective, Default
  <2>2. d \in Int /\ InRange(d)
    BY <2>1, AmountsAreInts, DonutInRange
  <2>3. /\ att'.donut = d /\ att'.builder = Builder(d) /\ att'.reviewers = Reviewers(d)
        /\ att'.ecosystem = Ecosystem(d) /\ UNCHANGED <<override, judged>>
    BY <1>2 DEF Attest
  <2> HIDE DEF d
  <2> QED  BY <1>0, <2>2, <2>3, PartsInRange DEF DonutTyped, DonutTypeOK
<1>3. ASSUME NEW i \in Inflows, Tamper(i)  PROVE DonutTyped'
  <2>1. att # NoAtt /\ att \in Attestations
    BY <1>3 DEF Tamper, DonutTyped, DonutInv, NoAtt
  <2>2. att' = [att EXCEPT !.inflow = i, !.signed = i = att.inflow] /\ UNCHANGED <<override, judged>>
    BY <1>3 DEF Tamper
  <2>3. /\ att'.donut = att.donut /\ att'.builder = att.builder
        /\ att'.reviewers = att.reviewers /\ att'.ecosystem = att.ecosystem
    BY <2>1, <2>2 DEF Attestations
  <2> QED  BY <1>0, <2>1, <2>2, <2>3 DEF DonutTyped, DonutTypeOK
<1>4. CASE Judge
  <2>1. judged' \in {"accepted", "rejected"} /\ UNCHANGED <<override, att>>
    BY <1>4 DEF Judge
  <2> QED  BY <1>0, <2>1 DEF DonutTyped, DonutTypeOK
<1>5. CASE UNCHANGED donutVars
  BY <1>0, <1>5 DEF donutVars, DonutTyped, DonutTypeOK
<1> QED  BY <1>1, <1>2, <1>3, <1>4, <1>5 DEF DonutNext
=============================================================================
