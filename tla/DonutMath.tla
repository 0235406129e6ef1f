------------------------------ MODULE DonutMath ------------------------------
(***************************************************************************)
(* donut-adjudicator: what a fill's inflow becomes.  The adapter is read   *)
(* off the protocol's name and the chains, the registry gives the fraction *)
(* and the addresses, the donut is split 70/20/10, signed, and verified by *)
(* whoever stores it, possibly after the registry was replaced.            *)
(*                                                                         *)
(* Money is an i64 of micro-dollars that wraps in a release build.         *)
(***************************************************************************)
EXTENDS Integers

CONSTANTS
  HalfRange,       \* 2^63: numbers are in -HalfRange .. HalfRange - 1
  Inflows,         \* inflows that fills bring, in micro-dollars
  Fractions,       \* [num, den] an override of the registry may hold
  Registered,      \* adapter ids the registry lists
  FillProtocols,   \* protocol names of outcome rows
  FillChains       \* chains of outcome rows

ASSUME DonutAssumption ==
  /\ HalfRange \in Nat \ {0}
  /\ Inflows \subseteq Int /\ Fractions \subseteq [num : Int, den : Int]

VARIABLES
  override,        \* the registry's fraction for the adapter at hand
  att,             \* the attestation, or NoAtt
  judged           \* verify's answer about it: "none", "accepted" or "rejected"

donutVars == <<override, att, judged>>

-----------------------------------------------------------------------------
(* is_solana_involved, adapter_id_resolve.                                 *)
SolanaChains == {0, 1399811149, 100000001}

FlashNames == {"mayan_flash", "flash_mayan"}
MayanNames == {"mayan", "mayan_swift", "mayan_finance"}
NttNames == {"wormhole", "wormhole_ntt", "ntt"}
DlnNames == {"debridge", "debridge_dln", "dln"}

AdapterId(p, src, dst) ==
  LET solana == {src, dst} \cap SolanaChains # {} IN
  CASE p \in FlashNames -> IF solana THEN "mayan-flash-solana-v1" ELSE "mayan-flash-evm-v1"
    [] p \in MayanNames -> IF solana THEN "mayan-solana-swift-v1" ELSE "mayan-evm-swift-v1"
    [] p \in NttNames   -> "wormhole-ntt-solana-v1"
    [] p = "lifi"       -> "lifi-meta-v2"
    [] p = "across"     -> "across-v3"
    [] p \in DlnNames   -> IF solana THEN "debridge-dln-solana-v1" ELSE "debridge-dln-v1"
    [] OTHER            -> "unknown"

(* The builder's and the reviewers' shares of an adapter the registry does *)
(* not list go to the ecosystem's address.                                 *)
PaidTo(id) == IF id \in Registered THEN "builder" ELSE "ecosystem"

-----------------------------------------------------------------------------
Wrap(n) == ((n + HalfRange) % (2 * HalfRange)) - HalfRange
TruncDiv(a, b) == IF a >= 0 THEN a \div b ELSE -((-a) \div b)

Default == [num |-> 1, den |-> 1]

(* AdapterRegistryEntry::bps and load_from_path: a fraction without a      *)
(* positive denominator is the default.                                    *)
Effective(f) == IF f.den > 0 THEN f ELSE Default

\* Mutant: the product is taken in a wider type.
DonutMutant(inflow, f) ==
  TruncDiv((IF inflow > 0 THEN inflow ELSE 0) * f.num, f.den)

Donut(inflow, f) ==
  TruncDiv(Wrap((IF inflow > 0 THEN inflow ELSE 0) * f.num), f.den)

Builder(donut) == TruncDiv(Wrap(donut * 70), 100)

\* Mutant: the share is rounded up.
ReviewersMutant(donut) == TruncDiv(Wrap(donut * 20 + 99), 100)

Reviewers(donut) == TruncDiv(Wrap(donut * 20), 100)

Ecosystem(donut) == Wrap(donut - Builder(donut) - Reviewers(donut))

NoAtt == [donut |-> 0, signed |-> FALSE]

DonutInit ==
  /\ override \in Fractions
  /\ att = NoAtt /\ judged = "none"

LoadRegistry(f) ==
  /\ override' = f
  /\ UNCHANGED <<att, judged>>

(* attest *)
Attest(inflow, p, src, dst) ==
  LET f == Effective(override)
      d == Donut(inflow, f) IN
  /\ att = NoAtt
  /\ att' = [inflow |-> inflow, num |-> f.num, den |-> f.den, donut |-> d,
             builder |-> Builder(d), reviewers |-> Reviewers(d), ecosystem |-> Ecosystem(d),
             protocol |-> p, adapter |-> AdapterId(p, src, dst),
             paidTo |-> PaidTo(AdapterId(p, src, dst)), signed |-> TRUE]
  /\ UNCHANGED <<override, judged>>

(* Someone changes the inflow and with it the donut after the signature.   *)
Tamper(inflow) ==
  /\ att.signed /\ judged = "none"
  /\ att' = [att EXCEPT !.inflow = inflow, !.signed = inflow = att.inflow]
  /\ UNCHANGED <<override, judged>>

(* verify: the fraction of the attestation itself, the sum, the signature. *)
InRange(n) == -HalfRange <= n /\ n < HalfRange
SumsUp(a) ==
  /\ InRange(a.builder + a.ecosystem)
  /\ a.builder + a.ecosystem + a.reviewers = a.donut

\* Mutant: the fraction is the registry's of the day.
AcceptsMutant(a) ==
  /\ a.donut = Donut(a.inflow, Effective(override))
  /\ SumsUp(a) /\ a.signed

Accepts(a) ==
  /\ a.den > 0 /\ a.num >= 0
  /\ a.donut = Donut(a.inflow, [num |-> a.num, den |-> a.den])
  /\ SumsUp(a) /\ a.signed

Judge ==
  /\ att # NoAtt /\ judged = "none"
  /\ judged' = IF Accepts(att) THEN "accepted" ELSE "rejected"
  /\ UNCHANGED <<override, att>>

DonutNext ==
  \/ \E f \in Fractions : LoadRegistry(f)
  \/ \E i \in Inflows, p \in FillProtocols, src, dst \in FillChains : Attest(i, p, src, dst)
  \/ \E i \in Inflows : Tamper(i)
  \/ Judge

DonutSpec == DonutInit /\ [][DonutNext]_donutVars

-----------------------------------------------------------------------------
DonutTypeOK ==
  /\ override \in Fractions
  /\ judged \in {"none", "accepted", "rejected"}
  /\ att # NoAtt => \A n \in {att.donut, att.builder, att.reviewers, att.ecosystem} : InRange(n)

(* What no product overflows.                                              *)
Small(a) == a.inflow * a.num < HalfRange /\ a.donut * 70 < HalfRange

(* Each recipient is within a micro-dollar of its part, the rounding goes  *)
(* to the ecosystem, and nothing is left over (compute_redistribution).    *)
SharesAreFair ==
  att # NoAtt /\ att.num >= 0 /\ att.signed /\ Small(att) =>
    /\ att.builder + att.reviewers + att.ecosystem = att.donut
    /\ 70 * att.donut - 100 < 100 * att.builder /\ 100 * att.builder <= 70 * att.donut
    /\ 20 * att.donut - 100 < 100 * att.reviewers /\ 100 * att.reviewers <= 20 * att.donut
    /\ 100 * att.ecosystem >= 10 * att.donut

(* An attestation as it was signed is accepted whatever the registry says  *)
(* by then, and no changed one is (attest, verify).                        *)
SignedIsAccepted ==
  judged # "none" /\ att.num >= 0 /\ Small(att) => (judged = "accepted") = att.signed

=============================================================================
