------------------------------ MODULE AcrossFill ------------------------------
(***************************************************************************)
(* executor: the data of one Across fill, from the event that announced    *)
(* the deposit to the relay that is sent.  Fields the event lacks are      *)
(* first guessed by the feed, then looked up in the deposit's receipt,     *)
(* then defaulted by the encoder; the gates in between look at what is     *)
(* known by then.  FillPipeline has the same steps with their effects on   *)
(* the wallet; here a refusal only ends the fill.                          *)
(*                                                                         *)
(* A field holds the deposit's value ("own"), another one ("wrong") or     *)
(* nothing.  The deposit, the RPC nodes and the Across API are external.   *)
(***************************************************************************)
CONSTANTS
  Deposits,        \* [lacks: fields the event lacks, facts, direct]
  SkipEstimate     \* SKIP_GAS_ESTIMATE=1

(* What can be true of a deposit: it has a message; an exclusive relayer   *)
(* that is someone else, whose window may be open; another token or        *)
(* recipient than the depositor's; too thin a spread; a deadline that is   *)
(* near; an earlier deposit in its transaction; a sender on Solana; the    *)
(* zero address, which stands for native coin, as its output token.        *)
Facts == {"hook", "exclusive", "open", "swapped", "gift", "thin", "late", "sibling",
          "solana", "native"}

RelayFields == {"id", "output", "deadline", "exclusivity", "message", "recipient",
                "dst_token", "src_token"}

VARIABLES
  deposit,         \* the order at hand
  field,           \* field -> "own", "wrong" or "none"
  gate,            \* the next check, or how the fill ended
  sentRelay        \* what was encoded, or nothing

acrossVars == <<deposit, field, gate, sentRelay>>

(* lambda_execute: the checks, and what comes after each.                  *)
After ==
  [profit |-> "proof", proof |-> "enrich", enrich |-> "exclusive", exclusive |-> "complete",
   complete |-> "spread", spread |-> "hook", hook |-> "solana", solana |-> "numbered",
   numbered |-> "deadline", deadline |-> "funds", funds |-> "build", build |-> "estimate",
   estimate |-> "native", native |-> "sent"]
Ends == {"refused", "failed", "sent"}

NoRelay == [f \in RelayFields |-> "none"]

AcrossTypeOK ==
  /\ deposit \in Deposits
  /\ field \in [RelayFields \cup {"tx"} -> {"own", "wrong", "none"}]
  /\ gate \in DOMAIN After \cup Ends
  /\ sentRelay \in [RelayFields -> {"own", "wrong", "none"}]

-----------------------------------------------------------------------------
Is(fact) == fact \in deposit.facts
OwnUnless(bad) == IF bad THEN "wrong" ELSE "own"

(* from_genome_event and across_deposit_to_intent: a recipient that is     *)
(* missing is the depositor, an output token the input token, an input     *)
(* token the zero address.  A synthetic hash is no hash.                   *)
FromEvent(d) ==
  [f \in RelayFields \cup {"tx"} |->
     IF f \notin d.lacks THEN "own"
     ELSE CASE f = "recipient" -> IF "gift" \in d.facts THEN "wrong" ELSE "own"
            [] f = "src_token" -> "wrong"
            [] f = "dst_token" -> IF "src_token" \in d.lacks THEN "none"
                                  ELSE IF "swapped" \in d.facts THEN "wrong" ELSE "own"
            [] OTHER           -> "none"]

AcrossInit ==
  /\ deposit \in Deposits /\ field = FromEvent(deposit)
  /\ gate = "profit" /\ sentRelay = NoRelay

-----------------------------------------------------------------------------
(* How a check on a field may come out: a foreign value may say anything.  *)
Says(f, fact) ==
  CASE field[f] = "own"  -> {Is(fact)}
    [] field[f] = "none" -> {FALSE}
    [] OTHER             -> BOOLEAN

(* The fields the enrichment looks for; the rest it patches on the way.    *)
LookedFor == {"id", "output", "deadline"}
NeedsEnrichment == deposit.direct /\ \E f \in LookedFor : field[f] = "none"

(* build_across_spoke_pool_calldata, build_across_adapter_calldata.        *)
Encoded ==
  [f \in RelayFields |->
     IF field[f] # "none" THEN field[f]
     ELSE CASE f = "message"     -> OwnUnless(Is("hook"))
            [] f = "exclusivity" -> OwnUnless(Is("exclusive"))
            [] f = "dst_token"   -> OwnUnless(~Is("native"))
            [] OTHER             -> "wrong"]

(* The zero address is a token: native output.                             *)
MayPayNative == IF field["dst_token"] = "none" THEN {TRUE} ELSE Says("dst_token", "native")

(* run_evm_estimate_with_value, classify_evm_error: a message that speaks  *)
(* of funds counts as green even if it speaks of a revert too.             *)
NodeAnswers == {"gas", "no funds", "revert", "no funds, revert", "other"}
Green(answer) == answer \in {"gas", "no funds", "no funds, revert"}

(* Does the gate stop the fill?  Profit, proof, balances and the estimate  *)
(* are answers of others; a balance that cannot be read stops nothing.     *)
Stops(g) ==
  CASE g = "profit"    -> IF deposit.direct THEN {FALSE} ELSE BOOLEAN
    [] g = "proof"     -> IF deposit.direct THEN {FALSE} ELSE BOOLEAN
    [] g = "exclusive" -> IF deposit.direct THEN Says("exclusivity", "open") ELSE {FALSE}
    [] g = "complete"  -> {deposit.direct /\ \E f \in {"output", "deadline", "recipient"} :
                                               field[f] = "none"}
    [] g = "spread"    -> IF deposit.direct THEN Says("output", "thin") ELSE {FALSE}
    [] g = "hook"      -> Says("message", "hook")
    [] g = "solana"    -> {Is("solana")}
    [] g = "numbered"  -> {field["id"] = "none"}
    [] g = "deadline"  -> Says("deadline", "late")
    [] g = "funds"     -> IF deposit.direct /\ FALSE \in MayPayNative THEN BOOLEAN ELSE {FALSE}
    [] g = "estimate"  -> IF SkipEstimate THEN {FALSE} ELSE {~Green(a) : a \in NodeAnswers}
    [] g = "native"    -> IF TRUE \in MayPayNative THEN BOOLEAN ELSE {FALSE}

Pass(g) ==
  /\ gate = g /\ FALSE \in Stops(g)
  /\ gate' = After[g]
  /\ UNCHANGED <<deposit, field, sentRelay>>

Refuse(g) ==
  /\ gate = g /\ TRUE \in Stops(g)
  /\ gate' \in CASE g = "proof" -> {"failed"} [] g = "profit" -> {"failed", "refused"}
               [] OTHER -> {"refused"}
  /\ UNCHANGED <<deposit, field, sentRelay>>

(* Nothing is missing, or the source chain has no RPC. *)
NotEnriched ==
  /\ gate = "enrich"
  /\ gate' = After[gate]
  /\ UNCHANGED <<deposit, field, sentRelay>>

(* fetch_relay_data_from_tx reads the first deposit of the receipt; with a *)
(* deposit id, the Across API knows the transaction as well.               *)
CanLookUp == field["tx"] = "own" \/ field["id"] = "own"
Decoded == OwnUnless(Is("sibling"))

(* The patch fills what is empty or zero and keeps what the event said.    *)
Patchable == RelayFields \ {"src_token"}
Empty(f) == field[f] = "none" \/ (f = "dst_token" /\ TRUE \in MayPayNative /\ field[f] = "own")

\* Mutant: the receipt overrules the event.
PatchedMutant == [f \in DOMAIN field |-> IF f \in Patchable THEN Decoded ELSE field[f]]

Patched ==
  [f \in DOMAIN field |-> IF f \in Patchable /\ Empty(f) THEN Decoded ELSE field[f]]

Enrich ==
  /\ gate = "enrich" /\ NeedsEnrichment /\ CanLookUp
  /\ field' = Patched
  /\ gate' = After[gate]
  /\ UNCHANGED <<deposit, sentRelay>>

(* No hash, no receipt, no deposit in it, or an error on the way.          *)
EnrichFails ==
  /\ gate = "enrich" /\ NeedsEnrichment
  /\ gate' = "refused"
  /\ UNCHANGED <<deposit, field, sentRelay>>

BuildRelay ==
  /\ gate = "build"
  /\ sentRelay' = Encoded
  /\ gate' = After[gate]
  /\ UNCHANGED <<deposit, field>>

(* An address or an amount that cannot be read. *)
BuildFails ==
  /\ gate = "build"
  /\ gate' = "failed"
  /\ UNCHANGED <<deposit, field, sentRelay>>

AcrossNext ==
  \/ \E g \in DOMAIN After \ {"enrich", "build"} : Pass(g) \/ Refuse(g)
  \/ NotEnriched \/ Enrich \/ EnrichFails
  \/ BuildRelay \/ BuildFails

AcrossSpec == AcrossInit /\ [][AcrossNext]_acrossVars

-----------------------------------------------------------------------------
Sent == gate = "sent"

(* A direct fill carries the deposit's own value in every field the event  *)
(* had, and in the amount, deadline and id that are looked up, unless the  *)
(* transaction holds an earlier deposit: looking up never overrules the    *)
(* event but in a native token, which reads as missing, and a fill that    *)
(* could not be completed is not sent (lambda_execute, steps 5 to 6).      *)
WrongFieldsWereMissing ==
  Sent /\ deposit.direct => \A f \in RelayFields : sentRelay[f] = "wrong" =>
    \/ f \in deposit.lacks \ LookedFor
    \/ Is("sibling") /\ (f \in deposit.lacks \/ (f = "dst_token" /\ Is("native")))
=============================================================================
