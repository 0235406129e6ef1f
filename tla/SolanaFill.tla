------------------------------ MODULE SolanaFill ------------------------------
(***************************************************************************)
(* executor and protocol-adapters-solana: a fill whose transaction goes to *)
(* Solana.  Four protocols have a path of their own; each looks at the     *)
(* configuration and the intent in its own order, signs over a recent      *)
(* blockhash, posts the transaction, and takes the node's answer for the   *)
(* end of the fill: CONFIRMED with its row, or REVERTED without.  What the *)
(* cluster does with the transaction comes later and is not looked at.     *)
(*                                                                         *)
(* FillPipeline has the whole fill as one action among others; here are    *)
(* its calls one by one.  The node, the cluster and Wormholescan are       *)
(* external.                                                               *)
(***************************************************************************)
EXTENDS Naturals

CONSTANTS
  Orders,           \* [slug, from: source chain, to, auction, good: readable fields]
  ReadyPrograms,    \* paths whose program id is no placeholder
  HashLife          \* ages at which a blockhash is accepted: 150 slots

ASSUME HashAssumption == HashLife \in Nat

VARIABLES
  order,            \* the intent
  setting,          \* [dryRun, key]: DRY_RUN, SOLANA_PRIVATE_KEY readable
  phase,            \* the call under way, or how the fill ended
  age,              \* slots since the blockhash
  solTx,            \* the transaction
  nodeSays,         \* the node's verdict on it
  solRow,           \* an executed row is in the outcome log
  mishaps           \* history: "lost" answer, "crash", "log" that took no row

solanaVars == <<order, setting, phase, age, solTx, nodeSays, solRow, mishaps>>

FillEnds == {"evm", "skipped", "failed", "REVERTED", "CONFIRMED", "stopped"}

SolanaTypeOK ==
  /\ order \in Orders /\ setting \in [dryRun : BOOLEAN, key : BOOLEAN]
  /\ phase \in {"start", "vaa", "blockhash", "answer"} \cup FillEnds
  /\ age \in 0..HashLife + 1 /\ solRow \in BOOLEAN
  /\ solTx \in {"none", "posted", "accepted", "landed", "dropped"}
  /\ nodeSays \in {"none", "taken", "refused"}
  /\ mishaps \subseteq {"lost", "crash", "log"}

SolanaInit ==
  /\ order \in Orders /\ setting \in [dryRun : BOOLEAN, key : BOOLEAN]
  /\ phase = "start" /\ age = 0 /\ solTx = "none" /\ nodeSays = "none"
  /\ solRow = FALSE /\ mishaps = {}

-----------------------------------------------------------------------------
(* lambda_execute: the slug is the set of fragments looked for in it.      *)
SolanaSource == order.from = "solana"

Path ==
  IF "flash" \in order.slug /\ SolanaSource THEN "flash"
  ELSE IF "mayan" \in order.slug /\ SolanaSource THEN "swift"
  ELSE IF "debridge" \in order.slug /\ order.to = "solana" THEN "dln"
  ELSE IF "ntt" \in order.slug /\ ~SolanaSource THEN "ntt"
  ELSE "evm"

Has(fields) == fields \subseteq order.good

(* from_intent of each path: what must be there and readable.  A vault is  *)
(* derived from the order id and the program; an amount may be any of      *)
(* three fields, a deadline is made up.                                    *)
DlnIntent == Has({"orderId", "takeAmount", "recipient", "mint"})

Trader == Has({"trader"}) \/ Has({"recipient"})
FlashIntent ==
  /\ Has({"orderId", "state", "amount"}) /\ Trader
  /\ Has({"vault"}) \/ Has({"hash", "program"})

SwiftIntent ==
  /\ Has({"orderId", "state", "amount"}) /\ Trader
  /\ Has({"vault"}) \/ Has({"hash", "program"})

NttIntent == Has({"sequence", "emitterChain"})

Shaped ==
  CASE Path = "dln"   -> DlnIntent
    [] Path = "flash" -> FlashIntent
    [] Path = "swift" -> SwiftIntent
    [] OTHER          -> NttIntent

(* build_signed_tx, build_flash_tx, build_release_inbound_tx: the order    *)
(* id, the program and the accounts decode to 32 bytes, and the whole fits *)
(* a packet.                                                               *)
DlnBuilds == Has({"hash", "recipient", "small"})
FlashBuilds == Has({"hash", "program", "state", "small"})
SwiftBuilds == Has({"hash", "program", "state", "small"})

Signable ==
  /\ Path \in ReadyPrograms
  /\ CASE Path = "dln"   -> DlnBuilds
       [] Path = "flash" -> FlashBuilds
       [] Path = "swift" -> SwiftBuilds
       [] OTHER          -> TRUE

(* The checks of each path in their order, and what ends the fill there.   *)
FirstCall ==
  IF Path = "evm" THEN "evm"
  ELSE IF \/ Path \in {"flash", "dln"} /\ Path \notin ReadyPrograms
          \/ Path = "swift" /\ order.auction # 0 THEN "skipped"
  ELSE IF Path = "swift" /\ ~Shaped THEN "failed"
  ELSE IF setting.dryRun THEN "skipped"
  ELSE IF ~Shaped THEN "failed"
  ELSE IF ~setting.key THEN "skipped"
  ELSE IF Path = "ntt" THEN "vaa" ELSE "blockhash"

Begin ==
  /\ phase = "start"
  /\ phase' = FirstCall
  /\ UNCHANGED <<order, setting, age, solTx, nodeSays, solRow, mishaps>>

-----------------------------------------------------------------------------
(* fetch_vaa: by the hash of the source transaction as the emitter.        *)
VaaArrives ==
  /\ phase = "vaa" /\ phase' = "blockhash"
  /\ UNCHANGED <<order, setting, age, solTx, nodeSays, solRow, mishaps>>

(* A call before the transaction is posted fails, or it cannot be signed.  *)
CallFails ==
  /\ phase \in {"vaa", "blockhash"} /\ phase' = "REVERTED"
  /\ UNCHANGED <<order, setting, age, solTx, nodeSays, solRow, mishaps>>

(* get_latest_blockhash, build_signed_tx, send_raw_transaction. *)
PostTx ==
  /\ phase = "blockhash" /\ Signable
  /\ phase' = "answer" /\ solTx' = "posted" /\ age' = 0
  /\ UNCHANGED <<order, setting, nodeSays, solRow, mishaps>>

Slot ==
  /\ solTx \in {"posted", "accepted"} /\ age <= HashLife
  /\ age' = age + 1
  /\ UNCHANGED <<order, setting, phase, solTx, nodeSays, solRow, mishaps>>

(* The preflight simulates it against the processed state; after that the  *)
(* node sends it to the leaders, at most until the blockhash is too old.   *)
NodeTakes ==
  /\ solTx = "posted" /\ age <= HashLife
  /\ solTx' = "accepted" /\ nodeSays' = "taken"
  /\ UNCHANGED <<order, setting, phase, age, solRow, mishaps>>

NodeRefuses ==
  /\ solTx = "posted" /\ solTx' = "dropped" /\ nodeSays' = "refused"
  /\ UNCHANGED <<order, setting, phase, age, solRow, mishaps>>

Lands ==
  /\ solTx = "accepted" /\ age <= HashLife
  /\ solTx' = "landed"
  /\ UNCHANGED <<order, setting, phase, age, nodeSays, solRow, mishaps>>

Expires ==
  /\ solTx = "accepted" /\ solTx' = "dropped"
  /\ UNCHANGED <<order, setting, phase, age, nodeSays, solRow, mishaps>>

-----------------------------------------------------------------------------
(* append_solana_confirmed; the log may fail, which is only a warning.     *)
\* Mutant: a path without the call.
AnsweredMutant ==
  /\ phase = "answer" /\ nodeSays = "taken"
  /\ phase' = "CONFIRMED"
  /\ UNCHANGED <<order, setting, age, solTx, nodeSays, solRow, mishaps>>

Answered ==
  /\ phase = "answer" /\ nodeSays = "taken"
  /\ phase' = "CONFIRMED"
  /\ \/ solRow' = TRUE /\ UNCHANGED mishaps
     \/ mishaps' = mishaps \cup {"log"} /\ UNCHANGED solRow
  /\ UNCHANGED <<order, setting, age, solTx, nodeSays>>

AnsweredError ==
  /\ phase = "answer" /\ nodeSays = "refused"
  /\ phase' = "REVERTED"
  /\ UNCHANGED <<order, setting, age, solTx, nodeSays, solRow, mishaps>>

(* The client gives up after 15 s, or the answer is no JSON, while the     *)
(* request may still be on its way.                                        *)
AnswerLost ==
  /\ phase = "answer" /\ phase' = "REVERTED"
  /\ mishaps' = mishaps \cup {"lost"}
  /\ UNCHANGED <<order, setting, age, solTx, nodeSays, solRow>>

ProcessStops ==
  /\ phase \notin FillEnds \cup {"start"} /\ phase' = "stopped"
  /\ mishaps' = mishaps \cup {"crash"}
  /\ UNCHANGED <<order, setting, age, solTx, nodeSays, solRow>>

SolanaNext ==
  \/ Begin \/ VaaArrives \/ CallFails \/ PostTx
  \/ Slot \/ NodeTakes \/ NodeRefuses \/ Lands \/ Expires
  \/ Answered \/ AnsweredError \/ AnswerLost \/ ProcessStops

-----------------------------------------------------------------------------
(* "The off-chain attestation is the only record": a fill that is on chain *)
(* and was decided has its row, unless the answer was lost, the process    *)
(* stopped or the log failed; no row is filed for what the node refused;   *)
(* and a REVERTED one whose answer arrived never lands (send_fulfill,      *)
(* append_solana_confirmed).                                               *)
LandedIsRecorded ==
  /\ solTx = "landed" /\ phase # "answer" /\ mishaps = {} => solRow
  /\ solRow => phase = "CONFIRMED" /\ nodeSays = "taken"
  /\ phase = "REVERTED" /\ solTx # "none" /\ "lost" \notin mishaps => solTx = "dropped"

=============================================================================
