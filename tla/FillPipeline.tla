---------------------------- MODULE FillPipeline ----------------------------
(***************************************************************************)
(* The life of an intent from its dispatch to its claim: the dispatcher    *)
(* and the fill tasks of crates/solver-main/src/main.rs, lambda_execute    *)
(* and lambda_claim_debridge of crates/executor/src/lambda_controller.rs,  *)
(* the retry tick and the manual retry of the API, over the wallet         *)
(* database, the outcome log and the chains.                               *)
(*                                                                         *)
(* A fill task is a sequence of steps between awaits; what runs between    *)
(* two awaits is one step.  Three parties can claim the same fill: its own *)
(* task, the retry tick and an operator's API call.  Only the fill task    *)
(* holds the fill permit.                                                  *)
(*                                                                         *)
(* Faults: an RPC call can fail although the transaction went out (Error), *)
(* and the process can crash, which loses tasks, permits and the dedup set *)
(* and keeps the two databases and what was broadcast.                     *)
(***************************************************************************)
EXTENDS WalletManager, Sequences

CONSTANTS
  DeBridge,      \* the intents whose fill must be claimed (deBridge DLN)
  Solana,        \* the intents filled by a transaction on Solana
  Replayed,      \* the intents the feed delivers again after a restart
  Tick, Api,     \* claimers beside the fill tasks
  FillPermits,   \* permits of fill_semaphore
  MaxErrors,     \* bound: RPC calls that fail
  MaxRestarts    \* bound: crashes

ASSUME DeBridgeAreIntents == DeBridge \subseteq Intents
\* DLN_SOLANA_PROGRAM_ID is a placeholder: no deBridge intent is sent on Solana.
ASSUME SolanaIsNotDeBridge == Solana \subseteq Intents \ DeBridge
ASSUME ClaimersDistinct == Tick # Api /\ Tick \notin Intents /\ Api \notin Intents

Claimers == Intents \cup {Tick, Api}

VARIABLES
  dispatched,    \* the in-memory dedup set
  task,          \* stage of each intent's fill task
  fillTx,        \* the fill transaction the task waits for
  strayFill,     \* intents with a broadcast fill nobody waits for
  order,         \* the order on chain: open, ours, taken or claimed
  rows,          \* outcome rows with a tx_hash, oldest first
  claims,        \* claim attempts under way, at most one per claimer
  strayClaim,    \* intents with a broadcast claim nobody waits for
  tickList,      \* what the running retry tick has left to try
  leaked,        \* history: intents whose task died, or left by `?`, holding
                 \* its reservation
  errors, restarts

taskVars == <<dispatched, task, fillTx>>
chainVars == <<strayFill, strayClaim, order>>
claimVars == <<claims, tickList>>
faultVars == <<leaked, errors, restarts>>
vars == <<walletVars, taskVars, chainVars, rows, claimVars, faultVars>>

Init ==
  /\ InitWallet
  /\ dispatched = {}
  /\ task = [i \in Intents |-> "idle"]
  /\ fillTx = [i \in Intents |-> "none"]
  /\ strayFill = {}
  /\ order = [i \in Intents |-> "open"]
  /\ rows = [i \in Intents |-> <<>>]
  /\ claims = {}
  /\ strayClaim = {}
  /\ tickList = {}
  /\ leaked = {}
  /\ errors = 0
  /\ restarts = 0

Error == errors < MaxErrors /\ errors' = errors + 1

-----------------------------------------------------------------------------
(* Dispatch and admission                                                  *)

\* dispatched.insert(key): the first delivery of this run spawns a task.
Dispatch(i) ==
  /\ i \notin dispatched
  /\ restarts = 0 \/ i \in Replayed \/ wstate[i] = "ABSENT"
  /\ dispatched' = dispatched \cup {i}
  /\ task' = [task EXCEPT ![i] = "queued"]
  /\ UNCHANGED <<walletVars, fillTx, chainVars, rows, claimVars, faultVars>>

\* A task holds its permit from its admission to the end of its claim.
Working == {i \in Intents : task[i] \notin {"idle", "queued"}}

\* Mutant: one permit short.
PermitFreeMutant == Cardinality(Working) + 1 < FillPermits

PermitFree == Cardinality(Working) < FillPermits

EndTask(i) == task' = [task EXCEPT ![i] = "idle"]

\* Notional cap, or no wiring for the destination: the wallet is untouched.
SkipUntouched(i) ==
  /\ task[i] = "queued"
  /\ PermitFree
  /\ EndTask(i)
  /\ UNCHANGED <<walletVars, dispatched, fillTx, chainVars, rows, claimVars,
                 faultVars>>

Admit(i) ==
  /\ task[i] = "queued"
  /\ PermitFree
  /\ \/ /\ CanReserve(i)
        /\ DetectReserveAndMove(i, "PROFITABILITY_CHECK")
        /\ task' = [task EXCEPT ![i] = "checking"]
     \/ /\ ~CanReserve(i)
        /\ DetectAndSkip(i)
        /\ EndTask(i)
  /\ UNCHANGED <<dispatched, fillTx, chainVars, rows, claimVars, faultVars>>

-----------------------------------------------------------------------------
(* The stages of lambda_execute                                            *)

NextStage == [checking |-> "proving", proving |-> "building",
              building |-> "sending"]

StageState == [checking |-> "PROOF_FETCH", proving |-> "CALLDATA_BUILD",
               building |-> "BROADCAST"]

ExitStates == [checking |-> {"SKIP_UNPROFITABLE"},
               proving |-> {"PROOF_MISSING", "SKIP_UNPROFITABLE"},
               building |-> {"CALLDATA_ERROR", "SKIP_UNPROFITABLE"}]

Advance(i) ==
  /\ task[i] \in DOMAIN NextStage
  /\ Transition(i, StageState[task[i]])
  /\ task' = [task EXCEPT ![i] = NextStage[task[i]]]
  /\ UNCHANGED <<dispatched, fillTx, chainVars, rows, claimVars, faultVars>>

\* Unprofitable, no proof, exclusive window, deadline, failed simulation, no
\* native balance, calldata error, dry run: every exit before the broadcast.
SkipOut(i) ==
  /\ task[i] \in DOMAIN ExitStates
  /\ \E s \in ExitStates[task[i]] : TransitionAndRelease(i, s)
  /\ EndTask(i)
  /\ UNCHANGED <<dispatched, fillTx, chainVars, rows, claimVars, faultVars>>

\* The rpc_url does not parse: `?` leaves without a transition or a release.
AbandonSend(i) ==
  /\ task[i] = "sending"
  /\ i \notin Solana
  /\ Error
  /\ leaked' = leaked \cup {i}
  /\ EndTask(i)
  /\ UNCHANGED <<walletVars, dispatched, fillTx, chainVars, rows, claimVars,
                 restarts>>

SendFill(i) ==
  /\ task[i] = "sending"
  /\ i \notin Solana
  /\ Transition(i, "PENDING_CONFIRMATION")
  /\ fillTx' = [fillTx EXCEPT ![i] = "mempool"]
  /\ task' = [task EXCEPT ![i] = "pending"]
  /\ UNCHANGED <<dispatched, chainVars, rows, claimVars, faultVars>>

\* The node refuses, as it does when the order is gone; or the call fails
\* after the node took the transaction.
SendFillFails(i) ==
  /\ task[i] = "sending"
  /\ TransitionAndRelease(i, "REVERTED")
  /\ EndTask(i)
  /\ \/ order[i] # "open" /\ UNCHANGED <<strayFill, errors>>
     \/ strayFill' \in {strayFill, strayFill \cup {i}} /\ Error
  /\ UNCHANGED <<dispatched, fillTx, strayClaim, order, rows, claimVars,
                 leaked, restarts>>

\* CONFIRMED is not terminal, so the release is what frees the budget.
Confirm(i) ==
  /\ task[i] = "pending"
  /\ fillTx[i] = "ok"
  /\ TransitionAndRelease(i, "CONFIRMED")
  /\ fillTx' = [fillTx EXCEPT ![i] = "none"]
  /\ task' = [task EXCEPT ![i] = "confirmed"]
  /\ UNCHANGED <<dispatched, chainVars, rows, claimVars, faultVars>>

\* Mutant: a decision the readers of the log do not look for.
OutcomeRowMutant(d) == [decision |-> "submitted", claimed |-> FALSE]

OutcomeRow(d) == [decision |-> d, claimed |-> FALSE]

AppendExecuted(i) ==
  /\ task[i] = "confirmed"
  /\ rows' = [rows EXCEPT ![i] = Append(@, OutcomeRow("executed"))]
  /\ task' = [task EXCEPT ![i] = IF i \in DeBridge THEN "claimable" ELSE "idle"]
  /\ UNCHANGED <<walletVars, dispatched, fillTx, chainVars, claimVars, faultVars>>

FillReverted(i) ==
  /\ task[i] = "pending"
  /\ fillTx[i] = "reverted"
  /\ TransitionAndRelease(i, "REVERTED")
  /\ rows' = [rows EXCEPT ![i] = Append(@, OutcomeRow("executed_failed"))]
  /\ fillTx' = [fillTx EXCEPT ![i] = "none"]
  /\ EndTask(i)
  /\ UNCHANGED <<dispatched, chainVars, claimVars, faultVars>>

\* Mutant: a fill whose receipt is missing is logged as executed.
RowsAfterReceiptErrorMutant(i) ==
  [rows EXCEPT ![i] = Append(@, OutcomeRow("executed"))]

\* What get_receipt's error appends: nothing, the outcome is not known.
RowsAfterReceiptError(i) == rows

\* On Solana the answer of sendTransaction is taken for the confirmation; no
\* one waits for the transaction.
SendSolana(i) ==
  /\ task[i] = "sending"
  /\ i \in Solana
  /\ Transition(i, "CONFIRMED")
  /\ strayFill' = strayFill \cup {i}
  /\ task' = [task EXCEPT ![i] = "signed"]
  /\ UNCHANGED <<dispatched, fillTx, strayClaim, order, rows, claimVars, faultVars>>

\* append_solana_confirmed(), then release().
AppendSolana(i) ==
  /\ task[i] = "signed"
  /\ rows' = [rows EXCEPT ![i] = Append(@, OutcomeRow("executed"))]
  /\ reserved' = Released(i)
  /\ EndTask(i)
  /\ UNCHANGED <<wstate, revenue, dispatched, fillTx, chainVars, claimVars,
                 faultVars>>

\* get_receipt fails: REVERTED although the transaction may still land.
FillReceiptError(i) ==
  /\ task[i] = "pending"
  /\ Error
  /\ TransitionAndRelease(i, "REVERTED")
  /\ rows' = RowsAfterReceiptError(i)
  /\ strayFill' = IF fillTx[i] = "mempool" THEN strayFill \cup {i} ELSE strayFill
  /\ fillTx' = [fillTx EXCEPT ![i] = "none"]
  /\ EndTask(i)
  /\ UNCHANGED <<dispatched, strayClaim, order, claimVars, leaked, restarts>>

-----------------------------------------------------------------------------
(* The chains (external): an order is filled once and claimed once         *)

MineFill(i) ==
  /\ fillTx[i] = "mempool"
  /\ \/ /\ order[i] = "open"
        /\ order' = [order EXCEPT ![i] = "ours"]
        /\ fillTx' = [fillTx EXCEPT ![i] = "ok"]
     \/ /\ order[i] # "open"
        /\ fillTx' = [fillTx EXCEPT ![i] = "reverted"]
        /\ UNCHANGED order
  /\ UNCHANGED <<walletVars, dispatched, task, strayFill, strayClaim, rows,
                 claimVars, faultVars>>

MineStrayFill(i) ==
  /\ i \in strayFill
  /\ strayFill' = strayFill \ {i}
  /\ order' = IF order[i] = "open" THEN [order EXCEPT ![i] = "ours"] ELSE order
  /\ UNCHANGED <<walletVars, taskVars, strayClaim, rows, claimVars, faultVars>>

TakenByOther(i) ==
  /\ order[i] = "open"
  /\ order' = [order EXCEPT ![i] = "taken"]
  /\ UNCHANGED <<walletVars, taskVars, strayFill, strayClaim, rows, claimVars,
                 faultVars>>

MineClaim(c) ==
  /\ c.tx = "mempool"
  /\ \/ /\ order[c.intent] = "ours"
        /\ order' = [order EXCEPT ![c.intent] = "claimed"]
        /\ claims' = (claims \ {c}) \cup {[c EXCEPT !.tx = "ok"]}
     \/ /\ order[c.intent] # "ours"
        /\ claims' = (claims \ {c}) \cup {[c EXCEPT !.tx = "reverted"]}
        /\ UNCHANGED order
  /\ UNCHANGED <<walletVars, taskVars, strayFill, strayClaim, rows, tickList,
                 faultVars>>

MineStrayClaim(i) ==
  /\ i \in strayClaim
  /\ strayClaim' = strayClaim \ {i}
  /\ order' = IF order[i] = "ours" THEN [order EXCEPT ![i] = "claimed"] ELSE order
  /\ UNCHANGED <<walletVars, taskVars, strayFill, rows, claimVars, faultVars>>

-----------------------------------------------------------------------------
(* Claims                                                                  *)

\* Mutant: a fill still waiting for its receipt is taken for claimable.
EligibleMutant(i) ==
  wstate[i] \in {"PENDING_CONFIRMATION", "CONFIRMED", "CLAIM_PENDING"}

Eligible(i) == wstate[i] \in {"CONFIRMED", "CLAIM_PENDING"}

Attempt(c, i) == [by |-> c, intent |-> i, stage |-> "sending", tx |-> "none"]

\* The head of lambda_claim_debridge: eligible, or the call returns.
StartClaim(c, i) ==
  claims' = IF Eligible(i) THEN claims \cup {Attempt(c, i)} ELSE claims

IdleClaimer(c) == \A a \in claims : a.by # c

TaskClaims(i) ==
  /\ task[i] = "claimable"
  /\ StartClaim(i, i)
  /\ task' = [task EXCEPT ![i] = IF Eligible(i) THEN "claiming" ELSE "idle"]
  /\ UNCHANGED <<walletVars, dispatched, fillTx, chainVars, rows, tickList,
                 faultVars>>

\* unclaimed_debridge_intents(): an executed row with no claim_tx_hash.
HasUnclaimedRow(i) ==
  \E n \in DOMAIN rows[i] :
    rows[i][n].decision = "executed" /\ ~rows[i][n].claimed

TickCandidates == {i \in DeBridge : Eligible(i) /\ HasUnclaimedRow(i)}

TickScan ==
  /\ tickList = {}
  /\ IdleClaimer(Tick)
  /\ TickCandidates # {}
  /\ tickList' = TickCandidates
  /\ UNCHANGED <<walletVars, taskVars, chainVars, rows, claims, faultVars>>

\* The tick tries its candidates one after the other.
TickClaims(i) ==
  /\ i \in tickList
  /\ IdleClaimer(Tick)
  /\ tickList' = tickList \ {i}
  /\ StartClaim(Tick, i)
  /\ UNCHANGED <<walletVars, taskVars, chainVars, rows, faultVars>>

\* list_debridge_claims() also shows CLAIMED and REVERTED intents; the head
\* of lambda_claim_debridge turns them away.
ApiClaims(i) ==
  /\ i \in DeBridge
  /\ Eligible(i)
  /\ IdleClaimer(Api)
  /\ StartClaim(Api, i)
  /\ UNCHANGED <<walletVars, taskVars, chainVars, rows, tickList, faultVars>>

\* The attempt is over; a fill task whose own claim it was is done.
EndClaim(c) ==
  /\ claims' = claims \ {c}
  /\ task' = IF c.by = c.intent THEN [task EXCEPT ![c.intent] = "idle"] ELSE task

SendClaim(c) ==
  /\ c.stage = "sending"
  /\ Transition(c.intent, "CLAIM_PENDING")
  /\ claims' = (claims \ {c}) \cup {[c EXCEPT !.stage = "waiting", !.tx = "mempool"]}
  /\ UNCHANGED <<taskVars, chainVars, rows, tickList, faultVars>>

\* As for a fill; the wallet state stays what it is.
SendClaimFails(c) ==
  /\ c.stage = "sending"
  /\ EndClaim(c)
  /\ \/ order[c.intent] # "ours" /\ UNCHANGED <<strayClaim, errors>>
     \/ strayClaim' \in {strayClaim, strayClaim \cup {c.intent}} /\ Error
  /\ UNCHANGED <<walletVars, dispatched, fillTx, strayFill, order, rows,
                 tickList, leaked, restarts>>

\* Only the fill task's own intent carries the amounts revenue is made of,
\* and only a positive fee is recorded.  The task is over; the outcome row is
\* updated next, except for the API.
ClaimMined(c) ==
  /\ c.stage = "waiting"
  /\ c.tx = "ok"
  /\ \/ c.by = c.intent /\ RecordRevenueAndMove(c.intent, "CLAIMED")
     \/ Transition(c.intent, "CLAIMED")
  /\ claims' = (claims \ {c}) \cup
       (IF c.by = Api THEN {} ELSE {[c EXCEPT !.stage = "record"]})
  /\ task' = IF c.by = c.intent THEN [task EXCEPT ![c.intent] = "idle"] ELSE task
  /\ UNCHANGED <<dispatched, fillTx, chainVars, rows, tickList, faultVars>>

\* update_claim() stamps the newest row with a tx_hash, if there is one.
RecordClaim(c) ==
  /\ c.stage = "record"
  /\ LET n == Len(rows[c.intent])
     IN  rows' = IF n = 0 THEN rows
                 ELSE [rows EXCEPT ![c.intent][n].claimed = TRUE]
  /\ claims' = claims \ {c}
  /\ UNCHANGED <<walletVars, taskVars, chainVars, tickList, faultVars>>

ClaimReverted(c) ==
  /\ c.stage = "waiting"
  /\ c.tx = "reverted"
  /\ Transition(c.intent, "CONFIRMED")
  /\ EndClaim(c)
  /\ UNCHANGED <<dispatched, fillTx, chainVars, rows, tickList, faultVars>>

\* get_receipt fails: back to CONFIRMED, although the claim may have landed.
ClaimReceiptError(c) ==
  /\ c.stage = "waiting"
  /\ Error
  /\ Transition(c.intent, "CONFIRMED")
  /\ EndClaim(c)
  /\ strayClaim' = IF c.tx = "mempool" THEN strayClaim \cup {c.intent} ELSE strayClaim
  /\ UNCHANGED <<dispatched, fillTx, strayFill, order, rows, tickList, leaked,
                 restarts>>

-----------------------------------------------------------------------------
(* Crash and restart; the boot sequence drops stale reservations           *)

Restart ==
  /\ restarts < MaxRestarts
  /\ restarts' = restarts + 1
  /\ dispatched' = {}
  /\ task' = [i \in Intents |-> "idle"]
  /\ fillTx' = [i \in Intents |-> "none"]
  /\ strayFill' = strayFill \cup {i \in Intents : fillTx[i] = "mempool"}
  /\ claims' = {}
  /\ strayClaim' = strayClaim \cup {c.intent : c \in {a \in claims : a.tx = "mempool"}}
  /\ tickList' = {}
  /\ leaked' = leaked \cup reserved
  /\ ReleaseStale
  /\ UNCHANGED <<order, rows, errors>>

-----------------------------------------------------------------------------
FillStep(i) ==
  \/ SkipUntouched(i)
  \/ Admit(i)
  \/ Advance(i)
  \/ SkipOut(i)
  \/ AbandonSend(i)
  \/ SendFill(i)
  \/ SendFillFails(i)
  \/ Confirm(i)
  \/ AppendExecuted(i)
  \/ FillReverted(i)
  \/ FillReceiptError(i)
  \/ SendSolana(i)
  \/ AppendSolana(i)
  \/ TaskClaims(i)

ClaimStep(c) ==
  \/ SendClaim(c)
  \/ SendClaimFails(c)
  \/ ClaimMined(c)
  \/ RecordClaim(c)
  \/ ClaimReverted(c)
  \/ ClaimReceiptError(c)

ChainStep ==
  \/ \E i \in Intents : MineFill(i) \/ MineStrayFill(i) \/ MineStrayClaim(i)
  \/ \E c \in claims : MineClaim(c)

TickStep == TickScan \/ \E i \in Intents : TickClaims(i)

Next ==
  \/ \E i \in Intents : Dispatch(i) \/ FillStep(i) \/ ApiClaims(i) \/ TakenByOther(i)
  \/ \E c \in claims : ClaimStep(c)
  \/ ChainStep
  \/ TickStep
  \/ Restart

Spec == Init /\ [][Next]_vars

\* Tokio keeps polling every task, the retry tick keeps firing, and the
\* chains include what is in their mempools.
FairSpec ==
  /\ Spec
  /\ \A i \in Intents : WF_vars(FillStep(i))
  /\ \A b \in Claimers : WF_vars(\E c \in claims : c.by = b /\ ClaimStep(c))
  /\ \A i \in Intents :
       WF_vars(MineFill(i)) /\ WF_vars(MineStrayFill(i)) /\ WF_vars(MineStrayClaim(i))
  /\ \A b \in Claimers : WF_vars(\E c \in claims : c.by = b /\ MineClaim(c))
  /\ WF_vars(TickStep)

-----------------------------------------------------------------------------
(* Properties                                                              *)

Stage == {"idle", "queued", "checking", "proving", "building", "sending",
          "pending", "signed", "confirmed", "claimable", "claiming"}

TxState == {"none", "mempool", "ok", "reverted"}

Row == [decision : {"executed", "executed_failed"}, claimed : BOOLEAN]

ClaimAttempt == [by : Claimers, intent : Intents,
                 stage : {"sending", "waiting", "record"}, tx : TxState]

\* The types of the wallet, the tasks, the chains and the claims.
TypeOK ==
  /\ wstate \in [Intents -> IntentState \cup {"ABSENT"}]
  /\ reserved \subseteq Intents
  /\ revenue \subseteq Intents
  /\ dispatched \subseteq Intents
  /\ task \in [Intents -> Stage]
  /\ fillTx \in [Intents -> TxState]
  /\ strayFill \subseteq Intents
  /\ order \in [Intents -> {"open", "ours", "taken", "claimed"}]
  /\ rows \in [Intents -> Seq(Row)]
  /\ claims \subseteq ClaimAttempt
  /\ strayClaim \subseteq Intents
  /\ tickList \subseteq Intents
  /\ leaked \subseteq Intents

\* The holds never exceed the wallet budget, whatever tasks die with theirs
\* and whatever is dispatched again.
BudgetRespected == ReservedUsd(reserved) <= BudgetUsd

Filled(i) == order[i] \in {"ours", "claimed"}

\* The wallet never says more than the chain: a CONFIRMED or CLAIM_PENDING
\* intent is filled by us, a CLAIMED one or one with revenue is claimed,
\* through races of claimers, lost receipts, rollbacks and restarts.  A fill
\* on Solana is CONFIRMED at its broadcast, so it is no evidence.
WalletMatchesChain ==
  \A i \in Intents :
    /\ Eligible(i) /\ i \notin Solana => Filled(i)
    /\ wstate[i] = "CLAIMED" \/ i \in revenue => order[i] = "claimed"

\* Nor does the outcome log, from which fills are attested: an executed row is
\* a fill of ours on chain (on Solana, only a broadcast), a row with a claim is
\* a claimed order.
RowsMatchChain ==
  \A i \in Intents : \A n \in DOMAIN rows[i] :
    /\ rows[i][n].decision = "executed" /\ i \notin Solana => Filled(i)
    /\ rows[i][n].claimed => order[i] = "claimed"

\* The stages of a task that has reserved and not yet released.
Holding == {"checking", "proving", "building", "sending", "pending", "signed"}

\* Every exit of lambda_execute gives its reservation back, also for an intent
\* whose transition is refused: a hold outlives its task only if the task died
\* or left by `?` on an rpc_url that does not parse.
NoSilentLeak ==
  \A i \in reserved : task[i] \in Holding \/ i \in leaked

\* The retry tick's cross-check with the outcome log hides no claimable fill,
\* as long as no crash separates CONFIRMED from its row.
ClaimableIsVisible ==
  restarts = 0 =>
    \A i \in DeBridge :
      Eligible(i) => HasUnclaimedRow(i) \/ task[i] = "confirmed"

\* Every queued fill task gets its permit and ends, with its claim.
TasksEnd == \A i \in Intents : task[i] = "queued" ~> task[i] = "idle"

\* A confirmed deBridge fill is eventually claimed on chain, although sends
\* and receipts may fail: the retry tick comes back to it.
ConfirmedIsClaimed ==
  \A i \in DeBridge : wstate[i] = "CONFIRMED" ~> order[i] = "claimed"

\* What the wallet says of an order to whoever reads it.
WalletView(i) ==
  IF wstate[i] = "CLAIMED" \/ i \in revenue THEN "paid"
  ELSE IF Eligible(i) THEN "filled"
  ELSE "silent"

\* What the outcome log says of it.
LogView(i) ==
  IF \E n \in DOMAIN rows[i] : rows[i][n].claimed THEN "paid"
  ELSE IF \E n \in DOMAIN rows[i] : rows[i][n].decision = "executed" THEN "filled"
  ELSE "silent"

Evm == Intents \ Solana

\* Through races of claimers, lost answers, deliveries repeated and crashes
\* between the two databases, both follow the chain order by order, neither
\* ahead of it nor back from what the log said or what the wallet called paid.
Books == INSTANCE Settlement WITH
  Orders <- Evm,
  order <- [i \in Evm |-> order[i]],
  wallet <- [i \in Evm |-> WalletView(i)],
  log <- [i \in Evm |-> LogView(i)]
BooksFollowChain == Books!Spec

-----------------------------------------------------------------------------
(* What comments of the code say, and the runs refute                      *)

\* "Tx is in-flight - transition now so concurrent claim loops skip this
\* intent." (lambda_controller.rs)
OneClaimInFlight ==
  \A a, b \in claims :
    a.tx = "mempool" /\ b.tx = "mempool" /\ a.intent = b.intent => a = b
=============================================================================
