------------------------- MODULE FillPipelineProofs -------------------------
(***************************************************************************)
(* The wallet and the outcome log never say more than the chain: proofs    *)
(* for every set of intents, every number of permits, RPC errors and       *)
(* restarts.                                                               *)
(***************************************************************************)
EXTENDS FillPipeline, FiniteSetTheorems, WellFoundedInduction, TLAPS

\* transition() keeps the state column well-typed.
LEMMA StateAfterType ==
  ASSUME wstate \in [Intents -> IntentState \cup {"ABSENT"}],
         NEW i \in Intents, NEW s \in IntentState
  PROVE  StateAfter(i, s) \in [Intents -> IntentState \cup {"ABSENT"}]
BY DEF StateAfter

\* The states every exit of a fill moves to are states of the wallet.
LEMMA StagesAreStates ==
  /\ {"SKIP_UNPROFITABLE", "REVERTED", "CONFIRMED", "CLAIM_PENDING", "CLAIMED",
      "PROFITABILITY_CHECK", "PENDING_CONFIRMATION"} \subseteq IntentState
  /\ DOMAIN NextStage = {"checking", "proving", "building"}
  /\ DOMAIN ExitStates = {"checking", "proving", "building"}
  /\ \A st \in {"checking", "proving", "building"} :
       /\ NextStage[st] \in Stage \ {"confirmed", "signed"}
       /\ StageState[st] \in IntentState \ {"CONFIRMED", "CLAIM_PENDING", "CLAIMED"}
       /\ ExitStates[st] \subseteq
            IntentState \ {"CONFIRMED", "CLAIM_PENDING", "CLAIMED"}
BY DEF IntentState, IsTerminal, NextStage, ExitStates, StageState, Stage

-----------------------------------------------------------------------------
(* Type correctness                                                        *)

\* The initial state is well-typed.
LEMMA InitType == Init => TypeOK
BY DEF Init, InitWallet, TypeOK, Stage, TxState

\* A step of a fill task, of the dispatcher or of the chain on a fill keeps
\* the state well-typed.
LEMMA FillStepType ==
  ASSUME TypeOK, NEW i \in Intents,
         \/ Dispatch(i) \/ FillStep(i) \/ ApiClaims(i) \/ TakenByOther(i)
         \/ MineFill(i) \/ MineStrayFill(i) \/ MineStrayClaim(i)
         \/ TickClaims(i)
  PROVE  TypeOK'
<1> USE DEF TypeOK, Stage, vars, walletVars, taskVars, chainVars, claimVars,
            faultVars
<1>0. \A s \in IntentState :
        StateAfter(i, s) \in [Intents -> IntentState \cup {"ABSENT"}]
  BY StateAfterType
<1>1. CASE Dispatch(i)
  BY <1>0, <1>1, StagesAreStates DEF Dispatch
<1>2. CASE SkipUntouched(i)
  BY <1>0, <1>2, StagesAreStates DEF SkipUntouched, EndTask
<1>3. CASE Admit(i)
  <2>1. wstate' \in [Intents -> IntentState \cup {"ABSENT"}]
    <3>1. \A s \in IntentState :
            [wstate EXCEPT ![i] = s] \in [Intents -> IntentState \cup {"ABSENT"}]
      OBVIOUS
    <3>2. \E s \in IntentState :
            wstate' = IF wstate[i] = "ABSENT" THEN [wstate EXCEPT ![i] = s]
                                              ELSE StateAfter(i, s)
      <4>1. "PROFITABILITY_CHECK" \in IntentState
            /\ "SKIP_UNPROFITABLE" \in IntentState
        BY StagesAreStates
      <4> QED
        BY <1>3, <4>1 DEF Admit, DetectReserveAndMove, DetectAndSkip
    <3> QED
      BY <1>0, <3>1, <3>2
  <2>2. /\ reserved' \subseteq Intents
        /\ revenue' = revenue
        /\ task' \in [Intents -> Stage]
    BY <1>3 DEF Admit, DetectReserveAndMove, DetectAndSkip, EndTask
  <2> QED
    BY <1>3, <2>1, <2>2 DEF Admit
<1>4. CASE Advance(i)
  BY <1>0, <1>4, StagesAreStates DEF Advance, Transition
<1>5. CASE SkipOut(i)
  BY <1>0, <1>5, StagesAreStates DEF SkipOut, TransitionAndRelease, Released, EndTask
<1>6. CASE AbandonSend(i)
  BY <1>0, <1>6, StagesAreStates DEF AbandonSend, EndTask, Error
<1>7. CASE SendFill(i)
  BY <1>0, <1>7, StagesAreStates DEF SendFill, Transition, TxState
<1>8. CASE SendFillFails(i)
  BY <1>0, <1>8, StagesAreStates DEF SendFillFails, TransitionAndRelease, Released, EndTask, Error
<1>9. CASE Confirm(i)
  BY <1>0, <1>9, StagesAreStates DEF Confirm, TransitionAndRelease, Released, TxState
<1>10. CASE AppendExecuted(i)
  BY <1>0, <1>10, StagesAreStates DEF AppendExecuted, OutcomeRow, Row
<1>11. CASE FillReverted(i)
  BY <1>0, <1>11, StagesAreStates DEF FillReverted, TransitionAndRelease, Released, EndTask, OutcomeRow, Row, TxState
<1>12. CASE FillReceiptError(i)
  BY <1>0, <1>12, StagesAreStates DEF FillReceiptError, TransitionAndRelease, Released, EndTask, Error, RowsAfterReceiptError, TxState
<1>20. CASE SendSolana(i)
  BY <1>0, <1>20, StagesAreStates DEF SendSolana, Transition
<1>21. CASE AppendSolana(i)
  BY <1>21 DEF AppendSolana, OutcomeRow, Row, Released, EndTask
<1>13. CASE TaskClaims(i)
  BY <1>0, <1>13, StagesAreStates DEF TaskClaims, StartClaim, Attempt, ClaimAttempt, Claimers, TxState
<1>14. CASE ApiClaims(i)
  BY <1>0, <1>14, StagesAreStates DEF ApiClaims, StartClaim, Attempt, ClaimAttempt, Claimers, TxState
<1>15. CASE TakenByOther(i)
  BY <1>0, <1>15, StagesAreStates DEF TakenByOther
<1>16. CASE MineFill(i)
  BY <1>0, <1>16, StagesAreStates DEF MineFill, TxState
<1>17. CASE MineStrayFill(i)
  BY <1>0, <1>17, StagesAreStates DEF MineStrayFill
<1>18. CASE MineStrayClaim(i)
  BY <1>0, <1>18, StagesAreStates DEF MineStrayClaim
<1>19. CASE TickClaims(i)
  BY <1>0, <1>19, StagesAreStates DEF TickClaims, StartClaim, Attempt, ClaimAttempt, Claimers, TxState
<1> QED
  BY <1>1, <1>2, <1>3, <1>4, <1>5, <1>6, <1>7, <1>8, <1>9, <1>10, <1>11, <1>12, <1>13, <1>14, <1>15, <1>16, <1>17, <1>18, <1>19, <1>20, <1>21 DEF FillStep

\* A step of a claim keeps the state well-typed.
LEMMA ClaimStepType ==
  ASSUME TypeOK, NEW c \in claims, ClaimStep(c) \/ MineClaim(c)
  PROVE  TypeOK'
<1> USE DEF TypeOK, Stage, vars, walletVars, taskVars, chainVars, claimVars,
            faultVars
<1>0. /\ c.intent \in Intents
      /\ \A s \in IntentState :
           StateAfter(c.intent, s) \in [Intents -> IntentState \cup {"ABSENT"}]
  BY StateAfterType DEF ClaimAttempt
<1>1. CASE MineClaim(c)
  <2>1. claims' \subseteq ClaimAttempt
    <3>1. \A t \in TxState : [c EXCEPT !.tx = t] \in ClaimAttempt
      BY DEF ClaimAttempt
    <3>2. "ok" \in TxState /\ "reverted" \in TxState
      BY DEF TxState
    <3> QED
      BY <1>1, <3>1, <3>2 DEF MineClaim
  <2>2. order' \in [Intents -> {"open", "ours", "taken", "claimed"}]
    BY <1>0, <1>1 DEF MineClaim
  <2> QED
    BY <1>1, <2>1, <2>2 DEF MineClaim
<1>2. CASE SendClaim(c)
  BY <1>0, <1>2, StagesAreStates DEF SendClaim, Transition, ClaimAttempt, TxState
<1>3. CASE SendClaimFails(c)
  BY <1>0, <1>3, StagesAreStates DEF SendClaimFails, EndClaim, Error, ClaimAttempt
<1>4. CASE ClaimMined(c)
  <2>1. [c EXCEPT !.stage = "record"] \in ClaimAttempt
    BY DEF ClaimAttempt
  <2>2. claims' \subseteq ClaimAttempt
    BY <1>4, <2>1 DEF ClaimMined
  <2>3. /\ wstate' \in [Intents -> IntentState \cup {"ABSENT"}]
        /\ reserved' \subseteq Intents
        /\ revenue' \subseteq Intents
    BY <1>0, <1>4, StagesAreStates
    DEF ClaimMined, Transition, RecordRevenueAndMove
  <2>4. task' \in [Intents -> Stage]
    BY <1>0, <1>4 DEF ClaimMined
  <2> QED
    BY <1>4, <2>2, <2>3, <2>4 DEF ClaimMined
<1>5. CASE RecordClaim(c)
  <2> DEFINE r == rows[c.intent]
             n == Len(r)
  <2>1. r \in Seq(Row) /\ n \in Nat
    BY <1>0
  <2>2. ASSUME n # 0
        PROVE  [r EXCEPT ![n].claimed = TRUE] \in Seq(Row)
    <3>1. n \in 1 .. Len(r) /\ r[n] \in Row
      BY <2>1, <2>2
    <3>2. [r[n] EXCEPT !.claimed = TRUE] \in Row
      BY <3>1 DEF Row
    <3> QED
      BY <2>1, <3>1, <3>2
  <2>3. rows' \in [Intents -> Seq(Row)]
    <3>1. CASE n = 0
      BY <1>5, <3>1 DEF RecordClaim
    <3>2. CASE n # 0
      <4>1. rows' = [rows EXCEPT ![c.intent] = [r EXCEPT ![n].claimed = TRUE]]
        BY <1>5, <3>2 DEF RecordClaim
      <4> HIDE DEF r, n
      <4> QED
        BY <1>0, <2>2, <3>2, <4>1
    <3> QED
      BY <3>1, <3>2
  <2> QED
    BY <1>5, <2>3 DEF RecordClaim
<1>6. CASE ClaimReverted(c)
  BY <1>0, <1>6, StagesAreStates DEF ClaimReverted, Transition, EndClaim, ClaimAttempt
<1>7. CASE ClaimReceiptError(c)
  BY <1>0, <1>7, StagesAreStates DEF ClaimReceiptError, Transition, EndClaim, Error, ClaimAttempt
<1> QED
  BY <1>1, <1>2, <1>3, <1>4, <1>5, <1>6, <1>7 DEF ClaimStep

\* Every step keeps the state well-typed.
LEMMA NextType == TypeOK /\ [Next]_vars => TypeOK'
<1> SUFFICES ASSUME TypeOK, [Next]_vars PROVE TypeOK'
  OBVIOUS
<1>1. CASE TickScan
  BY <1>1, DeBridgeAreIntents DEF TickScan, TickCandidates, TypeOK, walletVars, taskVars,
              chainVars, faultVars
<1>2. CASE Restart
  BY <1>2 DEF Restart, ReleaseStale, TypeOK, Stage, TxState, ClaimAttempt
<1>3. CASE UNCHANGED vars
  BY <1>3 DEF vars, walletVars, taskVars, chainVars, claimVars, faultVars, TypeOK
<1> QED
  BY <1>1, <1>2, <1>3, FillStepType, ClaimStepType DEF Next, ChainStep, TickStep

\* Type correctness of the fill pipeline, for every instance.
THEOREM TypeCorrect == Spec => []TypeOK
BY InitType, NextType, PTL DEF Spec

-----------------------------------------------------------------------------
(* The wallet and the outcome log against the chain                        *)

\* WalletMatchesChain and RowsMatchChain are not inductive: a claim attempt
\* or a receipt carries what is known of the chain from one step to a later
\* one.  What is in flight must be right as well.
InFlightMatchesChain ==
  /\ \A i \in Intents :
       /\ fillTx[i] = "ok" \/ task[i] = "confirmed" => Filled(i)
       /\ task[i] = "signed" => i \in Solana
  /\ \A c \in claims :
       /\ c.intent \notin Solana => Filled(c.intent)
       /\ c.tx = "ok" \/ c.stage = "record" => order[c.intent] = "claimed"

ChainInv == WalletMatchesChain /\ RowsMatchChain /\ InFlightMatchesChain

\* An order we filled stays filled, a claimed one stays claimed.
OrderGrows ==
  \A i \in Intents :
    /\ Filled(i) => Filled(i)'
    /\ order[i] = "claimed" => order'[i] = "claimed"

\* transition() touches the state of its own intent only.
LEMMA StateAfterIs ==
  ASSUME wstate \in [Intents -> IntentState \cup {"ABSENT"}],
         NEW i \in Intents, NEW s \in IntentState, NEW j \in Intents
  PROVE  \/ StateAfter(i, s)[j] = wstate[j]
         \/ j = i /\ StateAfter(i, s)[j] = s
BY DEF StateAfter

\* Nothing undoes a fill or a claim of ours.
LEMMA OrdersGrow == TypeOK /\ [Next]_vars => OrderGrows
<1> SUFFICES ASSUME TypeOK, [Next]_vars PROVE OrderGrows
  OBVIOUS
<1> USE DEF TypeOK, OrderGrows, Filled
<1>1. ASSUME NEW i \in Intents, MineFill(i) PROVE OrderGrows
  BY <1>1 DEF MineFill
<1>2. ASSUME NEW i \in Intents, MineStrayFill(i) PROVE OrderGrows
  BY <1>2 DEF MineStrayFill
<1>3. ASSUME NEW i \in Intents, TakenByOther(i) PROVE OrderGrows
  BY <1>3 DEF TakenByOther
<1>4. ASSUME NEW c \in claims, MineClaim(c) PROVE OrderGrows
  BY <1>4 DEF MineClaim, ClaimAttempt
<1>5. ASSUME NEW i \in Intents, MineStrayClaim(i) PROVE OrderGrows
  BY <1>5 DEF MineStrayClaim
<1>6. CASE UNCHANGED order
  BY <1>6
<1>7. ASSUME NEW i \in Intents,
             Dispatch(i) \/ FillStep(i) \/ ApiClaims(i) \/ TickClaims(i)
      PROVE  UNCHANGED order
  BY <1>7
  DEF chainVars, Dispatch, FillStep, SkipUntouched, Admit, Advance, SkipOut,
      AbandonSend, SendFill, SendFillFails, Confirm, AppendExecuted,
      FillReverted, FillReceiptError, SendSolana, AppendSolana, TaskClaims,
      ApiClaims, TickClaims
<1>8. ASSUME NEW c \in claims, ClaimStep(c) PROVE UNCHANGED order
  BY <1>8
  DEF chainVars, ClaimStep, SendClaim, SendClaimFails, ClaimMined, RecordClaim,
      ClaimReverted, ClaimReceiptError
<1>9. TickScan \/ Restart \/ UNCHANGED vars => UNCHANGED order
  BY DEF TickScan, Restart, vars, chainVars
<1> QED
  BY <1>1, <1>2, <1>3, <1>4, <1>5, <1>6, <1>7, <1>8, <1>9
  DEF Next, ChainStep, TickStep

LEMMA ChainInvInit == Init => ChainInv
BY DEF Init, InitWallet, ChainInv, WalletMatchesChain, RowsMatchChain,
       InFlightMatchesChain, Eligible, Filled

\* Steps that leave wallet, rows, claims and receipts alone keep the
\* invariant, because the chain only grows.
LEMMA ChainInvFrame ==
  ASSUME TypeOK, OrderGrows, ChainInv,
         UNCHANGED <<walletVars, rows>>, claims' \subseteq claims,
         \A i \in Intents :
           /\ fillTx'[i] = "ok" => fillTx[i] = "ok" \/ Filled(i)'
           /\ task'[i] \in {"confirmed", "signed"} => task'[i] = task[i]
  PROVE  ChainInv'
BY DEF TypeOK, ClaimAttempt, OrderGrows, ChainInv, WalletMatchesChain,
       RowsMatchChain, InFlightMatchesChain, Eligible, Filled, walletVars

\* A move of one intent keeps the wallet right when the chain backs the state
\* moved to.
LEMMA WalletMove ==
  ASSUME TypeOK, OrderGrows, ChainInv, NEW i \in Intents, NEW s \in IntentState,
         wstate' = StateAfter(i, s) \/ wstate' = [wstate EXCEPT ![i] = s],
         s \in {"CONFIRMED", "CLAIM_PENDING"} => Filled(i) \/ i \in Solana,
         s = "CLAIMED" \/ i \in revenue' => order[i] = "claimed",
         revenue' \subseteq revenue \cup {i}
  PROVE  WalletMatchesChain'
<1>1. \A j \in Intents : wstate'[j] = wstate[j] \/ (j = i /\ wstate'[j] = s)
  <2>0. wstate \in [Intents -> IntentState \cup {"ABSENT"}]
    BY DEF TypeOK
  <2>1. CASE wstate' = StateAfter(i, s)
    BY <2>0, <2>1, StateAfterIs
  <2>2. CASE wstate' = [wstate EXCEPT ![i] = s]
    BY <2>0, <2>2
  <2> QED
    BY <2>1, <2>2
<1> QED
  BY <1>1 DEF TypeOK, OrderGrows, ChainInv, WalletMatchesChain, Eligible, Filled

\* Steps that append no row keep the outcome log right.
LEMMA RowsKept ==
  ASSUME TypeOK, OrderGrows, ChainInv, UNCHANGED rows
  PROVE  RowsMatchChain'
BY DEF TypeOK, OrderGrows, ChainInv, RowsMatchChain, Filled

\* A row appended must tell the truth.
LEMMA RowAppended ==
  ASSUME TypeOK, OrderGrows, ChainInv, NEW i \in Intents,
         NEW d \in {"executed", "executed_failed"},
         rows' = [rows EXCEPT ![i] = Append(@, OutcomeRow(d))],
         d = "executed" => Filled(i) \/ i \in Solana
  PROVE  RowsMatchChain'
<1>1. \A j \in Intents : \A n \in DOMAIN rows'[j] :
        \/ n \in DOMAIN rows[j] /\ rows'[j][n] = rows[j][n]
        \/ j = i /\ rows'[j][n] = OutcomeRow(d)
  <2> SUFFICES ASSUME NEW j \in Intents, NEW n \in DOMAIN rows'[j]
               PROVE  \/ n \in DOMAIN rows[j] /\ rows'[j][n] = rows[j][n]
                      \/ j = i /\ rows'[j][n] = OutcomeRow(d)
    OBVIOUS
  <2>1. rows[i] \in Seq(Row) /\ OutcomeRow(d) \in Row
    BY DEF TypeOK, OutcomeRow, Row
  <2>2. CASE j = i
    BY <2>1, <2>2 DEF TypeOK
  <2>3. CASE j # i
    BY <2>3 DEF TypeOK
  <2> QED
    BY <2>2, <2>3
<1> QED
  BY <1>1 DEF TypeOK, OrderGrows, ChainInv, RowsMatchChain, Filled, OutcomeRow

\* Steps that touch neither receipts nor claims nor the "confirmed" stage keep
\* what is in flight right.
LEMMA InFlightKept ==
  ASSUME TypeOK, OrderGrows, ChainInv,
         \A i \in Intents :
           /\ fillTx'[i] = "ok" => fillTx[i] = "ok" \/ Filled(i)'
           /\ task'[i] = "confirmed" => task[i] = "confirmed" \/ Filled(i)'
           /\ task'[i] = "signed" => task[i] = "signed" \/ i \in Solana,
         \A c \in claims' :
           \/ c \in claims
           \/ /\ c.intent \in Intents
              /\ c.intent \notin Solana => Filled(c.intent)
              /\ c.tx = "ok" \/ c.stage = "record" =>
                   order'[c.intent] = "claimed"
  PROVE  InFlightMatchesChain'
BY DEF TypeOK, ClaimAttempt, OrderGrows, ChainInv, InFlightMatchesChain, Filled

\* A wallet left alone stays right, because the chain only grows.
LEMMA WalletKept ==
  ASSUME TypeOK, OrderGrows, ChainInv, UNCHANGED <<wstate, revenue>>
  PROVE  WalletMatchesChain'
BY DEF TypeOK, OrderGrows, ChainInv, WalletMatchesChain, Eligible, Filled

\* Every step of a fill task keeps the invariant.
LEMMA FillStepChainInv ==
  ASSUME TypeOK, OrderGrows, ChainInv, NEW i \in Intents, FillStep(i)
  PROVE  ChainInv'
<1>0. SkipUntouched(i) \/ AbandonSend(i) => ChainInv'
  BY ChainInvFrame
  DEF SkipUntouched, AbandonSend, EndTask, TypeOK, claimVars, walletVars
<1>1. CASE Admit(i)
  <2>1. WalletMatchesChain'
    BY <1>1, WalletMove, StagesAreStates DEF Admit, DetectReserveAndMove, DetectAndSkip, ChainInv, WalletMatchesChain, InFlightMatchesChain
  <2>2. RowsMatchChain'
    BY <1>1, RowsKept DEF Admit
  <2>3. InFlightMatchesChain'
    BY <1>1, InFlightKept DEF Admit, EndTask, TypeOK, taskVars, claimVars, ChainInv, WalletMatchesChain
  <2> QED
    BY <2>1, <2>2, <2>3 DEF ChainInv
<1>2. CASE Advance(i)
  <2>1. WalletMatchesChain'
    <3>1. PICK s \in IntentState \ {"CONFIRMED", "CLAIM_PENDING", "CLAIMED"} :
            wstate' = StateAfter(i, s) /\ UNCHANGED revenue
      BY <1>2, StagesAreStates DEF Advance, Transition
    <3> QED
      BY <3>1, WalletMove DEF ChainInv, WalletMatchesChain
  <2>2. RowsMatchChain'
    BY <1>2, RowsKept DEF Advance
  <2>3. InFlightMatchesChain'
    BY <1>2, InFlightKept, StagesAreStates DEF Advance, TypeOK, taskVars, claimVars, ChainInv, WalletMatchesChain
  <2> QED
    BY <2>1, <2>2, <2>3 DEF ChainInv
<1>3. CASE SkipOut(i)
  <2>1. WalletMatchesChain'
    <3>1. PICK s \in IntentState \ {"CONFIRMED", "CLAIM_PENDING", "CLAIMED"} :
            wstate' = StateAfter(i, s) /\ UNCHANGED revenue
      BY <1>3, StagesAreStates DEF SkipOut, TransitionAndRelease
    <3> QED
      BY <3>1, WalletMove DEF ChainInv, WalletMatchesChain
  <2>2. RowsMatchChain'
    BY <1>3, RowsKept DEF SkipOut
  <2>3. InFlightMatchesChain'
    BY <1>3, InFlightKept DEF SkipOut, TransitionAndRelease, EndTask, TypeOK, taskVars, claimVars, ChainInv, WalletMatchesChain
  <2> QED
    BY <2>1, <2>2, <2>3 DEF ChainInv
<1>4. CASE SendFill(i)
  <2>1. WalletMatchesChain'
    BY <1>4, WalletMove, StagesAreStates DEF SendFill, Transition, ChainInv, WalletMatchesChain, InFlightMatchesChain
  <2>2. RowsMatchChain'
    BY <1>4, RowsKept DEF SendFill
  <2>3. InFlightMatchesChain'
    BY <1>4, InFlightKept DEF SendFill, Transition, TypeOK, taskVars, claimVars, ChainInv, WalletMatchesChain
  <2> QED
    BY <2>1, <2>2, <2>3 DEF ChainInv
<1>5. CASE SendFillFails(i)
  <2>1. WalletMatchesChain'
    BY <1>5, WalletMove, StagesAreStates DEF SendFillFails, TransitionAndRelease, EndTask, chainVars, ChainInv, WalletMatchesChain, InFlightMatchesChain
  <2>2. RowsMatchChain'
    BY <1>5, RowsKept DEF SendFillFails
  <2>3. InFlightMatchesChain'
    BY <1>5, InFlightKept DEF SendFillFails, TransitionAndRelease, EndTask, chainVars, TypeOK, taskVars, claimVars, ChainInv, WalletMatchesChain
  <2> QED
    BY <2>1, <2>2, <2>3 DEF ChainInv
<1>6. CASE Confirm(i)
  <2>1. WalletMatchesChain'
    BY <1>6, WalletMove, StagesAreStates DEF Confirm, TransitionAndRelease, ChainInv, WalletMatchesChain, InFlightMatchesChain
  <2>2. RowsMatchChain'
    BY <1>6, RowsKept DEF Confirm
  <2>3. InFlightMatchesChain'
    BY <1>6, InFlightKept DEF Confirm, TypeOK, claimVars, ChainInv,
                             InFlightMatchesChain, OrderGrows
  <2> QED
    BY <2>1, <2>2, <2>3 DEF ChainInv
<1>7. CASE AppendExecuted(i)
  <2>1. WalletMatchesChain'
    BY <1>7, WalletKept DEF AppendExecuted, walletVars
  <2>2. RowsMatchChain'
    BY <1>7, RowAppended DEF AppendExecuted, ChainInv, InFlightMatchesChain
  <2>3. InFlightMatchesChain'
    BY <1>7, InFlightKept DEF AppendExecuted, TypeOK, taskVars, claimVars, ChainInv, WalletMatchesChain
  <2> QED
    BY <2>1, <2>2, <2>3 DEF ChainInv
<1>8. CASE FillReverted(i)
  <2>1. WalletMatchesChain'
    BY <1>8, WalletMove, StagesAreStates DEF FillReverted, TransitionAndRelease, EndTask, ChainInv, WalletMatchesChain, InFlightMatchesChain
  <2>2. RowsMatchChain'
    BY <1>8, RowAppended DEF FillReverted, ChainInv, InFlightMatchesChain
  <2>3. InFlightMatchesChain'
    BY <1>8, InFlightKept DEF FillReverted, TransitionAndRelease, EndTask, TypeOK, taskVars, claimVars, ChainInv, WalletMatchesChain
  <2> QED
    BY <2>1, <2>2, <2>3 DEF ChainInv
<1>9. CASE FillReceiptError(i)
  <2>1. WalletMatchesChain'
    BY <1>9, WalletMove, StagesAreStates DEF FillReceiptError, TransitionAndRelease, EndTask, ChainInv, WalletMatchesChain, InFlightMatchesChain
  <2>2. RowsMatchChain'
    BY <1>9, RowsKept DEF FillReceiptError, RowsAfterReceiptError
  <2>3. InFlightMatchesChain'
    BY <1>9, InFlightKept DEF FillReceiptError, TransitionAndRelease, EndTask, TypeOK, taskVars, claimVars, ChainInv, WalletMatchesChain
  <2> QED
    BY <2>1, <2>2, <2>3 DEF ChainInv
<1>11. CASE SendSolana(i)
  <2>1. WalletMatchesChain'
    BY <1>11, WalletMove, StagesAreStates
    DEF SendSolana, Transition, ChainInv, WalletMatchesChain
  <2>2. RowsMatchChain'
    BY <1>11, RowsKept DEF SendSolana
  <2>3. InFlightMatchesChain'
    BY <1>11, InFlightKept DEF SendSolana, TypeOK, claimVars
  <2> QED
    BY <2>1, <2>2, <2>3 DEF ChainInv
<1>12. CASE AppendSolana(i)
  <2>1. WalletMatchesChain'
    BY <1>12, WalletKept DEF AppendSolana
  <2>2. RowsMatchChain'
    <3>1. i \in Solana
      BY <1>12 DEF AppendSolana, ChainInv, InFlightMatchesChain
    <3> QED
      BY <1>12, <3>1, RowAppended DEF AppendSolana
  <2>3. InFlightMatchesChain'
    BY <1>12, InFlightKept DEF AppendSolana, EndTask, TypeOK, claimVars
  <2> QED
    BY <2>1, <2>2, <2>3 DEF ChainInv
<1>10. CASE TaskClaims(i)
  <2>1. WalletMatchesChain'
    BY <1>10, WalletKept DEF TaskClaims, walletVars
  <2>2. RowsMatchChain'
    BY <1>10, RowsKept DEF TaskClaims
  <2>3. InFlightMatchesChain'
    BY <1>10, InFlightKept DEF TaskClaims, StartClaim, Attempt, TypeOK, taskVars, claimVars, ChainInv, WalletMatchesChain
  <2> QED
    BY <2>1, <2>2, <2>3 DEF ChainInv
<1> QED
  BY <1>0, <1>1, <1>2, <1>3, <1>4, <1>5, <1>6, <1>7, <1>8, <1>9, <1>10, <1>11, <1>12 DEF FillStep

\* update_claim() on a claimed order keeps the outcome log right.
LEMMA RowStamped ==
  ASSUME TypeOK, OrderGrows, ChainInv, NEW i \in Intents,
         order[i] = "claimed",
         rows' = LET n == Len(rows[i])
                 IN  IF n = 0 THEN rows ELSE [rows EXCEPT ![i][n].claimed = TRUE]
  PROVE  RowsMatchChain'
<1> DEFINE r == rows[i]
           n == Len(r)
<1>1. r \in Seq(Row) /\ n \in Nat
  BY DEF TypeOK
<1>2. CASE n = 0
  BY <1>2, RowsKept
<1>3. CASE n # 0
  <2>1. n \in DOMAIN r /\ r[n] \in Row
    BY <1>1, <1>3
  <2>2. rows' = [rows EXCEPT ![i] = [r EXCEPT ![n] = [r[n] EXCEPT !.claimed = TRUE]]]
    BY <1>3
  <2>3. \A j \in Intents : \A m \in DOMAIN rows'[j] :
          /\ m \in DOMAIN rows[j]
          /\ rows'[j][m].decision = rows[j][m].decision
          /\ rows'[j][m].claimed => rows[j][m].claimed \/ j = i
    <3> SUFFICES ASSUME NEW j \in Intents, NEW m \in DOMAIN rows'[j]
                 PROVE  /\ m \in DOMAIN rows[j]
                        /\ rows'[j][m].decision = rows[j][m].decision
                        /\ rows'[j][m].claimed => rows[j][m].claimed \/ j = i
      OBVIOUS
    <3> HIDE DEF r, n
    <3>1. CASE j # i
      BY <2>2, <3>1 DEF TypeOK
    <3>2. CASE j = i
      <4>1. rows'[i] = [r EXCEPT ![n] = [r[n] EXCEPT !.claimed = TRUE]]
        BY <2>2 DEF TypeOK
      <4>2. [r[n] EXCEPT !.claimed = TRUE].decision = r[n].decision
        BY <2>1 DEF Row
      <4>3. m \in DOMAIN r /\ rows'[i][m].decision = r[m].decision
        BY <2>1, <3>2, <4>1, <4>2
      <4> QED
        BY <3>2, <4>3 DEF r
    <3> QED
      BY <3>1, <3>2
  <2> QED
    BY <2>3 DEF TypeOK, OrderGrows, ChainInv, RowsMatchChain, Filled
<1> QED
  BY <1>2, <1>3

\* Every step of a claim keeps the invariant.
LEMMA ClaimStepChainInv ==
  ASSUME TypeOK, OrderGrows, ChainInv, NEW c \in claims,
         ClaimStep(c) \/ MineClaim(c)
  PROVE  ChainInv'
<1>0. /\ c.intent \in Intents
      /\ Filled(c.intent) \/ c.intent \in Solana
      /\ c.tx = "ok" \/ c.stage = "record" => order[c.intent] = "claimed"
      /\ Filled(c.intent)' \/ c.intent \in Solana
  BY DEF TypeOK, ClaimAttempt, OrderGrows, ChainInv, InFlightMatchesChain
<1>1. CASE MineClaim(c)
  <2>1. WalletMatchesChain'
    BY <1>1, WalletKept DEF MineClaim, walletVars
  <2>2. RowsMatchChain'
    BY <1>1, RowsKept DEF MineClaim
  <2>3. InFlightMatchesChain'
    BY <1>0, <1>1, InFlightKept
    DEF MineClaim, TypeOK, ClaimAttempt, taskVars
  <2> QED
    BY <2>1, <2>2, <2>3 DEF ChainInv
<1>2. CASE SendClaim(c)
  <2>1. WalletMatchesChain'
    BY <1>0, <1>2, WalletMove, StagesAreStates
    DEF SendClaim, Transition, ChainInv, WalletMatchesChain
  <2>2. RowsMatchChain'
    BY <1>2, RowsKept DEF SendClaim
  <2>3. InFlightMatchesChain'
    BY <1>0, <1>2, InFlightKept
    DEF SendClaim, TypeOK, ClaimAttempt, taskVars
  <2> QED
    BY <2>1, <2>2, <2>3 DEF ChainInv
<1>3. CASE SendClaimFails(c)
  <2>1. WalletMatchesChain'
    BY <1>3, WalletKept DEF SendClaimFails, walletVars
  <2>2. RowsMatchChain'
    BY <1>3, RowsKept DEF SendClaimFails
  <2>3. InFlightMatchesChain'
    BY <1>0, <1>3, InFlightKept
    DEF SendClaimFails, EndClaim, TypeOK, ClaimAttempt, taskVars
  <2> QED
    BY <2>1, <2>2, <2>3 DEF ChainInv
<1>4. CASE ClaimMined(c)
  <2>1. WalletMatchesChain'
    BY <1>0, <1>4, WalletMove, StagesAreStates
    DEF ClaimMined, Transition, RecordRevenueAndMove, ChainInv, WalletMatchesChain
  <2>2. RowsMatchChain'
    BY <1>4, RowsKept DEF ClaimMined
  <2>3. InFlightMatchesChain'
    <3> DEFINE d == [c EXCEPT !.stage = "record"]
    <3>1. d.intent = c.intent /\ d.intent \in Intents
      BY <1>0 DEF TypeOK, ClaimAttempt
    <3>2. (Filled(d.intent) \/ d.intent \in Solana) /\ order'[d.intent] = "claimed"
      BY <1>0, <1>4, <3>1 DEF ClaimMined, OrderGrows
    <3>3. claims' \subseteq claims \cup {d}
      BY <1>4 DEF ClaimMined
    <3>4. \A i \in Intents :
            /\ fillTx'[i] = fillTx[i]
            /\ task'[i] \in {"confirmed", "signed"} => task'[i] = task[i]
      BY <1>4 DEF ClaimMined, TypeOK
    <3> HIDE DEF d
    <3> QED
      BY <3>1, <3>2, <3>3, <3>4, InFlightKept
  <2> QED
    BY <2>1, <2>2, <2>3 DEF ChainInv
<1>5. CASE ClaimReverted(c)
  <2>1. WalletMatchesChain'
    BY <1>0, <1>5, WalletMove, StagesAreStates
    DEF ClaimReverted, Transition, ChainInv, WalletMatchesChain
  <2>2. RowsMatchChain'
    BY <1>5, RowsKept DEF ClaimReverted
  <2>3. InFlightMatchesChain'
    BY <1>0, <1>5, InFlightKept
    DEF ClaimReverted, EndClaim, TypeOK, ClaimAttempt, taskVars
  <2> QED
    BY <2>1, <2>2, <2>3 DEF ChainInv
<1>6. CASE ClaimReceiptError(c)
  <2>1. WalletMatchesChain'
    BY <1>0, <1>6, WalletMove, StagesAreStates
    DEF ClaimReceiptError, Transition, ChainInv, WalletMatchesChain
  <2>2. RowsMatchChain'
    BY <1>6, RowsKept DEF ClaimReceiptError
  <2>3. InFlightMatchesChain'
    BY <1>0, <1>6, InFlightKept
    DEF ClaimReceiptError, EndClaim, TypeOK, ClaimAttempt, taskVars
  <2> QED
    BY <2>1, <2>2, <2>3 DEF ChainInv
<1>7. CASE RecordClaim(c)
  <2>1. WalletMatchesChain'
    BY <1>7, WalletKept DEF RecordClaim, walletVars
  <2>2. RowsMatchChain'
    BY <1>0, <1>7, RowStamped DEF RecordClaim
  <2>3. InFlightMatchesChain'
    BY <1>7, InFlightKept DEF RecordClaim, TypeOK, taskVars
  <2> QED
    BY <2>1, <2>2, <2>3 DEF ChainInv
<1> QED
  BY <1>1, <1>2, <1>3, <1>4, <1>5, <1>6, <1>7 DEF ClaimStep

\* Every step of the specification keeps the invariant.
LEMMA NextChainInv == TypeOK /\ ChainInv /\ [Next]_vars => ChainInv'
<1> SUFFICES ASSUME TypeOK, ChainInv, [Next]_vars PROVE ChainInv'
  OBVIOUS
<1>0. OrderGrows
  BY OrdersGrow
<1>1. ASSUME NEW i \in Intents,
             \/ Dispatch(i) \/ TakenByOther(i)
             \/ MineFill(i) \/ MineStrayFill(i) \/ MineStrayClaim(i)
      PROVE  ChainInv'
  BY <1>0, <1>1, ChainInvFrame
  DEF Dispatch, TakenByOther, MineFill, MineStrayFill, MineStrayClaim, TypeOK,
      Filled, taskVars, claimVars
<1>2. ASSUME NEW i \in Intents, ApiClaims(i) \/ TickClaims(i)
      PROVE  ChainInv'
  <2>1. WalletMatchesChain' /\ RowsMatchChain'
    BY <1>0, <1>2, WalletKept, RowsKept DEF ApiClaims, TickClaims, walletVars
  <2>2. InFlightMatchesChain'
    BY <1>0, <1>2, InFlightKept
    DEF ApiClaims, TickClaims, StartClaim, Attempt, taskVars, ChainInv,
        WalletMatchesChain
  <2> QED
    BY <2>1, <2>2 DEF ChainInv
<1>3. CASE TickScan \/ UNCHANGED vars
  BY <1>0, <1>3, ChainInvFrame DEF TickScan, vars, taskVars, claimVars
<1>4. CASE Restart
  <2>1. WalletMatchesChain' /\ RowsMatchChain'
    BY <1>0, <1>4, WalletKept, RowsKept DEF Restart, ReleaseStale
  <2>2. InFlightMatchesChain'
    BY <1>0, <1>4, InFlightKept DEF Restart
  <2> QED
    BY <2>1, <2>2 DEF ChainInv
<1> QED
  BY <1>0, <1>1, <1>2, <1>3, <1>4, FillStepChainInv, ClaimStepChainInv
  DEF Next, ChainStep, TickStep

\* The invariant that carries the two theorems below.
LEMMA ChainInvHolds == Spec => []ChainInv
BY TypeCorrect, ChainInvInit, NextChainInv, PTL DEF Spec

\* The wallet database never says more than the chain, through races of
\* claimers, lost receipts, rollbacks and restarts.
THEOREM WalletNeverAheadOfChain == Spec => []WalletMatchesChain
<1>1. ChainInv => WalletMatchesChain
  BY DEF ChainInv
<1> QED
  BY <1>1, ChainInvHolds, PTL

\* The outcome log, from which fills are attested, records as executed only
\* fills of ours that are on chain.
THEOREM RowsNeverAheadOfChain == Spec => []RowsMatchChain
<1>1. ChainInv => RowsMatchChain
  BY DEF ChainInv
<1> QED
  BY <1>1, ChainInvHolds, PTL

-----------------------------------------------------------------------------
(* Reservations                                                            *)

\* Every exit of a fill task gives its reservation back.
LEMMA FillStepLeak ==
  ASSUME TypeOK, NoSilentLeak, NEW i \in Intents, FillStep(i)
  PROVE  NoSilentLeak'
<1> USE DEF TypeOK, NoSilentLeak, Holding, faultVars
<1>1. CASE Admit(i)
  <2>1. CASE CanReserve(i)
    BY <1>1, <2>1 DEF Admit, DetectReserveAndMove
  <2>2. CASE ~CanReserve(i)
    BY <1>1, <2>2 DEF Admit, DetectAndSkip, EndTask, CanReserve
  <2> QED
    BY <2>1, <2>2
<1>2. CASE Advance(i)
  <2>1. task'[i] \in Holding
    BY <1>2 DEF Advance, NextStage
  <2>2. reserved' \subseteq reserved
    BY <1>2 DEF Advance, Transition
  <2> QED
    BY <1>2, <2>1, <2>2 DEF Advance
<1>3. CASE SkipUntouched(i)
  BY <1>3 DEF SkipUntouched, EndTask, walletVars
<1>4. CASE AbandonSend(i)
  BY <1>4 DEF AbandonSend, EndTask, walletVars
<1>5. CASE SendFill(i)
  BY <1>5 DEF SendFill, Transition
<1>6. CASE \/ SkipOut(i) \/ SendFillFails(i) \/ Confirm(i)
           \/ FillReverted(i) \/ FillReceiptError(i)
  <2>1. \A j \in Intents \ {i} : task'[j] = task[j]
    BY <1>6 DEF SkipOut, SendFillFails, Confirm, FillReverted,
                FillReceiptError, EndTask
  <2>2. reserved' = reserved \ {i}
    BY <1>6 DEF SkipOut, SendFillFails, Confirm, FillReverted,
                FillReceiptError, TransitionAndRelease, Released
  <2>3. leaked' = leaked
    BY <1>6 DEF SkipOut, SendFillFails, Confirm, FillReverted, FillReceiptError
  <2> QED
    BY <2>1, <2>2, <2>3
<1>7. CASE AppendExecuted(i)
  BY <1>7 DEF AppendExecuted, walletVars
<1>8. CASE TaskClaims(i)
  BY <1>8 DEF TaskClaims, walletVars
<1>9. CASE SendSolana(i)
  BY <1>9 DEF SendSolana, Transition
<1>10. CASE AppendSolana(i)
  BY <1>10 DEF AppendSolana, Released, EndTask
<1> QED
  BY <1>1, <1>2, <1>3, <1>4, <1>5, <1>6, <1>7, <1>8, <1>9, <1>10 DEF FillStep

\* A task's own claim attempt exists only while the task waits for it, or is
\* about to be recorded after the task ended.  A task is run once per dispatch.
OwnClaimInv ==
  /\ \A i \in Intents : task[i] # "idle" => i \in dispatched
  /\ \A c \in claims : c.by = c.intent =>
       \/ c.stage # "record" /\ task[c.intent] = "claiming"
       \/ c.stage = "record" /\ task[c.intent] = "idle" /\ c.intent \in dispatched
  /\ \A c, d \in claims :
       c.by = c.intent /\ d.by = d.intent /\ c.intent = d.intent => c = d

\* Steps of tasks that do not start a claim.
LEMMA OwnClaimKept ==
  ASSUME TypeOK, OwnClaimInv, UNCHANGED claims, dispatched \subseteq dispatched',
         NEW i \in Intents, task[i] # "claiming",
         task[i] # "idle" \/ i \notin dispatched,
         i \in dispatched',
         \A j \in Intents \ {i} : task'[j] = task[j]
  PROVE  OwnClaimInv'
<1>1. \A c \in claims : c.by = c.intent => c.intent # i
  BY DEF TypeOK, OwnClaimInv
<1> QED
  BY <1>1 DEF TypeOK, OwnClaimInv, ClaimAttempt

LEMMA FillStepOwnClaim ==
  ASSUME TypeOK, OwnClaimInv, NEW i \in Intents, FillStep(i)
  PROVE  OwnClaimInv'
<1>1. task[i] \notin {"claiming", "idle"} /\ i \in dispatched
  BY DEF TypeOK, OwnClaimInv, FillStep, SkipUntouched, Admit, Advance, NextStage,
         SkipOut, ExitStates, AbandonSend, SendFill, SendFillFails, Confirm,
         AppendExecuted, FillReverted, FillReceiptError, SendSolana,
         AppendSolana, TaskClaims
<1>2. /\ dispatched' = dispatched
      /\ \A j \in Intents \ {i} : task'[j] = task[j]
  <2> USE DEF TypeOK, taskVars
  <2>1. CASE SkipUntouched(i) \/ Admit(i) \/ Advance(i) \/ SkipOut(i)
    BY <2>1 DEF SkipUntouched, Admit, Advance, SkipOut, EndTask
  <2>2. CASE AbandonSend(i) \/ SendFill(i) \/ SendFillFails(i) \/ Confirm(i)
    BY <2>2 DEF AbandonSend, SendFill, SendFillFails, Confirm, EndTask
  <2>3. CASE \/ AppendExecuted(i) \/ FillReverted(i) \/ FillReceiptError(i)
             \/ SendSolana(i) \/ AppendSolana(i) \/ TaskClaims(i)
    BY <2>3 DEF AppendExecuted, FillReverted, FillReceiptError, SendSolana,
                AppendSolana, TaskClaims, EndTask
  <2> QED
    BY <2>1, <2>2, <2>3 DEF FillStep
<1>3. CASE TaskClaims(i)
  <2>1. CASE Eligible(i)
    <3>1. claims' = claims \cup {Attempt(i, i)} /\ task' = [task EXCEPT ![i] = "claiming"]
      BY <1>3, <2>1 DEF TaskClaims, StartClaim
    <3>2. \A c \in claims : c.by = c.intent => c.intent # i
      BY <1>1, <1>3 DEF TypeOK, OwnClaimInv, TaskClaims
    <3> QED
      BY <1>1, <1>2, <3>1, <3>2 DEF TypeOK, OwnClaimInv, Attempt, ClaimAttempt
  <2>2. CASE ~Eligible(i)
    BY <1>1, <1>2, <1>3, <2>2, OwnClaimKept DEF TaskClaims, StartClaim
  <2> QED
    BY <2>1, <2>2
<1>4. CASE ~TaskClaims(i)
  <2>1. UNCHANGED claims
    BY <1>4 DEF FillStep, SkipUntouched, Admit, Advance, SkipOut, AbandonSend,
         SendFill, SendFillFails, Confirm, AppendExecuted, FillReverted,
         FillReceiptError, SendSolana, AppendSolana, claimVars
  <2> QED
    BY <1>1, <1>2, <2>1, OwnClaimKept
<1> QED
  BY <1>3, <1>4

LEMMA ClaimStepOwnClaim ==
  ASSUME TypeOK, OwnClaimInv, NEW c \in claims, ClaimStep(c) \/ MineClaim(c)
  PROVE  OwnClaimInv'
<1> USE DEF TypeOK, ClaimAttempt, OwnClaimInv
<1>1. dispatched' = dispatched /\ c.intent \in Intents
  BY DEF ClaimStep, MineClaim, SendClaim, SendClaimFails, ClaimMined,
         RecordClaim, ClaimReverted, ClaimReceiptError, taskVars
<1>2. ASSUME claims' \subseteq (claims \ {c}) \cup {[c EXCEPT !.stage = "record"]},
             c.stage # "record",
             task' = IF c.by = c.intent THEN [task EXCEPT ![c.intent] = "idle"] ELSE task
      PROVE  OwnClaimInv'
  <2> DEFINE d == [c EXCEPT !.stage = "record"]
  <2>1. d.by = c.by /\ d.intent = c.intent /\ d.stage = "record"
    OBVIOUS
  <2>2. claims' \subseteq (claims \ {c}) \cup {d}
    BY <1>2
  <2> HIDE DEF d
  <2>3. CASE c.by = c.intent
    <3>1. /\ task[c.intent] = "claiming"
          /\ task' = [task EXCEPT ![c.intent] = "idle"]
          /\ c.intent \in dispatched
      BY <1>1, <1>2, <2>3
    <3>2. \A e \in claims \ {c} : e.by = e.intent => e.intent # c.intent
      BY <2>3
    <3>3. \A e \in claims' :
            \/ e \in claims \ {c}
            \/ /\ e = d
               /\ task'[c.intent] = "idle"
      BY <1>1, <2>2, <3>1
    <3>4. \A e \in claims' : e.by = e.intent =>
            \/ e.stage # "record" /\ task'[e.intent] = "claiming"
            \/ /\ e.stage = "record"
               /\ task'[e.intent] = "idle"
               /\ e.intent \in dispatched'
      BY <1>1, <2>1, <3>1, <3>2, <3>3
    <3>5. \A e, f \in claims' :
            e.by = e.intent /\ f.by = f.intent /\ e.intent = f.intent => e = f
      BY <2>1, <3>2, <3>3
    <3>6. \A i \in Intents : task'[i] # "idle" => i \in dispatched'
      BY <1>1, <3>1
    <3> QED
      BY <3>4, <3>5, <3>6
  <2>4. CASE c.by # c.intent
    BY <1>1, <1>2, <2>1, <2>2, <2>4
  <2> QED
    BY <2>3, <2>4
<1>3. ASSUME NEW d, claims' \subseteq (claims \ {c}) \cup {d},
             d.by = c.by, d.intent = c.intent,
             d.stage = "record" <=> c.stage = "record",
             UNCHANGED task
      PROVE  OwnClaimInv'
  <2>1. \A e \in claims' : e \in claims \ {c} \/ e = d
    BY <1>3
  <2>2. \A e \in claims' : e.by = e.intent =>
          \/ e.stage # "record" /\ task'[e.intent] = "claiming"
          \/ /\ e.stage = "record"
             /\ task'[e.intent] = "idle"
             /\ e.intent \in dispatched'
    BY <1>1, <1>3, <2>1
  <2>3. \A e, f \in claims' :
          e.by = e.intent /\ f.by = f.intent /\ e.intent = f.intent => e = f
    BY <1>3, <2>1
  <2> QED
    BY <1>1, <1>3, <2>2, <2>3
<1>4. CASE MineClaim(c)
  <2>1. PICK t \in TxState : claims' = (claims \ {c}) \cup {[c EXCEPT !.tx = t]}
    BY <1>4 DEF MineClaim, TxState
  <2>2. /\ [c EXCEPT !.tx = t].by = c.by
        /\ [c EXCEPT !.tx = t].intent = c.intent
        /\ [c EXCEPT !.tx = t].stage = c.stage
    OBVIOUS
  <2> QED
    <3> DEFINE d == [c EXCEPT !.tx = t]
    <3>1. /\ claims' \subseteq (claims \ {c}) \cup {d}
          /\ d.by = c.by /\ d.intent = c.intent /\ d.stage = c.stage
          /\ UNCHANGED task
      BY <1>4, <2>1, <2>2 DEF MineClaim, taskVars
    <3> HIDE DEF d
    <3> QED
      BY <1>3, <3>1
<1>5. CASE SendClaim(c)
  <2> DEFINE d == [c EXCEPT !.stage = "waiting", !.tx = "mempool"]
  <2>1. d.by = c.by /\ d.intent = c.intent /\ d.stage = "waiting"
    OBVIOUS
  <2>2. /\ claims' = (claims \ {c}) \cup {d}
        /\ UNCHANGED task
        /\ c.stage = "sending"
    BY <1>5 DEF SendClaim, taskVars
  <2> HIDE DEF d
  <2> QED
    BY <1>3, <2>1, <2>2
<1>6. CASE RecordClaim(c)
  BY <1>1, <1>6 DEF RecordClaim, taskVars
<1>7. CASE SendClaimFails(c) \/ ClaimReverted(c) \/ ClaimReceiptError(c)
  BY <1>2, <1>7 DEF SendClaimFails, ClaimReverted, ClaimReceiptError, EndClaim
<1>8. CASE ClaimMined(c)
  BY <1>2, <1>8 DEF ClaimMined
<1> QED
  BY <1>4, <1>5, <1>6, <1>7, <1>8 DEF ClaimStep

LEMMA NextOwnClaim == TypeOK /\ OwnClaimInv /\ [Next]_vars => OwnClaimInv'
<1> SUFFICES ASSUME TypeOK, OwnClaimInv, [Next]_vars PROVE OwnClaimInv'
  OBVIOUS
<1>1. ASSUME NEW i \in Intents, Dispatch(i) PROVE OwnClaimInv'
  BY <1>1, OwnClaimKept DEF Dispatch, TypeOK, OwnClaimInv, claimVars
<1>2. ASSUME NEW i \in Intents,
             \/ TakenByOther(i) \/ MineFill(i) \/ MineStrayFill(i) \/ MineStrayClaim(i)
      PROVE  OwnClaimInv'
  BY <1>2 DEF TakenByOther, MineFill, MineStrayFill, MineStrayClaim, OwnClaimInv,
              taskVars, claimVars
<1>3. ASSUME NEW i \in Intents, NEW b \in {Tick, Api}, StartClaim(b, i),
             UNCHANGED taskVars
      PROVE  OwnClaimInv'
  BY <1>3, ClaimersDistinct DEF StartClaim, Attempt, OwnClaimInv, taskVars
<1>4. ASSUME NEW i \in Intents, ApiClaims(i) \/ TickClaims(i) PROVE OwnClaimInv'
  BY <1>3, <1>4 DEF ApiClaims, TickClaims
<1>5. CASE TickScan \/ UNCHANGED vars
  BY <1>5 DEF TickScan, vars, taskVars, claimVars, OwnClaimInv
<1>6. CASE Restart
  BY <1>6 DEF Restart, OwnClaimInv
<1> QED
  BY <1>1, <1>2, <1>4, <1>5, <1>6, FillStepOwnClaim, ClaimStepOwnClaim
  DEF Next, ChainStep, TickStep

\* A claim never takes a hold, and ends no task that has one.
LEMMA ClaimStepLeak ==
  ASSUME TypeOK, NoSilentLeak, OwnClaimInv, NEW c \in claims, ClaimStep(c)
  PROVE  NoSilentLeak'
<1>1. reserved' \subseteq reserved /\ leaked' = leaked
  BY DEF ClaimStep, SendClaim, SendClaimFails, ClaimMined, RecordClaim,
         ClaimReverted, ClaimReceiptError, Transition, RecordRevenueAndMove,
         walletVars, faultVars
<1>2. c.intent \in Intents /\ (c.by = c.intent => task[c.intent] \notin Holding)
  BY DEF TypeOK, ClaimAttempt, OwnClaimInv, Holding
<1>3. \A j \in Intents : task[j] \in Holding => task'[j] \in Holding
  <2>1. \/ UNCHANGED task
        \/ c.by = c.intent /\ task' = [task EXCEPT ![c.intent] = "idle"]
    BY DEF ClaimStep, SendClaim, SendClaimFails, ClaimMined,
           RecordClaim, ClaimReverted, ClaimReceiptError, EndClaim, taskVars
  <2> QED
    BY <1>2, <2>1 DEF TypeOK
<1> QED
  BY <1>1, <1>3 DEF TypeOK, NoSilentLeak

LEMMA NextLeak == TypeOK /\ OwnClaimInv /\ NoSilentLeak /\ [Next]_vars => NoSilentLeak'
<1> SUFFICES ASSUME TypeOK, OwnClaimInv, NoSilentLeak, [Next]_vars
             PROVE  NoSilentLeak'
  OBVIOUS
<1>1. ASSUME NEW i \in Intents, Dispatch(i) PROVE NoSilentLeak'
  BY <1>1 DEF Dispatch, TypeOK, NoSilentLeak, Holding, walletVars, faultVars,
              OwnClaimInv
<1>2. ASSUME NEW i \in Intents,
             \/ TakenByOther(i) \/ MineFill(i) \/ MineStrayFill(i)
             \/ MineStrayClaim(i) \/ ApiClaims(i) \/ TickClaims(i)
      PROVE  NoSilentLeak'
  BY <1>2 DEF TakenByOther, MineFill, MineStrayFill, MineStrayClaim, ApiClaims,
              TickClaims, NoSilentLeak, walletVars, taskVars, faultVars
<1>3. ASSUME NEW c \in claims, MineClaim(c) PROVE NoSilentLeak'
  BY <1>3 DEF MineClaim, NoSilentLeak, walletVars, taskVars, faultVars
<1>4. CASE TickScan \/ UNCHANGED vars
  BY <1>4 DEF TickScan, vars, walletVars, taskVars, faultVars, NoSilentLeak
<1>5. CASE Restart
  BY <1>5 DEF Restart, ReleaseStale, NoSilentLeak
<1> QED
  BY <1>1, <1>2, <1>3, <1>4, <1>5, FillStepLeak, ClaimStepLeak
  DEF Next, ChainStep, TickStep

\* Every exit of a fill task releases what it reserved: a hold without a task
\* is one whose task died.
THEOREM HoldsAreNeverLeakedSilently == Spec => []NoSilentLeak
<1>1. Init => OwnClaimInv /\ NoSilentLeak
  BY DEF Init, InitWallet, OwnClaimInv, NoSilentLeak
<1> QED
  BY <1>1, TypeCorrect, NextOwnClaim, NextLeak, PTL DEF Spec

-----------------------------------------------------------------------------
(* What can be claimed is visible to the retry tick                        *)

BeforeConfirmed == {"queued", "checking", "proving", "building", "sending", "pending"}

\* ClaimableIsVisible is not inductive: a claim that was paid is stamped later,
\* and a claim can move its intent back to CONFIRMED.  While nothing crashed, a
\* claim is of an intent that was confirmed, and one that is about to be
\* stamped is of an intent that is CLAIMED for good.  What a task has not yet
\* confirmed nobody can claim.
ClaimsFollowConfirm ==
  /\ \A i \in Intents \ dispatched : wstate[i] = "ABSENT"
  /\ \A i \in DeBridge : task[i] \in BeforeConfirmed => ~Eligible(i)
  /\ \A c \in claims :
       /\ c.intent \in DeBridge
       /\ Eligible(c.intent) \/ wstate[c.intent] \in IsTerminal
       /\ c.stage = "record" => wstate[c.intent] \in IsTerminal
  /\ tickList \subseteq DeBridge
  /\ \A i \in Intents : task[i] = "claimable" => i \in DeBridge

VisibleInv ==
  /\ restarts \in Nat
  /\ restarts = 0 => ClaimsFollowConfirm
  /\ ClaimableIsVisible

\* What transition() refuses stays as it is, in every terminal state.
LEMMA StateAfterKeeps ==
  ASSUME wstate \in [Intents -> IntentState \cup {"ABSENT"}],
         NEW i \in Intents, NEW s \in IntentState
  PROVE  /\ ~Movable(i) => StateAfter(i, s) = wstate
         /\ Movable(i) => StateAfter(i, s) = [wstate EXCEPT ![i] = s]
         /\ StateAfter(i, s)[i] \in {s, wstate[i]}
         /\ \A j \in Intents \ {i} : StateAfter(i, s)[j] = wstate[j]
BY DEF StateAfter

\* A step of i's task keeps what is claimable visible, if it confirms nothing
\* that a claim has already and leaves a row for what it confirmed.
LEMMA VisibleAfterTask ==
  ASSUME TypeOK, VisibleInv, restarts = 0, NEW i \in dispatched, i \in Intents,
         UNCHANGED <<claims, tickList, dispatched, restarts>>,
         \A j \in Intents \ {i} :
           wstate'[j] = wstate[j] /\ task'[j] = task[j] /\ rows'[j] = rows[j],
         i \in DeBridge /\ task'[i] \in BeforeConfirmed => ~Eligible(i)',
         wstate'[i] # wstate[i] =>
           wstate[i] \notin IsTerminal /\ (i \in DeBridge => ~Eligible(i)),
         task'[i] = "claimable" => i \in DeBridge,
         i \in DeBridge /\ Eligible(i)' =>
           HasUnclaimedRow(i)' \/ task'[i] = "confirmed"
  PROVE  VisibleInv'
<1>1. ClaimsFollowConfirm
  BY DEF VisibleInv
<1>2. \A c \in claims : c.intent \in DeBridge /\ wstate'[c.intent] = wstate[c.intent]
  BY <1>1, DeBridgeAreIntents DEF ClaimsFollowConfirm
<1>3. \A j \in Intents \ {i} :
        /\ Eligible(j)' = Eligible(j)
        /\ HasUnclaimedRow(j)' = HasUnclaimedRow(j)
  BY DEF Eligible, HasUnclaimedRow
<1>4. ClaimsFollowConfirm'
  <2>1. \A j \in Intents \ dispatched' : wstate'[j] = "ABSENT"
    BY <1>1 DEF ClaimsFollowConfirm
  <2>2. \A j \in DeBridge : task'[j] \in BeforeConfirmed => ~Eligible(j)'
    BY <1>1, <1>3, DeBridgeAreIntents DEF ClaimsFollowConfirm
  <2>3. \A c \in claims' :
          /\ c.intent \in DeBridge
          /\ Eligible(c.intent)' \/ wstate'[c.intent] \in IsTerminal
          /\ c.stage = "record" => wstate'[c.intent] \in IsTerminal
    BY <1>1, <1>2 DEF ClaimsFollowConfirm, Eligible
  <2>4. tickList' \subseteq DeBridge /\ \A j \in Intents : task'[j] = "claimable" => j \in DeBridge
    BY <1>1 DEF ClaimsFollowConfirm
  <2> QED
    BY <2>1, <2>2, <2>3, <2>4 DEF ClaimsFollowConfirm
<1>5. ClaimableIsVisible'
  BY <1>3, DeBridgeAreIntents DEF VisibleInv, ClaimableIsVisible
<1> QED
  BY <1>4, <1>5 DEF VisibleInv

\* A row appended with the decision "executed" is one the tick looks for, and
\* hides none before it.
LEMMA AppendedIsUnclaimed ==
  ASSUME TypeOK, NEW i \in Intents, NEW d \in {"executed", "executed_failed"},
         rows' = [rows EXCEPT ![i] = Append(@, OutcomeRow(d))]
  PROVE  /\ d = "executed" \/ HasUnclaimedRow(i) => HasUnclaimedRow(i)'
         /\ \A j \in Intents \ {i} : rows'[j] = rows[j]
<1>1. rows[i] \in Seq(Row) /\ rows'[i] = Append(rows[i], OutcomeRow(d))
  BY DEF TypeOK
<1>2. /\ Len(rows[i]) + 1 \in DOMAIN rows'[i]
      /\ rows'[i][Len(rows[i]) + 1] = OutcomeRow(d)
      /\ \A n \in DOMAIN rows[i] : n \in DOMAIN rows'[i] /\ rows'[i][n] = rows[i][n]
  BY <1>1 DEF OutcomeRow, Row
<1>3. d = "executed" => HasUnclaimedRow(i)'
  BY <1>2 DEF HasUnclaimedRow, OutcomeRow
<1>4. HasUnclaimedRow(i) => HasUnclaimedRow(i)'
  BY <1>2 DEF HasUnclaimedRow
<1> QED
  BY <1>3, <1>4 DEF TypeOK

LEMMA FillStepVisible ==
  ASSUME TypeOK, OwnClaimInv, VisibleInv, restarts = 0, NEW i \in Intents, FillStep(i)
  PROVE  VisibleInv'
<1> USE DEF BeforeConfirmed
<1>0. /\ i \in dispatched /\ ClaimsFollowConfirm
      /\ i \in DeBridge => i \notin Solana
      /\ i \in DeBridge /\ task[i] \in BeforeConfirmed => ~Eligible(i)
      /\ wstate \in [Intents -> IntentState \cup {"ABSENT"}]
  <2>1. task[i] # "idle"
    BY DEF FillStep, SkipUntouched, Admit, Advance, NextStage, SkipOut, ExitStates,
           AbandonSend, SendFill, SendFillFails, Confirm, AppendExecuted,
           FillReverted, FillReceiptError, SendSolana, AppendSolana, TaskClaims
  <2> QED
    BY <2>1, SolanaIsNotDeBridge DEF OwnClaimInv, VisibleInv, TypeOK, ClaimsFollowConfirm
<1>1. CASE SkipUntouched(i) \/ AbandonSend(i)
  BY <1>0, <1>1, VisibleAfterTask
  DEF SkipUntouched, AbandonSend, EndTask, TypeOK, claimVars, walletVars, faultVars,
      Eligible
<1>2. CASE Admit(i)
  <2>1. /\ task[i] = "queued" /\ task'[i] \in {"checking", "idle"}
        /\ \A j \in Intents \ {i} : task'[j] = task[j]
        /\ UNCHANGED <<claims, tickList, dispatched, restarts, rows>>
    BY <1>2 DEF Admit, EndTask, TypeOK, claimVars, faultVars
  <2>2. PICK s \in {"PROFITABILITY_CHECK", "SKIP_UNPROFITABLE"} :
          wstate' = IF wstate[i] = "ABSENT" THEN [wstate EXCEPT ![i] = s]
                                            ELSE StateAfter(i, s)
    BY <1>2 DEF Admit, DetectReserveAndMove, DetectAndSkip
  <2>3. /\ \A j \in Intents \ {i} : wstate'[j] = wstate[j]
        /\ wstate'[i] \in {s, wstate[i]}
        /\ wstate[i] \in IsTerminal => wstate'[i] = wstate[i]
    BY <1>0, <2>2, StateAfterKeeps, StagesAreStates DEF Movable, IsTerminal
  <2> QED
    BY <1>0, <2>1, <2>3, VisibleAfterTask DEF Eligible
<1>3. CASE Advance(i)
  <2>1. /\ task[i] \in BeforeConfirmed /\ task'[i] \in BeforeConfirmed
        /\ \A j \in Intents \ {i} : task'[j] = task[j]
        /\ UNCHANGED <<claims, tickList, dispatched, restarts, rows>>
    BY <1>3 DEF Advance, NextStage, TypeOK, claimVars, faultVars
  <2>2. PICK s \in IntentState \ {"CONFIRMED", "CLAIM_PENDING", "CLAIMED"} :
          wstate' = StateAfter(i, s)
    BY <1>3, StagesAreStates DEF Advance, Transition
  <2>3. /\ \A j \in Intents \ {i} : wstate'[j] = wstate[j]
        /\ wstate'[i] \in {s, wstate[i]}
        /\ wstate[i] \in IsTerminal => wstate'[i] = wstate[i]
    BY <1>0, <2>2, StateAfterKeeps DEF Movable
  <2> QED
    BY <1>0, <2>1, <2>3, VisibleAfterTask DEF Eligible
<1>4. CASE SkipOut(i) \/ SendFillFails(i) \/ FillReceiptError(i) \/ FillReverted(i)
  <2>1. /\ task[i] \in BeforeConfirmed /\ task'[i] = "idle"
        /\ \A j \in Intents \ {i} : task'[j] = task[j]
        /\ UNCHANGED <<claims, tickList, dispatched, restarts>>
    BY <1>4 DEF SkipOut, SendFillFails, FillReceiptError, FillReverted, ExitStates,
                EndTask, TypeOK, claimVars, faultVars
  <2>2. PICK s \in IntentState \ {"CONFIRMED", "CLAIM_PENDING", "CLAIMED"} :
          wstate' = StateAfter(i, s)
    <3>1. "REVERTED" \in IntentState \ {"CONFIRMED", "CLAIM_PENDING", "CLAIMED"}
      BY StagesAreStates
    <3> QED
      BY <1>4, <3>1, StagesAreStates
      DEF SkipOut, SendFillFails, FillReceiptError, FillReverted, TransitionAndRelease
  <2>3. /\ \A j \in Intents \ {i} : wstate'[j] = wstate[j]
        /\ wstate'[i] \in {s, wstate[i]}
        /\ wstate[i] \in IsTerminal => wstate'[i] = wstate[i]
    BY <1>0, <2>2, StateAfterKeeps DEF Movable
  <2>4. \A j \in Intents \ {i} : rows'[j] = rows[j]
    BY <1>4 DEF SkipOut, SendFillFails, FillReceiptError, FillReverted,
                RowsAfterReceiptError, TypeOK
  <2> QED
    BY <1>0, <2>1, <2>3, <2>4, VisibleAfterTask DEF Eligible
<1>5. CASE SendFill(i) \/ Confirm(i)
  <2>1. /\ task[i] \in BeforeConfirmed
        /\ \A j \in Intents \ {i} : task'[j] = task[j]
        /\ UNCHANGED <<claims, tickList, dispatched, restarts, rows>>
    BY <1>5 DEF SendFill, Confirm, TypeOK, claimVars, faultVars
  <2>2. PICK s \in IntentState :
          /\ wstate' = StateAfter(i, s)
          /\ \/ s = "PENDING_CONFIRMATION" /\ task'[i] = "pending"
             \/ task'[i] = "confirmed"
    BY <1>5, StagesAreStates DEF SendFill, Confirm, Transition, TransitionAndRelease, TypeOK
  <2>3. /\ \A j \in Intents \ {i} : wstate'[j] = wstate[j]
        /\ wstate'[i] \in {s, wstate[i]}
        /\ wstate[i] \in IsTerminal => wstate'[i] = wstate[i]
    BY <1>0, <2>2, StateAfterKeeps DEF Movable
  <2> QED
    BY <1>0, <2>1, <2>2, <2>3, VisibleAfterTask DEF Eligible
<1>6. CASE AppendExecuted(i)
  <2>1. /\ task'[i] \in {"claimable", "idle"} /\ (task'[i] = "claimable" => i \in DeBridge)
        /\ \A j \in Intents \ {i} : task'[j] = task[j]
        /\ UNCHANGED <<claims, tickList, dispatched, restarts, wstate>>
        /\ rows' = [rows EXCEPT ![i] = Append(@, OutcomeRow("executed"))]
    BY <1>6 DEF AppendExecuted, TypeOK, claimVars, faultVars, walletVars
  <2> QED
    BY <1>0, <2>1, VisibleAfterTask, AppendedIsUnclaimed
<1>7. CASE SendSolana(i)
  <2>1. /\ i \notin DeBridge /\ task'[i] = "signed"
        /\ wstate[i] \in IsTerminal => wstate'[i] = wstate[i]
        /\ \A j \in Intents \ {i} : task'[j] = task[j] /\ wstate'[j] = wstate[j]
        /\ UNCHANGED <<claims, tickList, dispatched, restarts, rows>>
    BY <1>0, <1>7, StateAfterKeeps, StagesAreStates
    DEF SendSolana, TypeOK, claimVars, faultVars, Transition, Movable
  <2> QED
    BY <1>0, <2>1, VisibleAfterTask
<1>8. CASE AppendSolana(i)
  <2>1. /\ task'[i] = "idle"
        /\ \A j \in Intents \ {i} : task'[j] = task[j]
        /\ UNCHANGED <<claims, tickList, dispatched, restarts, wstate>>
        /\ rows' = [rows EXCEPT ![i] = Append(@, OutcomeRow("executed"))]
    BY <1>8 DEF AppendSolana, EndTask, TypeOK, claimVars, faultVars
  <2> QED
    BY <1>0, <2>1, VisibleAfterTask, AppendedIsUnclaimed
<1>9. CASE TaskClaims(i)
  <2>1. /\ task[i] = "claimable" /\ task'[i] \in {"claiming", "idle"}
        /\ \A j \in Intents \ {i} : task'[j] = task[j]
        /\ UNCHANGED <<tickList, dispatched, restarts, wstate, rows>>
        /\ claims' \subseteq claims \cup {Attempt(i, i)}
        /\ claims' # claims => Eligible(i)
    BY <1>9 DEF TaskClaims, StartClaim, TypeOK, faultVars, walletVars
  <2>2. i \in DeBridge /\ Attempt(i, i).intent = i /\ Attempt(i, i).stage = "sending"
    BY <1>0, <2>1 DEF ClaimsFollowConfirm, Attempt
  <2> HIDE DEF BeforeConfirmed
  <2>3. /\ \A j \in DeBridge : task'[j] \in BeforeConfirmed => task'[j] = task[j]
        /\ \A j \in Intents : task'[j] = "claimable" => task[j] = "claimable"
        /\ \A j \in Intents : task[j] = "confirmed" => task'[j] = "confirmed"
    BY <2>1, DeBridgeAreIntents DEF BeforeConfirmed
  <2>4. ClaimsFollowConfirm'
    BY <1>0, <2>1, <2>2, <2>3 DEF ClaimsFollowConfirm, Eligible
  <2>5. ClaimableIsVisible'
    BY <2>1, <2>3, DeBridgeAreIntents DEF VisibleInv, ClaimableIsVisible, Eligible, HasUnclaimedRow
  <2> QED
    BY <2>1, <2>4, <2>5 DEF VisibleInv
<1> QED
  BY <1>1, <1>2, <1>3, <1>4, <1>5, <1>6, <1>7, <1>8, <1>9 DEF FillStep

\* A step of a claim attempt moves only what is claimable or claimed already,
\* and stamps the row of an intent that is CLAIMED for good.
LEMMA ClaimStepVisible ==
  ASSUME TypeOK, OwnClaimInv, VisibleInv, restarts = 0, NEW c \in claims, ClaimStep(c)
  PROVE  VisibleInv'
<1> DEFINE k == c.intent
<1>0. /\ k \in DeBridge /\ k \in Intents
      /\ ClaimsFollowConfirm
      /\ Eligible(k) \/ wstate[k] \in IsTerminal
      /\ c.stage = "record" => wstate[k] \in IsTerminal
      /\ c.by = k => task[k] \notin BeforeConfirmed \cup {"claimable", "confirmed"}
      /\ wstate \in [Intents -> IntentState \cup {"ABSENT"}]
  BY DeBridgeAreIntents
  DEF OwnClaimInv, VisibleInv, TypeOK, ClaimsFollowConfirm, BeforeConfirmed
<1>1. /\ UNCHANGED <<dispatched, tickList, restarts>>
      /\ \/ UNCHANGED task
         \/ c.by = k /\ task' = [task EXCEPT ![k] = "idle"]
  BY DEF ClaimStep, SendClaim, SendClaimFails, ClaimMined, RecordClaim,
         ClaimReverted, ClaimReceiptError, EndClaim, taskVars, faultVars
<1>2. \A j \in Intents :
        /\ task'[j] \in BeforeConfirmed \cup {"claimable", "confirmed"} => task'[j] = task[j]
        /\ task[j] \in BeforeConfirmed \cup {"claimable", "confirmed"} => task'[j] = task[j]
  BY <1>0, <1>1 DEF TypeOK, BeforeConfirmed
<1>3. /\ \A j \in Intents \ {k} : wstate'[j] = wstate[j]
      /\ Eligible(k)' \/ wstate'[k] \in IsTerminal
      /\ wstate[k] \in IsTerminal => wstate'[k] = wstate[k]
  <2>1. CASE UNCHANGED wstate
    BY <1>0, <2>1 DEF Eligible
  <2>2. ASSUME NEW s \in {"CONFIRMED", "CLAIM_PENDING", "CLAIMED"},
               wstate' = StateAfter(k, s)
        PROVE  <1>3
    <3>1. s \in IntentState
      BY StagesAreStates DEF IntentState
    <3> HIDE DEF k
    <3> QED
      BY <1>0, <2>2, <3>1, StateAfterKeeps DEF Movable, Eligible, IsTerminal
  <2> QED
    BY <2>1, <2>2
    DEF ClaimStep, SendClaim, SendClaimFails, ClaimMined, RecordClaim, ClaimReverted,
        ClaimReceiptError, Transition, RecordRevenueAndMove, walletVars
<1>4. \A d \in claims' :
        \/ d \in claims
        \/ d.intent = k /\ (d.stage = "record" => wstate'[k] \in IsTerminal)
  <2>1. CASE SendClaim(c)
    BY <2>1 DEF SendClaim, TypeOK, ClaimAttempt
  <2>2. CASE ClaimMined(c)
    <3>1. wstate'[k] \in IsTerminal
      <4> HIDE DEF k
      <4>1. wstate' = StateAfter(k, "CLAIMED")
        BY <2>2 DEF ClaimMined, Transition, RecordRevenueAndMove, k
      <4> QED
        BY <1>0, <4>1, StateAfterKeeps, StagesAreStates DEF Movable, Eligible, IsTerminal
    <3> QED
      BY <2>2, <3>1 DEF ClaimMined, TypeOK, ClaimAttempt
  <2> QED
    BY <2>1, <2>2 DEF ClaimStep, SendClaimFails, RecordClaim, ClaimReverted,
                      ClaimReceiptError, EndClaim
<1>5. /\ \A j \in Intents \ {k} : rows'[j] = rows[j]
      /\ Eligible(k)' => rows'[k] = rows[k]
  <2>1. CASE RecordClaim(c)
    <3>1. /\ ~Eligible(k)'
          /\ \A j \in Intents \ {k} : rows'[j] = rows[j]
      BY <1>0, <1>3, <2>1 DEF RecordClaim, Eligible, IsTerminal, TypeOK
    <3> QED
      BY <3>1
  <2> QED
    BY <2>1 DEF ClaimStep, SendClaim, SendClaimFails, ClaimMined, ClaimReverted,
                ClaimReceiptError
<1> HIDE DEF k
<1>6. /\ Eligible(k)' => Eligible(k)
      /\ \A j \in Intents \ {k} : Eligible(j)' = Eligible(j)
  BY <1>0, <1>3 DEF Eligible, IsTerminal
<1>7. ClaimsFollowConfirm'
  <2>1. \A j \in Intents \ dispatched' : wstate'[j] = "ABSENT"
    BY <1>0, <1>1, <1>3, <1>6 DEF ClaimsFollowConfirm, Eligible, IsTerminal
  <2>2. \A j \in DeBridge : task'[j] \in BeforeConfirmed => ~Eligible(j)'
    BY <1>0, <1>2, <1>6, DeBridgeAreIntents DEF ClaimsFollowConfirm
  <2>3. \A d \in claims' :
          /\ d.intent \in DeBridge
          /\ Eligible(d.intent)' \/ wstate'[d.intent] \in IsTerminal
          /\ d.stage = "record" => wstate'[d.intent] \in IsTerminal
    <3> SUFFICES ASSUME NEW d \in claims'
                 PROVE  /\ d.intent \in DeBridge
                        /\ Eligible(d.intent)' \/ wstate'[d.intent] \in IsTerminal
                        /\ d.stage = "record" => wstate'[d.intent] \in IsTerminal
      OBVIOUS
    <3>1. CASE d \in claims
      <4>1. d.intent \in DeBridge /\ d.intent \in Intents
        BY <1>0, <3>1, DeBridgeAreIntents DEF ClaimsFollowConfirm
      <4>2. /\ Eligible(d.intent) \/ wstate[d.intent] \in IsTerminal
            /\ d.stage = "record" => wstate[d.intent] \in IsTerminal
        BY <1>0, <3>1 DEF ClaimsFollowConfirm
      <4> QED
        BY <1>3, <1>6, <4>1, <4>2
    <3>2. CASE d \notin claims
      BY <1>0, <1>3, <1>4, <3>2
    <3> QED
      BY <3>1, <3>2
  <2>4. tickList' \subseteq DeBridge /\ \A j \in Intents : task'[j] = "claimable" => j \in DeBridge
    BY <1>0, <1>1, <1>2 DEF ClaimsFollowConfirm
  <2> QED
    BY <2>1, <2>2, <2>3, <2>4 DEF ClaimsFollowConfirm
<1>8. ClaimableIsVisible'
  BY <1>0, <1>2, <1>5, <1>6, DeBridgeAreIntents
  DEF VisibleInv, ClaimableIsVisible, HasUnclaimedRow
<1> QED
  BY <1>1, <1>7, <1>8 DEF VisibleInv

LEMMA NextVisible == TypeOK /\ OwnClaimInv /\ VisibleInv /\ [Next]_vars => VisibleInv'
<1> SUFFICES ASSUME TypeOK, OwnClaimInv, VisibleInv, [Next]_vars PROVE VisibleInv'
  OBVIOUS
<1>1. CASE restarts # 0
  <2>1. restarts' = restarts \/ restarts' = restarts + 1
    BY DEF Next, Dispatch, FillStep, SkipUntouched, Admit, Advance, SkipOut,
           AbandonSend, SendFill, SendFillFails, Confirm, AppendExecuted,
           FillReverted, FillReceiptError, SendSolana, AppendSolana, TaskClaims,
           ApiClaims, TakenByOther, ClaimStep, SendClaim, SendClaimFails,
           ClaimMined, RecordClaim, ClaimReverted, ClaimReceiptError, ChainStep,
           MineFill, MineStrayFill, MineStrayClaim, MineClaim, TickStep, TickScan,
           TickClaims, Restart, vars, faultVars
  <2> QED
    BY <1>1, <2>1 DEF VisibleInv, ClaimableIsVisible
<1>2. ASSUME restarts = 0, ~Restart PROVE VisibleInv'
  <2>0. ClaimsFollowConfirm /\ ClaimableIsVisible
    BY <1>2 DEF VisibleInv
  <2>1. ASSUME NEW i \in Intents, Dispatch(i) PROVE VisibleInv'
    <3>1. /\ i \notin dispatched /\ dispatched' = dispatched \cup {i}
          /\ task'[i] = "queued" /\ \A j \in Intents \ {i} : task'[j] = task[j]
          /\ UNCHANGED <<wstate, rows, claims, tickList, restarts>>
      BY <2>1 DEF Dispatch, TypeOK, walletVars, claimVars, faultVars
    <3>2. ~Eligible(i)
      BY <2>0, <3>1 DEF ClaimsFollowConfirm, Eligible
    <3> QED
      BY <2>0, <3>1, <3>2, DeBridgeAreIntents
      DEF VisibleInv, ClaimsFollowConfirm, ClaimableIsVisible, Eligible, HasUnclaimedRow
  <2>2. ASSUME NEW i \in Intents, ApiClaims(i) \/ TickClaims(i)
        PROVE  VisibleInv'
    <3>1. PICK b \in {Tick, Api} :
            claims' = IF Eligible(i) THEN claims \cup {Attempt(b, i)} ELSE claims
      BY <2>2 DEF ApiClaims, TickClaims, StartClaim
    <3>2. /\ i \in DeBridge /\ tickList' \subseteq tickList
          /\ UNCHANGED <<wstate, task, rows, dispatched, restarts>>
      BY <2>0, <2>2 DEF ApiClaims, TickClaims, ClaimsFollowConfirm, walletVars, taskVars, faultVars
    <3>3. Attempt(b, i).intent = i /\ Attempt(b, i).stage = "sending"
      BY DEF Attempt
    <3> QED
      BY <2>0, <3>1, <3>2, <3>3
      DEF VisibleInv, ClaimsFollowConfirm, ClaimableIsVisible, Eligible, HasUnclaimedRow
  <2>3. ASSUME NEW i \in Intents,
               TakenByOther(i) \/ MineFill(i) \/ MineStrayFill(i) \/ MineStrayClaim(i)
        PROVE  VisibleInv'
    <3>1. UNCHANGED <<wstate, task, rows, claims, tickList, dispatched, restarts>>
      BY <2>3 DEF TakenByOther, MineFill, MineStrayFill, MineStrayClaim, walletVars,
                  taskVars, claimVars, faultVars
    <3> QED
      BY <3>1 DEF VisibleInv, ClaimsFollowConfirm, ClaimableIsVisible, Eligible, HasUnclaimedRow
  <2>4. ASSUME NEW c \in claims, MineClaim(c) PROVE VisibleInv'
    <3>1. UNCHANGED <<wstate, task, rows, tickList, dispatched, restarts>>
      BY <2>4 DEF MineClaim, walletVars, taskVars, faultVars
    <3>2. \A d \in claims' : \/ d \in claims
                             \/ d.intent = c.intent /\ d.stage = c.stage
      BY <2>4 DEF MineClaim, TypeOK, ClaimAttempt
    <3>3. ClaimsFollowConfirm'
      BY <2>0, <3>1, <3>2 DEF ClaimsFollowConfirm, Eligible
    <3> QED
      BY <3>1, <3>3 DEF VisibleInv, ClaimableIsVisible, Eligible, HasUnclaimedRow
  <2>5. CASE TickScan
    <3>1. /\ tickList' \subseteq DeBridge
          /\ UNCHANGED <<wstate, task, rows, claims, dispatched, restarts>>
      BY <2>5 DEF TickScan, TickCandidates, walletVars, taskVars, faultVars
    <3> QED
      BY <2>0, <3>1 DEF VisibleInv, ClaimsFollowConfirm, ClaimableIsVisible, Eligible, HasUnclaimedRow
  <2>6. CASE UNCHANGED vars
    BY <2>6 DEF vars, walletVars, taskVars, claimVars, faultVars, VisibleInv,
                ClaimsFollowConfirm, ClaimableIsVisible, Eligible, HasUnclaimedRow
  <2> QED
    BY <1>2, <2>1, <2>2, <2>3, <2>4, <2>5, <2>6, FillStepVisible, ClaimStepVisible
    DEF Next, ChainStep, TickStep
<1>3. CASE restarts = 0 /\ Restart
  BY <1>3 DEF Restart, VisibleInv, ClaimableIsVisible
<1> QED
  BY <1>1, <1>2, <1>3

\* The retry tick's cross-check with the outcome log hides no claimable fill
\* while no crash separates CONFIRMED from its row, whoever claims.
THEOREM ClaimableFillsAreVisible == Spec => []ClaimableIsVisible
<1>1. Init => OwnClaimInv /\ VisibleInv
  BY DeBridgeAreIntents DEF Init, InitWallet, OwnClaimInv, VisibleInv, ClaimsFollowConfirm,
         ClaimableIsVisible, Eligible, BeforeConfirmed
<1>2. VisibleInv => ClaimableIsVisible
  BY DEF VisibleInv
<1> QED
  BY <1>1, <1>2, TypeCorrect, NextOwnClaim, NextVisible, PTL DEF Spec

-----------------------------------------------------------------------------
(* The holds against the wallet budget.  ReservedUsd is a fold: what it sums *)
(* is shown by taking a smallest set for which the claim would fail.        *)

Pick(s) == CHOOSE x \in s : TRUE

\* What the fold sums in one step, with g for the smaller sets.
SumStep(g, s) == IF s = {} THEN 0 ELSE AmountUsd[Pick(s)] + g[s \ {Pick(s)}]

IsSum(g, S) == g = [s \in SUBSET S |-> SumStep(g, s)]

LEMMA ReservedUsdIs == \A S : ReservedUsd(S) = (CHOOSE g : IsSum(g, S))[S]
BY DEF ReservedUsd, MapThenSumSet, MapThenFoldSet, IsSum, SumStep, Pick

\* A set of naturals that is not empty has a least element.
LEMMA LeastNat ==
  ASSUME NEW T \in SUBSET Nat, T # {}
  PROVE  \E x \in T : \A y \in T : x <= y
<1>1. PICK x \in T : \A y \in T : ~(<<y, x>> \in OpToRel(<, Nat))
  BY NatLessThanWellFounded, WFMin
<1>2. \A y \in T : ~(y < x)
  BY <1>1 DEF OpToRel
<1> QED
  BY <1>2

\* Taking one element out of a finite set makes it smaller.
LEMMA SmallerWithout ==
  ASSUME NEW S, IsFiniteSet(S), NEW s \in SUBSET S, NEW x \in s
  PROVE  /\ IsFiniteSet(s) /\ s \ {x} \in SUBSET S
         /\ Cardinality(s) \in Nat /\ Cardinality(s \ {x}) \in Nat
         /\ Cardinality(s \ {x}) < Cardinality(s)
<1>1. IsFiniteSet(s)
  BY FS_Subset
<1>2. IsFiniteSet(s \ {x}) /\ Cardinality(s \ {x}) = Cardinality(s) - 1
  BY <1>1, FS_RemoveElement
<1> QED
  BY <1>1, <1>2, FS_CardinalityType

LEMMA CardOfSubset ==
  ASSUME NEW S, IsFiniteSet(S), NEW s \in SUBSET S
  PROVE  /\ Cardinality(s) \in Nat /\ Cardinality(S) \in Nat
         /\ Cardinality(s) <= Cardinality(S)
         /\ Cardinality(s) = 0 => s = {}
<1>1. IsFiniteSet(s)
  BY FS_Subset
<1> QED
  BY <1>1, FS_Subset, FS_CardinalityType, FS_EmptySet

\* The recursion has a solution on every finite set: unfolding a function that
\* solves it for sets of at most n elements solves it for n + 1.
LEMMA SumExists ==
  ASSUME NEW S, IsFiniteSet(S)
  PROVE  \E g : IsSum(g, S)
<1> DEFINE Upto(g, n) == \A s \in SUBSET S : Cardinality(s) <= n => g[s] = SumStep(g, s)
           Fcns(n) == \E g : g = [s \in SUBSET S |-> g[s]] /\ Upto(g, n)
           Bad == {n \in Nat : ~Fcns(n)}
<1>1. Bad = {}
  <2> SUFFICES ASSUME Bad # {} PROVE FALSE
    OBVIOUS
  <2>1. Bad \in SUBSET Nat
    OBVIOUS
  <2> HIDE DEF Bad
  <2>2. PICK n \in Bad : \A m \in Bad : n <= m
    BY <2>1, LeastNat
  <2>3. n \in Nat /\ ~Fcns(n)
    BY <2>1, <2>2 DEF Bad
  <2>4. ASSUME NEW m \in Nat, m < n PROVE Fcns(m)
    <3> HIDE DEF Fcns
    <3>1. m \notin Bad
      BY <2>2, <2>3, <2>4
    <3> QED
      BY <3>1 DEF Bad
  <2>5. CASE n = 0
    <3> DEFINE g == [s \in SUBSET S |-> 0]
    <3>1. g = [s \in SUBSET S |-> g[s]]
      <4>1. \A s \in SUBSET S : g[s] = 0
        OBVIOUS
      <4> QED
        BY <4>1
    <3>2. Upto(g, 0)
      <4> SUFFICES ASSUME NEW s \in SUBSET S, Cardinality(s) <= 0
                   PROVE  g[s] = SumStep(g, s)
        OBVIOUS
      <4>1. s = {}
        BY CardOfSubset
      <4> QED
        BY <4>1 DEF SumStep
    <3> HIDE DEF g
    <3>3. Fcns(0)
      BY <3>1, <3>2
    <3> QED
      BY <2>3, <2>5, <3>3
  <2>6. CASE n # 0
    <3>1. n - 1 \in Nat /\ n - 1 < n
      BY <2>3, <2>6
    <3>2. PICK g : g = [s \in SUBSET S |-> g[s]] /\ Upto(g, n - 1)
      BY <2>3, <2>4, <3>1
    <3> DEFINE h == [s \in SUBSET S |-> SumStep(g, s)]
    <3>3. h = [s \in SUBSET S |-> h[s]]
      OBVIOUS
    <3>4. Upto(h, n)
      <4> SUFFICES ASSUME NEW s \in SUBSET S, Cardinality(s) <= n
                   PROVE  h[s] = SumStep(h, s)
        OBVIOUS
      <4>1. CASE s = {}
        BY <4>1 DEF SumStep
      <4>2. CASE s # {}
        <5> DEFINE r == s \ {Pick(s)}
        <5>1. Pick(s) \in s
          BY <4>2 DEF Pick
        <5>2. r \in SUBSET S /\ Cardinality(r) <= n - 1
          BY <2>3, <5>1, SmallerWithout
        <5>3. g[r] = SumStep(g, r)
          BY <3>2, <5>2
        <5>4. h[r] = g[r]
          BY <5>2, <5>3
        <5>5. h[s] = AmountUsd[Pick(s)] + g[r]
          BY <4>2 DEF SumStep
        <5>6. SumStep(h, s) = AmountUsd[Pick(s)] + h[r]
          BY <4>2 DEF SumStep
        <5> QED
          BY <5>4, <5>5, <5>6
      <4> QED
        BY <4>1, <4>2
    <3> HIDE DEF h
    <3>5. Fcns(n)
      BY <3>3, <3>4
    <3> QED
      BY <2>3, <3>5
  <2> QED
    BY <2>5, <2>6
<1>2. Fcns(Cardinality(S))
  <2>1. Cardinality(S) \in Nat
    BY FS_CardinalityType
  <2> QED
    BY <1>1, <2>1
<1>3. PICK g : g = [s \in SUBSET S |-> g[s]] /\ Upto(g, Cardinality(S))
  BY <1>2
<1>4. \A s \in SUBSET S : g[s] = SumStep(g, s)
  BY <1>3, CardOfSubset
<1>5. IsSum(g, S)
  <2> DEFINE h == [s \in SUBSET S |-> SumStep(g, s)]
  <2>1. g = h
    BY <1>3, <1>4
  <2> QED
    BY <2>1 DEF IsSum
<1> QED
  BY <1>5

\* Whichever element is taken first, the sum is that element's notional and
\* the sum of the rest.
LEMMA SumTakesAny ==
  ASSUME NEW S \in SUBSET Intents, IsFiniteSet(S), NEW g, IsSum(g, S)
  PROVE  \A s \in SUBSET S :
           g[s] \in Nat /\ \A x \in s : g[s] = AmountUsd[x] + g[s \ {x}]
<1> DEFINE Good(s) == g[s] \in Nat /\ \A x \in s : g[s] = AmountUsd[x] + g[s \ {x}]
           Bad == {n \in Nat : \E s \in SUBSET S : Cardinality(s) = n /\ ~Good(s)}
<1>0. \A s \in SUBSET S : g[s] = SumStep(g, s)
  BY DEF IsSum
<1>1. Bad = {}
  <2> SUFFICES ASSUME Bad # {} PROVE FALSE
    OBVIOUS
  <2>1. Bad \in SUBSET Nat
    OBVIOUS
  <2> HIDE DEF Bad
  <2>2. PICK n \in Bad : \A m \in Bad : n <= m
    BY <2>1, LeastNat
  <2>3. PICK s \in SUBSET S : Cardinality(s) = n /\ ~Good(s)
    BY <2>2 DEF Bad
  <2>4. ASSUME NEW t \in SUBSET S, Cardinality(t) < n PROVE Good(t)
    <3>1. Cardinality(t) \in Nat /\ n \in Nat
      BY <2>1, <2>2, CardOfSubset
    <3> QED
      BY <2>2, <2>4, <3>1 DEF Bad
  <2>5. Good(s)
    <3>1. CASE s = {}
      <4>1. g[s] = SumStep(g, s)
        BY <1>0
      <4>2. g[s] = 0
        BY <3>1, <4>1 DEF SumStep
      <4> QED
        BY <3>1, <4>2
    <3>2. CASE s # {}
      <4> DEFINE c == Pick(s)
      <4>1. c \in s /\ AmountUsd[c] \in Nat
        BY <3>2, AmountsAreNat DEF Pick
      <4>2. g[s] = AmountUsd[c] + g[s \ {c}]
        BY <1>0, <3>2 DEF SumStep
      <4> HIDE DEF c
      <4>3. Good(s \ {c})
        BY <2>3, <2>4, <4>1, SmallerWithout
      <4>4. g[s] \in Nat
        BY <4>1, <4>2, <4>3
      <4>5. ASSUME NEW x \in s, x # c PROVE g[s] = AmountUsd[x] + g[s \ {x}]
        <5>1. Good(s \ {x})
          BY <2>3, <2>4, SmallerWithout
        <5>2. (s \ {x}) \ {c} = (s \ {c}) \ {x}
          OBVIOUS
        <5>3. g[s \ {c}] = AmountUsd[x] + g[(s \ {x}) \ {c}]
          BY <4>3, <4>5, <5>2
        <5>4. g[s \ {x}] = AmountUsd[c] + g[(s \ {x}) \ {c}]
          BY <4>1, <4>5, <5>1
        <5>5. Good((s \ {x}) \ {c}) /\ AmountUsd[x] \in Nat
          <6>1. s \ {x} \in SUBSET S /\ Cardinality(s \ {x}) < n /\ c \in s \ {x}
            BY <2>3, <4>1, <4>5, SmallerWithout
          <6>2. (s \ {x}) \ {c} \in SUBSET S
                /\ Cardinality((s \ {x}) \ {c}) < Cardinality(s \ {x})
                /\ Cardinality((s \ {x}) \ {c}) \in Nat /\ Cardinality(s \ {x}) \in Nat
            BY <6>1, SmallerWithout
          <6>3. Cardinality((s \ {x}) \ {c}) < n
            BY <2>1, <2>2, <6>1, <6>2
          <6> QED
            BY <2>4, <6>2, <6>3, <4>5, AmountsAreNat
        <5> HIDE DEF Good
        <5>6. g[(s \ {x}) \ {c}] \in Nat
          BY <5>5 DEF Good
        <5> QED
          BY <4>1, <4>2, <5>3, <5>4, <5>5, <5>6
      <4> QED
        BY <4>2, <4>4, <4>5
    <3> QED
      BY <3>1, <3>2
  <2> QED
    BY <2>3, <2>5
<1>2. ASSUME NEW s \in SUBSET S PROVE Good(s)
  <2>1. Cardinality(s) \in Nat
    BY CardOfSubset
  <2> QED
    BY <1>1, <2>1
<1> QED
  BY <1>2

\* The sum of a set does not depend on the larger set it is taken in.
LEMMA SumsAgree ==
  ASSUME NEW T \in SUBSET Intents, IsFiniteSet(T), NEW S \in SUBSET T,
         NEW g, IsSum(g, S), NEW h, IsSum(h, T)
  PROVE  \A s \in SUBSET S : g[s] = h[s]
<1> DEFINE Bad == {n \in Nat : \E s \in SUBSET S : Cardinality(s) = n /\ g[s] # h[s]}
<1>0. /\ \A s \in SUBSET S : g[s] = SumStep(g, s)
      /\ \A s \in SUBSET T : h[s] = SumStep(h, s)
      /\ IsFiniteSet(S)
  BY FS_Subset DEF IsSum
<1>1. Bad = {}
  <2> SUFFICES ASSUME Bad # {} PROVE FALSE
    OBVIOUS
  <2>1. Bad \in SUBSET Nat
    OBVIOUS
  <2> HIDE DEF Bad
  <2>2. PICK n \in Bad : \A m \in Bad : n <= m
    BY <2>1, LeastNat
  <2>3. PICK s \in SUBSET S : Cardinality(s) = n /\ g[s] # h[s]
    BY <2>2 DEF Bad
  <2>4. CASE s = {}
    BY <1>0, <2>3, <2>4 DEF SumStep
  <2>5. CASE s # {}
    <3> DEFINE r == s \ {Pick(s)}
    <3>1. Pick(s) \in s
      BY <2>5 DEF Pick
    <3>2. r \in SUBSET S /\ Cardinality(r) \in Nat /\ Cardinality(r) < n /\ n \in Nat
      BY <1>0, <2>3, <3>1, SmallerWithout
    <3>3. g[r] = h[r]
      BY <2>2, <3>2 DEF Bad
    <3> QED
      BY <1>0, <2>3, <2>5, <3>3 DEF SumStep
  <2> QED
    BY <2>4, <2>5
<1>2. ASSUME NEW s \in SUBSET S PROVE g[s] = h[s]
  <2>1. Cardinality(s) \in Nat
    BY <1>0, CardOfSubset
  <2> QED
    BY <1>1, <2>1
<1> QED
  BY <1>2

\* ReservedUsd() of a finite set of intents is a natural number, 0 for none,
\* and a new intent adds its notional to it.
LEMMA ReservedUsdAdds ==
  ASSUME NEW S \in SUBSET Intents, IsFiniteSet(S)
  PROVE  /\ ReservedUsd({}) = 0
         /\ ReservedUsd(S) \in Nat
         /\ \A i \in S : ReservedUsd(S) = AmountUsd[i] + ReservedUsd(S \ {i})
<1>1. ASSUME NEW T \in SUBSET S
      PROVE  /\ IsSum(CHOOSE g : IsSum(g, T), T)
             /\ ReservedUsd(T) = (CHOOSE g : IsSum(g, T))[T]
  <2>1. IsFiniteSet(T)
    BY FS_Subset
  <2> QED
    BY <2>1, SumExists, ReservedUsdIs
<1> DEFINE h == CHOOSE g : IsSum(g, S)
<1>2. IsSum(h, S)
  BY <1>1
<1> HIDE DEF h
<1>3. ASSUME NEW T \in SUBSET S PROVE ReservedUsd(T) = h[T]
  <2> DEFINE k == CHOOSE g : IsSum(g, T)
  <2>1. IsSum(k, T) /\ ReservedUsd(T) = k[T]
    BY <1>1
  <2> HIDE DEF k
  <2>2. \A s \in SUBSET T : k[s] = h[s]
    BY <1>2, <2>1, SumsAgree
  <2> QED
    BY <2>1, <2>2
<1>4. \A s \in SUBSET S :
        h[s] \in Nat /\ \A x \in s : h[s] = AmountUsd[x] + h[s \ {x}]
  BY <1>2, SumTakesAny
<1>5. ReservedUsd({}) = 0
  <2>1. h[{}] = SumStep(h, {})
    BY <1>2 DEF IsSum
  <2>2. h[{}] = 0
    BY <2>1 DEF SumStep
  <2> QED
    BY <1>3, <2>2
<1> QED
  BY <1>3, <1>4, <1>5

\* Holds that are dropped free budget.
LEMMA ReservedUsdShrinks ==
  ASSUME NEW S \in SUBSET Intents, IsFiniteSet(S), NEW T \in SUBSET S
  PROVE  ReservedUsd(T) <= ReservedUsd(S)
<1> DEFINE Bad == {n \in Nat : \E R \in SUBSET S :
                     T \subseteq R /\ Cardinality(R) = n /\ ~(ReservedUsd(T) <= ReservedUsd(R))}
<1>0. \A R \in SUBSET S : IsFiniteSet(R) /\ ReservedUsd(R) \in Nat
  <2> SUFFICES ASSUME NEW R \in SUBSET S PROVE IsFiniteSet(R) /\ ReservedUsd(R) \in Nat
    OBVIOUS
  <2>1. IsFiniteSet(R) /\ R \in SUBSET Intents
    BY FS_Subset
  <2> QED
    BY <2>1, ReservedUsdAdds
<1>1. Bad = {}
  <2> SUFFICES ASSUME Bad # {} PROVE FALSE
    OBVIOUS
  <2>1. Bad \in SUBSET Nat
    OBVIOUS
  <2> HIDE DEF Bad
  <2>2. PICK n \in Bad : \A m \in Bad : n <= m
    BY <2>1, LeastNat
  <2>3. PICK R \in SUBSET S : T \subseteq R /\ Cardinality(R) = n /\ ~(ReservedUsd(T) <= ReservedUsd(R))
    BY <2>2 DEF Bad
  <2>4. PICK x \in R : x \notin T
    BY <1>0, <2>3
  <2>5. /\ R \ {x} \in SUBSET S /\ Cardinality(R \ {x}) \in Nat
        /\ Cardinality(R \ {x}) < n /\ n \in Nat
    BY <2>3, SmallerWithout
  <2>6. T \subseteq R \ {x}
    BY <2>3, <2>4
  <2>7. ReservedUsd(T) <= ReservedUsd(R \ {x})
    BY <2>2, <2>5, <2>6 DEF Bad
  <2>8. ReservedUsd(R) = AmountUsd[x] + ReservedUsd(R \ {x}) /\ AmountUsd[x] \in Nat
    BY <1>0, <2>3, ReservedUsdAdds, AmountsAreNat
  <2> QED
    BY <1>0, <2>3, <2>5, <2>7, <2>8
<1>2. Cardinality(S) \in Nat
  BY FS_CardinalityType
<1> QED
  BY <1>1, <1>2

\* Only an admission takes a hold, and it takes one.
LEMMA HoldsTaken ==
  ASSUME [Next]_vars
  PROVE  \/ reserved' \subseteq reserved
         \/ \E i \in Intents : CanReserve(i) /\ reserved' = reserved \cup {i}
<1>1. ASSUME NEW i \in Intents, FillStep(i)
      PROVE  \/ reserved' \subseteq reserved
             \/ CanReserve(i) /\ reserved' = reserved \cup {i}
  BY <1>1 DEF FillStep, SkipUntouched, Admit, Advance, SkipOut, AbandonSend,
              SendFill, SendFillFails, Confirm, AppendExecuted, FillReverted,
              FillReceiptError, SendSolana, AppendSolana, TaskClaims, Transition,
              TransitionAndRelease, DetectReserveAndMove, DetectAndSkip, Released,
              walletVars
<1>2. ASSUME NEW c \in claims, ClaimStep(c) PROVE reserved' \subseteq reserved
  BY <1>2 DEF ClaimStep, SendClaim, SendClaimFails, ClaimMined, RecordClaim,
              ClaimReverted, ClaimReceiptError, Transition, RecordRevenueAndMove,
              walletVars
<1>3. ASSUME NEW i \in Intents,
             \/ Dispatch(i) \/ ApiClaims(i) \/ TakenByOther(i) \/ TickClaims(i)
             \/ MineFill(i) \/ MineStrayFill(i) \/ MineStrayClaim(i)
      PROVE  reserved' = reserved
  BY <1>3 DEF Dispatch, ApiClaims, TakenByOther, TickClaims, MineFill,
              MineStrayFill, MineStrayClaim, walletVars
<1>4. ASSUME NEW c \in claims, MineClaim(c) PROVE reserved' = reserved
  BY <1>4 DEF MineClaim, walletVars
<1>5. TickScan \/ Restart \/ UNCHANGED vars => reserved' \subseteq reserved
  BY DEF TickScan, Restart, ReleaseStale, vars, walletVars
<1> QED
  BY <1>1, <1>2, <1>3, <1>4, <1>5 DEF Next, ChainStep, TickStep

BudgetInv == IsFiniteSet(reserved) /\ BudgetRespected

LEMMA NextBudget == TypeOK /\ BudgetInv /\ [Next]_vars => BudgetInv'
<1> SUFFICES ASSUME TypeOK, BudgetInv, [Next]_vars PROVE BudgetInv'
  OBVIOUS
<1>1. reserved \in SUBSET Intents /\ IsFiniteSet(reserved) /\ ReservedUsd(reserved) <= BudgetUsd
  BY DEF TypeOK, BudgetInv, BudgetRespected
<1>2. CASE reserved' \subseteq reserved
  <2>1. IsFiniteSet(reserved') /\ ReservedUsd(reserved') <= ReservedUsd(reserved)
    BY <1>1, <1>2, FS_Subset, ReservedUsdShrinks
  <2>2. ReservedUsd(reserved) \in Nat /\ ReservedUsd(reserved') \in Nat
    BY <1>1, <1>2, <2>1, ReservedUsdAdds
  <2> QED
    BY <1>1, <2>1, <2>2, BudgetIsNat DEF BudgetInv, BudgetRespected
<1>3. ASSUME NEW i \in Intents, CanReserve(i), reserved' = reserved \cup {i}, i \notin reserved
      PROVE  BudgetInv'
  <2>1. reserved' \in SUBSET Intents /\ IsFiniteSet(reserved')
    BY <1>1, <1>3, FS_AddElement
  <2>2. ReservedUsd(reserved') = AmountUsd[i] + ReservedUsd(reserved)
    <3>1. reserved' \ {i} = reserved
      BY <1>3
    <3> QED
      BY <1>3, <2>1, <3>1, ReservedUsdAdds
  <2>3. ReservedUsd(reserved) + AmountUsd[i] <= BudgetUsd
    BY <1>3 DEF CanReserve
  <2>4. ReservedUsd(reserved) \in Nat /\ AmountUsd[i] \in Nat
    BY <1>1, ReservedUsdAdds, AmountsAreNat
  <2> QED
    BY <2>1, <2>2, <2>3, <2>4, BudgetIsNat DEF BudgetInv, BudgetRespected
<1> QED
  BY <1>2, <1>3, HoldsTaken

\* The holds never exceed the wallet budget, whatever crashes, dies or is
\* dispatched again.
THEOREM HoldsStayInBudget == Spec => []BudgetRespected
<1>1. Init => BudgetInv
  <2>1. ReservedUsd({}) = 0 /\ IsFiniteSet({})
    BY FS_EmptySet, ReservedUsdAdds
  <2> QED
    BY <2>1, BudgetIsNat DEF Init, InitWallet, BudgetInv, BudgetRespected
<1>2. BudgetInv => BudgetRespected
  BY DEF BudgetInv
<1> QED
  BY <1>1, <1>2, TypeCorrect, NextBudget, PTL DEF Spec

-----------------------------------------------------------------------------
(* Both books follow the chain: the refinement of Settlement               *)

\* A step of the chain on one order, the books as they were.
LEMMA BooksChainStep ==
  ASSUME TypeOK, NEW i \in Intents,
         UNCHANGED <<wstate, revenue, rows>>,
         \/ UNCHANGED order
         \/ order[i] = "open" /\ order' = [order EXCEPT ![i] = "ours"]
         \/ order[i] = "open" /\ order' = [order EXCEPT ![i] = "taken"]
         \/ order[i] = "ours" /\ order' = [order EXCEPT ![i] = "claimed"]
  PROVE  [Books!Next]_(Books!vars)
<1>1. /\ [j \in Evm |-> WalletView(j)]' = [j \in Evm |-> WalletView(j)]
      /\ [j \in Evm |-> LogView(j)]' = [j \in Evm |-> LogView(j)]
  BY DEF WalletView, LogView, Eligible
<1>2. CASE UNCHANGED order \/ i \notin Evm
  <2>1. \A j \in Evm : order'[j] = order[j]
    BY <1>2 DEF TypeOK, Evm
  <2> QED
    BY <1>1, <2>1 DEF Books!vars
<1>3. CASE ~UNCHANGED order /\ i \in Evm
  <2>1. PICK s \in {"ours", "taken", "claimed"} :
          /\ order' = [order EXCEPT ![i] = s]
          /\ \/ order[i] = "open" /\ s \in {"ours", "taken"}
             \/ order[i] = "ours" /\ s = "claimed"
    BY <1>3
  <2>2. [j \in Evm |-> order[j]]' = [[j \in Evm |-> order[j]] EXCEPT ![i] = s]
    BY <1>3, <2>1 DEF TypeOK, Evm
  <2>3. [j \in Evm |-> order[j]][i] = order[i]
    BY <1>3
  <2>4. Books!ChainMoves(i)
    BY <1>1, <2>1, <2>2, <2>3 DEF Books!ChainMoves
  <2> QED
    BY <1>3, <2>4 DEF Books!Next
<1> QED
  BY <1>2, <1>3

\* A step of the wallet on one intent.
LEMMA BooksWalletStep ==
  ASSUME TypeOK, ChainInv', NEW i \in Intents, UNCHANGED order,
         \A j \in Intents : LogView(j)' = LogView(j),
         \A j \in Intents \ {i} : WalletView(j)' = WalletView(j),
         WalletView(i) = "paid" => WalletView(i)' = "paid"
  PROVE  [Books!Next]_(Books!vars)
<1> DEFINE o == [j \in Evm |-> order[j]]
           w == [j \in Evm |-> WalletView(j)]
           l == [j \in Evm |-> LogView(j)]
<1>1. o' = o /\ l' = l
  BY DEF Evm
<1>2. CASE i \notin Evm \/ WalletView(i)' = WalletView(i)
  <2>1. w' = w
    BY <1>2 DEF Evm
  <2> QED
    BY <1>1, <2>1 DEF Books!vars
<1>3. CASE i \in Evm /\ WalletView(i)' # WalletView(i)
  <2>1. w' = [w EXCEPT ![i] = WalletView(i)']
    BY <1>3 DEF Evm
  <2>2. w[i] # "paid" /\ o[i] = order[i]
    BY <1>3
  <2>3. /\ WalletView(i)' \in {"silent", "filled", "paid"}
        /\ WalletView(i)' # "silent" => order[i] \in {"ours", "claimed"}
        /\ WalletView(i)' = "paid" => order[i] = "claimed"
    <3>1. /\ WalletView(i)' \in {"silent", "filled", "paid"}
          /\ WalletView(i)' # "silent" => Filled(i)'
          /\ WalletView(i)' = "paid" => order'[i] = "claimed"
      BY <1>3 DEF ChainInv, WalletMatchesChain, WalletView, Eligible, Filled, Evm
    <3> QED
      BY <3>1 DEF Filled
  <2>4. WalletView(i)' \in Books!Backed(i)
    BY <2>2, <2>3 DEF Books!Backed
  <2>5. Books!WalletSays(i)
    BY <1>1, <2>1, <2>2, <2>4 DEF Books!WalletSays
  <2> QED
    BY <1>3, <2>5 DEF Books!Next
<1> QED
  BY <1>2, <1>3

\* A step of the outcome log on one intent.
LEMMA BooksLogStep ==
  ASSUME TypeOK, ChainInv', NEW i \in Intents, UNCHANGED <<order, wstate, revenue>>,
         \A j \in Intents \ {i} : LogView(j)' = LogView(j),
         LogView(i)' = LogView(i) \/ (LogView(i) # "paid" /\ LogView(i)' # "silent")
  PROVE  [Books!Next]_(Books!vars)
<1> DEFINE o == [j \in Evm |-> order[j]]
           w == [j \in Evm |-> WalletView(j)]
           l == [j \in Evm |-> LogView(j)]
<1>1. o' = o /\ w' = w
  BY DEF Evm, WalletView, Eligible
<1>2. CASE i \notin Evm \/ LogView(i)' = LogView(i)
  <2>1. l' = l
    BY <1>2 DEF Evm
  <2> QED
    BY <1>1, <2>1 DEF Books!vars
<1>3. CASE i \in Evm /\ LogView(i)' # LogView(i)
  <2>1. l' = [l EXCEPT ![i] = LogView(i)']
    <3>1. \A j \in Evm : l'[j] = [l EXCEPT ![i] = LogView(i)'][j]
      BY <1>3 DEF Evm
    <3> QED
      BY <3>1
  <2>2. l[i] # "paid" /\ o[i] = order[i]
    BY <1>3
  <2>3. /\ LogView(i)' \in {"filled", "paid"}
        /\ order[i] \in {"ours", "claimed"}
        /\ LogView(i)' = "paid" => order[i] = "claimed"
    <3>1. /\ LogView(i)' \in {"silent", "filled", "paid"}
          /\ LogView(i)' # "silent" => Filled(i)'
          /\ LogView(i)' = "paid" => order'[i] = "claimed"
      BY <1>3 DEF ChainInv, RowsMatchChain, LogView, Evm, Filled
    <3> QED
      BY <1>3, <3>1 DEF Filled
  <2>4. LogView(i)' \in Books!Backed(i) \ {"silent"}
    BY <2>2, <2>3 DEF Books!Backed
  <2>5. Books!LogSays(i)
    BY <1>1, <2>1, <2>2, <2>4 DEF Books!LogSays
  <2> QED
    BY <1>3, <2>5 DEF Books!Next
<1> QED
  BY <1>2, <1>3

\* transition() on one intent speaks of no other, and takes back no payment.
LEMMA OneWalletView ==
  ASSUME TypeOK, NEW i \in Intents, NEW s \in IntentState,
         \/ wstate' = StateAfter(i, s)
         \/ wstate[i] = "ABSENT" /\ wstate' = [wstate EXCEPT ![i] = s],
         revenue \subseteq revenue', revenue' \subseteq revenue \cup {i}
  PROVE  /\ \A j \in Intents \ {i} : WalletView(j)' = WalletView(j)
         /\ WalletView(i) = "paid" => WalletView(i)' = "paid"
<1>0. wstate \in [Intents -> IntentState \cup {"ABSENT"}]
  BY DEF TypeOK
<1>1. \A j \in Intents \ {i} : wstate'[j] = wstate[j] /\ (j \in revenue' <=> j \in revenue)
  BY <1>0, StateAfterKeeps
<1>2. wstate[i] = "CLAIMED" => wstate' = wstate
  BY <1>0, StateAfterKeeps DEF Movable, IsTerminal
<1>3. WalletView(i) = "paid" <=> wstate[i] = "CLAIMED" \/ i \in revenue
  BY DEF WalletView
<1>4. WalletView(i)' = "paid" <=> wstate'[i] = "CLAIMED" \/ i \in revenue'
  BY DEF WalletView
<1> QED
  BY <1>1, <1>2, <1>3, <1>4 DEF WalletView, Eligible

\* A row appended to one intent's log takes nothing back; one of a fill that
\* was executed makes it speak.
LEMMA OneLogView ==
  ASSUME TypeOK, NEW i \in Intents, NEW d \in {"executed", "executed_failed"},
         rows' = [rows EXCEPT ![i] = Append(@, OutcomeRow(d))]
  PROVE  /\ \A j \in Intents \ {i} : LogView(j)' = LogView(j)
         /\ d = "executed_failed" => LogView(i)' = LogView(i)
         /\ \/ LogView(i)' = LogView(i)
            \/ LogView(i) # "paid" /\ LogView(i)' # "silent"
<1>1. \A j \in Intents \ {i} : LogView(j)' = LogView(j)
  BY DEF TypeOK, LogView
<1>2. /\ \A n \in DOMAIN rows[i] : n \in DOMAIN rows'[i] /\ rows'[i][n] = rows[i][n]
      /\ \E n \in DOMAIN rows'[i] : rows'[i][n] = OutcomeRow(d)
      /\ \A n \in DOMAIN rows'[i] :
           (n \in DOMAIN rows[i] /\ rows'[i][n] = rows[i][n]) \/ rows'[i][n] = OutcomeRow(d)
  <2>1. rows[i] \in Seq(Row) /\ rows'[i] = Append(rows[i], OutcomeRow(d))
    BY DEF TypeOK
  <2>2. /\ DOMAIN rows[i] = 1 .. Len(rows[i])
        /\ DOMAIN rows'[i] = 1 .. Len(rows[i]) + 1
        /\ \A n \in 1 .. Len(rows[i]) : rows'[i][n] = rows[i][n]
        /\ rows'[i][Len(rows[i]) + 1] = OutcomeRow(d)
        /\ Len(rows[i]) \in Nat
    BY <2>1
  <2> QED
    BY <2>2
<1>3. /\ OutcomeRow(d).decision = d
      /\ ~OutcomeRow(d).claimed
  BY DEF OutcomeRow
<1>4. (\E n \in DOMAIN rows'[i] : rows'[i][n].claimed)
        <=> (\E n \in DOMAIN rows[i] : rows[i][n].claimed)
  BY <1>2, <1>3
<1>5. (\E n \in DOMAIN rows'[i] : rows'[i][n].decision = "executed")
        <=> \/ \E n \in DOMAIN rows[i] : rows[i][n].decision = "executed"
            \/ d = "executed"
  BY <1>2, <1>3
<1> QED
  BY <1>1, <1>4, <1>5 DEF LogView

\* Every step of a fill task is one of the books, or none.
LEMMA FillStepBooks ==
  ASSUME TypeOK, ChainInv', NEW i \in Intents, FillStep(i)
  PROVE  [Books!Next]_(Books!vars)
<1>0. UNCHANGED order
  BY DEF chainVars, FillStep, SkipUntouched, Admit, Advance, SkipOut, AbandonSend,
         SendFill, SendFillFails, Confirm, AppendExecuted, FillReverted,
         FillReceiptError, SendSolana, AppendSolana, TaskClaims
<1>1. ASSUME NEW s \in IntentState, UNCHANGED <<rows, revenue>>,
             \/ wstate' = StateAfter(i, s)
             \/ wstate[i] = "ABSENT" /\ wstate' = [wstate EXCEPT ![i] = s]
      PROVE  [Books!Next]_(Books!vars)
  <2>1. \A j \in Intents : LogView(j)' = LogView(j)
    BY <1>1 DEF LogView
  <2> QED
    BY <1>0, <1>1, <2>1, OneWalletView, BooksWalletStep
<1>2. CASE SkipUntouched(i) \/ AbandonSend(i) \/ TaskClaims(i)
  BY <1>0, <1>2, BooksChainStep DEF SkipUntouched, AbandonSend, TaskClaims, walletVars
<1>3. CASE Admit(i)
  <2>1. \E s \in {"PROFITABILITY_CHECK", "SKIP_UNPROFITABLE"} :
          \/ wstate' = StateAfter(i, s)
          \/ wstate[i] = "ABSENT" /\ wstate' = [wstate EXCEPT ![i] = s]
    BY <1>3 DEF Admit, DetectReserveAndMove, DetectAndSkip
  <2>2. UNCHANGED <<rows, revenue>>
    BY <1>3 DEF Admit, DetectReserveAndMove, DetectAndSkip
  <2> QED
    BY <1>1, <2>1, <2>2, StagesAreStates
<1>4. CASE Advance(i) \/ SkipOut(i)
  <2>1. \E s \in IntentState : wstate' = StateAfter(i, s)
    BY <1>4, StagesAreStates DEF Advance, SkipOut, Transition, TransitionAndRelease
  <2>2. UNCHANGED <<rows, revenue>>
    BY <1>4 DEF Advance, SkipOut, Transition, TransitionAndRelease
  <2> QED
    BY <1>1, <2>1, <2>2
<1>5. CASE SendFill(i) \/ SendFillFails(i) \/ Confirm(i) \/ FillReceiptError(i) \/ SendSolana(i)
  <2>1. \E s \in {"PENDING_CONFIRMATION", "REVERTED", "CONFIRMED"} : wstate' = StateAfter(i, s)
    BY <1>5 DEF SendFill, SendFillFails, Confirm, FillReceiptError, SendSolana,
                Transition, TransitionAndRelease
  <2>2. UNCHANGED <<rows, revenue>>
    BY <1>5 DEF SendFill, SendFillFails, Confirm, FillReceiptError, SendSolana,
                Transition, TransitionAndRelease, RowsAfterReceiptError
  <2> QED
    BY <1>1, <2>1, <2>2, StagesAreStates
<1>6. CASE AppendExecuted(i) \/ AppendSolana(i)
  <2>1. /\ rows' = [rows EXCEPT ![i] = Append(@, OutcomeRow("executed"))]
        /\ UNCHANGED <<wstate, revenue>>
    BY <1>6 DEF AppendExecuted, AppendSolana, walletVars
  <2> QED
    BY <1>0, <2>1, OneLogView, BooksLogStep
<1>7. CASE FillReverted(i)
  <2>1. /\ rows' = [rows EXCEPT ![i] = Append(@, OutcomeRow("executed_failed"))]
        /\ wstate' = StateAfter(i, "REVERTED")
        /\ UNCHANGED revenue
        /\ "REVERTED" \in IntentState
    BY <1>7, StagesAreStates DEF FillReverted, TransitionAndRelease
  <2>2. \A j \in Intents : LogView(j)' = LogView(j)
    BY <2>1, OneLogView
  <2> QED
    BY <1>0, <2>1, <2>2, OneWalletView, BooksWalletStep
<1> QED
  BY <1>2, <1>3, <1>4, <1>5, <1>6, <1>7 DEF FillStep

\* Every step of a claim is one of the books, or none.
LEMMA ClaimStepBooks ==
  ASSUME TypeOK, ChainInv', NEW c \in claims, ClaimStep(c)
  PROVE  [Books!Next]_(Books!vars)
<1> DEFINE i == c.intent
<1>0. i \in Intents /\ UNCHANGED order
  BY DEF TypeOK, ClaimAttempt, chainVars, ClaimStep, SendClaim, SendClaimFails, ClaimMined,
         RecordClaim, ClaimReverted, ClaimReceiptError
<1>1. CASE SendClaim(c) \/ ClaimMined(c) \/ ClaimReverted(c) \/ ClaimReceiptError(c)
  <2>1. \E s \in {"CLAIM_PENDING", "CLAIMED", "CONFIRMED"} : wstate' = StateAfter(i, s)
    BY <1>1 DEF SendClaim, ClaimMined, ClaimReverted, ClaimReceiptError, Transition,
                RecordRevenueAndMove
  <2>2. rows' = rows /\ revenue' \in {revenue, revenue \cup {i}}
    BY <1>1 DEF SendClaim, ClaimMined, ClaimReverted, ClaimReceiptError, Transition,
                RecordRevenueAndMove
  <2> HIDE DEF i
  <2>3. \A j \in Intents : LogView(j)' = LogView(j)
    BY <2>2 DEF LogView
  <2>4. /\ \A j \in Intents \ {i} : WalletView(j)' = WalletView(j)
        /\ WalletView(i) = "paid" => WalletView(i)' = "paid"
    BY <1>0, <2>1, <2>2, OneWalletView, StagesAreStates
  <2> QED
    BY <1>0, <2>3, <2>4, BooksWalletStep
<1>2. CASE SendClaimFails(c)
  BY <1>0, <1>2, BooksChainStep DEF SendClaimFails, walletVars
<1>3. CASE RecordClaim(c)
  <2> DEFINE r == rows[i]
             n == Len(r)
  <2>1. r \in Seq(Row) /\ n \in Nat
    BY <1>0 DEF TypeOK
  <2>2. UNCHANGED <<wstate, revenue>>
    BY <1>3 DEF RecordClaim, walletVars
  <2>3. CASE n = 0
    <3>1. rows' = rows
      BY <1>3, <2>3 DEF RecordClaim
    <3> QED
      BY <1>0, <2>2, <3>1, BooksChainStep
  <2>4. CASE n # 0
    <3>1. rows' = [rows EXCEPT ![i] = [r EXCEPT ![n] = [r[n] EXCEPT !.claimed = TRUE]]]
      BY <1>3, <2>4 DEF RecordClaim
    <3>2. n \in DOMAIN r /\ r[n] \in Row
      BY <2>1, <2>4
    <3> HIDE DEF i, n, r
    <3>3. n \in DOMAIN rows'[i] /\ rows'[i][n].claimed
      BY <1>0, <3>1, <3>2 DEF TypeOK, Row
    <3>4. LogView(i)' = "paid"
      BY <3>3 DEF LogView
    <3>5. \A j \in Intents \ {i} : LogView(j)' = LogView(j)
      BY <1>0, <3>1 DEF TypeOK, LogView
    <3> QED
      BY <1>0, <2>2, <3>4, <3>5, BooksLogStep
  <2> QED
    BY <2>3, <2>4
<1> QED
  BY <1>1, <1>2, <1>3 DEF ClaimStep

\* Every step is one of the books, or none.
LEMMA NextBooks == TypeOK /\ ChainInv' /\ [Next]_vars => [Books!Next]_(Books!vars)
<1> SUFFICES ASSUME TypeOK, ChainInv', [Next]_vars PROVE [Books!Next]_(Books!vars)
  OBVIOUS
<1>1. ASSUME NEW i \in Intents,
             \/ Dispatch(i) \/ ApiClaims(i) \/ TickClaims(i)
             \/ TakenByOther(i) \/ MineFill(i) \/ MineStrayFill(i) \/ MineStrayClaim(i)
      PROVE  [Books!Next]_(Books!vars)
  <2>1. UNCHANGED <<wstate, revenue, rows>>
    BY <1>1 DEF Dispatch, ApiClaims, TickClaims, TakenByOther, MineFill, MineStrayFill,
                MineStrayClaim, walletVars
  <2>2. \/ UNCHANGED order
        \/ order[i] = "open" /\ order' = [order EXCEPT ![i] = "ours"]
        \/ order[i] = "open" /\ order' = [order EXCEPT ![i] = "taken"]
        \/ order[i] = "ours" /\ order' = [order EXCEPT ![i] = "claimed"]
    BY <1>1 DEF Dispatch, ApiClaims, TickClaims, TakenByOther, MineFill, MineStrayFill,
                MineStrayClaim, chainVars
  <2> QED
    BY <2>1, <2>2, BooksChainStep
<1>2. ASSUME NEW c \in claims, MineClaim(c) PROVE [Books!Next]_(Books!vars)
  <2>1. c.intent \in Intents
    BY DEF TypeOK, ClaimAttempt
  <2> QED
    BY <1>2, <2>1, BooksChainStep DEF MineClaim, walletVars
<1>3. CASE TickScan \/ Restart \/ UNCHANGED vars
  <2>1. UNCHANGED <<wstate, revenue, rows, order>>
    BY <1>3 DEF TickScan, Restart, ReleaseStale, vars, chainVars, walletVars
  <2>2. /\ [j \in Evm |-> order[j]]' = [j \in Evm |-> order[j]]
        /\ [j \in Evm |-> WalletView(j)]' = [j \in Evm |-> WalletView(j)]
        /\ [j \in Evm |-> LogView(j)]' = [j \in Evm |-> LogView(j)]
    BY <2>1 DEF WalletView, LogView, Eligible
  <2> QED
    BY <2>2 DEF Books!vars
<1> QED
  BY <1>1, <1>2, <1>3, FillStepBooks, ClaimStepBooks DEF Next, ChainStep, TickStep

\* The wallet and the outcome log implement what their readers rely on: each
\* follows the chain order by order, neither is ahead of it, the log takes
\* nothing back and the wallet no payment, for every set of intents and
\* however the tasks, the claimers, the errors and the restarts interleave.
THEOREM TheBooksFollowTheChain == Spec => BooksFollowChain
<1>1. Init => Books!Init
  BY DEF Init, InitWallet, Books!Init, WalletView, LogView, Eligible, Evm
<1> QED
  BY <1>1, NextBooks, TypeCorrect, ChainInvHolds, PTL
  DEF Spec, BooksFollowChain, Books!Spec
====
