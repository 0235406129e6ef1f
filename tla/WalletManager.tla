--------------------------- MODULE WalletManager ---------------------------
(***************************************************************************)
(* The wallet database of crates/wallet-manager/src/lib.rs: the lifecycle  *)
(* state of every intent, the reservations held against the wallet budget  *)
(* and the recorded revenue.  Each operation of WalletManager runs under   *)
(* the connection lock, so each is one atomic step of its caller; the      *)
(* operators below are the effects of those operations.  The database      *)
(* survives crashes.                                                       *)
(***************************************************************************)
EXTENDS Integers, FiniteSets, FiniteSetsExt

CONSTANTS
  Intents,       \* intents of the feed
  AmountUsd,     \* notional of each intent
  BudgetUsd      \* WALLET_BUDGET_USD

ASSUME AmountsAreNat == AmountUsd \in [Intents -> Nat]
ASSUME BudgetIsNat == BudgetUsd \in Nat

VARIABLES
  wstate,        \* state column of intents, "ABSENT" when there is no row
  reserved,      \* intents with a row in reservations
  revenue        \* intents with a row in revenue

walletVars == <<wstate, reserved, revenue>>

IsTerminal == {"SKIP_UNPROFITABLE", "PROOF_MISSING", "CALLDATA_ERROR",
               "CLAIMED", "REVERTED"}

IntentState == IsTerminal \cup
  {"INTENT_DETECTED", "PROFITABILITY_CHECK", "PROOF_FETCH", "CALLDATA_BUILD",
   "BROADCAST", "PENDING_CONFIRMATION", "CONFIRMED", "CLAIM_PENDING"}

InitWallet ==
  /\ wstate = [i \in Intents |-> "ABSENT"]
  /\ reserved = {}
  /\ revenue = {}

-----------------------------------------------------------------------------
\* Refused for an intent that is unknown or in a terminal state.
Movable(i) == wstate[i] \notin IsTerminal \cup {"ABSENT"}

StateAfter(i, s) == IF Movable(i) THEN [wstate EXCEPT ![i] = s] ELSE wstate

\* transition(): entering a terminal state drops the reservation.  Callers
\* ignore a refusal (LambdaController::transition logs it).
Transition(i, s) ==
  /\ wstate' = StateAfter(i, s)
  /\ reserved' = IF Movable(i) /\ s \in IsTerminal THEN reserved \ {i}
                                                   ELSE reserved
  /\ UNCHANGED revenue

\* Mutant: only an intent in a terminal state is released.
ReleasedMutant(i) == IF wstate[i] \in IsTerminal THEN reserved \ {i} ELSE reserved

\* What release() leaves: no reservation of i, whatever i's state.
Released(i) == reserved \ {i}

\* transition() followed by release(), as every exit of a fill does.
TransitionAndRelease(i, s) ==
  /\ wstate' = StateAfter(i, s)
  /\ reserved' = IF Movable(i) /\ s \in IsTerminal THEN reserved \ {i}
                                                   ELSE Released(i)
  /\ UNCHANGED revenue

ReservedUsd(S) == MapThenSumSet(LAMBDA i : AmountUsd[i], S)

\* Mutant: the requested amount is left out of the comparison.
CanReserveMutant(i) ==
  \/ i \in reserved
  \/ ReservedUsd(reserved) <= BudgetUsd

\* reserve(): a second reservation of the same intent is a no-op; a new one
\* must fit in the budget.
CanReserve(i) ==
  \/ i \in reserved
  \/ ReservedUsd(reserved) + AmountUsd[i] <= BudgetUsd

\* record_detected() and reserve(), then transition() to the next state.
DetectReserveAndMove(i, s) ==
  /\ wstate' = IF wstate[i] = "ABSENT" THEN [wstate EXCEPT ![i] = s]
                                       ELSE StateAfter(i, s)
  /\ reserved' = reserved \cup {i}
  /\ UNCHANGED revenue

\* record_detected(), a refused reserve(), then transition() to skip.
DetectAndSkip(i) ==
  /\ wstate' = IF wstate[i] = "ABSENT"
               THEN [wstate EXCEPT ![i] = "SKIP_UNPROFITABLE"]
               ELSE StateAfter(i, "SKIP_UNPROFITABLE")
  /\ UNCHANGED <<reserved, revenue>>

\* record_revenue() followed by transition(), as a claim with known amounts.
RecordRevenueAndMove(i, s) ==
  /\ revenue' = revenue \cup {i}
  /\ reserved' = reserved \ {i}
  /\ wstate' = StateAfter(i, s)

\* Reservations release_stale_reservations() may drop; which of them are old
\* enough is the clock's choice.
StaleCandidates ==
  {i \in reserved : wstate[i] \notin {"ABSENT", "CLAIM_PENDING", "CLAIMED"}}

ReleaseStale ==
  /\ \E S \in SUBSET StaleCandidates : reserved' = reserved \ S
  /\ UNCHANGED <<wstate, revenue>>
=============================================================================
