------------------------------ MODULE ClaimSweep ------------------------------
(***************************************************************************)
(* taifoon-cli claim: every half hour the wallet's tokens are read on all  *)
(* chains, and what lies on a foreign chain is bridged home.  A chain      *)
(* whose gas is short first gets some for three dollars of Arbitrum's      *)
(* USDT.  The amounts bridged are those of the scan; in the meantime the   *)
(* solver goes on filling with the same wallet.                            *)
(*                                                                         *)
(* RPC nodes, Across and the chains are external.  A read that fails       *)
(* counts as zero.                                                         *)
(***************************************************************************)
EXTENDS Naturals, Sequences

CONSTANTS
  Route,            \* the holdings in the order of the scan: [chain, bridge]
  FundingToken,     \* the index of Arbitrum's USDT in Route
  Topup,            \* what a top-up costs
  MinBridge,        \* the least amount worth bridging
  Balances,         \* balances at the start
  Homes,            \* chains --consolidate-to may name
  MaxSweepFaults,   \* bound: failed calls and lost receipts
  MaxSpends         \* bound: fills of the solver

Holdings == DOMAIN Route

ASSUME SweepAssumption ==
  /\ Len(Route) \in Nat \ {0} /\ Holdings = 1..Len(Route) /\ FundingToken \in Holdings
  /\ Topup \in Nat /\ MinBridge \in Nat
  /\ \A b \in Balances : b \in [Holdings -> Nat]

ChainOf(h) == Route[h].chain
SweptChains == {ChainOf(h) : h \in Holdings}

VARIABLES
  home,             \* consolidate_to_chain
  bal,              \* holding -> amount on chain
  gas,              \* chains whose native balance is above the minimum
  snap,             \* holding -> amount the scan read
  needs,            \* chains the scan found short of gas
  at,               \* the holding at hand; 0 between two cycles
  step,             \* what comes next for it
  toppedUp,         \* gas_topped_up
  gasComing,        \* chains a top-up is on its way to
  pending,          \* deposits whose receipt was lost: [h, amount]
  sweepFaults, spends

sweepVars == <<home, bal, gas, snap, needs, at, step, toppedUp, gasComing, pending, sweepFaults,
               spends>>

Bridged == {h \in Holdings : Route[h].bridge # "manual" /\ ChainOf(h) # home}

SweepTypeOK ==
  /\ home \in Homes
  /\ bal \in [Holdings -> Nat] /\ snap \in [Holdings -> Nat]
  /\ gas \cup needs \cup toppedUp \cup gasComing \subseteq SweptChains
  /\ at \in Holdings \cup {0} /\ step \in {"look", "landed", "bridge"}
  /\ \A d \in pending : d.h \in Bridged /\ d.amount >= MinBridge

SweepInit ==
  /\ home \in Homes
  /\ bal \in Balances /\ gas \in SUBSET SweptChains
  /\ snap = [h \in Holdings |-> 0] /\ needs = {} /\ at = 0 /\ step = "look"
  /\ toppedUp = {} /\ gasComing = {} /\ pending = {} /\ sweepFaults = 0 /\ spends = 0

SweepFault == sweepFaults < MaxSweepFaults /\ sweepFaults' = sweepFaults + 1

-----------------------------------------------------------------------------
NeedsGas(c, read) == c \notin read /\ \E h \in Bridged : ChainOf(h) = c

(* run, run_once: the scan. *)
\* Mutant: the set of chains already served is kept from cycle to cycle.
ScanMutant ==
  /\ at = 0
  /\ snap' = bal /\ needs' = {c \in SweptChains : NeedsGas(c, gas)}
  /\ at' = 1 /\ step' = "look"
  /\ UNCHANGED <<home, bal, gas, toppedUp, gasComing, pending, sweepFaults, spends>>

Scan ==
  /\ at = 0
  /\ snap' = bal /\ needs' = {c \in SweptChains : NeedsGas(c, gas)}
  /\ at' = 1 /\ step' = "look" /\ toppedUp' = {}
  /\ UNCHANGED <<home, bal, gas, gasComing, pending, sweepFaults, spends>>

(* One chain's node is out: its balances and its gas read as zero.         *)
ScanPartly(c) ==
  /\ at = 0 /\ SweepFault
  /\ snap' = [h \in Holdings |-> IF ChainOf(h) = c THEN 0 ELSE bal[h]]
  /\ needs' = {d \in SweptChains : NeedsGas(d, gas \ {c})}
  /\ at' = 1 /\ step' = "look" /\ toppedUp' = {}
  /\ UNCHANGED <<home, bal, gas, gasComing, pending, spends>>

Advance == at' = (IF at = Len(Route) THEN 0 ELSE at + 1) /\ step' = "look"

Candidate(h) == h \in Bridged /\ snap[h] >= MinBridge
AsksForGas(h) ==
  /\ Route[h].bridge = "across"
  /\ ChainOf(h) \in needs \ toppedUp

(* Home, manual or dust; the funding chain has no one to ask for gas.      *)
PassOver ==
  /\ at # 0 /\ step = "look"
  /\ ~Candidate(at) \/ (AsksForGas(at) /\ ChainOf(at) = ChainOf(FundingToken))
  /\ Advance
  /\ UNCHANGED <<home, bal, gas, snap, needs, toppedUp, gasComing, pending,
                 sweepFaults, spends>>

GoOn ==
  /\ at # 0 /\ step = "look" /\ Candidate(at) /\ ~AsksForGas(at)
  /\ step' = "bridge"
  /\ UNCHANGED <<home, bal, gas, snap, needs, at, toppedUp, gasComing, pending,
                 sweepFaults, spends>>

(* topup_gas: the chain counts as served before the attempt is made.       *)
Tries(h) ==
  /\ h # 0 /\ step = "look" /\ Candidate(h) /\ AsksForGas(h)
  /\ ChainOf(h) # ChainOf(FundingToken)
  /\ toppedUp' = toppedUp \cup {ChainOf(h)}

Pays == bal' = [bal EXCEPT ![FundingToken] = @ - Topup]
Affordable == bal[FundingToken] >= Topup /\ ChainOf(FundingToken) \in gas

TopUpSent ==
  /\ Tries(at) /\ Affordable /\ Pays
  /\ gasComing' = gasComing \cup {ChainOf(at)} /\ step' = "landed"
  /\ UNCHANGED <<home, gas, snap, needs, at, pending, sweepFaults, spends>>

(* Too little USDT, or none that could be read; Arbitrum without gas; a    *)
(* quote, an approval or a sending that fails.                             *)
TopUpFails ==
  /\ Tries(at) /\ Advance
  /\ (~Affordable /\ UNCHANGED sweepFaults) \/ SweepFault
  /\ UNCHANGED <<home, bal, gas, snap, needs, gasComing, pending, spends>>

(* It was sent, the receipt never came.                                    *)
TopUpUnheard ==
  /\ Tries(at) /\ Affordable /\ Pays /\ SweepFault /\ Advance
  /\ gasComing' = gasComing \cup {ChainOf(at)}
  /\ UNCHANGED <<home, gas, snap, needs, pending, spends>>

(* Two minutes later the gas is there, or the holding waits for the next   *)
(* cycle; another holding of the chain goes on all the same.               *)
TopUpLanded ==
  /\ at # 0 /\ step = "landed" /\ ChainOf(at) \in gas
  /\ step' = "bridge"
  /\ UNCHANGED <<home, bal, gas, snap, needs, at, toppedUp, gasComing, pending,
                 sweepFaults, spends>>

TopUpDeferred ==
  /\ at # 0 /\ step = "landed"
  /\ (ChainOf(at) \notin gas /\ UNCHANGED sweepFaults) \/ SweepFault
  /\ Advance
  /\ UNCHANGED <<home, bal, gas, snap, needs, toppedUp, gasComing, pending, spends>>

-----------------------------------------------------------------------------
(* ensure_allowance, bridge_token_across, zksync_withdraw: a deposit of    *)
(* the amount of the scan.                                                 *)
Covered == snap[at] <= bal[at] /\ (ChainOf(at) \in gas \/ Route[at].bridge = "zksync")

Deposited ==
  /\ at # 0 /\ step = "bridge" /\ Covered
  /\ bal' = [bal EXCEPT ![at] = @ - snap[at]]
  /\ gas' \in {gas, IF Route[at].bridge = "zksync" THEN gas ELSE gas \ {ChainOf(at)}}
  /\ Advance
  /\ UNCHANGED <<home, snap, needs, toppedUp, gasComing, pending, sweepFaults, spends>>

DepositFails ==
  /\ at # 0 /\ step = "bridge" /\ Advance
  /\ (~Covered /\ UNCHANGED sweepFaults) \/ SweepFault
  /\ UNCHANGED <<home, bal, gas, snap, needs, toppedUp, gasComing, pending, spends>>

DepositUnheard ==
  /\ at # 0 /\ step = "bridge" /\ Covered /\ SweepFault /\ Advance
  /\ pending' = pending \cup {[h |-> at, amount |-> snap[at]]}
  /\ UNCHANGED <<home, bal, gas, snap, needs, toppedUp, gasComing, spends>>

(* What was sent takes effect later, or reverts. *)
PendingSettles ==
  \E d \in pending :
    /\ pending' = pending \ {d}
    /\ bal' = IF d.amount <= bal[d.h] THEN [bal EXCEPT ![d.h] = @ - d.amount] ELSE bal
    /\ UNCHANGED <<home, gas, snap, needs, at, step, toppedUp, gasComing, sweepFaults, spends>>

GasLands ==
  \E c \in gasComing :
    /\ gas' = gas \cup {c} /\ gasComing' = gasComing \ {c}
    /\ UNCHANGED <<home, bal, snap, needs, at, step, toppedUp, pending, sweepFaults, spends>>

(* The solver pays for a fill, gas included. *)
SolverSpends(h) ==
  /\ spends < MaxSpends /\ spends' = spends + 1
  /\ bal[h] > 0 /\ bal' = [bal EXCEPT ![h] = @ - 1]
  /\ gas' \in {gas, gas \ {ChainOf(h)}}
  /\ UNCHANGED <<home, snap, needs, at, step, toppedUp, gasComing, pending, sweepFaults>>

SweepStep ==
  \/ Scan \/ PassOver \/ GoOn
  \/ TopUpSent \/ TopUpFails \/ TopUpLanded \/ TopUpDeferred
  \/ Deposited \/ DepositFails

SweepNext ==
  \/ SweepStep \/ TopUpUnheard \/ DepositUnheard
  \/ \E c \in SweptChains : ScanPartly(c)
  \/ PendingSettles \/ GasLands
  \/ \E h \in Holdings : SolverSpends(h)

-----------------------------------------------------------------------------
(* The funding chain pays for gas, and its own balance is consolidated     *)
(* with the others.                                                        *)
Broke == bal[FundingToken] < Topup \/ ChainOf(FundingToken) \notin gas

(* A balance on a foreign chain gets home, however often a call fails or a *)
(* deposit was cut short by a fill, unless there is nothing left to buy    *)
(* gas with: a chain that was refused a top-up or whose gas came too late  *)
(* is served in a later cycle (run_once).                                  *)
StrandedComesHome ==
  \A h \in Holdings : h \in Bridged /\ bal[h] >= MinBridge ~> (bal[h] < MinBridge \/ Broke)

=============================================================================
