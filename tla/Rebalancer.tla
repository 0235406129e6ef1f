----------------------------- MODULE Rebalancer -----------------------------
(***************************************************************************)
(* The portfolio sidecar: one cycle (tick) scans every chain's balances,   *)
(* classifies the chains and walks through the rebalancer's phases, each   *)
(* of which may send one transaction per target.  The background loop and  *)
(* the manual trigger of the HTTP API contend for the tick lock; fills,    *)
(* gas costs, bridge arrivals and lost RPC reads happen meanwhile.         *)
(* Amounts are whole dollars; gas is an ordinal level.                     *)
(***************************************************************************)
EXTENDS Integers, Sequences, FiniteSets, Bags

CONSTANTS
  Targets,        \* sequence of the chains, in the order of default_targets
  FillChains,     \* chains the solver fills on; the others are src-only
  Home,           \* HOME_CHAIN_ID
  Triggers,       \* in-flight POST /api/solver/rebalance requests
  MinStable, TargetStable, HighWater,      \* per chain, in dollars
  GasToSend,      \* the gas level that pays for one transaction
  EnoughGas,      \* min_gas_eth, MIN_BASE_ETH_FOR_OPS and SRC_MIN_GAS_ETH
  NativeSurplus,  \* MIN_NATIVE_SWEEP_ETH + KEEP_NATIVE_FOR_GAS
  GasTopupUsd, MinBridgeUsd, BootstrapUsd, UsdtSwapUsd, SolanaBridgeUsd,
  MinWalletUsd, NativeUsd,
  Approvable,     \* <<chain, token>> pairs on TxGuard's token list
  DirectChains,   \* sequence of the non-home chains with a direct Solana path
  Cooldown,       \* MAYAN_BRIDGE_COOLDOWN_SECS, in clock steps
  Losses,         \* sets of balances one scan of a chain may fail to read
  Wallets,        \* the balances a run starts from
  MaxCycles,      \* bound on the cycles of a run; 0: unbounded and uncounted
  MaxShocks       \* bound on fills and gas costs outside the sidecar

Chains == {Targets[i] : i \in 1..Len(Targets)}
Solana == "solana"
SrcOnly == Chains \ FillChains
Callers == {"loop"} \cup Triggers

Balances == [prim : Nat, sec : Nat, gas : Nat, weth : Nat]

ASSUME TargetAssumption ==
  /\ Targets \in Seq(Chains)
  /\ FillChains \subseteq Chains /\ Home \in FillChains
  /\ "nobody" \notin Triggers
\* As in the table of default_targets, which the environment can override
\* without a check: what a sweep leaves behind is the target.
ASSUME LimitAssumption ==
  /\ {MinStable, TargetStable, HighWater} \subseteq [Chains -> Nat]
  /\ \A c \in FillChains : MinStable[c] <= TargetStable[c]
ASSUME AmountAssumption ==
  /\ {GasToSend, EnoughGas, GasTopupUsd, MinBridgeUsd, BootstrapUsd, UsdtSwapUsd,
      SolanaBridgeUsd, NativeUsd} \subseteq Nat
  /\ {Cooldown, MaxShocks} \subseteq Nat
ASSUME WalletAssumption == Wallets \subseteq [Chains -> Balances]

VARIABLES
  funds,      \* balances on each chain: two stable tokens, gas level, WETH
  sol,        \* is the Solana wallet above the bootstrap threshold?
  transit,    \* bag of bridge transfers sent and not yet delivered
  holder,     \* the caller that holds tick_lock, or "nobody"
  cycle,      \* cycles begun
  tick,       \* per caller, the progress of its cycle
  cooldown,   \* clock steps until LAST_MAYAN_BRIDGE_SECS is old enough
  shocks

vars == <<funds, sol, transit, holder, cycle, tick, cooldown, shocks>>

-----------------------------------------------------------------------------
(* Inventory *)

Lesser(a, b) == IF a <= b THEN a ELSE b
Stable(s) == s.prim + s.sec
Reserve(c) == IF c \in FillChains THEN MinStable[c] ELSE 0

BridgeToken(s) == IF s.sec > s.prim THEN "sec" ELSE "prim"
BridgeUsd(s) == s[BridgeToken(s)]

Classify(c, s) ==
  LET gasOk == s.gas >= EnoughGas
      stableOk == Stable(s) >= MinStable[c]
  IN CASE c \notin FillChains -> "src_only"
       [] c \in FillChains /\ gasOk /\ Stable(s) >= HighWater[c] -> "surplus"
       [] c \in FillChains /\ gasOk /\ stableOk /\ Stable(s) < HighWater[c] -> "healthy"
       [] c \in FillChains /\ gasOk /\ ~stableOk /\ Stable(s) < HighWater[c] -> "low_funds"
       [] c \in FillChains /\ ~gasOk /\ stableOk -> "low_gas"
       [] c \in FillChains /\ ~gasOk /\ ~stableOk -> "critical"

Position(c) == CHOOSE i \in 1..Len(Targets) : Targets[i] = c

(* max_by: of several maxima, the last one in the order of the targets *)
LastBest(S, value) ==
  LET best == {c \in S : \A d \in S : value[d] <= value[c]}
  IN CHOOSE c \in best : \A d \in best : Position(d) <= Position(c)

Spare(working, c) == working[c] - Reserve(c)

Sources(working, exclude, needed) ==
  {c \in Chains \ {exclude} : Spare(working, c) >= needed}

BestSource(working, exclude, needed) ==
  LET spare == [c \in Chains |-> Spare(working, c)]
  IN LastBest(Sources(working, exclude, needed), spare)

-----------------------------------------------------------------------------
(* The phases of one cycle, in order *)

Steps(phase) == [i \in 1..Len(Targets) |-> [phase |-> phase, chain |-> Targets[i]]]
Plan == <<[phase |-> "unwrap", chain |-> Home]>>
        \o Steps("bootstrap") \o Steps("gas") \o Steps("fill") \o Steps("sweep")
        \o [i \in 1..(2 * Len(Targets)) |->
              [phase |-> IF i % 2 = 1 THEN "recover" ELSE "native",
               chain |-> Targets[(i + 1) \div 2]]]
        \o <<[phase |-> "solana", chain |-> Home]>>

Unread == [prim |-> 0, sec |-> 0, gas |-> 0, weth |-> 0]
Idle == [stage |-> "idle", toScan |-> {}, snap |-> [c \in Chains |-> Unread], at |-> 0,
         working |-> [c \in Chains |-> 0], sent |-> [c \in Chains |-> 0]]

Init ==
  /\ funds \in Wallets
  /\ sol = FALSE
  /\ transit = EmptyBag
  /\ holder = "nobody"
  /\ cycle = 0
  /\ tick = [p \in Callers |-> Idle]
  /\ cooldown = 0
  /\ shocks = 0

-----------------------------------------------------------------------------
(* The loop, the trigger and the tick lock *)

SetStage(p, s) == tick' = [tick EXCEPT ![p].stage = s]

\* Mutant: the guard of try_lock_tick is still alive when tick() is called.
ProbeMutant(p) ==
  /\ p \in Triggers
  /\ tick[p].stage = "idle"
  /\ holder = "nobody"
  /\ SetStage(p, "waiting")
  /\ holder' = p

(* The trigger probes the lock and gives its guard back before it ticks. *)
Probe(p) ==
  /\ p \in Triggers
  /\ tick[p].stage = "idle"
  /\ holder = "nobody"
  /\ SetStage(p, "waiting")
  /\ UNCHANGED holder

Trigger(p) == Probe(p) /\ UNCHANGED <<funds, sol, transit, cycle, cooldown, shocks>>

(* run_loop has slept its interval: tick() asks for the lock. *)
WakeLoop ==
  /\ tick["loop"].stage = "idle"
  /\ SetStage("loop", "waiting")
  /\ UNCHANGED <<funds, sol, transit, holder, cycle, cooldown, shocks>>

\* Mutant: the tick does not wait for the lock.
LockIsFreeMutant(p) == TRUE

LockIsFree(p) == holder = "nobody"

BeginTick(p) ==
  /\ tick[p].stage = "waiting"
  /\ LockIsFree(p)
  /\ MaxCycles = 0 \/ cycle < MaxCycles
  /\ holder' = p
  /\ cycle' = IF MaxCycles = 0 THEN 0 ELSE cycle + 1
  /\ tick' = [tick EXCEPT ![p] = [Idle EXCEPT !.stage = "scanning", !.toScan = Chains]]
  /\ UNCHANGED <<funds, sol, transit, cooldown, shocks>>

(* The cycle's results are published and the lock is released. *)
EndTick(p) ==
  /\ tick[p].stage = "acting"
  /\ tick[p].at > Len(Plan)
  /\ tick' = [tick EXCEPT ![p] = Idle]
  /\ holder' = "nobody"
  /\ UNCHANGED <<funds, sol, transit, cycle, cooldown, shocks>>

-----------------------------------------------------------------------------
(* What is due, given what the cycle read and has committed so far         *)

Lacks(t, c) == Classify(c, t.snap[c])
BaseLow(snap) == snap[Home].gas < EnoughGas

WethChains(snap) == {c \in Chains \ {Home} : snap[c].weth > 0}

\* Mutant: the donor need not have the dollar it gives.
DonorsMutant(t, dst) == {c \in Chains \ {dst} : t.snap[c].gas >= GasToSend}

Donors(t, dst) ==
  {c \in Chains \ {dst} : t.snap[c].gas >= GasToSend /\ t.working[c] >= BootstrapUsd}

Shortfall(t, c) == TargetStable[c] - Stable(t.snap[c])

\* Mutant: the amount is not capped at what the one bridgeable token holds.
FillUsdMutant(t, dst) ==
  LET src == BestSource(t.working, dst, MinBridgeUsd)
  IN Lesser(Shortfall(t, dst), Spare(t.working, src))

FillUsd(t, dst) ==
  LET src == BestSource(t.working, dst, MinBridgeUsd)
  IN Lesser(Shortfall(t, dst), Lesser(Spare(t.working, src), BridgeUsd(t.snap[src])))

SweepUsd(t, c) ==
  LET keep == IF c \in FillChains THEN TargetStable[c] ELSE HighWater[c]
  IN Lesser(t.working[c] - keep, BridgeUsd(t.snap[c]))

AnyCritical(snap) == \E c \in FillChains : Classify(c, snap[c]) = "critical"

Due(t, step) ==
  LET c == step.chain
      mine == t.snap[c]
  IN CASE step.phase = "unwrap" ->
            \/ BaseLow(t.snap) /\ (mine.weth > 0 \/ mine.sec >= UsdtSwapUsd)
            \/ WethChains(t.snap) # {}
       [] step.phase = "bootstrap" ->
            /\ c \in SrcOnly
            /\ BridgeUsd(mine) >= MinBridgeUsd
            /\ mine.gas < EnoughGas
            /\ Donors(t, c) # {}
       [] step.phase = "gas" ->
            /\ Lacks(t, c) \in {"low_gas", "critical"}
            /\ Sources(t.working, c, GasTopupUsd) # {}
       [] step.phase = "fill" ->
            /\ Lacks(t, c) \in {"low_funds", "critical"}
            /\ Shortfall(t, c) >= MinBridgeUsd
            /\ Sources(t.working, c, MinBridgeUsd) # {}
            /\ FillUsd(t, c) >= MinBridgeUsd
       [] step.phase = "sweep" ->
            /\ ~AnyCritical(t.snap)
            /\ c # Home
            /\ Lacks(t, c) = "surplus"
            /\ SweepUsd(t, c) >= MinBridgeUsd
       [] step.phase = "recover" ->
            c \in SrcOnly /\ mine.gas >= GasToSend /\ SweepUsd(t, c) >= MinBridgeUsd
       [] step.phase = "native" -> c \in SrcOnly /\ mine.gas >= NativeSurplus
       [] step.phase = "solana" -> TRUE

(* The steps that are not due do nothing: the cycle moves past them. *)
NextDue(t) ==
  CHOOSE j \in (t.at + 1)..Len(Plan) :
    Due(t, Plan[j]) /\ \A i \in (t.at + 1)..(j - 1) : ~Due(t, Plan[i])

Advance(p, t) == tick' = [tick EXCEPT ![p] = [t EXCEPT !.at = NextDue(t)]]

(* scan_chain: every balance that could not be read counts as zero. *)
ScanChain(p, c) ==
  /\ tick[p].stage = "scanning"
  /\ c \in tick[p].toScan
  /\ \E lost \in Losses :
       LET read == [k \in {"prim", "sec", "gas", "weth"} |->
                      IF k \in lost THEN 0 ELSE funds[c][k]]
           seen == [tick[p] EXCEPT !.toScan = @ \ {c}, !.snap[c] = read,
                                   !.working[c] = Stable(read)]
       IN \/ seen.toScan # {} /\ tick' = [tick EXCEPT ![p] = seen]
          \/ seen.toScan = {} /\ Advance(p, [seen EXCEPT !.stage = "acting"])
  /\ UNCHANGED <<funds, sol, transit, holder, cycle, cooldown, shocks>>

-----------------------------------------------------------------------------
(* One step of the plan.  A decision reads the snapshot and the working    *)
(* balances only; the transaction it sends meets the balances of now.      *)

At(p, phase) ==
  tick[p].stage = "acting" /\ tick[p].at <= Len(Plan) /\ Plan[tick[p].at].phase = phase
Here(p) == Plan[tick[p].at].chain

(* TxGuard lets approve() through for the tokens on its list only. *)
Approved(c, token) == <<c, token>> \in Approvable

Covered(c, token, usd) ==
  /\ Approved(c, token)
  /\ funds[c].gas >= GasToSend
  /\ funds[c][token] >= usd

(* The transaction lands, or quote, approval, guard, RPC or chain stop it. *)
Send(src, dst, kind, token, usd) ==
  \/ /\ Covered(src, token, usd)
     /\ funds' = [funds EXCEPT ![src][token] = @ - usd]
     /\ transit' = transit (+) SetToBag({[dst |-> dst, kind |-> kind, usd |-> usd]})
  \/ UNCHANGED <<funds, transit>>

SendBridgeToken(p, src, dst, kind, usd) ==
  Send(src, dst, kind, BridgeToken(tick[p].snap[src]), usd)

\* Mutant: what this cycle already committed is not deducted.
DeductMutant(working, src, usd) == working

(* The cycle writes the amount off whether or not the transaction landed. *)
Deduct(working, src, usd) == [working EXCEPT ![src] = @ - usd]

Commit(p, src, usd, credit) ==
  LET left == Deduct(tick[p].working, src, usd)
  IN Advance(p, [tick[p] EXCEPT
       !.working = [left EXCEPT ![Home] = @ + credit], !.sent[src] = @ + usd])

(* Phases -1 and -2: turn WETH, or USDT on the home chain, into gas. *)
ToGas(c, k, left) == funds' = [funds EXCEPT ![c][k] = left, ![c].gas = EnoughGas]

Unwrap(p) ==
  LET snap == tick[p].snap
      weth == [c \in Chains |-> snap[c].weth]
  IN /\ At(p, "unwrap")
     /\ Advance(p, tick[p])
     /\ \/ UNCHANGED funds
        \/ BaseLow(snap) /\ snap[Home].weth > 0 /\ ToGas(Home, "weth", 0)
        \/ /\ BaseLow(snap) /\ snap[Home].weth = 0 /\ snap[Home].sec >= UsdtSwapUsd
           /\ Covered(Home, "sec", UsdtSwapUsd)
           /\ ToGas(Home, "sec", funds[Home].sec - UsdtSwapUsd)
        \/ /\ ~(BaseLow(snap) /\ (snap[Home].weth > 0 \/ snap[Home].sec >= UsdtSwapUsd))
           /\ ToGas(LastBest(WethChains(snap), weth), "weth", 0)
     /\ UNCHANGED <<sol, transit, holder, cycle, cooldown, shocks>>

(* Phase 0: a src-only chain holds stables it has no gas to move. *)
Bootstrap(p) ==
  LET t == tick[p]
      gas == [c \in Chains |-> t.snap[c].gas]
      src == LastBest(Donors(t, Here(p)), gas)
  IN /\ At(p, "bootstrap")
     /\ Advance(p, [t EXCEPT !.working = Deduct(@, src, BootstrapUsd)])
     /\ SendBridgeToken(p, src, Here(p), "gas", BootstrapUsd)
     /\ UNCHANGED <<sol, holder, cycle, cooldown, shocks>>

(* Phase 1: a fill chain without gas gets GAS_TOPUP_USD worth of it. *)
GasTopup(p) ==
  LET src == BestSource(tick[p].working, Here(p), GasTopupUsd)
  IN /\ At(p, "gas")
     /\ Commit(p, src, GasTopupUsd, 0)
     /\ SendBridgeToken(p, src, Here(p), "gas", GasTopupUsd)
     /\ UNCHANGED <<sol, holder, cycle, cooldown, shocks>>

(* Phase 2: a fill chain short of stables is filled up towards its target. *)
StableFill(p) ==
  LET src == BestSource(tick[p].working, Here(p), MinBridgeUsd)
      usd == FillUsd(tick[p], Here(p))
  IN /\ At(p, "fill")
     /\ Commit(p, src, usd, 0)
     /\ SendBridgeToken(p, src, Here(p), "stable", usd)
     /\ UNCHANGED <<sol, holder, cycle, cooldown, shocks>>

(* Phases 3a and 3b (a): surplus goes home, and counts there at once. *)
ClaimSweep(p) ==
  LET usd == SweepUsd(tick[p], Here(p))
  IN /\ At(p, "sweep") \/ At(p, "recover")
     /\ Commit(p, Here(p), usd, usd)
     /\ SendBridgeToken(p, Here(p), Home, "stable", usd)
     /\ UNCHANGED <<sol, holder, cycle, cooldown, shocks>>

(* Phase 3b (b): native tokens piled up on a src-only chain go home as USDC. *)
NativeSweep(p) ==
  LET src == Here(p)
  IN /\ At(p, "native")
     /\ Advance(p, tick[p])
     /\ \/ /\ funds[src].gas >= NativeSurplus
           /\ funds' = [funds EXCEPT ![src].gas = EnoughGas]
           /\ transit' = transit (+) SetToBag({[dst |-> Home, kind |-> "stable", usd |-> NativeUsd]})
        \/ UNCHANGED <<funds, transit>>
     /\ UNCHANGED <<sol, holder, cycle, cooldown, shocks>>

(* Phase 4: keep the Solana wallet funded, from the home chain once per      *)
(* cooldown, otherwise from stables stranded elsewhere or from spare ETH.    *)
ToSolana(src, token, usd) == Send(src, Solana, "sol", token, usd)

FromHome(p, boot) ==
  LET t == tick[p]
      atHome == t.snap[Home]
  IN /\ BridgeUsd(atHome) > MinWalletUsd
     /\ cooldown = 0
     /\ boot \/ t.working[Home] - Reserve(Home) >= SolanaBridgeUsd + MinBridgeUsd

Direct(snap) ==
  {i \in 1..Len(DirectChains) : /\ BridgeUsd(snap[DirectChains[i]]) >= SolanaBridgeUsd
                                /\ snap[DirectChains[i]].gas >= GasToSend}

EthSources(snap) ==
  SelectSeq(Append(DirectChains, Home), LAMBDA c : snap[c].gas >= EnoughGas)

\* The direct path always moves USDC, whichever token the balance was in.
SendDirect(snap) ==
  LET best == CHOOSE i \in Direct(snap) : \A j \in Direct(snap) :
                \/ BridgeUsd(snap[DirectChains[j]]) < BridgeUsd(snap[DirectChains[i]])
                \/ /\ BridgeUsd(snap[DirectChains[j]]) = BridgeUsd(snap[DirectChains[i]])
                   /\ j <= i
      src == DirectChains[best]
  IN ToSolana(src, "prim", BridgeUsd(snap[src]))

SendEth(c) ==
  \/ /\ funds[c].gas >= EnoughGas
     /\ funds' = [funds EXCEPT ![c].gas = GasToSend]
     /\ transit' = transit (+) SetToBag({[dst |-> Solana, kind |-> "sol", usd |-> 0]})
  \/ UNCHANGED <<funds, transit>>

BridgeSolana(p) ==
  /\ At(p, "solana")
  /\ tick' = [tick EXCEPT ![p].at = Len(Plan) + 1]
  /\ \E boot \in {FALSE, ~sol} :      \* an unreachable RPC is not an empty wallet
       LET snap == tick[p].snap
           stranded == boot /\ ~FromHome(p, boot) /\ BridgeUsd(snap[Home]) > MinWalletUsd
       IN \/ /\ FromHome(p, boot)
             /\ cooldown' = Cooldown
             /\ ToSolana(Home, BridgeToken(snap[Home]), SolanaBridgeUsd)
          \/ /\ stranded /\ Direct(snap) # {}
             /\ SendDirect(snap)
             /\ UNCHANGED cooldown
          \/ /\ stranded /\ Direct(snap) = {} /\ EthSources(snap) # <<>>
             /\ SendEth(Head(EthSources(snap)))
             /\ UNCHANGED cooldown
          \/ /\ ~FromHome(p, boot)
             /\ stranded => Direct(snap) = {} /\ EthSources(snap) = <<>>
             /\ UNCHANGED <<funds, transit, cooldown>>
  /\ UNCHANGED <<sol, holder, cycle, shocks>>

-----------------------------------------------------------------------------
(* The world outside: bridges deliver, fills spend, gas is used, time passes *)

Deliver ==
  \E x \in BagToSet(transit) :
    /\ transit' = transit (-) SetToBag({x})
    /\ \/ /\ x.kind = "stable"
          /\ funds' = [funds EXCEPT ![x.dst].prim = @ + x.usd]
          /\ UNCHANGED sol
       \/ /\ x.kind = "gas"
          /\ funds' = [funds EXCEPT ![x.dst].gas = IF @ > EnoughGas THEN @ ELSE EnoughGas]
          /\ UNCHANGED sol
       \/ x.kind = "sol" /\ sol' = TRUE /\ UNCHANGED funds
    /\ UNCHANGED <<holder, cycle, tick, cooldown, shocks>>

Shock ==
  /\ shocks < MaxShocks
  /\ shocks' = shocks + 1
  /\ \E c \in FillChains :
       \/ funds[c].prim > 0 /\ funds' = [funds EXCEPT ![c].prim = @ - 1]
       \/ funds[c].gas > GasToSend /\ funds' = [funds EXCEPT ![c].gas = GasToSend]
  /\ UNCHANGED <<sol, transit, holder, cycle, tick, cooldown>>

Clock ==
  /\ cooldown > 0
  /\ cooldown' = cooldown - 1
  /\ UNCHANGED <<funds, sol, transit, holder, cycle, tick, shocks>>

Step(p) ==
  \/ Unwrap(p) \/ Bootstrap(p) \/ GasTopup(p) \/ StableFill(p)
  \/ ClaimSweep(p) \/ NativeSweep(p) \/ BridgeSolana(p)

InCycle(p) ==
  \/ \E c \in Chains : ScanChain(p, c)
  \/ Step(p)
  \/ EndTick(p)

Next ==
  \/ WakeLoop
  \/ \E p \in Triggers : Trigger(p)
  \/ \E p \in Callers : BeginTick(p) \/ InCycle(p)
  \/ Deliver
  \/ Shock
  \/ Clock

Spec == Init /\ [][Next]_vars

-----------------------------------------------------------------------------
(* Fairness.  The tick lock is a tokio Mutex: waiters are served in turn.  *)
(* A cycle that runs goes on, a bridge delivers, and a transfer that is    *)
(* tried again and again lands at last.                                    *)

Lands(p, c) ==
  /\ tick[p].stage = "acting" /\ tick[p].at <= Len(Plan)
  /\ Here(p) = c
  /\ GasTopup(p) \/ StableFill(p) \/ Bootstrap(p)
  /\ funds' # funds

Fairness ==
  /\ WF_vars(WakeLoop)
  /\ \A p \in Callers : SF_vars(BeginTick(p))
  /\ WF_vars(\E p \in Callers : InCycle(p))
  /\ \A c \in Chains : SF_vars(\E p \in Callers : Lands(p, c))
  /\ WF_vars(Deliver)
  /\ WF_vars(Clock)

LiveSpec == Spec /\ Fairness

-----------------------------------------------------------------------------
(* Properties *)

(* The types of the sidecar's state; no balance, and none of the balances a  *)
(* cycle works with, is driven below zero.                                  *)
TypeOK ==
  /\ \A c \in Chains : funds[c] \in Balances
  /\ sol \in BOOLEAN
  /\ holder \in Callers \cup {"nobody"}
  /\ \A p \in Callers :
       /\ tick[p].stage \in {"idle", "waiting", "scanning", "acting"}
       /\ tick[p].at \in 0..(Len(Plan) + 1)
       /\ tick[p].toScan \subseteq Chains
       /\ \A c \in Chains : tick[p].working[c] \in Nat
  /\ cooldown \in 0..Cooldown
  /\ shocks \in 0..MaxShocks

(* A manual trigger and the loop never scan and rebalance side by side:     *)
(* the tick lock covers the whole cycle, and only its holder is in one.     *)
NoParallelScans ==
  \A p \in Callers : tick[p].stage \in {"scanning", "acting"} => holder = p

(* However many chains one cycle serves, its gas top-ups, stable fills and  *)
(* sweeps never promise more of a chain than the scan found there, and of a *)
(* fill chain never its reserve.                                            *)
CommitmentsAreCovered ==
  \A p \in Callers, c \in Chains :
    tick[p].sent[c] > 0 => tick[p].sent[c] <= Stable(tick[p].snap[c]) - Reserve(c)

(* A trigger that found the lock free is answered: giving the guard back    *)
(* before tick() asks for it again does not leave the request waiting.      *)
TriggerIsAnswered ==
  \A p \in Triggers : tick[p].stage # "idle" ~> tick[p].stage = "idle"

CanPay(c, dst) ==
  LET now == [d \in Chains |-> Stable(funds[d])]
      src == BestSource(now, dst, MinBridgeUsd)
  IN /\ Sources(now, dst, MinBridgeUsd) # {}
     /\ src = c
     /\ funds[c].gas >= GasToSend
     /\ BridgeUsd(funds[c]) >= MinBridgeUsd
     /\ Approved(c, BridgeToken(funds[c]))

(* Once fills and gas costs stop, every fill chain is brought up to its     *)
(* minimum, unless the chain with the most to spare cannot pay.             *)
EventuallyServed ==
  <>[](\A c \in FillChains : Stable(funds[c]) >= MinStable[c] \/ ~\E d \in Chains : CanPay(d, c))
=============================================================================
