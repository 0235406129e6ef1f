---------------------------- MODULE RebalancerProofs ----------------------------
(***************************************************************************)
(* For every set of chains, triggers, limits and amounts.  Whoever is in a *)
(* cycle holds the tick lock, so cycles do not overlap.  No balance is     *)
(* driven below zero, and what a cycle commits stays within what it        *)
(* scanned: that one needs to know which step of the plan the cycle is at, *)
(* that the step was due, and that home pays for nothing once it has been  *)
(* credited with the sweeps.                                               *)
(***************************************************************************)
EXTENDS Rebalancer, SequenceTheorems, WellFoundedInduction, TLAPS

InCycleStages == {"scanning", "acting"}

LockInv ==
  /\ DOMAIN tick = Callers
  /\ \A p \in Callers : "stage" \in DOMAIN tick[p]
  /\ "nobody" \notin Callers
  /\ NoParallelScans

(* A caller takes a step of its own: it stays in a cycle only with the     *)
(* lock, and takes the lock only from nobody or from itself.               *)
LEMMA CallerSteps ==
  ASSUME LockInv, NEW p \in Callers, NEW t,
         tick' = [tick EXCEPT ![p] = t], "stage" \in DOMAIN t,
         t.stage \in InCycleStages => holder' = p,
         holder' = holder \/ holder \in {"nobody", p}
  PROVE  LockInv'
BY DEF LockInv, NoParallelScans, InCycleStages

(* A step of a cycle leaves its stage and the lock alone.                  *)
LEMMA WithinCycle ==
  ASSUME LockInv, NEW p \in Callers, NEW t, "stage" \in DOMAIN t,
         t.stage \in InCycleStages, tick[p].stage \in InCycleStages,
         Advance(p, t), holder' = holder
  PROVE  LockInv'
<1> DEFINE u == [t EXCEPT !.at = NextDue(t)]
<1>1. "stage" \in DOMAIN u /\ u.stage = t.stage
  OBVIOUS
<1>2. tick' = [tick EXCEPT ![p] = u]
  BY DEF Advance
<1>3. holder = p
  BY DEF LockInv, NoParallelScans, InCycleStages
<1> HIDE DEF u
<1> QED  BY <1>1, <1>2, <1>3, CallerSteps

LEMMA OthersKeepLock == ASSUME LockInv, UNCHANGED <<tick, holder>>  PROVE LockInv'
BY DEF LockInv, NoParallelScans

LEMMA StageKept ==
  ASSUME LockInv, NEW p \in Callers, NEW s, SetStage(p, s), s \notin InCycleStages,
         holder' = holder
  PROVE  LockInv'
<1> DEFINE t == [tick[p] EXCEPT !.stage = s]
<1>1. "stage" \in DOMAIN t /\ t.stage = s
  BY DEF LockInv
<1>2. tick' = [tick EXCEPT ![p] = t]
  BY DEF SetStage
<1> HIDE DEF t
<1> QED  BY <1>1, <1>2, CallerSteps

LEMMA BeginKeepsLock == ASSUME LockInv, NEW p \in Callers, BeginTick(p)  PROVE LockInv'
<1> DEFINE t == [Idle EXCEPT !.stage = "scanning", !.toScan = Chains]
<1>1. "stage" \in DOMAIN t /\ t.stage = "scanning"
  BY DEF Idle
<1>2. tick' = [tick EXCEPT ![p] = t] /\ holder' = p /\ holder = "nobody"
  BY DEF BeginTick, LockIsFree
<1> HIDE DEF t
<1> QED  BY <1>1, <1>2, CallerSteps

LEMMA EndKeepsLock == ASSUME LockInv, NEW p \in Callers, EndTick(p)  PROVE LockInv'
<1>1. "stage" \in DOMAIN Idle /\ Idle.stage = "idle"
  BY DEF Idle
<1>2. tick' = [tick EXCEPT ![p] = Idle] /\ holder' = "nobody" /\ tick[p].stage = "acting"
  BY DEF EndTick
<1>3. holder = p
  BY <1>2 DEF LockInv, NoParallelScans
<1> QED  BY <1>1, <1>2, <1>3, CallerSteps DEF InCycleStages

LEMMA ScanKeepsLock ==
  ASSUME LockInv, NEW p \in Callers, NEW c \in Chains, ScanChain(p, c)
  PROVE  LockInv'
<1>1. tick[p].stage = "scanning" /\ holder' = holder
  BY DEF ScanChain
<1>2. holder = p
  BY <1>1 DEF LockInv, NoParallelScans
<1>3. PICK lost \in Losses :
        LET read == [k \in {"prim", "sec", "gas", "weth"} |->
                       IF k \in lost THEN 0 ELSE funds[c][k]]
            seen == [tick[p] EXCEPT !.toScan = @ \ {c}, !.snap[c] = read,
                                    !.working[c] = Stable(read)]
        IN \/ tick' = [tick EXCEPT ![p] = seen]
           \/ Advance(p, [seen EXCEPT !.stage = "acting"])
  BY DEF ScanChain
<1> DEFINE read == [k \in {"prim", "sec", "gas", "weth"} |->
                      IF k \in lost THEN 0 ELSE funds[c][k]]
           seen == [tick[p] EXCEPT !.toScan = @ \ {c}, !.snap[c] = read,
                                   !.working[c] = Stable(read)]
           acting == [seen EXCEPT !.stage = "acting"]
<1>4. "stage" \in DOMAIN seen /\ seen.stage = "scanning"
  BY <1>1 DEF LockInv
<1>5. "stage" \in DOMAIN acting /\ acting.stage = "acting"
  BY <1>4
<1>6. tick' = [tick EXCEPT ![p] = seen] \/ Advance(p, acting)
  BY <1>3
<1> HIDE DEF seen, acting
<1>7. CASE tick' = [tick EXCEPT ![p] = seen]
  BY <1>1, <1>2, <1>4, <1>7, CallerSteps
<1>8. CASE Advance(p, acting)
  BY <1>1, <1>5, <1>8, WithinCycle DEF InCycleStages
<1> QED  BY <1>6, <1>7, <1>8

LEMMA StepKeepsLock == ASSUME LockInv, NEW p \in Callers, Step(p)  PROVE LockInv'
<1>0. tick[p].stage = "acting" /\ holder' = holder
  BY DEF Step, Unwrap, Bootstrap, GasTopup, StableFill, ClaimSweep, NativeSweep, BridgeSolana, At
<1>1. "stage" \in DOMAIN tick[p] /\ holder = p
  BY <1>0 DEF LockInv, NoParallelScans
<1>2. ASSUME Advance(p, tick[p])  PROVE LockInv'
  BY <1>0, <1>1, <1>2, WithinCycle DEF InCycleStages
<1>3. ASSUME NEW src, NEW usd, NEW credit, Commit(p, src, usd, credit)  PROVE LockInv'
  <2> DEFINE left == Deduct(tick[p].working, src, usd)
             t == [tick[p] EXCEPT !.working = [left EXCEPT ![Home] = @ + credit],
                                  !.sent[src] = @ + usd]
  <2>1. "stage" \in DOMAIN t /\ t.stage = "acting"
    BY <1>0, <1>1
  <2>2. Advance(p, t)
    BY <1>3 DEF Commit
  <2> HIDE DEF t
  <2> QED  BY <1>0, <2>1, <2>2, WithinCycle DEF InCycleStages
<1>4. CASE Unwrap(p) \/ NativeSweep(p)
  BY <1>2, <1>4 DEF Unwrap, NativeSweep
<1>5. CASE Bootstrap(p)
  <2> DEFINE gas == [c \in Chains |-> tick[p].snap[c].gas]
             t == [tick[p] EXCEPT !.working =
                     Deduct(@, LastBest(Donors(tick[p], Here(p)), gas), BootstrapUsd)]
  <2>1. Advance(p, t)
    BY <1>5 DEF Bootstrap
  <2>2. "stage" \in DOMAIN t /\ t.stage = "acting"
    BY <1>0, <1>1
  <2> HIDE DEF t
  <2> QED  BY <1>0, <2>1, <2>2, WithinCycle DEF InCycleStages
<1>6. CASE GasTopup(p) \/ StableFill(p) \/ ClaimSweep(p)
  BY <1>3, <1>6 DEF GasTopup, StableFill, ClaimSweep
<1>7. CASE BridgeSolana(p)
  <2> DEFINE t == [tick[p] EXCEPT !.at = Len(Plan) + 1]
  <2>1. tick' = [tick EXCEPT ![p] = t]
    BY <1>7 DEF BridgeSolana
  <2>2. "stage" \in DOMAIN t /\ t.stage = "acting"
    BY <1>0, <1>1
  <2> HIDE DEF t
  <2> QED  BY <1>0, <1>1, <2>1, <2>2, CallerSteps
<1> QED  BY <1>4, <1>5, <1>6, <1>7 DEF Step

LEMMA LockInvStep == LockInv /\ [Next]_vars => LockInv'
<1> SUFFICES ASSUME LockInv, [Next]_vars  PROVE LockInv'
  OBVIOUS
<1>1. CASE WakeLoop
  <2>1. SetStage("loop", "waiting") /\ holder' = holder /\ "loop" \in Callers
    BY <1>1 DEF WakeLoop, Callers
  <2> QED  BY <2>1, StageKept DEF InCycleStages
<1>2. CASE \E p \in Triggers : Trigger(p)
  BY <1>2, StageKept DEF Trigger, Probe, Callers, InCycleStages
<1>3. ASSUME NEW p \in Callers, BeginTick(p) \/ InCycle(p)  PROVE LockInv'
  BY <1>3, BeginKeepsLock, EndKeepsLock, ScanKeepsLock, StepKeepsLock DEF InCycle
<1>4. CASE Deliver \/ Shock \/ Clock
  BY <1>4, OthersKeepLock DEF Deliver, Shock, Clock
<1>5. CASE UNCHANGED vars
  BY <1>5, OthersKeepLock DEF vars
<1> QED  BY <1>1, <1>2, <1>3, <1>4, <1>5 DEF Next

(* The loop and the triggers never run two cycles side by side.            *)
THEOREM CyclesDoNotOverlap == Spec => []NoParallelScans
<1>1. Init => LockInv
  <2> SUFFICES ASSUME Init  PROVE LockInv
    OBVIOUS
  <2>1. "stage" \in DOMAIN Idle /\ Idle.stage = "idle"
    BY DEF Idle
  <2>2. "nobody" \notin Callers
    BY TargetAssumption DEF Callers
  <2>3. tick = [p \in Callers |-> Idle]
    BY DEF Init
  <2>4. \A p \in Callers : tick[p] = Idle
    BY <2>3
  <2> QED  BY <2>1, <2>2, <2>3, <2>4 DEF LockInv, NoParallelScans
<1>2. LockInv => NoParallelScans
  BY DEF LockInv
<1> QED  BY <1>1, <1>2, LockInvStep, PTL DEF Spec

-----------------------------------------------------------------------------
(* The plan of a cycle                                                     *)

EarlyPhases == {"unwrap", "bootstrap", "gas", "fill"}
LatePhases == {"sweep", "recover", "native", "solana"}
PlanStep == [phase : EarlyPhases \cup LatePhases, chain : Chains]

LEMMA FcnIsSeq ==
  ASSUME NEW S, NEW n \in Nat, NEW f \in [1..n -> S]
  PROVE  f \in Seq(S) /\ Len(f) = n /\ \A i \in 1..n : f[i] \in S
OBVIOUS

LEMMA TargetFacts ==
  /\ Len(Targets) \in Nat /\ Len(Targets) > 0 /\ Home \in Chains
  /\ \A i \in 1..Len(Targets) : Targets[i] \in Chains
<1>1. Len(Targets) \in Nat
  BY TargetAssumption
<1>2. Home \in Chains
  BY TargetAssumption
<1>3. Len(Targets) > 0
  BY <1>1, <1>2 DEF Chains
<1> QED  BY <1>1, <1>2, <1>3 DEF Chains

LEMMA StepsAre ==
  ASSUME NEW ph \in EarlyPhases \cup LatePhases
  PROVE  /\ Steps(ph) \in Seq(PlanStep) /\ Len(Steps(ph)) = Len(Targets)
         /\ \A i \in 1..Len(Targets) : Steps(ph)[i].phase = ph
<1>1. Steps(ph) \in [1..Len(Targets) -> PlanStep]
  BY TargetFacts DEF Steps, PlanStep
<1>2. \A i \in 1..Len(Targets) : Steps(ph)[i].phase = ph
  BY DEF Steps
<1> QED  BY <1>1, <1>2, FcnIsSeq, TargetFacts

LEMMA Joined ==
  ASSUME NEW s \in Seq(PlanStep), NEW t \in Seq(PlanStep)
  PROVE  /\ s \o t \in Seq(PlanStep) /\ Len(s \o t) = Len(s) + Len(t)
         /\ Len(s) \in Nat /\ Len(t) \in Nat
         /\ \A i \in 1..Len(s) : (s \o t)[i] = s[i]
         /\ \A i \in 1..Len(t) : (s \o t)[Len(s) + i] = t[i]
<1>1. Len(s) \in Nat /\ Len(t) \in Nat
  OBVIOUS
<1>2. /\ s \o t \in Seq(PlanStep) /\ Len(s \o t) = Len(s) + Len(t)
      /\ \A i \in 1..(Len(s) + Len(t)) :
           (s \o t)[i] = IF i <= Len(s) THEN s[i] ELSE t[i - Len(s)]
  BY ConcatProperties
<1>3. ASSUME NEW i \in 1..Len(t)  PROVE (s \o t)[Len(s) + i] = t[i]
  <2>1. Len(s) + i \in 1..(Len(s) + Len(t)) /\ ~(Len(s) + i <= Len(s)) /\ Len(s) + i - Len(s) = i
    BY <1>1, <1>3
  <2> QED  BY <1>2, <2>1
<1> QED  BY <1>1, <1>2, <1>3

LEMMA PhasesJoin ==
  ASSUME NEW s \in Seq(PlanStep), NEW t \in Seq(PlanStep), NEW E, NEW F,
         \A i \in 1..Len(s) : s[i].phase \in E,
         \A i \in 1..Len(t) : t[i].phase \in F
  PROVE  /\ s \o t \in Seq(PlanStep) /\ Len(s \o t) = Len(s) + Len(t)
         /\ \A i \in 1..Len(s) : (s \o t)[i].phase \in E
         /\ \A i \in (Len(s) + 1)..(Len(s) + Len(t)) : (s \o t)[i].phase \in F
<1>1. Len(s) \in Nat /\ Len(t) \in Nat
  OBVIOUS
<1>2. /\ s \o t \in Seq(PlanStep) /\ Len(s \o t) = Len(s) + Len(t)
      /\ \A i \in 1..(Len(s) + Len(t)) :
           (s \o t)[i] = IF i <= Len(s) THEN s[i] ELSE t[i - Len(s)]
  BY ConcatProperties
<1>3. ASSUME NEW i \in (Len(s) + 1)..(Len(s) + Len(t))  PROVE (s \o t)[i].phase \in F
  <2>1. i - Len(s) \in 1..Len(t) /\ (s \o t)[i] = t[i - Len(s)]
    BY <1>1, <1>2, <1>3
  <2> QED  BY <2>1
<1>4. ASSUME NEW i \in 1..Len(s)  PROVE (s \o t)[i].phase \in E
  <2>1. (s \o t)[i] = s[i]
    BY <1>1, <1>2, <1>4
  <2> QED  BY <2>1
<1> QED  BY <1>2, <1>3, <1>4

(* The phases come in order, and the last step is the Solana leg.          *)
LEMMA PlanIs ==
  /\ Plan \in Seq(PlanStep)
  /\ Len(Plan) = 2 + 6 * Len(Targets)
  /\ Plan[Len(Plan)].phase = "solana"
  /\ \A i \in 1..(Len(Plan) - 1) : Plan[i].phase # "solana"
  /\ \A i \in 1..(1 + 3 * Len(Targets)) : Plan[i].phase \in EarlyPhases
  /\ \A i \in (2 + 3 * Len(Targets))..Len(Plan) : Plan[i].phase \in LatePhases
<1> DEFINE n == Len(Targets)
           P1 == <<[phase |-> "unwrap", chain |-> Home]>>
           P2 == P1 \o Steps("bootstrap")
           P3 == P2 \o Steps("gas")
           P4 == P3 \o Steps("fill")
           P5 == P4 \o Steps("sweep")
           R  == [i \in 1..(2 * n) |->
                    [phase |-> IF i % 2 = 1 THEN "recover" ELSE "native",
                     chain |-> Targets[(i + 1) \div 2]]]
           P6 == P5 \o R
           L  == <<[phase |-> "solana", chain |-> Home]>>
<1>0. n \in Nat /\ n > 0 /\ Home \in Chains
  BY TargetFacts
<1>1. /\ P1 \in Seq(PlanStep) /\ Len(P1) = 1
      /\ \A i \in 1..Len(P1) : P1[i].phase \in EarlyPhases
  BY <1>0 DEF PlanStep, EarlyPhases
<1>2. /\ L \in Seq(PlanStep) /\ Len(L) = 1
      /\ L[1].phase = "solana"
  BY <1>0 DEF PlanStep, LatePhases
<1>3. /\ R \in Seq(PlanStep) /\ Len(R) = 2 * n
      /\ \A i \in 1..(2 * n) : R[i].phase \in LatePhases \ {"solana"}
  <2>1. \A i \in 1..(2 * n) : (i + 1) \div 2 \in 1..n
    BY <1>0
  <2>2. \A i \in 1..(2 * n) : Targets[(i + 1) \div 2] \in Chains
    BY <2>1, TargetFacts
  <2>3. R \in [1..(2 * n) -> PlanStep]
    BY <2>2 DEF PlanStep, LatePhases
  <2>4. \A i \in 1..(2 * n) : R[i].phase \in LatePhases \ {"solana"}
    BY DEF LatePhases
  <2>5. 2 * n \in Nat
    BY <1>0
  <2> HIDE DEF R
  <2> QED  BY <2>3, <2>4, <2>5, FcnIsSeq
<1>4. Plan = P6 \o L
  BY DEF Plan
<1> HIDE DEF P1, R, L, n
<1>5. /\ P2 \in Seq(PlanStep) /\ Len(P2) = 1 + n
      /\ \A i \in 1..Len(P2) : P2[i].phase \in EarlyPhases
  <2>1. /\ Steps("bootstrap") \in Seq(PlanStep) /\ Len(Steps("bootstrap")) = n
        /\ \A i \in 1..n : Steps("bootstrap")[i].phase \in EarlyPhases
    BY StepsAre DEF n, EarlyPhases
  <2>2. /\ P2 \in Seq(PlanStep) /\ Len(P2) = Len(P1) + n
        /\ \A i \in 1..Len(P1) : P2[i].phase \in EarlyPhases
        /\ \A i \in (Len(P1) + 1)..(Len(P1) + n) : P2[i].phase \in EarlyPhases
    BY <1>1, <2>1, PhasesJoin
  <2> QED  BY <1>0, <1>1, <2>2
<1> HIDE DEF P2
<1>6. /\ P3 \in Seq(PlanStep) /\ Len(P3) = 1 + 2 * n
      /\ \A i \in 1..Len(P3) : P3[i].phase \in EarlyPhases
  <2>1. /\ Steps("gas") \in Seq(PlanStep) /\ Len(Steps("gas")) = n
        /\ \A i \in 1..n : Steps("gas")[i].phase \in EarlyPhases
    BY StepsAre DEF n, EarlyPhases
  <2>2. /\ P3 \in Seq(PlanStep) /\ Len(P3) = Len(P2) + n
        /\ \A i \in 1..Len(P2) : P3[i].phase \in EarlyPhases
        /\ \A i \in (Len(P2) + 1)..(Len(P2) + n) : P3[i].phase \in EarlyPhases
    BY <1>5, <2>1, PhasesJoin
  <2> QED  BY <1>0, <1>5, <2>2
<1> HIDE DEF P3
<1>7. /\ P4 \in Seq(PlanStep) /\ Len(P4) = 1 + 3 * n
      /\ \A i \in 1..Len(P4) : P4[i].phase \in EarlyPhases
  <2>1. /\ Steps("fill") \in Seq(PlanStep) /\ Len(Steps("fill")) = n
        /\ \A i \in 1..n : Steps("fill")[i].phase \in EarlyPhases
    BY StepsAre DEF n, EarlyPhases
  <2>2. /\ P4 \in Seq(PlanStep) /\ Len(P4) = Len(P3) + n
        /\ \A i \in 1..Len(P3) : P4[i].phase \in EarlyPhases
        /\ \A i \in (Len(P3) + 1)..(Len(P3) + n) : P4[i].phase \in EarlyPhases
    BY <1>6, <2>1, PhasesJoin
  <2> QED  BY <1>0, <1>6, <2>2
<1> HIDE DEF P4
<1>8. /\ P5 \in Seq(PlanStep) /\ Len(P5) = 1 + 4 * n
      /\ \A i \in 1..(1 + 3 * n) : P5[i].phase \in EarlyPhases
      /\ \A i \in (2 + 3 * n)..(1 + 4 * n) : P5[i].phase \in LatePhases \ {"solana"}
  <2>1. /\ Steps("sweep") \in Seq(PlanStep) /\ Len(Steps("sweep")) = n
        /\ \A i \in 1..n : Steps("sweep")[i].phase \in LatePhases \ {"solana"}
    BY StepsAre DEF n, LatePhases
  <2>2. /\ P5 \in Seq(PlanStep) /\ Len(P5) = Len(P4) + n
        /\ \A i \in 1..Len(P4) : P5[i].phase \in EarlyPhases
        /\ \A i \in (Len(P4) + 1)..(Len(P4) + n) : P5[i].phase \in LatePhases \ {"solana"}
    BY <1>7, <2>1, PhasesJoin
  <2> QED  BY <1>0, <1>7, <2>2
<1> HIDE DEF P5
<1>9. /\ P6 \in Seq(PlanStep) /\ Len(P6) = 1 + 6 * n
      /\ \A i \in 1..(1 + 3 * n) : P6[i].phase \in EarlyPhases
      /\ \A i \in (2 + 3 * n)..(1 + 6 * n) : P6[i].phase \in LatePhases \ {"solana"}
  <2>1. P5 \in Seq(PlanStep) /\ R \in Seq(PlanStep) /\ P6 = P5 \o R
    BY <1>3, <1>8
  <2> HIDE DEF P6
  <2>2. /\ P6 \in Seq(PlanStep) /\ Len(P6) = Len(P5) + Len(R)
        /\ \A i \in 1..Len(P5) : P6[i] = P5[i]
    BY <2>1, Joined
  <2> USE DEF P6
  <2>3. \A i \in (Len(P5) + 1)..(Len(P5) + 2 * n) : P6[i].phase \in LatePhases \ {"solana"}
    BY <1>3, <1>8, PhasesJoin
  <2> HIDE DEF P6
  <2> QED  BY <1>0, <1>3, <1>8, <2>2, <2>3
<1> HIDE DEF P6
<1>10. /\ Plan \in Seq(PlanStep) /\ Len(Plan) = 2 + 6 * n
       /\ \A i \in 1..(1 + 6 * n) : Plan[i] = P6[i]
       /\ Plan[2 + 6 * n] = L[1]
  <2>1. /\ Plan \in Seq(PlanStep) /\ Len(Plan) = Len(P6) + 1
        /\ \A i \in 1..Len(P6) : Plan[i] = P6[i]
        /\ \A i \in 1..1 : Plan[Len(P6) + i] = L[i]
    BY <1>2, <1>4, <1>9, Joined
  <2> QED  BY <1>0, <1>9, <2>1
<1>11. Plan[Len(Plan)].phase = "solana"
  BY <1>2, <1>10
<1>12. ASSUME NEW i \in 1..(1 + 6 * n)  PROVE Plan[i].phase # "solana"
  <2>1. i \in 1..(1 + 3 * n) \/ i \in (2 + 3 * n)..(1 + 6 * n)
    BY <1>0
  <2> QED  BY <1>9, <1>10, <2>1 DEF EarlyPhases, LatePhases
<1>13. ASSUME NEW i \in 1..(1 + 3 * n)  PROVE Plan[i].phase \in EarlyPhases
  BY <1>0, <1>9, <1>10
<1>14. ASSUME NEW i \in (2 + 3 * n)..Len(Plan)  PROVE Plan[i].phase \in LatePhases
  <2>1. i \in (2 + 3 * n)..(1 + 6 * n) \/ i = Len(Plan)
    BY <1>0, <1>10
  <2>2. CASE i \in (2 + 3 * n)..(1 + 6 * n)
    BY <1>0, <1>9, <1>10, <2>2
  <2> QED  BY <1>11, <2>1, <2>2 DEF LatePhases
<1>15. Len(Plan) - 1 = 1 + 6 * n
  BY <1>0, <1>10
<1> QED  BY <1>10, <1>11, <1>12, <1>13, <1>14, <1>15 DEF n

-----------------------------------------------------------------------------
(* The choice of a source                                                  *)

LEMMA LeastNat ==
  ASSUME NEW T \in SUBSET Nat, T # {}
  PROVE  \E x \in T : \A y \in T : x <= y
<1>1. PICK x \in T : \A y \in T : ~(<<y, x>> \in OpToRel(<, Nat))
  BY NatLessThanWellFounded, WFMin
<1>2. \A y \in T : ~(y < x)
  BY <1>1 DEF OpToRel
<1> QED  BY <1>2

LEMMA PositionIs == \A c \in Chains : Position(c) \in 1..Len(Targets) /\ Targets[Position(c)] = c
BY DEF Position, Chains

(* Among finitely many chains one has the most.                            *)
LEMMA MostExists ==
  ASSUME NEW S \in SUBSET Chains, S # {}, NEW v, \A c \in S : v[c] \in Int
  PROVE  \E c \in S : \A d \in S : v[d] <= v[c]
<1> DEFINE Upto(n) == {c \in S : Position(c) <= n}
           Top(n) == \E c \in Upto(n) : \A d \in Upto(n) : v[d] <= v[c]
           Bad == {n \in Nat : Upto(n) # {} /\ ~Top(n)}
<1>1. Bad = {}
  <2> SUFFICES ASSUME Bad # {}  PROVE FALSE
    OBVIOUS
  <2>1. Bad \in SUBSET Nat
    OBVIOUS
  <2> HIDE DEF Bad
  <2>2. PICK n \in Bad : \A m \in Bad : n <= m
    BY <2>1, LeastNat
  <2>3. n \in Nat /\ Upto(n) # {} /\ ~Top(n)
    BY <2>2 DEF Bad
  <2>4. n # 0
    BY <2>3, PositionIs
  <2>5. n - 1 \in Nat /\ n - 1 \notin Bad
    BY <2>2, <2>3, <2>4
  <2>6. Upto(n) \subseteq Upto(n - 1) \cup {Targets[n]}
    BY <2>3, PositionIs
  <2>7. Upto(n - 1) \subseteq Upto(n)
    BY <2>3, PositionIs
  <2>8. CASE Upto(n - 1) = {}
    BY <2>3, <2>6, <2>8
  <2>9. CASE Upto(n - 1) # {}
    <3>1. Top(n - 1)
      BY <2>5, <2>9 DEF Bad
    <3>2. PICK c \in Upto(n - 1) : \A d \in Upto(n - 1) : v[d] <= v[c]
      BY <3>1
    <3>3. Upto(n - 1) \subseteq S /\ Upto(n) \subseteq S
      OBVIOUS
    <3> HIDE DEF Upto
    <3>4. CASE Targets[n] \in Upto(n) /\ v[c] <= v[Targets[n]]
      BY <2>3, <2>6, <3>2, <3>3, <3>4
    <3>5. CASE ~(Targets[n] \in Upto(n) /\ v[c] <= v[Targets[n]])
      BY <2>3, <2>6, <2>7, <3>2, <3>3, <3>5
    <3> QED  BY <3>4, <3>5
  <2> QED  BY <2>8, <2>9
<1>2. Upto(Len(Targets)) = S
  BY PositionIs
<1>3. Top(Len(Targets))
  BY <1>1, <1>2, TargetFacts
<1> QED  BY <1>2, <1>3

LEMMA LastExists ==
  ASSUME NEW S \in SUBSET Chains, S # {}
  PROVE  \E c \in S : \A d \in S : Position(d) <= Position(c)
<1> DEFINE pos == [c \in Chains |-> Position(c)]
<1>1. \A c \in S : pos[c] \in Int
  BY PositionIs
<1>2. PICK c \in S : \A d \in S : pos[d] <= pos[c]
  BY <1>1, MostExists
<1> QED  BY <1>2

(* max_by returns one of the candidates.                                   *)
LEMMA LastBestIsOne ==
  ASSUME NEW S \in SUBSET Chains, S # {}, NEW v, \A c \in S : v[c] \in Int
  PROVE  LastBest(S, v) \in S
<1> DEFINE best == {c \in S : \A d \in S : v[d] <= v[c]}
<1>1. best # {} /\ best \in SUBSET Chains
  BY MostExists
<1>2. \E c \in best : \A d \in best : Position(d) <= Position(c)
  BY <1>1, LastExists
<1>3. LastBest(S, v) = CHOOSE c \in best : \A d \in best : Position(d) <= Position(c)
  BY DEF LastBest
<1> HIDE DEF best
<1>4. LastBest(S, v) \in best
  BY <1>2, <1>3
<1> QED  BY <1>4 DEF best

-----------------------------------------------------------------------------
(* The progress of a cycle                                                 *)

Progress ==
  [stage : {"idle", "waiting", "scanning", "acting"}, toScan : SUBSET Chains,
   snap : [Chains -> Balances], at : 0..(Len(Plan) + 1),
   working : [Chains -> Nat], sent : [Chains -> Nat]]

BeforeSweeps == 1 + 3 * Len(Targets)

(* What a cycle may still commit and what it has committed are within what *)
(* it read.  The home chain is credited with the sweeps, but then it is no *)
(* longer a source.                                                        *)
WithinSnapshot(t) ==
  /\ \A c \in Chains : c # Home \/ t.at <= BeforeSweeps =>
       t.working[c] + t.sent[c] <= Stable(t.snap[c])
  /\ \A c \in Chains : t.sent[c] > 0 => t.sent[c] <= Stable(t.snap[c]) - Reserve(c)

(* CommitmentsAreCovered is not inductive: a step spends what was due when *)
(* the cycle moved to it.                                                  *)
CycleInv(t) ==
  /\ t \in Progress
  /\ t.stage = "scanning" => t.at = 0 /\ \A c \in Chains : t.sent[c] = 0
  /\ t.stage = "acting" => t.at > 0 /\ (t.at <= Len(Plan) => Due(t, Plan[t.at]))
  /\ WithinSnapshot(t)

TransferOK(x) ==
  /\ x.kind \in {"stable", "gas", "sol"}
  /\ x.kind # "sol" => x.dst \in Chains /\ x.usd \in Nat

MoneyInv ==
  /\ funds \in [Chains -> Balances]
  /\ \A x \in BagToSet(transit) : TransferOK(x)

SidecarInv ==
  /\ MoneyInv
  /\ sol \in BOOLEAN
  /\ holder \in Callers \cup {"nobody"}
  /\ tick \in [Callers -> Progress]
  /\ \A p \in Callers : CycleInv(tick[p])
  /\ cooldown \in 0..Cooldown
  /\ shocks \in 0..MaxShocks

LEMMA ReserveIsNat == \A c \in Chains : Reserve(c) \in Nat
BY LimitAssumption DEF Reserve

(* What is due depends on what was read and what is left, not on the place *)
(* of the cycle in its plan.                                               *)
LEMMA DueDependsOn ==
  ASSUME NEW t, NEW u, t.snap = u.snap, t.working = u.working, NEW step
  PROVE  Due(t, step) = Due(u, step)
<1>1. /\ BaseLow(t.snap) = BaseLow(u.snap)
      /\ WethChains(t.snap) = WethChains(u.snap)
      /\ AnyCritical(t.snap) = AnyCritical(u.snap)
      /\ \A c : Donors(t, c) = Donors(u, c)
      /\ \A c : Lacks(t, c) = Lacks(u, c)
      /\ \A c : Shortfall(t, c) = Shortfall(u, c)
      /\ \A c : SweepUsd(t, c) = SweepUsd(u, c)
      /\ \A c : FillUsd(t, c) = FillUsd(u, c)
  BY DEF Donors, Lacks, Shortfall, SweepUsd, FillUsd
<1> QED  BY <1>1 DEF Due

LEMMA DueSolana ==
  ASSUME NEW t, NEW step, step.phase = "solana"
  PROVE  Due(t, step)
BY DEF Due

LEMMA NextDueIs ==
  ASSUME NEW t \in Progress, t.at < Len(Plan)
  PROVE  NextDue(t) \in (t.at + 1)..Len(Plan) /\ Due(t, Plan[NextDue(t)])
<1> DEFINE T == {j \in (t.at + 1)..Len(Plan) : Due(t, Plan[j])}
<1>1. Len(Plan) \in Nat /\ t.at \in Nat
  BY PlanIs, TargetFacts DEF Progress
<1>2. Len(Plan) \in T /\ T \in SUBSET Nat
  BY <1>1, PlanIs, DueSolana
<1> HIDE DEF T
<1>3. PICK j \in T : \A i \in T : j <= i
  BY <1>2, LeastNat
<1> USE DEF T
<1>4. \A i \in (t.at + 1)..(j - 1) : ~Due(t, Plan[i])
  <2> SUFFICES ASSUME NEW i \in (t.at + 1)..(j - 1), Due(t, Plan[i])  PROVE FALSE
    OBVIOUS
  <2>1. i \in T
    BY <1>1, <1>3
  <2> QED  BY <1>1, <1>2, <1>3, <2>1
<1>5. \E k \in (t.at + 1)..Len(Plan) :
        Due(t, Plan[k]) /\ \A i \in (t.at + 1)..(k - 1) : ~Due(t, Plan[i])
  BY <1>3, <1>4
<1> HIDE DEF T
<1> QED  BY <1>5 DEF NextDue

(* The cycle moves on to a step that is due.                               *)
LEMMA MovesOn ==
  ASSUME NEW t \in Progress, t.stage = "acting", t.at < Len(Plan), WithinSnapshot(t)
  PROVE  CycleInv([t EXCEPT !.at = NextDue(t)])
<1> DEFINE k == NextDue(t)
           u == [t EXCEPT !.at = k]
<1>1. k \in (t.at + 1)..Len(Plan) /\ Due(t, Plan[k])
  BY NextDueIs
<1>2. Len(Plan) \in Nat /\ t.at \in Nat /\ BeforeSweeps \in Nat
  BY PlanIs, TargetFacts DEF Progress, BeforeSweeps
<1> HIDE DEF k
<1>3. k \in 0..(Len(Plan) + 1) /\ k > t.at /\ k > 0 /\ k <= Len(Plan)
  BY <1>1, <1>2
<1>4. u \in Progress
  BY <1>3 DEF Progress
<1>5. /\ u.stage = "acting" /\ u.at = k
      /\ u.snap = t.snap /\ u.working = t.working /\ u.sent = t.sent
  BY DEF Progress
<1> HIDE DEF u
<1>6. Due(u, Plan[u.at])
  BY <1>1, <1>5, DueDependsOn
<1>7. WithinSnapshot(u)
  BY <1>2, <1>3, <1>5 DEF WithinSnapshot
<1>8. CycleInv(u)
  BY <1>2, <1>3, <1>4, <1>5, <1>6, <1>7 DEF CycleInv
<1> QED  BY <1>8 DEF u, k

LEMMA SnapIsNat ==
  ASSUME NEW q \in Progress, NEW c \in Chains
  PROVE  /\ q.snap[c] \in Balances /\ Stable(q.snap[c]) \in Nat
         /\ q.working[c] \in Nat /\ q.sent[c] \in Nat
<1>1. q.snap[c] \in Balances /\ q.working[c] \in Nat /\ q.sent[c] \in Nat
  BY DEF Progress
<1> QED  BY <1>1 DEF Balances, Stable

(* A commitment within what can be spared of its source keeps the others   *)
(* covered.                                                                *)
LEMMA CommitKeeps ==
  ASSUME NEW q \in Progress, q.stage = "acting", q.at < Len(Plan), WithinSnapshot(q),
         NEW src \in Chains, NEW usd \in Nat, NEW credit \in Nat,
         usd <= Spare(q.working, src),
         credit = 0 \/ q.at > BeforeSweeps,
         src # Home \/ q.at <= BeforeSweeps
  PROVE  LET left == Deduct(q.working, src, usd)
             t == [q EXCEPT !.working = [left EXCEPT ![Home] = @ + credit],
                            !.sent[src] = @ + usd]
         IN  CycleInv([t EXCEPT !.at = NextDue(t)])
<1> DEFINE left == Deduct(q.working, src, usd)
           w == [left EXCEPT ![Home] = @ + credit]
           t == [q EXCEPT !.working = w, !.sent[src] = @ + usd]
<1>1. /\ q.working \in [Chains -> Nat] /\ q.sent \in [Chains -> Nat]
      /\ Home \in Chains /\ Reserve(src) \in Nat
      /\ q.at \in Nat /\ BeforeSweeps \in Nat
  BY ReserveIsNat, TargetFacts, PlanIs DEF Progress, BeforeSweeps
<1>2. usd <= q.working[src] - Reserve(src) /\ usd <= q.working[src]
  BY <1>1 DEF Spare
<1>3. /\ left \in [Chains -> Nat]
      /\ left[src] = q.working[src] - usd
      /\ \A c \in Chains \ {src} : left[c] = q.working[c]
  BY <1>1, <1>2 DEF Deduct
<1> HIDE DEF left
<1>4. /\ w \in [Chains -> Nat]
      /\ w[Home] = left[Home] + credit
      /\ \A c \in Chains \ {Home} : w[c] = left[c]
  BY <1>1, <1>3
<1> HIDE DEF w
<1>5. /\ t \in Progress
      /\ t.stage = "acting" /\ t.at = q.at /\ t.snap = q.snap /\ t.working = w
      /\ t.sent = [q.sent EXCEPT ![src] = @ + usd]
  <2>1. [q.sent EXCEPT ![src] = @ + usd] \in [Chains -> Nat]
    BY <1>1
  <2>2. t = [q EXCEPT !.working = w, !.sent = [q.sent EXCEPT ![src] = @ + usd]]
    BY DEF Progress
  <2> HIDE DEF t
  <2> QED  BY <1>4, <2>1, <2>2 DEF Progress
<1>6. /\ t.sent[src] = q.sent[src] + usd
      /\ \A c \in Chains \ {src} : t.sent[c] = q.sent[c]
  BY <1>1, <1>5
<1> HIDE DEF t
<1>7. ASSUME NEW c \in Chains, c # Home \/ t.at <= BeforeSweeps
      PROVE  t.working[c] + t.sent[c] <= Stable(t.snap[c])
  <2>1. q.working[c] + q.sent[c] <= Stable(q.snap[c])
    BY <1>5, <1>7 DEF WithinSnapshot
  <2>2. w[c] = left[c]
    <3>1. CASE c = Home
      <4>1. credit = 0
        BY <1>1, <1>5, <1>7, <3>1
      <4> QED  BY <1>1, <1>3, <1>4, <3>1, <4>1
    <3> QED  BY <1>4, <3>1
  <2>3. w[c] + t.sent[c] = q.working[c] + q.sent[c]
    <3>1. CASE c = src
      <4>1. q.working[src] \in Nat /\ q.sent[src] \in Nat
        BY <1>1
      <4>2. w[src] = q.working[src] - usd /\ t.sent[src] = q.sent[src] + usd
        BY <1>3, <1>6, <2>2, <3>1
      <4> QED  BY <3>1, <4>1, <4>2
    <3>2. CASE c # src
      BY <1>1, <1>3, <1>6, <2>2, <3>2
    <3> QED  BY <3>1, <3>2
  <2> QED  BY <1>5, <2>1, <2>3
<1>8. ASSUME NEW c \in Chains, t.sent[c] > 0
      PROVE  t.sent[c] <= Stable(t.snap[c]) - Reserve(c)
  <2>1. CASE c = src
    <3>1. q.working[c] + q.sent[c] <= Stable(q.snap[c])
      BY <1>1, <2>1 DEF WithinSnapshot
    <3> QED  BY <1>1, <1>2, <1>5, <1>6, <2>1, <3>1, SnapIsNat
  <2>2. CASE c # src
    BY <1>5, <1>6, <1>8, <2>2 DEF WithinSnapshot
  <2> QED  BY <2>1, <2>2
<1>9. WithinSnapshot(t)
  BY <1>7, <1>8 DEF WithinSnapshot
<1>10. CycleInv([t EXCEPT !.at = NextDue(t)])
  BY <1>5, <1>9, MovesOn
<1> QED  BY <1>10 DEF t, w, left

(* What a bridge is asked to carry was there.                              *)
LEMMA SendKeeps ==
  ASSUME MoneyInv, NEW src, NEW dst, NEW kind, NEW token \in {"prim", "sec"}, NEW usd,
         src \in Chains => usd \in Nat,
         kind = "sol" \/ (kind \in {"stable", "gas"} /\ dst \in Chains /\ usd \in Nat),
         Send(src, dst, kind, token, usd)
  PROVE  MoneyInv'
<1> DEFINE x == [dst |-> dst, kind |-> kind, usd |-> usd]
<1>1. CASE UNCHANGED <<funds, transit>>
  BY <1>1 DEF MoneyInv
<1>2. CASE /\ Covered(src, token, usd)
           /\ funds' = [funds EXCEPT ![src][token] = @ - usd]
           /\ transit' = transit (+) SetToBag({x})
  <2>1. BagToSet(transit') = BagToSet(transit) \cup {x}
    BY <1>2 DEF BagToSet, SetToBag, (+)
  <2>2. TransferOK(x)
    BY DEF TransferOK
  <2>3. funds' \in [Chains -> Balances]
    <3>1. CASE src \in Chains
      <4>1. funds[src] \in Balances /\ funds[src][token] >= usd /\ usd \in Nat
        BY <1>2, <3>1 DEF MoneyInv, Covered
      <4>2. [funds[src] EXCEPT ![token] = @ - usd] \in Balances
        BY <4>1 DEF Balances
      <4> QED  BY <1>2, <3>1, <4>2 DEF MoneyInv
    <3>2. CASE src \notin Chains
      BY <1>2, <3>2 DEF MoneyInv
    <3> QED  BY <3>1, <3>2
  <2> QED  BY <2>1, <2>2, <2>3 DEF MoneyInv
<1> QED  BY <1>1, <1>2 DEF Send

-----------------------------------------------------------------------------
(* Every step of the sidecar                                               *)

(* The progress of one caller changes to what it should be.                *)
LEMMA CallerMoves ==
  ASSUME SidecarInv, NEW p \in Callers, NEW u, tick' = [tick EXCEPT ![p] = u],
         CycleInv(u), MoneyInv', UNCHANGED shocks,
         sol' \in BOOLEAN, cooldown' \in 0..Cooldown,
         holder' \in Callers \cup {"nobody"}
  PROVE  SidecarInv'
<1>1. u \in Progress
  BY DEF CycleInv
<1>2. tick' \in [Callers -> Progress]
  BY <1>1 DEF SidecarInv
<1>3. \A q \in Callers : tick'[q] = IF q = p THEN u ELSE tick[q]
  BY DEF SidecarInv
<1>4. \A q \in Callers : CycleInv(tick'[q])
  BY <1>3 DEF SidecarInv
<1>5. \A q \in Callers : CycleInv(tick[q])'
  BY <1>4 DEF CycleInv, WithinSnapshot
<1> QED  BY <1>2, <1>5 DEF SidecarInv

LEMMA MoneyStays == ASSUME MoneyInv, UNCHANGED <<funds, transit>>  PROVE MoneyInv'
BY DEF MoneyInv

LEMMA IdleIsFine == CycleInv(Idle)
<1>1. Len(Plan) \in Nat
  BY PlanIs, TargetFacts
<1>2. Unread \in Balances /\ Stable(Unread) = 0
  BY DEF Unread, Balances, Stable
<1>3. Idle \in Progress
  BY <1>1, <1>2 DEF Idle, Progress
<1>4. /\ Idle.stage = "idle"
      /\ \A c \in Chains : Idle.sent[c] = 0 /\ Idle.working[c] = 0 /\ Idle.snap[c] = Unread
  BY DEF Idle
<1>5. WithinSnapshot(Idle)
  BY <1>2, <1>4 DEF WithinSnapshot
<1> QED  BY <1>3, <1>4, <1>5 DEF CycleInv

LEMMA StageMoves ==
  ASSUME NEW t, CycleInv(t), NEW s \in {"idle", "waiting"}
  PROVE  CycleInv([t EXCEPT !.stage = s])
<1> DEFINE u == [t EXCEPT !.stage = s]
<1>0. t \in Progress
  BY DEF CycleInv
<1>1. /\ u \in Progress /\ u.stage = s /\ u.at = t.at /\ u.snap = t.snap
      /\ u.working = t.working /\ u.sent = t.sent
  BY <1>0 DEF Progress
<1> HIDE DEF u
<1>2. CycleInv(u)
  BY <1>1 DEF CycleInv, WithinSnapshot
<1> QED  BY <1>2 DEF u

LEMMA WaitSteps ==
  ASSUME SidecarInv, WakeLoop \/ \E p \in Triggers : Trigger(p)
  PROVE  SidecarInv'
<1>1. PICK p \in Callers : SetStage(p, "waiting")
  BY DEF WakeLoop, Trigger, Probe, Callers
<1>2. UNCHANGED <<funds, sol, transit, holder, cooldown, shocks>>
  BY DEF WakeLoop, Trigger, Probe
<1>3. CycleInv([tick[p] EXCEPT !.stage = "waiting"])
  BY StageMoves DEF SidecarInv
<1>4. tick' = [tick EXCEPT ![p] = [tick[p] EXCEPT !.stage = "waiting"]]
  BY <1>1 DEF SetStage
<1>5. MoneyInv'
  BY <1>2, MoneyStays DEF SidecarInv
<1> QED  BY <1>2, <1>3, <1>4, <1>5, CallerMoves DEF SidecarInv

LEMMA BeginSteps == ASSUME SidecarInv, NEW p \in Callers, BeginTick(p)  PROVE SidecarInv'
<1> DEFINE u == [Idle EXCEPT !.stage = "scanning", !.toScan = Chains]
<1>0. Idle \in Progress /\ WithinSnapshot(Idle) /\ Idle.at = 0
      /\ \A c \in Chains : Idle.sent[c] = 0
  BY IdleIsFine DEF CycleInv, Idle
<1>1. /\ u \in Progress /\ u.stage = "scanning" /\ u.at = Idle.at /\ u.snap = Idle.snap
      /\ u.working = Idle.working /\ u.sent = Idle.sent
  BY <1>0 DEF Progress
<1>2. tick' = [tick EXCEPT ![p] = u] /\ holder' = p
      /\ UNCHANGED <<funds, sol, transit, cooldown, shocks>>
  BY DEF BeginTick
<1> HIDE DEF u
<1>3. CycleInv(u)
  BY <1>0, <1>1 DEF CycleInv, WithinSnapshot
<1>4. MoneyInv'
  BY <1>2, MoneyStays DEF SidecarInv
<1> QED  BY <1>2, <1>3, <1>4, CallerMoves DEF SidecarInv

LEMMA EndSteps == ASSUME SidecarInv, NEW p \in Callers, EndTick(p)  PROVE SidecarInv'
<1>1. tick' = [tick EXCEPT ![p] = Idle] /\ holder' = "nobody"
      /\ UNCHANGED <<funds, sol, transit, cooldown, shocks>>
  BY DEF EndTick
<1>2. MoneyInv'
  BY <1>1, MoneyStays DEF SidecarInv
<1> QED  BY <1>1, <1>2, IdleIsFine, CallerMoves DEF SidecarInv

LEMMA ScanSteps ==
  ASSUME SidecarInv, NEW p \in Callers, NEW c \in Chains, ScanChain(p, c)
  PROVE  SidecarInv'
<1> DEFINE q == tick[p]
<1>0. /\ q \in Progress /\ q.stage = "scanning" /\ q.at = 0 /\ WithinSnapshot(q)
      /\ \A d \in Chains : q.sent[d] = 0
      /\ funds[c] \in Balances
      /\ UNCHANGED <<funds, sol, transit, holder, cooldown, shocks>>
  BY DEF ScanChain, SidecarInv, CycleInv, MoneyInv
<1>1. PICK lost \in Losses :
        LET read == [k \in {"prim", "sec", "gas", "weth"} |->
                       IF k \in lost THEN 0 ELSE funds[c][k]]
            seen == [q EXCEPT !.toScan = @ \ {c}, !.snap[c] = read,
                              !.working[c] = Stable(read)]
        IN \/ tick' = [tick EXCEPT ![p] = seen]
           \/ Advance(p, [seen EXCEPT !.stage = "acting"])
  BY DEF ScanChain
<1> DEFINE read == [k \in {"prim", "sec", "gas", "weth"} |->
                      IF k \in lost THEN 0 ELSE funds[c][k]]
           seen == [q EXCEPT !.toScan = @ \ {c}, !.snap[c] = read,
                             !.working[c] = Stable(read)]
           acting == [seen EXCEPT !.stage = "acting"]
<1>2. tick' = [tick EXCEPT ![p] = seen] \/ Advance(p, acting)
  BY <1>1
<1>3. read \in Balances
  <2>1. \A k \in {"prim", "sec", "gas", "weth"} : read[k] \in Nat
    BY <1>0 DEF Balances
  <2>2. read \in [{"prim", "sec", "gas", "weth"} -> Nat]
    BY <2>1
  <2> HIDE DEF read
  <2> QED  BY <2>2 DEF Balances
<1> HIDE DEF read
<1>4. Stable(read) \in Nat
  BY <1>3 DEF Balances, Stable
<1>5. /\ seen \in Progress /\ seen.stage = "scanning" /\ seen.at = 0
      /\ seen.sent = q.sent
      /\ seen.snap = [q.snap EXCEPT ![c] = read]
      /\ seen.working = [q.working EXCEPT ![c] = Stable(read)]
  <2>1. /\ [q.snap EXCEPT ![c] = read] \in [Chains -> Balances]
        /\ [q.working EXCEPT ![c] = Stable(read)] \in [Chains -> Nat]
        /\ q.toScan \ {c} \subseteq Chains
    BY <1>0, <1>3, <1>4 DEF Progress
  <2>2. seen = [q EXCEPT !.toScan = q.toScan \ {c},
                         !.snap = [q.snap EXCEPT ![c] = read],
                         !.working = [q.working EXCEPT ![c] = Stable(read)]]
    BY <1>0 DEF Progress
  <2> HIDE DEF seen, q
  <2> QED  BY <1>0, <2>1, <2>2 DEF Progress
<1> HIDE DEF seen
<1>6. \A d \in Chains : /\ d = c => seen.working[d] = Stable(read) /\ seen.snap[d] = read
                        /\ d # c => seen.working[d] = q.working[d] /\ seen.snap[d] = q.snap[d]
                        /\ seen.sent[d] = 0
  BY <1>0, <1>5 DEF Progress
<1>7. WithinSnapshot(seen)
  <2>1. ASSUME NEW d \in Chains  PROVE seen.working[d] + seen.sent[d] <= Stable(seen.snap[d])
    <3>1. CASE d = c
      BY <1>4, <1>6, <3>1
    <3>2. CASE d # c
      <4>1. q.at <= BeforeSweeps
        BY <1>0, TargetFacts DEF BeforeSweeps
      <4>2. q.working[d] + q.sent[d] <= Stable(q.snap[d])
        BY <1>0, <4>1 DEF WithinSnapshot
      <4> QED  BY <1>0, <1>6, <3>2, <4>2
    <3> QED  BY <3>1, <3>2
  <2> QED  BY <1>6, <2>1 DEF WithinSnapshot
<1>8. CycleInv(seen)
  BY <1>5, <1>6, <1>7 DEF CycleInv
<1>9. /\ acting \in Progress /\ acting.stage = "acting" /\ acting.at = 0
      /\ acting.snap = seen.snap /\ acting.working = seen.working /\ acting.sent = seen.sent
  BY <1>5 DEF Progress
<1> HIDE DEF acting
<1>10. CycleInv([acting EXCEPT !.at = NextDue(acting)])
  <2>1. WithinSnapshot(acting)
    BY <1>5, <1>7, <1>9 DEF WithinSnapshot
  <2>2. acting.at < Len(Plan)
    BY <1>9, PlanIs, TargetFacts
  <2> QED  BY <1>9, <2>1, <2>2, MovesOn
<1>11. MoneyInv'
  BY <1>0, MoneyStays DEF SidecarInv
<1> HIDE DEF q
<1>12. CASE tick' = [tick EXCEPT ![p] = seen]
  BY <1>0, <1>8, <1>11, <1>12, CallerMoves DEF SidecarInv
<1>13. CASE Advance(p, acting)
  BY <1>0, <1>10, <1>11, <1>13, CallerMoves DEF SidecarInv, Advance
<1> QED  BY <1>2, <1>12, <1>13

(* What a step of the plan knows when the cycle has come to it.            *)
LEMMA DueIs ==
  ASSUME NEW t, NEW step, Due(t, step)
  PROVE  /\ step.phase = "bootstrap" => Donors(t, step.chain) # {}
         /\ step.phase = "gas" => Sources(t.working, step.chain, GasTopupUsd) # {}
         /\ step.phase = "fill" => /\ Sources(t.working, step.chain, MinBridgeUsd) # {}
                                   /\ FillUsd(t, step.chain) >= MinBridgeUsd
         /\ step.phase = "sweep" => /\ step.chain # Home
                                    /\ SweepUsd(t, step.chain) >= MinBridgeUsd
         /\ step.phase = "recover" => /\ step.chain \in SrcOnly
                                      /\ SweepUsd(t, step.chain) >= MinBridgeUsd
<1>1. CASE step.phase = "bootstrap"
  BY <1>1 DEF Due
<1>2. CASE step.phase = "gas"
  BY <1>2 DEF Due
<1>3. CASE step.phase = "fill"
  BY <1>3 DEF Due
<1>4. CASE step.phase = "sweep"
  BY <1>4 DEF Due
<1>5. CASE step.phase = "recover"
  BY <1>5 DEF Due
<1> QED  BY <1>1, <1>2, <1>3, <1>4, <1>5

LEMMA AtIs ==
  ASSUME SidecarInv, NEW p \in Callers, NEW phase, At(p, phase)
  PROVE  /\ tick[p] \in Progress /\ tick[p].stage = "acting" /\ WithinSnapshot(tick[p])
         /\ tick[p].at \in 1..Len(Plan) /\ Here(p) \in Chains
         /\ Plan[tick[p].at].phase = phase /\ Plan[tick[p].at].chain = Here(p)
         /\ Due(tick[p], Plan[tick[p].at])
         /\ phase # "solana" => tick[p].at < Len(Plan)
         /\ phase \in EarlyPhases => tick[p].at <= BeforeSweeps
         /\ phase \in LatePhases => tick[p].at > BeforeSweeps
<1>1. /\ tick[p] \in Progress /\ tick[p].stage = "acting" /\ WithinSnapshot(tick[p])
      /\ tick[p].at <= Len(Plan) /\ tick[p].at > 0
      /\ Due(tick[p], Plan[tick[p].at])
      /\ Plan[tick[p].at].phase = phase
  BY DEF At, SidecarInv, CycleInv
<1>2. Len(Plan) \in Nat /\ tick[p].at \in Nat /\ BeforeSweeps \in Nat
  BY <1>1, PlanIs, TargetFacts DEF Progress, BeforeSweeps
<1>3. tick[p].at \in 1..Len(Plan)
  BY <1>1, <1>2
<1>4. Plan[tick[p].at] \in PlanStep
  BY <1>3, PlanIs
<1>5. phase # "solana" => tick[p].at < Len(Plan)
  <2>1. tick[p].at = Len(Plan) => phase = "solana"
    BY <1>1, PlanIs
  <2> QED  BY <1>1, <1>2, <2>1
<1>6. EarlyPhases \cap LatePhases = {}
  BY DEF EarlyPhases, LatePhases
<1>7. tick[p].at <= BeforeSweeps => phase \in EarlyPhases
  BY <1>1, <1>2, <1>3, PlanIs DEF BeforeSweeps
<1>8. tick[p].at > BeforeSweeps => phase \in LatePhases
  <2>1. tick[p].at > BeforeSweeps => tick[p].at \in (2 + 3 * Len(Targets))..Len(Plan)
    BY <1>2, <1>3, TargetFacts DEF BeforeSweeps
  <2> QED  BY <1>1, <2>1, PlanIs
<1>9. Here(p) \in Chains /\ Plan[tick[p].at].chain = Here(p)
  BY <1>4 DEF Here, PlanStep
<1> QED  BY <1>1, <1>2, <1>3, <1>5, <1>6, <1>7, <1>8, <1>9

LEMMA BridgeTokenIs ==
  ASSUME NEW s
  PROVE  BridgeToken(s) \in {"prim", "sec"} /\ (s \in Balances => BridgeUsd(s) \in Nat)
BY DEF BridgeToken, BridgeUsd, Balances

LEMMA SpareIsInt ==
  ASSUME NEW q \in Progress, NEW c \in Chains
  PROVE  Spare(q.working, c) \in Int
BY ReserveIsNat DEF Progress, Spare

LEMMA SourceIs ==
  ASSUME NEW q \in Progress, NEW dst \in Chains, NEW needed \in Nat,
         Sources(q.working, dst, needed) # {}
  PROVE  LET src == BestSource(q.working, dst, needed)
         IN  src \in Chains /\ Spare(q.working, src) >= needed
<1> DEFINE spare == [c \in Chains |-> Spare(q.working, c)]
           S == Sources(q.working, dst, needed)
<1>1. \A c \in Chains : spare[c] = Spare(q.working, c) /\ spare[c] \in Int
  BY SpareIsInt
<1>2. S \in SUBSET Chains /\ S # {} /\ \A c \in S : Spare(q.working, c) >= needed
  BY DEF Sources
<1>3. BestSource(q.working, dst, needed) = LastBest(S, spare)
  BY DEF BestSource
<1> HIDE DEF spare, S
<1>4. LastBest(S, spare) \in S
  BY <1>1, <1>2, LastBestIsOne
<1> QED  BY <1>2, <1>3, <1>4

LEMMA LesserIs ==
  ASSUME NEW a \in Int, NEW b \in Int
  PROVE  Lesser(a, b) \in Int /\ Lesser(a, b) <= a /\ Lesser(a, b) <= b
BY DEF Lesser

LEMMA FillUsdIs ==
  ASSUME NEW q \in Progress, NEW dst \in Chains,
         Sources(q.working, dst, MinBridgeUsd) # {},
         FillUsd(q, dst) >= MinBridgeUsd
  PROVE  LET src == BestSource(q.working, dst, MinBridgeUsd)
         IN  FillUsd(q, dst) \in Nat /\ FillUsd(q, dst) <= Spare(q.working, src)
<1> DEFINE src == BestSource(q.working, dst, MinBridgeUsd)
<1>0. MinBridgeUsd \in Nat
  BY AmountAssumption
<1>1. src \in Chains
  BY <1>0, SourceIs
<1> HIDE DEF src
<1>2. /\ Spare(q.working, src) \in Int /\ BridgeUsd(q.snap[src]) \in Int
      /\ Shortfall(q, dst) \in Int
  BY <1>1, SpareIsInt, SnapIsNat, BridgeTokenIs, LimitAssumption DEF Shortfall
<1>3. FillUsd(q, dst) = Lesser(Shortfall(q, dst), Lesser(Spare(q.working, src), BridgeUsd(q.snap[src])))
  BY DEF FillUsd, src
<1>4. FillUsd(q, dst) \in Int /\ FillUsd(q, dst) <= Spare(q.working, src)
  <2> DEFINE inner == Lesser(Spare(q.working, src), BridgeUsd(q.snap[src]))
  <2>1. inner \in Int /\ inner <= Spare(q.working, src)
    BY <1>2, LesserIs
  <2> HIDE DEF inner
  <2>2. Lesser(Shortfall(q, dst), inner) \in Int /\ Lesser(Shortfall(q, dst), inner) <= inner
    BY <1>2, <2>1, LesserIs
  <2> QED  BY <1>2, <1>3, <2>1, <2>2 DEF inner
<1> QED  BY <1>0, <1>4 DEF src

LEMMA SweepUsdIs ==
  ASSUME NEW q \in Progress, NEW c \in Chains, SweepUsd(q, c) >= MinBridgeUsd
  PROVE  SweepUsd(q, c) \in Nat /\ SweepUsd(q, c) <= Spare(q.working, c)
<1> DEFINE keep == IF c \in FillChains THEN TargetStable[c] ELSE HighWater[c]
<1>0. MinBridgeUsd \in Nat
  BY AmountAssumption
<1>1. keep \in Nat /\ Reserve(c) \in Nat /\ Reserve(c) <= keep
  BY LimitAssumption DEF Reserve
<1>2. SweepUsd(q, c) = Lesser(q.working[c] - keep, BridgeUsd(q.snap[c]))
  BY DEF SweepUsd
<1> HIDE DEF keep
<1>3. q.working[c] \in Nat /\ BridgeUsd(q.snap[c]) \in Nat
  BY SnapIsNat, BridgeTokenIs
<1>4. SweepUsd(q, c) \in Int /\ SweepUsd(q, c) <= q.working[c] - keep
  <2> DEFINE above == q.working[c] - keep
             most == BridgeUsd(q.snap[c])
  <2>1. above \in Int /\ most \in Int
    BY <1>1, <1>3
  <2>2. SweepUsd(q, c) = Lesser(above, most)
    BY <1>2
  <2> HIDE DEF above, most
  <2>3. SweepUsd(q, c) \in Int /\ SweepUsd(q, c) <= above
    BY <2>1, <2>2, LesserIs
  <2> QED  BY <2>3 DEF above
<1> QED  BY <1>0, <1>1, <1>3, <1>4 DEF Spare

(* A transfer of a cycle: the caller's progress and the money move.        *)
LEMMA CommitStep ==
  ASSUME SidecarInv, NEW p \in Callers, NEW phase, At(p, phase), phase # "solana",
         NEW src \in Chains, NEW usd \in Nat, NEW credit \in Nat,
         usd <= Spare(tick[p].working, src),
         credit = 0 \/ phase \in LatePhases,
         src # Home \/ phase \in EarlyPhases,
         Commit(p, src, usd, credit),
         NEW dst \in Chains, NEW kind \in {"stable", "gas"},
         SendBridgeToken(p, src, dst, kind, usd),
         UNCHANGED <<sol, holder, cycle, cooldown, shocks>>
  PROVE  SidecarInv'
<1> DEFINE q == tick[p]
           left == Deduct(q.working, src, usd)
           t == [q EXCEPT !.working = [left EXCEPT ![Home] = @ + credit],
                          !.sent[src] = @ + usd]
           u == [t EXCEPT !.at = NextDue(t)]
<1>1. CycleInv(u)
  BY AtIs, CommitKeeps
<1>2. tick' = [tick EXCEPT ![p] = u]
  BY DEF Commit, Advance
<1>3. MoneyInv'
  BY SendKeeps, BridgeTokenIs DEF SendBridgeToken, SidecarInv
<1> HIDE DEF u
<1> QED  BY <1>1, <1>2, <1>3, CallerMoves DEF SidecarInv

LEMMA GasTopupSteps == ASSUME SidecarInv, NEW p \in Callers, GasTopup(p)  PROVE SidecarInv'
<1> DEFINE src == BestSource(tick[p].working, Here(p), GasTopupUsd)
<1>0. At(p, "gas") /\ GasTopupUsd \in Nat
  BY AmountAssumption DEF GasTopup
<1>1. /\ Here(p) \in Chains /\ tick[p] \in Progress
      /\ Sources(tick[p].working, Here(p), GasTopupUsd) # {}
  BY <1>0, AtIs, DueIs
<1>2. src \in Chains /\ Spare(tick[p].working, src) >= GasTopupUsd
  BY <1>0, <1>1, SourceIs
<1>3. GasTopupUsd <= Spare(tick[p].working, src)
  BY <1>0, <1>1, <1>2, SpareIsInt
<1>4. /\ Commit(p, src, GasTopupUsd, 0)
      /\ SendBridgeToken(p, src, Here(p), "gas", GasTopupUsd)
      /\ UNCHANGED <<sol, holder, cycle, cooldown, shocks>>
  BY DEF GasTopup
<1> HIDE DEF src
<1> QED  BY <1>0, <1>1, <1>2, <1>3, <1>4, CommitStep DEF EarlyPhases

LEMMA StableFillSteps == ASSUME SidecarInv, NEW p \in Callers, StableFill(p)  PROVE SidecarInv'
<1> DEFINE src == BestSource(tick[p].working, Here(p), MinBridgeUsd)
           usd == FillUsd(tick[p], Here(p))
<1>0. At(p, "fill") /\ MinBridgeUsd \in Nat
  BY AmountAssumption DEF StableFill
<1>1. /\ Here(p) \in Chains /\ tick[p] \in Progress
      /\ Sources(tick[p].working, Here(p), MinBridgeUsd) # {}
      /\ FillUsd(tick[p], Here(p)) >= MinBridgeUsd
  BY <1>0, AtIs, DueIs
<1>2. src \in Chains
  BY <1>0, <1>1, SourceIs
<1>3. usd \in Nat /\ usd <= Spare(tick[p].working, src)
  BY <1>1, FillUsdIs
<1>4. /\ Commit(p, src, usd, 0)
      /\ SendBridgeToken(p, src, Here(p), "stable", usd)
      /\ UNCHANGED <<sol, holder, cycle, cooldown, shocks>>
  BY DEF StableFill
<1> HIDE DEF src, usd
<1> QED  BY <1>0, <1>1, <1>2, <1>3, <1>4, CommitStep DEF EarlyPhases

LEMMA ClaimSweepSteps == ASSUME SidecarInv, NEW p \in Callers, ClaimSweep(p)  PROVE SidecarInv'
<1> DEFINE usd == SweepUsd(tick[p], Here(p))
<1>0. PICK phase \in {"sweep", "recover"} : At(p, phase)
  BY DEF ClaimSweep
<1>1. /\ Here(p) \in Chains /\ tick[p] \in Progress
      /\ Here(p) # Home /\ SweepUsd(tick[p], Here(p)) >= MinBridgeUsd
  BY <1>0, AtIs, DueIs, TargetAssumption DEF SrcOnly
<1>2. usd \in Nat /\ usd <= Spare(tick[p].working, Here(p))
  BY <1>1, SweepUsdIs
<1>3. /\ Commit(p, Here(p), usd, usd)
      /\ SendBridgeToken(p, Here(p), Home, "stable", usd)
      /\ UNCHANGED <<sol, holder, cycle, cooldown, shocks>>
  BY DEF ClaimSweep
<1>4. Home \in Chains /\ phase \in LatePhases /\ phase # "solana"
  BY TargetFacts DEF LatePhases
<1> HIDE DEF usd
<1> QED  BY <1>0, <1>1, <1>2, <1>3, <1>4, CommitStep

LEMMA BootstrapSteps == ASSUME SidecarInv, NEW p \in Callers, Bootstrap(p)  PROVE SidecarInv'
<1> DEFINE q == tick[p]
           gas == [c \in Chains |-> q.snap[c].gas]
           S == Donors(q, Here(p))
           src == LastBest(S, gas)
           left == Deduct(q.working, src, BootstrapUsd)
           t == [q EXCEPT !.working = left]
<1>0. At(p, "bootstrap") /\ BootstrapUsd \in Nat
  BY AmountAssumption DEF Bootstrap
<1>1. /\ Here(p) \in Chains /\ q \in Progress /\ S # {}
      /\ q.stage = "acting" /\ q.at < Len(Plan) /\ WithinSnapshot(q)
  BY <1>0, AtIs, DueIs
<1>2. /\ Advance(p, t) /\ SendBridgeToken(p, src, Here(p), "gas", BootstrapUsd)
      /\ UNCHANGED <<sol, holder, cycle, cooldown, shocks>>
  BY DEF Bootstrap
<1>3. src \in Chains /\ q.working[src] >= BootstrapUsd
  <2>1. S \in SUBSET Chains /\ \A c \in S : q.working[c] >= BootstrapUsd
    BY DEF Donors
  <2>2. \A c \in S : gas[c] \in Int
    BY <1>1, <2>1, SnapIsNat DEF Balances
  <2> HIDE DEF S, gas
  <2>3. src \in S
    BY <1>1, <2>1, <2>2, LastBestIsOne
  <2> QED  BY <2>1, <2>3
<1> HIDE DEF src, S, gas
<1>4. /\ left \in [Chains -> Nat]
      /\ \A c \in Chains : left[c] <= q.working[c]
  <2>1. q.working \in [Chains -> Nat] /\ \A c \in Chains : q.working[c] \in Nat
    BY <1>1 DEF Progress
  <2> HIDE DEF q
  <2>2. left = [q.working EXCEPT ![src] = q.working[src] - BootstrapUsd]
    BY <2>1 DEF Deduct
  <2>3. q.working[src] - BootstrapUsd \in Nat /\ q.working[src] - BootstrapUsd <= q.working[src]
    BY <1>0, <1>3, <2>1
  <2> DEFINE w == q.working
             rest == w[src] - BootstrapUsd
  <2>4. /\ w \in [Chains -> Nat] /\ rest \in Nat /\ rest <= w[src]
        /\ left = [w EXCEPT ![src] = rest]
    BY <2>1, <2>2, <2>3
  <2> HIDE DEF left, w, rest
  <2>5. left \in [Chains -> Nat]
    BY <2>4
  <2>6. \A c \in Chains : w[c] \in Nat /\ left[c] = IF c = src THEN rest ELSE w[c]
    BY <2>4
  <2>7. \A c \in Chains : left[c] <= w[c]
    BY <2>4, <2>6
  <2> QED  BY <2>5, <2>7 DEF w
<1> HIDE DEF left
<1>5. /\ t \in Progress /\ t.stage = "acting" /\ t.at = q.at /\ t.snap = q.snap
      /\ t.working = left /\ t.sent = q.sent
  BY <1>1, <1>4 DEF Progress
<1> HIDE DEF t
<1>6. WithinSnapshot(t)
  <2>1. ASSUME NEW c \in Chains, c # Home \/ t.at <= BeforeSweeps
        PROVE  t.working[c] + t.sent[c] <= Stable(t.snap[c])
    <3>1. q.working[c] + q.sent[c] <= Stable(q.snap[c])
      BY <1>1, <1>5, <2>1 DEF WithinSnapshot
    <3>2. left[c] \in Nat /\ left[c] <= q.working[c]
      BY <1>4
    <3>3. q.working[c] \in Nat /\ q.sent[c] \in Nat /\ Stable(q.snap[c]) \in Nat
      BY <1>1, SnapIsNat
    <3> QED  BY <1>5, <3>1, <3>2, <3>3
  <2>2. \A c \in Chains : t.sent[c] > 0 => t.sent[c] <= Stable(t.snap[c]) - Reserve(c)
    BY <1>1, <1>5 DEF WithinSnapshot
  <2> QED  BY <2>1, <2>2 DEF WithinSnapshot
<1>7. CycleInv([t EXCEPT !.at = NextDue(t)])
  BY <1>1, <1>5, <1>6, MovesOn
<1>8. MoneyInv'
  BY <1>0, <1>1, <1>2, SendKeeps, BridgeTokenIs DEF SendBridgeToken, SidecarInv
<1> QED  BY <1>2, <1>7, <1>8, CallerMoves DEF SidecarInv, Advance

(* The step itself commits nothing.                                        *)
LEMMA JustMovesOn ==
  ASSUME SidecarInv, NEW p \in Callers, NEW phase, At(p, phase), phase # "solana",
         Advance(p, tick[p]), MoneyInv', UNCHANGED <<sol, holder, cooldown, shocks>>
  PROVE  SidecarInv'
<1>1. CycleInv([tick[p] EXCEPT !.at = NextDue(tick[p])])
  BY AtIs, MovesOn
<1> QED  BY <1>1, CallerMoves DEF SidecarInv, Advance

LEMMA ToGasKeeps ==
  ASSUME MoneyInv, NEW c, NEW k \in {"weth", "sec"}, NEW left,
         c \in Chains => left \in Nat, ToGas(c, k, left), UNCHANGED transit
  PROVE  MoneyInv'
<1>1. CASE c \in Chains
  <2> DEFINE new == [[funds[c] EXCEPT ![k] = left] EXCEPT !.gas = EnoughGas]
  <2>1. new \in Balances
    BY <1>1, AmountAssumption DEF MoneyInv, Balances
  <2>2. funds' = [funds EXCEPT ![c] = new]
    BY <1>1 DEF ToGas, MoneyInv
  <2> HIDE DEF new
  <2> QED  BY <2>1, <2>2 DEF MoneyInv
<1>2. CASE c \notin Chains
  BY <1>2 DEF ToGas, MoneyInv
<1> QED  BY <1>1, <1>2

LEMMA UnwrapSteps == ASSUME SidecarInv, NEW p \in Callers, Unwrap(p)  PROVE SidecarInv'
<1>1. At(p, "unwrap") /\ Advance(p, tick[p]) /\ UNCHANGED <<sol, transit, holder, cycle, cooldown, shocks>>
  BY DEF Unwrap
<1>2. \/ UNCHANGED funds
      \/ \E c : ToGas(c, "weth", 0)
      \/ /\ Covered(Home, "sec", UsdtSwapUsd)
         /\ ToGas(Home, "sec", funds[Home].sec - UsdtSwapUsd)
  BY DEF Unwrap
<1>3. MoneyInv'
  <2>1. CASE UNCHANGED funds
    BY <1>1, <2>1, MoneyStays DEF SidecarInv
  <2>2. CASE \E c : ToGas(c, "weth", 0)
    BY <1>1, <2>2, ToGasKeeps DEF SidecarInv
  <2>3. CASE /\ Covered(Home, "sec", UsdtSwapUsd)
             /\ ToGas(Home, "sec", funds[Home].sec - UsdtSwapUsd)
    <3>1. funds[Home].sec - UsdtSwapUsd \in Nat
      <4>1. funds[Home] \in Balances
        BY TargetFacts DEF SidecarInv, MoneyInv
      <4>2. funds[Home].sec \in Nat /\ UsdtSwapUsd \in Nat /\ funds[Home].sec >= UsdtSwapUsd
        BY <2>3, <4>1, AmountAssumption DEF Covered, Balances
      <4> QED  BY <4>2
    <3> QED  BY <1>1, <2>3, <3>1, ToGasKeeps DEF SidecarInv
  <2> QED  BY <1>2, <2>1, <2>2, <2>3
<1> QED  BY <1>1, <1>3, JustMovesOn

(* A chain's gas changes and one transfer is added.                        *)
LEMMA GasKeeps ==
  ASSUME MoneyInv, NEW c, NEW g \in Nat, NEW x, TransferOK(x),
         funds' = [funds EXCEPT ![c].gas = g], transit' = transit (+) SetToBag({x})
  PROVE  MoneyInv'
<1>1. BagToSet(transit') = BagToSet(transit) \cup {x}
  BY DEF BagToSet, SetToBag, (+)
<1>2. funds' \in [Chains -> Balances]
  BY DEF MoneyInv, Balances
<1> QED  BY <1>1, <1>2 DEF MoneyInv

LEMMA NativeSweepSteps == ASSUME SidecarInv, NEW p \in Callers, NativeSweep(p)  PROVE SidecarInv'
<1> DEFINE x == [dst |-> Home, kind |-> "stable", usd |-> NativeUsd]
<1>1. At(p, "native") /\ Advance(p, tick[p]) /\ UNCHANGED <<sol, holder, cycle, cooldown, shocks>>
  BY DEF NativeSweep
<1>2. \/ /\ funds' = [funds EXCEPT ![Here(p)].gas = EnoughGas]
         /\ transit' = transit (+) SetToBag({x})
      \/ UNCHANGED <<funds, transit>>
  BY DEF NativeSweep
<1>3. TransferOK(x) /\ EnoughGas \in Nat
  BY TargetFacts, AmountAssumption DEF TransferOK
<1> HIDE DEF x
<1>4. MoneyInv'
  BY <1>2, <1>3, GasKeeps, MoneyStays DEF SidecarInv
<1> QED  BY <1>1, <1>4, JustMovesOn

LEMMA BridgeSolanaSteps == ASSUME SidecarInv, NEW p \in Callers, BridgeSolana(p)  PROVE SidecarInv'
<1> DEFINE q == tick[p]
           u == [q EXCEPT !.at = Len(Plan) + 1]
<1>1. At(p, "solana") /\ tick' = [tick EXCEPT ![p] = u] /\ UNCHANGED <<sol, holder, cycle, shocks>>
  BY DEF BridgeSolana
<1>2. q \in Progress /\ q.stage = "acting" /\ WithinSnapshot(q) /\ q.at <= Len(Plan)
      /\ Len(Plan) \in Nat /\ q.at \in Nat
  BY <1>1, AtIs, PlanIs, TargetFacts DEF Progress
<1>3. CycleInv(u)
  <2>1. Len(Plan) + 1 \in 0..(Len(Plan) + 1) /\ Len(Plan) + 1 > 0 /\ ~(Len(Plan) + 1 <= Len(Plan))
        /\ q.at <= Len(Plan) + 1
    BY <1>2
  <2>2. /\ u \in Progress /\ u.stage = "acting" /\ u.at = Len(Plan) + 1 /\ u.snap = q.snap
        /\ u.working = q.working /\ u.sent = q.sent
    BY <1>2, <2>1 DEF Progress
  <2>3. u.at <= BeforeSweeps => q.at <= BeforeSweeps
    BY <1>2, <2>2, TargetFacts DEF BeforeSweeps
  <2> HIDE DEF u, q
  <2>4. WithinSnapshot(u)
    BY <1>2, <2>2, <2>3 DEF WithinSnapshot
  <2> QED  BY <2>1, <2>2, <2>4 DEF CycleInv
<1> HIDE DEF u
<1>4. \/ /\ cooldown' = Cooldown
         /\ ToSolana(Home, BridgeToken(q.snap[Home]), SolanaBridgeUsd)
      \/ SendDirect(q.snap) /\ UNCHANGED cooldown
      \/ (\E c : SendEth(c)) /\ UNCHANGED cooldown
      \/ UNCHANGED <<funds, transit, cooldown>>
  BY DEF BridgeSolana
<1>5. cooldown' \in 0..Cooldown
  BY <1>4, AmountAssumption DEF SidecarInv
<1>6. MoneyInv'
  <2>1. CASE ToSolana(Home, BridgeToken(q.snap[Home]), SolanaBridgeUsd)
    BY <2>1, SendKeeps, BridgeTokenIs, AmountAssumption DEF ToSolana, SidecarInv
  <2>2. CASE SendDirect(q.snap)
    <3>1. PICK src : ToSolana(src, "prim", BridgeUsd(q.snap[src]))
      BY <2>2 DEF SendDirect
    <3>2. src \in Chains => BridgeUsd(q.snap[src]) \in Nat
      BY <1>2, SnapIsNat, BridgeTokenIs
    <3> QED  BY <3>1, <3>2, SendKeeps DEF ToSolana, SidecarInv
  <2>3. CASE \E c : SendEth(c)
    <3> DEFINE x == [dst |-> Solana, kind |-> "sol", usd |-> 0]
    <3>1. PICK c : \/ /\ funds' = [funds EXCEPT ![c].gas = GasToSend]
                      /\ transit' = transit (+) SetToBag({x})
                   \/ UNCHANGED <<funds, transit>>
      BY <2>3 DEF SendEth
    <3>2. TransferOK(x) /\ GasToSend \in Nat
      BY AmountAssumption DEF TransferOK
    <3> HIDE DEF x
    <3> QED  BY <3>1, <3>2, GasKeeps, MoneyStays DEF SidecarInv
  <2> QED  BY <1>4, <2>1, <2>2, <2>3, MoneyStays DEF SidecarInv
<1> QED  BY <1>1, <1>3, <1>5, <1>6, CallerMoves DEF SidecarInv

(* The world outside leaves the cycles alone.                              *)
LEMMA WorldMoves ==
  ASSUME SidecarInv, UNCHANGED <<tick, holder>>, MoneyInv', sol' \in BOOLEAN,
         cooldown' \in 0..Cooldown, shocks' \in 0..MaxShocks
  PROVE  SidecarInv'
BY DEF SidecarInv, CycleInv, WithinSnapshot

LEMMA DeliverSteps == ASSUME SidecarInv, Deliver  PROVE SidecarInv'
<1>1. PICK x \in BagToSet(transit) :
        /\ transit' = transit (-) SetToBag({x})
        /\ \/ /\ x.kind = "stable"
              /\ funds' = [funds EXCEPT ![x.dst].prim = @ + x.usd]
              /\ UNCHANGED sol
           \/ /\ x.kind = "gas"
              /\ funds' = [funds EXCEPT ![x.dst].gas = IF @ > EnoughGas THEN @ ELSE EnoughGas]
              /\ UNCHANGED sol
           \/ x.kind = "sol" /\ sol' = TRUE /\ UNCHANGED funds
        /\ UNCHANGED <<holder, cycle, tick, cooldown, shocks>>
  BY DEF Deliver
<1>2. BagToSet(transit') \subseteq BagToSet(transit)
  BY <1>1 DEF BagToSet, SetToBag, (-)
<1>3. TransferOK(x) /\ funds \in [Chains -> Balances]
  BY DEF SidecarInv, MoneyInv
<1>4. funds' \in [Chains -> Balances]
  <2>1. CASE x.kind = "stable" /\ funds' = [funds EXCEPT ![x.dst].prim = @ + x.usd]
    BY <1>3, <2>1 DEF TransferOK, Balances
  <2>2. CASE /\ x.kind = "gas"
             /\ funds' = [funds EXCEPT ![x.dst].gas = IF @ > EnoughGas THEN @ ELSE EnoughGas]
    BY <1>3, <2>2, AmountAssumption DEF TransferOK, Balances
  <2> QED  BY <1>1, <1>3, <2>1, <2>2
<1>5. MoneyInv'
  BY <1>2, <1>4 DEF SidecarInv, MoneyInv
<1> QED  BY <1>1, <1>5, WorldMoves DEF SidecarInv

LEMMA ShockSteps == ASSUME SidecarInv, Shock  PROVE SidecarInv'
<1>1. /\ shocks < MaxShocks /\ shocks' = shocks + 1
      /\ UNCHANGED <<sol, transit, holder, cycle, tick, cooldown>>
  BY DEF Shock
<1>2. PICK c \in FillChains :
       \/ funds[c].prim > 0 /\ funds' = [funds EXCEPT ![c].prim = @ - 1]
       \/ funds[c].gas > GasToSend /\ funds' = [funds EXCEPT ![c].gas = GasToSend]
  BY DEF Shock
<1>3. funds \in [Chains -> Balances] /\ c \in Chains /\ GasToSend \in Nat
  BY TargetAssumption, AmountAssumption DEF SidecarInv, MoneyInv
<1>4. funds' \in [Chains -> Balances]
  BY <1>2, <1>3 DEF Balances
<1>5. MoneyInv'
  BY <1>1, <1>4 DEF SidecarInv, MoneyInv
<1>6. shocks' \in 0..MaxShocks
  BY <1>1, AmountAssumption DEF SidecarInv
<1> QED  BY <1>1, <1>5, <1>6, WorldMoves DEF SidecarInv

LEMMA ClockSteps == ASSUME SidecarInv, Clock  PROVE SidecarInv'
<1>1. cooldown' \in 0..Cooldown /\ UNCHANGED <<funds, sol, transit, holder, tick, shocks>>
  BY AmountAssumption DEF Clock, SidecarInv
<1>2. MoneyInv'
  BY <1>1, MoneyStays DEF SidecarInv
<1> QED  BY <1>1, <1>2, WorldMoves DEF SidecarInv

LEMMA NextSidecar == SidecarInv /\ [Next]_vars => SidecarInv'
<1> SUFFICES ASSUME SidecarInv, [Next]_vars  PROVE SidecarInv'
  OBVIOUS
<1>1. CASE WakeLoop \/ \E p \in Triggers : Trigger(p)
  BY <1>1, WaitSteps
<1>2. ASSUME NEW p \in Callers, BeginTick(p)  PROVE SidecarInv'
  BY <1>2, BeginSteps
<1>3. ASSUME NEW p \in Callers, InCycle(p)  PROVE SidecarInv'
  <2>1. CASE \E c \in Chains : ScanChain(p, c)
    BY <2>1, ScanSteps
  <2>2. CASE EndTick(p)
    BY <2>2, EndSteps
  <2>3. CASE Step(p)
    BY <2>3, UnwrapSteps, BootstrapSteps, GasTopupSteps, StableFillSteps, ClaimSweepSteps,
       NativeSweepSteps, BridgeSolanaSteps DEF Step
  <2> QED  BY <1>3, <2>1, <2>2, <2>3 DEF InCycle
<1>4. CASE Deliver
  BY <1>4, DeliverSteps
<1>5. CASE Shock
  BY <1>5, ShockSteps
<1>6. CASE Clock
  BY <1>6, ClockSteps
<1>7. CASE UNCHANGED vars
  <2>1. UNCHANGED <<funds, sol, transit, holder, tick, cooldown, shocks>>
    BY <1>7 DEF vars
  <2>2. MoneyInv'
    BY <2>1, MoneyStays DEF SidecarInv
  <2> QED  BY <2>1, <2>2, WorldMoves DEF SidecarInv
<1> QED  BY <1>1, <1>2, <1>3, <1>4, <1>5, <1>6, <1>7 DEF Next

LEMMA InitSidecar == Init => SidecarInv
<1> SUFFICES ASSUME Init  PROVE SidecarInv
  OBVIOUS
<1>1. /\ funds \in Wallets /\ sol = FALSE /\ transit = EmptyBag /\ holder = "nobody"
      /\ tick = [p \in Callers |-> Idle] /\ cooldown = 0 /\ shocks = 0
  BY DEF Init
<1>2. BagToSet(transit) = {}
  BY <1>1 DEF EmptyBag, BagToSet, SetToBag
<1>3. MoneyInv
  BY <1>1, <1>2, WalletAssumption DEF MoneyInv
<1>4. Idle \in Progress /\ CycleInv(Idle)
  BY IdleIsFine DEF CycleInv
<1>5. tick \in [Callers -> Progress] /\ \A p \in Callers : tick[p] = Idle
  BY <1>1, <1>4
<1>6. 0 \in 0..Cooldown /\ 0 \in 0..MaxShocks
  BY AmountAssumption
<1> QED  BY <1>1, <1>3, <1>4, <1>5, <1>6 DEF SidecarInv

(* Every transfer, gas top-up, swap, fill and delivery keeps every balance *)
(* of every chain, and every balance a cycle works with, at zero or above, *)
(* and a cycle never runs off its plan.                                    *)
THEOREM SidecarTypeCorrect == Spec => []TypeOK
<1>1. SidecarInv => TypeOK
  <2> SUFFICES ASSUME SidecarInv  PROVE TypeOK
    OBVIOUS
  <2>1. \A c \in Chains : funds[c] \in Balances
    BY DEF SidecarInv, MoneyInv
  <2>2. ASSUME NEW p \in Callers
        PROVE  /\ tick[p].stage \in {"idle", "waiting", "scanning", "acting"}
               /\ tick[p].at \in 0..(Len(Plan) + 1)
               /\ tick[p].toScan \subseteq Chains
               /\ \A c \in Chains : tick[p].working[c] \in Nat
    <3>1. tick[p] \in Progress
      BY DEF SidecarInv
    <3> QED  BY <3>1 DEF Progress
  <2> QED  BY <2>1, <2>2 DEF TypeOK, SidecarInv
<1> QED  BY <1>1, InitSidecar, NextSidecar, PTL DEF Spec

(* Whatever the targets and limits: the gas top-ups, fills and sweeps of   *)
(* one cycle never promise more of a chain than its scan found there, nor  *)
(* a fill chain's reserve, however many targets one source serves.         *)
THEOREM SweepsAndFillsAreCovered == Spec => []CommitmentsAreCovered
<1>1. SidecarInv => CommitmentsAreCovered
  BY DEF SidecarInv, CycleInv, WithinSnapshot, CommitmentsAreCovered
<1> QED  BY <1>1, InitSidecar, NextSidecar, PTL DEF Spec
=============================================================================
