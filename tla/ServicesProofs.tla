---------------------------- MODULE ServicesProofs ----------------------------
(***************************************************************************)
(* The components that share no state, for any instance: how long an order *)
(* stays marked as a competitor's and how old a gas price may be that a    *)
(* verdict rests on; the types of every component; and that side by side   *)
(* they still run each its own specification and keep its invariants.      *)
(***************************************************************************)
EXTENDS MCServices, DonutProofs, OneUseProofs, SendProofs, FiniteSetTheorems,
        WellFoundedInduction, TLAPS

-----------------------------------------------------------------------------
(* mempool-monitor                                                         *)

MonitorSpec == MonitorInit /\ [][MonitorNext]_monitorVars

MonitorInv == DOMAIN txPhase = PendingTxs /\ MarksFollowSleeps

(* Neither the marks nor the sleeps change.                                *)
LEMMA NoSleepChanges ==
  ASSUME MonitorInv, UNCHANGED <<inFlight, cutShort>>, DOMAIN txPhase' = PendingTxs,
         \A t \in PendingTxs : txPhase'[t] = "sleeping" <=> txPhase[t] = "sleeping"
  PROVE  MonitorInv'
BY DEF MonitorInv, MarksFollowSleeps, Sleeping

LEMMA MonitorStep == MonitorInv /\ [MonitorNext]_monitorVars => MonitorInv'
<1> SUFFICES ASSUME MonitorInv, [MonitorNext]_monitorVars  PROVE MonitorInv'
  OBVIOUS
<1> DOMAIN txPhase = PendingTxs
  BY DEF MonitorInv
<1>1. ASSUME NEW c \in Watches, WatchUp(c) \/ WatchDown(c)  PROVE MonitorInv'
  BY <1>1, NoSleepChanges DEF WatchUp, WatchDown
<1>2. ASSUME NEW t \in PendingTxs, Announce(t) \/ Ignore(t)  PROVE MonitorInv'
  BY <1>2, NoSleepChanges DEF Announce, Ignore
<1>3. ASSUME NEW t \in PendingTxs, MarkInFlight(t)  PROVE MonitorInv'
  <2>1. /\ txPhase' = [txPhase EXCEPT ![t] = "sleeping"]
        /\ inFlight' = inFlight \cup {OrderIn[t]} /\ cutShort' = cutShort
    BY <1>3 DEF MarkInFlight
  <2>2. ASSUME NEW key \in inFlight'  PROVE Sleeping(key)' # {}
    BY <2>1 DEF MonitorInv, MarksFollowSleeps, Sleeping
  <2>3. ASSUME NEW u \in PendingTxs, txPhase'[u] = "sleeping"
        PROVE  OrderIn[u] \in inFlight' \/ u \in cutShort'
    BY <2>1, <2>3 DEF MonitorInv, MarksFollowSleeps
  <2> QED  BY <2>1, <2>2, <2>3 DEF MonitorInv, MarksFollowSleeps
<1>4. ASSUME NEW t \in PendingTxs, ClearInFlight(t)  PROVE MonitorInv'
  <2>1. /\ txPhase' = [txPhase EXCEPT ![t] = "over"]
        /\ inFlight' = inFlight \ {OrderIn[t]}
        /\ cutShort' = cutShort \cup (Sleeping(OrderIn[t]) \ {t})
    BY <1>4 DEF ClearInFlight
  <2>2. ASSUME NEW key \in inFlight'  PROVE Sleeping(key)' # {}
    <3>1. key \in inFlight /\ key # OrderIn[t]
      BY <2>1
    <3>2. PICK u \in PendingTxs : txPhase[u] = "sleeping" /\ OrderIn[u] = key
      BY <3>1 DEF MonitorInv, MarksFollowSleeps, Sleeping
    <3> QED  BY <2>1, <3>1, <3>2 DEF Sleeping
  <2>3. ASSUME NEW u \in PendingTxs, txPhase'[u] = "sleeping"
        PROVE  OrderIn[u] \in inFlight' \/ u \in cutShort'
    <3>1. u # t /\ txPhase[u] = "sleeping"
      BY <2>1, <2>3
    <3> QED  BY <2>1, <3>1 DEF MonitorInv, MarksFollowSleeps, Sleeping
  <2> QED  BY <2>1, <2>2, <2>3 DEF MonitorInv, MarksFollowSleeps
<1>5. CASE UNCHANGED monitorVars
  BY <1>5, NoSleepChanges DEF monitorVars
<1> QED  BY <1>1, <1>2, <1>3, <1>4, <1>5 DEF MonitorNext

(* Every mark has a sleep that will clear it, and a sighting loses its     *)
(* mark before its own sleep ends only to a sighting of the same order.    *)
THEOREM MarksLastAsLongAsSleeps == MonitorSpec => []MarksFollowSleeps
<1>1. MonitorInit => MonitorInv
  BY DEF MonitorInit, MonitorInv, MarksFollowSleeps, Sleeping
<1>2. MonitorInv => MarksFollowSleeps
  BY DEF MonitorInv
<1> QED  BY <1>1, <1>2, MonitorStep, PTL DEF MonitorSpec

\* Nothing is marked at the start.
LEMMA MonitorTypesInit == MonitorInit => MonitorTypeOK
BY DEF MonitorInit, MonitorTypeOK

\* Only orders that were sighted are marked.
LEMMA MonitorTypesStep == MonitorTypeOK /\ [MonitorNext]_monitorVars => MonitorTypeOK'
<1> SUFFICES ASSUME MonitorTypeOK, [MonitorNext]_monitorVars  PROVE MonitorTypeOK'
  OBVIOUS
<1> USE DEF MonitorTypeOK
<1>1. ASSUME NEW c \in Watches, WatchUp(c) \/ WatchDown(c)  PROVE MonitorTypeOK'
  BY <1>1 DEF WatchUp, WatchDown
<1>2. ASSUME NEW t \in PendingTxs, Announce(t) \/ Ignore(t)  PROVE MonitorTypeOK'
  BY <1>2 DEF Announce, Ignore
<1>3. ASSUME NEW t \in PendingTxs, MarkInFlight(t)  PROVE MonitorTypeOK'
  BY <1>3 DEF MarkInFlight
<1>4. ASSUME NEW t \in PendingTxs, ClearInFlight(t)  PROVE MonitorTypeOK'
  BY <1>4 DEF ClearInFlight, Sleeping
<1>5. CASE UNCHANGED monitorVars
  BY <1>5 DEF monitorVars
<1> QED  BY <1>1, <1>2, <1>3, <1>4, <1>5 DEF MonitorNext

-----------------------------------------------------------------------------
(* profit-calc                                                             *)

ProfitSpec == ProfitInit /\ [][ProfitNext]_profitVars

(* Nobody has stepped the wall clock: an entry was timed no later than one *)
(* call's time after its price was read, and a call is not out longer.     *)
PricesAreTimed ==
  clockSteps = 0 =>
    /\ wallClock = realTime
    /\ \A c \in GasChains : gasCache[c] # NoEntry =>
         /\ gasCache[c].stamp \in Int /\ gasCache[c].readAt \in Int
         /\ gasCache[c].stamp - gasCache[c].readAt <= FetchTimeout
    /\ calc # NoCalc => calc.since \in Int /\ realTime - calc.since <= FetchTimeout

ProfitInv ==
  /\ DOMAIN gasCache = GasChains
  /\ realTime \in Int /\ wallClock \in Int /\ clockSteps \in Nat
  /\ PricesAreTimed
  /\ PriceIsFresh

(* The clocks stand still and the verdict, if any is new, is young.        *)
LEMMA AnswerKeepsInv ==
  ASSUME ProfitInv, UNCHANGED <<realTime, wallClock, clockSteps>>,
         gasCache' = gasCache, PricesAreTimed',
         clockSteps = 0 => verdict' = verdict \/ verdict'.age < CacheTtl + FetchTimeout
  PROVE  ProfitInv'
BY DEF ProfitInv, PriceIsFresh

LEMMA ProfitStep == ProfitInv /\ [ProfitNext]_profitVars => ProfitInv'
<1> SUFFICES ASSUME ProfitInv, [ProfitNext]_profitVars  PROVE ProfitInv'
  OBVIOUS
<1> USE CacheAssumption
<1>0. ASSUME UNCHANGED <<realTime, wallClock, clockSteps, gasCache>>, calc' \in {calc, NoCalc}
      PROVE  PricesAreTimed'
  BY <1>0 DEF ProfitInv, PricesAreTimed
<1>1. ASSUME NEW p \in Protocols, NEW c \in GasChains, CachedPrice(p, c)  PROVE ProfitInv'
  <2>1. /\ Fresh(gasCache[c]) /\ UNCHANGED <<realTime, wallClock, clockSteps, gasCache, calc>>
        /\ verdict'.age = realTime - gasCache[c].readAt
    BY <1>1 DEF CachedPrice, VerdictOf
  <2>2. clockSteps = 0 => realTime - gasCache[c].readAt < CacheTtl + FetchTimeout
    BY <2>1 DEF Fresh, ProfitInv, PricesAreTimed
  <2> QED  BY <1>0, <2>1, <2>2, AnswerKeepsInv
<1>2. ASSUME NEW p \in Protocols, NEW c \in GasChains, AskPrice(p, c)  PROVE ProfitInv'
  <2>1. /\ UNCHANGED <<realTime, wallClock, clockSteps, gasCache, verdict>>
        /\ calc'.since = realTime
    BY <1>2 DEF AskPrice
  <2>2. PricesAreTimed'
    BY <2>1 DEF ProfitInv, PricesAreTimed
  <2> QED  BY <2>1, <2>2, AnswerKeepsInv
<1>3. ASSUME NEW gwei, PriceArrives(gwei)  PROVE ProfitInv'
  <2>1. /\ UNCHANGED <<realTime, wallClock, clockSteps>> /\ calc # NoCalc /\ calc' = NoCalc
        /\ gasCache' = [gasCache EXCEPT ![calc.chain] =
                          [gwei |-> gwei, stamp |-> wallClock, readAt |-> calc.since]]
        /\ verdict'.age = realTime - calc.since
    BY <1>3 DEF PriceArrives, VerdictOf
  <2>2. PricesAreTimed'
    BY <2>1 DEF ProfitInv, PricesAreTimed
  <2>3. PriceIsFresh'
    BY <2>1 DEF ProfitInv, PricesAreTimed, PriceIsFresh
  <2> QED  BY <2>1, <2>2, <2>3 DEF ProfitInv
<1>4. CASE PriceUnavailable \/ BadAmount
  <2>1. /\ UNCHANGED <<realTime, wallClock, clockSteps, gasCache>> /\ calc' \in {calc, NoCalc}
        /\ verdict'.age = 0
    BY <1>4 DEF PriceUnavailable, BadAmount, VerdictOf, NoVerdict
  <2> QED  BY <1>0, <2>1, AnswerKeepsInv
<1>5. CASE Second
  <2>1. /\ UNCHANGED <<clockSteps, gasCache, calc, verdict>>
        /\ calc = NoCalc \/ realTime < calc.since + FetchTimeout
        /\ realTime' = realTime + 1 /\ wallClock' = wallClock + 1
    BY <1>5 DEF Second
  <2> QED  BY <2>1 DEF ProfitInv, PricesAreTimed, PriceIsFresh
<1>6. CASE StepClock
  <2>1. /\ UNCHANGED <<realTime, gasCache, calc, verdict>>
        /\ clockSteps' = clockSteps + 1 /\ wallClock' \in Int
    BY <1>6 DEF StepClock
  <2>2. clockSteps' \in Nat /\ clockSteps' # 0
    BY <2>1 DEF ProfitInv
  <2> QED  BY <2>1, <2>2 DEF ProfitInv, PricesAreTimed, PriceIsFresh
<1>7. CASE UNCHANGED profitVars
  BY <1>7 DEF profitVars, ProfitInv, PricesAreTimed, PriceIsFresh
<1> QED  BY <1>1, <1>2, <1>3, <1>4, <1>5, <1>6, <1>7 DEF ProfitNext

(* Whatever the market does and however long the API takes: as long as the *)
(* wall clock is not stepped, no verdict rests on a price older than the   *)
(* cache's time to live and one call.                                      *)
THEOREM VerdictsRestOnFreshPrices == ProfitSpec => []PriceIsFresh
<1>1. ProfitInit => ProfitInv
  BY CacheAssumption DEF ProfitInit, ProfitInv, PricesAreTimed, PriceIsFresh, NoVerdict
<1>2. ProfitInv => PriceIsFresh
  BY DEF ProfitInv
<1> QED  BY <1>1, <1>2, ProfitStep, PTL DEF ProfitSpec

(* An entry of the cache and a call under way were read at a time that is past. *)
ProfitTyped ==
  /\ rank \in [IntelIds -> 1..2] /\ market \in [GasChains -> GasLevels]
  /\ realTime \in 0..MaxTime /\ wallClock \in 0..MaxTime /\ clockSteps \in 0..MaxClockSteps
  /\ DOMAIN gasCache = GasChains
  /\ \A c \in GasChains :
       /\ gasCache[c].readAt \in -1..realTime
       /\ gasCache[c] # NoEntry => gasCache[c].readAt \in Nat
  /\ calc # NoCalc => calc.chain \in GasChains /\ calc.since \in 0..realTime
  /\ verdict.profitable \in BOOLEAN /\ verdict.age \in Nat

\* A verdict is one way or the other, and as old as its price.
LEMMA VerdictIsTyped ==
  ASSUME NEW p, NEW cost, NEW old \in Nat
  PROVE  VerdictOf(p, cost, old).profitable \in BOOLEAN /\ VerdictOf(p, cost, old).age = old
BY DEF VerdictOf

\* The cache starts empty.
LEMMA ProfitTypesInit == ProfitInit => ProfitTyped
<1> SUFFICES ASSUME ProfitInit  PROVE ProfitTyped
  OBVIOUS
<1>1. NoEntry.readAt = -1 /\ NoVerdict.profitable \in BOOLEAN /\ NoVerdict.age = 0
  BY DEF NoEntry, NoVerdict
<1> QED  BY <1>1, ClockAssumption DEF ProfitInit, ProfitTyped

\* No price is read in the future.
LEMMA ProfitTypesStep == ProfitTyped /\ [ProfitNext]_profitVars => ProfitTyped'
<1> SUFFICES ASSUME ProfitTyped, [ProfitNext]_profitVars  PROVE ProfitTyped'
  OBVIOUS
<1> USE ClockAssumption
<1>1. ASSUME NEW p \in Protocols, NEW c \in GasChains, CachedPrice(p, c)  PROVE ProfitTyped'
  <2> DEFINE old == realTime - gasCache[c].readAt
             cost == GasUnits(p, c) * gasCache[c].gwei
  <2>1. /\ Fresh(gasCache[c]) /\ verdict' = VerdictOf(p, cost, old)
        /\ UNCHANGED <<rank, market, realTime, wallClock, clockSteps, gasCache, calc>>
    BY <1>1 DEF CachedPrice
  <2>2. old \in Nat
    BY <2>1 DEF Fresh, ProfitTyped
  <2> HIDE DEF old, cost
  <2>3. verdict'.profitable \in BOOLEAN /\ verdict'.age \in Nat
    BY <2>1, <2>2, VerdictIsTyped
  <2> QED  BY <2>1, <2>3 DEF ProfitTyped
<1>2. ASSUME NEW p \in Protocols, NEW c \in GasChains, AskPrice(p, c)  PROVE ProfitTyped'
  <2>1. calc'.chain = c /\ calc'.since = realTime
        /\ UNCHANGED <<rank, market, realTime, wallClock, clockSteps, gasCache, verdict>>
    BY <1>2 DEF AskPrice
  <2> QED  BY <2>1 DEF ProfitTyped
<1>3. ASSUME NEW gwei, PriceArrives(gwei)  PROVE ProfitTyped'
  <2> DEFINE old == realTime - calc.since
             cost == GasUnits(calc.protocol, calc.chain) * gwei
             entry == [gwei |-> gwei, stamp |-> wallClock, readAt |-> calc.since]
  <2>1. /\ calc # NoCalc /\ calc' = NoCalc /\ verdict' = VerdictOf(calc.protocol, cost, old)
        /\ gasCache' = [gasCache EXCEPT ![calc.chain] = entry]
        /\ UNCHANGED <<rank, market, realTime, wallClock, clockSteps>>
    BY <1>3 DEF PriceArrives
  <2>2. entry.readAt = calc.since /\ old \in Nat /\ calc.since \in 0..realTime
    BY <2>1 DEF ProfitTyped
  <2> HIDE DEF old, cost, entry
  <2>3. verdict'.profitable \in BOOLEAN /\ verdict'.age \in Nat
    BY <2>1, <2>2, VerdictIsTyped
  <2> QED  BY <2>1, <2>2, <2>3 DEF ProfitTyped
<1>4. CASE PriceUnavailable
  <2>1. /\ verdict' = VerdictOf(calc.protocol, FallbackCost[calc.chain], 0) /\ calc' = NoCalc
        /\ UNCHANGED <<rank, market, realTime, wallClock, clockSteps, gasCache>>
    BY <1>4 DEF PriceUnavailable
  <2>2. verdict'.profitable \in BOOLEAN /\ verdict'.age = 0
    BY <2>1, VerdictIsTyped
  <2> QED  BY <2>1, <2>2 DEF ProfitTyped
<1>5. CASE BadAmount
  <2>1. /\ verdict'.profitable \in BOOLEAN /\ verdict'.age = 0
        /\ UNCHANGED <<rank, market, realTime, wallClock, clockSteps, gasCache, calc>>
    BY <1>5 DEF BadAmount, NoVerdict
  <2> QED  BY <2>1 DEF ProfitTyped
<1>6. CASE Second
  <2>1. /\ realTime < MaxTime /\ wallClock < MaxTime
        /\ realTime' = realTime + 1 /\ wallClock' = wallClock + 1
        /\ UNCHANGED <<rank, clockSteps, gasCache, calc, verdict>>
    BY <1>6 DEF Second
  <2>2. market' \in [GasChains -> GasLevels]
    BY <1>6 DEF Second, ProfitTyped
  <2> QED  BY <2>1, <2>2 DEF ProfitTyped
<1>7. CASE StepClock
  <2>1. /\ clockSteps < MaxClockSteps /\ clockSteps' = clockSteps + 1 /\ wallClock' \in 0..MaxTime
        /\ UNCHANGED <<rank, market, realTime, gasCache, calc, verdict>>
    BY <1>7 DEF StepClock
  <2> QED  BY <2>1 DEF ProfitTyped
<1>8. CASE UNCHANGED profitVars
  BY <1>8 DEF profitVars, ProfitTyped
<1> QED  BY <1>1, <1>2, <1>3, <1>4, <1>5, <1>6, <1>7, <1>8 DEF ProfitNext

\* The strengthening gives the types.
LEMMA ProfitTypesHold == ProfitTyped => ProfitTypeOK
BY ClockAssumption DEF ProfitTyped, ProfitTypeOK

-----------------------------------------------------------------------------
(* t3rn-sidecar                                                            *)

\* No intent is posted at the start.
LEMMA SidecarTypesInit == SidecarInit => SidecarTypeOK
BY DEF SidecarInit, SidecarTypeOK

(* A handler moves on.                                                     *)
LEMMA HandlerTypes ==
  ASSUME SidecarTypeOK, NEW n \in Posts, NEW s \in {"none", "estimate", "attestation", "write"},
         handler' = [handler EXCEPT ![n] = s], UNCHANGED <<liveUnlocked, refused>>,
         NEW out \in Outcomes \cup {"pending"}, rows' \in {rows, [rows EXCEPT ![n] = out]},
         left' \subseteq Posts, hung' \subseteq Posts
  PROVE  SidecarTypeOK'
<1>1. handler' \in [Posts -> {"none", "estimate", "attestation", "write"}]
  BY DEF SidecarTypeOK
<1>2. rows' \in [Posts -> Outcomes \cup {"none", "pending"}]
  BY DEF SidecarTypeOK
<1> QED  BY <1>1, <1>2 DEF SidecarTypeOK

\* A row is pending or has an outcome the handler can give.
LEMMA SidecarTypesStep == SidecarTypeOK /\ [SidecarNext]_sidecarVars => SidecarTypeOK'
<1> SUFFICES ASSUME SidecarTypeOK, [SidecarNext]_sidecarVars  PROVE SidecarTypeOK'
  OBVIOUS
<1> "pending" \in Outcomes \cup {"pending"}
  OBVIOUS
<1>1. ASSUME NEW n \in Posts, PostIntent(n)  PROVE SidecarTypeOK'
  <2>1. CASE Locked(posted[n])
    BY <1>1, <2>1 DEF PostIntent, SidecarTypeOK
  <2>2. CASE ~Locked(posted[n])
    <3>1. /\ rows' = [rows EXCEPT ![n] = "pending"]
          /\ \E s \in {"estimate", "write"} : handler' = [handler EXCEPT ![n] = s]
          /\ UNCHANGED <<liveUnlocked, refused, left, hung>>
      BY <1>1, <2>2 DEF PostIntent
    <3> QED  BY <3>1, HandlerTypes DEF SidecarTypeOK
  <2> QED  BY <2>1, <2>2
<1>2. ASSUME NEW n \in Posts, EstimateReturns(n) \/ AttestationReturns(n) \/ CallerLeaves(n)
      PROVE  SidecarTypeOK'
  <2>1. \E s \in {"none", "attestation", "write"} : handler' = [handler EXCEPT ![n] = s]
    BY <1>2 DEF EstimateReturns, AttestationReturns, CallerLeaves
  <2>2. UNCHANGED <<liveUnlocked, rows, refused, hung>> /\ left' \subseteq left \cup {n}
    BY <1>2 DEF EstimateReturns, AttestationReturns, CallerLeaves
  <2> QED  BY <2>1, <2>2, HandlerTypes DEF SidecarTypeOK
<1>3. ASSUME NEW n \in Posts, EstimateHangs(n)  PROVE SidecarTypeOK'
  BY <1>3 DEF EstimateHangs, SidecarTypeOK
<1>4. ASSUME NEW n \in Posts, WriteOutcome(n)  PROVE SidecarTypeOK'
  <2>1. Outcome(n) \in Outcomes
    BY DEF Outcome, Outcomes
  <2>2. /\ rows' = [rows EXCEPT ![n] = Outcome(n)] /\ handler' = [handler EXCEPT ![n] = "none"]
        /\ UNCHANGED <<liveUnlocked, refused, left, hung>>
    BY <1>4 DEF WriteOutcome
  <2> QED  BY <2>1, <2>2, HandlerTypes DEF SidecarTypeOK
<1>5. CASE UNCHANGED sidecarVars
  BY <1>5 DEF sidecarVars, SidecarTypeOK
<1> QED  BY <1>1, <1>2, <1>3, <1>4, <1>5 DEF SidecarNext, SidecarStep

-----------------------------------------------------------------------------
(* hand backend and relay                                                  *)

HandTyped == HandTypeOK /\ IsFiniteSet(wire)

\* from_config: the default is one of the venues.
LEMMA BackendHasItsDefault ==
  ASSUME NEW file \in Files \cup {NoFile}
  PROVE  FromConfig(file).default \in FromConfig(file).venues
<1>1. CASE file = NoFile \/ file.venues = {}
  BY <1>1 DEF FromConfig
<1>2. CASE ~(file = NoFile \/ file.venues = {})
  <2>1. file.venues \in SUBSET Nat /\ file.venues # {}
    BY <1>2, HandAssumption
  <2>2. FirstVenue(file.venues) \in file.venues
    BY <2>1, LeastNat DEF FirstVenue
  <2> QED  BY <1>2, <2>2 DEF FromConfig
<1> QED  BY <1>1, <1>2

\* Every route is answered with one of the four codes.
LEMMA AnswerIsCode == ASSUME NEW route, NEW venue  PROVE Answer(route, venue) \in Codes
<1>1. CASE routes = "noop"
  <2>1. Answer(route, venue) = 503
    BY <1>1, Zenon DEF Answer
  <2> QED  BY <2>1 DEF Codes
<1>2. CASE routes # "noop" /\ route \in {"status", "venues", "fills"}
  <2>1. Answer(route, venue) = 200
    BY <1>2 DEF Answer
  <2> QED  BY <2>1 DEF Codes
<1>3. CASE routes # "noop" /\ route = "order"
  <2>1. Answer(route, venue) = 404
    BY <1>3 DEF Answer
  <2> QED  BY <2>1 DEF Codes
<1>4. CASE routes # "noop" /\ route = "cancel"
  <2>1. Answer(route, venue) = 400
    BY <1>4 DEF Answer
  <2> QED  BY <2>1 DEF Codes
<1>5. CASE routes # "noop" /\ route \in {"balances", "positions", "orders", "cancel_all"}
  <2>1. Answer(route, venue) = IF venue = NoVenue \/ venue \in backend.venues THEN 200 ELSE 404
    BY <1>5 DEF Answer
  <2> QED  BY <2>1 DEF Codes
<1>6. CASE routes # "noop" /\ route \notin {"status", "venues", "fills", "order", "cancel",
                                          "balances", "positions", "orders", "cancel_all"}
  <2>1. Answer(route, venue) = IF venue \in backend.venues THEN 400 ELSE 404
    BY <1>6 DEF Answer
  <2> QED  BY <2>1 DEF Codes
<1> QED  BY <1>1, <1>2, <1>3, <1>4, <1>5, <1>6

\* No process, and nothing on the wire.
LEMMA HandTypesInit == HandInit => HandTyped
<1> SUFFICES ASSUME HandInit  PROVE HandTyped
  OBVIOUS
<1>1. IsFiniteSet(wire) /\ Cardinality(wire) = 0
  BY FS_EmptySet DEF HandInit
<1>2. backend.default \in backend.venues \cup {NoVenue}
  BY DEF HandInit, Nobody
<1> QED  BY <1>1, <1>2, HandAssumption DEF HandInit, HandTyped, HandTypeOK

\* What is on the wire stays few, and the backend keeps its default.
LEMMA HandTypesStep == HandTyped /\ [HandNext]_handVars => HandTyped'
<1> SUFFICES ASSUME HandTyped, [HandNext]_handVars  PROVE HandTyped'
  OBVIOUS
<1> USE HandAssumption DEF HandTyped, HandTypeOK
<1>1. ASSUME NEW file \in Files \cup {NoFile}, Configure(file)  PROVE HandTyped'
  <2>1. backend'.default \in backend'.venues \cup {NoVenue}
    BY <1>1, BackendHasItsDefault DEF Configure
  <2> QED  BY <1>1, <2>1 DEF Configure
<1>2. CASE BuildRouter
  BY <1>2 DEF BuildRouter
<1>3. CASE StopHost
  <2>1. backend'.default \in backend'.venues \cup {NoVenue}
    BY <1>3 DEF StopHost, Nobody
  <2> QED  BY <1>3, <2>1 DEF StopHost
<1>4. ASSUME NEW route \in Routes, NEW venue \in Venues \cup {NoVenue}, Request(route, venue)
      PROVE  HandTyped'
  BY <1>4, AnswerIsCode DEF Request
<1>5. CASE ReadStatus \/ PostAccepted \/ RelayWakes
  BY <1>5 DEF ReadStatus, PostAccepted, RelayWakes
<1>6. CASE PostFails
  <2>1. IsFiniteSet(wire') /\ Cardinality(wire') <= MaxLate
    <3>1. IsFiniteSet(wire \cup {backend})
      BY FS_AddElement
    <3> QED  BY <1>6, <3>1 DEF PostFails
  <2> QED  BY <1>6, <2>1 DEF PostFails
<1>7. ASSUME NEW s \in wire, LatePost(s)  PROVE HandTyped'
  <2>1. IsFiniteSet(wire') /\ Cardinality(wire') <= Cardinality(wire)
    BY <1>7, FS_Subset DEF LatePost
  <2>2. Cardinality(wire') \in Nat /\ Cardinality(wire) \in Nat
    BY <2>1, FS_CardinalityType
  <2>3. Cardinality(wire') <= MaxLate
    BY <2>1, <2>2
  <2> QED  BY <1>7, <2>1, <2>3 DEF LatePost
<1>8. CASE UNCHANGED handVars
  BY <1>8 DEF handVars
<1> QED  BY <1>1, <1>2, <1>3, <1>4, <1>5, <1>6, <1>7, <1>8 DEF HandNext, RelayStep

-----------------------------------------------------------------------------
(* taifoon-cli claim                                                       *)

(* A holding is bridged, or waits for its gas, only when the scan found    *)
(* enough of it, and a deposit is of what the scan found.                  *)
SweepTyped ==
  /\ SweepTypeOK
  /\ step \in {"landed", "bridge"} => at # 0 /\ Candidate(at)
  /\ \A d \in pending : d.amount \in Nat

\* Between two cycles nothing is being bridged.
LEMMA SweepTypesInit == SweepInit => SweepTyped
BY SweepAssumption DEF SweepInit, SweepTyped, SweepTypeOK

\* The next holding is on the route, or the cycle ends.
LEMMA AdvanceStaysOnRoute ==
  ASSUME at \in Holdings, Advance
  PROVE  at' \in Holdings \cup {0} /\ step' = "look"
BY SweepAssumption DEF Advance

\* What a step that spends of one holding leaves is an amount.
LEMMA SpendingLeavesAmounts ==
  ASSUME bal \in [Holdings -> Nat], NEW h \in Holdings, NEW a \in Nat, a <= bal[h],
         bal' = [bal EXCEPT ![h] = @ - a]
  PROVE  bal' \in [Holdings -> Nat]
<1>1. bal[h] - a \in Nat
  BY SweepAssumption
<1> QED  BY <1>1

\* A step that moves on in the route keeps the types if what it pays is an amount.
LEMMA MovingKeepsTypes ==
  ASSUME SweepTyped, UNCHANGED <<home, snap, needs>>, bal' \in [Holdings -> Nat],
         toppedUp' \subseteq SweptChains, gas' \subseteq SweptChains,
         gasComing' \subseteq SweptChains, at' \in Holdings \cup {0}, step' = "look",
         \A d \in pending' : d.h \in Bridged /\ d.amount \in Nat /\ d.amount >= MinBridge
  PROVE  SweepTyped'
BY DEF SweepTyped, SweepTypeOK, Bridged

\* What is paid was there: the top-up, the deposit, the late deposit and the fill.
LEMMA SweepTypesStep == SweepTyped /\ [SweepNext]_sweepVars => SweepTyped'
<1> SUFFICES ASSUME SweepTyped, [SweepNext]_sweepVars  PROVE SweepTyped'
  OBVIOUS
<1>0. /\ bal \in [Holdings -> Nat] /\ snap \in [Holdings -> Nat]
      /\ gas \subseteq SweptChains /\ toppedUp \subseteq SweptChains
      /\ gasComing \subseteq SweptChains
      /\ \A d \in pending : d.h \in Bridged /\ d.amount \in Nat /\ d.amount >= MinBridge
      /\ at \in Holdings \cup {0}
  BY DEF SweepTyped, SweepTypeOK
<1>h. \A h \in Holdings : ChainOf(h) \in SweptChains
  BY DEF SweptChains
<1>t. FundingToken \in Holdings /\ Topup \in Nat
  BY SweepAssumption
<1>1. ASSUME at = 0, at' = 1, step' = "look", snap' \in [Holdings -> Nat],
             needs' \subseteq SweptChains, toppedUp' = {},
             UNCHANGED <<home, bal, gas, gasComing, pending>>
      PROVE  SweepTyped'
  <2>1. at' \in Holdings
    BY <1>1, SweepAssumption
  <2> QED  BY <1>0, <1>1, <2>1 DEF SweepTyped, SweepTypeOK, Bridged
<1>2. CASE Scan
  BY <1>0, <1>1, <1>2 DEF Scan
<1>3. ASSUME NEW c \in SweptChains, ScanPartly(c)  PROVE SweepTyped'
  <2>1. snap' \in [Holdings -> Nat]
    BY <1>0, <1>3 DEF ScanPartly
  <2> QED  BY <1>1, <1>3, <2>1 DEF ScanPartly
<1>4. CASE PassOver
  <2>1. at' \in Holdings \cup {0} /\ step' = "look"
    BY <1>0, <1>4, AdvanceStaysOnRoute DEF PassOver
  <2> QED  BY <1>0, <1>4, <2>1, MovingKeepsTypes DEF PassOver
<1>5. CASE GoOn \/ TopUpLanded
  BY <1>0, <1>5 DEF GoOn, TopUpLanded, SweepTyped, SweepTypeOK, Bridged, Candidate
<1>6. ASSUME Affordable, Pays  PROVE bal' \in [Holdings -> Nat]
  <2>1. Topup <= bal[FundingToken]
    BY <1>0, <1>6, <1>t DEF Affordable
  <2> QED  BY <1>0, <1>6, <1>t, <2>1, SpendingLeavesAmounts DEF Pays
<1>7. ASSUME Tries(at)
      PROVE  /\ at \in Holdings /\ Candidate(at) /\ ChainOf(at) \in SweptChains
             /\ toppedUp' \subseteq SweptChains
  BY <1>0, <1>7, <1>h DEF Tries
<1>8. CASE TopUpSent
  <2>1. /\ bal' \in [Holdings -> Nat] /\ toppedUp' \subseteq SweptChains
        /\ gasComing' \subseteq SweptChains /\ at # 0 /\ Candidate(at)
    BY <1>0, <1>6, <1>7, <1>8 DEF TopUpSent, Tries
  <2> QED  BY <1>0, <1>8, <2>1 DEF TopUpSent, SweepTyped, SweepTypeOK, Bridged, Candidate
<1>9. CASE TopUpFails
  <2>1. Tries(at) /\ Advance /\ UNCHANGED <<home, bal, gas, snap, needs, gasComing, pending>>
    BY <1>9 DEF TopUpFails
  <2>2. at' \in Holdings \cup {0} /\ step' = "look" /\ toppedUp' \subseteq SweptChains
    BY <1>7, <2>1, AdvanceStaysOnRoute
  <2> QED  BY <1>0, <2>1, <2>2, MovingKeepsTypes
<1>10. CASE TopUpUnheard
  <2>1. Tries(at) /\ Affordable /\ Pays /\ Advance /\ UNCHANGED <<home, gas, snap, needs, pending>>
    BY <1>10 DEF TopUpUnheard
  <2>2. at' \in Holdings \cup {0} /\ step' = "look" /\ toppedUp' \subseteq SweptChains
    BY <1>7, <2>1, AdvanceStaysOnRoute
  <2>3. gasComing' \subseteq SweptChains /\ bal' \in [Holdings -> Nat]
    BY <1>0, <1>6, <1>7, <1>10, <2>1 DEF TopUpUnheard
  <2> QED  BY <1>0, <2>1, <2>2, <2>3, MovingKeepsTypes
<1>11. CASE TopUpDeferred \/ DepositFails
  <2>1. /\ at \in Holdings /\ Advance
        /\ UNCHANGED <<home, bal, gas, snap, needs, toppedUp, gasComing, pending>>
    BY <1>0, <1>11 DEF TopUpDeferred, DepositFails
  <2>2. at' \in Holdings \cup {0} /\ step' = "look"
    BY <2>1, AdvanceStaysOnRoute
  <2> QED  BY <1>0, <2>1, <2>2, MovingKeepsTypes
<1>12. CASE Deposited
  <2>1. /\ at \in Holdings /\ Covered /\ Advance /\ bal' = [bal EXCEPT ![at] = @ - snap[at]]
        /\ UNCHANGED <<home, snap, needs, toppedUp, gasComing, pending>>
        /\ gas' \subseteq gas
    BY <1>0, <1>12 DEF Deposited
  <2>2. at' \in Holdings \cup {0} /\ step' = "look"
    BY <2>1, AdvanceStaysOnRoute
  <2>3. bal' \in [Holdings -> Nat]
    BY <1>0, <2>1, SpendingLeavesAmounts DEF Covered
  <2> QED  BY <1>0, <2>1, <2>2, <2>3, MovingKeepsTypes
<1>13. CASE DepositUnheard
  <2>1. /\ at \in Holdings /\ Advance /\ Candidate(at)
        /\ pending' = pending \cup {[h |-> at, amount |-> snap[at]]}
        /\ UNCHANGED <<home, bal, gas, snap, needs, toppedUp, gasComing>>
    BY <1>0, <1>13 DEF DepositUnheard, SweepTyped
  <2>2. at' \in Holdings \cup {0} /\ step' = "look"
    BY <2>1, AdvanceStaysOnRoute
  <2>3. \A d \in pending' : d.h \in Bridged /\ d.amount \in Nat /\ d.amount >= MinBridge
    BY <1>0, <2>1 DEF Candidate
  <2> QED  BY <1>0, <2>1, <2>2, <2>3, MovingKeepsTypes
<1>14. CASE PendingSettles
  <2>1. PICK d \in pending :
          /\ pending' = pending \ {d}
          /\ bal' = IF d.amount <= bal[d.h] THEN [bal EXCEPT ![d.h] = @ - d.amount] ELSE bal
          /\ UNCHANGED <<home, gas, snap, needs, at, step, toppedUp, gasComing>>
    BY <1>14 DEF PendingSettles
  <2>2. bal' \in [Holdings -> Nat]
    <3>1. d.h \in Holdings /\ d.amount \in Nat
      BY <1>0 DEF Bridged
    <3> QED  BY <1>0, <2>1, <3>1, SpendingLeavesAmounts
  <2> QED  BY <2>1, <2>2 DEF SweepTyped, SweepTypeOK, Bridged, Candidate
<1>15. CASE GasLands
  BY <1>15 DEF GasLands, SweepTyped, SweepTypeOK, Bridged, Candidate
<1>16. ASSUME NEW h \in Holdings, SolverSpends(h)  PROVE SweepTyped'
  <2>1. bal' \in [Holdings -> Nat]
    BY <1>0, <1>16, SpendingLeavesAmounts DEF SolverSpends
  <2> QED  BY <1>16, <2>1 DEF SolverSpends, SweepTyped, SweepTypeOK, Bridged, Candidate
<1>17. CASE UNCHANGED sweepVars
  BY <1>17 DEF sweepVars, SweepTyped, SweepTypeOK, Bridged, Candidate
<1> QED
  BY <1>2, <1>3, <1>4, <1>5, <1>8, <1>9, <1>10, <1>11, <1>12, <1>13, <1>14, <1>15, <1>16, <1>17
     DEF SweepNext, SweepStep

-----------------------------------------------------------------------------
(* taifoon-cli participate                                                 *)

Entries == [swap : SwapOrders, created : BOOLEAN]

FeedsTyped ==
  /\ FeedsTypeOK
  /\ page \in Seq(Entries) /\ queue \in Seq(FeedOrders)
  /\ IsFiniteSet(socketSeen) /\ IsFiniteSet(swapSeen)

\* Every memory, the page and the channel are empty.
LEMMA FeedsTypesInit == FeedsInit => FeedsTyped
<1> SUFFICES ASSUME FeedsInit  PROVE FeedsTyped
  OBVIOUS
<1>1. IsFiniteSet({}) /\ Cardinality({}) = 0
  BY FS_EmptySet
<1>2. standing \in [FeedOrders -> {"new", "open", "closed"}]
  BY DEF FeedsInit
<1> QED  BY <1>1, <1>2, RoomAssumption DEF FeedsInit, FeedsTyped, FeedsTypeOK

\* What goes into the channel is an order, and there is room for it.
LEMMA PutKeepsTypes ==
  ASSUME FeedsTyped, NEW o \in FeedOrders, Put(o)
  PROVE  queue' \in Seq(FeedOrders) /\ Len(queue') <= QueueCap
BY RoomAssumption DEF FeedsTyped, Put

\* What comes out of the channel is an order.
LEMMA NextUpKeepsTypes ==
  ASSUME FeedsTyped, NextUp
  PROVE  queue' \in Seq(FeedOrders) /\ Len(queue') <= QueueCap /\ Head(queue) \in FeedOrders
<1>1. queue \in Seq(FeedOrders) /\ queue # <<>> /\ queue' = Tail(queue) /\ Len(queue) <= QueueCap
  BY DEF FeedsTyped, FeedsTypeOK, NextUp
<1>2. queue' \in Seq(FeedOrders) /\ Len(queue') = Len(queue) - 1 /\ Head(queue) \in FeedOrders
  BY <1>1
<1> QED  BY <1>1, <1>2, RoomAssumption

\* The explorer's answer fits on a page.
LEMMA PageIsTyped ==
  ASSUME FeedsTyped  PROVE ExplorerPage \in Seq(Entries) /\ Len(ExplorerPage) <= PageSize
<1> DEFINE shown == IF Len(board) > PageSize THEN PageSize ELSE Len(board)
<1>1. board \in Seq(SwapOrders) /\ shown \in Nat /\ shown <= PageSize /\ shown <= Len(board)
  BY RoomAssumption DEF FeedsTyped, FeedsTypeOK
<1>2. ExplorerPage = [n \in 1..shown |-> AsShown(board[Len(board) - shown + n])]
  BY DEF ExplorerPage
<1> HIDE DEF shown
<1>3. \A n \in 1..shown : AsShown(board[Len(board) - shown + n]) \in Entries
  <2> TAKE n \in 1..shown
  <2>1. Len(board) - shown + n \in 1..Len(board)
    BY <1>1
  <2>2. board[Len(board) - shown + n] \in SwapOrders
    BY <1>1, <2>1
  <2>3. IsOpen(board[Len(board) - shown + n]) \in BOOLEAN
    BY DEF IsOpen
  <2> QED  BY <2>2, <2>3 DEF AsShown, Entries
<1>4. ExplorerPage \in [1..shown -> Entries]
  BY <1>2, <1>3
<1> QED  BY <1>1, <1>4

\* No memory, page or channel grows beyond its room.
LEMMA FeedsTypesStep == FeedsTyped /\ [FeedsNext]_feedsVars => FeedsTyped'
<1> SUFFICES ASSUME FeedsTyped, [FeedsNext]_feedsVars  PROVE FeedsTyped'
  OBVIOUS
<1>1. ASSUME NEW o \in FeedOrders, OrderOpens(o)  PROVE FeedsTyped'
  <2>1. /\ standing' \in [FeedOrders -> {"new", "open", "closed"}]
        /\ inbox' \subseteq SocketOrders
    BY <1>1 DEF OrderOpens, FeedsTyped, FeedsTypeOK
  <2>2. board' \in Seq(SwapOrders) /\ partial' \subseteq SwapOrders
    <3>1. board \in Seq(SwapOrders) /\ partial \subseteq SwapOrders
      BY DEF FeedsTyped, FeedsTypeOK
    <3>2. CASE o \in SwapOrders
      <4>1. board' = Append(board, o) /\ partial' \subseteq partial \cup {o}
        BY <1>1, <3>2 DEF OrderOpens
      <4> QED  BY <3>1, <3>2, <4>1
    <3>3. CASE o \notin SwapOrders
      BY <1>1, <3>1, <3>3 DEF OrderOpens
    <3> QED  BY <3>2, <3>3
  <2> QED
    BY <1>1, <2>1, <2>2 DEF OrderOpens, FeedsTyped, FeedsTypeOK, swapVars, cliVars
<1>2. ASSUME NEW o \in FeedOrders, OrderCloses(o)  PROVE FeedsTyped'
  BY <1>2 DEF OrderCloses, FeedsTyped, FeedsTypeOK, socketVars, swapVars, cliVars
<1>3. ASSUME NEW o \in FeedOrders, OtherFeed(o)  PROVE FeedsTyped'
  BY <1>3, PutKeepsTypes DEF OtherFeed, FeedsTyped, FeedsTypeOK, worldVars, socketVars, swapVars, cliVars
<1>4. ASSUME NEW o \in SwapOrders, RecordCompletes(o)  PROVE FeedsTyped'
  BY <1>4 DEF RecordCompletes, FeedsTyped, FeedsTypeOK, socketVars, swapVars, cliVars
<1>5. CASE SocketConnects \/ SocketTimesOut \/ SocketDrops \/ SocketHangs
  BY <1>5 DEF SocketConnects, SocketTimesOut, SocketDrops, SocketHangs, Loses, FeedsTyped,
              FeedsTypeOK, worldVars, swapVars, cliVars
<1>6. ASSUME NEW o \in SocketOrders, SocketReads(o)  PROVE FeedsTyped'
  <2>1. PICK remembered \in {{}, socketSeen} :
          /\ remembered = socketSeen => Cardinality(socketSeen) < SocketCap \/ socketSeen = {}
          /\ inbox' = inbox \ {o} /\ socketSeen' = remembered \cup {o}
          /\ socketHand' \in {o, NoOrder}
          /\ UNCHANGED <<worldVars, link, swapVars, queue, cliVars, drops>>
    <3>0. Cardinality(socketSeen) \in Nat
      BY FS_CardinalityType DEF FeedsTyped
    <3>1. CASE Cardinality(socketSeen) >= SocketCap
      BY <1>6, <3>1, RoomAssumption DEF SocketReads
    <3>2. CASE ~(Cardinality(socketSeen) >= SocketCap)
      BY <1>6, <3>0, <3>2, RoomAssumption DEF SocketReads
    <3> QED  BY <3>1, <3>2
  <2>2. IsFiniteSet(remembered) /\ Cardinality(remembered) \in Nat
        /\ Cardinality(remembered) + 1 <= SocketCap
    <3>1. IsFiniteSet({}) /\ Cardinality({}) = 0
      BY FS_EmptySet
    <3>2. IsFiniteSet(socketSeen) /\ Cardinality(socketSeen) \in Nat
      BY FS_CardinalityType DEF FeedsTyped
    <3> QED  BY <2>1, <3>1, <3>2, RoomAssumption
  <2>3. IsFiniteSet(socketSeen') /\ Cardinality(socketSeen') <= SocketCap
    BY <2>1, <2>2, FS_AddElement, RoomAssumption
  <2> QED  BY <2>1, <2>3 DEF FeedsTyped, FeedsTypeOK, worldVars, swapVars, cliVars
<1>7. CASE SocketSends
  <2>1. socketHand \in FeedOrders
    BY <1>7 DEF SocketSends, FeedsTyped, FeedsTypeOK, FeedOrders
  <2> QED
    BY <1>7, <2>1, PutKeepsTypes
       DEF SocketSends, FeedsTyped, FeedsTypeOK, worldVars, swapVars, cliVars
<1>8. CASE PollSwaps
  BY <1>8, PageIsTyped DEF PollSwaps, FeedsTyped, FeedsTypeOK, worldVars, socketVars, cliVars
<1>9. ASSUME NEW b, Listed(b)
      PROVE  Head(page) \in Entries /\ page' \in Seq(Entries) /\ Len(page') <= PageSize
  <2>1. page \in Seq(Entries) /\ page # <<>> /\ page' = Tail(page) /\ Len(page) <= PageSize
    BY <1>9 DEF Listed, FeedsTyped, FeedsTypeOK
  <2>2. Head(page) \in Entries /\ page' \in Seq(Entries) /\ Len(page') = Len(page) - 1
    BY <2>1
  <2> QED  BY <2>1, <2>2, RoomAssumption
<1>10. CASE SkipSwap
  BY <1>9, <1>10 DEF SkipSwap, FeedsTyped, FeedsTypeOK, worldVars, socketVars, cliVars
<1>11. CASE LookAtSwap
  <2>1. Head(page) \in Entries /\ page' \in Seq(Entries) /\ Len(page') <= PageSize
    BY <1>9, <1>11 DEF LookAtSwap
  <2> DEFINE o == Head(page).swap
  <2>2. o \in SwapOrders
    BY <2>1 DEF Entries
  <2>3. PICK gone \in Forgotten :
          /\ swapSeen' = (swapSeen \ gone) \cup {o}
          /\ swapHand' \in {o, NoOrder} /\ burned' \subseteq burned \cup {o}
          /\ UNCHANGED <<worldVars, socketVars, queue, cliVars, drops>>
    BY <1>11 DEF LookAtSwap
  <2> HIDE DEF o
  <2>4. IsFiniteSet(swapSeen) /\ Cardinality(swapSeen) \in Nat /\ Cardinality(swapSeen) <= SwapCap
    BY FS_CardinalityType DEF FeedsTyped, FeedsTypeOK
  <2>5. IsFiniteSet(swapSeen \ gone) /\ Cardinality(swapSeen \ gone) \in Nat
        /\ Cardinality(swapSeen \ gone) + 1 <= SwapCap
    <3>1. CASE Cardinality(swapSeen) < SwapCap
      <4>1. gone = {}
        BY <3>1 DEF Forgotten
      <4>2. swapSeen \ gone = swapSeen
        BY <4>1
      <4> QED  BY <2>4, <3>1, <4>2, RoomAssumption
    <3>2. CASE ~(Cardinality(swapSeen) < SwapCap)
      <4>1. gone \in SUBSET swapSeen /\ Cardinality(gone) = SwapCap \div 2
        BY <3>2 DEF Forgotten
      <4>2. SwapCap \div 2 >= 1 /\ SwapCap \div 2 \in Nat
        BY RoomAssumption
      <4>3. /\ IsFiniteSet(swapSeen \ gone)
            /\ Cardinality(swapSeen \ gone) = Cardinality(swapSeen) - Cardinality(swapSeen \cap gone)
        BY <2>4, FS_Difference
      <4>4. swapSeen \cap gone = gone
        BY <4>1
      <4>5. Cardinality(swapSeen \ gone) \in Nat
        BY <4>3, FS_CardinalityType
      <4>6. Cardinality(swapSeen \ gone) = Cardinality(swapSeen) - SwapCap \div 2
        BY <4>1, <4>3, <4>4
      <4> QED  BY <2>4, <4>2, <4>3, <4>5, <4>6, RoomAssumption
    <3> QED  BY <3>1, <3>2
  <2>6. IsFiniteSet(swapSeen') /\ Cardinality(swapSeen') <= SwapCap
    BY <2>3, <2>5, FS_AddElement, RoomAssumption
  <2>7. swapSeen' \subseteq SwapOrders /\ burned' \subseteq SwapOrders
        /\ swapHand' \in SwapOrders \cup {NoOrder}
    BY <2>2, <2>3 DEF FeedsTyped, FeedsTypeOK
  <2> QED
    BY <2>1, <2>3, <2>6, <2>7 DEF FeedsTyped, FeedsTypeOK, worldVars, socketVars, cliVars
<1>12. CASE SwapSends
  <2>1. swapHand \in FeedOrders
    BY <1>12 DEF SwapSends, FeedsTyped, FeedsTypeOK, FeedOrders
  <2> QED
    BY <1>12, <2>1, PutKeepsTypes
       DEF SwapSends, FeedsTyped, FeedsTypeOK, worldVars, socketVars, cliVars
<1>13. CASE CliDrops
  BY <1>13, NextUpKeepsTypes
     DEF CliDrops, FeedsTyped, FeedsTypeOK, worldVars, socketVars, swapVars, cliVars
<1>14. CASE CliFills
  BY <1>14, NextUpKeepsTypes
     DEF CliFills, FeedsTyped, FeedsTypeOK, worldVars, socketVars, swapVars
<1>15. CASE CliDone
  BY <1>15 DEF CliDone, FeedsTyped, FeedsTypeOK, worldVars, socketVars, swapVars
<1>16. CASE UNCHANGED feedsVars
  BY <1>16 DEF feedsVars, FeedsTyped, FeedsTypeOK
<1> QED
  BY <1>1, <1>2, <1>3, <1>4, <1>5, <1>6, <1>7, <1>8, <1>10, <1>11, <1>12, <1>13, <1>14, <1>15, <1>16
     DEF FeedsNext, SocketStep, SwapStep, CliStep

-----------------------------------------------------------------------------
(* Side by side                                                            *)

\* A step of the whole is a step of each component, or leaves it alone.
LEMMA EachStepsOrStays ==
  ASSUME [Next]_servicesVars
  PROVE  /\ [MonitorNext]_monitorVars /\ [PermitNext]_permitVars /\ [ProfitNext]_profitVars
         /\ [SidecarNext]_sidecarVars /\ [HandNext]_handVars /\ [HostNext]_hostVars
         /\ [DonutNext]_donutVars /\ [AcrossNext]_acrossVars /\ [SignerNext]_signerVars
         /\ [SweepNext]_sweepVars /\ [SolanaNext]_solanaVars /\ [FeedsNext]_feedsVars
BY DEF Next, Runs, servicesVars

\* Each component starts in a state of its own.
LEMMA EachStarts ==
  ASSUME Init
  PROVE  /\ MonitorInit /\ PermitInit /\ ProfitInit /\ SidecarInit /\ HandInit /\ HostInit
         /\ DonutInit /\ AcrossInit /\ SignerInit /\ SweepInit /\ SolanaInit /\ FeedsInit
BY DEF Init

(* What is running beside a component cannot change how it behaves: the    *)
(* whole implements the specification of each component with promises of   *)
(* its own.                                                                *)
THEOREM EachRunsItsOwnSpec ==
  Spec => /\ MonitorSpec /\ PermitSpec /\ ProfitSpec /\ HostSpec
          /\ DonutSpec /\ AcrossSpec /\ SignerSpec /\ SolanaSpec
<1>1. Init => /\ MonitorInit /\ PermitInit /\ ProfitInit /\ HostInit
              /\ DonutInit /\ AcrossInit /\ SignerInit /\ SolanaInit
  BY EachStarts
<1>2. [Next]_servicesVars =>
        /\ [MonitorNext]_monitorVars /\ [PermitNext]_permitVars /\ [ProfitNext]_profitVars
        /\ [HostNext]_hostVars /\ [DonutNext]_donutVars /\ [AcrossNext]_acrossVars
        /\ [SignerNext]_signerVars /\ [SolanaNext]_solanaVars
  BY EachStepsOrStays
<1> QED
  BY <1>1, <1>2, PTL DEF Spec, MonitorSpec, PermitSpec, ProfitSpec, HostSpec, DonutSpec, AcrossSpec,
                         SignerSpec, SolanaSpec

(* Every safety invariant of a component holds where it is one of many.    *)
THEOREM PromisesHoldSideBySide ==
  Spec => [](/\ MarksFollowSleeps /\ RedrawIsExcused /\ PriceIsFresh /\ NonceAdmitsOnce
             /\ SharesAreFair /\ SignedIsAccepted /\ WrongFieldsWereMissing
             /\ RevertsAreExcused /\ LandedIsRecorded)
BY EachRunsItsOwnSpec, MarksLastAsLongAsSleeps, PermitPaysOnce, VerdictsRestOnFreshPrices,
   NonceLetsInOne, SplitIsFair, SignedVerifies, RelaysCarryTheDeposit, RevertsHaveACause,
   LandedFillsAreRecorded, PTL

ServicesTyped ==
  /\ MonitorTypeOK /\ PermitTyped /\ ProfitTyped /\ SidecarTypeOK /\ HandTyped /\ HostTyped
  /\ DonutTyped /\ AcrossTypeOK /\ SignerTypeOK /\ SweepTyped /\ SolanaTypeOK /\ FeedsTyped

\* All components start with their types.
LEMMA ServicesTypesInit == Init => ServicesTyped
BY EachStarts, MonitorTypesInit, PermitTypesInit, ProfitTypesInit, SidecarTypesInit, HandTypesInit,
   HostTypesInit, DonutTypesInit, AcrossTypesInit, SignerTypesInit, SweepTypesInit,
   SolanaTypesInit, FeedsTypesInit DEF ServicesTyped

\* All components keep their types.
LEMMA ServicesTypesStep == ServicesTyped /\ [Next]_servicesVars => ServicesTyped'
<1> SUFFICES ASSUME ServicesTyped, [Next]_servicesVars  PROVE ServicesTyped'
  OBVIOUS
<1>1. MonitorTypeOK' /\ PermitTyped' /\ ProfitTyped' /\ SidecarTypeOK'
  BY EachStepsOrStays, MonitorTypesStep, PermitTypesStep, ProfitTypesStep, SidecarTypesStep
     DEF ServicesTyped
<1>2. HandTyped' /\ HostTyped' /\ DonutTyped' /\ AcrossTypeOK'
  BY EachStepsOrStays, HandTypesStep, HostTypesStep, DonutTypesStep, AcrossTypesStep
     DEF ServicesTyped
<1>3. SignerTypeOK' /\ SweepTyped' /\ SolanaTypeOK' /\ FeedsTyped'
  BY EachStepsOrStays, SignerTypesStep, SweepTypesStep, SolanaTypesStep, FeedsTypesStep
     DEF ServicesTyped
<1> QED  BY <1>1, <1>2, <1>3 DEF ServicesTyped

(* Whatever the instance: every variable of every component keeps its      *)
(* range; the bounded memories, tables, pages and the channel never hold   *)
(* more than they may, and a wallet's balances stay amounts.               *)
THEOREM ServicesTypeCorrect == Spec => []TypeOK
<1>1. ServicesTyped => TypeOK
  BY ProfitTypesHold
     DEF ServicesTyped, TypeOK, PermitTyped, HandTyped, HostTyped, DonutTyped, SweepTyped, FeedsTyped
<1> QED  BY <1>1, ServicesTypesInit, ServicesTypesStep, PTL DEF Spec
=============================================================================
