------------------------------ MODULE ProfitCalc ------------------------------
(***************************************************************************)
(* profit-calc: is a fill worth its gas?  The fee comes from a table built *)
(* once from solver_intel.json, the gas price from an API behind a cache   *)
(* whose entries are timed with the wall clock, which may be stepped.      *)
(*                                                                         *)
(* The dispatcher asks for one calculation at a time.  Money is in units   *)
(* of 50 000 gas at price one.                                             *)
(***************************************************************************)
EXTENDS Integers

CONSTANTS
  GasChains, L1,         \* destination chains; the one with dearer gas
  Protocols,             \* ids of an intent
  IntelIds, IntelBps,    \* ids of solver_intel.json and their fee
  Normal,                \* id -> lower case, no underscore
  DlnFamily, MayanFamily,
  DefaultBps, GrossPerBps, MinProfit,
  GasLevels,             \* prices the market takes
  DefaultGwei,           \* for an answer without a price
  FallbackCost,          \* chain -> cost when the API fails
  CacheTtl, FetchTimeout,
  MaxTime, MaxClockSteps

\* A price may be used for some time, and a call is given some.
ASSUME CacheAssumption == CacheTtl \in Nat \ {0} /\ FetchTimeout \in Nat
ASSUME ClockAssumption == MaxTime \in Nat /\ MaxClockSteps \in Nat

VARIABLES
  rank,                  \* order in which the map of the file is iterated
  market,                \* chain -> price
  realTime, wallClock, clockSteps,
  gasCache,              \* chain -> [gwei, stamp, readAt]; readAt is history
  calc,                  \* the calculation that waits for the API
  verdict                \* the last result: [profitable, age]

profitVars == <<rank, market, realTime, wallClock, clockSteps, gasCache, calc, verdict>>

NoEntry == [gwei |-> 0, stamp |-> 0, readAt |-> -1]
NoCalc == [protocol |-> "none", since |-> 0]
NoVerdict == [profitable |-> FALSE, age |-> 0]

ProfitTypeOK ==
  /\ \A c \in GasChains : gasCache[c].readAt \in -1..MaxTime /\ market[c] \in GasLevels
  /\ wallClock \in 0..MaxTime /\ realTime \in 0..MaxTime /\ clockSteps \in 0..MaxClockSteps
  /\ verdict.profitable \in BOOLEAN /\ verdict.age \in Nat

ProfitInit ==
  /\ rank \in {r \in [IntelIds -> 1..2] : \A i, j \in IntelIds :
                 i # j /\ Normal[i] = Normal[j] => r[i] # r[j]}
  /\ market \in [GasChains -> GasLevels]
  /\ realTime = 0 /\ wallClock = 0 /\ clockSteps = 0
  /\ gasCache = [c \in GasChains |-> NoEntry]
  /\ calc = NoCalc /\ verdict = NoVerdict

-----------------------------------------------------------------------------
(* load_solver_intel stores each fee under the id and under its normal     *)
(* form: the entry of a key is that of the last id that wrote it.          *)
Writers(key) == {i \in IntelIds : i = key \/ Normal[i] = key}
LastWriter(ids) == CHOOSE i \in ids : \A j \in ids : rank[j] <= rank[i]

(* get_protocol_fee: the id, its normal form, the default.                 *)
FeeBps(p) ==
  IF Writers(p) # {} THEN IntelBps[LastWriter(Writers(p))]
  ELSE IF Writers(Normal[p]) # {} THEN IntelBps[LastWriter(Writers(Normal[p]))]
  ELSE DefaultBps

(* estimate_chain_gas_cost. *)
GasUnits(p, c) ==
  (IF p \in DlnFamily THEN 6 ELSE IF p \in MayanFamily THEN 5 ELSE 4)
  + (IF c = L1 THEN 1 ELSE 0)

VerdictOf(p, cost, age) ==
  [profitable |-> GrossPerBps * FeeBps(p) - cost > MinProfit, age |-> age]

(* The subtraction is on unsigned numbers: a stamp in the future is old.   *)
Fresh(entry) ==
  entry # NoEntry /\ wallClock >= entry.stamp /\ wallClock - entry.stamp < CacheTtl

\* Mutant: a hit renews the entry.
CachedPriceMutant(p, c) ==
  /\ calc = NoCalc /\ Fresh(gasCache[c])
  /\ verdict' = VerdictOf(p, GasUnits(p, c) * gasCache[c].gwei, realTime - gasCache[c].readAt)
  /\ gasCache' = [gasCache EXCEPT ![c].stamp = wallClock]
  /\ UNCHANGED <<rank, market, realTime, wallClock, clockSteps, calc>>

(* calculate, with the price of the cache.                                 *)
CachedPrice(p, c) ==
  /\ calc = NoCalc /\ Fresh(gasCache[c])
  /\ verdict' = VerdictOf(p, GasUnits(p, c) * gasCache[c].gwei, realTime - gasCache[c].readAt)
  /\ UNCHANGED <<rank, market, realTime, wallClock, clockSteps, gasCache, calc>>

AskPrice(p, c) ==
  /\ calc = NoCalc /\ ~Fresh(gasCache[c])
  /\ calc' = [protocol |-> p, chain |-> c, since |-> realTime, gwei |-> market[c]]
  /\ UNCHANGED <<rank, market, realTime, wallClock, clockSteps, gasCache, verdict>>

(* The API read the market when it was asked; the entry is timed with the  *)
(* clock at the answer.                                                    *)
PriceArrives(gwei) ==
  /\ calc # NoCalc
  /\ gasCache' = [gasCache EXCEPT ![calc.chain] =
                    [gwei |-> gwei, stamp |-> wallClock, readAt |-> calc.since]]
  /\ verdict' = VerdictOf(calc.protocol, GasUnits(calc.protocol, calc.chain) * gwei,
                       realTime - calc.since)
  /\ calc' = NoCalc
  /\ UNCHANGED <<rank, market, realTime, wallClock, clockSteps>>

(* An error, an unreadable answer or the timeout: a fixed cost, no entry.  *)
PriceUnavailable ==
  /\ calc # NoCalc
  /\ verdict' = VerdictOf(calc.protocol, FallbackCost[calc.chain], 0)
  /\ calc' = NoCalc
  /\ UNCHANGED <<rank, market, realTime, wallClock, clockSteps, gasCache>>

(* An amount that cannot be read or is zero ends before any price.         *)
BadAmount ==
  /\ calc = NoCalc
  /\ verdict' = NoVerdict
  /\ UNCHANGED <<rank, market, realTime, wallClock, clockSteps, gasCache, calc>>

(* A call is out by its timeout. *)
Second ==
  /\ realTime < MaxTime /\ wallClock < MaxTime
  /\ calc = NoCalc \/ realTime < calc.since + FetchTimeout
  /\ realTime' = realTime + 1 /\ wallClock' = wallClock + 1
  /\ \E c \in GasChains, level \in GasLevels : market' = [market EXCEPT ![c] = level]
  /\ UNCHANGED <<rank, clockSteps, gasCache, calc, verdict>>

StepClock ==
  /\ clockSteps < MaxClockSteps
  /\ clockSteps' = clockSteps + 1
  /\ wallClock' \in 0..MaxTime
  /\ UNCHANGED <<rank, market, realTime, gasCache, calc, verdict>>

ProfitNext ==
  \/ \E p \in Protocols, c \in GasChains : CachedPrice(p, c) \/ AskPrice(p, c)
  \/ IF calc = NoCalc THEN BadAmount ELSE PriceArrives(calc.gwei) \/ PriceArrives(DefaultGwei) \/ PriceUnavailable
  \/ Second \/ StepClock

-----------------------------------------------------------------------------
(* A verdict rests on a price the API read no longer ago than the cache's  *)
(* time to live and the time of one call, unless the wall clock was        *)
(* stepped: nothing keeps an entry alive by using it, and an entry is      *)
(* timed when it is read (fetch_gas_price).                                *)
PriceIsFresh == clockSteps = 0 => verdict.age < CacheTtl + FetchTimeout

=============================================================================
