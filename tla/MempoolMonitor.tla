---------------------------- MODULE MempoolMonitor ----------------------------
(***************************************************************************)
(* mempool-monitor: one watcher per chain subscribes to the pending        *)
(* transactions and marks the orders a competitor is filling as in flight. *)
(* A mark is cleared by a sleep that the sighting starts, one sleep per    *)
(* sighting; two sightings of one order (a replacement transaction, the    *)
(* same calldata on two chains) have two sleeps and one mark.              *)
(*                                                                         *)
(* A sleep may end at any time: chains have their own in_flight_ttl.       *)
(***************************************************************************)
EXTENDS Naturals

CONSTANTS
  Watches,       \* chains with a watcher
  PendingTxs,    \* transactions that enter a mempool
  SeenOn,        \* transaction -> the chain whose mempool it enters
  Fills,         \* transactions to the operator with a listed selector
  OrderIn        \* transaction -> hash of its calldata after the selector

VARIABLES
  subscribed,    \* chains whose subscription is up
  txPhase,       \* transaction -> "new", "handling", "sleeping" or "over"
  inFlight,      \* the shared set of marked orders
  cutShort       \* history: sightings whose mark another sleep removed

monitorVars == <<subscribed, txPhase, inFlight, cutShort>>

MonitorTypeOK ==
  /\ subscribed \subseteq Watches
  /\ txPhase \in [PendingTxs -> {"new", "handling", "sleeping", "over"}]
  /\ inFlight \subseteq {OrderIn[t] : t \in PendingTxs}
  /\ cutShort \subseteq PendingTxs

MonitorInit ==
  /\ subscribed = {} /\ inFlight = {} /\ cutShort = {}
  /\ txPhase = [t \in PendingTxs |-> "new"]

Sleeping(order) == {t \in PendingTxs : txPhase[t] = "sleeping" /\ OrderIn[t] = order}

-----------------------------------------------------------------------------
(* watch_chain_loop: connect; when the stream ends or fails, again in 5 s. *)
WatchUp(c) ==
  /\ c \in Watches \ subscribed
  /\ subscribed' = subscribed \cup {c} /\ UNCHANGED <<txPhase, inFlight, cutShort>>

WatchDown(c) ==
  /\ c \in subscribed
  /\ subscribed' = subscribed \ {c} /\ UNCHANGED <<txPhase, inFlight, cutShort>>

(* A hash is announced once; without a subscription nobody hears of it.    *)
Announce(t) ==
  /\ txPhase[t] = "new"
  /\ txPhase' = [txPhase EXCEPT ![t] = IF SeenOn[t] \in subscribed
                                       THEN "handling" ELSE "over"]
  /\ UNCHANGED <<subscribed, inFlight, cutShort>>

(* handle_pending_tx: the fetch fails or finds nothing, or inspect_tx says *)
(* that the transaction is no fill.                                        *)
Ignore(t) ==
  /\ txPhase[t] = "handling"
  /\ txPhase' = [txPhase EXCEPT ![t] = "over"]
  /\ UNCHANGED <<subscribed, inFlight, cutShort>>

\* Mutant: an order that is marked already gets no sleep of its own, and a new
\* one neither.
MarkInFlightMutant(t) ==
  /\ txPhase[t] = "handling" /\ t \in Fills
  /\ inFlight' = inFlight \cup {OrderIn[t]}
  /\ txPhase' = [txPhase EXCEPT ![t] = "over"]
  /\ UNCHANGED <<subscribed, cutShort>>

(* The mark, and a task that sleeps for the time to live.                  *)
MarkInFlight(t) ==
  /\ txPhase[t] = "handling" /\ t \in Fills
  /\ inFlight' = inFlight \cup {OrderIn[t]}
  /\ txPhase' = [txPhase EXCEPT ![t] = "sleeping"]
  /\ UNCHANGED <<subscribed, cutShort>>

ClearInFlight(t) ==
  /\ txPhase[t] = "sleeping"
  /\ inFlight' = inFlight \ {OrderIn[t]}
  /\ txPhase' = [txPhase EXCEPT ![t] = "over"]
  /\ cutShort' = cutShort \cup (Sleeping(OrderIn[t]) \ {t})
  /\ UNCHANGED subscribed

MonitorNext ==
  \/ \E c \in Watches : WatchUp(c) \/ WatchDown(c)
  \/ \E t \in PendingTxs : Announce(t) \/ Ignore(t) \/ MarkInFlight(t) \/ ClearInFlight(t)

-----------------------------------------------------------------------------
(* A mark lasts no longer than the last sleep of its sightings, and is     *)
(* gone before a sleep ends only when a sleep of another sighting of the   *)
(* same order ended first.  The order of sleeps and marks is left to       *)
(* independent tasks (handle_pending_tx, clear_in_flight).                 *)
MarksFollowSleeps ==
  /\ \A order \in inFlight : Sleeping(order) # {}
  /\ \A t \in PendingTxs : txPhase[t] = "sleeping" =>
       OrderIn[t] \in inFlight \/ t \in cutShort

=============================================================================
