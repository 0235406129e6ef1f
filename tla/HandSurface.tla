------------------------------ MODULE HandSurface ------------------------------
(***************************************************************************)
(* The trading hand of the solver: solver-api's /api/hand routes over the  *)
(* backend that solver-main builds from hands.toml, and the relay that     *)
(* posts the backend's status to the explorer on a timer.                  *)
(*                                                                         *)
(* The routes ask the backend that was set when the router was built.  The *)
(* backend answers from its configuration; a new file is read by a new     *)
(* process.  The explorer, which keeps the last snapshot it gets, is       *)
(* external; so is the network, which may deliver a post after the relay   *)
(* has given it up.                                                        *)
(***************************************************************************)
EXTENDS Naturals, FiniteSets

CONSTANTS
  Files,           \* contents of hands.toml: [venues, default], or NoFile
  NoFile,          \* no file, or one that cannot be parsed
  Venues,          \* venue ids, a set of numbers: their order is the map's
  Internal,        \* the venue used without a file
  NoVenue,
  MaxBoots, MaxHandFaults, MaxLate

ASSUME HandAssumption ==
  /\ MaxBoots \in Nat /\ MaxHandFaults \in Nat /\ MaxLate \in Nat
  /\ \A file \in Files \ {NoFile} : file.venues \subseteq Nat

VARIABLES
  boot,            \* "down", "configured" or "up"
  boots,
  backend,         \* [venues, default] of the running process
  routes,          \* what the router answers from: "noop" or "trader"
  relay,           \* "off", "read", "posting" or "sleep"
  wire,            \* snapshots that may still reach the explorer
  explorer,        \* the snapshot the explorer shows, or NoFile
  lastAnswer,      \* code of the last request; 0 before any
  handFaults

handVars == <<boot, boots, backend, routes, relay, wire, explorer, lastAnswer, handFaults>>

Routes == {"status", "venues", "balances", "positions", "orders", "fills", "cancel_all",
           "place", "replace", "book", "ticker", "quote", "auction", "cancel", "order"}
Codes == {200, 400, 404, 503}

HandTypeOK ==
  /\ boot \in {"down", "configured", "up"} /\ boots \in 0..MaxBoots
  /\ backend.default \in backend.venues \cup {NoVenue}
  /\ routes \in {"noop", "trader"} /\ relay \in {"off", "read", "posting", "sleep"}
  /\ Cardinality(wire) <= MaxLate
  /\ lastAnswer \in Codes \cup {0} /\ handFaults \in 0..MaxHandFaults

Nobody == [venues |-> {}, default |-> NoVenue]

HandInit ==
  /\ boot = "down" /\ boots = 0 /\ backend = Nobody /\ routes = "noop" /\ relay = "off"
  /\ wire = {} /\ explorer = NoFile /\ lastAnswer = 0 /\ handFaults = 0

-----------------------------------------------------------------------------
(* from_config and main: the first venue is the default unless the file    *)
(* names one it declares; a file without a venue is no file.               *)
FirstVenue(vs) == CHOOSE v \in vs : \A w \in vs : v <= w

FromConfig(file) ==
  IF file = NoFile \/ file.venues = {} THEN [venues |-> {Internal}, default |-> Internal]
  ELSE [venues |-> file.venues,
        default |-> IF file.default \in file.venues THEN file.default
                    ELSE FirstVenue(file.venues)]

Configure(file) ==
  /\ boot = "down" /\ boots < MaxBoots
  /\ boot' = "configured" /\ boots' = boots + 1
  /\ backend' = FromConfig(file)
  /\ relay' = "read"
  /\ UNCHANGED <<routes, wire, explorer, lastAnswer, handFaults>>

(* router() takes the backend of this moment for good.                     *)
BuildRouter ==
  /\ boot = "configured"
  /\ boot' = "up" /\ routes' = "trader"
  /\ UNCHANGED <<boots, backend, relay, wire, explorer, lastAnswer, handFaults>>

StopHost ==
  /\ boot # "down" /\ boots < MaxBoots
  /\ boot' = "down" /\ routes' = "noop" /\ relay' = "off" /\ backend' = Nobody
  /\ UNCHANGED <<boots, wire, explorer, lastAnswer, handFaults>>

(* TraderHandBackend without a trader: state is empty, no order is made up.*)
Answer(route, venue) ==
  LET known == venue \in backend.venues IN
  IF routes = "noop" THEN 503
  ELSE CASE route \in {"status", "venues", "fills"} -> 200
         [] route = "order"                         -> 404
         [] route = "cancel"                        -> 400
         [] route \in {"balances", "positions", "orders", "cancel_all"} ->
              IF venue = NoVenue \/ known THEN 200 ELSE 404
         [] OTHER                                   -> IF known THEN 400 ELSE 404

Request(route, venue) ==
  /\ boot = "up"
  /\ lastAnswer' = Answer(route, venue)
  /\ UNCHANGED <<boot, boots, backend, routes, relay, wire, explorer, handFaults>>

-----------------------------------------------------------------------------
(* run_relay *)
ReadStatus ==
  /\ relay = "read"
  /\ relay' = "posting"
  /\ UNCHANGED <<boot, boots, backend, routes, wire, explorer, lastAnswer, handFaults>>

PostAccepted ==
  /\ relay = "posting"
  /\ explorer' = backend
  /\ relay' = "sleep"
  /\ UNCHANGED <<boot, boots, backend, routes, wire, lastAnswer, handFaults>>

\* Mutant: the loop returns its error, and the task ends.
PostFailsMutant ==
  /\ relay = "posting" /\ handFaults < MaxHandFaults
  /\ handFaults' = handFaults + 1
  /\ wire' = wire
  /\ relay' = "off"
  /\ UNCHANGED <<boot, boots, backend, routes, explorer, lastAnswer>>

(* An error, a status other than 2xx or the timeout of 10 s; the post may  *)
(* still be on its way.                                                    *)
PostFails ==
  /\ relay = "posting" /\ handFaults < MaxHandFaults
  /\ handFaults' = handFaults + 1
  /\ wire' \in {wire, wire \cup {backend}} /\ Cardinality(wire') <= MaxLate
  /\ relay' = "sleep"
  /\ UNCHANGED <<boot, boots, backend, routes, explorer, lastAnswer>>

LatePost(s) ==
  /\ s \in wire
  /\ wire' = wire \ {s} /\ explorer' = s
  /\ UNCHANGED <<boot, boots, backend, routes, relay, lastAnswer, handFaults>>

RelayWakes ==
  /\ relay = "sleep"
  /\ relay' = "read"
  /\ UNCHANGED <<boot, boots, backend, routes, wire, explorer, lastAnswer, handFaults>>

RelayStep == ReadStatus \/ PostAccepted \/ PostFails \/ RelayWakes

HandNext ==
  \/ \E file \in Files \cup {NoFile} : Configure(file)
  \/ BuildRouter \/ StopHost
  \/ \E route \in Routes, venue \in Venues \cup {NoVenue} : Request(route, venue)
  \/ RelayStep
  \/ \E s \in wire : LatePost(s)

-----------------------------------------------------------------------------
(* The explorer ends up showing what the routes of the running process     *)
(* serve: a failed post is made good by a later tick, and a late post of   *)
(* an old process is overwritten (run_relay; main shares one backend).     *)
ExplorerCatchesUp ==
  []<>(boot = "up" /\ boots = MaxBoots) => <>[](explorer = backend)

=============================================================================
