------------------------------ MODULE T3rnSidecar ------------------------------
(***************************************************************************)
(* t3rn-sidecar: arc-api posts an intent, the handler files a pending row, *)
(* runs the adapter to its end and writes the outcome into the row, while  *)
(* arc-api may poll it.  The handler is a future of the connection: when   *)
(* the caller goes away at an await, the rest never runs.                  *)
(*                                                                         *)
(* The rows live in memory, under an id made for each post.                *)
(***************************************************************************)
EXTENDS Adapters, Naturals

CONSTANTS
  Posts,           \* ids of the rows: one per POST that is let in
  Payloads         \* intents posted: records as in Adapters, with dryRun

VARIABLES
  liveUnlocked,    \* SIMULATION_MODE=false and LIVE_FILL_OK=yes, as started
  rows,            \* id -> status, or "none"
  posted,          \* id -> the payload
  handler,         \* id -> where its handler waits
  refused,         \* history: a post was answered 423
  left, hung       \* history: callers that left; handlers whose Spinner is silent

sidecarVars == <<liveUnlocked, rows, posted, handler, refused, left, hung>>

Outcomes == {"simulated", "errored"}

SidecarTypeOK ==
  /\ rows \in [Posts -> Outcomes \cup {"none", "pending"}]
  /\ handler \in [Posts -> {"none", "estimate", "attestation", "write"}]
  /\ liveUnlocked \in BOOLEAN /\ refused \in BOOLEAN /\ left \subseteq Posts /\ hung \subseteq Posts

SidecarInit ==
  /\ rows = [n \in Posts |-> "none"] /\ handler = [n \in Posts |-> "none"]
  /\ posted \in [Posts -> Payloads]
  /\ liveUnlocked \in BOOLEAN /\ refused = FALSE /\ left = {} /\ hung = {}

-----------------------------------------------------------------------------
(* The gate is checked again in dispatch, to the same effect.              *)
Locked(payload) == ~payload.dryRun /\ ~liveUnlocked
DryRunEffective(payload) == ~liveUnlocked \/ payload.dryRun

(* to_intent: no deposit id, no nonce, no order id; the id of the row ends *)
(* in a uuid.                                                              *)
ToIntent(payload) ==
  [payload.intent EXCEPT !.idTail = "uuid",
     !.field = [f \in DOMAIN @ |-> IF f \in {"deposit_id", "nonce", "order_id",
                                             "give_amount", "take_amount"}
                                   THEN "absent" ELSE @[f]]]

Taker(n) == Adapter(posted[n].intent.slug)

(* post_intent up to the first await of dispatch. *)
PostIntent(n) ==
  /\ rows[n] = "none"
  /\ IF Locked(posted[n])
     THEN refused' = TRUE /\ UNCHANGED <<rows, handler>>
     ELSE /\ rows' = [rows EXCEPT ![n] = "pending"]
          /\ handler' = [handler EXCEPT ![n] =
               IF Taker(n) # "none" /\ AsksSpinner(Taker(n), ToIntent(posted[n]))
               THEN "estimate" ELSE "write"]
          /\ UNCHANGED refused
  /\ UNCHANGED <<liveUnlocked, posted, left, hung>>

(* The estimate is advisory: an answer and an error are the same.          *)
EstimateReturns(n) ==
  /\ handler[n] = "estimate" /\ n \notin hung
  /\ handler' = [handler EXCEPT ![n] =
       IF AsksAttestation(Taker(n), DryRunEffective(posted[n]))
          /\ Builds(Taker(n), ToIntent(posted[n]))
       THEN "attestation" ELSE "write"]
  /\ UNCHANGED <<liveUnlocked, rows, posted, refused, left, hung>>

(* The client of the estimate has no timeout. *)
EstimateHangs(n) ==
  /\ handler[n] = "estimate"
  /\ hung' = hung \cup {n}
  /\ UNCHANGED <<liveUnlocked, rows, posted, handler, refused, left>>

(* fetch_attestation answers or fails within 5 s; the fill fails after.    *)
AttestationReturns(n) ==
  /\ handler[n] = "attestation"
  /\ handler' = [handler EXCEPT ![n] = "write"]
  /\ UNCHANGED <<liveUnlocked, rows, posted, refused, left, hung>>

Outcome(n) ==
  IF Taker(n) # "none" /\ Builds(Taker(n), ToIntent(posted[n]))
     /\ Executes(DryRunEffective(posted[n])) = "simulated"
  THEN "simulated" ELSE "errored"

\* Mutant: an error is answered and the row is left as it is.
WriteOutcomeMutant(n) ==
  /\ handler[n] = "write"
  /\ rows' = [rows EXCEPT ![n] = IF Outcome(n) = "errored" THEN @ ELSE Outcome(n)]
  /\ handler' = [handler EXCEPT ![n] = "none"]
  /\ UNCHANGED <<liveUnlocked, posted, refused, left, hung>>

WriteOutcome(n) ==
  /\ handler[n] = "write"
  /\ rows' = [rows EXCEPT ![n] = Outcome(n)]
  /\ handler' = [handler EXCEPT ![n] = "none"]
  /\ UNCHANGED <<liveUnlocked, posted, refused, left, hung>>

CallerLeaves(n) ==
  /\ handler[n] # "none"
  /\ handler' = [handler EXCEPT ![n] = "none"]
  /\ left' = left \cup {n}
  /\ UNCHANGED <<liveUnlocked, rows, posted, refused, hung>>

SidecarStep(n) == EstimateReturns(n) \/ AttestationReturns(n) \/ WriteOutcome(n)

SidecarNext == \E n \in Posts : PostIntent(n) \/ SidecarStep(n) \/ EstimateHangs(n) \/ CallerLeaves(n)

-----------------------------------------------------------------------------
(* A pending row gets its outcome, unless the caller left or the Spinner   *)
(* never answered: every error of the adapter reaches the row              *)
(* (post_intent, dispatch).                                                *)
RowsSettle ==
  \A n \in Posts : rows[n] = "pending" ~> rows[n] # "pending" \/ n \in left \cup hung

=============================================================================
