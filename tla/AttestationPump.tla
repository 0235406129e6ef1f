-------------------------- MODULE AttestationPump --------------------------
(***************************************************************************)
(* The pump of crates/solver-main/src/attestation_pump.rs, composed with   *)
(* the executor that appends outcome rows and with the ledger server.      *)
(*                                                                         *)
(* A fill runs in a task holding the fill permit.  It takes its timestamp  *)
(* when it starts (started_at) and appends its "executed" row, carrying    *)
(* that timestamp, when its receipt is in.  The pump reads the rows beyond *)
(* its watermark, moves the watermark to each row before it tries it, and  *)
(* posts one signed attestation per row it has not seen.                   *)
(*                                                                         *)
(* Faults: a request the client gives up on (10 s timeout) stays at the    *)
(* server; a request or a read can fail with nothing stored; the solver    *)
(* process can crash, which loses everything but the outcome log and what  *)
(* the server holds.                                                       *)
(***************************************************************************)
EXTENDS AttestationLedger

CONSTANTS
  FillPermits,   \* permits of fill_semaphore
  BatchLimit,    \* the LIMIT of list_executed
  MaxTimeouts,   \* bound: requests the client gives up on
  MaxErrors,     \* bound: requests and reads that fail
  MaxRestarts    \* bound: crashes of the solver process

ASSUME PermitsArePos == FillPermits \in Nat \ {0}
ASSUME BatchLimitIsPos == BatchLimit \in Nat \ {0}

VARIABLES
  nextFill,      \* the fill that starts next
  running,       \* fills that took their timestamp and have no row yet
  logged,        \* "executed" rows of the outcome log
  pc,            \* where the pump is
  seen,          \* the seen set
  watermark,     \* last_ts, 0 for None
  lastPrev,      \* last_prev_hash
  sent,          \* prev_hash of the request in flight
  batch,         \* rows of this tick that are left, the one in hand included
  failed,        \* history: rows given up on since the process started
  timeouts, errors, restarts

execVars == <<nextFill, running, logged>>
faultVars == <<timeouts, errors, restarts>>
pumpVars == <<pc, seen, watermark, lastPrev, sent, batch, failed>>
vars == <<ledgerVars, execVars, pumpVars, faultVars>>

Init ==
  /\ InitLedger
  /\ nextFill = 1
  /\ running = {}
  /\ logged = {}
  /\ pc = "boot_seen"
  /\ seen = {}
  /\ watermark = 0
  /\ lastPrev = ZeroHash
  /\ sent = ZeroHash
  /\ batch = {}
  /\ failed = {}
  /\ timeouts = 0
  /\ errors = 0
  /\ restarts = 0

-----------------------------------------------------------------------------
(* The executor                                                            *)

\* Mutant: one fill more than the permits, the two the comment speaks of.
PermitFreeMutant == Cardinality(running) <= FillPermits

PermitFree == Cardinality(running) < FillPermits

StartFill ==
  /\ nextFill \in Fills
  /\ PermitFree
  /\ running' = running \cup {nextFill}
  /\ nextFill' = nextFill + 1
  /\ UNCHANGED <<ledgerVars, logged, pumpVars, faultVars>>

\* The receipt is in: the row is appended, or the fill left no executed row.
FinishFill(f) ==
  /\ running' = running \ {f}
  /\ logged' \in {logged, logged \cup {f}}
  /\ UNCHANGED <<ledgerVars, nextFill, pumpVars, faultVars>>

-----------------------------------------------------------------------------
(* The pump                                                                *)

Error == errors < MaxErrors /\ errors' = errors + 1

\* GET ledger, then GET head.  Both fall back when they fail.
BootstrapSeen ==
  /\ pc = "boot_seen"
  /\ pc' = "boot_head"
  /\ \/ seen' = PersistedFills /\ UNCHANGED errors
     \/ seen' = {} /\ Error
  /\ UNCHANGED <<ledgerVars, execVars, watermark, lastPrev, sent, batch,
                 failed, timeouts, restarts>>

BootstrapHead ==
  /\ pc = "boot_head"
  /\ pc' = "poll"
  /\ \/ lastPrev' = LedgerHead /\ UNCHANGED errors
     \/ lastPrev' = ZeroHash /\ Error
  /\ UNCHANGED <<ledgerVars, execVars, seen, watermark, sent, batch, failed,
                 timeouts, restarts>>

\* Mutant: the newest rows come first and the limit drops the older ones.
RowsAfterMutant(w) ==
  {f \in logged : f > w /\ Cardinality({g \in logged : g > f}) < BatchLimit}

\* ts > w ORDER BY ts ASC LIMIT BatchLimit
RowsAfter(w) ==
  {f \in logged :
     f > w /\ Cardinality({g \in logged : w < g /\ g < f}) < BatchLimit}

\* The row in hand: rows are tried in timestamp order.
Row == CHOOSE f \in batch : \A g \in batch : f <= g

\* A tick that reads no row changes nothing.
Poll ==
  /\ pc = "poll"
  /\ RowsAfter(watermark) # {}
  /\ batch' = RowsAfter(watermark)
  /\ pc' = "row"
  /\ UNCHANGED <<ledgerVars, execVars, seen, watermark, lastPrev, sent,
                 failed, faultVars>>

EndBatch ==
  /\ pc = "row"
  /\ batch = {}
  /\ pc' = "poll"
  /\ UNCHANGED <<ledgerVars, execVars, seen, watermark, lastPrev, sent, batch,
                 failed, faultVars>>

\* Signs an attestation of f on prev and posts it on a new connection.
Post(f, prev) ==
  \E id \in PostIds \ {r.id : r \in posts} :
    /\ \A i \in PostIds \ {r.id : r \in posts} : id <= i
    /\ posts' = posts \cup
         {[id |-> id, fill |-> f, prev |-> prev, stage |-> "received"]}
    /\ conn' = id
    /\ reply' = "none"
    /\ sent' = prev
    /\ UNCHANGED tables

\* The watermark moves before the row is looked at.
TakeRow ==
  /\ pc = "row"
  /\ batch # {}
  /\ watermark' = IF Row > watermark THEN Row ELSE watermark
  /\ \/ /\ Row \in seen
        /\ batch' = batch \ {Row}
        /\ UNCHANGED <<ledgerVars, pc, sent>>
     \/ /\ Row \notin seen
        /\ Post(Row, lastPrev)
        /\ pc' = "await"
        /\ UNCHANGED batch
  /\ UNCHANGED <<execVars, seen, lastPrev, failed, faultVars>>

\* Hang up; the rest of the row's handling is the caller's.
CloseConn == conn' = 0 /\ reply' = "none"

NextRow == pc' = "row" /\ batch' = batch \ {Row}

OnPersisted ==
  /\ pc \in {"await", "await_retry"}
  /\ reply = "ok"
  /\ seen' = seen \cup {Row}
  /\ lastPrev' = HashForChain([fill |-> Row, prev |-> sent])
  /\ CloseConn
  /\ NextRow
  /\ UNCHANGED <<tables, posts, execVars, watermark, sent, failed,
                 faultVars>>

\* 409: remember the row, then refresh the head.
OnDuplicate ==
  /\ pc \in {"await", "await_retry"}
  /\ reply = "duplicate"
  /\ seen' = seen \cup {Row}
  /\ pc' = "refresh"
  /\ CloseConn
  /\ UNCHANGED <<tables, posts, execVars, watermark, lastPrev, sent,
                 batch, failed, faultVars>>

RefreshHead ==
  /\ pc = "refresh"
  /\ \/ lastPrev' = LedgerHead /\ UNCHANGED errors
     \/ UNCHANGED lastPrev /\ Error
  /\ NextRow
  /\ UNCHANGED <<ledgerVars, execVars, seen, watermark, sent, failed,
                 timeouts, restarts>>

\* First 422: fetch the head, sign again, post once more.
OnBadChain ==
  /\ pc = "await"
  /\ reply = "bad_chain"
  /\ pc' = "resync"
  /\ CloseConn
  /\ UNCHANGED <<tables, posts, execVars, seen, watermark, lastPrev,
                 sent, batch, failed, faultVars>>

Resync ==
  /\ pc = "resync"
  /\ \/ Post(Row, LedgerHead) /\ UNCHANGED errors
     \/ Post(Row, lastPrev) /\ Error
  /\ pc' = "await_retry"
  /\ UNCHANGED <<execVars, seen, watermark, lastPrev, batch, failed, timeouts,
                 restarts>>

\* Mutant: a row given up on is marked seen, to silence its retries.
SeenAfterFailureMutant(f) == seen \cup {f}

\* What a row given up on adds to the seen set: nothing.
SeenAfterFailure(f) == seen

GiveUp(head) ==
  /\ lastPrev' = head
  /\ seen' = SeenAfterFailure(Row)
  /\ failed' = failed \cup {Row}
  /\ CloseConn
  /\ NextRow
  /\ UNCHANGED <<tables, posts, execVars, watermark, sent, restarts>>

\* Second 422, or another status on the second try: keep the head we fetched.
OnResynced ==
  /\ pc = "await_retry"
  /\ reply \in {"bad_chain", "other"}
  /\ GiveUp(sent)
  /\ UNCHANGED <<timeouts, errors>>

\* Another status on the first try.
OnOther ==
  /\ pc = "await"
  /\ reply = "other"
  /\ GiveUp(lastPrev)
  /\ UNCHANGED <<timeouts, errors>>

-----------------------------------------------------------------------------
(* Faults                                                                  *)

\* The client gives up; the server knows nothing of it.
Timeout ==
  /\ timeouts < MaxTimeouts
  /\ pc \in {"await", "await_retry"}
  /\ reply = "none"
  /\ GiveUp(lastPrev)
  /\ timeouts' = timeouts + 1
  /\ UNCHANGED errors

RequestFails(r) ==
  /\ Error
  /\ FailRequest(r)
  /\ UNCHANGED <<execVars, pumpVars, timeouts, restarts>>

\* The solver process dies and comes back.  Fills in progress leave no row.
Restart ==
  /\ restarts < MaxRestarts
  /\ restarts' = restarts + 1
  /\ pc' = "boot_seen"
  /\ seen' = {}
  /\ watermark' = 0
  /\ lastPrev' = ZeroHash
  /\ sent' = ZeroHash
  /\ batch' = {}
  /\ failed' = {}
  /\ running' = {}
  /\ CloseConn
  /\ UNCHANGED <<tables, posts, nextFill, logged, timeouts, errors>>

-----------------------------------------------------------------------------
PumpStep ==
  \/ BootstrapSeen
  \/ BootstrapHead
  \/ Poll
  \/ EndBatch
  \/ TakeRow
  \/ OnPersisted
  \/ OnDuplicate
  \/ RefreshHead
  \/ OnBadChain
  \/ Resync
  \/ OnResynced
  \/ OnOther

\* The server handles every request it has received.
Serve ==
  /\ ServerStep
  /\ UNCHANGED <<execVars, pumpVars, faultVars>>

\* The owner of the Spinner provisions it, for the first time or again.
ProvisionSpinner ==
  /\ Provision
  /\ UNCHANGED <<execVars, pumpVars, faultVars>>

Next ==
  \/ StartFill
  \/ \E f \in running : FinishFill(f)
  \/ PumpStep
  \/ Serve
  \/ ProvisionSpinner
  \/ Timeout
  \/ \E r \in posts : RequestFails(r)
  \/ Restart

Spec == Init /\ [][Next]_vars

\* The pump's task and the server's workers keep being scheduled.
FairSpec == Spec /\ WF_vars(PumpStep) /\ WF_vars(Serve)

-----------------------------------------------------------------------------
(* Properties                                                              *)

PostStage == {"received", "linked"}

\* The types of the server's and the pump's state.
TypeOK ==
  /\ ledger \subseteq [fill : Fills, prev : Seq(Fills)]
  /\ accrued \in Nat
  /\ provisions \in Nat
  /\ uncounted \subseteq Fills
  /\ posts \subseteq
       [id : PostIds, fill : Fills, prev : Seq(Fills), stage : PostStage]
  /\ conn \in {0} \cup PostIds
  /\ reply \in {"none", "ok", "duplicate", "bad_chain", "other"}
  /\ nextFill \in 1 .. MaxFills + 1
  /\ running \subseteq Fills
  /\ logged \subseteq Fills
  /\ pc \in {"boot_seen", "boot_head", "poll", "row", "await", "refresh",
             "resync", "await_retry"}
  /\ seen \subseteq Fills
  /\ watermark \in {0} \cup Fills
  /\ lastPrev \in Seq(Fills)
  /\ sent \in Seq(Fills)
  /\ batch \subseteq Fills
  /\ failed \subseteq Fills

\* Every stored attestation links to genesis or to a stored attestation:
\* no link is lost, whatever requests time out, fail, arrive late or race.
LinksResolve ==
  \A a \in ledger : a.prev \in {ZeroHash} \cup Hashes

\* The pump takes a fill for attested only when the ledger holds it; a fill
\* wrongly in the seen set would never be attested, even after a restart.
SeenIsPersisted == seen \subseteq PersistedFills

\* The fill whose request is being handled.
CurrentRow ==
  IF pc \in {"await", "resync", "await_retry", "refresh"} /\ batch # {}
  THEN {Row} ELSE {}

\* No executed row falls behind the watermark without having been tried.
\* The watermark moves by timestamp and a fill takes its timestamp before it
\* appends its row, so this rests on the fill permit.
WatermarkSkipsNothing ==
  \A f \in logged : f <= watermark => f \in seen \cup failed \cup CurrentRow

\* The builder counter pays each builder fill stored since the Spinner was
\* last provisioned exactly once, whatever is retried, posted twice or stored
\* while the Spinner is provisioned.
AccruedOncePerFill ==
  accrued = Cardinality({a \in ledger : a.fill \in BuilderFills \ uncounted})

\* One chain, in timestamp order.
Linear ==
  \A a, b \in ledger : a.fill < b.fill => Len(a.prev) < Len(b.prev)

\* The chain is linear as long as no request timed out and no row that failed
\* was posted again after a restart: head-fetch failures, restarts with
\* requests in flight and 422 resyncs alone never fork it.
ForkNeedsLostRequest ==
  timeouts = 0 /\ (errors = 0 \/ restarts = 0) => Linear

\* An executed row is eventually attested, or the pump gave up on it.
EventuallyDecided ==
  \A f \in Fills : f \in logged ~> f \in PersistedFills \cup failed

\* Without faults of the network the ledger is the abstract hash chain, even
\* when the solver crashes with requests in flight.
Chain == INSTANCE HashChain WITH entries <- ledger, tip <- LedgerHead
ImplementsChain == Chain!Spec

-----------------------------------------------------------------------------
(* What comments of the code say, and the runs refute                      *)

\* "Cumulative TSUL donut accrued" (hosting.rs): the counter never goes down.
AccruedIsCumulative == [][accrued' >= accrued]_vars
=============================================================================
