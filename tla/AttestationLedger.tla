------------------------- MODULE AttestationLedger -------------------------
(***************************************************************************)
(* The server side of the donut attestation loop: the table                *)
(* donut_attestations of crates/solver-api/src/hosting.rs and the handler  *)
(* of POST /api/donut/attest, seen by one Spinner (every query of the code *)
(* is restricted to the spinner_id of the request, which the handler binds *)
(* to the recovered signer).                                               *)
(*                                                                         *)
(* persist_attestation takes the database lock twice: once to read the     *)
(* chain head, once for the INSERT and UPDATE transaction.  A request is   *)
(* therefore two steps, CheckLink and InsertRow, and the steps of several  *)
(* requests interleave.                                                    *)
(*                                                                         *)
(* Attestations are signed by the pump itself here, so the signature and   *)
(* donut arithmetic checks that open the handler always succeed.           *)
(***************************************************************************)
EXTENDS Integers, Sequences, FiniteSets

CONSTANTS
  MaxFills,      \* bound: fills the solver starts, numbered in ts order
  BuilderFills,  \* fills whose adapter names this Spinner as its builder
  MaxPosts,      \* bound: POST requests the server holds at a time
  MaxProvisions  \* bound: times the owner of the Spinner provisions it

ASSUME MaxFillsIsNat == MaxFills \in Nat
ASSUME MaxProvisionsIsNat == MaxProvisions \in Nat
ASSUME MaxPostsIsPos == MaxPosts \in Nat \ {0}

Fills == 1 .. MaxFills
PostIds == 1 .. MaxPosts

VARIABLES
  ledger,        \* rows of donut_attestations: [fill, prev]
  accrued,       \* donut_accrued_usd_micro, in builder shares
  provisions,    \* how often the hosted_solvers row was written, 0: no row
  uncounted,     \* history: fills stored before that row was last written
  posts,         \* requests at the server: [id, fill, prev, stage]
  conn,          \* request the client still waits for, 0 when none
  reply          \* the status the client will read on conn, "none" until set

tables == <<ledger, accrued, provisions, uncounted>>
ledgerVars == <<tables, posts, conn, reply>>

ZeroHash == <<>>

\* Sha256 of the signed attestation: the predecessor's hash and the fill.
HashForChain(att) == Append(att.prev, att.fill)

Hashes == {HashForChain(a) : a \in ledger}

PersistedFills == {a.fill : a \in ledger}

\* Mutant: ORDER BY ts ASC.
NewestMutant(S) == CHOOSE a \in S : \A b \in S : a.fill <= b.fill

\* ORDER BY ts DESC LIMIT 1
Newest(S) == CHOOSE a \in S : \A b \in S : b.fill <= a.fill

\* Mutant: the hash the server recomputes from the stored row leaves the
\* row's own link out.
LedgerHeadMutant ==
  IF ledger = {} THEN ZeroHash ELSE <<Newest(ledger).fill>>

LedgerHead ==
  IF ledger = {} THEN ZeroHash ELSE HashForChain(Newest(ledger))

InitLedger ==
  /\ ledger = {}
  /\ accrued = 0
  /\ provisions = 0
  /\ uncounted = {}
  /\ posts = {}
  /\ conn = 0
  /\ reply = "none"

-----------------------------------------------------------------------------
\* The status reaches the client only if it still waits on this request.
Answer(r, status) ==
  /\ posts' = posts \ {r}
  /\ reply' = IF r.id = conn THEN status ELSE reply
  /\ conn' = conn

LinkHolds(r) == r.prev = LedgerHead

\* First critical section: read the head, compare, release the lock.
CheckLink(r) ==
  /\ r.stage = "received"
  /\ \/ /\ LinkHolds(r)
        /\ posts' = (posts \ {r}) \cup {[r EXCEPT !.stage = "linked"]}
        /\ UNCHANGED <<conn, reply>>
     \/ /\ ~LinkHolds(r)
        /\ Answer(r, "bad_chain")
  /\ UNCHANGED tables

\* fill_id is the primary key.
IsDuplicate(r) == r.fill \in PersistedFills

Hosted == provisions > 0

\* Mutant: every hosted Spinner is paid the builder share of what it fills.
AccrualMutant(r) == IF Hosted THEN 1 ELSE 0

\* Mutant: the share is debited.
AccrualDebitMutant(r) == IF Hosted /\ r.fill \in BuilderFills THEN -1 ELSE 0

\* The counter exists once the Spinner is hosted, and moves only for the
\* builder of the fill's adapter.
Accrual(r) == IF Hosted /\ r.fill \in BuilderFills THEN 1 ELSE 0

\* Second critical section: one transaction for the row and the counter.
InsertRow(r) ==
  /\ r.stage = "linked"
  /\ \/ /\ ~IsDuplicate(r)
        /\ ledger' = ledger \cup {[fill |-> r.fill, prev |-> r.prev]}
        /\ accrued' = accrued + Accrual(r)
        /\ uncounted' = IF Hosted THEN uncounted ELSE uncounted \cup {r.fill}
        /\ UNCHANGED provisions
        /\ Answer(r, "ok")
     \/ /\ IsDuplicate(r)
        /\ Answer(r, "duplicate")
        /\ UNCHANGED tables

\* PersistError::Internal and every other status that stores nothing.
FailRequest(r) ==
  /\ Answer(r, "other")
  /\ UNCHANGED tables

\* POST /api/hosting/provision.  INSERT OR REPLACE writes the whole row again,
\* its counter at 0; the wallet signature, when there is one, was verified.
Provision ==
  /\ provisions < MaxProvisions
  /\ provisions' = provisions + 1
  /\ accrued' = 0
  /\ uncounted' = PersistedFills
  /\ UNCHANGED <<ledger, posts, conn, reply>>

ServerStep == \E r \in posts : CheckLink(r) \/ InsertRow(r)
=============================================================================
