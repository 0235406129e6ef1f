------------------------------ MODULE SiweHosting ------------------------------
(***************************************************************************)
(* solver-api, hosting: a wallet asks for a nonce, signs a SIWE message    *)
(* that carries it, and provisions its solver with the message.  Nonces    *)
(* live in memory, rows in SQLite.  The checks of the message and the      *)
(* spending of the nonce, and the write of the row, are separate steps of  *)
(* handlers that run side by side.                                         *)
(***************************************************************************)
EXTENDS Naturals, FiniteSets

CONSTANTS
  Wallets,         \* addresses
  SolverOf,        \* address -> solver_id, its first 8 digits
  Requests,        \* provision requests
  Form,            \* request -> [wallet, siwe: "none", "half" or "full", sound]
  Nonces,          \* nonces that may be issued: numbers, in order
  NonceTtl, NonceCap, MaxNow, MaxHostFaults

\* The store keeps room for the nonce it issues.
ASSUME StoreAssumption == NonceCap \in Nat \ {0}
ASSUME HostAssumption == MaxNow \in Nat /\ MaxHostFaults \in Nat

NoNonce == 0
NoRow == [token |-> "none", verified |-> FALSE]

VARIABLES
  nowHost,         \* monotonic clock
  nonces,          \* the store: set of [nonce, wallet, at]
  lastNonce,       \* nonces issued so far
  request,         \* request -> [stage, nonce]
  solverRows,           \* hosted_solvers: solver_id -> [token, verified]
  admissions,      \* history: nonce -> requests it let in
  hostFaults

hostVars == <<nowHost, nonces, lastNonce, request, solverRows, admissions, hostFaults>>

HostTypeOK ==
  /\ nowHost \in 0..MaxNow /\ hostFaults \in 0..MaxHostFaults
  /\ lastNonce \in Nonces \cup {NoNonce}
  /\ nonces \subseteq [nonce : Nonces, wallet : Wallets, at : 0..MaxNow]
  /\ Cardinality(nonces) <= NonceCap
  /\ \A r \in Requests : request[r].stage \in {"new", "checked", "admitted", "done", "refused"}
  /\ admissions \in [Nonces -> SUBSET Requests]

HostInit ==
  /\ nowHost = 0 /\ nonces = {} /\ lastNonce = NoNonce /\ hostFaults = 0
  /\ request = [r \in Requests |-> [stage |-> "new", nonce |-> NoNonce]]
  /\ solverRows = [s \in {SolverOf[w] : w \in Wallets} |-> NoRow]
  /\ admissions = [n \in Nonces |-> {}]

-----------------------------------------------------------------------------
Unexpired(e) == nowHost - e.at < NonceTtl
Newest(entries, k) ==
  {e \in entries : Cardinality({f \in entries : f.nonce > e.nonce}) < k}

(* issue_siwe_nonce: expired entries go, then the oldest beyond the cap.   *)
IssueNonce(w) ==
  LET n == lastNonce + 1 IN
  /\ n \in Nonces
  /\ lastNonce' = n
  /\ nonces' = Newest({e \in nonces : Unexpired(e)}, NonceCap - 1)
                 \cup {[nonce |-> n, wallet |-> w, at |-> nowHost]}
  /\ UNCHANGED <<nowHost, request, solverRows, admissions, hostFaults>>

(* provision up to the nonce: an address that is none, a message without a *)
(* signature or the reverse, and a message that fails any check of         *)
(* verify_siwe end here.                                                   *)
CheckMessage(r, n) ==
  /\ request[r].stage = "new" /\ n \in 1..lastNonce
  /\ request' = [request EXCEPT ![r] =
       [stage |-> IF Form[r].siwe = "none" THEN "admitted"
                  ELSE IF Form[r].siwe = "full" /\ Form[r].sound THEN "checked"
                  ELSE "refused",
        nonce |-> n]]
  /\ UNCHANGED <<nowHost, nonces, lastNonce, solverRows, admissions, hostFaults>>

Entry(r) == {e \in nonces : e.nonce = request[r].nonce /\ e.wallet = Form[r].wallet}

\* Mutant: the nonce is looked up and stays.
ConsumeNonceMutant(r) ==
  LET live == \E e \in Entry(r) : Unexpired(e) IN
  /\ request[r].stage = "checked"
  /\ nonces' = nonces
  /\ request' = [request EXCEPT ![r].stage = IF live THEN "admitted" ELSE "refused"]
  /\ admissions' = IF live THEN [admissions EXCEPT ![request[r].nonce] = @ \cup {r}]
                   ELSE admissions
  /\ UNCHANGED <<nowHost, lastNonce, solverRows, hostFaults>>

(* consume_siwe_nonce: removed under the lock, then judged.                *)
ConsumeNonce(r) ==
  LET live == \E e \in Entry(r) : Unexpired(e) IN
  /\ request[r].stage = "checked"
  /\ nonces' = nonces \ Entry(r)
  /\ request' = [request EXCEPT ![r].stage = IF live THEN "admitted" ELSE "refused"]
  /\ admissions' = IF live THEN [admissions EXCEPT ![request[r].nonce] = @ \cup {r}]
                   ELSE admissions
  /\ UNCHANGED <<nowHost, lastNonce, solverRows, hostFaults>>

(* INSERT OR REPLACE: a new token each time, and the mark of this request. *)
SaveRow(r) ==
  /\ request[r].stage = "admitted"
  /\ solverRows' = [solverRows EXCEPT ![SolverOf[Form[r].wallet]] =
                 [token |-> r, verified |-> Form[r].siwe = "full"]]
  /\ request' = [request EXCEPT ![r].stage = "done"]
  /\ UNCHANGED <<nowHost, nonces, lastNonce, admissions, hostFaults>>

SaveFails(r) ==
  /\ request[r].stage = "admitted" /\ hostFaults < MaxHostFaults
  /\ hostFaults' = hostFaults + 1
  /\ request' = [request EXCEPT ![r].stage = "refused"]
  /\ UNCHANGED <<nowHost, nonces, lastNonce, solverRows, admissions>>

HostRestart ==
  /\ hostFaults < MaxHostFaults
  /\ hostFaults' = hostFaults + 1
  /\ nonces' = {}
  /\ request' = [r \in Requests |->
       IF request[r].stage \in {"checked", "admitted"}
       THEN [request[r] EXCEPT !.stage = "refused"] ELSE request[r]]
  /\ UNCHANGED <<nowHost, lastNonce, solverRows, admissions>>

HostClock ==
  /\ nowHost < MaxNow
  /\ nowHost' = nowHost + 1
  /\ UNCHANGED <<nonces, lastNonce, request, solverRows, admissions, hostFaults>>

HostNext ==
  \/ \E w \in Wallets : IssueNonce(w)
  \/ \E r \in Requests : \/ \E n \in Nonces : CheckMessage(r, n)
                         \/ ConsumeNonce(r) \/ SaveRow(r) \/ SaveFails(r)
  \/ HostRestart \/ HostClock

-----------------------------------------------------------------------------
(* A nonce lets in one request at most, however many carry it at once, and *)
(* a row marked verified was written by a request a nonce let in           *)
(* (consume_siwe_nonce, provision).                                        *)
NonceAdmitsOnce ==
  /\ \A n \in Nonces : Cardinality(admissions[n]) <= 1
  /\ \A s \in DOMAIN solverRows : solverRows[s].verified =>
       \E n \in Nonces : solverRows[s].token \in admissions[n]

=============================================================================
