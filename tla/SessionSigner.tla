----------------------------- MODULE SessionSigner -----------------------------
(***************************************************************************)
(* spinner-signer: a caller wraps a call for the scope contract of a       *)
(* session, asks the scope in a dry run, signs and broadcasts.  The scope, *)
(* an allowance and a role on a chain, is external and shared: what the    *)
(* dry run saw may be gone when the transaction lands.                     *)
(*                                                                         *)
(* Callers follow the four stages of the trait and stop at a denial; no    *)
(* other crate calls the signer yet.                                       *)
(***************************************************************************)
EXTENDS Naturals

CONSTANTS
  Calls,             \* calls of the session
  CallOf,            \* call -> [solana, listed, wired, cost]
  Allowance,         \* what the scope lets the session spend
  MaxSignerFaults    \* RPC errors, lost answers and revocations

ASSUME ScopeAssumption ==
  /\ Allowance \in Nat /\ MaxSignerFaults \in Nat
  /\ \A c \in Calls : CallOf[c].cost \in Nat

VARIABLES
  spendable, role,   \* the scope: what is left, and whether the role stands
  session,           \* call -> stage of its caller
  inMempool,         \* calls whose transaction may still land
  landed, reverted,  \* history: calls that did, and how
  unsure,            \* history: calls the scope moved under, or nobody simulated
  signerFaults

signerVars ==
  <<spendable, role, session, inMempool, landed, reverted, unsure, signerFaults>>

SignerTypeOK ==
  /\ spendable \in 0..Allowance /\ role \in BOOLEAN
  /\ session \in [Calls -> {"new", "wrapped", "allowed", "signed", "sent", "dropped"}]
  /\ inMempool \subseteq Calls /\ landed \subseteq Calls
  /\ reverted \subseteq Calls /\ unsure \subseteq Calls
  /\ signerFaults \in 0..MaxSignerFaults

SignerInit ==
  /\ spendable = Allowance /\ role = TRUE
  /\ session = [c \in Calls |-> "new"]
  /\ inMempool = {} /\ landed = {} /\ reverted = {} /\ unsure = {} /\ signerFaults = 0

SignerFault == signerFaults < MaxSignerFaults /\ signerFaults' = signerFaults + 1
ScopeAllows(c) == role /\ CallOf[c].cost <= spendable

(* Calls that passed their dry run and are not sent yet. *)
Judged == {c \in Calls : session[c] \in {"allowed", "signed"}}

Goes(c, from, to) == session[c] = from /\ session' = [session EXCEPT ![c] = to]
ScopeUnchanged == UNCHANGED <<spendable, role, inMempool, landed, reverted>>

-----------------------------------------------------------------------------
(* wrap_for_session: every target or program must be listed.               *)
WrapForSession(c) ==
  /\ Goes(c, "new", IF CallOf[c].listed THEN "wrapped" ELSE "dropped")
  /\ ScopeUnchanged /\ UNCHANGED <<unsure, signerFaults>>

(* dry_run_policy of a call the node can simulate.                         *)
DryRunPolicy(c) ==
  /\ CallOf[c].wired \/ ~CallOf[c].solana
  /\ Goes(c, "wrapped", IF ScopeAllows(c) THEN "allowed" ELSE "dropped")
  /\ ScopeUnchanged /\ UNCHANGED <<unsure, signerFaults>>

(* Without wire bytes the list of programs is all there is to check.       *)
DryRunSkipped(c) ==
  /\ CallOf[c].solana /\ ~CallOf[c].wired
  /\ Goes(c, "wrapped", "allowed")
  /\ unsure' = unsure \cup {c}
  /\ ScopeUnchanged /\ UNCHANGED signerFaults

\* Mutant: an error of the node is no denial.
DryRunErrorMutant(c) ==
  /\ SignerFault /\ Goes(c, "wrapped", "allowed")
  /\ ScopeUnchanged /\ UNCHANGED unsure

(* An error the node reports is a denial; none at all is an error.         *)
DryRunError(c) ==
  /\ SignerFault /\ Goes(c, "wrapped", "dropped")
  /\ ScopeUnchanged /\ UNCHANGED unsure

(* sign needs the wire bytes, which the adapter may have built by now, and *)
(* a session key that can be read; it does not ask the scope again.        *)
Sign(c) ==
  /\ Goes(c, "allowed", "signed")
  /\ ScopeUnchanged /\ UNCHANGED <<unsure, signerFaults>>

SignFails(c) ==
  /\ Goes(c, "allowed", "dropped")
  /\ ScopeUnchanged /\ UNCHANGED <<unsure, signerFaults>>

Broadcast(c) ==
  /\ Goes(c, "signed", "sent")
  /\ inMempool' = inMempool \cup {c}
  /\ UNCHANGED <<spendable, role, landed, reverted, unsure, signerFaults>>

(* An error, an answer that is lost, a hash that differs: an error to the  *)
(* caller, who may start over; the transaction may be on its way.          *)
BroadcastFails(c) ==
  /\ SignerFault
  /\ \/ Goes(c, "signed", "new")
     \/ Goes(c, "signed", "dropped")
  /\ inMempool' \in {inMempool, inMempool \cup {c}}
  /\ UNCHANGED <<spendable, role, landed, reverted, unsure>>

-----------------------------------------------------------------------------
(* The chain.  A call sent again while its first transaction is pending    *)
(* replaces it; one that has landed lands a second time.                   *)
Land(c) ==
  /\ c \in inMempool
  /\ inMempool' = inMempool \ {c}
  /\ IF ScopeAllows(c)
     THEN /\ spendable' = spendable - CallOf[c].cost
          /\ landed' = landed \cup {c}
          /\ unsure' = unsure \cup Judged \cup (inMempool \ {c})
          /\ UNCHANGED reverted
     ELSE reverted' = reverted \cup {c} /\ UNCHANGED <<spendable, landed, unsure>>
  /\ UNCHANGED <<role, session, signerFaults>>

RevokeRole ==
  /\ role /\ SignerFault
  /\ role' = FALSE
  /\ unsure' = unsure \cup Judged \cup inMempool
  /\ UNCHANGED <<spendable, session, inMempool, landed, reverted>>

SignerNext ==
  \/ \E c \in Calls :
       \/ WrapForSession(c) \/ DryRunPolicy(c) \/ DryRunSkipped(c) \/ DryRunError(c)
       \/ Sign(c) \/ SignFails(c) \/ Broadcast(c) \/ BroadcastFails(c) \/ Land(c)
  \/ RevokeRole

-----------------------------------------------------------------------------
(* A session call reverts on the chain only when the scope moved after its *)
(* dry run (another call was paid from it, the role went) or when nothing  *)
(* could be simulated: a denial, and an error that may hide one, stop the  *)
(* call before it is signed (dry_run_policy, SessionSigner).               *)
RevertsAreExcused == reverted \subseteq unsure

=============================================================================
