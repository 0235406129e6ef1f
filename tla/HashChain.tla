----------------------------- MODULE HashChain -----------------------------
(***************************************************************************)
(* What the donut ledger promises an external indexer: one hash-linked     *)
(* chain per Spinner.  Attestations are appended one at a time, each one   *)
(* links to the attestation before it, and their timestamps grow along the *)
(* chain, so that reading the table by timestamp replays the chain.        *)
(*                                                                         *)
(* A fill is numbered by its timestamp.  The hash of an attestation covers *)
(* its fill and the hash of its predecessor, so a hash is the sequence of  *)
(* the fills from genesis: equal hashes are equal histories.               *)
(***************************************************************************)
EXTENDS Naturals, Sequences

CONSTANT Fills   \* fills, as natural numbers in timestamp order

VARIABLES
  entries,       \* the attestations appended so far
  tip            \* hash of the newest one, <<>> at genesis

vars == <<entries, tip>>

Init ==
  /\ entries = {}
  /\ tip = <<>>

AppendEntry(f) ==
  /\ \A e \in entries : e.fill < f
  /\ entries' = entries \cup {[fill |-> f, prev |-> tip]}
  /\ tip' = Append(tip, f)

Next == \E f \in Fills : AppendEntry(f)

Spec == Init /\ [][Next]_vars
=============================================================================
