------------------------------ MODULE PermitGuard ------------------------------
(***************************************************************************)
(* solver-registry: a solver asks the Spinner for a permit to draw from a  *)
(* liquidity well, validates it, sends the fill, and only then records it  *)
(* as used.  Validation and record are two calls on one database; what     *)
(* lies between them is the caller's, and nothing holds the permit there.  *)
(*                                                                         *)
(* The Spinner, which issues one permit per intent and chain, is external; *)
(* so are the workers, who call the guard in the order its comments give.  *)
(***************************************************************************)
EXTENDS Naturals

CONSTANTS
  Permits,         \* (intent, chain) pairs
  Workers,         \* concurrent fills of this solver
  MaxGuardFaults,  \* lost answers, database errors and restarts
  MaxDraws         \* bound on the draws explored per permit

ASSUME GuardAssumption == MaxGuardFaults \in Nat /\ MaxDraws \in Nat

VARIABLES
  issued,          \* permits the Spinner has issued
  received,        \* permits this solver holds
  lapsed,          \* permits past their deadline
  worker,          \* worker -> [stage, permit]
  used,            \* rows of used_permits
  draws,           \* history: fill transactions sent per permit
  excused,         \* history: permits with an overlap, a crash or an error
  guardFaults

permitVars == <<issued, received, lapsed, worker, used, draws, excused, guardFaults>>

NoPermit == [stage |-> "idle", permit |-> "none"]
Working(p, stages) == {w \in Workers : worker[w].permit = p /\ worker[w].stage \in stages}

PermitTypeOK ==
  /\ issued \subseteq Permits /\ received \subseteq issued /\ lapsed \subseteq issued
  /\ used \subseteq Permits /\ excused \subseteq Permits
  /\ \A w \in Workers : worker[w].stage \in {"idle", "asking", "validated", "sent"}
  /\ draws \in [Permits -> 0..MaxDraws] /\ guardFaults \in 0..MaxGuardFaults

PermitInit ==
  /\ issued = {} /\ received = {} /\ lapsed = {} /\ used = {} /\ excused = {}
  /\ worker = [w \in Workers |-> NoPermit]
  /\ draws = [p \in Permits |-> 0] /\ guardFaults = 0

GuardFault == guardFaults < MaxGuardFaults /\ guardFaults' = guardFaults + 1

-----------------------------------------------------------------------------
(* request_permit and the Spinner's answer. *)
AskPermit(w, p) ==
  /\ worker[w].stage = "idle"
  /\ worker' = [worker EXCEPT ![w] = [stage |-> "asking", permit |-> p]]
  /\ UNCHANGED <<issued, received, lapsed, used, draws, excused, guardFaults>>

PermitArrives(w) ==
  LET p == worker[w].permit IN
  /\ worker[w].stage = "asking" /\ p \notin issued
  /\ issued' = issued \cup {p} /\ received' = received \cup {p}
  /\ worker' = [worker EXCEPT ![w] = NoPermit]
  /\ UNCHANGED <<lapsed, used, draws, excused, guardFaults>>

(* The Spinner issues the permit and the answer misses the 10 s timeout:   *)
(* every later request for it is a duplicate.                              *)
PermitLost(w) ==
  LET p == worker[w].permit IN
  /\ worker[w].stage = "asking" /\ p \notin issued /\ GuardFault
  /\ issued' = issued \cup {p}
  /\ worker' = [worker EXCEPT ![w] = NoPermit]
  /\ UNCHANGED <<received, lapsed, used, draws, excused>>

DuplicatePermit(w) ==
  /\ worker[w].stage = "asking" /\ worker[w].permit \in issued
  /\ worker' = [worker EXCEPT ![w] = NoPermit]
  /\ UNCHANGED <<issued, received, lapsed, used, draws, excused, guardFaults>>

PermitLapses(p) ==
  /\ p \in issued \ lapsed
  /\ lapsed' = lapsed \cup {p}
  /\ UNCHANGED <<issued, received, worker, used, draws, excused, guardFaults>>

-----------------------------------------------------------------------------
(* WellAuthGuard. *)

\* Mutant: the row count is not looked at.
PassesMutant(p) == p \notin lapsed

Passes(p) == p \notin lapsed /\ p \notin used

Validated(w, p) ==
  /\ worker[w].stage = "idle" /\ p \in received /\ draws[p] < MaxDraws
  /\ worker' = [worker EXCEPT ![w] = [stage |-> "validated", permit |-> p]]

(* validate: deadline, signature, no row.                                  *)
Validate(w, p) ==
  /\ Validated(w, p) /\ Passes(p)
  /\ excused' = IF Working(p, {"validated", "sent"}) = {} THEN excused
                ELSE excused \cup {p}
  /\ UNCHANGED <<issued, received, lapsed, used, draws, guardFaults>>

(* A count that cannot be read is taken for zero.                          *)
ValidateUnread(w, p) ==
  /\ Validated(w, p) /\ p \notin lapsed /\ GuardFault
  /\ excused' = excused \cup {p}
  /\ UNCHANGED <<issued, received, lapsed, used, draws>>

Draw(w) ==
  LET p == worker[w].permit IN
  /\ worker[w].stage = "validated" /\ draws[p] < MaxDraws
  /\ draws' = [draws EXCEPT ![p] = @ + 1]
  /\ worker' = [worker EXCEPT ![w].stage = "sent"]
  /\ UNCHANGED <<issued, received, lapsed, used, excused, guardFaults>>

(* consume: INSERT OR IGNORE, after the fill was sent.                     *)
Consume(w) ==
  /\ worker[w].stage = "sent"
  /\ used' = used \cup {worker[w].permit}
  /\ worker' = [worker EXCEPT ![w] = NoPermit]
  /\ UNCHANGED <<issued, received, lapsed, draws, excused, guardFaults>>

ConsumeFails(w) ==
  /\ worker[w].stage = "sent" /\ GuardFault
  /\ excused' = excused \cup {worker[w].permit}
  /\ worker' = [worker EXCEPT ![w] = NoPermit]
  /\ UNCHANGED <<issued, received, lapsed, used, draws>>

(* used_permits survives; a caller may or may not have kept its permits.   *)
GuardRestart ==
  /\ GuardFault
  /\ excused' = excused \cup {p \in Permits : Working(p, {"sent"}) # {}}
  /\ worker' = [w \in Workers |-> NoPermit]
  /\ received' \in {received, {}}
  /\ UNCHANGED <<issued, lapsed, used, draws>>

PermitNext ==
  \/ \E w \in Workers, p \in Permits : AskPermit(w, p) \/ Validate(w, p) \/ ValidateUnread(w, p)
  \/ \E w \in Workers : \/ PermitArrives(w) \/ PermitLost(w) \/ DuplicatePermit(w)
                        \/ Draw(w) \/ Consume(w) \/ ConsumeFails(w)
  \/ \E p \in Permits : PermitLapses(p)
  \/ GuardRestart

-----------------------------------------------------------------------------
(* The well is drawn twice on one permit only when two fills overlapped    *)
(* between validate and consume, the process died between the send and     *)
(* the row, or the database failed.  The guard itself rejects the rest.    *)
RedrawIsExcused == \A p \in Permits : draws[p] > 1 => p \in excused

=============================================================================
