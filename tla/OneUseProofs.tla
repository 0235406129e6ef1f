---------------------------- MODULE OneUseProofs ----------------------------
(***************************************************************************)
(* Tokens that count once, for any number of permits, workers, wallets,    *)
(* requests, nonces and faults: a well is drawn twice on one permit only   *)
(* for one of the reasons RedrawIsExcused names, a nonce lets in one       *)
(* request at most, and a verified row is the row of such a request.       *)
(***************************************************************************)
EXTENDS PermitGuard, SiweHosting, Naturals, FiniteSets, FiniteSetTheorems,
        WellFoundedInduction, TLAPS

-----------------------------------------------------------------------------
(* The permits of the liquidity wells                                      *)

Stages == {"idle", "asking", "validated", "sent"}
HoldsPermit(w, p) == worker[w].permit = p /\ worker[w].stage \in {"validated", "sent"}

(* A permit that is not excused: one fill at a time holds it, it draws at  *)
(* most once, and the draw is in the table or about to be.                 *)
OneDraw(p) ==
  /\ \A v, w \in Workers : HoldsPermit(v, p) /\ HoldsPermit(w, p) => v = w
  /\ draws[p] <= 1
  /\ draws[p] = 1 => p \in used \/ \E w \in Workers : HoldsPermit(w, p) /\ worker[w].stage = "sent"
  /\ \A w \in Workers : HoldsPermit(w, p) /\ worker[w].stage = "validated" => draws[p] = 0

PermitInv ==
  /\ worker \in [Workers -> [stage : Stages, permit : Permits \cup {"none"}]]
  /\ draws \in [Permits -> Nat]
  /\ \A p \in Permits \ excused : OneDraw(p)

PermitSpec == PermitInit /\ [][PermitNext]_permitVars

(* A worker that held nothing and holds nothing changes no permit.         *)
LEMMA IdleWorkerSteps ==
  ASSUME PermitInv, NEW w \in Workers, NEW new \in [stage : Stages, permit : Permits \cup {"none"}],
         worker[w].stage \in {"idle", "asking"}, new.stage \in {"idle", "asking"},
         worker' = [worker EXCEPT ![w] = new],
         draws' = draws, used' = used, excused' = excused
  PROVE  PermitInv'
<1>1. \A v \in Workers, p \in Permits :
        /\ HoldsPermit(v, p)' <=> HoldsPermit(v, p)
        /\ HoldsPermit(v, p) => worker'[v] = worker[v]
  BY DEF PermitInv, HoldsPermit
<1>2. worker' \in [Workers -> [stage : Stages, permit : Permits \cup {"none"}]]
  BY DEF PermitInv
<1>3. ASSUME NEW p \in Permits \ excused  PROVE OneDraw(p)'
  <2>1. OneDraw(p)
    BY <1>3 DEF PermitInv
  <2> QED  BY <1>1, <2>1 DEF OneDraw
<1> QED  BY <1>2, <1>3 DEF PermitInv

LEMMA NothingHeldChanges ==
  ASSUME PermitInv, UNCHANGED <<worker, used, draws, excused>>
  PROVE  PermitInv'
BY DEF PermitInv, OneDraw, HoldsPermit

LEMMA ValidatedSteps ==
  ASSUME PermitInv, NEW w \in Workers, NEW p \in Permits, Validated(w, p),
         draws' = draws, used' = used, excused \subseteq excused',
         p \notin excused' => p \notin used /\ \A v \in Workers : ~HoldsPermit(v, p)
  PROVE  PermitInv'
<1>1. worker' = [worker EXCEPT ![w] = [stage |-> "validated", permit |-> p]]
      /\ worker[w].stage = "idle"
  BY DEF Validated
<1>2. worker' \in [Workers -> [stage : Stages, permit : Permits \cup {"none"}]]
  BY <1>1 DEF PermitInv, Stages
<1>3. ASSUME NEW q \in Permits \ excused'  PROVE OneDraw(q)'
  <2>1. OneDraw(q)
    BY <1>3 DEF PermitInv
  <2>2. CASE q = p
    <3>1. draws[p] = 0
      BY <1>3, <2>1, <2>2 DEF OneDraw, PermitInv
    <3>2. \A v \in Workers : HoldsPermit(v, p)' => v = w
      BY <1>1, <1>3, <2>2 DEF HoldsPermit, PermitInv
    <3> QED  BY <2>2, <3>1, <3>2 DEF OneDraw
  <2>3. CASE q # p
    <3>1. \A v \in Workers : /\ HoldsPermit(v, q)' <=> HoldsPermit(v, q)
                             /\ HoldsPermit(v, q) => worker'[v] = worker[v]
      BY <1>1, <2>3 DEF HoldsPermit, PermitInv
    <3> QED  BY <2>1, <3>1 DEF OneDraw
  <2> QED  BY <2>2, <2>3
<1> QED  BY <1>2, <1>3 DEF PermitInv

LEMMA DrawSteps == ASSUME PermitInv, NEW w \in Workers, Draw(w)  PROVE PermitInv'
<1> DEFINE p == worker[w].permit
<1>1. /\ worker[w].stage = "validated" /\ draws' = [draws EXCEPT ![p] = @ + 1]
      /\ worker' = [worker EXCEPT ![w].stage = "sent"]
      /\ used' = used /\ excused' = excused
  BY DEF Draw
<1>2. /\ worker' \in [Workers -> [stage : Stages, permit : Permits \cup {"none"}]]
      /\ draws' \in [Permits -> Nat]
  <2>1. worker' \in [Workers -> [stage : Stages, permit : Permits \cup {"none"}]]
    BY <1>1 DEF PermitInv, Stages
  <2>2. ASSUME NEW q \in Permits  PROVE draws'[q] \in Nat
    BY <1>1 DEF PermitInv
  <2>3. draws' = [q \in Permits |-> draws'[q]]
    BY <1>1 DEF PermitInv
  <2> QED  BY <2>1, <2>2, <2>3
<1>3. ASSUME NEW q \in Permits \ excused  PROVE OneDraw(q)'
  <2>1. OneDraw(q)
    BY <1>3 DEF PermitInv
  <2>2. \A v \in Workers : /\ HoldsPermit(v, q)' <=> HoldsPermit(v, q)
                           /\ v # w => worker'[v] = worker[v]
    BY <1>1 DEF HoldsPermit, PermitInv
  <2>3. CASE q = p
    <3>1. HoldsPermit(w, q) /\ worker'[w].stage = "sent"
      BY <1>1, <2>3 DEF HoldsPermit, PermitInv
    <3>2. draws[q] = 0 /\ draws'[q] = 1
      BY <1>1, <2>1, <2>3, <3>1 DEF OneDraw, PermitInv
    <3> QED  BY <2>1, <2>2, <3>1, <3>2 DEF OneDraw
  <2>4. CASE q # p
    <3>1. ~HoldsPermit(w, q) /\ draws'[q] = draws[q]
      BY <1>1, <2>4 DEF HoldsPermit, PermitInv
    <3> QED  BY <1>1, <2>1, <2>2, <3>1 DEF OneDraw
  <2> QED  BY <2>3, <2>4
<1> QED  BY <1>1, <1>2, <1>3 DEF PermitInv

(* A worker lets go of its permit, which is in the table or excused.       *)
LEMMA ReleaseSteps ==
  ASSUME PermitInv, NEW w \in Workers, worker' = [worker EXCEPT ![w] = NoPermit],
         draws' = draws, used \subseteq used', excused \subseteq excused',
         worker[w].permit \in used' \cup excused'
  PROVE  PermitInv'
<1>1. worker' \in [Workers -> [stage : Stages, permit : Permits \cup {"none"}]]
  BY DEF PermitInv, NoPermit, Stages
<1>2. ASSUME NEW q \in Permits \ excused'  PROVE OneDraw(q)'
  <2>1. OneDraw(q)
    BY <1>2 DEF PermitInv
  <2>2. \A v \in Workers : /\ HoldsPermit(v, q)' => HoldsPermit(v, q) /\ worker'[v] = worker[v]
                           /\ HoldsPermit(v, q) /\ v # w => HoldsPermit(v, q)' /\ worker'[v] = worker[v]
    BY DEF HoldsPermit, PermitInv, NoPermit
  <2>3. HoldsPermit(w, q) => q \in used'
    BY <1>2 DEF HoldsPermit
  <2> QED  BY <2>1, <2>2, <2>3 DEF OneDraw
<1> QED  BY <1>1, <1>2 DEF PermitInv

LEMMA RestartSteps == ASSUME PermitInv, GuardRestart  PROVE PermitInv'
<1>1. /\ excused' = excused \cup {p \in Permits : Working(p, {"sent"}) # {}}
      /\ worker' = [w \in Workers |-> NoPermit] /\ used' = used /\ draws' = draws
  BY DEF GuardRestart
<1>2. worker' \in [Workers -> [stage : Stages, permit : Permits \cup {"none"}]]
  BY <1>1 DEF NoPermit, Stages
<1>3. ASSUME NEW q \in Permits \ excused'  PROVE OneDraw(q)'
  <2>1. OneDraw(q) /\ Working(q, {"sent"}) = {}
    BY <1>1, <1>3 DEF PermitInv
  <2>2. \A v \in Workers : ~HoldsPermit(v, q)'
    BY <1>1 DEF HoldsPermit, NoPermit
  <2>3. \A v \in Workers : ~(HoldsPermit(v, q) /\ worker[v].stage = "sent")
    BY <2>1 DEF Working, HoldsPermit
  <2> QED  BY <1>1, <2>1, <2>2, <2>3 DEF OneDraw
<1> QED  BY <1>1, <1>2, <1>3 DEF PermitInv

LEMMA PermitInvStep == PermitInv /\ [PermitNext]_permitVars => PermitInv'
<1> SUFFICES ASSUME PermitInv, [PermitNext]_permitVars  PROVE PermitInv'
  OBVIOUS
<1>1. ASSUME NEW w \in Workers, NEW p \in Permits, AskPermit(w, p)  PROVE PermitInv'
  <2>1. [stage |-> "asking", permit |-> p] \in [stage : Stages, permit : Permits \cup {"none"}]
    BY DEF Stages
  <2> QED  BY <1>1, <2>1, IdleWorkerSteps DEF AskPermit
<1>2. ASSUME NEW w \in Workers, NEW p \in Permits, Validate(w, p)  PROVE PermitInv'
  <2>1. p \notin excused' => \A v \in Workers : ~HoldsPermit(v, p)
    BY <1>2 DEF Validate, Working, HoldsPermit
  <2>2. Validated(w, p) /\ p \notin used /\ excused \subseteq excused'
        /\ draws' = draws /\ used' = used
    BY <1>2 DEF Validate, Passes
  <2> QED  BY <2>1, <2>2, ValidatedSteps
<1>3. ASSUME NEW w \in Workers, NEW p \in Permits, ValidateUnread(w, p)  PROVE PermitInv'
  BY <1>3, ValidatedSteps DEF ValidateUnread
<1>4. ASSUME NEW w \in Workers, PermitArrives(w) \/ PermitLost(w) \/ DuplicatePermit(w)
      PROVE  PermitInv'
  <2>1. NoPermit \in [stage : Stages, permit : Permits \cup {"none"}] /\ NoPermit.stage = "idle"
    BY DEF NoPermit, Stages
  <2>2. worker[w].stage = "asking" /\ worker' = [worker EXCEPT ![w] = NoPermit]
        /\ draws' = draws /\ used' = used /\ excused' = excused
    BY <1>4 DEF PermitArrives, PermitLost, DuplicatePermit
  <2> QED  BY <2>1, <2>2, IdleWorkerSteps
<1>5. ASSUME NEW w \in Workers, Draw(w)  PROVE PermitInv'
  BY <1>5, DrawSteps
<1>6. ASSUME NEW w \in Workers, Consume(w) \/ ConsumeFails(w)  PROVE PermitInv'
  BY <1>6, ReleaseSteps DEF Consume, ConsumeFails
<1>7. ASSUME NEW p \in Permits, PermitLapses(p)  PROVE PermitInv'
  BY <1>7, NothingHeldChanges DEF PermitLapses
<1>8. CASE GuardRestart
  BY <1>8, RestartSteps
<1>9. CASE UNCHANGED permitVars
  BY <1>9, NothingHeldChanges DEF permitVars
<1> QED  BY <1>1, <1>2, <1>3, <1>4, <1>5, <1>6, <1>7, <1>8, <1>9 DEF PermitNext

(* Nothing but an overlap of two fills, a death between the send and the   *)
(* row, or a failure of the database lets one permit pay twice.            *)
THEOREM PermitPaysOnce == PermitSpec => []RedrawIsExcused
<1>1. PermitInit => PermitInv
  BY DEF PermitInit, PermitInv, OneDraw, HoldsPermit, NoPermit, Stages
<1>2. PermitInv => RedrawIsExcused
  <2> SUFFICES ASSUME PermitInv, NEW p \in Permits, draws[p] > 1  PROVE p \in excused
    BY DEF RedrawIsExcused
  <2>1. ~(draws[p] <= 1)
    BY DEF PermitInv
  <2> QED  BY <2>1 DEF PermitInv, OneDraw
<1> QED  BY <1>1, <1>2, PermitInvStep, PTL DEF PermitSpec

(* Who is not idle holds a permit or asks for one.                         *)
PermitTyped ==
  /\ PermitTypeOK
  /\ worker \in [Workers -> [stage : Stages, permit : Permits \cup {"none"}]]
  /\ \A w \in Workers : worker[w].stage # "idle" => worker[w].permit \in Permits

\* Nobody holds a permit at the start, and no table has one.
LEMMA PermitTypesInit == PermitInit => PermitTyped
<1> SUFFICES ASSUME PermitInit  PROVE PermitTyped
  OBVIOUS
<1>1. NoPermit \in [stage : Stages, permit : Permits \cup {"none"}] /\ NoPermit.stage = "idle"
  BY DEF NoPermit, Stages
<1> QED  BY <1>1, GuardAssumption DEF PermitInit, PermitTyped, PermitTypeOK

(* One worker moves on, the tables keep their types.                       *)
LEMMA WorkerTypes ==
  ASSUME PermitTyped, NEW w \in Workers, NEW new \in [stage : Stages, permit : Permits \cup {"none"}],
         new.stage # "idle" => new.permit \in Permits,
         worker' = [worker EXCEPT ![w] = new],
         issued' \subseteq Permits, received' \subseteq issued', lapsed' \subseteq issued',
         used' \subseteq Permits, excused' \subseteq Permits,
         draws' \in [Permits -> 0..MaxDraws], guardFaults' \in 0..MaxGuardFaults
  PROVE  PermitTyped'
<1>1. worker' \in [Workers -> [stage : Stages, permit : Permits \cup {"none"}]]
  BY DEF PermitTyped
<1>2. \A v \in Workers : worker'[v].stage # "idle" => worker'[v].permit \in Permits
  BY DEF PermitTyped
<1>3. \A v \in Workers : worker'[v].stage \in {"idle", "asking", "validated", "sent"}
  BY <1>1 DEF Stages
<1> QED  BY <1>1, <1>2, <1>3 DEF PermitTyped, PermitTypeOK

\* Whoever moves, what is received or has lapsed was issued.
LEMMA PermitTypesStep == PermitTyped /\ [PermitNext]_permitVars => PermitTyped'
<1> SUFFICES ASSUME PermitTyped, [PermitNext]_permitVars  PROVE PermitTyped'
  OBVIOUS
<1> USE GuardAssumption
<1> DEFINE Slots == [stage : Stages, permit : Permits \cup {"none"}]
<1>0. NoPermit \in Slots /\ NoPermit.stage = "idle"
  BY DEF NoPermit, Stages
<1>1. ASSUME NEW w \in Workers, NEW p \in Permits, AskPermit(w, p)  PROVE PermitTyped'
  <2>1. [stage |-> "asking", permit |-> p] \in Slots
    BY DEF Stages
  <2> QED  BY <1>1, <2>1, WorkerTypes DEF AskPermit, PermitTyped, PermitTypeOK
<1>2. ASSUME NEW w \in Workers, NEW p \in Permits, Validate(w, p) \/ ValidateUnread(w, p)
      PROVE  PermitTyped'
  <2>1. [stage |-> "validated", permit |-> p] \in Slots
    BY DEF Stages
  <2>2. worker' = [worker EXCEPT ![w] = [stage |-> "validated", permit |-> p]]
    BY <1>2 DEF Validate, ValidateUnread, Validated
  <2>3. excused' \subseteq excused \cup {p} /\ guardFaults' \in 0..MaxGuardFaults
        /\ UNCHANGED <<issued, received, lapsed, used, draws>>
    BY <1>2 DEF Validate, ValidateUnread, GuardFault, PermitTyped, PermitTypeOK
  <2> QED  BY <2>1, <2>2, <2>3, WorkerTypes DEF PermitTyped, PermitTypeOK
<1>3. ASSUME NEW w \in Workers, PermitArrives(w) \/ PermitLost(w) \/ DuplicatePermit(w)
      PROVE  PermitTyped'
  <2>1. worker[w].stage = "asking" /\ worker' = [worker EXCEPT ![w] = NoPermit]
        /\ UNCHANGED <<lapsed, used, draws, excused>> /\ guardFaults' \in 0..MaxGuardFaults
    BY <1>3 DEF PermitArrives, PermitLost, DuplicatePermit, GuardFault, PermitTyped, PermitTypeOK
  <2>2. worker[w].permit \in Permits
    BY <2>1 DEF PermitTyped
  <2>3. /\ issued \subseteq issued' /\ issued' \subseteq issued \cup {worker[w].permit}
        /\ received' \subseteq issued'
    BY <1>3 DEF PermitArrives, PermitLost, DuplicatePermit, PermitTyped, PermitTypeOK
  <2> QED  BY <1>0, <2>1, <2>2, <2>3, WorkerTypes DEF PermitTyped, PermitTypeOK
<1>4. ASSUME NEW w \in Workers, Draw(w)  PROVE PermitTyped'
  <2> DEFINE p == worker[w].permit
             new == [worker[w] EXCEPT !.stage = "sent"]
  <2>1. /\ worker[w].stage = "validated" /\ draws[p] < MaxDraws
        /\ draws' = [draws EXCEPT ![p] = draws[p] + 1] /\ worker' = [worker EXCEPT ![w] = new]
        /\ UNCHANGED <<issued, received, lapsed, used, excused, guardFaults>>
    BY <1>4 DEF Draw
  <2>2. p \in Permits
    BY <2>1 DEF PermitTyped
  <2>3. new \in Slots /\ new.permit = p
    BY <2>2 DEF PermitTyped, Stages
  <2>4. draws' \in [Permits -> 0..MaxDraws]
    BY <2>1, <2>2 DEF PermitTyped, PermitTypeOK
  <2> HIDE DEF p, new
  <2> QED  BY <2>1, <2>2, <2>3, <2>4, WorkerTypes DEF PermitTyped, PermitTypeOK
<1>5. ASSUME NEW w \in Workers, Consume(w) \/ ConsumeFails(w)  PROVE PermitTyped'
  <2>1. worker[w].stage = "sent" /\ worker' = [worker EXCEPT ![w] = NoPermit]
        /\ UNCHANGED <<issued, received, lapsed, draws>> /\ guardFaults' \in 0..MaxGuardFaults
    BY <1>5 DEF Consume, ConsumeFails, GuardFault, PermitTyped, PermitTypeOK
  <2>2. worker[w].permit \in Permits
    BY <2>1 DEF PermitTyped
  <2>3. used' \cup excused' \subseteq used \cup excused \cup {worker[w].permit}
    BY <1>5 DEF Consume, ConsumeFails
  <2> QED  BY <1>0, <2>1, <2>2, <2>3, WorkerTypes DEF PermitTyped, PermitTypeOK
<1>6. ASSUME NEW p \in Permits, PermitLapses(p)  PROVE PermitTyped'
  BY <1>6 DEF PermitLapses, PermitTyped, PermitTypeOK
<1>7. CASE GuardRestart
  <2>1. worker' = [v \in Workers |-> NoPermit] /\ received' \subseteq received
        /\ excused' \subseteq excused \cup Permits /\ guardFaults' \in 0..MaxGuardFaults
        /\ UNCHANGED <<issued, lapsed, used, draws>>
    BY <1>7 DEF GuardRestart, GuardFault, PermitTyped, PermitTypeOK
  <2> QED  BY <1>0, <2>1 DEF PermitTyped, PermitTypeOK
<1>8. CASE UNCHANGED permitVars
  BY <1>8 DEF permitVars, PermitTyped, PermitTypeOK
<1> QED  BY <1>1, <1>2, <1>3, <1>4, <1>5, <1>6, <1>7, <1>8 DEF PermitNext

-----------------------------------------------------------------------------
(* The nonces of the hosting service                                       *)

(* Numbers are issued in order, so one entry of the store bears a number.  *)
NoncesInOrder ==
  /\ lastNonce \in Nat
  /\ \A e \in nonces : e.nonce \in Nat /\ e.nonce \in Nonces /\ e.nonce <= lastNonce
  /\ \A e, f \in nonces : e.nonce = f.nonce => e = f

(* A number that let a request in has left the store for good.             *)
AdmittedIsSpent ==
  /\ admissions \in [Nonces -> SUBSET Requests]
  /\ \A n \in Nonces : \A r, q \in admissions[n] : r = q
  /\ \A n \in Nonces : admissions[n] # {} => n \in Nat /\ n <= lastNonce
  /\ \A e \in nonces : admissions[e.nonce] = {}

LetIn(r) == \E n \in Nonces : r \in admissions[n]

(* Only a request that was let in reaches the row with a full message.     *)
AdmittedWasLetIn ==
  /\ DOMAIN request = Requests
  /\ \A r \in Requests : request[r].stage = "admitted" /\ Form[r].siwe = "full" => LetIn(r)

VerifiedWasLetIn ==
  \A s \in DOMAIN solverRows : solverRows[s].verified => LetIn(solverRows[s].token)

HostInv == NoncesInOrder /\ AdmittedIsSpent /\ AdmittedWasLetIn /\ VerifiedWasLetIn

HostSpec == HostInit /\ [][HostNext]_hostVars

-----------------------------------------------------------------------------
LEMMA InitHolds == HostInit => HostInv
<1> SUFFICES ASSUME HostInit  PROVE HostInv
  OBVIOUS
<1>1. NoncesInOrder
  BY DEF HostInit, NoncesInOrder, NoNonce
<1>2. AdmittedIsSpent
  BY DEF HostInit, AdmittedIsSpent
<1>3. AdmittedWasLetIn
  BY DEF HostInit, AdmittedWasLetIn
<1>4. VerifiedWasLetIn
  BY DEF HostInit, VerifiedWasLetIn, NoRow
<1> QED  BY <1>1, <1>2, <1>3, <1>4 DEF HostInv

LEMMA IssueKeepsInv == ASSUME HostInv, NEW w \in Wallets, IssueNonce(w)  PROVE HostInv'
<1> DEFINE entry == [nonce |-> lastNonce + 1, wallet |-> w, at |-> nowHost]
<1>1. /\ lastNonce' = lastNonce + 1 /\ lastNonce + 1 \in Nonces
      /\ request' = request /\ solverRows' = solverRows /\ admissions' = admissions
      /\ \A e \in nonces' : e \in nonces \/ e = entry
  BY DEF IssueNonce, Newest
<1>2. entry.nonce = lastNonce + 1
  OBVIOUS
<1> HIDE DEF entry
<1>3. NoncesInOrder'
  <2>1. \A e \in nonces : e.nonce # entry.nonce
    BY <1>2 DEF HostInv, NoncesInOrder
  <2>2. \A e \in nonces' : e.nonce \in Nat /\ e.nonce \in Nonces /\ e.nonce <= lastNonce'
    BY <1>1, <1>2 DEF HostInv, NoncesInOrder
  <2>3. \A e, f \in nonces' : e.nonce = f.nonce => e = f
    BY <1>1, <2>1 DEF HostInv, NoncesInOrder
  <2> QED  BY <1>1, <2>2, <2>3 DEF HostInv, NoncesInOrder
<1>4. AdmittedIsSpent'
  <2>1. admissions[entry.nonce] = {}
    BY <1>1, <1>2 DEF HostInv, NoncesInOrder, AdmittedIsSpent
  <2>2. \A n \in Nonces : admissions[n] # {} => n \in Nat /\ n <= lastNonce'
    BY <1>1 DEF HostInv, NoncesInOrder, AdmittedIsSpent
  <2>3. \A e \in nonces' : admissions[e.nonce] = {}
    BY <1>1, <2>1 DEF HostInv, AdmittedIsSpent
  <2> QED  BY <1>1, <2>2, <2>3 DEF HostInv, AdmittedIsSpent
<1>5. AdmittedWasLetIn' /\ VerifiedWasLetIn'
  BY <1>1 DEF HostInv, AdmittedWasLetIn, VerifiedWasLetIn, LetIn
<1> QED  BY <1>3, <1>4, <1>5 DEF HostInv

(* Steps that issue no number and let nobody in: entries may go, and a     *)
(* request is admitted only without a full message.                        *)
LEMMA QuietStepsKeepInv ==
  ASSUME HostInv, nonces' \subseteq nonces,
         UNCHANGED <<lastNonce, solverRows, admissions>>,
         DOMAIN request' = Requests,
         \A r \in Requests : request'[r].stage = "admitted" =>
            request[r].stage = "admitted" \/ Form[r].siwe # "full"
  PROVE  HostInv'
<1>1. NoncesInOrder'
  BY DEF HostInv, NoncesInOrder
<1>2. AdmittedIsSpent'
  BY DEF HostInv, AdmittedIsSpent
<1>3. AdmittedWasLetIn'
  BY DEF HostInv, AdmittedWasLetIn, LetIn
<1>4. VerifiedWasLetIn'
  BY DEF HostInv, VerifiedWasLetIn, LetIn
<1> QED  BY <1>1, <1>2, <1>3, <1>4 DEF HostInv

LEMMA ConsumeKeepsInv == ASSUME HostInv, NEW r \in Requests, ConsumeNonce(r)  PROVE HostInv'
<1> DEFINE live == \E e \in Entry(r) : Unexpired(e)
           k == request[r].nonce
<1>1. /\ nonces' = nonces \ Entry(r) /\ lastNonce' = lastNonce /\ solverRows' = solverRows
      /\ request' = [request EXCEPT ![r].stage = IF live THEN "admitted" ELSE "refused"]
      /\ admissions' = IF live THEN [admissions EXCEPT ![k] = @ \cup {r}] ELSE admissions
  BY DEF ConsumeNonce
<1>2. /\ DOMAIN request' = Requests
      /\ \A q \in Requests \ {r} : request'[q] = request[q]
      /\ request'[r].stage = "admitted" => live
  BY <1>1 DEF HostInv, AdmittedWasLetIn
<1>3. CASE ~live
  BY <1>1, <1>2, <1>3, QuietStepsKeepInv
<1>4. CASE live
  <2>1. PICK e \in nonces : e.nonce = k
    BY <1>4 DEF Entry
  <2>2. k \in Nonces /\ k \in Nat /\ k <= lastNonce /\ admissions[k] = {}
    BY <2>1 DEF HostInv, NoncesInOrder, AdmittedIsSpent
  <2>3. /\ admissions' = [admissions EXCEPT ![k] = @ \cup {r}]
        /\ admissions'[k] = {r} /\ \A n \in Nonces \ {k} : admissions'[n] = admissions[n]
    BY <1>1, <1>4, <2>2 DEF HostInv, AdmittedIsSpent
  <2>4. \A f \in nonces' : f \in nonces /\ f.nonce # k
    BY <1>1, <1>4 DEF Entry, HostInv, NoncesInOrder
  <2>5. \A q : LetIn(q) => LetIn(q)'
    BY <2>2, <2>3 DEF LetIn
  <2>6. LetIn(r)'
    BY <2>2, <2>3 DEF LetIn
  <2>7. NoncesInOrder'
    BY <1>1, <2>4 DEF HostInv, NoncesInOrder
  <2>8. AdmittedIsSpent'
    <3>1. admissions' \in [Nonces -> SUBSET Requests]
      BY <2>2, <2>3 DEF HostInv, AdmittedIsSpent
    <3>2. \A n \in Nonces : \A p, q \in admissions'[n] : p = q
      BY <2>3 DEF HostInv, AdmittedIsSpent
    <3>3. \A n \in Nonces : admissions'[n] # {} => n \in Nat /\ n <= lastNonce'
      BY <1>1, <2>2, <2>3 DEF HostInv, AdmittedIsSpent
    <3>4. \A f \in nonces' : admissions'[f.nonce] = {}
      BY <2>3, <2>4 DEF HostInv, NoncesInOrder, AdmittedIsSpent
    <3> QED  BY <3>1, <3>2, <3>3, <3>4 DEF AdmittedIsSpent
  <2>9. AdmittedWasLetIn'
    BY <1>2, <2>5, <2>6 DEF HostInv, AdmittedWasLetIn
  <2>10. VerifiedWasLetIn'
    BY <1>1, <2>5 DEF HostInv, VerifiedWasLetIn
  <2> QED  BY <2>7, <2>8, <2>9, <2>10 DEF HostInv
<1> QED  BY <1>3, <1>4

LEMMA SaveKeepsInv == ASSUME HostInv, NEW r \in Requests, SaveRow(r)  PROVE HostInv'
<1> DEFINE row == [token |-> r, verified |-> Form[r].siwe = "full"]
<1>1. /\ solverRows' = [solverRows EXCEPT ![SolverOf[Form[r].wallet]] = row]
      /\ request[r].stage = "admitted" /\ request' = [request EXCEPT ![r].stage = "done"]
      /\ nonces' = nonces /\ lastNonce' = lastNonce /\ admissions' = admissions
  BY DEF SaveRow
<1>2. row.token = r /\ (row.verified => Form[r].siwe = "full")
  OBVIOUS
<1> HIDE DEF row
<1>3. NoncesInOrder' /\ AdmittedIsSpent'
  BY <1>1 DEF HostInv, NoncesInOrder, AdmittedIsSpent
<1>4. \A q : LetIn(q)' <=> LetIn(q)
  BY <1>1 DEF LetIn
<1>5. AdmittedWasLetIn'
  BY <1>1, <1>4 DEF HostInv, AdmittedWasLetIn
<1>6. VerifiedWasLetIn'
  <2>1. \A s \in DOMAIN solverRows' : s \in DOMAIN solverRows
          /\ (solverRows'[s] = solverRows[s] \/ solverRows'[s] = row)
    BY <1>1
  <2>2. row.verified => LetIn(row.token)
    BY <1>1, <1>2 DEF HostInv, AdmittedWasLetIn
  <2> QED  BY <1>4, <2>1, <2>2 DEF HostInv, VerifiedWasLetIn
<1> QED  BY <1>3, <1>5, <1>6 DEF HostInv

LEMMA StepKeepsInv == HostInv /\ [HostNext]_hostVars => HostInv'
<1> SUFFICES ASSUME HostInv, [HostNext]_hostVars  PROVE HostInv'
  OBVIOUS
<1>1. ASSUME NEW w \in Wallets, IssueNonce(w)  PROVE HostInv'
  BY <1>1, IssueKeepsInv
<1>2. ASSUME NEW r \in Requests, NEW n \in Nonces, CheckMessage(r, n)  PROVE HostInv'
  <2>1. DOMAIN request' = Requests /\ \A q \in Requests \ {r} : request'[q] = request[q]
    BY <1>2 DEF CheckMessage, HostInv, AdmittedWasLetIn
  <2>2. request'[r].stage = "admitted" => Form[r].siwe # "full"
    BY <1>2 DEF CheckMessage, HostInv, AdmittedWasLetIn
  <2>3. nonces' = nonces /\ UNCHANGED <<lastNonce, solverRows, admissions>>
    BY <1>2 DEF CheckMessage
  <2> QED  BY <2>1, <2>2, <2>3, QuietStepsKeepInv
<1>3. ASSUME NEW r \in Requests, ConsumeNonce(r)  PROVE HostInv'
  BY <1>3, ConsumeKeepsInv
<1>4. ASSUME NEW r \in Requests, SaveRow(r)  PROVE HostInv'
  BY <1>4, SaveKeepsInv
<1>5. ASSUME NEW r \in Requests, SaveFails(r)  PROVE HostInv'
  <2>1. /\ DOMAIN request' = Requests /\ request'[r].stage # "admitted"
        /\ \A q \in Requests \ {r} : request'[q] = request[q]
    BY <1>5 DEF SaveFails, HostInv, AdmittedWasLetIn
  <2>2. nonces' = nonces /\ UNCHANGED <<lastNonce, solverRows, admissions>>
    BY <1>5 DEF SaveFails
  <2> QED  BY <2>1, <2>2, QuietStepsKeepInv
<1>6. CASE HostRestart
  <2>1. DOMAIN request' = Requests /\ \A q \in Requests : request'[q].stage # "admitted"
    BY <1>6 DEF HostRestart
  <2>2. nonces' \subseteq nonces /\ UNCHANGED <<lastNonce, solverRows, admissions>>
    BY <1>6 DEF HostRestart
  <2> QED  BY <2>1, <2>2, QuietStepsKeepInv
<1>7. CASE HostClock \/ UNCHANGED hostVars
  <2>1. nonces' = nonces /\ UNCHANGED <<lastNonce, solverRows, admissions, request>>
    BY <1>7 DEF HostClock, hostVars
  <2> QED  BY <2>1, QuietStepsKeepInv DEF HostInv, AdmittedWasLetIn
<1> QED  BY <1>1, <1>2, <1>3, <1>4, <1>5, <1>6, <1>7 DEF HostNext

(* However many requests carry one nonce at once, and whatever restarts    *)
(* lie between, one is let in, and only it makes a row verified.           *)
THEOREM NonceLetsInOne == HostSpec => []NonceAdmitsOnce
<1>1. HostInv => NonceAdmitsOnce
  <2> SUFFICES ASSUME HostInv  PROVE NonceAdmitsOnce
    OBVIOUS
  <2>1. ASSUME NEW n \in Nonces  PROVE Cardinality(admissions[n]) <= 1
    <3>1. CASE admissions[n] = {}
      <4>1. Cardinality({}) = 0
        BY FS_EmptySet
      <4>2. Cardinality(admissions[n]) = 0
        BY <3>1, <4>1, Zenon
      <4> QED  BY <4>2, SMT
    <3>2. CASE admissions[n] # {}
      <4>1. PICK r \in admissions[n] : TRUE
        BY <3>2
      <4>2. admissions[n] = {r}
        BY <4>1 DEF HostInv, AdmittedIsSpent
      <4>3. Cardinality({r}) = 1
        BY FS_Singleton
      <4>4. Cardinality(admissions[n]) = 1
        BY <4>2, <4>3, Zenon
      <4> QED  BY <4>4, SMT
    <3> QED  BY <3>1, <3>2
  <2>2. ASSUME NEW s \in DOMAIN solverRows, solverRows[s].verified
        PROVE  \E n \in Nonces : solverRows[s].token \in admissions[n]
    BY <2>2 DEF HostInv, VerifiedWasLetIn, LetIn
  <2> QED  BY <2>1, <2>2 DEF NonceAdmitsOnce
<1> QED  BY <1>1, InitHolds, StepKeepsInv, PTL DEF HostSpec

(* Every nonempty set of numbers has a least one.                          *)
LEMMA LeastNat ==
  ASSUME NEW T \in SUBSET Nat, T # {}
  PROVE  \E x \in T : \A y \in T : x <= y
<1>1. PICK x \in T : \A y \in T : ~(<<y, x>> \in OpToRel(<, Nat))
  BY NatLessThanWellFounded, WFMin
<1>2. \A y \in T : ~(y < x)
  BY <1>1 DEF OpToRel
<1> QED  BY <1>2

(* The invariant gives the numbers of the nonces, the types the rest.      *)
HostTyped ==
  /\ HostInv /\ HostTypeOK
  /\ IsFiniteSet(nonces)

(* The newest k of entries that bear different numbers are k at most: the  *)
(* oldest of them has fewer than k above it.                               *)
LEMMA NewestAreFew ==
  ASSUME NEW S, IsFiniteSet(S), NEW k \in Nat,
         \A e \in S : e.nonce \in Nat,
         \A e, f \in S : e.nonce = f.nonce => e = f
  PROVE  /\ IsFiniteSet(Newest(S, k)) /\ Newest(S, k) \subseteq S
         /\ Cardinality(Newest(S, k)) <= k
<1> DEFINE N == Newest(S, k)
<1>1. N \subseteq S /\ \A e \in N : Cardinality({f \in S : f.nonce > e.nonce}) < k
  BY DEF Newest
<1> HIDE DEF N
<1>2. IsFiniteSet(N)
  BY <1>1, FS_Subset
<1>3. CASE N = {}
  <2>1. Cardinality(N) = 0
    BY <1>3, FS_EmptySet
  <2> QED  BY <1>1, <1>2, <2>1 DEF N
<1>4. CASE N # {}
  <2> DEFINE Numbers == {e.nonce : e \in N}
  <2>1. Numbers \subseteq Nat /\ Numbers # {}
    BY <1>1, <1>4
  <2>2. PICK n \in Numbers : \A m \in Numbers : n <= m
    BY <2>1, LeastNat
  <2>3. PICK e \in N : e.nonce = n
    BY <2>2
  <2> DEFINE Above == {f \in S : f.nonce > e.nonce}
  <2>4. N \ {e} \subseteq Above
    BY <1>1, <2>1, <2>2, <2>3
  <2>5. IsFiniteSet(Above) /\ Cardinality(Above) < k
    BY <1>1, FS_Subset
  <2> HIDE DEF Above
  <2>6. Cardinality(N \ {e}) <= Cardinality(Above)
    BY <2>4, <2>5, FS_Subset
  <2>7. Cardinality(N \ {e}) = Cardinality(N) - 1
    BY <1>2, FS_RemoveElement
  <2>8. Cardinality(N) \in Nat /\ Cardinality(Above) \in Nat
    BY <1>2, <2>5, FS_CardinalityType
  <2> QED  BY <1>1, <1>2, <2>5, <2>6, <2>7, <2>8 DEF N
<1> QED  BY <1>3, <1>4

\* The store starts empty.
LEMMA HostTypesInit == HostInit => HostTyped
<1> SUFFICES ASSUME HostInit  PROVE HostTyped
  OBVIOUS
<1>1. IsFiniteSet(nonces) /\ Cardinality(nonces) = 0
  BY FS_EmptySet DEF HostInit
<1>2. HostTypeOK
  BY <1>1, StoreAssumption, HostAssumption DEF HostInit, HostTypeOK
<1> QED  BY <1>1, <1>2, InitHolds DEF HostTyped

(* Entries go, requests move on, and nothing else is disturbed.            *)
LEMMA QuietStepsKeepTypes ==
  ASSUME HostTyped, HostInv', nonces' \subseteq nonces, lastNonce' = lastNonce,
         nowHost' \in nowHost..MaxNow, hostFaults' \in 0..MaxHostFaults,
         \A r \in Requests :
            request'[r].stage \in {"new", "checked", "admitted", "done", "refused"},
         admissions' \in [Nonces -> SUBSET Requests]
  PROVE  HostTyped'
<1>1. IsFiniteSet(nonces') /\ Cardinality(nonces') <= Cardinality(nonces)
  BY FS_Subset DEF HostTyped
<1>2. Cardinality(nonces') \in Nat /\ Cardinality(nonces) \in Nat
  BY <1>1, FS_CardinalityType DEF HostTyped
<1>3. Cardinality(nonces') <= NonceCap
  BY <1>1, <1>2, StoreAssumption DEF HostTyped, HostTypeOK
<1>4. nowHost' \in 0..MaxNow
  BY HostAssumption DEF HostTyped, HostTypeOK
<1> QED  BY <1>1, <1>3, <1>4 DEF HostTyped, HostTypeOK

\* A nonce that is issued finds room among the newest.
LEMMA HostTypesStep == HostTyped /\ [HostNext]_hostVars => HostTyped'
<1> SUFFICES ASSUME HostTyped, [HostNext]_hostVars  PROVE HostTyped'
  OBVIOUS
<1> USE HostAssumption
<1>0. HostInv'
  BY StepKeepsInv DEF HostTyped
<1>1. ASSUME NEW w \in Wallets, IssueNonce(w)  PROVE HostTyped'
  <2> DEFINE S == {e \in nonces : Unexpired(e)}
             entry == [nonce |-> lastNonce + 1, wallet |-> w, at |-> nowHost]
             k == NonceCap - 1
  <2>1. /\ lastNonce' = lastNonce + 1 /\ lastNonce + 1 \in Nonces
        /\ nonces' = Newest(S, k) \cup {entry}
        /\ UNCHANGED <<nowHost, request, solverRows, admissions, hostFaults>>
    BY <1>1 DEF IssueNonce
  <2>2. /\ S \subseteq nonces /\ IsFiniteSet(S) /\ k \in Nat
        /\ \A e \in S : e.nonce \in Nat
        /\ \A e, f \in S : e.nonce = f.nonce => e = f
    BY FS_Subset, StoreAssumption DEF HostTyped, HostInv, NoncesInOrder
  <2>3. entry \in [nonce : Nonces, wallet : Wallets, at : 0..MaxNow]
    BY <2>1 DEF HostTyped, HostTypeOK
  <2> HIDE DEF S, entry, k
  <2>4. IsFiniteSet(Newest(S, k)) /\ Newest(S, k) \subseteq S /\ Cardinality(Newest(S, k)) <= k
    BY <2>2, NewestAreFew
  <2>5. IsFiniteSet(nonces') /\ Cardinality(nonces') <= Cardinality(Newest(S, k)) + 1
    <3>1. Cardinality(Newest(S, k)) \in Nat
      BY <2>4, FS_CardinalityType
    <3> QED  BY <2>1, <2>4, <3>1, FS_AddElement
  <2>6. Cardinality(Newest(S, k)) \in Nat /\ Cardinality(nonces') \in Nat
    BY <2>4, <2>5, FS_CardinalityType
  <2>7. Cardinality(nonces') <= NonceCap
    BY <2>2, <2>4, <2>5, <2>6, StoreAssumption DEF k
  <2>8. nonces' \subseteq [nonce : Nonces, wallet : Wallets, at : 0..MaxNow]
    BY <2>1, <2>2, <2>3, <2>4 DEF HostTyped, HostTypeOK
  <2> QED  BY <1>0, <2>1, <2>5, <2>7, <2>8 DEF HostTyped, HostTypeOK
<1>2. ASSUME NEW r \in Requests, NEW n \in Nonces, CheckMessage(r, n)  PROVE HostTyped'
  <2>1. /\ \A q \in Requests : request'[q].stage \in {request[q].stage, "admitted", "checked", "refused"}
        /\ UNCHANGED <<nowHost, nonces, lastNonce, admissions, hostFaults>>
    BY <1>2 DEF CheckMessage, HostTyped, HostInv, AdmittedWasLetIn
  <2> QED  BY <1>0, <2>1, QuietStepsKeepTypes DEF HostTyped, HostTypeOK
<1>3. ASSUME NEW r \in Requests, ConsumeNonce(r)  PROVE HostTyped'
  <2>1. /\ \A q \in Requests : request'[q].stage \in {request[q].stage, "admitted", "refused"}
        /\ nonces' \subseteq nonces /\ UNCHANGED <<nowHost, lastNonce, hostFaults>>
    BY <1>3 DEF ConsumeNonce, HostTyped, HostInv, AdmittedWasLetIn
  <2>2. admissions' \in [Nonces -> SUBSET Requests]
    BY <1>0 DEF HostInv, AdmittedIsSpent
  <2> QED  BY <1>0, <2>1, <2>2, QuietStepsKeepTypes DEF HostTyped, HostTypeOK
<1>4. ASSUME NEW r \in Requests, SaveRow(r) \/ SaveFails(r)  PROVE HostTyped'
  <2>1. \A q \in Requests : request'[q].stage \in {request[q].stage, "done", "refused"}
    <3>1. \E s \in {"done", "refused"} : request' = [request EXCEPT ![r].stage = s]
      BY <1>4 DEF SaveRow, SaveFails
    <3> QED  BY <3>1 DEF HostTyped, HostInv, AdmittedWasLetIn
  <2>2. UNCHANGED <<nowHost, nonces, lastNonce, admissions>> /\ hostFaults' \in 0..MaxHostFaults
    BY <1>4 DEF SaveRow, SaveFails, HostTyped, HostTypeOK
  <2> QED  BY <1>0, <2>1, <2>2, QuietStepsKeepTypes DEF HostTyped, HostTypeOK
<1>5. CASE HostRestart
  <2>1. /\ \A q \in Requests : request'[q].stage \in {request[q].stage, "refused"}
        /\ nonces' = {} /\ UNCHANGED <<nowHost, lastNonce, admissions>>
        /\ hostFaults' \in 0..MaxHostFaults
    BY <1>5 DEF HostRestart, HostTyped, HostTypeOK
  <2> QED  BY <1>0, <2>1, QuietStepsKeepTypes DEF HostTyped, HostTypeOK
<1>6. CASE HostClock
  BY <1>0, <1>6, QuietStepsKeepTypes DEF HostClock, HostTyped, HostTypeOK
<1>7. CASE UNCHANGED hostVars
  BY <1>0, <1>7 DEF hostVars, HostTyped, HostTypeOK
<1> QED  BY <1>1, <1>2, <1>3, <1>4, <1>5, <1>6, <1>7 DEF HostNext
=============================================================================
