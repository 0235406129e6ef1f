------------------------- MODULE AttestationProofs -------------------------
(***************************************************************************)
(* The attestation loop, proved for every number of fills, requests,       *)
(* timeouts, failures and restarts.                                        *)
(***************************************************************************)
EXTENDS AttestationPump, FiniteSetTheorems, WellFoundedInduction, TLAPS

-----------------------------------------------------------------------------
(* The operators the model is built from                                   *)

\* A set of naturals that is not empty has a least element.
LEMMA LeastNat ==
  ASSUME NEW T \in SUBSET Nat, T # {}
  PROVE  \E x \in T : \A y \in T : x <= y
<1>1. PICK x \in T : \A y \in T : ~(<<y, x>> \in OpToRel(<, Nat))
  BY NatLessThanWellFounded, WFMin
<1>2. \A y \in T : ~(y < x)
  BY <1>1 DEF OpToRel
<1> QED
  BY <1>2

\* The row in hand is a row of the batch, and the oldest.
LEMMA RowIsOldest ==
  ASSUME batch \subseteq Fills, batch # {}
  PROVE  Row \in batch /\ \A g \in batch : Row <= g
<1>1. batch \in SUBSET Nat
  BY MaxFillsIsNat DEF Fills
<1>2. \E f \in batch : \A g \in batch : f <= g
  BY <1>1, LeastNat
<1> QED
  BY <1>2 DEF Row

AttestationRow == [fill : Fills, prev : Seq(Fills)]

\* The head of the chain is the newest attestation of the ledger.
LEMMA NewestIsLast ==
  ASSUME ledger \subseteq AttestationRow, ledger # {}
  PROVE  /\ Newest(ledger) \in ledger
         /\ \A b \in ledger : b.fill <= Newest(ledger).fill
<1> DEFINE T == {MaxFills - a.fill : a \in ledger}
<1>1. \A a \in ledger : a.fill \in Nat /\ a.fill <= MaxFills
  BY MaxFillsIsNat DEF AttestationRow, Fills
<1>2. T \in SUBSET Nat /\ T # {}
  BY <1>1, MaxFillsIsNat
<1>3. PICK a \in ledger : \A t \in T : MaxFills - a.fill <= t
  <2> HIDE DEF T
  <2>1. PICK x \in T : \A t \in T : x <= t
    BY <1>2, LeastNat
  <2>2. PICK a \in ledger : x = MaxFills - a.fill
    BY <2>1 DEF T
  <2> QED
    BY <2>1, <2>2
<1>4. \A b \in ledger : b.fill <= a.fill
  BY <1>1, <1>3, MaxFillsIsNat
<1> QED
  BY <1>4 DEF Newest

\* The head a poster signs on is a hash the ledger holds, or genesis.
LEMMA LedgerHeadResolves ==
  ASSUME ledger \subseteq AttestationRow
  PROVE  LedgerHead \in Seq(Fills) \cap ({ZeroHash} \cup Hashes)
<1>1. CASE ledger = {}
  BY <1>1 DEF LedgerHead, ZeroHash
<1>2. CASE ledger # {}
  <2>1. Newest(ledger) \in ledger
    BY <1>2, NewestIsLast
  <2>2. HashForChain(Newest(ledger)) \in Seq(Fills) \cap Hashes
    BY <2>1 DEF HashForChain, Hashes, AttestationRow
  <2> QED
    BY <1>2, <2>2 DEF LedgerHead
<1> QED
  BY <1>1, <1>2

-----------------------------------------------------------------------------
(* Type correctness                                                        *)

\* A row is in hand while its request is under way.
RowInHand ==
  pc \in {"await", "await_retry", "refresh", "resync"} => batch # {}

TypeInv == TypeOK /\ RowInHand

LEMMA TypeInit == Init => TypeInv
BY MaxFillsIsNat
DEF Init, InitLedger, TypeInv, TypeOK, RowInHand, ZeroHash

\* Requests on their way keep their type through every step of the server.
LEMMA ServerType ==
  ASSUME TypeInv, NEW r \in posts, CheckLink(r) \/ InsertRow(r) \/ FailRequest(r),
         UNCHANGED <<execVars, pumpVars>>
  PROVE  TypeInv'
<1> USE DEF TypeInv, TypeOK, RowInHand, tables, execVars, pumpVars, PostStage
<1>1. CASE CheckLink(r)
  BY <1>1 DEF CheckLink, Answer
<1>2. CASE InsertRow(r)
  BY <1>2 DEF InsertRow, Answer, Accrual
<1>3. CASE FailRequest(r)
  BY <1>3 DEF FailRequest, Answer
<1> QED
  BY <1>1, <1>2, <1>3

\* What a post adds to the server.
LEMMA PostType ==
  ASSUME TypeOK, NEW f \in Fills, NEW prev \in Seq(Fills), Post(f, prev)
  PROVE  /\ posts' \subseteq [id : PostIds, fill : Fills, prev : Seq(Fills),
                              stage : PostStage]
         /\ conn' \in PostIds
         /\ reply' = "none"
         /\ sent' = prev
         /\ UNCHANGED tables
BY DEF TypeOK, Post, PostStage

\* Every step of the pump keeps the state well-typed.
LEMMA PumpType == ASSUME TypeInv, PumpStep PROVE TypeInv'
<1> USE DEF TypeInv, TypeOK, RowInHand, tables, ledgerVars, execVars, faultVars
<1>1. CASE BootstrapSeen
  BY <1>1 DEF BootstrapSeen, PersistedFills, Error
<1>2. CASE BootstrapHead \/ RefreshHead
  <2>1. LedgerHead \in Seq(Fills)
    BY LedgerHeadResolves DEF AttestationRow
  <2>2. lastPrev' \in Seq(Fills) /\ pc' \in {"poll", "row"} /\ batch' \subseteq Fills
    <3>1. lastPrev' \in {LedgerHead, ZeroHash, lastPrev}
      BY <1>2 DEF BootstrapHead, RefreshHead
    <3>2. pc' \in {"poll", "row"} /\ batch' \subseteq batch
      BY <1>2 DEF BootstrapHead, RefreshHead, NextRow
    <3>3. ZeroHash \in Seq(Fills)
      BY DEF ZeroHash
    <3> QED
      BY <2>1, <3>1, <3>2, <3>3
  <2> QED
    BY <1>2, <2>2 DEF BootstrapHead, RefreshHead
<1>3. CASE Poll
  BY <1>3 DEF Poll, RowsAfter
<1>4. CASE EndBatch
  BY <1>4 DEF EndBatch
<1>5. CASE TakeRow
  <2>1. Row \in Fills
    BY <1>5, RowIsOldest DEF TakeRow
  <2>2. watermark' \in {0} \cup Fills
    BY <1>5, <2>1 DEF TakeRow
  <2>3. CASE Row \in seen
    BY <1>5, <2>2, <2>3 DEF TakeRow
  <2>4. CASE Row \notin seen
    <3>1. Post(Row, lastPrev) /\ pc' = "await" /\ UNCHANGED batch
      BY <1>5, <2>4 DEF TakeRow
    <3> QED
      BY <1>5, <2>1, <2>2, <3>1, PostType DEF TakeRow
  <2> QED
    BY <2>3, <2>4
<1>6. CASE OnPersisted
  <2>1. Row \in Fills
    BY <1>6, RowIsOldest DEF OnPersisted
  <2>2. lastPrev' \in Seq(Fills)
    BY <1>6, <2>1 DEF OnPersisted, HashForChain
  <2> QED
    BY <1>6, <2>1, <2>2 DEF OnPersisted, CloseConn, NextRow
<1>7. CASE OnDuplicate
  BY <1>7, RowIsOldest DEF OnDuplicate, CloseConn
<1>8. CASE OnBadChain
  BY <1>8 DEF OnBadChain, CloseConn
<1>9. CASE Resync
  <2>1. Row \in Fills /\ LedgerHead \in Seq(Fills)
    BY <1>9, RowIsOldest, LedgerHeadResolves DEF Resync, AttestationRow
  <2>2. PICK prev \in Seq(Fills) : Post(Row, prev)
    BY <1>9, <2>1 DEF Resync
  <2> QED
    BY <1>9, <2>1, <2>2, PostType DEF Resync
<1>10. CASE OnResynced
  BY <1>10, RowIsOldest
  DEF OnResynced, GiveUp, SeenAfterFailure, CloseConn, NextRow
<1>11. CASE OnOther
  BY <1>11, RowIsOldest
  DEF OnOther, GiveUp, SeenAfterFailure, CloseConn, NextRow
<1> QED
  BY <1>1, <1>2, <1>3, <1>4, <1>5, <1>6, <1>7, <1>8, <1>9, <1>10, <1>11
  DEF PumpStep

LEMMA NextType == TypeInv /\ [Next]_vars => TypeInv'
<1> SUFFICES ASSUME TypeInv, [Next]_vars PROVE TypeInv'
  OBVIOUS
<1> USE DEF TypeInv, TypeOK, RowInHand, tables
<1>1. CASE StartFill
  <2>1. nextFill' \in 1 .. MaxFills + 1
    BY <1>1, MaxFillsIsNat DEF StartFill, Fills
  <2> QED
    BY <1>1, <2>1 DEF StartFill, ledgerVars, pumpVars
<1>2. ASSUME NEW f \in running, FinishFill(f) PROVE TypeInv'
  BY <1>2 DEF FinishFill, ledgerVars, pumpVars, faultVars
<1>3. CASE Serve
  BY <1>3, ServerType DEF Serve, ServerStep
<1>4. CASE Timeout
  BY <1>4, RowIsOldest
  DEF Timeout, GiveUp, SeenAfterFailure, CloseConn, NextRow, execVars
<1>5. ASSUME NEW r \in posts, RequestFails(r) PROVE TypeInv'
  BY <1>5, ServerType DEF RequestFails
<1>6. CASE Restart
  BY <1>6 DEF Restart, CloseConn, ZeroHash
<1>7. CASE UNCHANGED vars
  BY <1>7 DEF vars, ledgerVars, execVars, pumpVars, faultVars
<1>8. CASE ProvisionSpinner
  BY <1>8 DEF ProvisionSpinner, Provision, PersistedFills, execVars, pumpVars
<1> QED
  BY <1>1, <1>2, <1>3, <1>4, <1>5, <1>6, <1>7, <1>8, PumpType DEF Next

LEMMA TypeInvHolds == Spec => []TypeInv
BY TypeInit, NextType, PTL DEF Spec

\* Type correctness of the attestation loop, for every instance.
THEOREM TypeCorrect == Spec => []TypeOK
<1>1. TypeInv => TypeOK
  BY DEF TypeInv
<1> QED
  BY <1>1, TypeInvHolds, PTL

-----------------------------------------------------------------------------
(* The chain: every link resolves                                          *)

\* A request past its link check holds a link that resolves, although the
\* chain may have moved on since the check.
LinkInv ==
  /\ LinksResolve
  /\ \A r \in posts : r.stage = "linked" => r.prev \in {ZeroHash} \cup Hashes

\* Only the server writes the ledger, and it only adds to it.
LEMMA LedgerGrows ==
  ASSUME [Next]_vars
  PROVE  /\ ledger \subseteq ledger'
         /\ \/ \E r \in posts : InsertRow(r)
            \/ Provision
            \/ UNCHANGED tables
<1> USE DEF tables
<1>1. CASE StartFill \/ (\E f \in running : FinishFill(f)) \/ Timeout \/ Restart
  BY <1>1 DEF StartFill, FinishFill, Timeout, GiveUp, Restart, ledgerVars
<1>2. CASE PumpStep
  BY <1>2 DEF PumpStep, BootstrapSeen, BootstrapHead, Poll, EndBatch, TakeRow,
              OnPersisted, OnDuplicate, RefreshHead, OnBadChain, Resync,
              OnResynced, OnOther, GiveUp, Post, ledgerVars
<1>3. CASE Serve
  BY <1>3 DEF Serve, ServerStep, CheckLink, InsertRow
<1>4. ASSUME NEW r \in posts, RequestFails(r) PROVE UNCHANGED tables
  BY <1>4 DEF RequestFails, FailRequest
<1>5. CASE UNCHANGED vars
  BY <1>5 DEF vars, ledgerVars
<1>6. CASE ProvisionSpinner
  BY <1>6 DEF ProvisionSpinner, Provision
<1> QED
  BY <1>1, <1>2, <1>3, <1>4, <1>5, <1>6 DEF Next

\* A request becomes "linked" only in CheckLink; every other new request has
\* just been received.
LEMMA NewRequests ==
  ASSUME [Next]_vars
  PROVE  \A q \in posts' :
           \/ q \in posts
           \/ q.stage = "received"
           \/ \E r \in posts : CheckLink(r) /\ q.prev = r.prev /\ LinkHolds(r)
<1> DEFINE P == \A q \in posts' :
                  \/ q \in posts
                  \/ q.stage = "received"
                  \/ \E r \in posts : CheckLink(r) /\ q.prev = r.prev /\ LinkHolds(r)
<1>1. CASE StartFill \/ (\E f \in running : FinishFill(f)) \/ Timeout \/ Restart
  BY <1>1 DEF StartFill, FinishFill, Timeout, GiveUp, Restart, ledgerVars
<1>2. ASSUME NEW f, NEW prev, Post(f, prev) PROVE P
  BY <1>2 DEF Post
<1>3. CASE PumpStep
  BY <1>2, <1>3
  DEF PumpStep, BootstrapSeen, BootstrapHead, Poll, EndBatch, TakeRow,
      OnPersisted, OnDuplicate, RefreshHead, OnBadChain, Resync,
      OnResynced, OnOther, GiveUp, ledgerVars
<1>4. ASSUME NEW r \in posts, CheckLink(r) PROVE P
  <2>1. CASE posts' = posts \ {r}
    BY <2>1
  <2>2. CASE LinkHolds(r) /\ posts' = (posts \ {r}) \cup {[r EXCEPT !.stage = "linked"]}
    <3>1. [r EXCEPT !.stage = "linked"].prev = r.prev
      OBVIOUS
    <3> QED
      BY <1>4, <2>2, <3>1
  <2> QED
    BY <1>4, <2>1, <2>2 DEF CheckLink, Answer
<1>5. ASSUME NEW r \in posts, InsertRow(r) \/ FailRequest(r) PROVE P
  BY <1>5 DEF InsertRow, FailRequest, Answer
<1>6. CASE UNCHANGED vars
  BY <1>6 DEF vars, ledgerVars
<1>7. CASE ProvisionSpinner
  BY <1>7 DEF ProvisionSpinner, Provision
<1> QED
  BY <1>1, <1>3, <1>4, <1>5, <1>6, <1>7 DEF Next, Serve, ServerStep, RequestFails

LEMMA NextLinks == TypeInv /\ LinkInv /\ [Next]_vars => LinkInv'
<1> SUFFICES ASSUME TypeInv, LinkInv, [Next]_vars PROVE LinkInv'
  OBVIOUS
<1>1. Hashes \subseteq Hashes'
  BY LedgerGrows DEF Hashes, HashForChain
<1>2. \A a \in ledger' : a \in ledger \/ a.prev \in {ZeroHash} \cup Hashes
  BY LedgerGrows DEF InsertRow, Provision, tables, LinkInv
<1>3. \A r \in posts : LinkHolds(r) => r.prev \in {ZeroHash} \cup Hashes
  BY LedgerHeadResolves DEF LinkHolds, TypeInv, TypeOK, AttestationRow
<1>4. \A q \in posts' : q.stage = "linked" => q.prev \in {ZeroHash} \cup Hashes
  BY <1>3, NewRequests DEF LinkInv
<1> QED
  BY <1>1, <1>2, <1>4 DEF LinkInv, LinksResolve, ZeroHash

\* No link is ever lost: what is stored chains back to genesis, whatever
\* requests race, are late, are lost or are sent twice.
THEOREM LinksAlwaysResolve == Spec => []LinksResolve
<1>1. Init => LinkInv
  BY DEF Init, InitLedger, LinkInv, LinksResolve
<1>2. LinkInv => LinksResolve
  BY DEF LinkInv
<1> QED
  BY <1>1, <1>2, TypeInvHolds, NextLinks, PTL DEF Spec

-----------------------------------------------------------------------------
(* The builder counter                                                     *)

\* A fill not yet stored cannot be among those the counter leaves out.
AccrualInv ==
  /\ AccruedOncePerFill
  /\ IsFiniteSet(ledger)
  /\ uncounted \subseteq PersistedFills

LEMMA NextAccrual == TypeInv /\ AccrualInv /\ [Next]_vars => AccrualInv'
<1> SUFFICES ASSUME TypeInv, AccrualInv, [Next]_vars PROVE AccrualInv'
  OBVIOUS
<1> DEFINE Paid(S, U) == {a \in S : a.fill \in BuilderFills \ U}
<1>1. ASSUME NEW r \in posts, ~IsDuplicate(r),
             ledger' = ledger \cup {[fill |-> r.fill, prev |-> r.prev]},
             accrued' = accrued + Accrual(r),
             uncounted' = IF Hosted THEN uncounted ELSE uncounted \cup {r.fill}
      PROVE  AccrualInv'
  <2> DEFINE a == [fill |-> r.fill, prev |-> r.prev]
             P == Paid(ledger, uncounted)
  <2>1. a \notin ledger /\ a.fill = r.fill /\ \A b \in ledger : b.fill # r.fill
    BY <1>1 DEF IsDuplicate, PersistedFills
  <2>2. r.fill \notin uncounted
    BY <1>1 DEF IsDuplicate, AccrualInv
  <2>3. IsFiniteSet(P) /\ Cardinality(P) \in Nat /\ accrued = Cardinality(P)
    BY FS_Subset, FS_CardinalityType DEF AccrualInv, AccruedOncePerFill
  <2>4. a \notin P
    BY <2>1
  <2>5. Paid(ledger', uncounted') =
          IF Hosted /\ r.fill \in BuilderFills THEN P \cup {a} ELSE P
    BY <1>1, <2>1, <2>2
  <2>6. Cardinality(Paid(ledger', uncounted')) = Cardinality(P) + Accrual(r)
    <3> HIDE DEF a, P, Paid
    <3>1. CASE Hosted /\ r.fill \in BuilderFills
      BY <2>3, <2>4, <2>5, <3>1, FS_AddElement DEF Accrual
    <3>2. CASE ~(Hosted /\ r.fill \in BuilderFills)
      BY <2>3, <2>5, <3>2 DEF Accrual
    <3> QED
      BY <3>1, <3>2
  <2>7. IsFiniteSet(ledger')
    BY <1>1, FS_AddElement DEF AccrualInv
  <2>8. (uncounted \subseteq PersistedFills)'
    BY <1>1 DEF AccrualInv, PersistedFills
  <2> QED
    BY <1>1, <2>3, <2>6, <2>7, <2>8 DEF AccrualInv, AccruedOncePerFill
<1>2. CASE Provision
  <2>1. Paid(ledger', uncounted') = {}
    BY <1>2 DEF Provision, PersistedFills
  <2>2. Cardinality(Paid(ledger', uncounted')) = 0
    BY <2>1, FS_EmptySet
  <2> QED
    BY <1>2, <2>2 DEF Provision, AccrualInv, AccruedOncePerFill, PersistedFills
<1>3. CASE UNCHANGED tables
  BY <1>3 DEF tables, AccrualInv, AccruedOncePerFill, PersistedFills
<1> QED
  BY <1>1, <1>2, <1>3, LedgerGrows DEF InsertRow

\* The builder is paid once for each fill of its adapters stored since the
\* Spinner was last provisioned, and for nothing else, whatever is retried or
\* posted twice.
THEOREM BuilderPaidOncePerFill == Spec => []AccruedOncePerFill
<1>1. Init => AccrualInv
  BY FS_EmptySet DEF Init, InitLedger, AccrualInv, AccruedOncePerFill
<1>2. AccrualInv => AccruedOncePerFill
  BY DEF AccrualInv
<1> QED
  BY <1>1, <1>2, TypeInvHolds, NextAccrual, PTL DEF Spec

-----------------------------------------------------------------------------
(* The seen set                                                            *)

Awaiting == pc \in {"await", "await_retry"}

\* SeenIsPersisted is not inductive: the answer the pump reads must speak of
\* the row in hand.  It does because an answer reaches the pump only on the
\* connection it still waits on, and that connection was opened for this row.
ConnInv ==
  /\ \A r \in posts : r.id = conn => Awaiting /\ r.fill = Row
  /\ reply \in {"ok", "duplicate"} => Awaiting /\ Row \in PersistedFills

LEMMA RowSame == ASSUME UNCHANGED batch PROVE UNCHANGED Row
BY DEF Row

\* A post opens a connection no other request is on.
LEMMA PostConn ==
  ASSUME TypeInv, ConnInv, UNCHANGED batch, NEW prev, Post(Row, prev), Awaiting'
  PROVE  ConnInv'
<1>1. Row' = Row
  BY RowSame
<1>2. \A r \in posts' : r.id = conn' => r.fill = Row
  BY DEF Post
<1>3. reply' = "none"
  BY DEF Post
<1> QED
  BY <1>1, <1>2, <1>3 DEF ConnInv

\* A closed connection receives no answer.
LEMMA ClosedConn ==
  ASSUME TypeInv, CloseConn, posts' \subseteq posts
  PROVE  ConnInv'
BY DEF TypeInv, TypeOK, CloseConn, ConnInv, PostIds

\* Steps of the pump while no connection is open.
LEMMA NoConn ==
  ASSUME ConnInv, ~Awaiting, ~Awaiting', UNCHANGED <<posts, conn, reply>>
  PROVE  ConnInv'
BY DEF ConnInv

\* The answer a request gets is about the fill it carries.
LEMMA ServerConn ==
  ASSUME TypeInv, ConnInv, NEW r \in posts,
         CheckLink(r) \/ InsertRow(r) \/ FailRequest(r),
         UNCHANGED <<pc, batch>>
  PROVE  ConnInv'
<1> USE DEF ConnInv, Awaiting, PersistedFills, tables
<1>1. Row' = Row
  BY RowSame
<1>2. CASE CheckLink(r)
  <2>1. CASE LinkHolds(r)
    <3>1. /\ [r EXCEPT !.stage = "linked"].id = r.id
          /\ [r EXCEPT !.stage = "linked"].fill = r.fill
      BY DEF TypeInv, TypeOK
    <3>2. /\ posts' = (posts \ {r}) \cup {[r EXCEPT !.stage = "linked"]}
          /\ UNCHANGED <<conn, reply, ledger>>
      BY <1>2, <2>1 DEF CheckLink
    <3> QED
      BY <1>1, <3>1, <3>2
  <2>2. CASE ~LinkHolds(r)
    BY <1>1, <1>2, <2>2 DEF CheckLink, Answer
  <2> QED
    BY <2>1, <2>2
<1>3. CASE InsertRow(r)
  <2>1. r.fill \in PersistedFills' /\ PersistedFills \subseteq PersistedFills'
    <3>1. ledger \subseteq ledger'
      BY <1>3 DEF InsertRow
    <3>2. CASE IsDuplicate(r)
      BY <3>1, <3>2 DEF IsDuplicate
    <3>3. CASE ~IsDuplicate(r)
      <4>1. [fill |-> r.fill, prev |-> r.prev] \in ledger'
        BY <1>3, <3>3 DEF InsertRow
      <4> QED
        BY <3>1, <4>1
    <3> QED
      BY <3>1, <3>2, <3>3
  <2>2. \/ Answer(r, "ok")
        \/ Answer(r, "duplicate")
    BY <1>3 DEF InsertRow
  <2> QED
    BY <1>1, <2>1, <2>2 DEF Answer
<1>4. CASE FailRequest(r)
  BY <1>1, <1>4 DEF FailRequest, Answer
<1> QED
  BY <1>2, <1>3, <1>4

LEMMA NextConn == TypeInv /\ ConnInv /\ [Next]_vars => ConnInv'
<1> SUFFICES ASSUME TypeInv, ConnInv, [Next]_vars PROVE ConnInv'
  OBVIOUS
<1>1. CASE \/ BootstrapSeen \/ BootstrapHead \/ Poll \/ EndBatch \/ RefreshHead
  BY <1>1, NoConn
  DEF BootstrapSeen, BootstrapHead, Poll, EndBatch, RefreshHead, NextRow,
      ledgerVars, Awaiting
<1>2. CASE TakeRow
  <2>1. CASE Row \in seen
    BY <1>2, <2>1, NoConn DEF TakeRow, ledgerVars, Awaiting
  <2>2. CASE Row \notin seen
    BY <1>2, <2>2, PostConn DEF TakeRow, Awaiting
  <2> QED
    BY <2>1, <2>2
<1>3. CASE \/ OnPersisted \/ OnDuplicate \/ OnBadChain \/ OnResynced \/ OnOther
           \/ Timeout \/ Restart
  BY <1>3, ClosedConn
  DEF OnPersisted, OnDuplicate, OnBadChain, OnResynced, OnOther, Timeout,
      Restart, GiveUp
<1>4. CASE Resync
  BY <1>4, PostConn DEF Resync, Awaiting
<1>5. CASE StartFill \/ (\E f \in running : FinishFill(f)) \/ UNCHANGED vars
  <2>1. UNCHANGED <<ledger, posts, conn, reply, pc, batch>>
    BY <1>5 DEF StartFill, FinishFill, vars, tables, ledgerVars, pumpVars
  <2> QED
    BY <2>1, RowSame DEF ConnInv, Awaiting, PersistedFills
<1>6. ASSUME NEW r \in posts, CheckLink(r) \/ InsertRow(r), UNCHANGED pumpVars
      PROVE  ConnInv'
  BY <1>6, ServerConn DEF pumpVars
<1>7. ASSUME NEW r \in posts, RequestFails(r) PROVE ConnInv'
  BY <1>7, ServerConn DEF RequestFails, pumpVars
<1>8. CASE ProvisionSpinner
  BY <1>8, RowSame
  DEF ProvisionSpinner, Provision, pumpVars, ConnInv, Awaiting, PersistedFills
<1> QED
  BY <1>1, <1>2, <1>3, <1>4, <1>5, <1>6, <1>7, <1>8
  DEF Next, PumpStep, Serve, ServerStep

LEMMA NextSeen == ConnInv /\ SeenIsPersisted /\ [Next]_vars => SeenIsPersisted'
<1> SUFFICES ASSUME ConnInv, SeenIsPersisted, [Next]_vars PROVE SeenIsPersisted'
  OBVIOUS
<1>1. PersistedFills \subseteq PersistedFills'
  BY LedgerGrows DEF PersistedFills
<1>2. seen' \subseteq seen \cup PersistedFills
  <2>1. CASE StartFill \/ (\E f \in running : FinishFill(f)) \/ Timeout \/ Restart
    BY <2>1 DEF StartFill, FinishFill, Timeout, GiveUp, SeenAfterFailure, Restart,
                pumpVars
  <2>2. CASE PumpStep
    BY <2>2
    DEF PumpStep, BootstrapSeen, BootstrapHead, Poll, EndBatch, TakeRow,
        OnPersisted, OnDuplicate, RefreshHead, OnBadChain, Resync, OnResynced,
        OnOther, GiveUp, SeenAfterFailure, ConnInv
  <2>3. CASE \/ Serve \/ ProvisionSpinner
             \/ (\E r \in posts : RequestFails(r)) \/ UNCHANGED vars
    BY <2>3 DEF Serve, ProvisionSpinner, RequestFails, vars, pumpVars
  <2> QED
    BY <2>1, <2>2, <2>3 DEF Next
<1> QED
  BY <1>1, <1>2 DEF SeenIsPersisted

\* The pump takes a fill for attested only if the ledger holds it, although
\* answers can be late and requests are retried.
THEOREM SeenFillsArePersisted == Spec => []SeenIsPersisted
<1>1. Init => ConnInv /\ SeenIsPersisted
  BY DEF Init, InitLedger, ConnInv, SeenIsPersisted
<1> QED
  BY <1>1, TypeInvHolds, NextConn, NextSeen, PTL DEF Spec

-----------------------------------------------------------------------------
(* The watermark                                                           *)

InHand == pc \in {"await", "await_retry", "refresh", "resync"}

\* One fill runs at a time, and it is younger than every row and than the
\* watermark: its row will land beyond the watermark.
FillsInOrder ==
  /\ \A f \in running \cup logged : f < nextFill
  /\ \A f, g \in running : f = g
  /\ \A f \in running : watermark < f /\ \A g \in logged : g < f
  /\ watermark < nextFill

\* The batch holds every row between the watermark and its own rows, and the
\* watermark has reached the row in hand.
BatchHasNoGap ==
  /\ batch \subseteq logged
  /\ \A f \in logged, g \in batch : watermark < f /\ f < g => f \in batch
  /\ InHand => Row <= watermark
  /\ pc = "refresh" => Row \in seen
  /\ pc = "boot_seen" => watermark = 0

WatermarkInv == WatermarkSkipsNothing /\ FillsInOrder /\ BatchHasNoGap

LEMMA FillsAreFinite ==
  ASSUME NEW S \in SUBSET Fills
  PROVE  IsFiniteSet(S) /\ Cardinality(S) \in Nat
<1>1. IsFiniteSet(Fills)
  BY FS_Interval, MaxFillsIsNat DEF Fills
<1>2. IsFiniteSet(S)
  BY <1>1, FS_Subset
<1> QED
  BY <1>2, FS_CardinalityType

\* The batch read is closed downwards, down to the watermark.
LEMMA BatchIsClosed ==
  ASSUME logged \subseteq Fills, NEW w \in Nat,
         NEW g \in RowsAfter(w), NEW f \in logged, w < f, f < g
  PROVE  f \in RowsAfter(w)
<1> DEFINE Before(x) == {h \in logged : w < h /\ h < x}
<1>1. g \in Nat /\ f \in Nat /\ \A h \in logged : h \in Nat
  BY MaxFillsIsNat DEF RowsAfter, Fills
<1>2. Before(f) \subseteq Before(g)
  <2> SUFFICES ASSUME NEW h \in logged, w < h, h < f
               PROVE  h < g
    OBVIOUS
  <2> QED
    BY <1>1
<1>3. /\ IsFiniteSet(Before(g))
      /\ Cardinality(Before(g)) \in Nat
      /\ Cardinality(Before(f)) \in Nat
  BY FillsAreFinite
<1>4. Cardinality(Before(f)) <= Cardinality(Before(g))
  BY <1>2, <1>3, FS_Subset
<1>5. Cardinality(Before(g)) < BatchLimit
  BY DEF RowsAfter
<1> HIDE DEF Before
<1>6. Cardinality(Before(f)) < BatchLimit
  BY <1>3, <1>4, <1>5, BatchLimitIsPos
<1> QED
  BY <1>6 DEF RowsAfter, Before

\* A row that leaves the batch has been seen or given up on.
LEMMA RowDone ==
  ASSUME TypeInv, WatermarkInv, InHand, ~InHand', pc' # "boot_seen",
         batch' = batch \ {Row},
         seen \subseteq seen', failed \subseteq failed',
         Row \in seen' \cup failed',
         UNCHANGED <<execVars, watermark>>
  PROVE  WatermarkInv'
<1>1. CurrentRow = {Row}
  BY DEF CurrentRow, InHand, TypeInv, RowInHand
<1>2. WatermarkSkipsNothing'
  BY <1>1 DEF WatermarkInv, WatermarkSkipsNothing, execVars
<1>3. FillsInOrder'
  BY DEF WatermarkInv, FillsInOrder, execVars
<1>4. \A f \in logged : watermark < f => f # Row
  BY MaxFillsIsNat DEF WatermarkInv, BatchHasNoGap, TypeInv, TypeOK, Fills
<1>5. BatchHasNoGap'
  BY <1>4 DEF WatermarkInv, BatchHasNoGap, InHand, execVars
<1> QED
  BY <1>2, <1>3, <1>5 DEF WatermarkInv

\* Steps that leave the rows and the watermark alone and stay with the row.
LEMMA WatermarkKept ==
  ASSUME TypeInv, WatermarkInv, UNCHANGED <<execVars, watermark, batch, failed>>,
         seen \subseteq seen', InHand <=> InHand',
         pc' = "refresh" => Row \in seen',
         pc' = "boot_seen" => pc = "boot_seen"
  PROVE  WatermarkInv'
<1>1. Row' = Row
  BY RowSame
<1>2. CurrentRow' = CurrentRow
  BY <1>1 DEF CurrentRow, InHand
<1>3. WatermarkSkipsNothing'
  BY <1>2 DEF WatermarkInv, WatermarkSkipsNothing, execVars
<1>4. FillsInOrder'
  BY DEF WatermarkInv, FillsInOrder, execVars
<1>5. BatchHasNoGap'
  BY <1>1 DEF WatermarkInv, BatchHasNoGap, InHand, execVars
<1> QED
  BY <1>3, <1>4, <1>5 DEF WatermarkInv

\* With one permit a fill starts only when none runs.
LEMMA StartFillWatermark ==
  ASSUME FillPermits = 1, TypeInv, WatermarkInv, StartFill
  PROVE  WatermarkInv'
<1>1. running = {}
  <2>1. IsFiniteSet(running) /\ Cardinality(running) \in Nat
    BY FillsAreFinite DEF TypeInv, TypeOK
  <2>2. Cardinality(running) = 0
    BY <2>1 DEF StartFill, PermitFree
  <2> QED
    BY <2>1, <2>2, FS_EmptySet
<1>2. running' = {nextFill} /\ nextFill' = nextFill + 1 /\ nextFill \in Nat
  BY <1>1, MaxFillsIsNat DEF StartFill, Fills
<1>3. UNCHANGED <<logged, watermark, pc, batch, seen, failed>>
  BY DEF StartFill, pumpVars
<1>4. \A f \in logged \cup {watermark} : f \in Nat
  BY MaxFillsIsNat DEF TypeInv, TypeOK, Fills
<1>5. FillsInOrder'
  BY <1>1, <1>2, <1>3, <1>4 DEF WatermarkInv, FillsInOrder
<1>6. Row' = Row /\ CurrentRow' = CurrentRow
  BY <1>3, RowSame DEF CurrentRow
<1>7. WatermarkSkipsNothing' /\ BatchHasNoGap'
  BY <1>3, <1>6 DEF WatermarkInv, WatermarkSkipsNothing, BatchHasNoGap, InHand
<1> QED
  BY <1>5, <1>7 DEF WatermarkInv

\* The row of the running fill lands beyond the watermark and every row.
LEMMA FinishFillWatermark ==
  ASSUME TypeInv, WatermarkInv, NEW f \in running, FinishFill(f)
  PROVE  WatermarkInv'
<1>1. UNCHANGED <<nextFill, watermark, pc, batch, seen, failed>>
  BY DEF FinishFill, pumpVars
<1>2. running' = {} /\ logged \subseteq logged' /\ logged' \subseteq logged \cup {f}
  BY DEF FinishFill, WatermarkInv, FillsInOrder
<1>3. watermark < f /\ f < nextFill /\ \A g \in logged : g < f
  BY DEF WatermarkInv, FillsInOrder
<1>4. \A x \in logged \cup {f, watermark} : x \in Nat
  BY MaxFillsIsNat DEF TypeInv, TypeOK, Fills
<1>5. FillsInOrder'
  BY <1>1, <1>2, <1>3 DEF WatermarkInv, FillsInOrder
<1>6. Row' = Row /\ CurrentRow' = CurrentRow
  BY <1>1, RowSame DEF CurrentRow
<1>7. WatermarkSkipsNothing'
  BY <1>1, <1>2, <1>3, <1>4, <1>6 DEF WatermarkInv, WatermarkSkipsNothing
<1>8. \A g \in batch : g < f
  BY <1>3 DEF WatermarkInv, BatchHasNoGap
<1>9. \A x \in logged', g \in batch' : watermark' < x /\ x < g => x \in batch'
  BY <1>1, <1>2, <1>4, <1>8 DEF WatermarkInv, BatchHasNoGap
<1>10. BatchHasNoGap'
  BY <1>1, <1>2, <1>6, <1>9 DEF WatermarkInv, BatchHasNoGap, InHand
<1> QED
  BY <1>5, <1>7, <1>10 DEF WatermarkInv

\* The batch read leaves out no row between the watermark and its last one.
LEMMA PollWatermark ==
  ASSUME TypeInv, WatermarkInv, Poll
  PROVE  WatermarkInv'
<1>1. UNCHANGED <<execVars, watermark, seen, failed>> /\ batch' = RowsAfter(watermark)
  BY DEF Poll
<1>2. ~InHand /\ ~InHand' /\ pc' = "row"
  BY DEF Poll, InHand
<1>3. CurrentRow = {}
  BY <1>2 DEF CurrentRow, InHand
<1>4. WatermarkSkipsNothing'
  BY <1>1, <1>3 DEF WatermarkInv, WatermarkSkipsNothing, execVars
<1>5. FillsInOrder'
  BY <1>1 DEF WatermarkInv, FillsInOrder, execVars
<1>6. watermark \in Nat /\ logged \subseteq Fills
  BY MaxFillsIsNat DEF TypeInv, TypeOK, Fills
<1>7. \A f \in logged', g \in batch' : watermark' < f /\ f < g => f \in batch'
  BY <1>1, <1>6, BatchIsClosed DEF execVars
<1>8. batch' \subseteq logged'
  BY <1>1 DEF RowsAfter, execVars
<1> QED
  BY <1>2, <1>4, <1>5, <1>7, <1>8 DEF WatermarkInv, BatchHasNoGap

\* The watermark moves to the oldest row of the batch and jumps over none.
LEMMA TakeRowWatermark ==
  ASSUME TypeInv, WatermarkInv, TakeRow
  PROVE  WatermarkInv'
<1>1. Row \in batch /\ \A g \in batch : Row <= g
  BY RowIsOldest DEF TakeRow, TypeInv, TypeOK
<1>2. /\ \A f \in logged : f \in Nat
      /\ watermark \in Nat /\ Row \in Nat /\ nextFill \in Nat
      /\ Row \in logged
  BY <1>1, MaxFillsIsNat DEF TypeInv, TypeOK, Fills, WatermarkInv, BatchHasNoGap
<1>3. /\ watermark' = IF Row > watermark THEN Row ELSE watermark
      /\ UNCHANGED <<execVars, seen, failed>>
  BY DEF TakeRow
<1>4. /\ watermark <= watermark' /\ Row <= watermark'
      /\ watermark' \in {watermark, Row}
  BY <1>2, <1>3
<1>5. CurrentRow = {}
  BY DEF CurrentRow, TakeRow
<1>6. \A f \in logged : f <= watermark' => f \in seen \cup failed \/ f = Row
  <2> SUFFICES ASSUME NEW f \in logged, f <= watermark'
               PROVE  f \in seen \cup failed \/ f = Row
    OBVIOUS
  <2>1. CASE f <= watermark
    BY <1>5, <2>1 DEF WatermarkInv, WatermarkSkipsNothing
  <2>2. CASE watermark < f /\ f < Row
    BY <1>1, <1>2, <2>2 DEF WatermarkInv, BatchHasNoGap
  <2>3. CASE f = Row
    BY <2>3
  <2> QED
    BY <1>2, <1>4, <2>1, <2>2, <2>3
<1>7. FillsInOrder'
  BY <1>2, <1>3, <1>4 DEF WatermarkInv, FillsInOrder, execVars
<1>8. \A f \in logged, g \in batch : watermark' < f /\ f < g => f \in batch /\ f # Row
  BY <1>2, <1>4 DEF WatermarkInv, BatchHasNoGap
<1>9. CASE Row \in seen
  <2>1. pc' = "row" /\ batch' = batch \ {Row}
    BY <1>9 DEF TakeRow
  <2>2. WatermarkSkipsNothing'
    BY <1>3, <1>6, <1>9 DEF WatermarkSkipsNothing, execVars
  <2>3. BatchHasNoGap'
    BY <1>3, <1>8, <2>1 DEF WatermarkInv, BatchHasNoGap, InHand, execVars
  <2> QED
    BY <1>7, <2>2, <2>3 DEF WatermarkInv
<1>10. CASE Row \notin seen
  <2>1. pc' = "await" /\ UNCHANGED batch
    BY <1>10 DEF TakeRow
  <2>2. Row' = Row /\ CurrentRow' = {Row}
    BY <1>1, <2>1, RowSame DEF CurrentRow
  <2>3. WatermarkSkipsNothing'
    BY <1>3, <1>6, <2>2 DEF WatermarkSkipsNothing, execVars
  <2>4. BatchHasNoGap'
    BY <1>3, <1>4, <1>8, <2>1, <2>2 DEF WatermarkInv, BatchHasNoGap, InHand, execVars
  <2> QED
    BY <1>7, <2>3, <2>4 DEF WatermarkInv
<1> QED
  BY <1>9, <1>10

LEMMA NextWatermark ==
  ASSUME FillPermits = 1
  PROVE  TypeInv /\ WatermarkInv /\ [Next]_vars => WatermarkInv'
<1> SUFFICES ASSUME TypeInv, WatermarkInv, [Next]_vars PROVE WatermarkInv'
  OBVIOUS
<1>1. CASE StartFill
  BY <1>1, StartFillWatermark
<1>2. ASSUME NEW f \in running, FinishFill(f) PROVE WatermarkInv'
  BY <1>2, FinishFillWatermark
<1>3. CASE Poll
  BY <1>3, PollWatermark
<1>4. CASE TakeRow
  BY <1>4, TakeRowWatermark
<1>5. CASE \/ OnPersisted \/ RefreshHead \/ OnResynced \/ OnOther \/ Timeout
  <2>1. /\ batch' = batch \ {Row} /\ InHand /\ pc' = "row"
        /\ UNCHANGED <<execVars, watermark>>
    BY <1>5 DEF OnPersisted, RefreshHead, OnResynced, OnOther, Timeout, GiveUp,
                NextRow, InHand
  <2>2. /\ seen \subseteq seen' /\ failed \subseteq failed'
        /\ Row \in seen' \cup failed'
    BY <1>5 DEF OnPersisted, RefreshHead, OnResynced, OnOther, Timeout, GiveUp,
                SeenAfterFailure, WatermarkInv, BatchHasNoGap
  <2> QED
    BY <2>1, <2>2, RowDone DEF InHand
<1>6. CASE OnDuplicate \/ OnBadChain \/ Resync
  BY <1>6, WatermarkKept DEF OnDuplicate, OnBadChain, Resync, InHand
<1>7. CASE BootstrapSeen
  <2>1. /\ watermark = 0 /\ pc' = "boot_head" /\ pc = "boot_seen"
        /\ UNCHANGED <<execVars, watermark, batch, failed>>
    BY <1>7 DEF BootstrapSeen, WatermarkInv, BatchHasNoGap
  <2>2. \A f \in logged : ~(f <= watermark)
    BY <2>1, MaxFillsIsNat DEF TypeInv, TypeOK, Fills
  <2>3. WatermarkSkipsNothing'
    BY <2>1, <2>2 DEF WatermarkSkipsNothing, execVars
  <2>4. FillsInOrder' /\ BatchHasNoGap'
    BY <2>1 DEF WatermarkInv, FillsInOrder, BatchHasNoGap, InHand, execVars
  <2> QED
    BY <2>3, <2>4 DEF WatermarkInv
<1>8. CASE BootstrapHead \/ EndBatch
  BY <1>8, WatermarkKept DEF BootstrapHead, EndBatch, InHand
<1>9. CASE \/ Serve \/ ProvisionSpinner
           \/ (\E r \in posts : RequestFails(r)) \/ UNCHANGED vars
  BY <1>9, WatermarkKept
  DEF Serve, ProvisionSpinner, RequestFails, vars, execVars, pumpVars, InHand, WatermarkInv,
      BatchHasNoGap
<1>10. CASE Restart
  <2>1. /\ watermark' = 0 /\ batch' = {} /\ running' = {} /\ pc' = "boot_seen"
        /\ UNCHANGED <<nextFill, logged>>
    BY <1>10 DEF Restart
  <2>2. \A f \in logged : ~(f <= 0)
    BY MaxFillsIsNat DEF TypeInv, TypeOK, Fills
  <2>3. nextFill \in Nat /\ nextFill > 0
    BY MaxFillsIsNat DEF TypeInv, TypeOK
  <2> QED
    BY <2>1, <2>2, <2>3
    DEF WatermarkInv, WatermarkSkipsNothing, FillsInOrder, BatchHasNoGap, InHand
<1> QED
  BY <1>1, <1>2, <1>3, <1>4, <1>5, <1>6, <1>7, <1>8, <1>9, <1>10
  DEF Next, PumpStep

\* With the single fill permit the code gives out, the pump's watermark jumps
\* over no executed row; with a second permit it would.
THEOREM WatermarkJumpsOverNothing ==
  ASSUME FillPermits = 1
  PROVE  Spec => []WatermarkSkipsNothing
<1>1. Init => WatermarkInv
  BY DEF Init, InitLedger, WatermarkInv, WatermarkSkipsNothing, FillsInOrder,
         BatchHasNoGap, InHand
<1>2. WatermarkInv => WatermarkSkipsNothing
  BY DEF WatermarkInv
<1>3. TypeInv /\ WatermarkInv /\ [Next]_vars => WatermarkInv'
  BY NextWatermark
<1> QED
  BY <1>1, <1>2, <1>3, TypeInvHolds, PTL DEF Spec

-----------------------------------------------------------------------------
(* One chain                                                               *)

\* A fill has one row.
OneRow == \A a, b \in ledger : a.fill = b.fill => a = b

\* A request that has not been stored carries the one fill that comes next,
\* later than every stored one, and a checked link is still the head.
RequestsAreNext ==
  /\ \A r \in posts, g \in PersistedFills : r.fill \notin PersistedFills => g < r.fill
  /\ \A r \in posts :
       r.stage = "linked" /\ r.fill \notin PersistedFills => r.prev = LedgerHead
  /\ \A r, s \in posts :
       r.fill \notin PersistedFills /\ s.fill \notin PersistedFills => r.fill = s.fill

ChainInv == OneRow /\ Linear /\ RequestsAreNext

\* What is posted now would be next: f, unless it is stored.
IsNext(f) ==
  f \notin PersistedFills =>
    /\ \A g \in PersistedFills : g < f
    /\ \A r \in posts : r.fill \notin PersistedFills => r.fill = f

LEMMA SameLedger ==
  ASSUME UNCHANGED ledger
  PROVE  UNCHANGED <<PersistedFills, LedgerHead>> /\ Linear' = Linear /\ OneRow' = OneRow
BY DEF PersistedFills, LedgerHead, Newest, HashForChain, Linear, OneRow

\* A row later than all others, linked to the head, is the new head.
LEMMA RowAppended ==
  ASSUME TypeInv, OneRow, Linear, NEW f \in Fills,
         \A g \in PersistedFills : g < f,
         ledger' = ledger \cup {[fill |-> f, prev |-> LedgerHead]}
  PROVE  OneRow' /\ Linear' /\ LedgerHead' = Append(LedgerHead, f)
<1> DEFINE new == [fill |-> f, prev |-> LedgerHead]
<1>1. /\ new.fill = f /\ new.prev = LedgerHead
      /\ ledger' = ledger \cup {new}
  OBVIOUS
<1>2. f \in Nat /\ \A a \in ledger : a.fill \in Nat /\ a.prev \in Seq(Fills)
  BY MaxFillsIsNat DEF TypeInv, TypeOK, Fills
<1>3. \A a \in ledger : a.fill < f
  BY DEF PersistedFills
<1>4. \A a \in ledger : Len(a.prev) < Len(LedgerHead) /\ Len(LedgerHead) \in Nat
  <2> SUFFICES ASSUME NEW a \in ledger
               PROVE  Len(a.prev) < Len(LedgerHead) /\ Len(LedgerHead) \in Nat
    OBVIOUS
  <2> DEFINE top == Newest(ledger)
  <2>1. top \in ledger /\ a.fill <= top.fill
    BY NewestIsLast DEF TypeInv, TypeOK, AttestationRow
  <2> HIDE DEF top
  <2>2. Len(a.prev) <= Len(top.prev)
    <3>1. CASE a.fill = top.fill
      BY <1>2, <2>1, <3>1 DEF OneRow
    <3>2. CASE a.fill < top.fill
      BY <1>2, <2>1, <3>2 DEF Linear
    <3> QED
      BY <1>2, <2>1, <3>1, <3>2
  <2>3. LedgerHead = Append(top.prev, top.fill)
    BY DEF LedgerHead, HashForChain, top
  <2>4. Len(LedgerHead) = Len(top.prev) + 1 /\ Len(top.prev) \in Nat /\ Len(a.prev) \in Nat
    <3>1. top.prev \in Seq(Fills) /\ top.fill \in Fills
      BY <2>1 DEF TypeInv, TypeOK
    <3> QED
      BY <1>2, <2>3, <3>1
  <2> QED
    BY <2>2, <2>4
<1> HIDE DEF new
<1>5. OneRow'
  BY <1>1, <1>2, <1>3 DEF OneRow
<1>6. Linear'
  <2> SUFFICES ASSUME NEW a \in ledger', NEW b \in ledger', a.fill < b.fill
               PROVE  Len(a.prev) < Len(b.prev)
    BY DEF Linear
  <2>1. CASE a \in ledger /\ b \in ledger
    BY <2>1 DEF Linear
  <2>2. CASE a \in ledger /\ b = new
    BY <1>1, <1>4, <2>2
  <2>3. CASE a = new
    BY <1>1, <1>2, <1>3, <2>3
  <2> QED
    BY <1>1, <2>1, <2>2, <2>3
<1>7. Newest(ledger') = new
  <2>1. \A b \in ledger' : b.fill <= new.fill
    BY <1>1, <1>2, <1>3
  <2>2. \A a \in ledger' : (\A b \in ledger' : b.fill <= a.fill) => a = new
    BY <1>1, <1>2, <1>3
  <2> QED
    BY <1>1, <2>1, <2>2 DEF Newest
<1>8. LedgerHead' = HashForChain(Newest(ledger'))
  BY <1>1 DEF LedgerHead, HashForChain, Newest
<1> QED
  BY <1>1, <1>5, <1>6, <1>7, <1>8 DEF HashForChain

\* What is stored is the next fill, on the head, or nothing.
LEMMA RowStored ==
  ASSUME TypeInv, ChainInv, NEW r \in posts, InsertRow(r)
  PROVE  /\ posts' = posts \ {r}
         /\ PersistedFills' = PersistedFills \cup {r.fill}
         /\ \/ UNCHANGED ledger
            \/ /\ r.fill \notin PersistedFills
               /\ \A g \in PersistedFills : g < r.fill
               /\ ledger' = ledger \cup {[fill |-> r.fill, prev |-> LedgerHead]}
               /\ LedgerHead' = Append(LedgerHead, r.fill)
         /\ OneRow' /\ Linear'
<1>1. posts' = posts \ {r} /\ r.fill \in Fills
  BY DEF InsertRow, Answer, TypeInv, TypeOK
<1>2. CASE IsDuplicate(r)
  <2>1. UNCHANGED ledger /\ r.fill \in PersistedFills
    BY <1>2 DEF InsertRow, IsDuplicate, tables
  <2> QED
    BY <1>1, <2>1, SameLedger DEF ChainInv
<1>3. CASE ~IsDuplicate(r)
  <2>1. /\ r.fill \notin PersistedFills /\ r.prev = LedgerHead
        /\ \A g \in PersistedFills : g < r.fill
    BY <1>3 DEF InsertRow, IsDuplicate, ChainInv, RequestsAreNext
  <2>2. ledger' = ledger \cup {[fill |-> r.fill, prev |-> LedgerHead]}
    BY <1>3, <2>1 DEF InsertRow
  <2>3. PersistedFills' = PersistedFills \cup {r.fill}
    <3> DEFINE new == [fill |-> r.fill, prev |-> LedgerHead]
    <3>1. new.fill = r.fill /\ ledger' = ledger \cup {new}
      BY <2>2
    <3> HIDE DEF new
    <3> QED
      BY <3>1 DEF PersistedFills
  <2> QED
    BY <1>1, <2>1, <2>2, <2>3, RowAppended DEF ChainInv
<1> QED
  BY <1>2, <1>3

\* Only the pump brings requests to the server, and only the server moves them.
LEMMA StepOfRequests ==
  ASSUME [Next]_vars
  PROVE  \/ UNCHANGED <<ledger, posts>>
         \/ TakeRow /\ Row \notin seen /\ Post(Row, lastPrev)
         \/ Resync /\ \E prev : Post(Row, prev)
         \/ \E r \in posts :
              /\ CheckLink(r) \/ InsertRow(r) \/ RequestFails(r)
              /\ UNCHANGED <<execVars, pumpVars>>
<1> USE DEF tables
<1>1. CASE StartFill \/ (\E f \in running : FinishFill(f)) \/ Timeout \/ Restart
  BY <1>1 DEF StartFill, FinishFill, Timeout, GiveUp, Restart, ledgerVars
<1>2. CASE TakeRow
  BY <1>2 DEF TakeRow, ledgerVars
<1>3. CASE Resync
  BY <1>3 DEF Resync
<1>4. CASE PumpStep /\ ~TakeRow /\ ~Resync
  BY <1>4 DEF PumpStep, BootstrapSeen, BootstrapHead, Poll, EndBatch,
              OnPersisted, OnDuplicate, RefreshHead, OnBadChain,
              OnResynced, OnOther, GiveUp, ledgerVars
<1>5. CASE Serve \/ (\E r \in posts : RequestFails(r))
  BY <1>5 DEF Serve, ServerStep, RequestFails
<1>6. CASE ProvisionSpinner \/ UNCHANGED vars
  BY <1>6 DEF ProvisionSpinner, Provision, vars, ledgerVars
<1> QED
  BY <1>1, <1>2, <1>3, <1>4, <1>5, <1>6 DEF Next

\* The chain stays one if what the pump posts is next.
LEMMA NextChain ==
  ASSUME TypeInv, ChainInv, [Next]_vars,
         (TakeRow /\ Row \notin seen) \/ Resync => IsNext(Row)
  PROVE  ChainInv'
<1>1. CASE UNCHANGED <<ledger, posts>>
  BY <1>1, SameLedger DEF ChainInv, RequestsAreNext
<1>2. ASSUME NEW prev, Post(Row, prev), IsNext(Row) PROVE ChainInv'
  <2>1. UNCHANGED ledger
    BY <1>2 DEF Post, tables
  <2>2. \A q \in posts' : q \in posts \/ (q.fill = Row /\ q.stage = "received")
    BY <1>2 DEF Post
  <2> QED
    BY <1>2, <2>1, <2>2, SameLedger DEF ChainInv, RequestsAreNext, IsNext
<1>3. ASSUME NEW r \in posts, CheckLink(r) PROVE ChainInv'
  <2>1. UNCHANGED ledger
    BY <1>3 DEF CheckLink, tables
  <2>2. \A q \in posts' :
          \/ q \in posts
          \/ q.fill = r.fill /\ q.prev = r.prev /\ LinkHolds(r)
    <3>1. CASE posts' \subseteq posts
      BY <3>1
    <3>2. CASE LinkHolds(r) /\ posts' = (posts \ {r}) \cup {[r EXCEPT !.stage = "linked"]}
      <4>1. /\ [r EXCEPT !.stage = "linked"].fill = r.fill
            /\ [r EXCEPT !.stage = "linked"].prev = r.prev
        BY DEF TypeInv, TypeOK
      <4> QED
        BY <3>2, <4>1
    <3> QED
      BY <1>3, <3>1, <3>2 DEF CheckLink, Answer
  <2> QED
    BY <2>1, <2>2, SameLedger DEF ChainInv, RequestsAreNext, LinkHolds
<1>4. ASSUME NEW r \in posts, InsertRow(r) PROVE ChainInv'
  <2>1. /\ posts' = posts \ {r}
        /\ PersistedFills' = PersistedFills \cup {r.fill}
        /\ OneRow' /\ Linear'
    BY <1>4, RowStored
  <2>2. CASE UNCHANGED ledger
    BY <2>1, <2>2, SameLedger DEF ChainInv, RequestsAreNext
  <2>3. CASE r.fill \notin PersistedFills
    <3>1. \A q \in posts' : q.fill \in PersistedFills'
      BY <2>1, <2>3 DEF ChainInv, RequestsAreNext
    <3> QED
      BY <2>1, <3>1 DEF ChainInv, RequestsAreNext
  <2> QED
    BY <1>4, <2>2, <2>3, RowStored
<1>5. ASSUME NEW r \in posts, RequestFails(r) PROVE ChainInv'
  <2>1. UNCHANGED ledger /\ posts' \subseteq posts
    BY <1>5 DEF RequestFails, FailRequest, Answer, tables
  <2> QED
    BY <2>1, SameLedger DEF ChainInv, RequestsAreNext
<1> QED
  BY <1>1, <1>2, <1>3, <1>4, <1>5, StepOfRequests

\* When no request is lost and none fails, rows are stored in the order they
\* were logged, through restarts that leave requests at the server: a request
\* whose fill is not stored carries the oldest row that is not, and the pump
\* gives a row up only when such a request stored it first.
StoredInOrder ==
  /\ PersistedFills \cup {r.fill : r \in posts} \subseteq logged
  /\ \A f \in logged, g \in PersistedFills : f < g => f \in PersistedFills
  /\ \A r \in posts, f \in logged :
       r.fill \notin PersistedFills /\ f < r.fill => f \in PersistedFills

GivenUpIsStored ==
  /\ failed \subseteq PersistedFills
  /\ reply # "other"
  /\ pc = "await_retry" =>
       /\ reply = "bad_chain" => Row \in PersistedFills
       /\ \A r \in posts :
            r.id = conn /\ r.fill \notin PersistedFills => r.prev = LedgerHead

NothingFailed == StoredInOrder /\ GivenUpIsStored

CountsInv == timeouts \in Nat /\ errors \in Nat /\ restarts \in Nat

\* A fault is counted, within its bound.
LEMMA FaultsAreCounted ==
  ASSUME [Next]_vars
  PROVE  /\ UNCHANGED timeouts \/ (timeouts < MaxTimeouts /\ timeouts' = timeouts + 1)
         /\ UNCHANGED errors \/ (errors < MaxErrors /\ errors' = errors + 1)
         /\ UNCHANGED restarts \/ (restarts < MaxRestarts /\ restarts' = restarts + 1)
<1> USE DEF faultVars, Error
<1>1. CASE StartFill \/ (\E f \in running : FinishFill(f))
  BY <1>1 DEF StartFill, FinishFill
<1>2. CASE Timeout
  BY <1>2 DEF Timeout, GiveUp
<1>3. CASE Restart
  BY <1>3 DEF Restart
<1>4. CASE PumpStep
  BY <1>4 DEF PumpStep, BootstrapSeen, BootstrapHead, Poll, EndBatch, TakeRow,
              OnPersisted, OnDuplicate, RefreshHead, OnBadChain, Resync,
              OnResynced, OnOther, GiveUp
<1>5. CASE \/ Serve \/ ProvisionSpinner
           \/ (\E r \in posts : RequestFails(r)) \/ UNCHANGED vars
  BY <1>5 DEF Serve, ProvisionSpinner, RequestFails, vars
<1> QED
  BY <1>1, <1>2, <1>3, <1>4, <1>5 DEF Next

\* A fault that was counted stays counted.
LEMMA NextCounts ==
  ASSUME CountsInv, [Next]_vars
  PROVE  /\ CountsInv'
         /\ timeouts' = 0 => timeouts = 0
         /\ errors' = 0 => errors = 0
         /\ restarts' = 0 => restarts = 0
BY FaultsAreCounted DEF CountsInv

\* Every row older than the one in hand is stored.
LEMMA OlderAreStored ==
  ASSUME TypeInv, WatermarkInv, SeenIsPersisted, NothingFailed,
         batch # {}, pc = "row" \/ InHand,
         NEW f \in logged, f < Row
  PROVE  f \in PersistedFills
<1>1. Row \in batch /\ \A g \in batch : Row <= g
  BY RowIsOldest DEF TypeInv, TypeOK
<1>2. /\ f \in Nat /\ watermark \in Nat /\ Row \in Nat
      /\ \A g \in batch : g \in Nat
  BY <1>1, MaxFillsIsNat DEF TypeInv, TypeOK, Fills
<1>3. CASE f <= watermark
  <2>1. f \in seen \cup failed \cup CurrentRow
    BY <1>3 DEF WatermarkInv, WatermarkSkipsNothing
  <2>2. f \notin CurrentRow
    BY <1>2 DEF CurrentRow
  <2> QED
    BY <2>1, <2>2 DEF SeenIsPersisted, NothingFailed, GivenUpIsStored
<1>4. CASE watermark < f
  <2>1. f \in batch
    BY <1>1, <1>4 DEF WatermarkInv, BatchHasNoGap
  <2> QED
    BY <1>1, <1>2, <2>1
<1> QED
  BY <1>2, <1>3, <1>4

LEMMA RowIsNext ==
  ASSUME TypeInv, WatermarkInv, SeenIsPersisted, NothingFailed,
         batch # {}, pc = "row" \/ InHand
  PROVE  Row \in logged /\ IsNext(Row)
<1>1. Row \in batch /\ \A g \in batch : Row <= g
  BY RowIsOldest DEF TypeInv, TypeOK
<1>2. Row \in logged
  BY <1>1 DEF WatermarkInv, BatchHasNoGap
<1>3. \A x \in logged : x \in Nat
  BY MaxFillsIsNat DEF TypeInv, TypeOK, Fills
<1>4. PersistedFills \subseteq logged /\ \A r \in posts : r.fill \in logged
  BY DEF NothingFailed, StoredInOrder
<1>5. ASSUME Row \notin PersistedFills, NEW g \in PersistedFills PROVE g < Row
  <2>1. ~(Row < g)
    BY <1>2, <1>5 DEF NothingFailed, StoredInOrder
  <2> QED
    BY <1>2, <1>3, <1>4, <1>5, <2>1
<1>6. ASSUME Row \notin PersistedFills, NEW r \in posts, r.fill \notin PersistedFills
      PROVE  r.fill = Row
  <2>1. ~(r.fill < Row)
    BY <1>4, <1>6, OlderAreStored
  <2>2. ~(Row < r.fill)
    BY <1>2, <1>6 DEF NothingFailed, StoredInOrder
  <2> QED
    BY <1>2, <1>3, <1>4, <2>1, <2>2
<1> QED
  BY <1>2, <1>5, <1>6 DEF IsNext

\* Rows stay stored in order.
LEMMA NextStoredInOrder ==
  ASSUME TypeInv, WatermarkInv, SeenIsPersisted, NothingFailed, ChainInv, CountsInv,
         [Next]_vars, errors' = 0
  PROVE  StoredInOrder'
<1>1. CASE UNCHANGED <<ledger, posts>>
  <2>1. \/ UNCHANGED logged
        \/ \E f \in running : logged' = logged \cup {f}
    <3>1. CASE StartFill \/ (\E f \in running : FinishFill(f)) \/ Timeout \/ Restart
      BY <3>1 DEF StartFill, FinishFill, Timeout, GiveUp, Restart, execVars
    <3>2. CASE PumpStep
      BY <3>2
      DEF PumpStep, BootstrapSeen, BootstrapHead, Poll, EndBatch, TakeRow,
          OnPersisted, OnDuplicate, RefreshHead, OnBadChain, Resync, OnResynced,
          OnOther, GiveUp, execVars
    <3>3. CASE \/ Serve \/ ProvisionSpinner
               \/ (\E r \in posts : RequestFails(r)) \/ UNCHANGED vars
      BY <3>3 DEF Serve, ProvisionSpinner, RequestFails, vars, execVars
    <3> QED
      BY <3>1, <3>2, <3>3 DEF Next
  <2>2. CASE UNCHANGED logged
    BY <1>1, <2>2, SameLedger DEF NothingFailed, StoredInOrder
  <2>3. ASSUME NEW f \in running, logged' = logged \cup {f} PROVE StoredInOrder'
    <3>1. f \in Nat /\ \A g \in logged : g \in Nat /\ g < f
      BY MaxFillsIsNat DEF TypeInv, TypeOK, Fills, WatermarkInv, FillsInOrder
    <3>2. \A g \in PersistedFills \cup {r.fill : r \in posts} : ~(f < g)
      BY <3>1 DEF NothingFailed, StoredInOrder
    <3> QED
      BY <1>1, <2>3, <3>2, SameLedger DEF NothingFailed, StoredInOrder
  <2> QED
    BY <2>1, <2>2, <2>3
<1>2. ASSUME NEW prev, Post(Row, prev), TakeRow \/ Resync PROVE StoredInOrder'
  <2>1. batch # {} /\ (pc = "row" \/ InHand)
    BY <1>2 DEF TakeRow, Resync, InHand, TypeInv, RowInHand
  <2>2. UNCHANGED <<ledger, logged>>
    BY <1>2 DEF Post, tables, TakeRow, Resync, execVars
  <2>3. \A q \in posts' : q \in posts \/ q.fill = Row
    BY <1>2 DEF Post
  <2>4. Row \in logged /\ \A f \in logged : f < Row => f \in PersistedFills
    BY <2>1, RowIsNext, OlderAreStored
  <2> QED
    BY <2>2, <2>3, <2>4, SameLedger DEF NothingFailed, StoredInOrder
<1>3. ASSUME NEW r \in posts, CheckLink(r), UNCHANGED logged PROVE StoredInOrder'
  <2>1. UNCHANGED ledger
    BY <1>3 DEF CheckLink, tables
  <2>2. \A q \in posts' : q \in posts \/ q.fill = r.fill
    <3>1. [r EXCEPT !.stage = "linked"].fill = r.fill
      BY DEF TypeInv, TypeOK
    <3> QED
      BY <1>3, <3>1 DEF CheckLink, Answer
  <2> QED
    BY <1>3, <2>1, <2>2, SameLedger DEF NothingFailed, StoredInOrder
<1>4. ASSUME NEW r \in posts, InsertRow(r), UNCHANGED logged PROVE StoredInOrder'
  <2>1. posts' = posts \ {r} /\ PersistedFills' = PersistedFills \cup {r.fill}
    BY <1>4, RowStored
  <2>2. CASE r.fill \in PersistedFills
    BY <1>4, <2>1, <2>2 DEF NothingFailed, StoredInOrder
  <2>3. CASE r.fill \notin PersistedFills
    <3>1. \A q \in posts' : q.fill \in PersistedFills'
      BY <2>1, <2>3 DEF ChainInv, RequestsAreNext
    <3>2. PersistedFills' \subseteq logged'
      BY <1>4, <2>1 DEF NothingFailed, StoredInOrder
    <3>3. \A f \in logged', g \in PersistedFills' : f < g => f \in PersistedFills'
      BY <1>4, <2>1, <2>3 DEF NothingFailed, StoredInOrder
    <3> QED
      BY <3>1, <3>2, <3>3 DEF StoredInOrder
  <2> QED
    BY <2>2, <2>3
<1>5. ASSUME NEW r \in posts, RequestFails(r) PROVE FALSE
  BY <1>5 DEF RequestFails, Error, CountsInv
<1> QED
  BY <1>1, <1>2, <1>3, <1>4, <1>5, StepOfRequests DEF execVars

\* A row is given up on only when another request stored it.
LEMMA NextGivenUp ==
  ASSUME TypeInv, ConnInv, NothingFailed, ChainInv, CountsInv,
         [Next]_vars, errors' = 0, timeouts' = 0
  PROVE  GivenUpIsStored'
<1> USE DEF NothingFailed
<1>1. CASE StartFill \/ (\E f \in running : FinishFill(f)) \/ UNCHANGED vars
  <2>1. UNCHANGED <<ledger, posts, conn, reply, failed, pc, batch>>
    BY <1>1 DEF StartFill, FinishFill, vars, ledgerVars, tables, pumpVars
  <2> QED
    BY <2>1, SameLedger, RowSame DEF GivenUpIsStored
<1>2. CASE \/ BootstrapSeen \/ BootstrapHead \/ Poll \/ EndBatch \/ RefreshHead
           \/ TakeRow \/ OnPersisted \/ OnDuplicate \/ OnBadChain
  <2>1. UNCHANGED <<ledger, failed>> /\ reply' \in {reply, "none"} /\ pc' # "await_retry"
    BY <1>2
    DEF BootstrapSeen, BootstrapHead, Poll, EndBatch, RefreshHead, NextRow, TakeRow,
        OnPersisted, OnDuplicate, OnBadChain, CloseConn, Post, ledgerVars, tables
  <2> QED
    BY <2>1, SameLedger DEF GivenUpIsStored
<1>3. CASE Resync
  <2>1. /\ Post(Row, LedgerHead)
        /\ UNCHANGED <<ledger, failed, batch>>
    BY <1>3 DEF Resync, Error, CountsInv, Post, tables
  <2>2. /\ reply' = "none"
        /\ \A r \in posts' : r.id = conn' => r.prev = LedgerHead
    BY <2>1 DEF Post
  <2> QED
    BY <2>1, <2>2, SameLedger DEF GivenUpIsStored
<1>4. CASE OnResynced \/ OnOther \/ Timeout
  <2>1. OnResynced /\ reply = "bad_chain"
    BY <1>4 DEF OnResynced, OnOther, Timeout, CountsInv, GivenUpIsStored
  <2>2. /\ failed' = failed \cup {Row} /\ reply' = "none" /\ pc' = "row"
        /\ Row \in PersistedFills /\ UNCHANGED ledger
    BY <2>1 DEF OnResynced, GiveUp, CloseConn, NextRow, tables, GivenUpIsStored
  <2> QED
    BY <2>2, SameLedger DEF GivenUpIsStored
<1>5. CASE Restart
  BY <1>5 DEF Restart, CloseConn, GivenUpIsStored
<1>6. CASE ProvisionSpinner
  <2>1. UNCHANGED <<ledger, posts, conn, reply, failed, pc, batch>>
    BY <1>6 DEF ProvisionSpinner, Provision, pumpVars
  <2> QED
    BY <2>1, SameLedger, RowSame DEF GivenUpIsStored
<1>7. ASSUME NEW r \in posts, CheckLink(r), UNCHANGED pumpVars
      PROVE  GivenUpIsStored'
  <2>1. UNCHANGED <<ledger, conn, pc, failed, batch>> /\ Row' = Row
    BY <1>7, RowSame DEF CheckLink, Answer, tables, pumpVars
  <2>2. CASE LinkHolds(r)
    <3>1. /\ [r EXCEPT !.stage = "linked"].id = r.id
          /\ [r EXCEPT !.stage = "linked"].prev = r.prev
          /\ [r EXCEPT !.stage = "linked"].fill = r.fill
      BY DEF TypeInv, TypeOK
    <3>2. /\ UNCHANGED reply
          /\ posts' = (posts \ {r}) \cup {[r EXCEPT !.stage = "linked"]}
      BY <1>7, <2>2 DEF CheckLink
    <3> QED
      BY <2>1, <3>1, <3>2, SameLedger DEF GivenUpIsStored
  <2>3. CASE ~LinkHolds(r)
    <3>1. /\ posts' = posts \ {r}
          /\ reply' = IF r.id = conn THEN "bad_chain" ELSE reply
      BY <1>7, <2>3 DEF CheckLink, Answer
    <3>2. r.id = conn /\ pc = "await_retry" => Row \in PersistedFills
      BY <2>3 DEF LinkHolds, ConnInv, GivenUpIsStored
    <3> QED
      BY <2>1, <3>1, <3>2, SameLedger DEF GivenUpIsStored
  <2> QED
    BY <2>2, <2>3
<1>8. ASSUME NEW r \in posts, InsertRow(r), UNCHANGED pumpVars
      PROVE  GivenUpIsStored'
  <2>1. /\ posts' = posts \ {r}
        /\ PersistedFills' = PersistedFills \cup {r.fill}
        /\ UNCHANGED <<conn, pc, failed, batch>> /\ Row' = Row
        /\ reply' \in {reply, "ok", "duplicate"}
    BY <1>8, RowStored, RowSame DEF InsertRow, Answer, pumpVars
  <2>2. UNCHANGED ledger \/ r.fill \notin PersistedFills
    BY <1>8, RowStored
  <2>3. UNCHANGED ledger => UNCHANGED LedgerHead
    BY SameLedger
  <2>4. r.fill \notin PersistedFills => \A q \in posts' : q.fill \in PersistedFills'
    BY <2>1 DEF ChainInv, RequestsAreNext
  <2> QED
    BY <2>1, <2>2, <2>3, <2>4 DEF GivenUpIsStored
<1>9. ASSUME NEW r \in posts, RequestFails(r) PROVE FALSE
  BY <1>9 DEF RequestFails, Error, CountsInv
<1> QED
  BY <1>1, <1>2, <1>3, <1>4, <1>5, <1>6, <1>7, <1>8, <1>9
  DEF Next, PumpStep, Serve, ServerStep

\* When no request is lost and the process never died, at most one request is
\* at the server, the one the pump waits for, and nothing is stored beyond the
\* watermark or the rows at hand.  Rows given up on leave holes, not forks.
NothingDied ==
  /\ \A r \in posts : r.id = conn /\ reply = "none"
  /\ \A r, s \in posts : r = s
  /\ \A g \in PersistedFills : g <= watermark /\ \A b \in batch : g <= b

LEMMA OnlyRowIsNext ==
  ASSUME TypeInv, ConnInv, NothingDied, batch # {}, ~Awaiting
  PROVE  posts = {} /\ IsNext(Row)
<1>1. Row \in batch
  BY RowIsOldest DEF TypeInv, TypeOK
<1>2. posts = {}
  BY DEF ConnInv, NothingDied
<1>3. \A g \in PersistedFills : g <= Row /\ g \in Nat
  <2>1. \A g \in PersistedFills : g \in Nat
    BY MaxFillsIsNat DEF TypeInv, TypeOK, Fills, PersistedFills
  <2> QED
    BY <1>1, <2>1 DEF NothingDied
<1>4. Row \in Nat
  BY <1>1, MaxFillsIsNat DEF TypeInv, TypeOK, Fills
<1> QED
  BY <1>2, <1>3, <1>4 DEF IsNext

LEMMA NextNothingDied ==
  ASSUME TypeInv, ConnInv, WatermarkInv, ChainInv, NothingDied, CountsInv,
         [Next]_vars, restarts' = 0, timeouts' = 0
  PROVE  NothingDied'
<1>1. CASE StartFill \/ (\E f \in running : FinishFill(f)) \/ UNCHANGED vars
  <2>1. UNCHANGED <<ledger, posts, conn, reply, watermark, batch>>
    BY <1>1 DEF StartFill, FinishFill, vars, ledgerVars, tables, pumpVars
  <2> QED
    BY <2>1, SameLedger DEF NothingDied
<1>2. CASE BootstrapSeen \/ BootstrapHead \/ EndBatch
  <2>1. UNCHANGED <<ledger, posts, conn, reply, watermark, batch>>
    BY <1>2 DEF BootstrapSeen, BootstrapHead, EndBatch, ledgerVars, tables
  <2> QED
    BY <2>1, SameLedger DEF NothingDied
<1>3. CASE Poll
  <2>1. /\ UNCHANGED <<ledger, posts, conn, reply, watermark>>
        /\ batch' = RowsAfter(watermark)
    BY <1>3 DEF Poll, ledgerVars, tables
  <2>2. \A b \in batch' : watermark < b /\ b \in Nat
    BY <2>1, MaxFillsIsNat DEF RowsAfter, TypeInv, TypeOK, Fills
  <2>3. watermark \in Nat /\ \A g \in PersistedFills : g \in Nat
    BY MaxFillsIsNat DEF TypeInv, TypeOK, Fills, PersistedFills
  <2> QED
    BY <2>1, <2>2, <2>3, SameLedger DEF NothingDied
<1>4. CASE TakeRow
  <2>1. /\ watermark' = IF Row > watermark THEN Row ELSE watermark
        /\ batch' \subseteq batch /\ UNCHANGED ledger
    BY <1>4 DEF TakeRow, Post, ledgerVars, tables
  <2>2. watermark \in Nat /\ Row \in Nat
    <3>1. Row \in batch
      BY <1>4, RowIsOldest DEF TakeRow, TypeInv, TypeOK
    <3> QED
      BY <3>1, MaxFillsIsNat DEF TypeInv, TypeOK, Fills
  <2>3. \A g \in PersistedFills : g <= watermark'
    <3>1. \A g \in PersistedFills : g \in Nat /\ g <= watermark
      BY MaxFillsIsNat DEF NothingDied, PersistedFills, TypeInv, TypeOK, Fills
    <3>2. watermark <= watermark' /\ watermark' \in Nat
      BY <2>1, <2>2
    <3> QED
      BY <2>2, <3>1, <3>2
  <2>4. CASE UNCHANGED <<posts, conn, reply>>
    BY <2>1, <2>3, <2>4, SameLedger DEF NothingDied
  <2>5. CASE Post(Row, lastPrev)
    <3>1. posts = {}
      BY <1>4, OnlyRowIsNext DEF TakeRow, Awaiting
    <3>2. reply' = "none" /\ \A r \in posts' : r.id = conn' /\ \A s \in posts' : r = s
      BY <2>5, <3>1 DEF Post
    <3> QED
      BY <2>1, <2>3, <3>2, SameLedger DEF NothingDied
  <2> QED
    BY <1>4, <2>4, <2>5 DEF TakeRow, ledgerVars
<1>5. CASE Resync
  <2>1. posts = {}
    BY <1>5, OnlyRowIsNext DEF Resync, Awaiting, TypeInv, RowInHand
  <2>2. /\ UNCHANGED <<ledger, watermark, batch>>
        /\ reply' = "none" /\ \A r \in posts' : r.id = conn' /\ \A s \in posts' : r = s
    BY <1>5, <2>1 DEF Resync, Post, tables
  <2> QED
    BY <2>2, SameLedger DEF NothingDied
<1>6. CASE \/ OnPersisted \/ OnDuplicate \/ OnBadChain \/ OnResynced \/ OnOther
           \/ RefreshHead
  <2>1. posts = {}
    BY <1>6
    DEF NothingDied, ConnInv, Awaiting, OnPersisted, OnDuplicate, OnBadChain,
        OnResynced, OnOther, RefreshHead
  <2>2. UNCHANGED <<ledger, posts, watermark>> /\ batch' \subseteq batch
    BY <1>6
    DEF OnPersisted, OnDuplicate, OnBadChain, OnResynced, OnOther, RefreshHead,
        GiveUp, NextRow, ledgerVars, tables
  <2> QED
    BY <2>1, <2>2, SameLedger DEF NothingDied
<1>7. CASE Timeout \/ Restart
  BY <1>7 DEF Timeout, Restart, CountsInv
<1>8. CASE ProvisionSpinner
  <2>1. UNCHANGED <<ledger, posts, conn, reply, watermark, batch>>
    BY <1>8 DEF ProvisionSpinner, Provision, pumpVars
  <2> QED
    BY <2>1, SameLedger DEF NothingDied
<1>9. ASSUME NEW r \in posts, CheckLink(r), LinkHolds(r), UNCHANGED pumpVars
      PROVE  NothingDied'
  <2>1. [r EXCEPT !.stage = "linked"].id = r.id
    BY DEF TypeInv, TypeOK
  <2>2. /\ UNCHANGED <<ledger, conn, reply, watermark, batch>>
        /\ posts' = (posts \ {r}) \cup {[r EXCEPT !.stage = "linked"]}
    BY <1>9 DEF CheckLink, tables, pumpVars
  <2> QED
    BY <2>1, <2>2, SameLedger DEF NothingDied
<1>10. ASSUME NEW r \in posts, posts' = posts \ {r}, UNCHANGED pumpVars,
              PersistedFills' \subseteq PersistedFills \cup {r.fill}
       PROVE  NothingDied'
  <2>1. posts' = {}
    BY <1>10 DEF NothingDied
  <2>2. UNCHANGED <<watermark, batch>>
    BY <1>10 DEF pumpVars
  <2>3. r.fill = Row /\ Awaiting
    BY DEF NothingDied, ConnInv
  <2>4. batch # {} /\ InHand
    BY <2>3 DEF Awaiting, InHand, TypeInv, RowInHand
  <2>5. r.fill <= watermark /\ \A b \in batch : r.fill <= b
    BY <2>3, <2>4, RowIsOldest DEF WatermarkInv, BatchHasNoGap, TypeInv, TypeOK
  <2> QED
    BY <1>10, <2>1, <2>2, <2>5 DEF NothingDied
<1>11. ASSUME NEW r \in posts, CheckLink(r), ~LinkHolds(r), UNCHANGED pumpVars
       PROVE  NothingDied'
  <2>1. posts' = posts \ {r} /\ UNCHANGED ledger
    BY <1>11 DEF CheckLink, Answer, tables
  <2> QED
    BY <1>10, <1>11, <2>1, SameLedger
<1>12. ASSUME NEW r \in posts, InsertRow(r), UNCHANGED pumpVars
       PROVE  NothingDied'
  <2>1. posts' = posts \ {r} /\ PersistedFills' = PersistedFills \cup {r.fill}
    BY <1>12, RowStored
  <2> QED
    BY <1>10, <1>12, <2>1
<1>13. ASSUME NEW r \in posts, RequestFails(r) PROVE NothingDied'
  <2>1. posts' = posts \ {r} /\ UNCHANGED ledger /\ UNCHANGED pumpVars
    BY <1>13 DEF RequestFails, FailRequest, Answer, tables
  <2> QED
    BY <1>10, <2>1, SameLedger
<1> QED
  BY <1>1, <1>2, <1>3, <1>4, <1>5, <1>6, <1>7, <1>8, <1>9, <1>11, <1>12, <1>13
  DEF Next, PumpStep, Serve, ServerStep

-----------------------------------------------------------------------------
(* No fork, and the abstract chain                                         *)

ForkInv ==
  /\ CountsInv
  /\ timeouts = 0 =>
       /\ errors = 0 => NothingFailed
       /\ restarts = 0 => NothingDied
       /\ errors = 0 \/ restarts = 0 => ChainInv

PumpInv == TypeInv /\ ConnInv /\ SeenIsPersisted /\ WatermarkInv /\ ForkInv

LEMMA PumpInit == Init => PumpInv
BY TypeInit
DEF Init, InitLedger, PumpInv, ConnInv, SeenIsPersisted, WatermarkInv,
    WatermarkSkipsNothing, FillsInOrder, BatchHasNoGap, InHand, ForkInv, CountsInv,
    NothingFailed, StoredInOrder, GivenUpIsStored, NothingDied, ChainInv, OneRow,
    Linear, RequestsAreNext, PersistedFills

LEMMA NextFork ==
  ASSUME PumpInv, [Next]_vars
  PROVE  ForkInv'
<1> USE DEF PumpInv
<1>1. CountsInv'
  BY NextCounts DEF ForkInv
<1>2. /\ timeouts' = 0 => timeouts = 0
      /\ errors' = 0 => errors = 0
      /\ restarts' = 0 => restarts = 0
  BY NextCounts DEF ForkInv
<1>3. ASSUME timeouts' = 0, errors' = 0 PROVE NothingFailed' /\ ChainInv'
  <2>1. NothingFailed /\ ChainInv /\ CountsInv
    BY <1>2, <1>3 DEF ForkInv
  <2>2. (TakeRow /\ Row \notin seen) \/ Resync => IsNext(Row)
    BY <2>1, RowIsNext DEF TakeRow, Resync, InHand, TypeInv, RowInHand
  <2> QED
    BY <1>3, <2>1, <2>2, NextChain, NextStoredInOrder, NextGivenUp DEF NothingFailed
<1>4. ASSUME timeouts' = 0, restarts' = 0 PROVE NothingDied' /\ ChainInv'
  <2>1. NothingDied /\ ChainInv /\ CountsInv
    BY <1>2, <1>4 DEF ForkInv
  <2>2. (TakeRow /\ Row \notin seen) \/ Resync => IsNext(Row)
    BY <2>1, OnlyRowIsNext DEF TakeRow, Resync, Awaiting, TypeInv, RowInHand
  <2> QED
    BY <1>4, <2>1, <2>2, NextChain, NextNothingDied
<1> QED
  BY <1>1, <1>3, <1>4 DEF ForkInv

LEMMA PumpInvHolds ==
  ASSUME FillPermits = 1
  PROVE  Spec => []PumpInv
<1>1. PumpInv /\ [Next]_vars => PumpInv'
  BY NextType, NextConn, NextSeen, NextWatermark, NextFork DEF PumpInv
<1> QED
  BY <1>1, PumpInit, PTL DEF Spec

\* With the single fill permit the code gives out, the ledger forks only when
\* a request was given up on, or when a request failed and the process
\* restarted: head fetches that fail, restarts that leave requests at the
\* server and resyncs after a 422 alone never fork it.
THEOREM ForksNeedALostRequest ==
  ASSUME FillPermits = 1
  PROVE  Spec => []ForkNeedsLostRequest
<1>1. PumpInv => ForkNeedsLostRequest
  BY DEF PumpInv, ForkInv, ChainInv, ForkNeedsLostRequest
<1> QED
  BY <1>1, PumpInvHolds, PTL

\* Every step of the loop appends the next attestation to the abstract chain
\* or leaves it alone.
LEMMA StepOfChain ==
  ASSUME TypeInv, ChainInv, [Next]_vars
  PROVE  [Chain!Next]_(Chain!vars)
<1>1. CASE UNCHANGED ledger
  BY <1>1, SameLedger DEF Chain!vars
<1>2. ASSUME NEW r \in posts, InsertRow(r) PROVE [Chain!Next]_(Chain!vars)
  <2>1. CASE UNCHANGED ledger
    BY <1>1, <2>1
  <2>2. CASE ~UNCHANGED ledger
    <3>1. /\ \A e \in ledger : e.fill < r.fill
          /\ ledger' = ledger \cup {[fill |-> r.fill, prev |-> LedgerHead]}
          /\ LedgerHead' = Append(LedgerHead, r.fill)
      BY <1>2, <2>2, RowStored DEF PersistedFills
    <3>2. r.fill \in Fills
      BY DEF TypeInv, TypeOK
    <3> QED
      BY <3>1, <3>2 DEF Chain!Next, Chain!AppendEntry
  <2> QED
    BY <2>1, <2>2
<1> QED
  BY <1>1, <1>2, LedgerGrows DEF Provision, tables

OneFaultAtMost == timeouts = 0 /\ (errors = 0 \/ restarts = 0)

\* The ledger implements the abstract hash chain an external indexer reads, as
\* long as no request is given up on and not both a request fails and the
\* process dies: one permit, a server that checks links and refuses a second
\* row of a fill, and a pump that tries rows in order make it one.
THEOREM LedgerIsAChain ==
  ASSUME FillPermits = 1
  PROVE  Spec /\ []OneFaultAtMost => ImplementsChain
<1>1. Init => Chain!Init
  BY DEF Init, InitLedger, Chain!Init, LedgerHead, ZeroHash
<1>2. PumpInv /\ OneFaultAtMost /\ [Next]_vars => [Chain!Next]_(Chain!vars)
  BY StepOfChain DEF PumpInv, ForkInv, OneFaultAtMost
<1> QED
  BY <1>1, <1>2, PumpInvHolds, PTL DEF Spec, ImplementsChain, Chain!Spec

\* A bound of 0 on a fault keeps it from happening.
WithinBounds ==
  /\ MaxTimeouts = 0 => timeouts = 0
  /\ MaxErrors = 0 => errors = 0
  /\ MaxRestarts = 0 => restarts = 0

\* The instance the run checks, with any number of restarts, and the one with
\* any number of failed requests and no restart.
COROLLARY ReliableLedgerIsAChain ==
  ASSUME FillPermits = 1, MaxTimeouts = 0, MaxErrors = 0 \/ MaxRestarts = 0
  PROVE  Spec => ImplementsChain
<1>1. Init => WithinBounds
  BY DEF Init, WithinBounds
<1>2. PumpInv /\ WithinBounds /\ [Next]_vars => WithinBounds'
  BY FaultsAreCounted DEF PumpInv, ForkInv, CountsInv, WithinBounds
<1>3. WithinBounds => OneFaultAtMost
  BY DEF WithinBounds, OneFaultAtMost
<1> QED
  BY <1>1, <1>2, <1>3, PumpInvHolds, LedgerIsAChain, PTL DEF Spec
=============================================================================
