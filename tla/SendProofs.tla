----------------------------- MODULE SendProofs -----------------------------
(***************************************************************************)
(* What leaves the solver and what it is held to, for any calls, scopes,   *)
(* deposits, orders and faults: a session call that reverts was not        *)
(* simulated or the scope moved after its dry run; an Across relay is      *)
(* wrong only where the event was silent; and a Solana fill that lands is  *)
(* on record.                                                              *)
(***************************************************************************)
EXTENDS SessionSigner, AcrossFill, SolanaFill, TLAPS

-----------------------------------------------------------------------------
(* spinner-signer                                                          *)

(* A call that nothing excuses is a call the scope still allows.           *)
AllowedStays ==
  /\ DOMAIN session = Calls
  /\ \A c \in Judged \cup inMempool : c \notin unsure => ScopeAllows(c)

SignerInv == AllowedStays /\ RevertsAreExcused

SignerSpec == SignerInit /\ [][SignerNext]_signerVars

(* A caller moves and the scope stands still: it may come to hold a call   *)
(* the scope allows.                                                       *)
LEMMA CallerStepsKeepInv ==
  ASSUME SignerInv, DOMAIN session' = Calls, UNCHANGED <<spendable, role, reverted>>,
         unsure \subseteq unsure',
         \A c \in (Judged \cup inMempool)' :
            c \in Judged \cup inMempool \/ c \in unsure' \/ ScopeAllows(c)
  PROVE  SignerInv'
<1>1. \A c : ScopeAllows(c)' <=> ScopeAllows(c)
  BY DEF ScopeAllows
<1> QED  BY <1>1 DEF SignerInv, AllowedStays, RevertsAreExcused

(* What a move of one caller does to the calls that are judged.            *)
LEMMA GoesMovesOne ==
  ASSUME DOMAIN session = Calls, NEW c \in Calls, NEW from, NEW to, Goes(c, from, to)
  PROVE  /\ DOMAIN session' = Calls
         /\ session[c] = from /\ session'[c] = to
         /\ \A d \in Judged' : d = c \/ d \in Judged
         /\ to \notin {"allowed", "signed"} => c \notin Judged'
         /\ from \in {"allowed", "signed"} => c \in Judged
BY DEF Goes, Judged

LEMMA SignerStep == SignerInv /\ [SignerNext]_signerVars => SignerInv'
<1> SUFFICES ASSUME SignerInv, [SignerNext]_signerVars  PROVE SignerInv'
  OBVIOUS
<1> DOMAIN session = Calls
  BY DEF SignerInv, AllowedStays
<1>1. ASSUME NEW c \in Calls, WrapForSession(c) \/ DryRunError(c) \/ SignFails(c)
      PROVE  SignerInv'
  <2>1. \E from, to : Goes(c, from, to) /\ to \notin {"allowed", "signed"}
    BY <1>1 DEF WrapForSession, DryRunError, SignFails
  <2>2. DOMAIN session' = Calls /\ Judged' \subseteq Judged
    BY <2>1, GoesMovesOne
  <2>3. UNCHANGED <<spendable, role, reverted, inMempool, unsure>>
    BY <1>1 DEF WrapForSession, DryRunError, SignFails, ScopeUnchanged
  <2> QED  BY <2>2, <2>3, CallerStepsKeepInv
<1>2. ASSUME NEW c \in Calls, DryRunPolicy(c)  PROVE SignerInv'
  <2>1. Goes(c, "wrapped", IF ScopeAllows(c) THEN "allowed" ELSE "dropped")
        /\ UNCHANGED <<spendable, role, reverted, inMempool, unsure>>
    BY <1>2 DEF DryRunPolicy, ScopeUnchanged
  <2>2. DOMAIN session' = Calls /\ \A d \in Judged' : d = c \/ d \in Judged
    BY <2>1, GoesMovesOne
  <2>3. c \in Judged' => ScopeAllows(c)
    BY <2>1, GoesMovesOne
  <2> QED  BY <2>1, <2>2, <2>3, CallerStepsKeepInv
<1>3. ASSUME NEW c \in Calls, DryRunSkipped(c)  PROVE SignerInv'
  <2>1. Goes(c, "wrapped", "allowed") /\ unsure' = unsure \cup {c}
        /\ UNCHANGED <<spendable, role, reverted, inMempool>>
    BY <1>3 DEF DryRunSkipped, ScopeUnchanged
  <2>2. DOMAIN session' = Calls /\ \A d \in Judged' : d = c \/ d \in Judged
    BY <2>1, GoesMovesOne
  <2> QED  BY <2>1, <2>2, CallerStepsKeepInv
<1>4. ASSUME NEW c \in Calls, Sign(c)  PROVE SignerInv'
  <2>1. Goes(c, "allowed", "signed") /\ UNCHANGED <<spendable, role, reverted, inMempool, unsure>>
    BY <1>4 DEF Sign, ScopeUnchanged
  <2>2. DOMAIN session' = Calls /\ Judged' \subseteq Judged
    BY <2>1, GoesMovesOne
  <2> QED  BY <2>1, <2>2, CallerStepsKeepInv
<1>5. ASSUME NEW c \in Calls, Broadcast(c) \/ BroadcastFails(c)  PROVE SignerInv'
  <2>1. /\ \E to \in {"sent", "new", "dropped"} : Goes(c, "signed", to)
        /\ inMempool' \subseteq inMempool \cup {c}
        /\ UNCHANGED <<spendable, role, reverted, unsure>>
    BY <1>5 DEF Broadcast, BroadcastFails
  <2>2. DOMAIN session' = Calls /\ Judged' \subseteq Judged /\ c \in Judged
    BY <2>1, GoesMovesOne
  <2> QED  BY <2>1, <2>2, CallerStepsKeepInv
<1>6. ASSUME NEW c \in Calls, Land(c)  PROVE SignerInv'
  <2>1. c \in inMempool /\ inMempool' = inMempool \ {c} /\ session' = session /\ role' = role
    BY <1>6 DEF Land
  <2>2. Judged' = Judged
    BY <2>1 DEF Judged
  <2>3. CASE ScopeAllows(c)
    <3>1. unsure' = unsure \cup Judged \cup (inMempool \ {c}) /\ reverted' = reverted
      BY <1>6, <2>3 DEF Land
    <3> QED  BY <2>1, <2>2, <3>1 DEF SignerInv, AllowedStays, RevertsAreExcused
  <2>4. CASE ~ScopeAllows(c)
    <3>1. reverted' = reverted \cup {c} /\ UNCHANGED <<spendable, unsure>>
      BY <1>6, <2>4 DEF Land
    <3>2. c \in unsure
      BY <2>1, <2>4 DEF SignerInv, AllowedStays
    <3>3. \A d : ScopeAllows(d)' <=> ScopeAllows(d)
      BY <2>1, <3>1 DEF ScopeAllows
    <3> QED  BY <2>1, <2>2, <3>1, <3>2, <3>3 DEF SignerInv, AllowedStays, RevertsAreExcused
  <2> QED  BY <2>3, <2>4
<1>7. CASE RevokeRole
  <2>1. /\ session' = session /\ inMempool' = inMempool /\ reverted' = reverted
        /\ unsure' = unsure \cup Judged \cup inMempool
    BY <1>7 DEF RevokeRole
  <2>2. Judged' = Judged
    BY <2>1 DEF Judged
  <2> QED  BY <2>1, <2>2 DEF SignerInv, AllowedStays, RevertsAreExcused
<1>8. CASE UNCHANGED signerVars
  <2>1. Judged' = Judged /\ UNCHANGED <<session, inMempool, spendable, role, reverted, unsure>>
    BY <1>8 DEF signerVars, Judged
  <2> QED  BY <2>1, CallerStepsKeepInv
<1> QED  BY <1>1, <1>2, <1>3, <1>4, <1>5, <1>6, <1>7, <1>8 DEF SignerNext

(* Denials and node errors stop a call before it is signed, so a revert    *)
(* always has a cause the dry run could not have seen.                     *)
THEOREM RevertsHaveACause == SignerSpec => []RevertsAreExcused
<1>1. SignerInit => SignerInv
  BY DEF SignerInit, SignerInv, AllowedStays, RevertsAreExcused, Judged
<1>2. SignerInv => RevertsAreExcused
  BY DEF SignerInv
<1> QED  BY <1>1, <1>2, SignerStep, PTL DEF SignerSpec

\* At the start nothing of the allowance is spent.
LEMMA SignerTypesInit == SignerInit => SignerTypeOK
BY ScopeAssumption DEF SignerInit, SignerTypeOK

SessionStages == {"new", "wrapped", "allowed", "signed", "sent", "dropped"}

(* A caller moves.                                                         *)
LEMMA CallerTypes ==
  ASSUME SignerTypeOK, NEW c \in Calls, NEW from, NEW to \in SessionStages, Goes(c, from, to),
         UNCHANGED <<spendable, role, landed, reverted>>,
         inMempool' \subseteq Calls, unsure' \subseteq Calls, signerFaults' \in 0..MaxSignerFaults
  PROVE  SignerTypeOK'
<1>1. session' \in [Calls -> SessionStages]
  BY DEF Goes, SignerTypeOK, SessionStages
<1> QED  BY <1>1 DEF SignerTypeOK, SessionStages

\* What lands is paid from what the scope still allows.
LEMMA SignerTypesStep == SignerTypeOK /\ [SignerNext]_signerVars => SignerTypeOK'
<1> SUFFICES ASSUME SignerTypeOK, [SignerNext]_signerVars  PROVE SignerTypeOK'
  OBVIOUS
<1> USE ScopeAssumption
<1>0. SignerFault => signerFaults' \in 0..MaxSignerFaults
  BY DEF SignerFault, SignerTypeOK
<1>1. ASSUME NEW c \in Calls, WrapForSession(c) \/ DryRunPolicy(c) \/ Sign(c) \/ SignFails(c)
      PROVE  SignerTypeOK'
  <2>1. \E from : \E to \in SessionStages : Goes(c, from, to)
    BY <1>1 DEF WrapForSession, DryRunPolicy, Sign, SignFails, SessionStages
  <2>2. UNCHANGED <<spendable, role, inMempool, landed, reverted, unsure, signerFaults>>
    BY <1>1 DEF WrapForSession, DryRunPolicy, Sign, SignFails, ScopeUnchanged
  <2> QED  BY <2>1, <2>2, CallerTypes DEF SignerTypeOK
<1>2. ASSUME NEW c \in Calls, DryRunSkipped(c) \/ DryRunError(c)  PROVE SignerTypeOK'
  <2>1. \E from : \E to \in SessionStages : Goes(c, from, to)
    BY <1>2 DEF DryRunSkipped, DryRunError, SessionStages
  <2>2. UNCHANGED <<spendable, role, inMempool, landed, reverted>>
        /\ unsure' \subseteq unsure \cup {c} /\ signerFaults' \in 0..MaxSignerFaults
    BY <1>0, <1>2 DEF DryRunSkipped, DryRunError, ScopeUnchanged, SignerTypeOK
  <2> QED  BY <2>1, <2>2, CallerTypes DEF SignerTypeOK
<1>3. ASSUME NEW c \in Calls, Broadcast(c) \/ BroadcastFails(c)  PROVE SignerTypeOK'
  <2>1. \E from : \E to \in SessionStages : Goes(c, from, to)
    BY <1>3 DEF Broadcast, BroadcastFails, SessionStages
  <2>2. UNCHANGED <<spendable, role, landed, reverted, unsure>>
        /\ inMempool' \subseteq inMempool \cup {c} /\ signerFaults' \in 0..MaxSignerFaults
    BY <1>0, <1>3 DEF Broadcast, BroadcastFails, SignerTypeOK
  <2> QED  BY <2>1, <2>2, CallerTypes DEF SignerTypeOK
<1>4. ASSUME NEW c \in Calls, Land(c)  PROVE SignerTypeOK'
  <2>1. /\ inMempool' \subseteq inMempool /\ landed' \subseteq landed \cup {c}
        /\ reverted' \subseteq reverted \cup {c} /\ unsure' \subseteq unsure \cup Judged \cup inMempool
        /\ UNCHANGED <<role, session, signerFaults>>
    BY <1>4 DEF Land
  <2>2. spendable' \in 0..Allowance
    <3>1. CASE ScopeAllows(c)
      <4>1. spendable' = spendable - CallOf[c].cost /\ CallOf[c].cost <= spendable
        BY <1>4, <3>1 DEF Land, ScopeAllows
      <4> QED  BY <4>1 DEF SignerTypeOK
    <3>2. CASE ~ScopeAllows(c)
      BY <1>4, <3>2 DEF Land, SignerTypeOK
    <3> QED  BY <3>1, <3>2
  <2> QED  BY <2>1, <2>2 DEF SignerTypeOK, Judged
<1>5. CASE RevokeRole
  BY <1>0, <1>5 DEF RevokeRole, SignerTypeOK, Judged
<1>6. CASE UNCHANGED signerVars
  BY <1>6 DEF signerVars, SignerTypeOK
<1> QED  BY <1>1, <1>2, <1>3, <1>4, <1>5, <1>6 DEF SignerNext

-----------------------------------------------------------------------------
(* The Across fill                                                         *)

Checked == {"spread", "hook", "solana", "numbered"}
IdKnown == {"deadline", "funds", "build"}
Encoding == {"estimate", "native", "sent"}

(* What excuses a wrong value.                                             *)
Missing(f) ==
  \/ f \in deposit.lacks \ LookedFor
  \/ Is("sibling") /\ (f \in deposit.lacks \/ (f = "dst_token" /\ Is("native")))

(* A field is empty or wrong only where the event was silent, and a direct *)
(* fill comes past the checks only with the fields that are looked up.     *)
AcrossInv ==
  /\ DOMAIN field = RelayFields \cup {"tx"}
  /\ \A f \in RelayFields : field[f] = "none" => f \in deposit.lacks
  /\ \A f \in RelayFields : field[f] = "wrong" => Missing(f)
  /\ deposit.direct /\ gate \in Checked \cup IdKnown =>
       field["output"] # "none" /\ field["deadline"] # "none"
  /\ deposit.direct /\ gate \in IdKnown => field["id"] # "none"
  /\ deposit.direct /\ gate \in Encoding =>
       \A f \in RelayFields : sentRelay[f] = "wrong" => Missing(f)

LEMMA AfterIs ==
  /\ DOMAIN After = {"profit", "proof", "enrich", "exclusive", "complete", "spread", "hook",
                     "solana", "numbered", "deadline", "funds", "build", "estimate", "native"}
  /\ After["profit"] = "proof" /\ After["proof"] = "enrich" /\ After["enrich"] = "exclusive"
  /\ After["exclusive"] = "complete" /\ After["complete"] = "spread"
  /\ After["spread"] = "hook" /\ After["hook"] = "solana" /\ After["solana"] = "numbered"
  /\ After["numbered"] = "deadline" /\ After["deadline"] = "funds"
  /\ After["funds"] = "build" /\ After["build"] = "estimate"
  /\ After["estimate"] = "native" /\ After["native"] = "sent"
BY DEF After

LEMMA AcrossStarts == AcrossInit => AcrossInv
<1> SUFFICES ASSUME AcrossInit  PROVE AcrossInv
  OBVIOUS
<1>1. field = FromEvent(deposit) /\ gate = "profit"
  BY DEF AcrossInit
<1>2. DOMAIN field = RelayFields \cup {"tx"}
  BY <1>1 DEF FromEvent
<1>3. ASSUME NEW f \in RelayFields
      PROVE  /\ field[f] = "none" => f \in deposit.lacks
             /\ field[f] = "wrong" => f \in deposit.lacks \ LookedFor
  <2>1. CASE f \notin deposit.lacks
    <3>1. field[f] = "own"
      BY <1>1, <2>1 DEF FromEvent
    <3> QED  BY <3>1
  <2>2. CASE f \in deposit.lacks /\ f \in LookedFor
    <3>1. f # "recipient" /\ f # "src_token" /\ f # "dst_token"
      BY <2>2 DEF LookedFor
    <3>2. field[f] = "none"
      BY <1>1, <2>2, <3>1 DEF FromEvent
    <3> QED  BY <2>2, <3>2
  <2>3. CASE f \in deposit.lacks /\ f \notin LookedFor
    BY <2>3
  <2> QED  BY <2>1, <2>2, <2>3
<1> QED  BY <1>1, <1>2, <1>3 DEF AcrossInv, Missing, Checked, IdKnown, Encoding

(* Only the gate moves, to one of the later checks only with the fields.   *)
LEMMA GateMoves ==
  ASSUME AcrossInv, UNCHANGED <<deposit, field, sentRelay>>,
         deposit.direct /\ gate' \in Checked \cup IdKnown =>
           \/ gate \in Checked \cup IdKnown
           \/ field["output"] # "none" /\ field["deadline"] # "none",
         deposit.direct /\ gate' \in IdKnown => gate \in IdKnown \/ field["id"] # "none",
         gate' \in Encoding => gate \in Encoding
  PROVE  AcrossInv'
BY DEF AcrossInv, Missing, Is

LEMMA PassSteps ==
  ASSUME AcrossInv, NEW g \in DOMAIN After \ {"enrich", "build"}, Pass(g)
  PROVE  AcrossInv'
<1>1. gate = g /\ FALSE \in Stops(g) /\ gate' = After[g] /\ UNCHANGED <<deposit, field, sentRelay>>
  BY DEF Pass
<1>2. CASE g \in {"profit", "proof", "exclusive"}
  BY <1>1, <1>2, AfterIs, GateMoves DEF Checked, IdKnown, Encoding
<1>3. CASE g = "complete"
  <2>1. Stops("complete") = {deposit.direct /\ \E f \in {"output", "deadline", "recipient"} :
                                                  field[f] = "none"}
    BY DEF Stops
  <2>2. ~(deposit.direct /\ \E f \in {"output", "deadline", "recipient"} : field[f] = "none")
    BY <1>1, <1>3, <2>1
  <2> QED  BY <1>1, <1>3, <2>2, AfterIs, GateMoves DEF Checked, IdKnown, Encoding
<1>4. CASE g = "numbered"
  <2>1. Stops("numbered") = {field["id"] = "none"}
    BY DEF Stops
  <2>2. field["id"] # "none"
    BY <1>1, <1>4, <2>1
  <2> QED  BY <1>1, <1>4, <2>2, AfterIs, GateMoves DEF Checked, IdKnown, Encoding
<1>5. CASE g \in {"spread", "hook", "solana", "deadline", "funds", "estimate", "native"}
  BY <1>1, <1>5, AfterIs, GateMoves DEF Checked, IdKnown, Encoding
<1> QED  BY <1>2, <1>3, <1>4, <1>5, AfterIs

(* Looking up fills what is empty, and a native token reads as empty.      *)
LEMMA EnrichSteps == ASSUME AcrossInv, Enrich  PROVE AcrossInv'
<1>1. gate' = "exclusive" /\ field' = Patched /\ UNCHANGED <<deposit, sentRelay>>
  BY AfterIs DEF Enrich
<1>2. DOMAIN field' = RelayFields \cup {"tx"}
  BY <1>1 DEF Patched, AcrossInv
<1>3. ASSUME NEW f \in RelayFields
      PROVE  field'[f] = field[f] \/ (Empty(f) /\ field'[f] = Decoded)
  BY <1>1 DEF Patched, AcrossInv
<1>4. Decoded \in {"own", "wrong"} /\ (Decoded = "wrong" => Is("sibling"))
  BY DEF Decoded, OwnUnless
<1>5. ASSUME NEW f, Empty(f)  PROVE field[f] = "none" \/ (f = "dst_token" /\ Is("native"))
  <2>1. CASE field[f] # "none"
    <3>1. f = "dst_token" /\ TRUE \in MayPayNative /\ field["dst_token"] = "own"
      BY <1>5, <2>1 DEF Empty
    <3>2. Says("dst_token", "native") = {Is("native")}
      BY <3>1 DEF Says
    <3>3. MayPayNative = {Is("native")}
      BY <3>1, <3>2 DEF MayPayNative
    <3> QED  BY <3>1, <3>3
  <2> QED  BY <2>1
<1>6. ASSUME NEW f \in RelayFields
      PROVE  /\ field'[f] = "none" => f \in deposit.lacks
             /\ field'[f] = "wrong" => Missing(f)
  BY <1>3, <1>4, <1>5 DEF AcrossInv, Missing
<1> QED  BY <1>1, <1>2, <1>6 DEF AcrossInv, Missing, Is, Checked, IdKnown, Encoding

LEMMA BuildSteps == ASSUME AcrossInv, BuildRelay  PROVE AcrossInv'
<1>1. gate = "build" /\ gate' = "estimate" /\ sentRelay' = Encoded /\ UNCHANGED <<deposit, field>>
  BY AfterIs DEF BuildRelay
<1>2. ASSUME deposit.direct, NEW f \in RelayFields, sentRelay'[f] = "wrong"  PROVE Missing(f)
  <2>1. CASE field[f] # "none"
    <3>1. Encoded[f] = field[f]
      BY <2>1 DEF Encoded
    <3> QED  BY <1>1, <1>2, <3>1 DEF AcrossInv
  <2>2. CASE field[f] = "none"
    BY <1>1, <1>2, <2>2 DEF AcrossInv, Missing, LookedFor, Checked, IdKnown
  <2> QED  BY <2>1, <2>2
<1> QED  BY <1>1, <1>2 DEF AcrossInv, Missing, Is, Checked, IdKnown, Encoding

LEMMA AcrossStep == AcrossInv /\ [AcrossNext]_acrossVars => AcrossInv'
<1> SUFFICES ASSUME AcrossInv, [AcrossNext]_acrossVars  PROVE AcrossInv'
  OBVIOUS
<1>1. ASSUME NEW g \in DOMAIN After \ {"enrich", "build"}, Pass(g)  PROVE AcrossInv'
  BY <1>1, PassSteps
<1>2. ASSUME NEW g \in DOMAIN After \ {"enrich", "build"}, Refuse(g)  PROVE AcrossInv'
  <2>1. gate' \in {"failed", "refused"} /\ UNCHANGED <<deposit, field, sentRelay>>
    <3>1. CASE g = "proof"
      BY <1>2, <3>1 DEF Refuse
    <3>2. CASE g = "profit"
      BY <1>2, <3>2 DEF Refuse
    <3>3. CASE g # "proof" /\ g # "profit"
      BY <1>2, <3>3 DEF Refuse
    <3> QED  BY <3>1, <3>2, <3>3
  <2> QED  BY <2>1, GateMoves DEF Checked, IdKnown, Encoding
<1>3. CASE NotEnriched
  <2>1. gate' = "exclusive" /\ UNCHANGED <<deposit, field, sentRelay>>
    BY <1>3, AfterIs DEF NotEnriched
  <2> QED  BY <2>1, GateMoves DEF Checked, IdKnown, Encoding
<1>4. CASE Enrich
  BY <1>4, EnrichSteps
<1>5. CASE EnrichFails \/ BuildFails
  <2>1. gate' \in {"failed", "refused"} /\ UNCHANGED <<deposit, field, sentRelay>>
    BY <1>5 DEF EnrichFails, BuildFails
  <2> QED  BY <2>1, GateMoves DEF Checked, IdKnown, Encoding
<1>6. CASE BuildRelay
  BY <1>6, BuildSteps
<1>7. CASE UNCHANGED acrossVars
  BY <1>7, GateMoves DEF acrossVars
<1> QED  BY <1>1, <1>2, <1>3, <1>4, <1>5, <1>6, <1>7 DEF AcrossNext

(* Whatever the event lacked and whatever the nodes answer: a direct fill  *)
(* is sent with the deposit's own values but where the event said nothing. *)
THEOREM RelaysCarryTheDeposit == AcrossSpec => []WrongFieldsWereMissing
<1>1. AcrossInv => WrongFieldsWereMissing
  BY DEF AcrossInv, WrongFieldsWereMissing, Sent, Encoding, Missing
<1> QED  BY <1>1, AcrossStarts, AcrossStep, PTL DEF AcrossSpec

Holds == {"own", "wrong", "none"}

\* Of every field the event says the right thing, a wrong one, or nothing.
LEMMA EventIsTyped ==
  ASSUME NEW d  PROVE FromEvent(d) \in [RelayFields \cup {"tx"} -> Holds]
<1>1. ASSUME NEW f \in RelayFields \cup {"tx"}  PROVE FromEvent(d)[f] \in Holds
  <2>1. CASE f \notin d.lacks
    BY <2>1 DEF FromEvent, Holds
  <2>2. CASE f \in d.lacks /\ f = "recipient"
    <3>1. FromEvent(d)[f] = IF "gift" \in d.facts THEN "wrong" ELSE "own"
      BY <2>2 DEF FromEvent
    <3> QED  BY <3>1 DEF Holds
  <2>3. CASE f \in d.lacks /\ f = "src_token"
    <3>1. FromEvent(d)[f] = "wrong"
      BY <2>3 DEF FromEvent
    <3> QED  BY <3>1 DEF Holds
  <2>4. CASE f \in d.lacks /\ f = "dst_token"
    <3>1. FromEvent(d)[f] = IF "src_token" \in d.lacks THEN "none"
                            ELSE IF "swapped" \in d.facts THEN "wrong" ELSE "own"
      BY <2>4 DEF FromEvent
    <3> QED  BY <3>1 DEF Holds
  <2>5. CASE f \in d.lacks /\ f \notin {"recipient", "src_token", "dst_token"}
    <3>1. FromEvent(d)[f] = "none"
      BY <2>5 DEF FromEvent
    <3> QED  BY <3>1 DEF Holds
  <2> QED  BY <2>1, <2>2, <2>3, <2>4, <2>5
<1>2. FromEvent(d) = [f \in RelayFields \cup {"tx"} |-> FromEvent(d)[f]]
  BY DEF FromEvent
<1> HIDE DEF Holds
<1> QED  BY <1>1, <1>2

\* A relay has a value in every field.
LEMMA EncodedIsTyped ==
  ASSUME field \in [RelayFields \cup {"tx"} -> Holds]  PROVE Encoded \in [RelayFields -> Holds]
<1>1. ASSUME NEW f \in RelayFields  PROVE Encoded[f] \in Holds
  <2>1. CASE field[f] # "none"
    <3>1. Encoded[f] = field[f]
      BY <2>1 DEF Encoded
    <3> QED  BY <3>1
  <2>2. CASE field[f] = "none" /\ f = "message"
    <3>1. Encoded[f] = OwnUnless(Is("hook"))
      BY <2>2 DEF Encoded
    <3> QED  BY <3>1 DEF OwnUnless, Holds
  <2>3. CASE field[f] = "none" /\ f = "exclusivity"
    <3>1. Encoded[f] = OwnUnless(Is("exclusive"))
      BY <2>3 DEF Encoded
    <3> QED  BY <3>1 DEF OwnUnless, Holds
  <2>4. CASE field[f] = "none" /\ f = "dst_token"
    <3>1. Encoded[f] = OwnUnless(~Is("native"))
      BY <2>4 DEF Encoded
    <3> QED  BY <3>1 DEF OwnUnless, Holds
  <2>5. CASE field[f] = "none" /\ f \notin {"message", "exclusivity", "dst_token"}
    <3>1. Encoded[f] = "wrong"
      BY <2>5 DEF Encoded
    <3> QED  BY <3>1 DEF Holds
  <2> QED  BY <2>1, <2>2, <2>3, <2>4, <2>5
<1>2. Encoded = [f \in RelayFields |-> Encoded[f]]
  BY DEF Encoded
<1> HIDE DEF Holds
<1> QED  BY <1>1, <1>2

\* A fill starts at the first gate.
LEMMA AcrossTypesInit == AcrossInit => AcrossTypeOK
<1> SUFFICES ASSUME AcrossInit  PROVE AcrossTypeOK
  OBVIOUS
<1>1. field \in [RelayFields \cup {"tx"} -> {"own", "wrong", "none"}]
  BY EventIsTyped DEF AcrossInit, Holds
<1>2. sentRelay \in [RelayFields -> {"own", "wrong", "none"}]
  BY DEF AcrossInit, NoRelay
<1> QED  BY <1>1, <1>2, AfterIs DEF AcrossInit, AcrossTypeOK

\* A gate leads to the next or ends the fill.
LEMMA AcrossTypesStep == AcrossTypeOK /\ [AcrossNext]_acrossVars => AcrossTypeOK'
<1> SUFFICES ASSUME AcrossTypeOK, [AcrossNext]_acrossVars  PROVE AcrossTypeOK'
  OBVIOUS
<1>0. \A g \in DOMAIN After : After[g] \in DOMAIN After \cup Ends
  BY AfterIs DEF Ends
<1>1. ASSUME NEW g \in DOMAIN After \ {"enrich", "build"}, Pass(g)  PROVE AcrossTypeOK'
  BY <1>0, <1>1 DEF Pass, AcrossTypeOK
<1>2. ASSUME NEW g \in DOMAIN After \ {"enrich", "build"}, Refuse(g)  PROVE AcrossTypeOK'
  <2>1. gate' \in {"failed", "refused"} /\ UNCHANGED <<deposit, field, sentRelay>>
    <3>1. CASE g = "proof"
      BY <1>2, <3>1 DEF Refuse
    <3>2. CASE g = "profit"
      BY <1>2, <3>2 DEF Refuse
    <3>3. CASE g # "proof" /\ g # "profit"
      BY <1>2, <3>3 DEF Refuse
    <3> QED  BY <3>1, <3>2, <3>3
  <2> QED  BY <2>1 DEF AcrossTypeOK, Ends
<1>3. CASE NotEnriched
  <2>1. gate' = "exclusive" /\ UNCHANGED <<deposit, field, sentRelay>>
    BY <1>3, AfterIs DEF NotEnriched
  <2> QED  BY <2>1, AfterIs DEF AcrossTypeOK
<1>4. CASE Enrich
  <2>1. gate' = "exclusive" /\ field' = Patched /\ UNCHANGED <<deposit, sentRelay>>
    BY <1>4, AfterIs DEF Enrich
  <2>2. Decoded \in Holds
    BY DEF Decoded, OwnUnless, Holds
  <2>3. field' \in [RelayFields \cup {"tx"} -> Holds]
    BY <2>1, <2>2 DEF Patched, AcrossTypeOK, Holds
  <2> QED  BY <2>1, <2>3, AfterIs DEF AcrossTypeOK, Holds
<1>5. CASE EnrichFails \/ BuildFails
  BY <1>5 DEF EnrichFails, BuildFails, AcrossTypeOK, Ends
<1>6. CASE BuildRelay
  <2>1. gate' = "estimate" /\ sentRelay' = Encoded /\ UNCHANGED <<deposit, field>>
    BY <1>6, AfterIs DEF BuildRelay
  <2>2. sentRelay' \in [RelayFields -> {"own", "wrong", "none"}]
    BY <2>1, EncodedIsTyped DEF AcrossTypeOK, Holds
  <2> QED  BY <2>1, <2>2, AfterIs DEF AcrossTypeOK
<1>7. CASE UNCHANGED acrossVars
  BY <1>7 DEF acrossVars, AcrossTypeOK
<1> QED  BY <1>1, <1>2, <1>3, <1>4, <1>5, <1>6, <1>7 DEF AcrossNext

-----------------------------------------------------------------------------
(* The Solana fill                                                         *)

SolanaSpec == SolanaInit /\ [][SolanaNext]_solanaVars

(* Where the fill stands tells what became of its transaction.             *)
SolanaInv ==
  /\ solTx \in {"none", "posted"} => nodeSays = "none"
  /\ solTx \in {"accepted", "landed"} => nodeSays = "taken"
  /\ nodeSays = "refused" => solTx = "dropped"
  /\ solTx # "none" => phase \in {"answer", "REVERTED", "CONFIRMED", "stopped"}
  /\ phase = "stopped" => "crash" \in mishaps
  /\ phase = "CONFIRMED" => nodeSays = "taken" /\ (solRow \/ "log" \in mishaps)
  /\ phase = "REVERTED" /\ solTx # "none" /\ "lost" \notin mishaps => nodeSays = "refused"
  /\ solRow => phase = "CONFIRMED" /\ nodeSays = "taken"

LEMMA SolanaStep == SolanaInv /\ [SolanaNext]_solanaVars => SolanaInv'
<1> SUFFICES ASSUME SolanaInv, [SolanaNext]_solanaVars  PROVE SolanaInv'
  OBVIOUS
<1>1. CASE Begin
  <2>1. FirstCall \in {"evm", "skipped", "failed", "vaa", "blockhash"}
    BY DEF FirstCall
  <2> QED  BY <1>1, <2>1 DEF Begin, SolanaInv
<1>2. CASE VaaArrives \/ CallFails \/ PostTx
  BY <1>2 DEF VaaArrives, CallFails, PostTx, SolanaInv
<1>3. CASE Slot \/ NodeTakes \/ NodeRefuses \/ Lands \/ Expires
  BY <1>3 DEF Slot, NodeTakes, NodeRefuses, Lands, Expires, SolanaInv
<1>4. CASE Answered \/ AnsweredError \/ AnswerLost
  BY <1>4 DEF Answered, AnsweredError, AnswerLost, SolanaInv
<1>5. CASE ProcessStops
  BY <1>5 DEF ProcessStops, FillEnds, SolanaInv
<1>6. CASE UNCHANGED solanaVars
  BY <1>6 DEF solanaVars, SolanaInv
<1> QED  BY <1>1, <1>2, <1>3, <1>4, <1>5, <1>6 DEF SolanaNext

(* In whatever order node, cluster and solver go on: the outcome log and   *)
(* the chain agree on a fill unless an answer, the process or the log was  *)
(* lost on the way.                                                        *)
THEOREM LandedFillsAreRecorded == SolanaSpec => []LandedIsRecorded
<1>1. SolanaInit => SolanaInv
  BY DEF SolanaInit, SolanaInv
<1>2. SolanaInv => LandedIsRecorded
  BY DEF SolanaInv, LandedIsRecorded
<1> QED  BY <1>1, <1>2, SolanaStep, PTL DEF SolanaSpec

\* A fill starts with a blockhash of no age.
LEMMA SolanaTypesInit == SolanaInit => SolanaTypeOK
<1>1. 0 \in 0..HashLife + 1
  BY HashAssumption
<1> QED  BY <1>1, Zenon DEF SolanaInit, SolanaTypeOK

\* A blockhash is never older than one slot past its life.
LEMMA SolanaTypesStep == SolanaTypeOK /\ [SolanaNext]_solanaVars => SolanaTypeOK'
<1> SUFFICES ASSUME SolanaTypeOK, [SolanaNext]_solanaVars  PROVE SolanaTypeOK'
  OBVIOUS
<1> USE HashAssumption DEF SolanaTypeOK, FillEnds
<1>1. CASE Begin
  <2>1. FirstCall \in {"evm", "skipped", "failed", "vaa", "blockhash"}
    BY DEF FirstCall
  <2> QED  BY <1>1, <2>1 DEF Begin
<1>2. CASE VaaArrives \/ CallFails
  BY <1>2 DEF VaaArrives, CallFails
<1>8. CASE PostTx
  <2>1. 0 \in 0..HashLife + 1
    OBVIOUS
  <2> QED  BY <1>8, <2>1, Zenon DEF PostTx
<1>3. CASE Slot
  BY <1>3 DEF Slot
<1>4. CASE NodeTakes \/ NodeRefuses \/ Lands \/ Expires
  BY <1>4 DEF NodeTakes, NodeRefuses, Lands, Expires
<1>5. CASE Answered
  BY <1>5 DEF Answered
<1>6. CASE AnsweredError \/ AnswerLost \/ ProcessStops
  BY <1>6 DEF AnsweredError, AnswerLost, ProcessStops
<1>7. CASE UNCHANGED solanaVars
  BY <1>7 DEF solanaVars
<1> QED  BY <1>1, <1>2, <1>3, <1>4, <1>5, <1>6, <1>7, <1>8 DEF SolanaNext
=============================================================================
