----------------------------- MODULE GenomeFeed -----------------------------
(***************************************************************************)
(* The feeds of genome-client that solver-main starts.                     *)
(*                                                                         *)
(* SSE: GenomeClient::subscribe reads the genome stream, reconnecting for  *)
(* ever, and sends what it parses into the inner channel; HardenedConsumer *)
(* filters replays by id and passes the rest on with try_send; a forwarder *)
(* moves them to the channel of the main loop.                             *)
(*                                                                         *)
(* Across: AcrossPoller asks the Across API for the unfilled deposits of   *)
(* one destination chain after the other.                                  *)
(*                                                                         *)
(* Time is abstracted: a deposit is exclusive to another relayer, open,    *)
(* closing (less than 60 s to its deadline) or over.                       *)
(***************************************************************************)
EXTENDS IntentChannel, FiniteSets, FiniteSetsExt, SequencesExt

CONSTANTS
  GenomeEvents,  \* the events the stream can carry: records, see Actionable
  Deposits,      \* Across deposits: [dep, order, dst, exclusive]
  DstChains,     \* destination chains, in the order the poller visits them
  BufferCap,     \* capacity of the inner channel and of the SSE channel
  DedupWindow,   \* ids the consumer remembers (4096)
  SeenCap,       \* deposit ids the poller remembers (10 000) ...
  SeenEvict,     \* ... and how many it forgets at once (1 000)
  MaxEvents,     \* bound: events delivered
  MaxBreaks,     \* bound: broken or ended streams
  MaxApiErrors   \* bound: failed or rate-limited polls

ASSUME FeedAssumption ==
  /\ BufferCap \in Nat \ {0}
  /\ DedupWindow \in Nat \ {0}
  /\ SeenCap \in Nat \ {0} /\ SeenEvict \in 1..SeenCap
  /\ MaxEvents \in Nat /\ MaxBreaks \in Nat /\ MaxApiErrors \in Nat
  /\ Len(DstChains) \in Nat \ {0}

VARIABLES
  connected,     \* the stream is open
  events,        \* events delivered so far
  breaks,        \* streams lost so far
  inner,         \* channel from the stream to the consumer
  window,        \* ids the consumer remembers, oldest first
  sse,           \* channel from the consumer to the forwarder
  inHand,        \* what the forwarder has taken and not yet sent: <<>> or <<intent>>
  deposits,      \* what each deposit is for the Across API
  pollChain,     \* index of the chain the poller asks next
  batch,         \* deposits of the last answer still to be handled
  acrossSeen,    \* deposit ids the poller has emitted
  apiErrors

streamVars == <<connected, events, breaks>>
consumerVars == <<inner, window, sse, inHand>>
acrossVars == <<pollChain, batch, acrossSeen, apiErrors>>
feedVars == <<streamVars, consumerVars, acrossVars, deposits>>

-----------------------------------------------------------------------------
(* The genome stream. *)

Mayan(proto) == proto \in {"mayan_swift", "mayan_flash", "swift"}

(* Events that become intents: new orders of protocols other than Mayan,  *)
(* with the chains, the amount and the depositor present.                 *)
Actionable(ev) ==
  /\ ev.entity \in {"proto", "order"}
  /\ ev.action \in {"deposit", "placed", "executed"}
  /\ ~Mayan(ev.proto)
  /\ ev.complete

(* The reference, else the order id, else the hash in the address, else   *)
(* one made up from depositor, chains, amount and time.                   *)
TxHash(ev) ==
  IF ev.reference # None THEN ev.reference
  ELSE IF ev.orderId # None THEN ev.orderId
  ELSE IF ev.addrTx # None THEN ev.addrTx
  ELSE ev.synthetic

FromGenomeEvent(ev) ==
  [id |-> TxKey(ev.proto, TxHash(ev)), proto |-> ev.proto, dep |-> ev.dep,
   order |-> ev.order, bridge |-> ev.bridge, mayan |-> ev.mayan,
   timed |-> ev.timed, real |-> TxHash(ev) # ev.synthetic]

SseIntents == {FromGenomeEvent(ev) : ev \in {e \in GenomeEvents : Actionable(e)}}

Connect ==
  /\ ~connected
  /\ connected' = TRUE
  /\ UNCHANGED <<events, breaks, consumerVars, acrossVars, deposits, intents>>

(* The stream ends or fails; what is sent meanwhile is not seen. *)
LoseStream ==
  /\ connected /\ breaks < MaxBreaks
  /\ connected' = FALSE
  /\ breaks' = breaks + 1
  /\ UNCHANGED <<events, consumerVars, acrossVars, deposits, intents>>

(* The reader waits while the inner channel is full. *)
Deliver(ev) ==
  /\ connected /\ events < MaxEvents
  /\ events' = events + 1
  /\ IF Actionable(ev)
     THEN /\ Len(inner) < BufferCap
          /\ inner' = Append(inner, FromGenomeEvent(ev))
     ELSE UNCHANGED inner
  /\ UNCHANGED <<connected, breaks, window, sse, inHand, acrossVars, deposits, intents>>

-----------------------------------------------------------------------------
(* HardenedConsumer. *)

Remembered == ToSet(window)

(* The window after check_and_insert of an id that is not in it. *)
CheckAndInsert(id) ==
  Append(IF Len(window) >= DedupWindow THEN Tail(window) ELSE window, id)

(* A new intent that meets a full channel is dropped, and stays remembered. *)
Consume ==
  /\ inner # <<>>
  /\ inner' = Tail(inner)
  /\ LET intent == Head(inner) IN
     IF intent.id \in Remembered
     THEN UNCHANGED <<window, sse>>
     ELSE /\ window' = CheckAndInsert(intent.id)
          /\ sse' = IF Len(sse) < BufferCap THEN Append(sse, intent) ELSE sse
  /\ UNCHANGED <<streamVars, inHand, acrossVars, deposits, intents>>

ForwardTake ==
  /\ inHand = <<>> /\ sse # <<>>
  /\ inHand' = <<Head(sse)>>
  /\ sse' = Tail(sse)
  /\ UNCHANGED <<streamVars, inner, window, acrossVars, deposits, intents>>

ForwardSend ==
  /\ inHand # <<>>
  /\ Send(Head(inHand))
  /\ inHand' = <<>>
  /\ UNCHANGED <<streamVars, inner, window, sse, acrossVars, deposits>>

-----------------------------------------------------------------------------
(* AcrossPoller. *)

AcrossIntent(d) ==
  [id |-> DepKey("across_v3", d.dep), proto |-> "across_v3", dep |-> d.dep,
   order |-> d.order, bridge |-> None, mayan |-> None, timed |-> TRUE,
   real |-> TRUE]

AcrossIntents == {AcrossIntent(d) : d \in Deposits}

(* What the poller takes from an answer: deposits no other relayer has    *)
(* exclusively and with more than 60 s to their deadline.                 *)
Fillable(d) ==
  \/ deposits[d] = "open"
  \/ deposits[d] = "exclusive" /\ d.exclusive = "us"

NextChain == (pollChain % Len(DstChains)) + 1

\* Mutant: a deposit is remembered before its exclusivity is looked at.
PollAcrossMutant ==
  /\ batch = {}
  /\ batch' = {d \in Deposits : d.dst = DstChains[pollChain] /\ Fillable(d)}
  /\ acrossSeen' = acrossSeen \cup {d.dep : d \in {e \in Deposits : deposits[e] = "exclusive"}}
  /\ pollChain' = NextChain
  /\ UNCHANGED <<apiErrors, streamVars, consumerVars, deposits, intents>>

PollAcross ==
  /\ batch = {}
  /\ batch' = {d \in Deposits : d.dst = DstChains[pollChain] /\ Fillable(d)}
  /\ pollChain' = NextChain
  /\ UNCHANGED <<acrossSeen, apiErrors, streamVars, consumerVars, deposits, intents>>

(* No answer, 429, another status or no JSON: the next chain is next. *)
PollAcrossFails ==
  /\ batch = {} /\ apiErrors < MaxApiErrors
  /\ apiErrors' = apiErrors + 1
  /\ pollChain' = NextChain
  /\ UNCHANGED <<batch, acrossSeen, streamVars, consumerVars, deposits, intents>>

(* At the cap the smallest ids are forgotten. *)
Smallest(ids, n) == {i \in ids : Cardinality({j \in ids : j < i}) < n}
SeenAfterEviction ==
  IF Cardinality(acrossSeen) >= SeenCap
  THEN acrossSeen \ Smallest(acrossSeen, SeenEvict)
  ELSE acrossSeen

(* A new deposit is sent, waiting for room.                                *)
TakeDeposit(d) ==
  /\ d \in batch
  /\ batch' = batch \ {d}
  /\ acrossSeen' = SeenAfterEviction \cup {d.dep}
  /\ IF d.dep \in SeenAfterEviction THEN UNCHANGED intents ELSE Send(AcrossIntent(d))
  /\ UNCHANGED <<pollChain, apiErrors, streamVars, consumerVars, deposits>>

-----------------------------------------------------------------------------
(* The deposits, as the Across API sees them. *)

DepositStates == {"absent", "exclusive", "open", "closing", "over"}

Deposited(d) ==
  /\ deposits[d] = "absent"
  /\ deposits' = [deposits EXCEPT ![d] = IF d.exclusive = "no" THEN "open" ELSE "exclusive"]
  /\ UNCHANGED <<streamVars, consumerVars, acrossVars, intents>>

TimePasses(d) ==
  /\ \E step \in {<<"exclusive", "open">>, <<"open", "closing">>, <<"closing", "over">>} :
       /\ deposits[d] = step[1]
       /\ deposits' = [deposits EXCEPT ![d] = step[2]]
  /\ UNCHANGED <<streamVars, consumerVars, acrossVars, intents>>

-----------------------------------------------------------------------------
InitFeed ==
  /\ connected = FALSE /\ events = 0 /\ breaks = 0
  /\ inner = <<>> /\ window = <<>> /\ sse = <<>> /\ inHand = <<>>
  /\ deposits = [d \in Deposits |-> "absent"]
  /\ pollChain = 1 /\ batch = {} /\ acrossSeen = {} /\ apiErrors = 0

FeedStep ==
  \/ Connect \/ LoseStream
  \/ \E ev \in GenomeEvents : Deliver(ev)
  \/ Consume \/ ForwardTake \/ ForwardSend
  \/ PollAcross \/ PollAcrossFails
  \/ \E d \in Deposits : TakeDeposit(d) \/ Deposited(d) \/ TimePasses(d)

TypeOKFeed ==
  /\ connected \in BOOLEAN /\ events \in 0..MaxEvents /\ breaks \in 0..MaxBreaks
  /\ inner \in Seq(SseIntents) /\ Len(inner) <= BufferCap
  /\ window \in Seq({i.id : i \in SseIntents}) /\ Len(window) <= DedupWindow
  /\ sse \in Seq(SseIntents) /\ Len(sse) <= BufferCap
  /\ inHand \in Seq(SseIntents) /\ Len(inHand) <= 1
  /\ deposits \in [Deposits -> DepositStates]
  /\ pollChain \in 1..Len(DstChains) /\ batch \subseteq Deposits
  /\ acrossSeen \subseteq {d.dep : d \in Deposits} /\ apiErrors \in 0..MaxApiErrors

(* Every task of the feed runs whenever it can; a stream is retried for   *)
(* ever, an event need not come and time need not pass.                   *)
FeedFairness ==
  /\ WF_feedVars(Connect) /\ WF_feedVars(Consume)
  /\ WF_feedVars(ForwardTake) /\ SF_<<feedVars, intents>>(ForwardSend)
  /\ WF_<<feedVars, intents>>(PollAcross)
  /\ SF_<<feedVars, intents>>(\E d \in Deposits : TakeDeposit(d))
=============================================================================
