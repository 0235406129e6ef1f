------------------------------ MODULE Dispatcher ------------------------------
(***************************************************************************)
(* The main loop of solver-main: it takes one intent at a time, from the   *)
(* LiFi retries first, drops what is filtered or has been dispatched,      *)
(* resolves LiFi intents to the order beneath them, and spawns a fill task *)
(* (FillPipeline has what the task does).  A LiFi intent that li.quest or  *)
(* the Mayan explorer does not know yet comes back after a delay, at most  *)
(* MaxRetries times.                                                       *)
(*                                                                         *)
(* Composed with the feeds that fill its channel.                          *)
(***************************************************************************)
EXTENDS GenomeFeed, LogPoller

CONSTANTS
  Acceptable,   \* orders no skip rule, chain filter or amount bound drops
  MaxRetries,   \* 8
  RetryCap,     \* capacity of the retry channel (64)
  QuestBridges, \* LiFi order -> the bridges li.quest may name for it
  SendingKnown, \* LiFi orders whose deposit transaction li.quest may know
  MayanOf       \* LiFi order -> the Mayan order beneath it, or None

ASSUME DispatcherAssumption ==
  /\ MaxRetries \in Nat /\ RetryCap \in Nat \ {0}

VARIABLES
  dispatched,  \* dedup keys of this session
  retryCount,  \* lifi_retry_counts
  sleeping,    \* retry tasks that have not sent yet, a bag
  retryQ,      \* the retry channel
  spawned      \* history: fill tasks spawned, in order

loopVars == <<dispatched, retryCount, sleeping, retryQ, spawned>>
vars == <<feedVars, logVars, intents, loopVars>>

AllIntents == SseIntents \cup AcrossIntents \cup DlnIntents
Lifi(i) == i.proto = "lifi_v2"

-----------------------------------------------------------------------------
(* Keys. *)

DedupKey(i) == IF i.dep # None THEN DepKey(i.proto, i.dep) ELSE i.id

MayanKeys(order) == {TxKey("mayan_swift", order), TxKey("mayan_flash", order)}

(* The protocol of the order beneath a LiFi intent and the keys it adds.   *)
ChildProto(bridge) ==
  CASE bridge = "across" -> "across_v3"
    [] bridge = "debridge" -> "debridge"
    [] OTHER -> "mayan_swift"

ChildKeys(i, bridge, mayan) ==
  (IF i.dep # None THEN {DepKey(ChildProto(bridge), i.dep)} ELSE {})
    \cup (IF mayan # None THEN MayanKeys(mayan) ELSE {})

(* Skip rules, chain and amount filters, and a fill deadline that passed.  *)
Filtered(i) ==
  \/ i.order \notin Acceptable
  \/ i.timed /\ \E d \in Deposits : d.order = i.order /\ deposits[d] = "over"

MayanDispatched(i) == i.mayan # None /\ MayanKeys(i.mayan) \cap dispatched # {}

-----------------------------------------------------------------------------
(* Answers about a LiFi intent. *)

Bridges == {"across", "debridge", "mayan"}

(* li.quest is asked unless bridge and deposit are both known, and its     *)
(* bridge replaces the intent's; pending leaves what the intent has, and   *)
(* so does an intent without a transaction to ask about.                   *)
Asks(i) == i.real /\ (i.bridge = None \/ i.dep = None)

Answer(kind, bridge, sending) == [kind |-> kind, bridge |-> bridge, sending |-> sending]

QuestAnswers(i) ==
  IF ~Asks(i)
  THEN {Answer(IF i.bridge = None THEN "no_hash" ELSE "known", i.bridge, FALSE)}
  ELSE {Answer("pending", i.bridge, FALSE)} \cup
       {IF bridge \in Bridges THEN Answer("resolved", bridge, sending)
                              ELSE Answer("not_routable", None, FALSE) :
          bridge \in QuestBridges[i.order],
          sending \in (IF i.order \in SendingKnown THEN BOOLEAN ELSE {FALSE})}

(* The explorer is asked about a Mayan child; it may not know it yet.      *)
AsksExplorer(i, answer) == answer.bridge = "mayan" /\ (answer.sending \/ i.real)

ExplorerAnswers(i, answer) ==
  IF AsksExplorer(i, answer) THEN {MayanOf[i.order], None} ELSE {i.mayan}

NeedsRetry(i, answer, mayan) ==
  \/ answer.bridge = None
  \/ ~answer.sending /\ i.dep = None
  \/ AsksExplorer(i, answer) /\ mayan = None

-----------------------------------------------------------------------------
(* One turn of the loop. *)

(* recv is biased to the retries. *)
Takes(i) ==
  \/ /\ retryQ # <<>> /\ i = Head(retryQ)
     /\ retryQ' = Tail(retryQ) /\ UNCHANGED intents
  \/ /\ retryQ = <<>> /\ intents # <<>> /\ i = Head(intents)
     /\ intents' = Tail(intents) /\ UNCHANGED retryQ

NewIntent(i) == ~Filtered(i) /\ DedupKey(i) \notin dispatched

Discard(i) ==
  /\ Takes(i) /\ ~NewIntent(i)
  /\ UNCHANGED <<dispatched, retryCount, sleeping, spawned, feedVars, logVars>>

(* The order went out under its Mayan hash; the key is taken back.         *)
DiscardMayan(i) ==
  /\ Takes(i) /\ NewIntent(i) /\ MayanDispatched(i)
  /\ UNCHANGED <<dispatched, retryCount, sleeping, spawned, feedVars, logVars>>

Fresh(i) == Takes(i) /\ NewIntent(i) /\ ~MayanDispatched(i)

Task(i, child) ==
  [key |-> DedupKey(i), child |-> child, order |-> i.order, dep |-> i.dep, lifi |-> Lifi(i)]

\* Mutant: the key is taken back as it is for a retry.
SpawnFillMutant(i, child) ==
  /\ dispatched' = dispatched \cup child
  /\ spawned' = Append(spawned, Task(i, child))

SpawnFill(i, child) ==
  /\ dispatched' = dispatched \cup {DedupKey(i)} \cup child
  /\ spawned' = Append(spawned, Task(i, child))

Dispatch(i) ==
  /\ Fresh(i) /\ ~Lifi(i)
  /\ SpawnFill(i, {})
  /\ UNCHANGED <<retryCount, sleeping, feedVars, logVars>>

RejectLifi(i) ==
  /\ dispatched' = dispatched \cup {DedupKey(i)}
  /\ retryCount' = [retryCount EXCEPT ![i.id] = 0]
  /\ UNCHANGED <<sleeping, spawned>>

\* Mutant: one retry too many.
RetryLaterMutant(i) ==
  IF retryCount[i.id] <= MaxRetries
  THEN /\ retryCount' = [retryCount EXCEPT ![i.id] = @ + 1]
       /\ sleeping' = [sleeping EXCEPT ![i] = @ + 1]
       /\ UNCHANGED <<dispatched, spawned>>
  ELSE RejectLifi(i)

\* Mutant: the retries are not counted.
RetryForeverMutant(i) ==
  /\ sleeping' = [sleeping EXCEPT ![i] = @ + 1]
  /\ UNCHANGED <<dispatched, retryCount, spawned>>

(* The key is taken back so that the retry is let in again; after the last *)
(* retry it stays.                                                         *)
RetryLater(i) ==
  IF retryCount[i.id] < MaxRetries
  THEN /\ retryCount' = [retryCount EXCEPT ![i.id] = @ + 1]
       /\ sleeping' = [sleeping EXCEPT ![i] = @ + 1]
       /\ UNCHANGED <<dispatched, spawned>>
  ELSE RejectLifi(i)

DispatchLifi(i) ==
  /\ Fresh(i) /\ Lifi(i)
  /\ \E answer \in QuestAnswers(i) :
       IF answer.kind \in {"not_routable", "no_hash"} THEN RejectLifi(i)
       ELSE \E mayan \in ExplorerAnswers(i, answer) :
              IF NeedsRetry(i, answer, mayan) THEN RetryLater(i)
              ELSE /\ SpawnFill(i, ChildKeys(i, answer.bridge, mayan))
                   /\ retryCount' = [retryCount EXCEPT ![i.id] = 0]
                   /\ UNCHANGED sleeping
  /\ UNCHANGED <<feedVars, logVars>>

(* A retry task has slept and sends, waiting for room in the channel.      *)
RetrySends(i) ==
  /\ sleeping[i] > 0 /\ Len(retryQ) < RetryCap
  /\ sleeping' = [sleeping EXCEPT ![i] = @ - 1]
  /\ retryQ' = Append(retryQ, i)
  /\ UNCHANGED <<dispatched, retryCount, spawned, intents, feedVars, logVars>>

MainLoop ==
  \E i \in AllIntents : Discard(i) \/ DiscardMayan(i) \/ Dispatch(i) \/ DispatchLifi(i)

-----------------------------------------------------------------------------
LifiIntents == {i \in AllIntents : Lifi(i)}

Init ==
  /\ InitFeed /\ InitLogs /\ intents = <<>>
  /\ dispatched = {} /\ retryCount = [id \in {i.id : i \in LifiIntents} |-> 0]
  /\ sleeping = [i \in LifiIntents |-> 0] /\ retryQ = <<>> /\ spawned = <<>>

Next ==
  \/ FeedStep /\ UNCHANGED <<logVars, loopVars>>
  \/ LogStep /\ UNCHANGED <<feedVars, loopVars>>
  \/ MainLoop
  \/ \E i \in LifiIntents : RetrySends(i)

Spec == Init /\ [][Next]_vars

Fairness ==
  /\ FeedFairness
  /\ WF_vars(MainLoop)
  /\ SF_vars(\E i \in LifiIntents : RetrySends(i))

FairSpec == Spec /\ Fairness

-----------------------------------------------------------------------------
(* Properties. *)

Outstanding(id) ==
  LET ofId == {i \in LifiIntents : i.id = id} IN
  FoldSet(LAMBDA i, n : sleeping[i] + n, 0, ofId)
    + Cardinality({n \in DOMAIN retryQ : retryQ[n].id = id})

TypeOK ==
  /\ TypeOKFeed /\ TypeOKLogs
  /\ intents \in Seq(AllIntents) /\ Len(intents) <= ChannelCap
  /\ retryCount \in [{i.id : i \in LifiIntents} -> 0..MaxRetries]
  /\ sleeping \in [LifiIntents -> Nat]
  /\ retryQ \in Seq(LifiIntents) /\ Len(retryQ) <= RetryCap
  /\ \A n \in DOMAIN spawned : spawned[n].order \in Acceptable

(* No intent gets a fill task under a key of an earlier task, be it the    *)
(* earlier one's own or one it took for the order beneath a LiFi intent:   *)
(* whatever keys are taken back for retries, and whatever the feeds        *)
(* deliver again (the dedup set of main).                                  *)
LaterKeyIsFresh ==
  \A m, n \in DOMAIN spawned :
    m < n => spawned[n].key \notin {spawned[m].key} \cup spawned[m].child

(* Each order gets one fill task: "This prevents double-fills when deposit *)
(* + placed + executed all arrive" (main).                                 *)
OneFillPerOrder ==
  \A m, n \in DOMAIN spawned : spawned[m].order = spawned[n].order => m = n

(* A LiFi intent that is let in is decided: dispatched, rejected or given  *)
(* up, after a bounded number of retries, whatever li.quest answers.       *)
LifiDecided ==
  \A i \in LifiIntents :
    i \in ToSet(intents) /\ i.order \in Acceptable /\ ~i.timed
      ~> Outstanding(i.id) = 0 /\ (DedupKey(i) \in dispatched \/ MayanDispatched(i))

(* A deposit that stays open gets dispatched, though it was exclusive to   *)
(* another relayer when the poller saw it first, polls fail, and the       *)
(* channel is full (AcrossPoller::run and main).                           *)
FillableIsDispatched ==
  \A d \in Deposits :
    deposits[d] = "open" /\ d.order \in Acceptable
      ~> deposits[d] # "open" \/ DedupKey(AcrossIntent(d)) \in dispatched
=============================================================================
