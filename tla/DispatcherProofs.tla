--------------------------- MODULE DispatcherProofs ---------------------------
(***************************************************************************)
(* For every instance of Dispatcher: no fill task under the key of an      *)
(* earlier one, no gap between the windows of the log poller, and every    *)
(* channel and counter within its bound.                                   *)
(***************************************************************************)
EXTENDS Dispatcher, TLAPS

-----------------------------------------------------------------------------
(* Keys: what was spawned stays in dispatched, and what is in dispatched   *)
(* is not spawned again.                                                   *)

Pairs(i) == UNION {{<<a, m>> : m \in ExplorerAnswers(i, a)} : a \in QuestAnswers(i)}
LifiTasks(i) == {Task(i, ChildKeys(i, q[1].bridge, q[2])) : q \in Pairs(i)}
Tasks == {Task(i, {}) : i \in AllIntents} \cup UNION {LifiTasks(i) : i \in AllIntents}

KeysOf(task) == {task.key} \cup task.child

KeysInv ==
  /\ spawned \in Seq(Tasks)
  /\ \A n \in DOMAIN spawned : KeysOf(spawned[n]) \subseteq dispatched
  /\ LaterKeyIsFresh

(* A task with a new key, whose keys all go into dispatched.               *)
LEMMA SpawnKeepsKeys ==
  ASSUME NEW i \in AllIntents, NEW child, Task(i, child) \in Tasks,
         KeysInv, NewIntent(i), SpawnFill(i, child)
  PROVE  KeysInv'
<1> DEFINE task == Task(i, child)
<1>1. task.key = DedupKey(i) /\ task.child = child
  BY DEF Task
<1>2. spawned' = Append(spawned, task) /\ dispatched' = dispatched \cup KeysOf(task)
  BY <1>1 DEF SpawnFill, KeysOf
<1> HIDE DEF task
<1>3. spawned' \in Seq(Tasks) /\ Len(spawned') = Len(spawned) + 1
  BY <1>2 DEF KeysInv, task
<1>4. \A n \in DOMAIN spawned' :
        \/ n \in DOMAIN spawned /\ spawned'[n] = spawned[n]
        \/ n = Len(spawned) + 1 /\ spawned'[n] = task
  BY <1>2 DEF KeysInv
<1>5. \A n \in DOMAIN spawned' : KeysOf(spawned'[n]) \subseteq dispatched'
  BY <1>2, <1>4 DEF KeysInv
<1>6. task.key \notin dispatched
  BY <1>1 DEF NewIntent
<1>7. ASSUME NEW m \in DOMAIN spawned', NEW n \in DOMAIN spawned', m < n
      PROVE  spawned'[n].key \notin KeysOf(spawned'[m])
  <2>1. m \in DOMAIN spawned /\ spawned'[m] = spawned[m]
    BY <1>3, <1>4, <1>7 DEF KeysInv
  <2>2. CASE n \in DOMAIN spawned /\ spawned'[n] = spawned[n]
    BY <2>1, <2>2, <1>7 DEF KeysInv, LaterKeyIsFresh, KeysOf
  <2>3. CASE n = Len(spawned) + 1 /\ spawned'[n] = task
    BY <2>1, <2>3, <1>6 DEF KeysInv
  <2> QED  BY <1>4, <2>2, <2>3
<1> QED  BY <1>3, <1>5, <1>7 DEF KeysInv, LaterKeyIsFresh, KeysOf

LEMMA KeptByOthers ==
  ASSUME KeysInv, spawned' = spawned, dispatched \subseteq dispatched'
  PROVE  KeysInv'
BY DEF KeysInv, LaterKeyIsFresh, KeysOf

LEMMA KeysInvStep == KeysInv /\ [Next]_vars => KeysInv'
<1> SUFFICES ASSUME KeysInv, [Next]_vars PROVE KeysInv'
  OBVIOUS
<1>1. CASE FeedStep /\ UNCHANGED <<logVars, loopVars>>
  BY <1>1, KeptByOthers DEF loopVars
<1>2. CASE LogStep /\ UNCHANGED <<feedVars, loopVars>>
  BY <1>2, KeptByOthers DEF loopVars
<1>3. CASE MainLoop
  <2> PICK i \in AllIntents : Discard(i) \/ DiscardMayan(i) \/ Dispatch(i) \/ DispatchLifi(i)
    BY <1>3 DEF MainLoop
  <2>1. CASE Discard(i) \/ DiscardMayan(i)
    BY <2>1, KeptByOthers DEF Discard, DiscardMayan
  <2>2. CASE Dispatch(i)
    <3>1. NewIntent(i) /\ SpawnFill(i, {})
      BY <2>2 DEF Dispatch, Fresh
    <3>2. Task(i, {}) \in Tasks
      BY DEF Tasks
    <3> QED  BY <3>1, <3>2, SpawnKeepsKeys
  <2>3. CASE DispatchLifi(i)
    <3>1. NewIntent(i)
      BY <2>3 DEF DispatchLifi, Fresh
    <3>2. ASSUME RejectLifi(i)  PROVE KeysInv'
      BY <3>2, KeptByOthers DEF RejectLifi
    <3>3. PICK a \in QuestAnswers(i) :
             IF a.kind \in {"not_routable", "no_hash"} THEN RejectLifi(i)
             ELSE \E m \in ExplorerAnswers(i, a) :
                    IF NeedsRetry(i, a, m) THEN RetryLater(i)
                    ELSE SpawnFill(i, ChildKeys(i, a.bridge, m))
      BY <2>3 DEF DispatchLifi
    <3>4. CASE a.kind \in {"not_routable", "no_hash"}
      BY <3>2, <3>3, <3>4
    <3>5. CASE a.kind \notin {"not_routable", "no_hash"}
      <4> PICK m \in ExplorerAnswers(i, a) :
             IF NeedsRetry(i, a, m) THEN RetryLater(i)
             ELSE SpawnFill(i, ChildKeys(i, a.bridge, m))
        BY <3>3, <3>5
      <4>1. CASE NeedsRetry(i, a, m)
        <5>1. RetryLater(i)
          BY <4>1
        <5>2. CASE retryCount[i.id] < MaxRetries
          BY <5>1, <5>2, KeptByOthers DEF RetryLater
        <5>3. CASE ~(retryCount[i.id] < MaxRetries)
          BY <5>1, <5>3, <3>2 DEF RetryLater
        <5> QED  BY <5>2, <5>3
      <4>2. CASE ~NeedsRetry(i, a, m)
        <5>1. <<a, m>> \in Pairs(i)
          BY DEF Pairs
        <5>2. Task(i, ChildKeys(i, a.bridge, m)) \in LifiTasks(i)
          <6>1. <<a, m>>[1] = a /\ <<a, m>>[2] = m
            OBVIOUS
          <6> QED  BY <5>1, <6>1, Zenon DEF LifiTasks
        <5>3. Task(i, ChildKeys(i, a.bridge, m)) \in Tasks
          BY <5>2 DEF Tasks
        <5> QED  BY <3>1, <4>2, <5>3, SpawnKeepsKeys
      <4> QED  BY <4>1, <4>2
    <3> QED  BY <3>4, <3>5
  <2> QED  BY <2>1, <2>2, <2>3
<1>4. CASE \E i \in LifiIntents : RetrySends(i)
  BY <1>4, KeptByOthers DEF RetrySends
<1>5. CASE UNCHANGED vars
  BY <1>5, KeptByOthers DEF vars, loopVars
<1> QED  BY <1>1, <1>2, <1>3, <1>4, <1>5 DEF Next

(* No intent gets a fill task under a key of an earlier one, whatever the  *)
(* feeds deliver again and whatever keys the retries take back.            *)
THEOREM NoKeyTwice == Spec => []LaterKeyIsFresh
<1>1. Init => KeysInv
  BY DEF Init, KeysInv, LaterKeyIsFresh
<1>2. KeysInv => LaterKeyIsFresh
  BY DEF KeysInv
<1> QED  BY <1>1, <1>2, KeysInvStep, PTL DEF Spec

-----------------------------------------------------------------------------
(* Windows of the log poller.                                              *)

WindowsInv ==
  /\ head \in [LogChains -> Nat]
  /\ lastBlock \in [LogChains -> Nat \cup {None}]
  /\ PassedIsScanned

LEMMA WindowsKept ==
  ASSUME WindowsInv, UNCHANGED logVars
  PROVE  WindowsInv'
BY DEF WindowsInv, logVars, PassedIsScanned

(* Nothing lies below a window but what was scanned or is skipped over.    *)
LEMMA BelowWindow ==
  ASSUME NEW o \in DlnOrders, NEW cur \in Nat, WindowsInv, logs = {},
         o.block < FromBlock(o.chain, cur)
  PROVE  \/ o.name \in logSeen \/ o \in skippedOver
         \/ o.block < WindowFloor(o.chain, cur)
<1>1. o.chain \in LogChains /\ o.block \in Nat /\ BlocksPerBatch \in Nat \ {0} /\ None \notin Nat
  BY LogPollerAssumption
<1>2. CASE lastBlock[o.chain] = None
  BY <1>2 DEF WindowFloor
<1>3. CASE lastBlock[o.chain] # None
  <2>1. lastBlock[o.chain] \in Nat
    BY <1>1, <1>3 DEF WindowsInv
  <2>2. o.block < lastBlock[o.chain] \/ o.block < Minus(cur, 5 * BlocksPerBatch)
    BY <1>1, <1>3, <2>1 DEF FromBlock, Max2, Minus
  <2> QED  BY <1>3, <2>2 DEF WindowFloor, WindowsInv, PassedIsScanned
<1> QED  BY <1>2, <1>3

LEMMA WindowsInvLogStep == ASSUME WindowsInv, LogStep  PROVE WindowsInv'
<1>0. /\ \A o \in DlnOrders : o.chain \in LogChains /\ o.block \in Nat
      /\ BlocksPerBatch \in Nat \ {0} /\ None \notin Nat
  BY LogPollerAssumption
<1>1. ASSUME NEW c \in LogChains, MakeBlock(c)  PROVE WindowsInv'
  BY <1>1 DEF MakeBlock, WindowsInv, PassedIsScanned
<1>2. ASSUME NEW c \in LogChains, NEW cur \in Heads(c), PollNothing(c, cur)  PROVE WindowsInv'
  <2>1. cur \in Nat
    BY <1>2 DEF Heads, WindowsInv
  <2>2. /\ lastBlock' = [lastBlock EXCEPT ![c] = cur] /\ logs = {} /\ FromBlock(c, cur) >= cur
        /\ head' = head /\ logs' = logs /\ logSeen' = logSeen /\ skippedOver' = skippedOver
    BY <1>2 DEF PollNothing
  <2>3. ASSUME NEW o \in DlnOrders, o.chain = c, o.block < cur
        PROVE  o.name \in logSeen \/ o \in skippedOver
    <3>1. CASE lastBlock[c] = None
      BY <1>0, <2>1, <2>2, <2>3, <3>1 DEF FromBlock, Max2, Minus
    <3>2. CASE lastBlock[c] # None
      <4>1. lastBlock[c] \in Nat
        BY <3>2 DEF WindowsInv
      <4>2. cur <= lastBlock[c]
        BY <1>0, <2>1, <2>2, <2>3, <3>2, <4>1 DEF FromBlock, Max2, Minus
      <4>3. o.block < lastBlock[o.chain] /\ lastBlock[o.chain] # None
        BY <1>0, <2>1, <2>3, <4>1, <4>2, <3>2
      <4> QED  BY <2>2, <4>3 DEF WindowsInv, PassedIsScanned
    <3> QED  BY <3>1, <3>2
  <2>4. PassedIsScanned'
    BY <1>0, <2>2, <2>3 DEF WindowsInv, PassedIsScanned
  <2> QED  BY <2>1, <2>2, <2>4 DEF WindowsInv
<1>3. ASSUME NEW c \in LogChains, NEW cur \in Heads(c), PollLogs(c, cur)  PROVE WindowsInv'
  <2>1. cur \in Nat
    BY <1>3 DEF Heads, WindowsInv
  <2>2. /\ lastBlock' = [lastBlock EXCEPT ![c] = cur + 1] /\ logs = {}
        /\ logs' = {o \in DlnOrders : o.chain = c /\ o.block \in FromBlock(c, cur)..cur}
        /\ skippedOver' = skippedOver \cup
             {o \in DlnOrders : o.chain = c /\ o.block < WindowFloor(c, cur)}
        /\ head' = head /\ logSeen' = logSeen
    BY <1>3 DEF PollLogs
  <2>3. FromBlock(c, cur) \in Nat
    <3>1. lastBlock[c] = None \/ lastBlock[c] \in Nat
      BY DEF WindowsInv
    <3> QED  BY <1>0, <2>1, <3>1 DEF FromBlock, Max2, Minus
  <2>4. ASSUME NEW o \in DlnOrders, o.chain = c, o.block < cur + 1
        PROVE  o \in logs' \/ o.name \in logSeen \/ o \in skippedOver'
    <3>1. CASE o.block < FromBlock(c, cur)
      BY <2>1, <2>2, <2>4, <3>1, BelowWindow
    <3>2. CASE ~(o.block < FromBlock(c, cur))
      BY <1>0, <2>1, <2>2, <2>3, <2>4, <3>2
    <3> QED  BY <3>1, <3>2
  <2>5. PassedIsScanned'
    BY <1>0, <2>2, <2>4 DEF WindowsInv, PassedIsScanned
  <2> QED  BY <2>1, <2>2, <2>5 DEF WindowsInv
<1>4. ASSUME PollLogsFails  PROVE WindowsInv'
  BY <1>4 DEF PollLogsFails, WindowsInv, PassedIsScanned
<1>5. ASSUME NEW o \in DlnOrders, TakeLog(o)  PROVE WindowsInv'
  BY <1>5 DEF TakeLog, SeenAfter, WindowsInv, PassedIsScanned
<1> QED  BY <1>1, <1>2, <1>3, <1>4, <1>5 DEF LogStep

LEMMA WindowsInvStep == WindowsInv /\ [Next]_vars => WindowsInv'
<1> SUFFICES ASSUME WindowsInv, [Next]_vars PROVE WindowsInv'
  OBVIOUS
<1>1. CASE FeedStep /\ UNCHANGED <<logVars, loopVars>>
  BY <1>1, WindowsKept
<1>2. CASE LogStep /\ UNCHANGED <<feedVars, loopVars>>
  BY <1>2, WindowsInvLogStep
<1>3. CASE MainLoop
  BY <1>3, WindowsKept DEF MainLoop, Discard, DiscardMayan, Dispatch, DispatchLifi
<1>4. CASE \E i \in LifiIntents : RetrySends(i)
  BY <1>4, WindowsKept DEF RetrySends
<1>5. CASE UNCHANGED vars
  BY <1>5, WindowsKept DEF vars
<1> QED  BY <1>1, <1>2, <1>3, <1>4, <1>5 DEF Next

(* The windows leave no block out, whatever heads the nodes report and     *)
(* whatever requests fail, but for the five batches the code names.        *)
THEOREM WindowsLeaveNoGap == Spec => []PassedIsScanned
<1>1. Init => WindowsInv
  BY LogPollerAssumption DEF Init, InitLogs, WindowsInv, PassedIsScanned
<1>2. WindowsInv => PassedIsScanned
  BY DEF WindowsInv
<1> QED  BY <1>1, <1>2, WindowsInvStep, PTL DEF Spec

-----------------------------------------------------------------------------
(* Types: what each channel and each bound of the feeds and the loop hold. *)

ChannelOK == intents \in Seq(AllIntents) /\ Len(intents) <= ChannelCap

LEMMA SendFits ==
  ASSUME ChannelOK, NEW i \in AllIntents, Send(i)
  PROVE  ChannelOK'
<1>1. intents' = Append(intents, i) /\ Len(intents) < ChannelCap
  BY DEF Send
<1> QED  BY <1>1, ChannelCapAssumption DEF ChannelOK

(* What a bounded channel still holds when its oldest entry has been taken *)
(* and when there was room for another.                                    *)
LEMMA BoundedQueue ==
  ASSUME NEW S, NEW cap \in Nat, NEW q \in Seq(S), Len(q) <= cap
  PROVE  /\ q # <<>> => Tail(q) \in Seq(S) /\ Len(Tail(q)) < cap /\ Head(q) \in S
         /\ \A x \in S : Len(q) < cap =>
              Append(q, x) \in Seq(S) /\ Len(Append(q, x)) <= cap
<1>1. ASSUME q # <<>>  PROVE Tail(q) \in Seq(S) /\ Len(Tail(q)) < cap /\ Head(q) \in S
  <2>1. Len(q) \in Nat /\ Len(q) > 0
    BY <1>1
  <2>2. Tail(q) \in Seq(S) /\ Len(Tail(q)) = Len(q) - 1 /\ Head(q) \in S
    BY <1>1, <2>1
  <2> QED  BY <2>1, <2>2
<1>2. ASSUME NEW x \in S, Len(q) < cap
      PROVE  Append(q, x) \in Seq(S) /\ Len(Append(q, x)) <= cap
  BY <1>2
<1> QED  BY <1>1, <1>2

LEMMA StreamTypes ==
  ASSUME TypeOKFeed, ChannelOK,
         Connect \/ LoseStream \/ \E ev \in GenomeEvents : Deliver(ev)
  PROVE  TypeOKFeed' /\ ChannelOK'
<1>1. UNCHANGED <<window, sse, inHand, acrossVars, deposits, intents>>
  BY DEF Connect, LoseStream, Deliver, consumerVars
<1>2. connected' \in BOOLEAN /\ events' \in 0..MaxEvents /\ breaks' \in 0..MaxBreaks
  <2>1. connected' \in BOOLEAN
    <3>1. connected' = TRUE \/ connected' = FALSE \/ connected' = connected
      BY DEF Connect, LoseStream, Deliver
    <3> QED  BY <3>1 DEF TypeOKFeed
  <2>2. \/ events' = events /\ (breaks' = breaks \/ (breaks < MaxBreaks /\ breaks' = breaks + 1))
        \/ breaks' = breaks /\ events < MaxEvents /\ events' = events + 1
    BY DEF Connect, LoseStream, Deliver
  <2>3. events' \in 0..MaxEvents /\ breaks' \in 0..MaxBreaks
    BY <2>2, FeedAssumption DEF TypeOKFeed
  <2> QED  BY <2>1, <2>3
<1>3. inner' \in Seq(SseIntents) /\ Len(inner') <= BufferCap
  <2>1. CASE inner' = inner
    BY <2>1 DEF TypeOKFeed
  <2>2. CASE \E ev \in GenomeEvents : /\ Actionable(ev) /\ Len(inner) < BufferCap
                                      /\ inner' = Append(inner, FromGenomeEvent(ev))
    <3>1. PICK i \in SseIntents : inner' = Append(inner, i) /\ Len(inner) < BufferCap
      BY <2>2 DEF SseIntents
    <3> QED  BY <3>1, FeedAssumption, BoundedQueue DEF TypeOKFeed
  <2>3. inner' = inner \/ \E ev \in GenomeEvents : /\ Actionable(ev) /\ Len(inner) < BufferCap
                                                   /\ inner' = Append(inner, FromGenomeEvent(ev))
    BY DEF Connect, LoseStream, Deliver, consumerVars
  <2> QED  BY <2>1, <2>2, <2>3
<1> QED  BY <1>1, <1>2, <1>3 DEF TypeOKFeed, ChannelOK, acrossVars

LEMMA ConsumeTypes == ASSUME TypeOKFeed, ChannelOK, Consume  PROVE TypeOKFeed' /\ ChannelOK'
<1> DEFINE intent == Head(inner)
           Ids == {i.id : i \in SseIntents}
<1>0. BufferCap \in Nat /\ DedupWindow \in Nat \ {0}
  BY FeedAssumption
<1>1. inner # <<>> /\ inner' = Tail(inner) /\ UNCHANGED <<streamVars, inHand, acrossVars, deposits, intents>>
  BY DEF Consume
<1>2. inner' \in Seq(SseIntents) /\ Len(inner') <= BufferCap /\ intent \in SseIntents
  <2>1. Tail(inner) \in Seq(SseIntents) /\ Len(Tail(inner)) < BufferCap /\ intent \in SseIntents
    BY <1>0, <1>1, BoundedQueue DEF TypeOKFeed
  <2> QED  BY <1>0, <1>1, <2>1
<1>3. intent.id \in Ids
  BY <1>2
<1> HIDE DEF intent
<1>4. window' \in Seq(Ids) /\ Len(window') <= DedupWindow
  <2>1. CASE window' = window
    BY <2>1 DEF TypeOKFeed
  <2>2. CASE window' = CheckAndInsert(intent.id)
    <3>1. window \in Seq(Ids) /\ Len(window) <= DedupWindow
      BY DEF TypeOKFeed
    <3> HIDE DEF Ids
    <3>2. CASE Len(window) >= DedupWindow
      <4>1. window # <<>>
        BY <1>0, <3>1, <3>2
      <4>2. Tail(window) \in Seq(Ids) /\ Len(Tail(window)) < DedupWindow
        BY <1>0, <3>1, <4>1, BoundedQueue
      <4>3. window' = Append(Tail(window), intent.id)
        BY <2>2, <3>2 DEF CheckAndInsert
      <4>4. Len(Tail(window)) <= DedupWindow
        BY <1>0, <4>2
      <4> QED  BY <1>0, <1>3, <4>2, <4>3, <4>4, BoundedQueue
    <3>3. CASE ~(Len(window) >= DedupWindow)
      <4>1. Len(window) < DedupWindow
        BY <1>0, <3>1, <3>3
      <4>2. window' = Append(window, intent.id)
        BY <2>2, <3>3 DEF CheckAndInsert
      <4> QED  BY <1>0, <1>3, <3>1, <4>1, <4>2, BoundedQueue
    <3> QED  BY <3>2, <3>3
  <2> QED  BY <2>1, <2>2 DEF Consume, intent
<1>5. sse' \in Seq(SseIntents) /\ Len(sse') <= BufferCap
  <2>1. CASE sse' = sse
    BY <2>1 DEF TypeOKFeed
  <2>2. CASE sse' = Append(sse, intent) /\ Len(sse) < BufferCap
    BY <1>0, <1>2, <2>2, BoundedQueue DEF TypeOKFeed
  <2> QED  BY <2>1, <2>2 DEF Consume, intent
<1> QED  BY <1>1, <1>2, <1>4, <1>5 DEF TypeOKFeed, ChannelOK, streamVars, acrossVars

LEMMA ForwardTypes ==
  ASSUME TypeOKFeed, ChannelOK, ForwardTake \/ ForwardSend
  PROVE  TypeOKFeed' /\ ChannelOK'
<1>0. BufferCap \in Nat
  BY FeedAssumption
<1>1. CASE ForwardTake
  <2>1. /\ sse # <<>> /\ inHand' = <<Head(sse)>> /\ sse' = Tail(sse)
        /\ UNCHANGED <<streamVars, inner, window, acrossVars, deposits, intents>>
    BY <1>1 DEF ForwardTake
  <2>2. Tail(sse) \in Seq(SseIntents) /\ Len(Tail(sse)) < BufferCap /\ Head(sse) \in SseIntents
    BY <1>0, <2>1, BoundedQueue DEF TypeOKFeed
  <2>3. sse' \in Seq(SseIntents) /\ Len(sse') <= BufferCap
    BY <1>0, <2>1, <2>2
  <2>4. inHand' \in Seq(SseIntents) /\ Len(inHand') <= 1
    BY <2>1, <2>2
  <2> QED  BY <2>1, <2>3, <2>4 DEF TypeOKFeed, ChannelOK, streamVars, acrossVars
<1>2. CASE ForwardSend
  <2>1. /\ inHand # <<>> /\ Send(Head(inHand)) /\ inHand' = <<>>
        /\ UNCHANGED <<streamVars, inner, window, sse, acrossVars, deposits>>
    BY <1>2 DEF ForwardSend
  <2>2. Head(inHand) \in AllIntents
    BY <2>1 DEF TypeOKFeed, AllIntents
  <2>3. ChannelOK'
    BY <2>1, <2>2, SendFits
  <2> QED  BY <2>1, <2>3 DEF TypeOKFeed, streamVars, acrossVars
<1> QED  BY <1>1, <1>2

LEMMA PollTypes ==
  ASSUME TypeOKFeed, ChannelOK, PollAcross \/ PollAcrossFails
  PROVE  TypeOKFeed' /\ ChannelOK'
<1>1. UNCHANGED <<acrossSeen, streamVars, consumerVars, deposits, intents>> /\ pollChain' = NextChain
  BY DEF PollAcross, PollAcrossFails
<1>2. pollChain' \in 1..Len(DstChains)
  <2>1. Len(DstChains) \in Nat \ {0} /\ pollChain \in Nat
    BY FeedAssumption DEF TypeOKFeed
  <2>2. pollChain % Len(DstChains) \in 0..(Len(DstChains) - 1)
    BY <2>1
  <2> QED  BY <1>1, <2>1, <2>2 DEF NextChain
<1>3. batch' \subseteq Deposits /\ apiErrors' \in 0..MaxApiErrors
  BY FeedAssumption DEF TypeOKFeed, PollAcross, PollAcrossFails
<1> QED  BY <1>1, <1>2, <1>3 DEF TypeOKFeed, ChannelOK, streamVars, consumerVars

LEMMA DepositTypes ==
  ASSUME TypeOKFeed, ChannelOK, NEW d \in Deposits, TakeDeposit(d) \/ Deposited(d) \/ TimePasses(d)
  PROVE  TypeOKFeed' /\ ChannelOK'
<1>1. CASE TakeDeposit(d)
  <2>1. /\ batch' = batch \ {d} /\ acrossSeen' = SeenAfterEviction \cup {d.dep}
        /\ UNCHANGED <<pollChain, apiErrors, streamVars, consumerVars, deposits>>
        /\ UNCHANGED intents \/ Send(AcrossIntent(d))
    BY <1>1 DEF TakeDeposit
  <2>2. AcrossIntent(d) \in AllIntents
    BY DEF AllIntents, AcrossIntents
  <2>3. ChannelOK'
    BY <2>1, <2>2, SendFits DEF ChannelOK
  <2>4. SeenAfterEviction \subseteq acrossSeen
    BY DEF SeenAfterEviction
  <2> QED  BY <2>1, <2>3, <2>4 DEF TypeOKFeed, streamVars, consumerVars
<1>2. CASE Deposited(d) \/ TimePasses(d)
  <2>1. UNCHANGED <<streamVars, consumerVars, acrossVars, intents>>
    BY <1>2 DEF Deposited, TimePasses
  <2>2. PICK s \in DepositStates : deposits' = [deposits EXCEPT ![d] = s]
    BY <1>2 DEF Deposited, TimePasses, DepositStates
  <2> QED  BY <2>1, <2>2 DEF TypeOKFeed, ChannelOK, streamVars, consumerVars, acrossVars
<1> QED  BY <1>1, <1>2

LEMMA LogTypes == ASSUME TypeOKLogs, ChannelOK, LogStep  PROVE TypeOKLogs' /\ ChannelOK'
<1>0. FirstHead \in Nat /\ MaxHead \in Nat /\ MaxLogErrors \in Nat
  BY LogPollerAssumption
<1>1. ASSUME NEW c \in LogChains, MakeBlock(c)  PROVE TypeOKLogs' /\ ChannelOK'
  <2>1. head' = [head EXCEPT ![c] = @ + 1] /\ head[c] < MaxHead
        /\ UNCHANGED <<lastBlock, logs, logSeen, skippedOver, logErrors, intents>>
    BY <1>1 DEF MakeBlock
  <2>2. head' \in [LogChains -> FirstHead..MaxHead]
    BY <1>0, <2>1 DEF TypeOKLogs
  <2> QED  BY <2>1, <2>2 DEF TypeOKLogs, ChannelOK
<1>2. ASSUME NEW c \in LogChains, NEW cur \in Heads(c), PollNothing(c, cur) \/ PollLogs(c, cur)
      PROVE  TypeOKLogs' /\ ChannelOK'
  <2>1. cur \in 0..(MaxHead + 1) /\ cur + 1 \in 0..(MaxHead + 1)
    <3>1. head[c] \in FirstHead..MaxHead
      BY DEF TypeOKLogs
    <3> QED  BY <1>0, <3>1 DEF Heads
  <2>2. /\ lastBlock' = [lastBlock EXCEPT ![c] = cur] \/ lastBlock' = [lastBlock EXCEPT ![c] = cur + 1]
        /\ logs' \subseteq logs \cup DlnOrders /\ skippedOver' \subseteq skippedOver \cup DlnOrders
        /\ UNCHANGED <<head, logSeen, logErrors, intents>>
    BY <1>2 DEF PollNothing, PollLogs
  <2>3. lastBlock' \in [LogChains -> 0..(MaxHead + 1) \cup {None}]
    BY <2>1, <2>2 DEF TypeOKLogs
  <2> QED  BY <2>2, <2>3 DEF TypeOKLogs, ChannelOK
<1>3. CASE PollLogsFails
  BY <1>0, <1>3 DEF PollLogsFails, TypeOKLogs, ChannelOK
<1>4. ASSUME NEW o \in DlnOrders, TakeLog(o)  PROVE TypeOKLogs' /\ ChannelOK'
  <2>1. /\ logs' = logs \ {o} /\ logSeen' = logSeen \cup {o.name}
        /\ UNCHANGED <<head, lastBlock, skippedOver, logErrors>>
        /\ UNCHANGED intents \/ Send(DlnIntent(o))
    BY <1>4 DEF TakeLog, SeenAfter
  <2>2. DlnIntent(o) \in AllIntents
    BY DEF AllIntents, DlnIntents
  <2>3. ChannelOK'
    BY <2>1, <2>2, SendFits DEF ChannelOK
  <2> QED  BY <2>1, <2>3 DEF TypeOKLogs
<1> QED  BY <1>1, <1>2, <1>3, <1>4 DEF LogStep

(* What the loop keeps: its retries are counted and fit, and nothing       *)
(* unacceptable is spawned.                                                *)
LoopOK ==
  /\ retryCount \in [{i.id : i \in LifiIntents} -> 0..MaxRetries]
  /\ sleeping \in [LifiIntents -> Nat]
  /\ retryQ \in Seq(LifiIntents) /\ Len(retryQ) <= RetryCap
  /\ \A n \in DOMAIN spawned : spawned[n].order \in Acceptable

LEMMA TypeOKIs == TypeOK <=> TypeOKFeed /\ TypeOKLogs /\ ChannelOK /\ LoopOK
BY DEF TypeOK, ChannelOK, LoopOK

LEMMA TakesTypes ==
  ASSUME ChannelOK, LoopOK, NEW i \in AllIntents, Takes(i)
  PROVE  ChannelOK' /\ retryQ' \in Seq(LifiIntents) /\ Len(retryQ') <= RetryCap
<1>0. RetryCap \in Nat /\ ChannelCap \in Nat
  BY DispatcherAssumption, ChannelCapAssumption
<1>1. CASE retryQ # <<>> /\ retryQ' = Tail(retryQ) /\ UNCHANGED intents
  <2>1. Tail(retryQ) \in Seq(LifiIntents) /\ Len(Tail(retryQ)) < RetryCap
    BY <1>0, <1>1, BoundedQueue DEF LoopOK
  <2> QED  BY <1>0, <1>1, <2>1 DEF ChannelOK
<1>2. CASE intents # <<>> /\ intents' = Tail(intents) /\ UNCHANGED retryQ
  <2>1. Tail(intents) \in Seq(AllIntents) /\ Len(Tail(intents)) < ChannelCap
    BY <1>0, <1>2, BoundedQueue DEF ChannelOK
  <2> QED  BY <1>0, <1>2, <2>1 DEF ChannelOK, LoopOK
<1> QED  BY <1>1, <1>2 DEF Takes

LEMMA SpawnTypes ==
  ASSUME KeysInv, LoopOK, NEW i, NEW child, NewIntent(i), SpawnFill(i, child)
  PROVE  \A n \in DOMAIN spawned' : spawned'[n].order \in Acceptable
<1> DEFINE task == Task(i, child)
<1>1. task.order \in Acceptable
  BY DEF Task, NewIntent, Filtered
<1>2. spawned' = Append(spawned, task) /\ spawned \in Seq(Tasks)
  BY DEF SpawnFill, KeysInv
<1> HIDE DEF task
<1>3. \A n \in DOMAIN spawned' :
        \/ n \in DOMAIN spawned /\ spawned'[n] = spawned[n]
        \/ n = Len(spawned) + 1 /\ spawned'[n] = task
  BY <1>2
<1> QED  BY <1>1, <1>3 DEF LoopOK

LEMMA LifiTypes ==
  ASSUME KeysInv, LoopOK, NEW i \in AllIntents, DispatchLifi(i)
  PROVE  /\ retryCount' \in [{j.id : j \in LifiIntents} -> 0..MaxRetries]
         /\ sleeping' \in [LifiIntents -> Nat]
         /\ \A n \in DOMAIN spawned' : spawned'[n].order \in Acceptable
<1> DEFINE Ids == {j.id : j \in LifiIntents}
           Typed == /\ retryCount' \in [Ids -> 0..MaxRetries]
                    /\ sleeping' \in [LifiIntents -> Nat]
                    /\ \A n \in DOMAIN spawned' : spawned'[n].order \in Acceptable
<1>0. i \in LifiIntents /\ i.id \in Ids /\ NewIntent(i) /\ MaxRetries \in Nat
  BY DispatcherAssumption DEF DispatchLifi, LifiIntents, Fresh
<1> HIDE DEF Ids
<1>1. retryCount \in [Ids -> 0..MaxRetries] /\ sleeping \in [LifiIntents -> Nat]
  BY DEF LoopOK, Ids
<1>2. ASSUME RejectLifi(i)  PROVE Typed
  BY <1>0, <1>1, <1>2 DEF RejectLifi, LoopOK
<1>3. ASSUME RetryLater(i)  PROVE Typed
  <2>1. CASE retryCount[i.id] < MaxRetries
    <3>1. retryCount' = [retryCount EXCEPT ![i.id] = @ + 1]
          /\ sleeping' = [sleeping EXCEPT ![i] = @ + 1] /\ spawned' = spawned
      BY <1>3, <2>1 DEF RetryLater
    <3> QED  BY <1>0, <1>1, <2>1, <3>1 DEF LoopOK
  <2>2. CASE ~(retryCount[i.id] < MaxRetries)
    <3>1. RejectLifi(i)
      BY <1>3, <2>2 DEF RetryLater
    <3> QED  BY <1>2, <3>1
  <2> QED  BY <2>1, <2>2
<1>4. ASSUME NEW child, SpawnFill(i, child), retryCount' = [retryCount EXCEPT ![i.id] = 0],
             UNCHANGED sleeping
      PROVE  Typed
  <2>1. \A n \in DOMAIN spawned' : spawned'[n].order \in Acceptable
    BY <1>0, <1>4, SpawnTypes
  <2>2. retryCount' \in [Ids -> 0..MaxRetries]
    BY <1>0, <1>1, <1>4
  <2> QED  BY <1>1, <1>4, <2>1, <2>2
<1>5. \/ RejectLifi(i) \/ RetryLater(i)
      \/ \E child : /\ SpawnFill(i, child) /\ UNCHANGED sleeping
                    /\ retryCount' = [retryCount EXCEPT ![i.id] = 0]
  BY DEF DispatchLifi
<1>6. Typed
  BY <1>2, <1>3, <1>4, <1>5
<1> QED  BY <1>6 DEF Ids

LEMMA TypeOKStep == KeysInv /\ TypeOK /\ [Next]_vars => TypeOK'
<1> SUFFICES ASSUME KeysInv, TypeOK, [Next]_vars  PROVE TypeOK'
  OBVIOUS
<1>0. TypeOKFeed /\ TypeOKLogs /\ ChannelOK /\ LoopOK
  BY TypeOKIs
<1> SUFFICES TypeOKFeed' /\ TypeOKLogs' /\ ChannelOK' /\ LoopOK'
  BY DEF TypeOK, ChannelOK, LoopOK
<1>f. ASSUME UNCHANGED feedVars  PROVE TypeOKFeed'
  BY <1>0, <1>f DEF TypeOKFeed, feedVars, streamVars, consumerVars, acrossVars
<1>l. ASSUME UNCHANGED logVars  PROVE TypeOKLogs'
  BY <1>0, <1>l DEF TypeOKLogs, logVars
<1>1. CASE FeedStep /\ UNCHANGED <<logVars, loopVars>>
  <2>1. TypeOKFeed' /\ ChannelOK'
    BY <1>0, <1>1, StreamTypes, ConsumeTypes, ForwardTypes, PollTypes, DepositTypes DEF FeedStep
  <2>2. LoopOK'
    BY <1>0, <1>1 DEF LoopOK, loopVars
  <2> QED  BY <1>1, <1>l, <2>1, <2>2
<1>2. CASE LogStep /\ UNCHANGED <<feedVars, loopVars>>
  <2>1. TypeOKLogs' /\ ChannelOK'
    BY <1>0, <1>2, LogTypes
  <2>2. LoopOK'
    BY <1>0, <1>2 DEF LoopOK, loopVars
  <2> QED  BY <1>2, <1>f, <2>1, <2>2
<1>3. CASE MainLoop
  <2> PICK i \in AllIntents : Discard(i) \/ DiscardMayan(i) \/ Dispatch(i) \/ DispatchLifi(i)
    BY <1>3 DEF MainLoop
  <2>1. Takes(i) /\ UNCHANGED <<feedVars, logVars>>
    BY DEF Discard, DiscardMayan, Dispatch, DispatchLifi, Fresh
  <2>2. ChannelOK' /\ retryQ' \in Seq(LifiIntents) /\ Len(retryQ') <= RetryCap
    BY <1>0, <2>1, TakesTypes
  <2>3. /\ retryCount' \in [{j.id : j \in LifiIntents} -> 0..MaxRetries]
        /\ sleeping' \in [LifiIntents -> Nat]
        /\ \A n \in DOMAIN spawned' : spawned'[n].order \in Acceptable
    <3>1. CASE Discard(i) \/ DiscardMayan(i)
      BY <1>0, <3>1 DEF Discard, DiscardMayan, LoopOK
    <3>2. CASE Dispatch(i)
      <4>1. NewIntent(i) /\ SpawnFill(i, {}) /\ UNCHANGED <<retryCount, sleeping>>
        BY <3>2 DEF Dispatch, Fresh
      <4>2. \A n \in DOMAIN spawned' : spawned'[n].order \in Acceptable
        BY <1>0, <4>1, SpawnTypes
      <4> QED  BY <1>0, <4>1, <4>2 DEF LoopOK
    <3>3. CASE DispatchLifi(i)
      BY <1>0, <3>3, LifiTypes
    <3> QED  BY <3>1, <3>2, <3>3
  <2> QED  BY <1>f, <1>l, <2>1, <2>2, <2>3 DEF LoopOK
<1>4. CASE \E i \in LifiIntents : RetrySends(i)
  <2> PICK i \in LifiIntents : RetrySends(i)
    BY <1>4
  <2>1. /\ sleeping[i] > 0 /\ Len(retryQ) < RetryCap
        /\ sleeping' = [sleeping EXCEPT ![i] = @ - 1] /\ retryQ' = Append(retryQ, i)
        /\ UNCHANGED <<retryCount, spawned, intents, feedVars, logVars>>
    BY DEF RetrySends
  <2>2. sleeping' \in [LifiIntents -> Nat]
    BY <1>0, <2>1 DEF LoopOK
  <2>3. retryQ' \in Seq(LifiIntents) /\ Len(retryQ') <= RetryCap
    BY <1>0, <2>1, DispatcherAssumption, BoundedQueue DEF LoopOK
  <2> QED  BY <1>0, <1>f, <1>l, <2>1, <2>2, <2>3 DEF LoopOK, ChannelOK
<1>5. CASE UNCHANGED vars
  BY <1>0, <1>5, <1>f, <1>l DEF vars, loopVars, LoopOK, ChannelOK
<1> QED  BY <1>1, <1>2, <1>3, <1>4, <1>5 DEF Next

(* Every channel stays within its capacity and holds intents a feed can    *)
(* make, the retries of an intent stay within their number, the consumer   *)
(* remembers no more ids than its window has, and no task is spawned for   *)
(* an order the filters drop.                                              *)
THEOREM DispatcherTypeCorrect == Spec => []TypeOK
<1>1. Init => KeysInv
  BY DEF Init, KeysInv, LaterKeyIsFresh
<1>2. Init => TypeOK
  <2> SUFFICES ASSUME Init  PROVE TypeOK
    OBVIOUS
  <2>1. TypeOKFeed
    <3>1. connected \in BOOLEAN
      BY DEF Init, InitFeed
    <3>2. /\ events = 0 /\ breaks = 0 /\ apiErrors = 0 /\ pollChain = 1
          /\ inner = <<>> /\ window = <<>> /\ sse = <<>> /\ inHand = <<>>
          /\ batch = {} /\ acrossSeen = {} /\ deposits = [d \in Deposits |-> "absent"]
      BY DEF Init, InitFeed
    <3>3. deposits \in [Deposits -> DepositStates]
      BY <3>2 DEF DepositStates
    <3> QED  BY <3>1, <3>2, <3>3, FeedAssumption DEF TypeOKFeed
  <2>2. TypeOKLogs
    BY LogPollerAssumption DEF Init, InitLogs, TypeOKLogs
  <2>3. ChannelOK /\ LoopOK
    BY DispatcherAssumption, ChannelCapAssumption DEF Init, ChannelOK, LoopOK
  <2> QED  BY <2>1, <2>2, <2>3, TypeOKIs
<1>3. KeysInv /\ TypeOK /\ [Next]_vars => (KeysInv /\ TypeOK)'
  BY KeysInvStep, TypeOKStep
<1> QED  BY <1>1, <1>2, <1>3, PTL DEF Spec
=============================================================================
