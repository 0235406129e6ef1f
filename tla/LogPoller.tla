------------------------------ MODULE LogPoller ------------------------------
(***************************************************************************)
(* DeBridgePoller: scans the logs of DlnSource for created orders, chain   *)
(* by chain, in windows of blocks that start where the last one ended.     *)
(*                                                                         *)
(* The chain's head grows; an RPC node may answer with an older head than  *)
(* it gave before (nodes behind a load balancer), or not at all.           *)
(***************************************************************************)
EXTENDS IntentChannel

CONSTANTS
  LogChains,       \* source chains polled
  DlnOrders,       \* created orders: [name, chain, block, dst, token]
  SolanaChain,     \* the one non-EVM destination there is a filler for
  NonEvmChains,    \* destinations debridge_non_evm_chain_name knows
  FillTokens,      \* is_supported_fill_token
  BlocksPerBatch,  \* 2000
  FirstHead,       \* head of every chain when the solver starts
  MaxHead,         \* bound: blocks made
  RpcLag,          \* how far an answer may lie behind the head
  MaxLogErrors     \* bound: requests without an answer

ASSUME LogPollerAssumption ==
  /\ BlocksPerBatch \in Nat \ {0} /\ FirstHead \in Nat /\ MaxHead \in Nat
  /\ RpcLag \in Nat /\ MaxLogErrors \in Nat /\ None \notin Nat
  /\ FirstHead <= MaxHead
  /\ SolanaChain \in NonEvmChains
  /\ \A o \in DlnOrders : o.chain \in LogChains /\ o.block \in Nat

VARIABLES
  head,         \* head of each chain
  lastBlock,    \* next block to scan on each chain, None before the first scan
  logs,         \* orders of the last answer still to be handled
  logSeen,      \* ids of orders taken from an answer
  skippedOver,  \* history: orders below the first window or five batches
  logErrors

logVars == <<head, lastBlock, logs, logSeen, skippedOver, logErrors>>

Max2(a, b) == IF a >= b THEN a ELSE b
Minus(a, b) == IF a >= b THEN a - b ELSE 0   \* saturating_sub

DlnIntent(o) ==
  [id |-> TxKey("debridge_dln", o.name), proto |-> "debridge_dln", dep |-> None,
   order |-> o.name, bridge |-> None, mayan |-> None, timed |-> FALSE,
   real |-> TRUE]

DlnIntents == {DlnIntent(o) : o \in DlnOrders}

\* Mutant: the last block scanned is taken for the one remembered.
FromBlockMutant(c, cur) ==
  Max2(IF lastBlock[c] = None THEN Minus(cur, BlocksPerBatch) ELSE lastBlock[c] + 1,
       Minus(cur, 5 * BlocksPerBatch))

(* The first block of the next window when the node reports head cur: the  *)
(* first window has one batch of blocks, none has more than five.          *)
FromBlock(c, cur) ==
  Max2(IF lastBlock[c] = None THEN Minus(cur, BlocksPerBatch) ELSE lastBlock[c],
       Minus(cur, 5 * BlocksPerBatch))

WindowFloor(c, cur) ==
  IF lastBlock[c] = None THEN FromBlock(c, cur) ELSE Minus(cur, 5 * BlocksPerBatch)

(* Orders that can be filled: on an EVM chain or Solana, and on an EVM     *)
(* chain only in a token there is inventory of.                            *)
FillableOrder(o) ==
  /\ o.dst \in NonEvmChains => o.dst = SolanaChain
  /\ o.dst # SolanaChain => o.token \in FillTokens

Heads(c) == {n \in 0..head[c] : n + RpcLag >= head[c]}

MakeBlock(c) ==
  /\ head[c] < MaxHead
  /\ head' = [head EXCEPT ![c] = @ + 1]
  /\ UNCHANGED <<lastBlock, logs, logSeen, skippedOver, logErrors, intents>>

(* A chain whose head has not moved past the last window. *)
PollNothing(c, cur) ==
  /\ logs = {} /\ FromBlock(c, cur) >= cur
  /\ lastBlock' = [lastBlock EXCEPT ![c] = cur]
  /\ UNCHANGED <<head, logs, logSeen, skippedOver, logErrors, intents>>

(* The window is scanned up to the head the node reports.                  *)
PollLogs(c, cur) ==
  /\ logs = {} /\ FromBlock(c, cur) < cur
  /\ lastBlock' = [lastBlock EXCEPT ![c] = cur + 1]
  /\ logs' = {o \in DlnOrders : o.chain = c /\ o.block \in FromBlock(c, cur)..cur}
  /\ skippedOver' = skippedOver \cup
       {o \in DlnOrders : o.chain = c /\ o.block < WindowFloor(c, cur)}
  /\ UNCHANGED <<head, logSeen, logErrors, intents>>

(* eth_blockNumber or eth_getLogs fails: the window is asked for again.    *)
PollLogsFails ==
  /\ logs = {} /\ logErrors < MaxLogErrors
  /\ logErrors' = logErrors + 1
  /\ UNCHANGED <<head, lastBlock, logs, logSeen, skippedOver, intents>>

SeenAfter(o) == logSeen \cup {o.name}

TakeLog(o) ==
  /\ o \in logs
  /\ logs' = logs \ {o}
  /\ logSeen' = SeenAfter(o)
  /\ IF o.name \notin logSeen /\ FillableOrder(o)
     THEN Send(DlnIntent(o))
     ELSE UNCHANGED intents
  /\ UNCHANGED <<head, lastBlock, skippedOver, logErrors>>

InitLogs ==
  /\ head = [c \in LogChains |-> FirstHead]
  /\ lastBlock = [c \in LogChains |-> None]
  /\ logs = {} /\ logSeen = {} /\ skippedOver = {}
  /\ logErrors = 0

LogStep ==
  \/ \E c \in LogChains :
       \/ MakeBlock(c)
       \/ \E cur \in Heads(c) : PollNothing(c, cur) \/ PollLogs(c, cur)
  \/ PollLogsFails
  \/ \E o \in DlnOrders : TakeLog(o)

TypeOKLogs ==
  /\ head \in [LogChains -> FirstHead..MaxHead]
  /\ lastBlock \in [LogChains -> 0..(MaxHead + 1) \cup {None}]
  /\ logs \subseteq DlnOrders
  /\ logSeen \subseteq {o.name : o \in DlnOrders}
  /\ skippedOver \subseteq DlnOrders
  /\ logErrors \in 0..MaxLogErrors

-----------------------------------------------------------------------------
(* Correctness of the scan. *)

(* An order in a block that the window has passed has been taken from an   *)
(* answer or is about to be, unless it is older than the first window or   *)
(* the scan had fallen more than five batches behind: windows that start   *)
(* where the last ended, an answer with an older head and failed requests  *)
(* leave no gap (DeBridgePoller::run).                                     *)
PassedIsScanned ==
  \A o \in DlnOrders :
    lastBlock[o.chain] # None /\ o.block < lastBlock[o.chain]
      => o \in logs \/ o.name \in logSeen \/ o \in skippedOver
=============================================================================
