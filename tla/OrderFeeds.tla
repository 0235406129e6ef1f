------------------------------ MODULE OrderFeeds ------------------------------
(***************************************************************************)
(* taifoon-cli participate: a solver of one task.  It reads intents from a *)
(* channel one by one and fills each before it takes the next.  Of the     *)
(* feeds that write to the channel, two have only this reader: deBridge's  *)
(* web socket, which lists all open orders on connecting, and the poller   *)
(* of the Mayan explorer, which shows one page of the newest swaps.  The   *)
(* scan of logs and the genome stream are LogPoller and GenomeFeed; here   *)
(* they only send what they may.                                           *)
(***************************************************************************)
EXTENDS Naturals, Sequences, FiniteSets

CONSTANTS
  SocketOrders,     \* orders of deBridge
  SwapOrders,       \* orders of Mayan
  LifiOrders,       \* orders of LiFi, by way of the genome stream
  Fit,              \* orders to chains and in tokens the feeds let through
  WantedOrders,     \* orders of protocols the filter names, of an amount
  PageSize,         \* swaps on a page: 20
  SocketCap,        \* ids the socket remembers: 50 000
  SwapCap,          \* ids the poller remembers: 20 000
  QueueCap,         \* capacity of the channel: 100
  Crowds,           \* bound: sets of orders that appear together
  MaxDrops,         \* bound: connections lost
  NoOrder

\* A memory has room for the id that is read, also after it lost its half.
ASSUME RoomAssumption ==
  /\ SocketCap \in Nat \ {0} /\ SwapCap \in Nat \ {0, 1}
  /\ PageSize \in Nat /\ QueueCap \in Nat

FeedOrders == SocketOrders \cup SwapOrders \cup LifiOrders

VARIABLES
  standing,         \* order -> "new", "open" or "closed"
  board,            \* swaps the explorer knows, the newest last
  partial,          \* swaps whose record has gaps still
  link,             \* the socket: "down", "up", or "mute" when it hangs
  inbox,            \* orders on their way over the socket
  socketSeen, socketHand,
  page,             \* entries of the last answer still to be looked at
  swapSeen, swapHand,
  burned,           \* history: swaps looked at before their record was whole
  queue,            \* the channel
  filling,          \* the intent being filled
  begun,            \* dispatched
  drops

feedsVars == <<standing, board, partial, link, inbox, socketSeen, socketHand, page, swapSeen,
               swapHand, burned, queue, filling, begun, drops>>
socketVars == <<link, inbox, socketSeen, socketHand>>
swapVars == <<page, swapSeen, swapHand, burned>>
worldVars == <<standing, board, partial>>
cliVars == <<filling, begun>>

FeedsTypeOK ==
  /\ standing \in [FeedOrders -> {"new", "open", "closed"}]
  /\ board \in Seq(SwapOrders) /\ partial \cup burned \cup swapSeen \subseteq SwapOrders
  /\ link \in {"down", "up", "mute"} /\ inbox \cup socketSeen \subseteq SocketOrders
  /\ Cardinality(socketSeen) <= SocketCap /\ Cardinality(swapSeen) <= SwapCap
  /\ socketHand \in SocketOrders \cup {NoOrder} /\ swapHand \in SwapOrders \cup {NoOrder}
  /\ Len(page) <= PageSize /\ Len(queue) <= QueueCap
  /\ filling \in FeedOrders \cup {NoOrder} /\ begun \subseteq FeedOrders \cap WantedOrders

FeedsInit ==
  /\ \E c \in Crowds : standing = [o \in FeedOrders |-> IF o \in c THEN "new" ELSE "closed"]
  /\ board = <<>> /\ partial = {}
  /\ link = "down" /\ inbox = {} /\ socketSeen = {} /\ socketHand = NoOrder
  /\ page = <<>> /\ swapSeen = {} /\ swapHand = NoOrder /\ burned = {}
  /\ queue = <<>> /\ filling = NoOrder /\ begun = {} /\ drops = 0

IsOpen(o) == standing[o] = "open"

-----------------------------------------------------------------------------
(* The world. *)
OrderOpens(o) ==
  /\ standing[o] = "new" /\ standing' = [standing EXCEPT ![o] = "open"]
  /\ inbox' = IF o \in SocketOrders /\ link = "up" THEN inbox \cup {o} ELSE inbox
  /\ IF o \in SwapOrders
     THEN board' = Append(board, o) /\ partial' \in {partial, partial \cup {o}}
     ELSE UNCHANGED <<board, partial>>
  /\ UNCHANGED <<link, socketSeen, socketHand, swapVars, queue, cliVars, drops>>

OrderCloses(o) ==
  /\ IsOpen(o) /\ standing' = [standing EXCEPT ![o] = "closed"]
  /\ UNCHANGED <<board, partial, socketVars, swapVars, queue, cliVars, drops>>

RecordCompletes(o) ==
  /\ o \in partial /\ partial' = partial \ {o}
  /\ UNCHANGED <<standing, board, socketVars, swapVars, queue, cliVars, drops>>

Put(o) == Len(queue) < QueueCap /\ queue' = Append(queue, o)

(* DeBridgePoller sends the same intents as the socket; LiFi comes by the  *)
(* genome stream.                                                          *)
OtherFeed(o) ==
  /\ o \notin SwapOrders /\ IsOpen(o) /\ Put(o)
  /\ UNCHANGED <<worldVars, socketVars, swapVars, cliVars, drops>>

-----------------------------------------------------------------------------
(* DeBridgeWsPoller::run. *)
Loses(state) ==
  /\ link = "up" /\ drops < MaxDrops /\ drops' = drops + 1
  /\ link' = state /\ inbox' = {}
  /\ UNCHANGED <<worldVars, socketSeen, socketHand, swapVars, queue, cliVars>>

(* The stream ends or fails; or it only falls silent, for a peer that is   *)
(* gone.                                                                   *)
SocketDrops == Loses("down")
SocketHangs == Loses("mute")

(* Ninety seconds without a frame. *)
SocketTimesOut ==
  /\ link = "mute" /\ socketHand = NoOrder /\ link' = "down"
  /\ UNCHANGED <<worldVars, inbox, socketSeen, socketHand, swapVars, queue, cliVars, drops>>

\* Mutant: a subscription alone, to orders yet to come.
SocketConnectsMutant ==
  /\ link = "down" /\ socketHand = NoOrder /\ link' = "up"
  /\ UNCHANGED <<worldVars, inbox, socketSeen, socketHand, swapVars, queue, cliVars, drops>>

(* It subscribes and asks for the open orders. *)
SocketConnects ==
  /\ link = "down" /\ socketHand = NoOrder
  /\ link' = "up" /\ inbox' = {o \in SocketOrders : IsOpen(o)}
  /\ UNCHANGED <<worldVars, socketSeen, socketHand, swapVars, queue, cliVars, drops>>

(* parse_debridge_ws_message: a full memory is emptied, and an order is    *)
(* remembered whether or not it can be filled.                             *)
SocketReads(o) ==
  LET remembered == IF Cardinality(socketSeen) >= SocketCap THEN {} ELSE socketSeen IN
  /\ link = "up" /\ socketHand = NoOrder /\ o \in inbox
  /\ inbox' = inbox \ {o} /\ socketSeen' = remembered \cup {o}
  /\ socketHand' = IF o \in Fit \ remembered THEN o ELSE NoOrder
  /\ UNCHANGED <<worldVars, link, swapVars, queue, cliVars, drops>>

SocketSends ==
  /\ socketHand # NoOrder /\ Put(socketHand) /\ socketHand' = NoOrder
  /\ UNCHANGED <<worldVars, link, inbox, socketSeen, swapVars, cliVars, drops>>

-----------------------------------------------------------------------------
(* MayanPoller::run. *)
OnPage(n) == n > Len(board) - PageSize
AsShown(o) == [swap |-> o, created |-> IsOpen(o)]
ExplorerPage ==
  LET shown == IF Len(board) > PageSize THEN PageSize ELSE Len(board) IN
  [n \in 1..shown |-> AsShown(board[Len(board) - shown + n])]

PollSwaps ==
  /\ page = <<>> /\ swapHand = NoOrder
  /\ page' = ExplorerPage
  /\ UNCHANGED <<worldVars, socketVars, swapSeen, swapHand, burned, queue, cliVars, drops>>

(* A full memory loses one half of its ids, those that sort first.         *)
Forgotten ==
  IF Cardinality(swapSeen) < SwapCap THEN {{}}
  ELSE {gone \in SUBSET swapSeen : Cardinality(gone) = SwapCap \div 2}

(* fetch_mayan_order_params: what can be said of a swap at a first look.   *)
(* Parameters that cannot be read from its transaction are left empty, and *)
(* a gap in the record may leave it without the addresses that are         *)
(* required.                                                               *)
Looks(o) == {"bare", IF o \in partial THEN "gap" ELSE "whole"}

Listed(created) ==
  page # <<>> /\ swapHand = NoOrder /\ Head(page).created = created /\ page' = Tail(page)

(* Its status on the page is another than ORDER_CREATED.                   *)
SkipSwap ==
  /\ Listed(FALSE)
  /\ UNCHANGED <<worldVars, socketVars, swapSeen, swapHand, burned, queue, cliVars, drops>>

(* The swap is remembered before it is checked. *)
LookAtSwap ==
  /\ Listed(TRUE)
  /\ \E gone \in Forgotten, looks \in Looks(Head(page).swap) :
       LET o == Head(page).swap
           new == o \in Fit /\ o \notin swapSeen \ gone IN
       /\ swapSeen' = (swapSeen \ gone) \cup {o}
       /\ swapHand' = IF new /\ looks # "gap" THEN o ELSE NoOrder
       /\ burned' = IF new /\ looks # "whole" THEN burned \cup {o} ELSE burned
  /\ UNCHANGED <<worldVars, socketVars, queue, cliVars, drops>>

SwapSends ==
  /\ swapHand # NoOrder /\ Put(swapHand) /\ swapHand' = NoOrder
  /\ UNCHANGED <<worldVars, socketVars, page, swapSeen, burned, cliVars, drops>>

-----------------------------------------------------------------------------
(* participate: the loop.  A LiFi order that is not routable or not known  *)
(* yet is dropped; what it projects to has an id of its own.               *)
NextUp == queue # <<>> /\ filling = NoOrder /\ queue' = Tail(queue)

CliDrops ==
  /\ NextUp
  /\ \/ Head(queue) \notin WantedOrders
     \/ Head(queue) \in begun
     \/ Head(queue) \in LifiOrders
  /\ UNCHANGED <<worldVars, socketVars, swapVars, cliVars, drops>>

CliFills ==
  /\ NextUp /\ Head(queue) \in WantedOrders \ begun
  /\ begun' = begun \cup {Head(queue)} /\ filling' = Head(queue)
  /\ UNCHANGED <<worldVars, socketVars, swapVars, drops>>

(* lambda_execute has returned, whatever it says, and so has the claim of  *)
(* a deBridge fill.                                                        *)
CliDone ==
  /\ filling # NoOrder /\ filling' = NoOrder
  /\ UNCHANGED <<worldVars, socketVars, swapVars, queue, begun, drops>>

SocketStep == SocketConnects \/ SocketTimesOut \/ \E o \in SocketOrders : SocketReads(o)
SwapStep == PollSwaps \/ SkipSwap \/ LookAtSwap
CliStep == CliDrops \/ CliFills \/ CliDone

FeedsNext ==
  \/ \E o \in FeedOrders : OrderOpens(o) \/ OrderCloses(o) \/ OtherFeed(o)
  \/ \E o \in SwapOrders : RecordCompletes(o)
  \/ SocketStep \/ SocketDrops \/ SocketHangs \/ SocketSends
  \/ SwapStep \/ SwapSends
  \/ CliStep

-----------------------------------------------------------------------------
Begun(o) == o \in begun

(* It left the page before it could be looked at. *)
OffPage(o) == \E n \in DOMAIN board : board[n] = o /\ ~OnPage(n)

(* An order that can be filled and stays open is filled, though the        *)
(* connection drops or hangs, a memory overflows, the channel is full and  *)
(* a fill takes its time; a swap only if it was whole at the first look,   *)
(* and looked at in time (DeBridgeWsPoller, MayanPoller, participate).     *)
OpenIsTaken ==
  \A o \in (SocketOrders \cup SwapOrders) \cap Fit \cap WantedOrders :
    IsOpen(o) ~> ~IsOpen(o) \/ Begun(o) \/ OffPage(o) \/ o \in burned

=============================================================================
