---------------------------- MODULE MCDispatcher ----------------------------
(***************************************************************************)
(* One Across order under three names: the poller's deposit 1, a genome    *)
(* event of the deposit (without its id) and a LiFi event.  Two LiFi       *)
(* events of one Mayan order, three DLN orders and a genome event nobody   *)
(* acts on.                                                                *)
(***************************************************************************)
EXTENDS Dispatcher

Event(proto, action, ref, dep, order, mayan) ==
  [entity |-> "proto", action |-> action, proto |-> proto, reference |-> ref,
   orderId |-> None, addrTx |-> None, synthetic |-> "syn", dep |-> dep,
   order |-> order, bridge |-> None, mayan |-> mayan, timed |-> FALSE,
   complete |-> TRUE]

DepositEvent == Event("across_v3", "deposit", "ta", None, "a", None)
LifiEvent == Event("lifi_v2", "deposit", "ma", 1, "a", None)
LifiMayanEvent == Event("lifi_v2", "placed", "mm", None, "m", None)
LifiMayanAgain == Event("lifi_v2", "executed", "mn", None, "m", "hm")
ExpiredEvent == Event("across_v3", "expired", "ta", None, "a", None)

AllEvents == {DepositEvent, LifiEvent, LifiMayanEvent, LifiMayanAgain, ExpiredEvent}
NoEvents == {}

(* Deposit 1 of order a, exclusive to another relayer at first.            *)
ExclusiveDeposit == {[dep |-> 1, order |-> "a", dst |-> 10, exclusive |-> "other"]}
NoDeposits == {}
OneChain == <<10>>

DlnOrder(name, block, dst, token) ==
  [name |-> name, chain |-> 42161, block |-> block, dst |-> dst, token |-> token]

NoOrders == {}
(* d and f can be filled; e goes to a chain there is no filler for.        *)
DlnOrdersMade ==
  {DlnOrder("d", 3, 10, "usdc"), DlnOrder("e", 4, 100000002, "usdc"),
   DlnOrder("f", 5, 100000001, "spl")}
NonEvm == {100000001, 100000002}

AllAcceptable == {"a", "m", "d", "f"}
QuestNames == [o \in {"a", "m"} |-> IF o = "a" THEN {"across", "hop"} ELSE {"mayan"}]
KnownSending == {"m"}
MayanOrders == [o \in {"a", "m"} |-> IF o = "m" THEN "hm" ELSE None]

(* For liveness, one feed is active in a behaviour: the feeds share only   *)
(* the channel, and the safety run interleaves them.                       *)
OneFeed ==
  Cardinality({feed \in {"sse", "across", "logs"} :
    \/ feed = "sse" /\ events > 0
    \/ feed = "across" /\ \E d \in Deposits : deposits[d] # "absent"
    \/ feed = "logs" /\ \E c \in LogChains : head[c] > FirstHead}) <= 1

LiveSpec == Init /\ [][Next /\ OneFeed']_vars /\ Fairness
=============================================================================
