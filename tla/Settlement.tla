----------------------------- MODULE Settlement -----------------------------
(***************************************************************************)
(* What the solver's two databases promise to whoever reads them about an  *)
(* order: they follow the chain.  On chain an order is filled by us or     *)
(* taken by another solver, and a filled one is claimed.  The wallet and   *)
(* the outcome log learn of it later and one after the other, neither is   *)
(* ever ahead of the chain, the log takes nothing back, and the wallet     *)
(* nothing it called paid.                                                 *)
(***************************************************************************)

CONSTANT Orders

VARIABLES
  order,         \* the order on chain: open, ours, taken or claimed
  wallet,        \* what the wallet says of it: silent, filled or paid
  log            \* what the outcome log says of it

vars == <<order, wallet, log>>

Init ==
  /\ order = [o \in Orders |-> "open"]
  /\ wallet = [o \in Orders |-> "silent"]
  /\ log = [o \in Orders |-> "silent"]

\* An order on chain goes one of two ways, and only one of them on.
ChainMoves(o) ==
  /\ \/ order[o] = "open" /\ \E s \in {"ours", "taken"} : order' = [order EXCEPT ![o] = s]
     \/ order[o] = "ours" /\ order' = [order EXCEPT ![o] = "claimed"]
  /\ UNCHANGED <<wallet, log>>

\* What may be said of an order.
Backed(o) ==
  {s \in {"silent", "filled", "paid"} :
     /\ s # "silent" => order[o] \in {"ours", "claimed"}
     /\ s = "paid" => order[o] = "claimed"}

\* A fill delivered once more is processed again and may be forgotten by the
\* wallet; a payment is not.
WalletSays(o) ==
  /\ wallet[o] # "paid"
  /\ \E s \in Backed(o) : wallet' = [wallet EXCEPT ![o] = s]
  /\ UNCHANGED <<order, log>>

LogSays(o) ==
  /\ log[o] # "paid"
  /\ \E s \in Backed(o) \ {"silent"} : log' = [log EXCEPT ![o] = s]
  /\ UNCHANGED <<order, wallet>>

Next == \E o \in Orders : ChainMoves(o) \/ WalletSays(o) \/ LogSays(o)

Spec == Init /\ [][Next]_vars
=============================================================================
