---------------------------- MODULE MCRebalancer ----------------------------
(* Two fill chains and one chain deposits come from, one manual trigger.   *)
EXTENDS Rebalancer

CONSTANTS base, arb, poly, t1

TargetOrder == <<base, arb, poly>>
OneTrigger == {t1}
Fills == {base, arb}
Mins == [c \in {base, arb, poly} |-> IF c = poly THEN 0 ELSE 2]
Aims == [c \in {base, arb, poly} |-> IF c = poly THEN 0 ELSE 4]
Highs == [c \in {base, arb, poly} |-> IF c = poly THEN 1 ELSE 5]
Listed == ({base, arb, poly} \X {"prim", "sec"}) \ {<<poly, "sec">>}
Direct1 == <<arb>>

Funds(p, s, g, w) == [prim |-> p, sec |-> s, gas |-> g, weth |-> w]

(* A poor arb and a rich base; stables stuck on poly; gas short everywhere. *)
SomeWallets ==
  { [c \in {base, arb, poly} |->
       CASE c = base -> Funds(6, 0, 2, 0) [] c = arb -> Funds(0, 0, 1, 0) [] OTHER -> Funds(0, 2, 0, 0)],
    [c \in {base, arb, poly} |->
       CASE c = base -> Funds(1, 2, 1, 0) [] c = arb -> Funds(6, 0, 2, 1) [] OTHER -> Funds(0, 0, 3, 0)],
    [c \in {base, arb, poly} |->
       CASE c = base -> Funds(4, 0, 1, 1) [] c = arb -> Funds(2, 0, 2, 0) [] OTHER -> Funds(0, 0, 2, 0)] }

(* A poor arb beside a home chain with just enough, and one whose richest   *)
(* chain is home in both tokens.                                           *)
PoorArb == {[c \in {base, arb, poly} |->
  CASE c = base -> Funds(4, 0, 2, 0) [] c = arb -> Funds(1, 0, 1, 0) [] OTHER -> Funds(0, 1, 0, 0)],
  [c \in {base, arb, poly} |->
  CASE c = base -> Funds(3, 3, 2, 0) [] c = arb -> Funds(0, 0, 2, 0) [] OTHER -> Funds(0, 0, 1, 0)]}

NoLoss == {{}}
Unreachable == {{}, {"prim", "sec", "gas", "weth"}}
=============================================================================
