------------------------------ MODULE MCServices ------------------------------
(***************************************************************************)
(* The components that share no state, side by side: a behaviour picks one *)
(* of them at the start and runs it, the others keep one initial state.    *)
(***************************************************************************)
EXTENDS MempoolMonitor, PermitGuard, ProfitCalc, T3rnSidecar, HandSurface,
        SiweHosting, DonutMath, AcrossFill, SessionSigner,
        ClaimSweep, SolanaFill, OrderFeeds,
        Naturals, Sequences, FiniteSets

VARIABLE focus     \* the component that runs

servicesVars == <<focus, monitorVars, permitVars, profitVars, sidecarVars, handVars,
                  hostVars, donutVars, acrossVars, signerVars, sweepVars, solanaVars, feedsVars>>

-----------------------------------------------------------------------------
(* Two pending fills of one order on two chains, and a transfer.           *)
TwoChains == [t \in PendingTxs |-> IF t = "t2" THEN "polygon" ELSE "base"]
OneOrder == [t \in PendingTxs |-> IF t = "t4" THEN "o2" ELSE "o1"]

(* Two ids of the file that share a normal form, as mayan_swift and        *)
(* mayanswift would.                                                       *)
SomeIds == {"mayan_swift", "mayanswift", "dln"}
SomeFees == [i \in SomeIds |-> CASE i = "mayan_swift" -> 2 [] i = "mayanswift" -> 4 [] OTHER -> 3]
NormalForm == [i \in SomeIds \cup {"MAYAN_SWIFT", "lifi"} |->
                 IF i \in {"mayan_swift", "MAYAN_SWIFT"} THEN "mayanswift" ELSE i]
FixedCosts == [c \in GasChains |-> IF c = 1 THEN 20 ELSE 2]

(* Intents of every adapter: one as it should be, and one for each way in  *)
(* which an amount, an address or a chain can spoil it.                    *)
IntentFields == {"deposit_id", "nonce", "order_id", "give_amount", "take_amount",
                 "output_amount", "amount", "depositor", "recipient", "src_token", "dst_token"}
SomePayloads ==
  LET slugs == {{"across"}, {"debridge", "dln"}, {"dln"}, {"mayan"}, {"lifi"}, {"orbiter"},
                {"stargate"}, {"cctp"}, {"relay"}}
      post(slug, dst, bad, dry) ==
        [intent |-> [slug |-> slug, src |-> 8453, dst |-> dst, token |-> "USDC", idTail |-> "number",
                     field |-> [f \in IntentFields |-> IF f = bad THEN "bad" ELSE "good"]],
         dryRun |-> dry]
  IN  {post(s, 10, "none", TRUE) : s \in {{"relay"}, {"stargate"}}}
        \cup {post(s, 42161, "none", TRUE) : s \in slugs}
        \cup {post(s, 42161, "recipient", TRUE) : s \in {{"across"}, {"orbiter"}}}
        \cup {post(s, 42161, "none", FALSE) : s \in {{"orbiter"}, {"cctp"}}}

SomeFiles == {[venues |-> {1}, default |-> NoVenue], [venues |-> {1, 2}, default |-> 2],
              [venues |-> {}, default |-> NoVenue]}

(* Two wallets whose first eight digits agree.                             *)
SolverIds == [w \in Wallets |-> "s1"]
SomeForms == [r \in Requests |->
  CASE r = "r1" -> [wallet |-> "w1", siwe |-> "full", sound |-> TRUE]
    [] r = "r2" -> [wallet |-> "w1", siwe |-> "full", sound |-> TRUE]
    [] OTHER    -> [wallet |-> "w2", siwe |-> "none", sound |-> FALSE]]

SomeInflows == {-5, 0, 99, 117, 5000}
(* Nothing, a part, more than all, a negative part, and no fraction at all. *)
SomeFractions == {[num |-> 0, den |-> 3], [num |-> 1, den |-> 3], [num |-> 2, den |-> 1],
                  [num |-> -1, den |-> 3], [num |-> 1, den |-> 0], Default}

(* What an event lacks, singly and as in a feed that carries only a hash;  *)
(* up to two facts about the deposit.                                      *)
SomeDeposits ==
  [lacks : {{f} : f \in RelayFields \cup {"tx"}} \cup
           {{}, {"output", "deadline", "exclusivity", "message"},
            {"id", "output", "deadline", "recipient"}, {"src_token", "dst_token", "output"}},
   facts : {{a, b} : a, b \in Facts} \cup {{}}, direct : BOOLEAN]

SomeCalls == [c \in Calls |->
  CASE c = "c1" -> [solana |-> FALSE, listed |-> TRUE, wired |-> FALSE, cost |-> 2]
    [] c = "c2" -> [solana |-> FALSE, listed |-> TRUE, wired |-> FALSE, cost |-> 1]
    [] c = "c3" -> [solana |-> TRUE, listed |-> TRUE, wired |-> FALSE, cost |-> 1]
    [] OTHER    -> [solana |-> TRUE, listed |-> FALSE, wired |-> TRUE, cost |-> 1]]

(* Two tokens on one chain, one that goes through the canonical bridge,    *)
(* and the token that pays for gas, whose chain may itself be the home.    *)
SomeRoute == <<[chain |-> "optimism", bridge |-> "across"], [chain |-> "optimism", bridge |-> "across"],
               [chain |-> "zksync", bridge |-> "zksync"], [chain |-> "arbitrum", bridge |-> "across"]>>
SomeBalances == {<<1, 1, 0, 3>>, <<1, 0, 1, 6>>}

(* Orders of every path, with one thing missing or none.                   *)
OrderFields == {"orderId", "takeAmount", "recipient", "mint", "trader", "state", "amount", "vault",
                "hash", "program", "sequence", "emitterChain", "small"}
SomeOrders ==
  {[slug |-> s, from |-> f, to |-> t, auction |-> a, good |-> OrderFields \ lacks] :
     s \in {{"flash", "mayan"}, {"mayan"}, {"debridge"}, {"ntt"}, {"across"}},
     f, t \in {"solana", "base"}, a \in {0, 2},
     lacks \in {{}, {"vault"}, {"hash", "vault"}, {"hash"}, {"trader", "recipient"}, {"sequence"}}}

(* Two orders on the socket, whose memory holds one; two swaps for a page  *)
(* of one; one of each that meet in the channel; and none at all.          *)
SomeCrowds == {{"d1", "d2"}, {"m1", "m2"}, {"d1", "m1"}, {"l1", "m1"}, {}}

-----------------------------------------------------------------------------
FirstOf(S) == CHOOSE x \in S : TRUE
OneMarket == <<CHOOSE r \in [IntelIds -> 1..2] : r["mayan_swift"] # r["mayanswift"],
               [c \in GasChains |-> FirstOf(GasLevels)]>>
OnePosting == <<FALSE, [n \in Posts |-> FirstOf(Payloads)]>>
OneDeposit == FirstOf(Deposits)
OneWallet == <<FirstOf(Homes), FirstOf(Balances), {}>>
OneFill == <<FirstOf(Orders), [dryRun |-> TRUE, key |-> FALSE]>>

Init ==
  /\ focus \in {"mempool", "permit", "profit", "sidecar", "hand", "hosting", "donut",
                "across", "signer", "sweep", "solana", "feeds"}
  /\ MonitorInit /\ PermitInit /\ HandInit /\ HostInit /\ SignerInit
  /\ ProfitInit  /\ (focus = "profit" \/ <<rank, market>> = OneMarket)
  /\ SidecarInit /\ (focus = "sidecar" \/ <<liveUnlocked, posted>> = OnePosting)
  /\ DonutInit   /\ (focus = "donut" \/ override = Default)
  /\ AcrossInit  /\ (focus = "across" \/ deposit = OneDeposit)
  /\ SweepInit   /\ (focus = "sweep" \/ <<home, bal, gas>> = OneWallet)
  /\ SolanaInit  /\ (focus = "solana" \/ <<order, setting>> = OneFill)
  /\ FeedsInit   /\ (focus = "feeds" \/ standing = [o \in FeedOrders |-> "closed"])

Runs(service, others) == focus = service /\ UNCHANGED <<focus, others>>

Next ==
  \/ /\ Runs("mempool", <<permitVars, profitVars, sidecarVars, handVars, hostVars,
                          donutVars, acrossVars, signerVars, sweepVars, solanaVars, feedsVars>>)
     /\ MonitorNext
  \/ /\ Runs("permit", <<monitorVars, profitVars, sidecarVars, handVars, hostVars,
                         donutVars, acrossVars, signerVars, sweepVars, solanaVars, feedsVars>>)
     /\ PermitNext
  \/ /\ Runs("profit", <<monitorVars, permitVars, sidecarVars, handVars, hostVars,
                         donutVars, acrossVars, signerVars, sweepVars, solanaVars, feedsVars>>)
     /\ ProfitNext
  \/ /\ Runs("sidecar", <<monitorVars, permitVars, profitVars, handVars, hostVars,
                          donutVars, acrossVars, signerVars, sweepVars, solanaVars, feedsVars>>)
     /\ SidecarNext
  \/ /\ Runs("hand", <<monitorVars, permitVars, profitVars, sidecarVars, hostVars,
                       donutVars, acrossVars, signerVars, sweepVars, solanaVars, feedsVars>>)
     /\ HandNext
  \/ /\ Runs("hosting", <<monitorVars, permitVars, profitVars, sidecarVars, handVars,
                          donutVars, acrossVars, signerVars, sweepVars, solanaVars, feedsVars>>)
     /\ HostNext
  \/ /\ Runs("donut", <<monitorVars, permitVars, profitVars, sidecarVars, handVars,
                        hostVars, acrossVars, signerVars, sweepVars, solanaVars, feedsVars>>)
     /\ DonutNext
  \/ /\ Runs("across", <<monitorVars, permitVars, profitVars, sidecarVars, handVars,
                         hostVars, donutVars, signerVars, sweepVars, solanaVars, feedsVars>>)
     /\ AcrossNext
  \/ /\ Runs("signer", <<monitorVars, permitVars, profitVars, sidecarVars, handVars,
                         hostVars, donutVars, acrossVars, sweepVars, solanaVars, feedsVars>>)
     /\ SignerNext
  \/ /\ Runs("sweep", <<monitorVars, permitVars, profitVars, sidecarVars, handVars,
                        hostVars, donutVars, acrossVars, signerVars, solanaVars, feedsVars>>)
     /\ SweepNext
  \/ /\ Runs("solana", <<monitorVars, permitVars, profitVars, sidecarVars, handVars,
                         hostVars, donutVars, acrossVars, signerVars, sweepVars, feedsVars>>)
     /\ SolanaNext
  \/ /\ Runs("feeds", <<monitorVars, permitVars, profitVars, sidecarVars, handVars,
                        hostVars, donutVars, acrossVars, signerVars, sweepVars, solanaVars>>)
     /\ FeedsNext

(* The handlers of the sidecar, the timer of the relay, the loop of the    *)
(* sweep and the tasks of the feeds keep running where they are started,   *)
(* gas that was bought arrives, and a sender that waits for room gets its  *)
(* turn: tokio hands permits out in the order of asking.                   *)
Fairness ==
  /\ \A n \in Posts : WF_sidecarVars(focus = "sidecar" /\ SidecarStep(n))
  /\ WF_handVars(focus = "hand" /\ RelayStep)
  /\ WF_sweepVars(focus = "sweep" /\ SweepStep)
  /\ WF_sweepVars(focus = "sweep" /\ GasLands)
  /\ WF_feedsVars(focus = "feeds" /\ SocketStep)
  /\ SF_feedsVars(focus = "feeds" /\ SocketSends)
  /\ WF_feedsVars(focus = "feeds" /\ SwapStep)
  /\ SF_feedsVars(focus = "feeds" /\ SwapSends)
  /\ WF_feedsVars(focus = "feeds" /\ CliStep)

Spec == Init /\ [][Next]_servicesVars /\ Fairness

TypeOK ==
  /\ MonitorTypeOK /\ PermitTypeOK /\ ProfitTypeOK /\ SidecarTypeOK /\ HandTypeOK
  /\ HostTypeOK /\ DonutTypeOK /\ AcrossTypeOK /\ SignerTypeOK
  /\ SweepTypeOK /\ SolanaTypeOK /\ FeedsTypeOK

=============================================================================
