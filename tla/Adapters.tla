------------------------------- MODULE Adapters -------------------------------
(***************************************************************************)
(* protocol-adapters: which adapter takes an intent, which transaction it  *)
(* builds for it, and what executing and claiming it amount to.            *)
(*                                                                         *)
(* A protocol slug is the set of the fragments the code looks for in it.   *)
(* An intent says of each optional field whether it is good, bad (present  *)
(* and unreadable) or absent, and what its id ends in.                     *)
(***************************************************************************)
Fragments == {"across", "debridge", "dln", "mayan", "lifi", "li.fi", "orbiter",
              "stargate", "cctp", "circle_bridge", "circle_transfer", "relay",
              "relay_solana"}

(* The chains each adapter has a contract on.  The entry for Optimism in   *)
(* the tables of Stargate and Relay lacks a digit and reads as no address. *)
AcrossPools == {1, 10, 42161, 8453, 137, 59144, 324, 534352, 57073, 34443, 81457, 130,
                480, 1135, 1868, 100, 42220, 7777777, 5330, 1116, 288, 196, 4326, 43114}
DlnChains == {1, 10, 42161, 8453, 56, 43114, 59144, 137, 534352, 57073, 34443, 100,
              5000, 1329, 80094, 1088, 999, 60808, 4158, 250, 25, 146}
MayanChains == {1, 10, 42161, 8453, 137, 56, 43114, 130, 999, 59144}
Diamonds == {1, 10, 56, 137, 42161, 8453, 43114, 59144, 100, 324, 534352, 81457, 1101,
             5000, 250, 13371, 1666600000, 25, 1313161554, 480, 42220, 252, 30, 1284,
             1285, 1135, 196, 34443, 204, 1329, 42170, 288, 1625, 146}
LzEndpoints == {1, 10, 42161, 8453, 137, 56, 43114, 59144}
UsdcPools == {1, 42161, 8453, 137}
CctpDomains == {1, 43114, 10, 42161, 8453, 137}
RelayHubs == {1, 42161, 8453, 137}

(* AdapterFactory::get_adapter: the first test that succeeds, or no one.   *)
Adapter(slug) ==
  CASE "across" \in slug                          -> "across"
    [] "debridge" \in slug                        -> "debridge"
    [] "mayan" \in slug                           -> "mayan"
    [] slug \cap {"lifi", "li.fi"} # {}           -> "lifi"
    [] "orbiter" \in slug                         -> "orbiter"
    [] "stargate" \in slug                        -> "stargate"
    [] slug \cap {"cctp", "circle_bridge", "circle_transfer"} # {} -> "cctp"
    [] "relay" \in slug /\ "debridge" \notin slug -> "relay"
    [] OTHER                                      -> "none"

-----------------------------------------------------------------------------
Good(i, fields) == \A f \in fields : i.field[f] = "good"
NotBad(i, fields) == \A f \in fields : i.field[f] # "bad"

Addresses == {"depositor", "recipient", "src_token", "dst_token"}

(* extract_deposit_id, extract_order_nonce: the field, else the number the *)
(* id ends in; a hash there is refused.                                    *)
Numbered(i, field) == i.field[field] = "good" \/ (i.field[field] = "absent" /\ i.idTail = "number")

(* The contract estimate_gas asks the Spinner about; Orbiter asks nobody.  *)
HasContract(a, i) ==
  CASE a = "across"   -> i.dst \in AcrossPools
    [] a = "debridge" -> i.dst \in DlnChains
    [] a = "mayan"    -> i.dst \in MayanChains
    [] a = "lifi"     -> i.dst \in Diamonds
    [] a = "orbiter"  -> TRUE
    [] a = "stargate" -> i.src \in UsdcPools
    [] a = "cctp"     -> i.dst \in CctpDomains
    [] a = "relay"    -> i.dst \in RelayHubs

AsksSpinner(a, i) == a # "orbiter" /\ HasContract(a, i)

(* build_fill_tx of each adapter succeeds.                                 *)
BuildsAcross(i) ==
  /\ Good(i, Addresses \cup {"amount"})
  /\ NotBad(i, {"output_amount"}) /\ Numbered(i, "deposit_id")

BuildsDln(i) ==
  /\ Good(i, Addresses \cup {"amount"})
  /\ NotBad(i, {"give_amount", "take_amount", "order_id"}) /\ Numbered(i, "nonce")

BuildsOrbiter(i) == Good(i, {"recipient"}) /\ NotBad(i, {"output_amount"})

BuildsStargate(i) == i.dst \in LzEndpoints /\ Good(i, {"amount"})

BuildsCctp(i) == i.src \in CctpDomains

BuildsRelay(i) == Good(i, {"recipient", "amount"})

Builds(a, i) ==
  /\ HasContract(a, i)
  /\ CASE a = "across"   -> BuildsAcross(i)
       [] a = "debridge" -> BuildsDln(i)
       [] a = "orbiter"  -> BuildsOrbiter(i)
       [] a = "stargate" -> BuildsStargate(i)
       [] a = "cctp"     -> BuildsCctp(i)
       [] a = "relay"    -> BuildsRelay(i)
       [] OTHER          -> TRUE

(* execute_fill: a dry run succeeds, and no adapter can fill for real;     *)
(* CCTP asks for the attestation first.                                    *)
Executes(dryRun) == IF dryRun THEN "simulated" ELSE "error"
AsksAttestation(a, dryRun) == a = "cctp" /\ ~dryRun

=============================================================================
