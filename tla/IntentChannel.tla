---------------------------- MODULE IntentChannel ----------------------------
(***************************************************************************)
(* The one bounded channel of intents (tokio mpsc, capacity 256) that the  *)
(* feeds fill and the main loop of solver-main empties.  A sender waits    *)
(* while the channel is full; the receiver takes the oldest intent.        *)
(***************************************************************************)
EXTENDS Naturals, Sequences

CONSTANTS ChannelCap, None

ASSUME ChannelCapAssumption == ChannelCap \in Nat \ {0}

VARIABLE intents

(* Sender::send, which completes when there is room. *)
Send(intent) ==
  /\ Len(intents) < ChannelCap
  /\ intents' = Append(intents, intent)

(* An id or a dedup key of an intent: "<proto>:<tx>" or "<proto>:dep:<n>". *)
TxKey(proto, tx) == <<proto, "tx", tx>>
DepKey(proto, dep) == <<proto, "dep", dep>>
=============================================================================
