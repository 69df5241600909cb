---------------------------- MODULE NodeWorkers ----------------------------
(***************************************************************************)
(* The off-chain workers of node-manager (offchain.rs), composed with the  *)
(* pallet.  A worker reads the state of the block it runs on, and writes   *)
(* only the local database of its machine and the transaction pool.        *)
(***************************************************************************)
EXTENDS NodeManager

CONSTANTS
  Registrars,      \* accounts that may be the registrar
  Relayer,         \* the relayer that signatures name
  SignedRequests   \* the signed registrations and removals that exist

\* submit_unsigned_transaction: the pool holds a transaction once.
Send(tx) == pool' = pool \cup {tx}

Heartbeats == {tx \in pool : tx.call = "heartbeat"}

\* Mutant of can_trigger_payment: a payment is continued and never begun.
can_trigger_payment_Continue == pointer # None

\* The block author's worker asks for the payment of the oldest period when
\* a payment is under way or a finished period is unpaid.
can_trigger_payment == pointer # None \/ oldest < period.current

\* Only whether the primary check errs is used, so every author sends.
try_get_node_author(m) == IF m \in Authors THEN m ELSE None

trigger_payment_if_required(m) ==
  /\ config.RewardEnabled
  /\ try_get_node_author(m) # None
  /\ can_trigger_payment
  /\ Send([call |-> "pay", index |-> oldest])
  /\ UNCHANGED <<now, chain, local, changes, past>>

match_node_id_to_signing_key(node, keys) ==
  /\ node \in Registered(nodes)
  /\ nodes.NodeRegistry[node].signing_key \in keys

\* The first registered node, in the order of the keys, that signs with a
\* local key.
search_node_id_by_signing_key(keys) ==
  LET found == SelectSeq(HashOrder, LAMBDA n : match_node_id_to_signing_key(n, keys))
  IN  IF found = << >> THEN None ELSE Head(found)

\* The node a machine stands for: the id of the command line, once taken
\* over, or the id in the database, or the one its keys give.
get_node_from_signing_key(m) ==
  LET stored == IF cli[m] # None THEN cli[m] ELSE nodeId[m]
  IN  IF stored # None /\ match_node_id_to_signing_key(stored, LocalKeys[m])
      THEN stored
      ELSE search_node_id_by_signing_key(LocalKeys[m])

record_formatted_node_id(m) ==
  LET found == get_node_from_signing_key(m)
  IN  /\ nodeId' = [nodeId EXCEPT ![m] =
            IF found # None THEN found ELSE IF cli[m] # None THEN cli[m] ELSE @]
      /\ cli' = [cli EXCEPT ![m] = None]

heartbeat_submission_in_progress(m, index, count) ==
  /\ <<index, count>> \in DOMAIN sent[m]
  /\ now <= sent[m][<<index, count>>] + BLOCK_INCLUSION_PERIOD

should_send_heartbeat(m, node, count) ==
  /\ ~ heartbeat_submission_in_progress(m, period.current, count)
  /\ node \in DOMAIN uptime[period.current] =>
       LET info == uptime[period.current][node]
       IN  /\ info.count < period.uptime_threshold
           /\ now >= info.last_reported + config.HeartbeatPeriod

record_heartbeat_ocw_submission(m, index, count) ==
  sent' = [sent EXCEPT ![m] =
    [k \in DOMAIN @ \cup {<<index, count>>} |->
       IF k = <<index, count>> THEN now ELSE @[k]]]

\* The worker of a machine that is no author.  The field `every` is history:
\* the heartbeat period that the worker went by.
send_heartbeat_if_required(m) ==
  LET node  == get_node_from_signing_key(m)
      index == period.current
      count == IF node \in DOMAIN uptime[index] THEN uptime[index][node].count ELSE 0
  IN  /\ now \in WorkerBlocks /\ Cardinality(Heartbeats) < MaxPool
      /\ config.RewardEnabled
      /\ record_formatted_node_id(m)
      /\ IF node # None /\ should_send_heartbeat(m, node, count)
         THEN /\ Send([call |-> "heartbeat", node |-> node, index |-> index,
                       key |-> nodes.NodeRegistry[node].signing_key,
                       count |-> count, fresh |-> TRUE,
                       every |-> config.HeartbeatPeriod])
              /\ record_heartbeat_ocw_submission(m, index, count)
         ELSE UNCHANGED <<sent, pool>>
      /\ UNCHANGED <<now, chain, changes, past>>

\* External: a transaction expires, is dropped from the pool, or is included
\* and fails.
Drop(tx) ==
  /\ pool' = pool \ {tx}
  /\ UNCHANGED <<now, chain, local, changes, past>>

Pays == \E tx \in pool : offchain_pay_nodes(tx)

Next ==
  \/ on_initialize
  \/ \E who \in Registrars, r \in Registrations : register_node(who, r.node, r.owner, r.key)
  \/ \E who \in Registrars, r \in Removals : deregister_nodes(who, r.owner, r.list)
  \/ \E who \in Registrars \cup {Relayer}, signer \in Registrars, r \in SignedRequests :
       LET proof == Sign(signer, Relayer, NodeManagerParam([relayer |-> Relayer], r))
       IN  \/ r.fn = "signed_register_node" /\ signed_register_node(who, proof, r)
           \/ r.fn = "signed_deregister_nodes" /\ signed_deregister_nodes(who, proof, r)
  \/ \E s \in Settings : set_admin_config(s.field, s.value)
  \/ \E m \in Authors \cup Machines : trigger_payment_if_required(m)
  \/ \E m \in Machines : send_heartbeat_if_required(m)
  \/ \E tx \in pool : offchain_submit_heartbeat(tx)
  \/ Pays
  \/ \E tx \in pool : Drop(tx)

Spec == Init /\ [][Next]_vars

\* The worker of an author runs on every block, and of the payment
\* transactions it keeps sending one is included in the end.
FairSpec ==
  /\ Spec
  /\ WF_vars(\E a \in Authors : trigger_payment_if_required(a))
  /\ SF_vars(Pays)

---------------------------------------------------------------------------
(* Properties.                                                             *)

\* What node n was paid for period p, in reference arithmetic: the nearest
\* integer to reward * capped heartbeats / all heartbeats of the period.
Nearest(amount, num, den) ==
  /\ 2 * num <= (2 * amount + 1) * den
  /\ 2 * num >= (2 * amount - 1) * den

AllBeats(p) == MapThenSumSet(LAMBDA n : beats[p][n], Nodes)

PaidIn(p) == MapThenSumSet(LAMBDA n : paid[p][n], Nodes)

\* offchain_pay_nodes, remove_paid_nodes and complete_reward_payout: across
\* batches, restarts of the worker and repeated transactions, every node
\* that reported in a period is settled exactly once, and a period is closed
\* only when all of its nodes are.
EachReporterIsSettledOnce ==
  \A p \in Periods :
    /\ \A n \in Nodes :
         /\ settled[p][n] # "twice"
         /\ (beats[p][n] > 0) <=>
              (n \in DOMAIN uptime[p] \/ settled[p][n] # "open")
         /\ ~ (n \in DOMAIN uptime[p] /\ settled[p][n] # "open")
    /\ p < oldest => DOMAIN uptime[p] = {}

\* calculate_reward and the RewardPot snapshot: a payment is the node's share
\* of the reward amount in force when its period ended, whatever root set and
\* whoever reported between two batches.
RewardsAreProportional ==
  \A p \in Periods : \A n \in Nodes :
    settled[p][n] = "paid" =>
      Nearest(paid[p][n],
              reward[p].amount * Min({beats[p][n], reward[p].threshold}),
              AllBeats(p))

\* offchain_pay_nodes checks the pot once, before the first batch: while a
\* payout is under way, what is left and what was paid still make up the
\* reward of the period.
PotLastsThePayout ==
  pointer # None => balance + PaidIn(oldest) >= reward[oldest].amount

\* should_send_heartbeat against validate_heartbeats: the worker's test
\* (block >= last + period) on one block and the chain's (block > last +
\* period) on a later one agree.  A heartbeat that waits in the pool is
\* accepted, unless its period is over, its node was removed or came back with
\* another key, another one took its count, or root changed the heartbeat period meanwhile.
HeartbeatsAreAccepted ==
  \A tx \in pool :
    ( /\ tx.call = "heartbeat" /\ ~ tx.fresh
      /\ tx.index = period.current
      /\ tx.node \in Registered(nodes)
      /\ tx.key = nodes.NodeRegistry[tx.node].signing_key
      /\ tx.every = config.HeartbeatPeriod
      /\ tx.count = beats[tx.index][tx.node] )
    => validate_heartbeats(tx.node, tx.index, tx.count)
         /\ offchain_signature_is_valid(tx)

\* do_register_node and do_deregister_nodes keep the four storages of the
\* register in agreement.
RegistryIsConsistent == Consistent(nodes)

\* Rewards of the oldest period that the pot cannot pay, rounding included.
PotIsShort ==
  /\ reward[oldest] # None
  /\ balance + PaidIn(oldest) < reward[oldest].amount + Cardinality(Nodes)

\* trigger_payment_if_required and offchain_pay_nodes: as long as rewards stay
\* enabled and the pot is filled, a finished period does not stay unpaid.
PeriodsArePaid ==
  (oldest < period.current)
    ~> (oldest = period.current \/ PotIsShort \/ ~ config.RewardEnabled)

\* The register and the uptime entries agree with what nodes did.
BooksAreConsistent == RegistryIsConsistent /\ EachReporterIsSettledOnce

\* A node is paid its share, and the pot lasts until all are paid.
RewardsAreFair == RewardsAreProportional /\ PotLastsThePayout
===========================================================================
