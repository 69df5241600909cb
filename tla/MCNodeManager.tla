--------------------------- MODULE MCNodeManager ---------------------------
(* NodeWorkers for TLC: three nodes of two owners, one machine that has     *)
(* the keys of two of them, one with its own key, one block author.         *)
EXTENDS NodeWorkers

CONSTANTS n1, n2, n3, ann, bob, k1, k2, mac1, mac2

MCHashOrder == <<n2, n1, n3>>
MCLocalKeys == (mac1 :> {k1}) @@ (mac2 :> {k2})
MCCliNode   == (mac1 :> n1) @@ (mac2 :> None)
MCGenesis ==
  [max_batch_size |-> 1, reward_period |-> 4, heartbeat_period |-> 1,
   reward_amount |-> 5]
MCRegistrations ==
  {[node |-> n3, owner |-> ann, key |-> k2],
   [node |-> n1, owner |-> bob, key |-> k1]}
MCRemovals ==
  {[owner |-> ann, list |-> <<n1>>], [owner |-> bob, list |-> <<n2>>],
   [owner |-> ann, list |-> <<n1, n3>>], [owner |-> bob, list |-> <<n2, n2>>]}
MCSettings ==
  {[field |-> "RewardEnabled", value |-> FALSE],
   [field |-> "NodeRegistrar", value |-> bob],
   [field |-> "RewardAmount", value |-> 8],
   [field |-> "MaxBatchSize", value |-> 2],
   [field |-> "HeartbeatPeriod", value |-> 2],
   [field |-> "RewardPeriod", value |-> 2],
   [field |-> "MinUptimeThreshold", value |-> 10]}

\* A signature of the block before the change and one that is too old by then.
MCSignedRequests ==
  {[fn |-> "signed_register_node", block_number |-> b, node |-> n3, owner |-> ann,
    key |-> k2] : b \in {3, 4}}
  \cup {[fn |-> "signed_deregister_nodes", block_number |-> 4, owner |-> bob,
         list |-> <<n2>>]}

\* n1 and n2 registered by a runtime without OwnedNodesCount, the threshold set
\* and the rewards switched on.  Of four heartbeats a period, 10 percent is none.
MCInit ==
  \E threshold \in {10, 50} :
    InitWith(
      [do_register_node(do_register_node(NoNodes, n1, ann, k1), n2, bob, k2) EXCEPT
         !.OwnedNodesCount = NoNodes.OwnedNodesCount],
      3, ann, TRUE, threshold)

MCSpec == MCInit /\ [][Next]_vars
MCFairSpec ==
  /\ MCSpec
  /\ WF_vars(\E a \in Authors : trigger_payment_if_required(a))
  /\ SF_vars(Pays)
===========================================================================
