--------------------------- MODULE NodeRegistry ---------------------------
(***************************************************************************)
(* The register of node-manager: which nodes exist, who owns them and      *)
(* which key they sign with.  The pallet keeps four storages that must     *)
(* agree: the map of nodes, the nodes of each owner, their number, and the *)
(* total.  NodeManager pays rewards from it; Watchtower decides from it    *)
(* who may vote, with what weight, and against which total.                *)
(***************************************************************************)
EXTENDS Integers, FiniteSets, Sequences, Functions

CONSTANTS
  Nodes,     \* node accounts
  Owners,    \* accounts that own nodes
  SignerIds  \* signing keys

NoNodes ==
  [NodeRegistry |-> << >>,
   OwnedNodes |-> {},
   OwnedNodesCount |-> [o \in Owners |-> 0],
   TotalRegisteredNodes |-> 0]

Registered(nodes) == DOMAIN nodes.NodeRegistry

NodeInfo(owner, signing_key) == [owner |-> owner, signing_key |-> signing_key]

\* The Ok value of do_register_node; its guard is can_register.
can_register(nodes, node) == node \notin Registered(nodes)

do_register_node(nodes, node, owner, signing_key) ==
  [NodeRegistry |->
     [n \in Registered(nodes) \cup {node} |->
        IF n = node THEN NodeInfo(owner, signing_key)
                    ELSE nodes.NodeRegistry[n]],
   OwnedNodes |-> nodes.OwnedNodes \cup {<<owner, node>>},
   OwnedNodesCount |-> [nodes.OwnedNodesCount EXCEPT ![owner] = @ + 1],
   TotalRegisteredNodes |-> nodes.TotalRegisteredNodes + 1]

\* u32::saturating_sub.
SatSub(x, y) == IF x < y THEN 0 ELSE x - y

\* A list with a node the owner does not own, or with a node twice, fails
\* as a whole: the call is rolled back.
can_deregister(nodes, owner, list) ==
  /\ \A i \in DOMAIN list : <<owner, list[i]>> \in nodes.OwnedNodes
  /\ IsInjective(list)

\* The loop over the list, whose nodes are distinct.
do_deregister_nodes(nodes, owner, list) ==
  [NodeRegistry |-> [n \in Registered(nodes) \ Range(list) |-> nodes.NodeRegistry[n]],
   OwnedNodes |-> nodes.OwnedNodes \ {<<owner, n>> : n \in Range(list)},
   OwnedNodesCount |-> [nodes.OwnedNodesCount EXCEPT ![owner] = SatSub(@, Len(list))],
   TotalRegisteredNodes |-> SatSub(nodes.TotalRegisteredNodes, Len(list))]

---------------------------------------------------------------------------
(* OwnedNodesUpgrade: version 4 of the storage adds OwnedNodesCount.        *)

\* Owners without a node get no entry; a map without an entry reads as zero.
populate_owned_nodes_count(nodes) ==
  [nodes EXCEPT !.OwnedNodesCount =
     [o \in Owners |->
        IF \E k \in nodes.OwnedNodes : k[1] = o
        THEN Cardinality({k \in nodes.OwnedNodes : k[1] = o}) ELSE @[o]]]

on_runtime_upgrade(nodes, onchain, current) ==
  IF onchain = 3 /\ current = 4 THEN populate_owned_nodes_count(nodes) ELSE nodes

---------------------------------------------------------------------------
(* RuntimeNodeManager, the runtime's view of the register.                 *)

is_authorized_watchtower(nodes, node) == node \in Registered(nodes)

is_watchtower_owner(nodes, who) ==
  \E node \in Nodes : <<who, node>> \in nodes.OwnedNodes

get_node_signing_key(nodes, node) == nodes.NodeRegistry[node].signing_key

get_watchtower_voting_weight(nodes, owner) == nodes.OwnedNodesCount[owner]

get_authorized_watchtowers_count(nodes) == nodes.TotalRegisteredNodes

\* The four storages tell the same story.
Consistent(nodes) ==
  /\ nodes.OwnedNodes =
       {<<nodes.NodeRegistry[n].owner, n>> : n \in Registered(nodes)}
  /\ nodes.TotalRegisteredNodes = Cardinality(Registered(nodes))
  /\ \A o \in Owners :
       nodes.OwnedNodesCount[o] =
         Cardinality({n \in Registered(nodes) : nodes.NodeRegistry[n].owner = o})
===========================================================================
