---------------------------- MODULE NodeServices ----------------------------
(***************************************************************************)
(* The services a node offers to its off-chain workers and over RPC: the   *)
(* roots of block ranges on every node, and one node's sender of Ethereum  *)
(* transactions.                                                           *)
(***************************************************************************)
EXTENDS RootService, EthSender

vars == <<node, answers, service, lock, eth, replied, told, restarts>>

Init == RootInit /\ SenderInit

\* bound: the two services share nothing, so a behaviour exercises one of them.
Next ==
  \/ \E n \in Nodes : RootNext(n) /\ SenderInit /\ UNCHANGED senderVars
  \/ SenderNext /\ RootInit /\ UNCHANGED <<node, answers>>

Spec == Init /\ [][Next]_vars

\* Every node answers a range with the root of the final chain, whenever it is
\* asked, from its cache or from its blocks, and although the blocks it sees
\* change until they are final: two watchtowers that recompute a root agree.
RootsAreFinal == \A a \in answers : a[2] = FinalRoot(a[1])

\* The path generate_merkle_path gives for a leaf leads from the leaf to the
\* root of the same leaves, for every leaf a request has collected so far.
PathsLeadToTheRoot ==
  \A n \in Nodes :
    node[n].job # NoJob =>
      LET leaves == node[n].job.leaves \o node[n].job.block
      IN  \A i \in DOMAIN leaves :
            RootFromPath(leaves[i], generate_merkle_path(leaves[i], leaves))
              = generate_tree_root(leaves)

\* A root is the one of the final chain, and the paths of its leaves prove it.
RootsAreRight == RootsAreFinal /\ PathsLeadToTheRoot
=============================================================================
