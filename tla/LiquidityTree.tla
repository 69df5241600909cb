--------------------------- MODULE LiquidityTree ---------------------------
(***************************************************************************)
(* The liquidity tree of the neo-swaps pallet: the pool shares of the      *)
(* liquidity providers and the swap fees they are owed.  Fees enter at the *)
(* root as lazy fees and are carried towards a node only when the node is  *)
(* touched; an exited provider's node is abandoned and reused.             *)
(*                                                                         *)
(* A tree is [nodes, account_to_index, abandoned_nodes]: nodes is a        *)
(* function on 0..n-1 (the children of i are 2i+1 and 2i+2), the second a  *)
(* function from accounts to indices, the third a stack of indices.  An    *)
(* operation returns a tree, or NoTree where the code returns an error.    *)
(***************************************************************************)
EXTENDS FixedPoint, Sequences, FiniteSets, SequencesExt, FiniteSetsExt, Functions

CONSTANTS
  MaxLiquidityTreeDepth,  \* runtime/src/lib.rs
  NoOne                   \* the account of an abandoned node

ASSUME LiquidityTreeConstants == MaxLiquidityTreeDepth \in Nat

NoTree == [nodes |-> <<>>]
NoNode == -1

max_node_count == 2^(MaxLiquidityTreeDepth + 1) - 1

NewNode(account, stake) ==
  [account |-> account, stake |-> stake, fees |-> 0,
   descendant_stake |-> 0, lazy_fees |-> 0]

new(account, stake) ==
  [nodes            |-> [i \in {0} |-> NewNode(account, stake)],
   account_to_index |-> [a \in {account} |-> 0],
   abandoned_nodes  |-> <<>>]

total_stake(node) == node.stake + node.descendant_stake

is_weak_leaf(node) == node.descendant_stake = 0

node_count(t) == Cardinality(DOMAIN t.nodes)

parent_index(i) == (i - 1) \div 2

\* The nodes from the root down to i, i included.
path_to_node[i \in 0..(max_node_count - 1)] ==
  IF i = 0 THEN <<0>> ELSE Append(path_to_node[parent_index(i)], i)

\* The node abandoned last, and the tree's next free leaf; NoNode if there is none.
take_last_abandoned_node_index(t) ==
  IF t.abandoned_nodes = <<>> THEN NoNode ELSE Last(t.abandoned_nodes)

peek_next_free_leaf(t) == IF node_count(t) < max_node_count THEN node_count(t) ELSE NoNode

children(t, i) == {2*i + 1, 2*i + 2} \cap DOMAIN t.nodes

(* Mutant of propagate_fees: a weak leaf keeps its lazy fees as well. *)
propagate_fees_Keeps(t, i) ==
  LET node == t.nodes[i]
      down == bmul_bdiv(node.descendant_stake, node.lazy_fees, total_stake(node))
      l    == 2*i + 1
      lhs  == IF l \in children(t, i)
              THEN bmul_bdiv(total_stake(t.nodes[l]), down, node.descendant_stake)
              ELSE 0
  IN  IF total_stake(node) = 0 THEN t
      ELSE IF is_weak_leaf(node)
      THEN [t EXCEPT !.nodes[i].fees = @ + node.lazy_fees]
      ELSE [t EXCEPT !.nodes = [k \in DOMAIN @ |->
             CASE k = i -> [@[k] EXCEPT !.fees = @ + node.lazy_fees - down, !.lazy_fees = 0]
               [] k = l -> [@[k] EXCEPT !.lazy_fees = @ + lhs]
               [] k = l + 1 -> [@[k] EXCEPT !.lazy_fees = @ + down - lhs]
               [] OTHER -> @[k]]]

\* A node keeps its stake's part of its lazy fees and hands the rest to its
\* children, the right one getting what the left one's rounded part leaves.
propagate_fees(t, i) ==
  LET node == t.nodes[i]
      down == bmul_bdiv(node.descendant_stake, node.lazy_fees, total_stake(node))
      l    == 2*i + 1
      lhs  == IF l \in children(t, i)
              THEN bmul_bdiv(total_stake(t.nodes[l]), down, node.descendant_stake)
              ELSE 0
  IN  IF total_stake(node) = 0 THEN t
      ELSE IF is_weak_leaf(node)
      THEN [t EXCEPT !.nodes[i].fees = @ + node.lazy_fees, !.nodes[i].lazy_fees = 0]
      ELSE [t EXCEPT !.nodes = [k \in DOMAIN @ |->
             CASE k = i -> [@[k] EXCEPT !.fees = @ + node.lazy_fees - down, !.lazy_fees = 0]
               [] k = l -> [@[k] EXCEPT !.lazy_fees = @ + lhs]
               [] k = l + 1 -> [@[k] EXCEPT !.lazy_fees = @ + down - lhs]
               [] OTHER -> @[k]]]

propagate_fees_to_node(t, i) == FoldLeft(propagate_fees, t, path_to_node[i])

\* delta is added to, or taken from, every strict ancestor of i.
update_descendant_stake_of_ancestors(t, i, delta) ==
  LET up == IF i = 0 THEN {} ELSE Range(path_to_node[parent_index(i)])
  IN  [t EXCEPT !.nodes = [k \in DOMAIN @ |->
         IF k \in up THEN [@[k] EXCEPT !.descendant_stake = @ + delta] ELSE @[k]]]

deposit_fees(t, amount) == [t EXCEPT !.nodes[0].lazy_fees = @ + amount]

IsProvider(t, who) == who \in DOMAIN t.account_to_index

shares_of(t, who) == t.nodes[t.account_to_index[who]].stake

total_shares(t) == total_stake(t.nodes[0])

\* `withdraw_fees`: the amount, and the tree without it.
withdraw_fees(t, who) ==
  LET i == t.account_to_index[who]
      u == propagate_fees_to_node(t, i)
  IN  [amount |-> u.nodes[i].fees, tree |-> [u EXCEPT !.nodes[i].fees = 0]]

(* Mutant of join: a reused node's fees are not carried down before. *)
join_Unpropagated(t, who, stake) ==
  LET AddTo(u, i) == update_descendant_stake_of_ancestors(
                       [u EXCEPT !.account_to_index = [a \in DOMAIN @ \cup {who} |->
                          IF a = who THEN i ELSE @[a]]], i, stake)
      last == take_last_abandoned_node_index(t)
      n    == peek_next_free_leaf(t)
  IN  IF IsProvider(t, who)
      THEN LET i == t.account_to_index[who]
           IN  AddTo([t EXCEPT !.nodes[i].stake = @ + stake], i)
      ELSE IF last # NoNode
      THEN AddTo([t EXCEPT !.abandoned_nodes = Front(@),
             !.nodes[last] = [@ EXCEPT !.account = who, !.stake = stake,
                                       !.fees = 0, !.lazy_fees = 0]], last)
      ELSE IF n # NoNode
      THEN AddTo([t EXCEPT !.nodes = [k \in 0..n |->
             IF k = n THEN NewNode(who, stake) ELSE @[k]]], n)
      ELSE NoTree

\* The account's own node, else the node abandoned last, else a new leaf.
\* Fees are carried down first, so that new stake earns none of them.
join(t, who, stake) ==
  LET AddTo(u, i) == update_descendant_stake_of_ancestors(
                       [u EXCEPT !.account_to_index = [a \in DOMAIN @ \cup {who} |->
                          IF a = who THEN i ELSE @[a]]], i, stake)
      last == take_last_abandoned_node_index(t)
      n    == peek_next_free_leaf(t)
  IN  IF IsProvider(t, who)
      THEN LET i == t.account_to_index[who]
           IN  AddTo([propagate_fees_to_node(t, i) EXCEPT !.nodes[i].stake = @ + stake], i)
      ELSE IF last # NoNode
      THEN AddTo([propagate_fees_to_node(t, last) EXCEPT !.abandoned_nodes = Front(@),
             !.nodes[last] = [@ EXCEPT !.account = who, !.stake = stake,
                                       !.fees = 0, !.lazy_fees = 0]], last)
      ELSE IF n # NoNode
      THEN AddTo([propagate_fees_to_node(t, parent_index(n)) EXCEPT !.nodes =
             [k \in 0..n |-> IF k = n THEN NewNode(who, stake) ELSE @[k]]], n)
      ELSE NoTree

exit(t, who, stake) ==
  IF ~IsProvider(t, who) THEN NoTree
  ELSE LET i == t.account_to_index[who]
           u == propagate_fees_to_node(t, i)
           v == [u EXCEPT !.nodes[i].stake = @ - stake]
           w == IF v.nodes[i].stake # 0 THEN v
                ELSE [v EXCEPT !.nodes[i].account = NoOne,
                               !.abandoned_nodes = Append(@, i),
                               !.account_to_index = Restrict(@, DOMAIN @ \ {who})]
       IN  IF u.nodes[i].fees # 0 \/ u.nodes[i].stake < stake THEN NoTree
           ELSE update_descendant_stake_of_ancestors(w, i, -stake)

\* The fees the tree has taken in and not paid out.
FeesInTree(t) ==
  MapThenSumSet(LAMBDA i : t.nodes[i].fees + t.nodes[i].lazy_fees, DOMAIN t.nodes)

\* The strict descendants of a node that exist.
Descendants(t, i) ==
  {k \in DOMAIN t.nodes \ {i} : i \in Range(path_to_node[k])}
===========================================================================
