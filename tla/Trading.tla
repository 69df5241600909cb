------------------------------ MODULE Trading ------------------------------
(***************************************************************************)
(* Trading a market: complete sets, the order book, the automated market   *)
(* maker and the hybrid router over one ledger.  Every extrinsic runs      *)
(* alone, in its own storage transaction; the hazards are in the order of  *)
(* the calls and in what one call leaves for the others.                   *)
(***************************************************************************)
EXTENDS HybridRouter

CONSTANTS
  MinCategories, MaxCategories,  \* runtime/src/lib.rs
  Endowment,   \* the base asset every user starts with
  Openings     \* [sets, deploy, orders, ...]: what has happened before, or None

vars == <<store, calls, untrue>>

\* Nothing but the users' base assets.
EmptyStore ==
  LET Nothing == [a \in Assets |-> [who \in Accounts |-> 0]]
  IN  [free |-> [Nothing EXCEPT ![Base] =
                   [who \in Accounts |-> IF who \in Users THEN Endowment ELSE 0]],
       reserved |-> Nothing, status |-> None, outcome |-> None,
       providers |-> {}, orders |-> <<>>, next |-> 1, pool |-> NoPools.pool, soft |-> 0,
       accounts |-> [winnings |-> None, swap |-> None, exit |-> NoPools.EarlyExitFeeAccount],
       swapFee |-> NoPools.AdditionalSwapFee]

ensure_market_type_is_valid ==
  IF Scalar THEN Low < High ELSE Cardinality(Outcomes) \in MinCategories .. MaxCategories

\* The market comes into being, in detail in module PredictionMarkets.
do_create_market(s) ==
  IF s.status # None \/ ~ensure_market_type_is_valid THEN Hard(s)
  ELSE Ok([s EXCEPT !.status = "Active"])

do_create_market_and_deploy_pool(s, who, d, swap_fee) ==
  Then(Then(do_create_market(s), LAMBDA t : do_buy_complete_set(t, who, d.amount)),
       LAMBDA t : DeployPool(t, who, d, swap_fee))

create_market_and_deploy_pool ==
  \E who \in Traders, d \in Deployments, fee \in DeployFees :
    Transaction("create_market_and_deploy_pool",
                do_create_market_and_deploy_pool(store, who, d, fee))

\* The store after calls that an instance takes as made: every user has bought
\* sets, the admin has made the settings, a pool is deployed, orders are placed.
Opened(o) ==
  LET sets   == FoldSet(LAMBDA who, r : Then(r, LAMBDA t : do_buy_complete_set(t, who, o.sets)),
                        do_create_market(EmptyStore), Users)
      admin  == Then(sets, LAMBDA t :
                  Ok([t EXCEPT !.accounts = o.accounts, !.swapFee = o.swapFee]))
      pool   == Then(admin, LAMBDA t :
                  IF o.deploy = None THEN Ok(t)
                  ELSE do_deploy_pool(t, o.deploy.who, o.deploy.d, o.deploy.fee))
  IN  IF o = None THEN Ok(EmptyStore)
      ELSE FoldLeft(LAMBDA r, x : Then(r, LAMBDA t :
                      do_place_order(t, x.who, x.give, x.amount, x.get, x.asked)),
                    pool, o.orders)

Init ==
  /\ \E o \in Openings : Opened(o).err = "none" /\ store = Opened(o).s
  /\ calls = 0
  /\ untrue = {}

OtherCalls ==
  \/ create_market_and_deploy_pool
  \/ buy_complete_set \/ sell_complete_set \/ redeem_shares
  \/ set_winnings_fee_account \/ set_additional_swap_fee_account
  \/ set_early_exit_fee_account \/ set_additional_swap_fee
  \/ Close \/ Resolve
  \/ remove_order \/ fill_order \/ place_order
  \/ buy \/ sell \/ join_pool \/ exit_pool \/ withdraw_pool_fees \/ deploy_pool
  \/ signed_join \/ signed_withdraw_fees \/ signed_exit

Next ==
  \/ router_buy \/ router_sell
  \/ OtherCalls /\ untrue' = {}

Spec == Init /\ [][Next]_vars
---------------------------------------------------------------------------
(* Properties *)

OrdersOf(s, a, who) ==
  {id \in OrderIds(s) : s.orders[id].maker = who /\ s.orders[id].maker_asset = a}

\* What the shares held by everybody pay, added up, never exceeds what the
\* market's account holds, before the resolution whatever its outcome will be
\* and after it in whatever order the shares are redeemed (do_buy_complete_set,
\* do_sell_complete_set, do_redeem).
SharesAreBacked ==
  LET Owed(s) == MapThenSumSet(LAMBDA a : MapThenSumSet(LAMBDA who :
                   Payout(s, a, Held(s, a, who)), Accounts), Outcomes)
  IN  IF store.status = "Resolved" THEN Owed(store) <= store.free[Base][Market]
      ELSE \A o \in Reports : Owed([store EXCEPT !.outcome = o]) <= store.free[Base][Market]

\* What makers offer is reserved (do_place_order, do_fill_order), as long as no
\* failed fill was handled by the router after its transfers.
OrdersAreBacked ==
  store.soft = 0 =>
    \A a \in Assets, who \in Users :
      store.reserved[a][who]
        = MapThenSumSet(LAMBDA id : store.orders[id].maker_amount, OrdersOf(store, a, who))

\* The same without the proviso: a fill that rounds down always finds the
\* maker's reserve sufficient, as get_taker_fill says of itself.
ReserveIsAlwaysEnough ==
  \A a \in Assets, who \in Users :
    store.reserved[a][who]
      >= MapThenSumSet(LAMBDA id : store.orders[id].maker_amount, OrdersOf(store, a, who))

\* What is left of a partly filled order is worth no less to its maker than
\* the price the order was placed with (get_taker_fill rounds for the maker).
MakersKeepTheirPrice ==
  \A id \in OrderIds(store) :
    LET o == store.orders[id]
    IN  o.maker_amount * o.asked >= o.taker_amount * o.offered

\* What the event of a trade through the router tells is what happened to its
\* caller: they paid no more than the amount in, the limit order placed for the
\* rest included (but for the dust of an account left nearly empty), and got the
\* amount out, unless they filled an order of their own (do_trade,
\* get_event_info), as long as no failed fill was handled after its transfers.
TradesAreAsReported == store.soft = 0 => untrue = {}

\* The pool's account holds its reserves, and in the base asset the fees owed
\* to the liquidity providers on top of the existential deposit it was opened
\* with (do_buy, do_sell, do_join, do_exit, do_withdraw_fees).
PoolIsFunded ==
  store.soft = 0 /\ store.pool # None =>
    /\ \A a \in Outcomes : store.free[a][PoolAccount] = store.pool.reserves[a]
    /\ store.free[Base][PoolAccount]
         = ExistentialDeposits[Base] + FeesInTree(store.pool.tree)

\* The tree's sums are those of its nodes: the descendant stake of a node is
\* the stake below it, every provider has one node, an abandoned node has no
\* stake and no fees of its own and waits on the stack once.
TreeIsConsistent ==
  store.pool # None =>
    LET t == store.pool.tree
        abandoned == {i \in DOMAIN t.nodes : t.nodes[i].account = NoOne}
    IN  /\ \A i \in DOMAIN t.nodes :
             t.nodes[i].descendant_stake
               = MapThenSumSet(LAMBDA k : t.nodes[k].stake, Descendants(t, i))
        /\ \A who \in DOMAIN t.account_to_index :
             t.nodes[t.account_to_index[who]].account = who
        /\ Cardinality(DOMAIN t.account_to_index) + Cardinality(abandoned) = node_count(t)
        /\ abandoned = Range(t.abandoned_nodes)
        /\ Len(t.abandoned_nodes) = Cardinality(abandoned)
        /\ \A i \in abandoned : t.nodes[i].stake = 0 /\ t.nodes[i].fees = 0

\* The fees a provider would get now.
Claim(t, who) == IF IsProvider(t, who) THEN withdraw_fees(t, who).amount ELSE 0

\* Joining and leaving move no fees: as long as none are added or paid out,
\* every provider's claim stays what it was, and a newcomer has none (join and
\* exit carry fees down before they change a stake).
ClaimsAreStable ==
  [][ store.pool # None /\ store'.pool # None =>
        LET t == store.pool.tree
            u == store'.pool.tree
        IN  FeesInTree(t) = FeesInTree(u) =>
              \A who \in DOMAIN u.account_to_index : Claim(u, who) = Claim(t, who) ]_vars

\* The providers who stay are never diluted: when pool shares are issued or
\* given back, every reserve per share stays or grows (do_join rounds what is
\* paid in up, do_exit what is paid out down).
SharesAreNotDiluted ==
  [][ store.pool # None /\ store'.pool # None =>
        LET before == total_shares(store.pool.tree)
            after  == total_shares(store'.pool.tree)
        IN  before # after =>
              \A a \in Outcomes :
                store'.pool.reserves[a] * before >= store.pool.reserves[a] * after ]_vars

\* What a maker offers is reserved, and what is left of a partly filled order
\* keeps its price.
MakersAreSafe == OrdersAreBacked /\ MakersKeepTheirPrice

\* The pool's account holds what the pool and its liquidity tree say it does.
PoolIsSound == PoolIsFunded /\ TreeIsConsistent
===========================================================================
