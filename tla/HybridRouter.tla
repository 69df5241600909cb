---------------------------- MODULE HybridRouter ----------------------------
(***************************************************************************)
(* The hybrid router: one call fills a trade from the orders the caller    *)
(* names and from the pool, whichever is cheaper first, and places what is *)
(* left as a limit order.  It handles the soft failures of the two other   *)
(* pallets inside its own storage transaction, so what they had written    *)
(* before they failed stays.                                               *)
(*                                                                         *)
(* A trade in progress is [err, s, remaining, orderTrades, ammTrades]; the *)
(* router adds up the amounts and fees of its trades for its event.        *)
(***************************************************************************)
EXTENDS OrderBook, NeoSwaps

CONSTANTS
  MaxOrders,       \* runtime/src/lib.rs
  PriceLimits,     \* price limits a caller may name
  TradeAmounts,    \* amounts a caller may trade
  OrderLists,      \* the lists of orders a caller may name
  Strategies       \* "ImmediateOrCancel" only fails more often than "LimitOrder"

VARIABLE untrue    \* history: what the event of the last trade told wrong

AssetIn(tx, asset)  == IF tx = "Buy" THEN Base ELSE asset
AssetOut(tx, asset) == IF tx = "Buy" THEN asset ELSE Base

\* A trade that starts on the store s with an amount to trade.
OrderAmmTradesInfo(s, amount_in) ==
  [err |-> "none", s |-> s, remaining |-> amount_in, placed |-> FALSE,
   orderTrades |-> <<>>, ammTrades |-> <<>>]

\* What the other two pallets offer to the router.
amm_trade(tx, s, who, asset, amount, pick) ==
  match_amm_failure(IF tx = "Buy" THEN do_buy(s, who, asset, amount, 0, pick)
                    ELSE do_sell(s, who, asset, amount, 0, pick))

orderbook_fill_order(s, who, id, maker_fill) ==
  match_orderbook_failure(do_fill_order(s, id, who, maker_fill))

orderbook_place_order(s, who, maker_asset, maker_amount, taker_asset, taker_amount) ==
  match_orderbook_failure(
    do_place_order(s, who, maker_asset, maker_amount, taker_asset, taker_amount))

\* An error handled here: the failed call's writes stay.
Handled(before, r) == IF r.s = before THEN r.s ELSE [r.s EXCEPT !.soft = @ + 1]

\* The trade goes on with the result r of the pool, which took `amount`.
handle_amm_trade(tr, amount, r) ==
  CASE r.err = "hard" -> [tr EXCEPT !.err = "hard"]
    [] r.err = "soft" -> [tr EXCEPT !.s = Handled(@, r)]
    [] OTHER -> [tr EXCEPT !.s = r.s, !.remaining = @ - amount,
                   !.ammTrades = Append(@, r.trade)]

\* How much the pool takes before its price passes the limit.  For a buy the
\* code adds the flat AdditionalSwapFee to the pool's fraction to allow for fees.
amount_including_fee_surplus(amount, fee_fractional) ==
  bdiv(amount, checked_sub_res(BASE, fee_fractional))

calculate_buy_amount_until(s, until) ==
  IF s.swapFee = None THEN Err
  ELSE amount_including_fee_surplus(until, s.pool.swap_fee + s.swapFee)

calculate_sell_amount_until(until) == until

AmmAmount(s, tx, pick) ==
  IF pick.until = 0 THEN 0   \* the price is past the limit already
  ELSE IF tx = "Buy" THEN calculate_buy_amount_until(s, pick.until)
  ELSE calculate_sell_amount_until(pick.until)

maybe_fill_from_amm(tr, tx, who, asset, pick) ==
  LET wanted == AmmAmount(tr.s, tx, pick)
      amount == Min({wanted, tr.remaining})
  IN  IF ~pool_exists(tr.s) THEN tr
      ELSE IF wanted = Err THEN [tr EXCEPT !.err = "hard"]
      ELSE IF amount = 0 THEN tr
      ELSE handle_amm_trade(tr, amount, amm_trade(tx, tr.s, who, asset, amount, pick))

OrderSuits(o, tx, asset, limit) ==
  /\ price(o) # Err
  /\ IF tx = "Buy" THEN asset = o.maker_asset /\ price(o) <= limit
     ELSE asset = o.taker_asset /\ price(o) >= limit

\* The trade goes on with the result r of the order book.
handle_fill_order(tr, maker_fill, r) ==
  CASE r.err = "hard" -> [tr EXCEPT !.err = "hard"]
    [] r.err = "soft" -> [tr EXCEPT !.s = Handled(@, r)]
    [] OTHER -> [tr EXCEPT !.s = r.s, !.remaining = @ - maker_fill,
                   !.orderTrades = Append(@, r.trade)]

Ended(tr) == tr.err # "none" \/ tr.remaining = 0

\* What is left of the trade goes to the order o, as it was read before.
FillFromOrder(tr, who, id, o) ==
  LET maker_fill == taker_and_maker_fill_from_taker_amount(o, tr.remaining).maker_fill
  IN  IF Ended(tr) THEN tr
      ELSE handle_fill_order(tr, maker_fill, orderbook_fill_order(tr.s, who, id, maker_fill))

\* One order of the list: the pool first, up to the order's price, then the order.
FillOne(tr, tx, who, asset, limit, id, pick) ==
  IF Ended(tr) \/ id \notin OrderIds(tr.s) THEN tr
  ELSE IF ~OrderSuits(tr.s.orders[id], tx, asset, limit) THEN [tr EXCEPT !.err = "hard"]
  ELSE FillFromOrder(maybe_fill_from_amm(tr, tx, who, asset, pick), who, id, tr.s.orders[id])

maybe_fill_orders(tr, tx, who, asset, limit, orders, picks) ==
  FoldLeft(LAMBDA t, i : FillOne(t, tx, who, asset, limit, orders[i], picks[i]),
           tr, [i \in 1..Len(orders) |-> i])

maybe_place_limit_order(tr, strategy, tx, who, asset, limit) ==
  LET n == tr.remaining
      taker_amount == IF tx = "Buy" THEN bdiv_ceil(n, limit) ELSE bmul_floor(limit, n)
      With(r) == IF r.err = "hard" THEN [tr EXCEPT !.err = "hard"]
                 ELSE [tr EXCEPT !.s = r.s, !.placed = r.err = "none"]
  IN  IF strategy = "ImmediateOrCancel" \/ (tx = "Buy" /\ limit = 0)
      THEN [tr EXCEPT !.err = "hard"]
      ELSE With(orderbook_place_order(tr.s, who, AssetIn(tx, asset), n,
                                      AssetOut(tx, asset), taker_amount))

\* TradeEventInfo: what a trade of an order gave is told less its fees, what the
\* pool gave is told as it is.
NoTrades == [amount_out |-> 0, external |-> 0, swap |-> 0]

add_amount_out_and_fees(info, more) ==
  [amount_out |-> info.amount_out + more.amount_out,
   external |-> info.external + more.external, swap |-> info.swap + more.swap]

add_amount_out_minus_fees(info, more) ==
  LET rest == checked_sub_res(more.amount_out, more.external + more.swap)
  IN  IF info.amount_out = Err \/ rest = Err THEN [info EXCEPT !.amount_out = Err]
      ELSE add_amount_out_and_fees(info, [more EXCEPT !.amount_out = rest])

\* Mutant of OrderInfo: the fee is told whoever paid it.
OrderInfo_AnyPayer(who, trade) ==
  [amount_out |-> trade.out, external |-> trade.fee, swap |-> 0]

OrderInfo(who, trade) ==
  [amount_out |-> trade.out, external |-> IF trade.payer = who THEN trade.fee ELSE 0,
   swap |-> 0]

AmmInfo(trade) ==
  [amount_out |-> trade.out, external |-> trade.external, swap |-> trade.swap]

\* Err where a fee is larger than what its order gave: the trade fails.
get_event_info(who, tr) ==
  LET orders == FoldLeft(LAMBDA info, t : add_amount_out_minus_fees(info, OrderInfo(who, t)),
                         NoTrades, tr.orderTrades)
  IN  IF orders.amount_out = Err THEN orders
      ELSE FoldLeft(LAMBDA info, t : add_amount_out_and_fees(info, AmmInfo(t)),
                    orders, tr.ammTrades)

\* The end of a trade from the store s, with the event that tells of it.
Told(s, tr, tx, who, asset, amount_in, orders, info) ==
  IF tr.err # "none" \/ info.amount_out = Err THEN Hard(s)
  ELSE [err |-> "none", s |-> tr.s,
        event |-> [who |-> who, orders |-> orders,
                   asset_in |-> AssetIn(tx, asset),
                   amount_in |-> amount_in - IF tr.placed THEN 0 ELSE tr.remaining,
                   asset_out |-> AssetOut(tx, asset),
                   amount_out |-> info.amount_out]]

\* The orders, then the pool, then a limit order, as long as something is left.
do_trade(s, tx, who, asset, amount_in, limit, orders, strategy, picks) ==
  LET FromPool(tr) == IF Ended(tr) THEN tr
                      ELSE maybe_fill_from_amm(tr, tx, who, asset, picks[Len(orders) + 1])
      Placed(tr)   == IF Ended(tr) THEN tr
                      ELSE maybe_place_limit_order(tr, strategy, tx, who, asset, limit)
      Result(tr)   == Told(s, tr, tx, who, asset, amount_in, orders, get_event_info(who, tr))
  IN  IF \/ amount_in = 0 \/ limit > BASE \/ Len(orders) > MaxOrders
         \/ s.free[AssetIn(tx, asset)][who] < amount_in
      THEN Hard(s)
      ELSE Result(Placed(FromPool(
             maybe_fill_orders(OrderAmmTradesInfo(s, amount_in), tx, who, asset, limit, orders, picks))))

\* What the event tells wrong of a trade that took the store from s to t.  The
\* dust of an account left nearly empty is no payment, and a caller who fills an
\* order of their own gets what they had.
Untrue(s, t, event) ==
  LET who  == event.who
      paid == Held(s, event.asset_in, who) - Held(t, event.asset_in, who)
      dust == Held(t, event.asset_in, Treasury) - Held(s, event.asset_in, Treasury)
      got  == Held(t, event.asset_out, who) - Held(s, event.asset_out, who)
      own  == \E id \in Range(event.orders) \cap OrderIds(s) : s.orders[id].maker = who
  IN  {x \in {"amount_in", "amount_out"} :
         IF x = "amount_in" THEN paid > event.amount_in + dust
         ELSE ~own /\ got # event.amount_out}

\* `buy` and `sell`, and the signed forms of the two.
Trade(tx, call) ==
  call \in Calls /\ calls < MaxCalls /\
  \E who \in Users, a \in Outcomes, n \in TradeAmounts, limit \in PriceLimits,
     orders \in OrderLists, strategy \in Strategies :
    \E picks \in [1..(Len(orders) + 1) -> IF pool_exists(store) THEN AmmPicks
                                          ELSE {CHOOSE p \in AmmPicks : TRUE}] :
      \E r \in {do_trade(store, tx, who, a, n, limit, orders, strategy, picks)} :
        /\ Transaction(call, r)
        /\ untrue' = Untrue(store, r.s, r.event)

router_buy == Trade("Buy", "router_buy")

router_sell == Trade("Sell", "router_sell")
===========================================================================
