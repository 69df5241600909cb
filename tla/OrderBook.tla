----------------------------- MODULE OrderBook -----------------------------
(***************************************************************************)
(* The order book pallet: limit orders whose maker's side is reserved, and *)
(* fills, in part or in full, at the order's price.                        *)
(*   store.orders  [order id -> order] of the open orders                  *)
(*   store.next    NextOrderId                                             *)
(* An order keeps, beside its fields in the code, the amounts it was       *)
(* placed with (history: offered, asked).                                  *)
(***************************************************************************)
EXTENDS CompleteSets

CONSTANT OrderAmounts   \* the amounts a caller may place an order with

\* An order, with the amounts it was placed with.
Order(who, maker_asset, maker_amount, taker_asset, taker_amount) ==
  [maker |-> who, maker_asset |-> maker_asset, maker_amount |-> maker_amount,
   taker_asset |-> taker_asset, taker_amount |-> taker_amount,
   offered |-> maker_amount, asked |-> taker_amount]

\* What a fill gave the taker, and the fee with who paid it.
OrderbookTrade(taker_fill, fees) ==
  [out |-> taker_fill, payer |-> fees.payer, fee |-> fees.fee]

\* The outcome assets of the market, as the order book lists them.
orderbook_outcome_assets ==
  IF Scalar THEN {"Long", "Short"} ELSE Outcomes

OrderIds(s) == DOMAIN s.orders

\* The order with its price in the base asset: bdiv_floor of the two amounts.
price(order) ==
  IF order.maker_asset = Base THEN bdiv_floor(order.maker_amount, order.taker_amount)
  ELSE IF order.taker_asset = Base THEN bdiv_floor(order.taker_amount, order.maker_amount)
  ELSE Err

\* What a taker who offers an amount gets, and what the maker gets for it.
taker_and_maker_fill_from_taker_amount(order, amount) ==
  IF amount < order.taker_amount
  THEN [taker_fill |-> bmul_bdiv_floor(amount, order.maker_amount, order.taker_amount),
        maker_fill |-> amount]
  ELSE [taker_fill |-> order.maker_amount, maker_fill |-> order.taker_amount]

(* Mutant of get_taker_fill: rounded up. *)
get_taker_fill_Ceil(order, maker_fill) ==
  bmul_bdiv_ceil(maker_fill, order.maker_amount, order.taker_amount)

get_taker_fill(order, maker_fill) ==
  bmul_bdiv_floor(maker_fill, order.maker_amount, order.taker_amount)

ensure_ratio_quotient_valid(order) ==
  order.taker_amount = 0 \/ order.taker_amount >= ExistentialDeposits[order.taker_asset]

decrease_order_amounts(order, maker_fill, taker_fill) ==
  [order EXCEPT !.maker_amount = checked_sub_res(@, taker_fill),
                !.taker_amount = checked_sub_res(@, maker_fill)]

do_remove_order(s, id, who) ==
  IF id \notin OrderIds(s) \/ s.orders[id].maker # who THEN Hard(s)
  ELSE LET o == s.orders[id]
           t == unreserve_named(s, o.maker_asset, who, o.maker_amount)
       IN  Ok([t EXCEPT !.orders = Restrict(@, OrderIds(s) \ {id})])

\* The fee is charged from the taker in the base asset; where the taker pays
\* the maker in it, the maker gets that much less.
charge_external_fees(s, o, taker, maker_fill) ==
  LET With(f) == [s |-> f.s, fee |-> f.fee,
                  fill |-> IF o.maker_asset = Base THEN maker_fill
                           ELSE checked_sub_res(maker_fill, f.fee),
                  payer |-> IF o.maker_asset = Base THEN taker ELSE o.maker]
  IN  With(AdditionalSwapFee(s, taker))

\* The result carries what the trade filled.  The last check comes after every
\* transfer has been made: its error is a soft one to the hybrid router.
do_fill_order(s, id, taker, maker_fill) ==
  LET o          == s.orders[id]
      taker_fill == get_taker_fill(o, maker_fill)
      rest       == decrease_order_amounts(o, maker_fill, taker_fill)
      Fail(r)    == [err |-> r.err, s |-> r.s, trade |-> None]
      \* the store t of the order filled
      Filled(t, fees) ==
        [err |-> IF ensure_ratio_quotient_valid(rest) THEN "none"
                 ELSE "PartialFillNearFullFillNotAllowed",
         s |-> IF ~ensure_ratio_quotient_valid(rest) THEN t
               ELSE [t EXCEPT !.orders = IF rest.maker_amount = 0
                                         THEN Restrict(@, OrderIds(s) \ {id})
                                         ELSE [@ EXCEPT ![id] = rest]],
         trade |-> OrderbookTrade(taker_fill, fees)]
      Pay(paid, fees) == IF paid.err # "none" THEN Fail(Hard(s)) ELSE Filled(paid.s, fees)
      Charge(fees)    == IF fees.fill = Err THEN Fail(Hard(s))
                         ELSE Pay(transfer(fees.s, o.taker_asset, taker, o.maker, fees.fill),
                                  fees)
      Give(given)     == IF given.err # "none" THEN Fail(Hard(s))
                         ELSE Charge(charge_external_fees(given.s, o, taker, maker_fill))
  IN  IF id \notin OrderIds(s) \/ s.status # "Active" THEN Fail(Hard(s))
      ELSE IF maker_fill < ExistentialDeposits[o.taker_asset]
      THEN Fail(Fails(s, "BelowMinimumBalance"))
      ELSE IF \/ maker_fill > o.taker_amount \/ taker_fill = Err
              \/ rest.maker_amount = Err \/ rest.taker_amount = Err
      THEN Fail(Hard(s))
      ELSE Give(repatriate_reserved_named(s, o.maker_asset, o.maker, taker, taker_fill))

do_place_order(s, who, maker_asset, maker_amount, taker_asset, taker_amount) ==
  IF \/ s.status # "Active"
     \/ {maker_asset, taker_asset} \cap {Base} = {}
     \/ {maker_asset, taker_asset} \cap orderbook_outcome_assets = {}
  THEN Hard(s)
  ELSE IF \/ maker_amount < ExistentialDeposits[maker_asset]
          \/ taker_amount < ExistentialDeposits[taker_asset]
  THEN Fails(s, "BelowMinimumBalance")
  ELSE Then(reserve_named(s, maker_asset, who, maker_amount), LAMBDA t :
         Ok([t EXCEPT !.next = @ + 1,
               !.orders = [i \in OrderIds(s) \cup {s.next} |->
                 IF i # s.next THEN s.orders[i]
                 ELSE Order(who, maker_asset, maker_amount, taker_asset, taker_amount)]]))

OrderbookSoftFail == {"BelowMinimumBalance", "PartialFillNearFullFillNotAllowed"}

\* The errors that are soft ones to the hybrid router.
match_orderbook_failure(r) ==
  CASE r.err = "none" -> r
    [] r.err \in OrderbookSoftFail -> [r EXCEPT !.err = "soft"]
    [] OTHER -> [r EXCEPT !.err = "hard"]
---------------------------------------------------------------------------
(* Actions *)

remove_order ==
  \E id \in OrderIds(store), who \in Users :
    Transaction("remove_order", do_remove_order(store, id, who))

\* A caller fills in full (None) or names the maker's part.
fill_order ==
  \E id \in OrderIds(store), who \in Users, fill \in Amounts \cup {None} :
    Transaction("fill_order",
      do_fill_order(store, id, who,
                    IF fill = None THEN store.orders[id].taker_amount ELSE fill))

place_order ==
  \E who \in Users, a \in Outcomes, give \in OrderAmounts, get \in OrderAmounts :
    \/ Transaction("place_order", do_place_order(store, who, a, give, Base, get))
    \/ Transaction("place_order", do_place_order(store, who, Base, give, a, get))
===========================================================================
