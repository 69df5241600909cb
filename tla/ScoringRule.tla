--------------------------- MODULE ScoringRule ---------------------------
(***************************************************************************)
(* The logarithmic market scoring rule of the neo-swaps pallet, math.rs    *)
(* and the pool it works on, without fees.  Module NeoSwaps lets the rule  *)
(* answer anything within bounds; this module computes its answers.        *)
(*                                                                         *)
(* Amounts are decimal fixed point numbers, n for n / BASE, as everywhere  *)
(* in the runtime; the rule computes in binary ones, x for x / ONE, and    *)
(* converts at both ends.  A result is Err where the code has None.  The   *)
(* exponential and the logarithm are a library's; here they are a Taylor   *)
(* sum and its inverse, exact to about one part in ONE.                    *)
(***************************************************************************)
EXTENDS FixedPoint, Sequences, FiniteSets, SequencesExt, FiniteSetsExt

CONSTANTS
  ONE,                     \* the binary one, 2^80 in the code
  Terms,                   \* how many terms of the exponential are summed
  EXP_OVERFLOW_THRESHOLD,  \* beyond it e^-x underflows to zero, in ONEs
  EXP_NUMERICAL_LIMIT,     \* consts.rs
  LN_NUMERICAL_LIMIT,      \* consts.rs
  Assets,                  \* the outcomes of the pool
  Deposits,                \* amounts a pool may be deployed with
  SpotPrices,              \* [Assets -> Nat] prices it may be deployed with
  TradeAmounts,            \* amounts of a trade
  Untils,                  \* prices a trade may be limited by
  MaxTrades,               \* bound: how many trades
  Slack                    \* bound: the error of a price, in units of 1 / BASE

ASSUME ScoringRuleConstants ==
  /\ ONE \in Nat \ {0} /\ BASE < ONE
  /\ EXP_NUMERICAL_LIMIT <= EXP_OVERFLOW_THRESHOLD
  /\ \A p \in SpotPrices : MapThenSumSet(LAMBDA a : p[a], Assets) = BASE

VARIABLES
  reserves, liquidity,   \* the pool's reserves and liquidity parameter
  held, paid,            \* what its one trader got out and paid in, net
  trades                 \* how many trades they made

poolVars == <<reserves, liquidity, held, paid, trades>>
---------------------------------------------------------------------------
(* Conversions *)

\* A decimal number is written out with its point and parsed: the nearest
\* binary number.
from_fixed_decimal(decimal) == (2 * decimal * ONE + BASE) \div (2 * BASE)

\* A binary number is printed, its digits after the last decimal place are cut
\* off, and one is added if the first of them is a five or more.
from_fixed_to_fixed_decimal(fixed) ==
  LET tenths == (10 * fixed * BASE) \div ONE
  IN  tenths \div 10 + IF tenths % 10 >= 5 THEN 1 ELSE 0

to_fixed(value) == IF value = Err THEN Err ELSE from_fixed_decimal(value)

from_fixed(value) == IF value = Err THEN Err ELSE from_fixed_to_fixed_decimal(value)

Times(x, y) == IF x = Err \/ y = Err THEN Err ELSE (x * y) \div ONE

Over(x, y) == IF x = Err \/ y = Err \/ y = 0 THEN Err ELSE (x * ONE) \div y
---------------------------------------------------------------------------
(* The library's transcendental functions *)

ExpTable ==
  [x \in 0..EXP_OVERFLOW_THRESHOLD * ONE |->
    FoldLeft(LAMBDA sum, n :
               LET term == (sum.term * x) \div (n * ONE)
               IN  [term |-> term, value |-> sum.value + term],
             [term |-> ONE, value |-> ONE], [n \in 1..Terms |-> n]).value]

exp(x, neg) ==
  IF x = Err \/ x > EXP_OVERFLOW_THRESHOLD * ONE THEN Err
  ELSE IF neg THEN Over(ONE, ExpTable[x]) ELSE ExpTable[x]

\* The largest z in low..high with e^z <= y.
LnBetween[y \in Nat, low \in Nat, high \in Nat] ==
  LET mid == (low + high + 1) \div 2
  IN  IF low = high THEN low
      ELSE IF ExpTable[mid] <= y THEN LnBetween[y, mid, high]
      ELSE LnBetween[y, low, mid - 1]

\* The absolute value and whether the logarithm is negative.
ln(y) ==
  IF y = Err \/ y = 0 THEN [value |-> Err, neg |-> FALSE]
  ELSE LET z == IF y < ONE THEN Over(ONE, y) ELSE y
       IN  [value |-> LnBetween[z, 0, EXP_OVERFLOW_THRESHOLD * ONE], neg |-> y < ONE]
---------------------------------------------------------------------------
(* math.rs.  r is a reserve, x an amount and b the liquidity parameter. *)

calculate_buy_ln_argument_fixed(r, x, b) ==
  LET r_over_b == Over(r, b)
      small    == IF r_over_b # Err /\ r_over_b < EXP_OVERFLOW_THRESHOLD * ONE
                  THEN exp(r_over_b, TRUE) ELSE 0
  IN  checked_sub_res(checked_add_res(exp(Over(x, b), FALSE), small), ONE)

calculate_swap_amount_out_for_buy_fixed(r, x, b) ==
  LET l    == ln(calculate_buy_ln_argument_fixed(r, x, b))
      blob == Times(b, l.value)
      sum  == IF l.neg THEN checked_sub_res(r, blob) ELSE checked_add_res(r, blob)
  IN  checked_sub_res(sum, x)

(* Mutant of calculate_swap_amount_out_for_sell_fixed: x at the price before. *)
calculate_swap_amount_out_for_sell_fixed_OldPrice(r, x, b) ==
  IF r = 0 THEN Err ELSE Times(x, exp(Over(r, b), TRUE))

calculate_swap_amount_out_for_sell_fixed(r, x, b) ==
  LET inside == checked_sub_res(checked_add_res(exp(Over(x, b), TRUE),
                                                exp(Over(r, b), FALSE)), ONE)
      l      == ln(inside)
      blob   == Times(b, l.value)
  IN  IF r = 0 THEN Err
      ELSE IF l.neg THEN checked_add_res(r, blob) ELSE checked_sub_res(r, blob)

calculate_spot_price_fixed(r, b) == exp(Over(r, b), TRUE)

\* The price ln's sign is dropped: a price is less than one.
calculate_reserve_from_spot_prices_fixed(amount, prices) ==
  LET tmp == [a \in Assets |-> ln(prices[a]).value]
      b   == Over(amount, Max({tmp[a] : a \in Assets}))
  IN  [liquidity |-> IF amount = 0 THEN Err ELSE b,
       reserves  |-> [a \in Assets |-> Times(tmp[a], b)]]

(* Mutant of calculate_buy_amount_until_fixed: the odds of the other side. *)
calculate_buy_amount_until_fixed_Odds(until, b, price) ==
  LET l == ln(Over(price, until))
  IN  IF ~l.neg THEN 0 ELSE Times(b, l.value)

calculate_buy_amount_until_fixed(until, b, price) ==
  LET l == ln(Over(checked_sub_res(ONE, until), checked_sub_res(ONE, price)))
  IN  IF l.value = Err THEN Err ELSE IF ~l.neg THEN 0 ELSE Times(b, l.value)

calculate_sell_amount_until_fixed(until, b, price) ==
  LET odds   == checked_sub_res(Over(ONE, price), ONE)
      first  == Over(ONE, odds)
      second == Over(ONE, Times(until, odds))
      l      == ln(checked_sub_res(second, first))
  IN  IF l.value = Err THEN Err ELSE IF l.neg THEN 0 ELSE Times(b, l.value)

calculate_buy_ln_argument(r, x, b) ==
  from_fixed(calculate_buy_ln_argument_fixed(to_fixed(r), to_fixed(x), to_fixed(b)))

calculate_swap_amount_out_for_buy(r, x, b) ==
  from_fixed(calculate_swap_amount_out_for_buy_fixed(to_fixed(r), to_fixed(x), to_fixed(b)))

calculate_swap_amount_out_for_sell(r, x, b) ==
  from_fixed(calculate_swap_amount_out_for_sell_fixed(to_fixed(r), to_fixed(x), to_fixed(b)))

calculate_spot_price(r, b) == from_fixed(calculate_spot_price_fixed(to_fixed(r), to_fixed(b)))

calculate_reserves_from_spot_prices(amount, prices) ==
  LET d == calculate_reserve_from_spot_prices_fixed(
             to_fixed(amount), [a \in Assets |-> to_fixed(prices[a])])
  IN  [liquidity |-> from_fixed(d.liquidity),
       reserves  |-> [a \in Assets |-> from_fixed(d.reserves[a])]]

calculate_buy_amount_until(until, b, price) ==
  from_fixed(calculate_buy_amount_until_fixed(to_fixed(until), to_fixed(b), to_fixed(price)))

calculate_sell_amount_until(until, b, price) ==
  from_fixed(calculate_sell_amount_until_fixed(to_fixed(until), to_fixed(b), to_fixed(price)))
---------------------------------------------------------------------------
(* The pool, types/pool.rs and do_buy, do_sell of lib.rs *)

calculate_numerical_threshold == liquidity * EXP_NUMERICAL_LIMIT

reserve_of(r, a) == r[a]

Price(r, a) == calculate_spot_price(reserve_of(r, a), liquidity)

BuyLnArgument(r, a, x) == calculate_buy_ln_argument(reserve_of(r, a), x, liquidity)

BuyUntil(r, a, until) == calculate_buy_amount_until(until, liquidity, Price(r, a))

SellUntil(r, a, until) == calculate_sell_amount_until(until, liquidity, Price(r, a))

BuyAllowed(r, a, x) ==
  /\ x <= calculate_numerical_threshold
  /\ BuyLnArgument(r, a, x) >= LN_NUMERICAL_LIMIT

BuyOut(r, a, x) ==
  checked_add_res(calculate_swap_amount_out_for_buy(reserve_of(r, a), x, liquidity), x)

AfterBuy(r, a, x) ==
  [c \in Assets |-> r[c] + x - IF c = a THEN BuyOut(r, a, x) ELSE 0]

SellAllowed(r, a, x) ==
  /\ r[a] <= calculate_numerical_threshold
  /\ x <= calculate_numerical_threshold

SellOut(r, a, x) == calculate_swap_amount_out_for_sell(reserve_of(r, a), x, liquidity)

AfterSell(r, a, x) ==
  [c \in Assets |-> r[c] - SellOut(r, a, x) + IF c = a THEN x ELSE 0]

PoolInit ==
  /\ \E amount \in Deposits, prices \in SpotPrices :
       LET d == calculate_reserves_from_spot_prices(amount, prices)
       IN  reserves = d.reserves /\ liquidity = d.liquidity
  /\ held = [a \in Assets |-> 0]
  /\ paid = 0
  /\ trades = 0

Buy(a, x) ==
  /\ trades < MaxTrades
  /\ BuyAllowed(reserves, a, x)
  /\ BuyOut(reserves, a, x) # Err
  /\ \A c \in Assets : AfterBuy(reserves, a, x)[c] >= 0
  /\ reserves' = AfterBuy(reserves, a, x)
  /\ held' = [held EXCEPT ![a] = @ + BuyOut(reserves, a, x)]
  /\ paid' = paid + x
  /\ trades' = trades + 1
  /\ UNCHANGED liquidity

Sell(a, x) ==
  /\ trades < MaxTrades
  /\ x > 0 /\ x <= held[a]
  /\ SellAllowed(reserves, a, x)
  /\ SellOut(reserves, a, x) # Err
  /\ \A c \in Assets : AfterSell(reserves, a, x)[c] >= 0
  /\ AfterSell(reserves, a, x)[a] <= calculate_numerical_threshold
  /\ reserves' = AfterSell(reserves, a, x)
  /\ held' = [held EXCEPT ![a] = @ - x]
  /\ paid' = paid - SellOut(reserves, a, x)
  /\ trades' = trades + 1
  /\ UNCHANGED liquidity

\* The trader sells an amount or all they have.
Trade ==
  \E a \in Assets :
    \/ \E x \in TradeAmounts : Buy(a, x)
    \/ \E x \in TradeAmounts \cup {held[a]} : Sell(a, x)

---------------------------------------------------------------------------
(* Properties *)

\* What a trade costs depends on where it leaves the reserves, not on how the
\* trader got there.  The prices of the outcomes add up to one, but for the
\* unit that each trade may round (an outcome whose price underflows counts as
\* nothing); and a trader who sold all they bought has paid as much as they
\* got, but for what each trade rounded (to the nearest unit, so perhaps in the
\* trader's favour), which the way back can multiply by no more than the
\* exponential of the numerical limit.
RoundTripsWinNothing ==
  LET sum    == MapThenSumSet(LAMBDA a : Max({Price(reserves, a), 0}), Assets)
      factor == ExpTable[EXP_NUMERICAL_LIMIT * ONE] \div ONE
  IN  /\ sum - BASE \in -(Slack + trades)..(Slack + trades)
      /\ (\A a \in Assets : held[a] = 0) => paid >= -(factor * trades)

\* Within the numerical limits that do_buy and do_sell check first, the rule
\* answers and the pool can deliver: a buy takes no more than the reserve and
\* what was paid in, a sell gives no more than what was given in or than is in
\* any other reserve (decrease_reserve never fails, nor does a transfer of the
\* pool's).  Module NeoSwaps assumes these bounds.  (With a reserve down to its
\* last units the rule's difference of rounded numbers may be negative, and the
\* buy fails.)
LimitsSuffice ==
  \A a \in Assets, x \in TradeAmounts :
    /\ reserves[a] > Slack /\ BuyAllowed(reserves, a, x) =>
         /\ BuyOut(reserves, a, x) # Err
         /\ BuyOut(reserves, a, x) \in x..(reserves[a] + x)
    /\ SellAllowed(reserves, a, x) /\ reserves[a] > 0 =>
         /\ SellOut(reserves, a, x) \in 0..x
         /\ \A c \in Assets : AfterSell(reserves, a, x)[c] >= 0

\* What the router asks the pool to trade so as not to pass a price takes the
\* pool's price there: after buying calculate_buy_amount_until, or selling
\* calculate_sell_amount_until, the price is the limit, give or take the error
\* of a price; and nothing is traded if the price has passed it already.  (The
\* price itself is rounded, and the rule divides by its distance from one, so
\* prices closer to one than the limit of the logarithm are left out.)
TradesStopAtTheLimit ==
  \A a \in Assets, q \in Untils :
    LET p == Price(reserves, a)
        x == BuyUntil(reserves, a, q)
        y == SellUntil(reserves, a, q)
    IN  p # Err /\ p <= BASE - LN_NUMERICAL_LIMIT =>
        /\ q <= p => x <= Slack
        /\ q > p + Slack /\ x # Err /\ BuyAllowed(reserves, a, x) =>
             Price(AfterBuy(reserves, a, x), a) - q \in -Slack..Slack
        /\ q >= p => y <= Slack
        /\ q < p - Slack /\ y # Err /\ SellAllowed(reserves, a, y) =>
             Price(AfterSell(reserves, a, y), a) - q \in -Slack..Slack

\* Within the limits that the pallet checks the rule answers, and fairly.
RuleIsSound == RoundTripsWinNothing /\ LimitsSuffice
==========================================================================
