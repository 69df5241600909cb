--------------------------- MODULE CompleteSets ---------------------------
(***************************************************************************)
(* The part of the prediction markets pallet that issues and redeems the   *)
(* shares of a market: buying and selling complete sets, redeeming after   *)
(* the resolution, the fees taken from a payout, and the admin's settings  *)
(* of the accounts fees go to.  One market; its status and outcome move as *)
(* module PredictionMarkets describes in detail.                           *)
(*                                                                         *)
(* The storage is one record, `store`:                                     *)
(*   free, reserved   the asset ledger (module Tokens)                     *)
(*   status, outcome  the market's status and resolved outcome             *)
(*   providers        LiquidityProviders of the market                     *)
(*   accounts         the WinningsFeeAccount, the AdditionalSwapFeeAccount *)
(*                    and the EarlyExitFeeAccount, or None                 *)
(*   swapFee          the AdditionalSwapFee, a flat amount, or None        *)
(*   orders, next     the order book (module OrderBook)                    *)
(*   pool             the pool (module NeoSwaps) or None                   *)
(*   soft             history: how many failures were handled inside a     *)
(*                    transaction after they had written to the store      *)
(***************************************************************************)
EXTENDS Tokens, FixedPoint

CONSTANTS
  Scalar,        \* whether the market is scalar: Outcomes = {"Long", "Short"}
  Low, High,     \* the range of a scalar market
  Reports,       \* what the market may be resolved to
  Accuracy,      \* the parts of one in a Perbill
  WinnerFee,     \* WinnerFeePercentage in those parts, runtime/src/lib.rs
  SwapFees,      \* the amounts the admin may set AdditionalSwapFee to
  Traders,       \* the users whose trades an instance explores
  Amounts,       \* amounts a caller may name
  Calls,         \* the extrinsics an instance explores
  MaxCalls       \* bound: how many of them

ASSUME CompleteSetsConstants ==
  /\ Low \in Nat /\ High \in Nat /\ Low < High
  /\ Accuracy \in Nat \ {0} /\ WinnerFee \in 0..Accuracy
  /\ Amounts \subseteq Nat
  /\ IF Scalar THEN Outcomes = {"Long", "Short"} /\ Reports \subseteq Nat
               ELSE Reports \subseteq Outcomes

VARIABLES store, calls

\* A transactional extrinsic: all its writes, or none if it fails.
Transaction(call, r) ==
  /\ call \in Calls /\ calls < MaxCalls
  /\ r.err = "none"
  /\ store' = r.s
  /\ calls' = calls + 1

\* A call that can happen only so often anyway counts towards no bound.
Uncounted(call, r) ==
  /\ call \in Calls
  /\ r.err = "none"
  /\ store' = r.s
  /\ UNCHANGED calls
---------------------------------------------------------------------------
(* Fees *)

\* AdditionalSwapFee::distribute: a flat fee, and no fee if it cannot be paid.
AdditionalSwapFee(s, account) ==
  LET r == transfer(s, Base, account, s.accounts.swap, s.swapFee)
  IN  IF s.accounts.swap # None /\ s.swapFee # None /\ r.err = "none"
      THEN [fee |-> s.swapFee, s |-> r.s]
      ELSE [fee |-> 0, s |-> s]

\* WinnerFee::distribute: a share of the payout, from the market's account.
WinnerFeeDistribute(s, payout) ==
  LET fee == (WinnerFee * payout) \div Accuracy
      r   == transfer(s, Base, Market, s.accounts.winnings, fee)
  IN  IF s.accounts.winnings # None /\ r.err = "none"
      THEN [fee |-> fee, s |-> r.s]
      ELSE [fee |-> 0, s |-> s]
---------------------------------------------------------------------------
(* Complete sets *)

\* Outcome assets are handled in one order; an error in between matters.
outcome_assets == IF Scalar THEN <<"Long", "Short">> ELSE SetToSeq(Outcomes)

ensure_market_is_active(s) == s.status = "Active"

do_buy_complete_set(s, who, amount) ==
  IF amount = 0 \/ s.free[Base][who] < amount \/ ~ensure_market_is_active(s)
  THEN Hard(s)
  ELSE FoldLeft(LAMBDA r, a : Then(r, LAMBDA t : deposit(t, a, who, amount)),
                transfer(s, Base, who, Market, amount), outcome_assets)

do_sell_complete_set(s, who, amount) ==
  IF \/ amount = 0 \/ s.free[Base][Market] < amount
     \/ \E a \in Outcomes : s.free[a][who] < amount
  THEN Hard(s)
  ELSE Then(FoldLeft(LAMBDA r, a : Then(r, LAMBDA t : withdraw(t, a, who, amount)),
                     Ok(s), outcome_assets),
            LAMBDA t : transfer(t, Base, Market, who, amount))

\* CompleteSetOperationsApi, as the pool uses it, and OnLiquidityProvided.
pool_buys_complete_set(s, amount) == do_buy_complete_set(s, PoolAccount, amount)

pool_sells_complete_set(s, amount) == do_sell_complete_set(s, PoolAccount, amount)

on_liquidity_provided(s, who) == [s EXCEPT !.providers = @ \cup {who}]
---------------------------------------------------------------------------
(* Redeeming *)

(* Mutant of calc_payouts: both parts of a scalar payout are rounded up. *)
calc_payouts_Up(value) ==
  LET long == IF value <= Low THEN 0
              ELSE IF value >= High THEN Accuracy
              ELSE ((value - Low) * Accuracy + High - Low - 1) \div (High - Low)
      short == IF value <= Low THEN Accuracy
               ELSE IF value >= High THEN 0
               ELSE ((High - value) * Accuracy + High - Low - 1) \div (High - Low)
  IN  [Long |-> long, Short |-> short]

\* The parts of one unit that a long and a short share pay.
calc_payouts(value) ==
  LET long == IF value <= Low THEN 0
              ELSE IF value >= High THEN Accuracy
              ELSE ((value - Low) * Accuracy) \div (High - Low)
  IN  [Long |-> long, Short |-> Accuracy - long]

\* What an account's shares of an outcome pay, rounded down.
Payout(s, a, n) ==
  IF Scalar THEN (calc_payouts(s.outcome)[a] * n) \div Accuracy
  ELSE IF a = s.outcome THEN n ELSE 0

Winning(s) == IF Scalar THEN <<"Long", "Short">> ELSE <<s.outcome>>

\* The outcomes the market may be resolved to.
matches_outcome_report(o) == IF Scalar THEN o \in Nat ELSE o \in Outcomes

\* One pass of the loop over the winning assets: the shares are destroyed, the
\* winner's fee is taken unless the account provides liquidity, the rest is paid.
RedeemAsset(s, who, a, payout, n) ==
  Then(withdraw(s, a, who, n), LAMBDA t :
    LET max_payout == Min({payout, t.free[Base][Market]})
        f == IF who \in t.providers THEN [fee |-> 0, s |-> t]
             ELSE WinnerFeeDistribute(t, max_payout)
    IN  transfer(f.s, Base, Market, who, max_payout - Min({f.fee, max_payout})))

do_redeem(s, who) ==
  LET n      == [a \in Outcomes |-> s.free[a][who]]
      payout == [a \in Outcomes |-> Payout(s, a, n[a])]
  IN  IF \/ s.status # "Resolved"
         \/ \A a \in Range(Winning(s)) : n[a] = 0
         \/ MapThenSumSet(LAMBDA a : payout[a], Range(Winning(s))) > s.free[Base][Market]
      THEN Hard(s)
      ELSE FoldLeft(LAMBDA r, a : Then(r, LAMBDA t :
                      RedeemAsset(t, who, a, payout[a], n[a])),
                    Ok(s), Winning(s))
---------------------------------------------------------------------------
(* Actions *)

buy_complete_set ==
  \E who \in Traders, n \in Amounts :
    Transaction("buy_complete_set", do_buy_complete_set(store, who, n))

sell_complete_set ==
  \E who \in Traders, n \in Amounts :
    Transaction("sell_complete_set", do_sell_complete_set(store, who, n))

redeem_shares ==
  \E who \in Users : Uncounted("redeem_shares", do_redeem(store, who))

\* The admin's settings; an account is set to the one they name, the Vault.
\* Bound: before the counted calls.
set_winnings_fee_account ==
  /\ calls = 0 /\ store.accounts.winnings = None
  /\ Uncounted("set_winnings_fee_account",
                 Ok([store EXCEPT !.accounts.winnings = Vault]))

set_additional_swap_fee_account ==
  /\ calls = 0 /\ store.accounts.swap = None
  /\ Uncounted("set_additional_swap_fee_account",
                 Ok([store EXCEPT !.accounts.swap = Vault]))

\* The market leaves Active when its period ends, and is resolved later.
Close ==
  /\ store.status = "Active"
  /\ Uncounted("Close", Ok([store EXCEPT !.status = "Closed"]))

Resolve ==
  /\ store.status = "Closed"
  /\ \E o \in Reports :
       matches_outcome_report(o) /\ Uncounted("Resolve",
                   Ok([store EXCEPT !.status = "Resolved", !.outcome = o]))
===========================================================================
