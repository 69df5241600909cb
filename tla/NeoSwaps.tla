------------------------------ MODULE NeoSwaps ------------------------------
(***************************************************************************)
(* The neo-swaps pallet: an automated market maker over the outcomes of    *)
(* the market, whose liquidity providers' shares and fees are a tree       *)
(* (module LiquidityTree).                                                 *)
(*   store.pool = [reserves, liquidity_parameter, tree, swap_fee] or None  *)
(*                                                                         *)
(* The logarithmic market scoring rule is transcendental arithmetic; what  *)
(* it answers is a pick, any answer within the bounds the code relies on:  *)
(* a buy's swap takes at most the reserve out, a sell returns at most what *)
(* came in.  The numerical threshold on amounts is the code's.             *)
(***************************************************************************)
EXTENDS CompleteSets, LiquidityTree, SignedLifetime

CONSTANTS
  MIN_LIQUIDITY, EXIT_FEE, MIN_SWAP_FEE, MaxSwapFee,
  MIN_RELATIVE_LP_POSITION_VALUE, EXP_NUMERICAL_LIMIT,
  Deployments,   \* [amount, reserves, liquidity] the scoring rule allows
  DeployFees,    \* swap fees a deployer may ask for
  AmmPicks,      \* answers of the scoring rule an instance explores:
                 \* [until, out, lnOk]
  Relayer,       \* the relayer that signatures name
  Signers,       \* bound: the users who sign
  PoolShares     \* amounts of pool shares a caller may name

ASSUME NeoSwapsConstants ==
  /\ MIN_LIQUIDITY \in Nat /\ EXIT_FEE \in 0..BASE
  /\ MIN_SWAP_FEE \in 0..MaxSwapFee /\ MaxSwapFee \in 0..BASE
  /\ EXP_NUMERICAL_LIMIT \in Nat

pool_exists(s) == s.pool # None

\* A pool: its reserves, its liquidity parameter and its liquidity tree.
Pool(reserves, liquidity, tree, swap_fee) ==
  [reserves |-> reserves, liquidity_parameter |-> liquidity, tree |-> tree,
   swap_fee |-> swap_fee]

\* The pallet's storage at the start of the chain.
NoPools == [pool |-> None, EarlyExitFeeAccount |-> None, AdditionalSwapFee |-> 0]

early_exit_account(s) == s.accounts.exit

calculate_numerical_threshold(pool) == pool.liquidity_parameter * EXP_NUMERICAL_LIMIT

\* The scoring rule's answers.
calculate_swap_amount_out_for_buy(pool, asset, pick) == Min({pick.out, pool.reserves[asset]})

calculate_swap_amount_out_for_sell(pool, asset, amount_in, pick) ==
  IF pool.reserves[asset] = 0 THEN Err ELSE Min({pick.out, amount_in})

buy_ln_argument_suffices(pick) == pick.lnOk

\* The swap fee goes to the tree; the flat external fee leaves the pool.
distribute_fees(s, pool, amount) ==
  LET With(ext, swap) ==
        [s |-> ext.s, remaining |-> checked_sub_res(amount, ext.fee + swap),
         swap |-> swap, external |-> ext.fee,
         pool |-> [pool EXCEPT !.tree = deposit_fees(@, swap)]]
  IN  With(AdditionalSwapFee(s, PoolAccount), bmul(pool.swap_fee, amount))

AmmTrade(amount_out, fees) ==
  [out |-> amount_out, swap |-> fees.swap, external |-> fees.external]

\* An error leaves the pool as it was (try_mutate) but not the ledger.  The
\* numerical errors, soft ones to the hybrid router, come after the buyer has
\* paid and the fees have been distributed.
do_buy(s, who, asset_out, amount_in, min_amount_out, pick) ==
  LET Fail(r) == [err |-> r.err, s |-> r.s, trade |-> None]
      Give(given, fees, out) ==
        IF given.err # "none" THEN Fail(Hard(s))
        ELSE [err |-> "none", trade |-> AmmTrade(out, fees),
              s |-> [given.s EXCEPT !.pool = [fees.pool EXCEPT !.reserves =
                      [a \in Outcomes |-> @[a] + fees.remaining
                                          - IF a = asset_out THEN out ELSE 0]]]]
      Swap(fees, out) ==
        IF fees.remaining > calculate_numerical_threshold(s.pool)
        THEN Fail(Fails(fees.s, "MaxAmountExceeded"))
        ELSE IF ~buy_ln_argument_suffices(pick)
        THEN Fail(Fails(fees.s, "MinAmountNotMet"))
        ELSE IF out < min_amount_out THEN Fail(Hard(s))
        ELSE Give(Then(pool_buys_complete_set(fees.s, fees.remaining),
                       LAMBDA t : transfer(t, asset_out, PoolAccount, who, out)), fees, out)
      Charge(fees) ==
        IF fees.remaining = Err THEN Fail(Hard(s))
        ELSE Swap(fees, calculate_swap_amount_out_for_buy(s.pool, asset_out, pick)
                        + fees.remaining)
      Pay(paid) == IF paid.err # "none" THEN Fail(Hard(s))
                   ELSE Charge(distribute_fees(paid.s, s.pool, amount_in))
  IN  IF amount_in = 0 \/ s.status # "Active" \/ ~pool_exists(s) THEN Fail(Hard(s))
      ELSE Pay(transfer(s, Base, who, PoolAccount, amount_in))

\* The last check, of the price after the sell, comes after every transfer.
do_sell(s, who, asset_in, amount_in, min_amount_out, pick) ==
  LET limit    == calculate_numerical_threshold(s.pool)
      out      == calculate_swap_amount_out_for_sell(s.pool, asset_in, amount_in, pick)
      reserves == [a \in Outcomes |->
                    s.pool.reserves[a] - out + IF a = asset_in THEN amount_in ELSE 0]
      Fail(r)  == [err |-> r.err, s |-> r.s, trade |-> None]
      Give(given, fees) ==
        IF given.err # "none" \/ \E a \in Outcomes : reserves[a] < 0 THEN Fail(Hard(s))
        ELSE IF reserves[asset_in] > limit
        THEN Fail(Fails(given.s, "SpotPriceSlippedTooLow"))
        ELSE [err |-> "none", trade |-> AmmTrade(fees.remaining, fees),
              s |-> [given.s EXCEPT !.pool = [fees.pool EXCEPT !.reserves = reserves]]]
      Charge(fees) ==
        IF fees.remaining = Err \/ fees.remaining < min_amount_out THEN Fail(Hard(s))
        ELSE Give(transfer(fees.s, Base, PoolAccount, who, fees.remaining), fees)
      Sell(sets) == IF sets.err # "none" THEN Fail(Hard(s))
                    ELSE Charge(distribute_fees(sets.s, s.pool, out))
  IN  IF amount_in = 0 \/ s.status # "Active" \/ ~pool_exists(s) THEN Fail(Hard(s))
      ELSE IF s.pool.reserves[asset_in] > limit THEN Fail(Fails(s, "SpotPriceTooLow"))
      ELSE IF amount_in > limit THEN Fail(Fails(s, "MaxAmountExceeded"))
      ELSE IF out = Err THEN Fail(Hard(s))
      ELSE Sell(Then(transfer(s, asset_in, who, PoolAccount, amount_in),
                     LAMBDA t : pool_sells_complete_set(t, out)))

\* The errors that are soft ones to the hybrid router.
match_amm_failure(r) ==
  CASE r.err = "none" -> r
    [] r.err \in {"SpotPriceTooLow", "SpotPriceSlippedTooLow", "MaxAmountExceeded",
                  "MinAmountNotMet"} -> [r EXCEPT !.err = "soft"]
    [] OTHER -> [r EXCEPT !.err = "hard"]

\* A transfer of an amount of each outcome, in order.
TransferAll(s, from, to, amounts) ==
  FoldLeft(LAMBDA r, a : Then(r, LAMBDA t : transfer(t, a, from, to, amounts[a])),
           Ok(s), outcome_assets)

(* Mutant of JoinRatio: rounded down. *)
JoinRatio_Floor(tree, shares) == bdiv_floor(shares, total_shares(tree))

JoinRatio(tree, shares) == bdiv_ceil(shares, total_shares(tree))

do_join(s, who, shares) ==
  LET pool    == s.pool
      ratio   == JoinRatio(pool.tree, shares)
      amounts == [a \in Outcomes |-> bmul_ceil(ratio, pool.reserves[a])]
      paid    == TransferAll(s, who, PoolAccount, amounts)
      tree    == join(pool.tree, who, shares)
  IN  IF shares = 0 \/ s.status # "Active" \/ ~pool_exists(s) THEN Hard(s)
      ELSE IF \/ ~IsProvider(pool.tree, who) /\ ratio < MIN_RELATIVE_LP_POSITION_VALUE
              \/ paid.err # "none" \/ tree = NoTree
      THEN Hard(s)
      ELSE Ok([on_liquidity_provided(paid.s, who) EXCEPT
             !.pool = [pool EXCEPT
               !.reserves = [a \in Outcomes |-> @[a] + amounts[a]],
               !.tree = tree,
               !.liquidity_parameter = @ + bmul(ratio, @)]])

\* The fee of an exit while the market trades stays with the other providers.
ExitRatio(s, shares) ==
  LET ratio == bdiv_floor(shares, total_shares(s.pool.tree))
  IN  IF s.status = "Active" THEN bmul_floor(ratio, BASE - EXIT_FEE) ELSE ratio

\* The last provider's exit: what is left in the base asset goes to the early
\* exit account, the left-over outcome tokens are burnt, the pool is deleted.
DestroyPool(s) ==
  IF early_exit_account(s) = None THEN Hard(s)
  ELSE Then(FoldLeft(LAMBDA r, a : Then(r, LAMBDA t :
                       withdraw(t, a, PoolAccount, t.free[a][PoolAccount])),
                     transfer(s, Base, PoolAccount, early_exit_account(s),
                              s.free[Base][PoolAccount]),
                     outcome_assets),
            LAMBDA t : Ok([t EXCEPT !.pool = None]))

do_exit(s, who, shares) ==
  LET pool    == s.pool
      ratio   == ExitRatio(s, shares)
      amounts == [a \in Outcomes |-> bmul_floor(ratio, pool.reserves[a])]
      given   == TransferAll(s, PoolAccount, who, amounts)
      tree    == exit(pool.tree, who, shares)
      b       == pool.liquidity_parameter - bmul(ratio, pool.liquidity_parameter)
      left    == [pool EXCEPT
                    !.reserves = [a \in Outcomes |-> @[a] - amounts[a]],
                    !.tree = tree, !.liquidity_parameter = b]
  IN  IF shares = 0 \/ ~pool_exists(s) THEN Hard(s)
      ELSE IF \/ given.err # "none" \/ tree = NoTree
              \/ \E a \in Outcomes : left.reserves[a] < 0
      THEN Hard(s)
      ELSE IF total_shares(tree) = 0 THEN DestroyPool(given.s)
      ELSE IF /\ IsProvider(tree, who)
              /\ \/ b < MIN_LIQUIDITY
                 \/ bdiv_floor(shares_of(tree, who), total_shares(tree))
                      < MIN_RELATIVE_LP_POSITION_VALUE
      THEN Hard(s)
      ELSE Ok([given.s EXCEPT !.pool = left])

do_withdraw_fees(s, who) ==
  IF ~pool_exists(s) THEN Hard(s)
  ELSE IF ~IsProvider(s.pool.tree, who) THEN Hard(s)
  ELSE LET w == withdraw_fees(s.pool.tree, who)
       IN  Then(transfer(s, Base, PoolAccount, who, w.amount),
                LAMBDA t : Ok([t EXCEPT !.pool.tree = w.tree]))

\* The deployer also pays in the existential deposit, so that fees that reach
\* the pool's account are not lost as dust.
do_deploy_pool(s, who, d, swap_fee) ==
  IF \/ pool_exists(s) \/ s.status # "Active"
     \/ swap_fee < MIN_SWAP_FEE \/ swap_fee > MaxSwapFee
     \/ d.liquidity < MIN_LIQUIDITY
  THEN Hard(s)
  ELSE Then(Then(TransferAll(s, who, PoolAccount, d.reserves), LAMBDA t :
              transfer(t, Base, who, PoolAccount, ExistentialDeposits[Base])),
            LAMBDA t : Ok([on_liquidity_provided(t, who) EXCEPT
              !.pool = Pool(d.reserves, d.liquidity, new(who, d.amount), swap_fee)]))

\* DeployPoolApi, for the markets pallet.
DeployPool(s, who, d, swap_fee) == do_deploy_pool(s, who, d, swap_fee)
---------------------------------------------------------------------------
(* Actions.  The least amounts out and greatest amounts in that a caller    *)
(* may name only make calls fail; callers here name none.                  *)

buy ==
  \E who \in Traders, a \in Outcomes, n \in Amounts, pick \in AmmPicks :
    Transaction("buy", do_buy(store, who, a, n, 0, pick))

sell ==
  \E who \in Traders, a \in Outcomes, n \in Amounts, pick \in AmmPicks :
    Transaction("sell", do_sell(store, who, a, n, 0, pick))

join_pool ==
  \E who \in Users, n \in PoolShares : Transaction("join", do_join(store, who, n))

exit_pool ==
  \E who \in Users, n \in PoolShares : Transaction("exit", do_exit(store, who, n))

withdraw_pool_fees ==
  \E who \in Users : Transaction("withdraw_fees", do_withdraw_fees(store, who))

deploy_pool ==
  \E who \in Users, d \in Deployments, fee \in DeployFees :
    Transaction("deploy_pool", do_deploy_pool(store, who, d, fee))

\* The same calls by signature: block numbers count from the block of the call,
\* and a signature may be the oldest that is accepted or too old.
SignedAt == {1 - SignedTxLifetime, - SignedTxLifetime}

PoolCall(fn, shares, block) ==
  [fn |-> fn, market |-> Market, shares |-> shares, amounts |-> None, block_number |-> block]

NeoSwapsSignatureIsValid(proof, c) == verify_signature(proof, NeoSwapsParam(proof, c))

signed_for_pool(who, c) ==
  \E signer \in Signers, sender \in {who, Relayer} :
    LET payload == NeoSwapsParam([relayer |-> Relayer], c)
        proof   == Sign(signer, Relayer, payload)
        origin  == DispatchedAs(sender, proof, NeoSwapsSignatureIsValid(proof, c))
    IN  origin = who /\ signed_for(origin, proof, payload, 0)

signed_join ==
  \E who \in Signers, n \in PoolShares, block \in SignedAt :
    /\ signed_for_pool(who, PoolCall("signed_join", n, block))
    /\ Transaction("join", do_join(store, who, n))

signed_withdraw_fees ==
  \E who \in Signers, block \in SignedAt :
    /\ signed_for_pool(who, PoolCall("signed_withdraw_fees", 0, block))
    /\ Transaction("withdraw_fees", do_withdraw_fees(store, who))

signed_exit ==
  \E who \in Signers, n \in PoolShares, block \in SignedAt :
    /\ signed_for_pool(who, PoolCall("signed_exit", n, block))
    /\ Transaction("exit", do_exit(store, who, n))

set_early_exit_fee_account ==
  /\ calls = 0 /\ store.accounts.exit = None
  /\ Uncounted("set_early_exit_fee_account",
                 Ok([store EXCEPT !.accounts.exit = Vault]))

set_additional_swap_fee ==
  \E fee \in SwapFees :
    /\ store.swapFee # fee
    /\ Transaction("set_additional_swap_fee", Ok([store EXCEPT !.swapFee = fee]))
===========================================================================
