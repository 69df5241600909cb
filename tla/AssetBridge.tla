---------------------------- MODULE AssetBridge ----------------------------
(***************************************************************************)
(* The tokens that enter and leave the prediction markets: the handler of  *)
(* processed Ethereum events, the withdrawal to the token manager and the  *)
(* transfer between accounts (pallets/prediction-markets/src/lib.rs), with *)
(* the conversion between a token's decimals and the markets' DECIMALS.    *)
(*                                                                         *)
(* The operations work on a store                                          *)
(*   [reg, free, tokens, MarketAdmin, VaultAccount, ...]                   *)
(* with the registry, the free balances of the foreign assets (AssetManager*)
(* is orml-currencies, external), the balances in the token manager        *)
(* (external) and the accounts the root sets.                              *)
(***************************************************************************)
EXTENDS EthAssetRegistry, FiniteSetsExt

CONSTANTS
  Accounts,     \* the users
  Treasury,     \* where the dust of killed accounts goes
  Bridge,       \* the account an Erc20 transfer to the bridge contract names
  DECIMALS,     \* the decimals of every balance in the markets
  MaxBalance,   \* the largest Balance (u128::MAX)
  Admins        \* the accounts that may be set as admin or vault

ASSUME BridgeAssumption ==
  /\ DECIMALS \in Nat
  /\ MaxBalance \in Nat
  /\ {Treasury, Bridge} \cap Accounts = {}

Holders == Accounts \cup {Treasury, Bridge} \cup Admins

SaturatingMul(x, y) == Min({x * y, MaxBalance})

\* 10u128.saturating_pow(n)
Pow10(n) == Min({10 ^ n, MaxBalance})

adjust_fractional_places(meta, amount, direction) ==
  LET factor == Pow10(IF meta.decimals > DECIMALS THEN meta.decimals - DECIMALS
                      ELSE DECIMALS - meta.decimals)
      scalesDown == (meta.decimals > DECIMALS) = (direction = "Incoming")
  IN  CASE meta = None -> amount
        [] meta # None /\ scalesDown -> amount \div factor
        [] OTHER -> SaturatingMul(amount, factor)

\* AssetManager::deposit: a new account must reach the existential deposit.
can_deposit(s, asset, who, n) ==
  n = 0 \/ s.free[asset][who] + n >= metadata(s.reg, asset).existential_deposit

deposit(s, asset, who, n) == [s EXCEPT !.free[asset][who] = @ + n]

\* What an account keeps below the existential deposit is dust.
Dusted(s, asset, who) ==
  IF s.free[asset][who] < metadata(s.reg, asset).existential_deposit
  THEN [s EXCEPT !.free[asset][Treasury] = @ + s.free[asset][who],
                 !.free[asset][who] = 0]
  ELSE s

withdraw(s, asset, who, n) ==
  Dusted([s EXCEPT !.free[asset][who] = @ - n], asset, who)

\* TokenInterface: the token manager keeps a token in the token's own units.
deposit_tokens(s, token, who, n) == [s EXCEPT !.tokens[token][who] = @ + n]

can_withdraw_tokens(s, token, who, amount) ==
  /\ amount # 0
  /\ asset_id(s.reg, token) # None
  /\ s.free[asset_id(s.reg, token)][who] >= amount

do_withdraw_tokens(s, token, who, amount) ==
  LET asset == asset_id(s.reg, token)
      out   == adjust_fractional_places(metadata(s.reg, asset), amount, "Outgoing")
  IN  deposit_tokens(withdraw(s, asset, who, amount), token, who, out)

can_transfer_tokens(s, token, from, to, amount) ==
  LET asset == asset_id(s.reg, token)
  IN  /\ asset # None
      /\ \/ amount = 0 \/ from = to
         \/ /\ s.free[asset][from] >= amount
            /\ can_deposit(s, asset, to, amount)

do_transfer_tokens(s, token, from, to, amount) ==
  LET asset == asset_id(s.reg, token)
  IN  IF amount = 0 \/ from = to THEN s
      ELSE deposit(withdraw(s, asset, from, amount), asset, to, amount)

\* The account a lift is for; a direct transfer names nobody, so the vault
\* takes it once one is set.
Receiver(s, event) ==
  IF event.kind = "Erc20DirectTransfer" /\ s.VaultAccount # None
  THEN s.VaultAccount ELSE event.receiver

\* Where a lift goes: to the token manager when the token is no asset here or
\* when the amount is too small to count in the markets' decimals.
GoesToTokenManager(s, event) ==
  LET asset == asset_id(s.reg, event.token)
  IN  \/ asset = None
      \/ /\ adjust_fractional_places(metadata(s.reg, asset), event.amount, "Incoming") = 0
         /\ event.amount > 0

process_lift(s, event) ==
  LET who   == Receiver(s, event)
      asset == asset_id(s.reg, event.token)
      n     == adjust_fractional_places(metadata(s.reg, asset), event.amount, "Incoming")
  IN  CASE event.kind \notin {"LiftedToPredictionMarket", "Erc20DirectTransfer"} ->
             [ok |-> TRUE, s |-> s]
        [] OTHER ->
             IF GoesToTokenManager(s, event)
             THEN [ok |-> TRUE, s |-> deposit_tokens(s, event.token, who, event.amount)]
             ELSE IF can_deposit(s, asset, who, n)
                  THEN [ok |-> TRUE, s |-> deposit(s, asset, who, n)]
                  ELSE [ok |-> FALSE, s |-> s]

set_config_option(s, config) ==
  CASE config.kind = "MarketAdmin"  -> [s EXCEPT !.MarketAdmin = config.account]
    [] config.kind = "VaultAccount" -> [s EXCEPT !.VaultAccount = config.account]

Supply(s, asset) == MapThenSumSet(LAMBDA h : s.free[asset][h], Holders)

InTokenManager(s, token) == MapThenSumSet(LAMBDA h : s.tokens[token][h], Holders)
=============================================================================
