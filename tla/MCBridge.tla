------------------------------ MODULE MCBridge ------------------------------
(* Two authors and four Ethereum transactions in two blocks: a lift the     *)
(* older pallet already processed, a lift that also shows as a transfer, a  *)
(* direct transfer too small to count, and a lift of a token that is not    *)
(* registered at first, with a transfer that cannot be parsed.              *)
EXTENDS BridgeSystem

CONSTANTS a1, a2, u1, u2, r, tA, tB, xA, xB, m1

Log(tx, kind, token, receiver, amount, block) ==
  [tx |-> tx, kind |-> kind, token |-> token, receiver |-> receiver,
   amount |-> amount, block |-> block, address |-> Bridge, intact |-> TRUE]

\* A transfer is logged by the token's contract.
Transfer(tx, token, amount, block) ==
  [Log(tx, "Erc20DirectTransfer", Zero, Bridge, amount, block) EXCEPT !.address = token]

MCChain ==
  {Log(0, "LiftedToPredictionMarket", tA, u1, 40, 1),
   Log(1, "LiftedToPredictionMarket", tA, u1, 25, 1),
   Transfer(1, tA, 25, 1),
   Transfer(2, tA, 5, 2),
   Log(3, "LiftedToPredictionMarket", tB, u1, 3, 2),
   [Transfer(3, tB, 3, 2) EXCEPT !.intact = FALSE]}

\* One of the orphans cannot be parsed.
MCOrphans ==
  {Log(4, "LiftedToPredictionMarket", tA, u1, 90, 2),
   [Log(5, "LiftedToPredictionMarket", tA, u1, 1, 1) EXCEPT !.intact = FALSE]}

MCLegacy == {<<"LiftedToPredictionMarket", 0>>}

MCFilters ==
  {EthBridgeTnfRuntimeEventsFilter,
   (EthBridgeTnfRuntimeEventsFilter \ {"LiftedToPredictionMarket"}) \cup {"Erc20DirectTransfer"}}

MCMeta(token, decimals) ==
  [decimals |-> decimals, existential_deposit |-> 1, eth_address |-> token]

MCRegistry == register_eth_asset(EmptyRegistry, tA, xA, MCMeta(tA, 2))

\* The lift of tB, 30 here, is below the existential deposit.
MCRegistrations == {<<tB, xB, [MCMeta(tB, 0) EXCEPT !.existential_deposit = 31]>>}

NoUpdate ==
  [decimals |-> None, existential_deposit |-> None, eth_address |-> None,
   additional |-> None]

MCUpdates ==
  {<<xA, [NoUpdate EXCEPT !.decimals = 1, !.eth_address = tB]>>}

MCConfigs == {[kind |-> "VaultAccount", account |-> u2]}

Signed(nonce, call) ==
  <<[signer |-> u1, relayer |-> r,
     signature |-> [by |-> u1, payload |->
       IF call.fn = "buy" THEN encode_signed_buy_params(r, nonce, call)
       ELSE encode_signed_params(r, nonce, call)]], call>>

MCSignatures ==
  {Signed(0, [fn |-> "transfer_asset", token |-> tA, to |-> u2, amount |-> 1]),
   Signed(0, [fn |-> "withdraw_tokens", token |-> tA, amount |-> 1]),
   Signed(1, [fn |-> "withdraw_tokens", token |-> tA, amount |-> 1]),
   Signed(0, [fn |-> "report", market |-> m1]),
   Signed(0, [fn |-> "buy", market |-> m1])}

MCWithdrawals == {<<u1, tA, 2>>}
=============================================================================
