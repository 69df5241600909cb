---------------------------- MODULE SignedCalls ----------------------------
(***************************************************************************)
(* Calls a user signs and somebody else submits: the signed_* extrinsics   *)
(* of prediction-markets and of hybrid-router, their payloads, and the     *)
(* runtime's proxy configuration.  Every payload holds a nonce: the user's *)
(* own, or the user's for a market, one count in each of the two pallets.  *)
(*                                                                         *)
(* A proof is a record [signer, relayer, signature], a signature the record*)
(* [by, payload] of who signed what; a call is [fn, ...arguments].  Of the *)
(* calls, the withdrawal and the transfer are carried out here; what the   *)
(* others do is the business of the modules of those pallets, and here they*)
(* may succeed at any time.                                                *)
(***************************************************************************)
EXTENDS AssetBridge

CONSTANT MarketIds

UserCalls   == {"create_market_and_deploy_pool", "withdraw_tokens", "transfer_asset"}
MarketCalls == {"report", "redeem_shares", "buy_complete_set"}
RouterCalls == {"buy", "sell"}

Signable == UserCalls \cup MarketCalls \cup RouterCalls

NoNonces ==
  [UserNonces   |-> [u \in Accounts |-> 0],
   MarketNonces |-> [u \in Accounts |-> [m \in MarketIds |-> 0]],
   RouterNonces |-> [u \in Accounts |-> [m \in MarketIds |-> 0]]]

NonceFor(s, who, call) ==
  CASE call.fn \in UserCalls   -> s.UserNonces[who]
    [] call.fn \in MarketCalls -> s.MarketNonces[who][call.market]
    [] call.fn \in RouterCalls -> s.RouterNonces[who][call.market]

\* The encoders, of prediction-markets and of the router: the context of the
\* call, the relayer, the nonce and every argument of the call.
encode_signed_params(relayer, nonce, call) ==
  [context |-> call.fn, relayer |-> relayer, nonce |-> nonce, args |-> call]

encode_signed_buy_params(relayer, nonce, call) ==
  [context |-> "router_buy", relayer |-> relayer, nonce |-> nonce, args |-> call]

encode_signed_sell_params(relayer, nonce, call) ==
  [context |-> "router_sell", relayer |-> relayer, nonce |-> nonce, args |-> call]

get_router_call_param(s, proof, call) ==
  LET nonce == NonceFor(s, proof.signer, call)
  IN  IF call.fn = "buy" THEN encode_signed_buy_params(proof.relayer, nonce, call)
      ELSE encode_signed_sell_params(proof.relayer, nonce, call)

get_encoded_call_param(s, proof, call) ==
  encode_signed_params(proof.relayer, NonceFor(s, proof.signer, call), call)

\* verify_signature (sp_avn_common, external).
verify_signature(proof, payload) ==
  proof.signature = [by |-> proof.signer, payload |-> payload]

\* The answers of the two pallets, and the runtime's choice between them.
market_signature_is_valid(s, proof, call) ==
  verify_signature(proof, get_encoded_call_param(s, proof, call))

router_signature_is_valid(s, proof, call) ==
  verify_signature(proof, get_router_call_param(s, proof, call))

signature_is_valid(s, proof, call) ==
  IF call.fn \in RouterCalls THEN router_signature_is_valid(s, proof, call)
  ELSE market_signature_is_valid(s, proof, call)

\* AvnProxyConfig::get_proof: a call that carries a proof can be proxied.
get_proof(proof, call) == IF call.fn \in Signable THEN proof ELSE None

\* Who the call is dispatched as when `sender` submits it: the signer when the
\* proxy pallet (external) takes it from the relayer the proof names, the
\* sender otherwise.
DispatchedAs(s, sender, proof, call) ==
  {sender} \cup
  IF /\ get_proof(proof, call) # None
     /\ sender = proof.relayer
     /\ signature_is_valid(s, proof, call)
  THEN {proof.signer} ELSE {}

\* Mutant of Bumped: a transfer leaves the nonce as it was.
Bumped_NotByTransfers(s, who, call) ==
  CASE call.fn = "transfer_asset" -> s
    [] call.fn \in UserCalls \ {"transfer_asset"} -> [s EXCEPT !.UserNonces[who] = @ + 1]
    [] call.fn \in MarketCalls -> [s EXCEPT !.MarketNonces[who][call.market] = @ + 1]
    [] call.fn \in RouterCalls -> [s EXCEPT !.RouterNonces[who][call.market] = @ + 1]

Bumped(s, who, call) ==
  CASE call.fn \in UserCalls   -> [s EXCEPT !.UserNonces[who] = @ + 1]
    [] call.fn \in MarketCalls -> [s EXCEPT !.MarketNonces[who][call.market] = @ + 1]
    [] call.fn \in RouterCalls -> [s EXCEPT !.RouterNonces[who][call.market] = @ + 1]

authorised(s, who, proof, call) ==
  who = proof.signer /\ signature_is_valid(s, proof, call)

\* The signed extrinsics: the store after each of them, given that it is
\* authorised and its inner operation succeeds.  An error undoes it all, the
\* nonce included.
signed_withdraw_tokens(s, who, call) ==
  Bumped(do_withdraw_tokens(s, call.token, who, call.amount), who, call)

signed_transfer_asset(s, who, call) ==
  Bumped(do_transfer_tokens(s, call.token, who, call.to, call.amount), who, call)

signed_create_market_and_deploy_pool(s, who, call) == Bumped(s, who, call)

signed_report(s, who, call) == Bumped(s, who, call)

signed_redeem_shares(s, who, call) == Bumped(s, who, call)

signed_buy_complete_set(s, who, call) == Bumped(s, who, call)

signed_buy(s, who, call) == Bumped(s, who, call)

signed_sell(s, who, call) == Bumped(s, who, call)

can_run(s, who, call) ==
  CASE call.fn = "withdraw_tokens" -> can_withdraw_tokens(s, call.token, who, call.amount)
    [] call.fn = "transfer_asset"  ->
         can_transfer_tokens(s, call.token, who, call.to, call.amount)
    [] OTHER -> TRUE

run(s, who, call) ==
  CASE call.fn = "withdraw_tokens"  -> signed_withdraw_tokens(s, who, call)
    [] call.fn = "transfer_asset"   -> signed_transfer_asset(s, who, call)
    [] call.fn = "create_market_and_deploy_pool" ->
         signed_create_market_and_deploy_pool(s, who, call)
    [] call.fn = "report"           -> signed_report(s, who, call)
    [] call.fn = "redeem_shares"    -> signed_redeem_shares(s, who, call)
    [] call.fn = "buy_complete_set" -> signed_buy_complete_set(s, who, call)
    [] call.fn = "buy"              -> signed_buy(s, who, call)
    [] call.fn = "sell"             -> signed_sell(s, who, call)
=============================================================================
