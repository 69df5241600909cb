--------------------------- MODULE SignedLifetime ---------------------------
(***************************************************************************)
(* Calls that are signed for a number of blocks and carry no nonce: the    *)
(* signed_* extrinsics of neo-swaps, node-manager and watchtower.  Until   *)
(* the signature is too old it may be presented again; what it does then is*)
(* up to the call.                                                         *)
(*                                                                         *)
(* A call is a record [fn, block_number, ...arguments], a proof is         *)
(* [signer, relayer, signature], a signature [by, payload].                *)
(***************************************************************************)
EXTENDS Integers

CONSTANT SignedTxLifetime

Payload(context, relayer, args, block_number) ==
  [context |-> context, relayer |-> relayer, args |-> args, block_number |-> block_number]

(* neo-swaps *)

encode_signed_join_params(relayer, c) ==
  Payload("join", relayer, <<c.market, c.shares, c.amounts>>, c.block_number)

encode_signed_withdraw_fees_params(relayer, c) ==
  Payload("withdraw_fees", relayer, <<c.market>>, c.block_number)

encode_signed_exit_params(relayer, c) ==
  Payload("exit", relayer, <<c.market, c.shares, c.amounts>>, c.block_number)

NeoSwapsParam(proof, c) ==
  CASE c.fn = "signed_join"          -> encode_signed_join_params(proof.relayer, c)
    [] c.fn = "signed_exit"          -> encode_signed_exit_params(proof.relayer, c)
    [] c.fn = "signed_withdraw_fees" -> encode_signed_withdraw_fees_params(proof.relayer, c)

(* node-manager *)

encode_signed_register_node_params(relayer, c) ==
  Payload("register_node", relayer, <<c.node, c.owner, c.key>>, c.block_number)

encode_signed_deregister_node_params(relayer, c) ==
  Payload("deregister_node", relayer, <<c.owner, c.list>>, c.block_number)

NodeManagerParam(proof, c) ==
  CASE c.fn = "signed_register_node"    -> encode_signed_register_node_params(proof.relayer, c)
    [] c.fn = "signed_deregister_nodes" -> encode_signed_deregister_node_params(proof.relayer, c)

(* watchtower *)

encode_signed_submit_external_proposal_params(relayer, c) ==
  Payload("submit_external_proposal", relayer, <<c.proposal>>, c.block_number)

encode_signed_submit_vote_params(relayer, c) ==
  Payload("submit_vote", relayer, <<c.proposal, c.in_favor>>, c.block_number)

WatchtowerParam(proof, c) ==
  CASE c.fn = "signed_submit_external_proposal" ->
         encode_signed_submit_external_proposal_params(proof.relayer, c)
    [] c.fn = "signed_vote" -> encode_signed_submit_vote_params(proof.relayer, c)

-----------------------------------------------------------------------------
\* verify_signature (sp_avn_common, external).
verify_signature(proof, payload) ==
  proof.signature = [by |-> proof.signer, payload |-> payload]

\* Who a call is dispatched as: the signer when the proxy pallet (external) takes
\* it from the relayer the proof names and the signature is valid.
DispatchedAs(sender, proof, valid) ==
  IF sender = proof.relayer /\ valid THEN proof.signer ELSE sender

\* The three checks every one of these calls begins with, at block `now`.
signed_for(sender, proof, payload, now) ==
  /\ sender = proof.signer
  /\ payload.block_number + SignedTxLifetime > now
  /\ verify_signature(proof, payload)

\* A proof as the signer's wallet makes it.
Sign(signer, relayer, payload) ==
  [signer |-> signer, relayer |-> relayer,
   signature |-> [by |-> signer, payload |-> payload]]
=============================================================================
