-------------------------- MODULE EthAssetRegistry --------------------------
(***************************************************************************)
(* The registry of assets that come from Ethereum                          *)
(* (pallets/eth-asset-registry): what is known of an asset, and the lookup *)
(* from a token's Ethereum address to the asset that stands for it here.   *)
(*                                                                         *)
(* A registry is a record [Metadata, EthAddressToAssetId]; an operation    *)
(* has a predicate that says when it succeeds and an operator that gives   *)
(* the registry after it.  The name and the symbol of an asset are left    *)
(* out: nothing reads them.                                                *)
(***************************************************************************)
EXTENDS Integers, FiniteSets

CONSTANTS
  AssetIds,   \* the foreign assets
  TokenAddresses,  \* the addresses of token contracts on Ethereum
  Zero,       \* H160::zero(), not one of TokenAddresses
  None        \* an absent value

EmptyRegistry ==
  [Metadata |-> [a \in AssetIds |-> None],
   EthAddressToAssetId |-> [t \in TokenAddresses \cup {Zero} |-> None]]

asset_id(reg, token) == reg.EthAddressToAssetId[token]

metadata(reg, asset) == reg.Metadata[asset]

\* The addresses that lead to an asset.
AddressesOf(reg, asset) == {t \in TokenAddresses : asset_id(reg, t) = asset}

can_insert_eth_address_mapping(reg, token) == asset_id(reg, token) = None

do_insert_eth_address_mapping(reg, token, asset) ==
  [reg EXCEPT !.EthAddressToAssetId[token] = asset]

\* The runtime's asset processor refuses a registration without an asset id
\* and does nothing afterwards.
pre_register(asset) == asset # None

\* The address is looked up under `token`, the
\* metadata carries an address of its own, and nothing compares the two.
can_register_eth_asset(reg, token, asset) ==
  /\ token # Zero
  /\ pre_register(asset)
  /\ metadata(reg, asset) = None
  /\ can_insert_eth_address_mapping(reg, token)

register_eth_asset(reg, token, asset, meta) ==
  do_insert_eth_address_mapping([reg EXCEPT !.Metadata[asset] = meta], token, asset)

\* The lookup of the address in the metadata is removed, whichever asset it
\* leads to, before the new one is inserted.
Unmapped(reg, old) == [reg EXCEPT !.EthAddressToAssetId[old] = None]

do_update_eth_address(reg, asset, old, new) ==
  IF new = old THEN reg
  ELSE do_insert_eth_address_mapping(Unmapped(reg, old), new, asset)

Or(value, default) == IF value = None THEN default ELSE value

\* An update is a record [decimals, eth_address, existential_deposit,
\* additional] of values or None; `additional`, the custom metadata, is the
\* address it carries.
can_update_eth_asset(reg, asset, u) ==
  /\ metadata(reg, asset) # None
  /\ LET old == metadata(reg, asset).eth_address
         new == Or(u.eth_address, old)
     IN  new # old => can_insert_eth_address_mapping(Unmapped(reg, old), new)

update_eth_asset(reg, asset, u) ==
  LET meta  == metadata(reg, asset)
      moved == IF u.eth_address = None THEN reg
               ELSE do_update_eth_address(reg, asset, meta.eth_address, u.eth_address)
  IN  [moved EXCEPT !.Metadata[asset] =
         [decimals            |-> Or(u.decimals, meta.decimals),
          existential_deposit |-> Or(u.existential_deposit, meta.existential_deposit),
          eth_address         |-> Or(u.additional, Or(u.eth_address, meta.eth_address))]]
=============================================================================
