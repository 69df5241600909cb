------------------------------ MODULE Tokens ------------------------------
(***************************************************************************)
(* The asset ledger the trading pallets share (the runtime's AssetManager, *)
(* orml-currencies over orml-tokens, not part of this repository), as far  *)
(* as those pallets use it, and the result type their operations return.   *)
(*                                                                         *)
(* An operation works on a store, the record of all storage items, and     *)
(* returns [err, s]: the error, if any, and the store with every write     *)
(* that was made before the operation ended.  An extrinsic that ends in an *)
(* error is rolled back by its storage transaction; an error that a caller *)
(* inside the transaction handles is not, so the partial writes matter.    *)
(***************************************************************************)
EXTENDS Integers, Sequences, FiniteSets, SequencesExt, FiniteSetsExt, Functions

CONSTANTS
  Users,                \* the accounts that trade
  Outcomes,             \* the outcome assets of the market
  Base,                 \* the base asset of the market
  ExistentialDeposits,  \* [Outcomes \cup {Base} -> Nat], runtime/src/lib.rs
  Market,               \* the account that holds the collateral of the sets
  PoolAccount,          \* the account of the automated market maker's pool
  Vault,                \* the account the admin lets fees be paid to
  Treasury,             \* where dust is sent
  None                  \* no account, no pool

Assets == Outcomes \cup {Base}

\* The pallet accounts never killed for holding too little; the pool's account
\* is not one of them.
DustRemovalWhitelist == {Market, Treasury}

Accounts == Users \cup {Market, PoolAccount, Vault, Treasury}

Ok(s)   == [err |-> "none", s |-> s]
Fails(s, error) == [err |-> error, s |-> s]
Hard(s) == [err |-> "hard", s |-> s]

\* The code's `?`: go on only if the step before did not fail.
Then(r, Op(_)) == IF r.err = "none" THEN Op(r.s) ELSE r

Held(s, a, who) == s.free[a][who] + s.reserved[a][who]

\* All units of an asset, whoever holds them.
Supply(s, a) == MapThenSumSet(LAMBDA who : Held(s, a, who), Accounts)

\* An account left with less than the existential deposit loses it as dust.
Dusted(s, a, who) ==
  IF /\ who \notin DustRemovalWhitelist
     /\ Held(s, a, who) < ExistentialDeposits[a]
     /\ s.reserved[a][who] = 0
  THEN [s EXCEPT !.free[a][Treasury] = @ + s.free[a][who], !.free[a][who] = 0]
  ELSE s

transfer(s, a, from, to, n) ==
  IF n = 0 \/ from = to THEN Ok(s)
  ELSE IF \/ s.free[a][from] < n
          \/ /\ to \notin DustRemovalWhitelist
             /\ Held(s, a, to) + n < ExistentialDeposits[a]
       THEN Hard(s)
       ELSE Ok(Dusted([s EXCEPT !.free[a][from] = @ - n, !.free[a][to] = @ + n],
                      a, from))

deposit(s, a, who, n) ==
  IF n = 0 THEN Ok(s)
  ELSE IF Held(s, a, who) = 0 /\ n < ExistentialDeposits[a] THEN Hard(s)
       ELSE Ok([s EXCEPT !.free[a][who] = @ + n])

\* `withdraw`, and `slash` of an amount the caller knows to be free.
withdraw(s, a, who, n) ==
  IF s.free[a][who] < n THEN Hard(s)
  ELSE Ok(Dusted([s EXCEPT !.free[a][who] = @ - n], a, who))

reserve_named(s, a, who, n) ==
  IF s.free[a][who] < n THEN Hard(s)
  ELSE Ok([s EXCEPT !.free[a][who] = @ - n, !.reserved[a][who] = @ + n])

\* Frees what is reserved of n and tells nobody what was missing.
unreserve_named(s, a, who, n) ==
  LET k == Min({n, s.reserved[a][who]})
  IN  [s EXCEPT !.free[a][who] = @ + k, !.reserved[a][who] = @ - k]

\* Moves what is reserved of n to another account's free balance.
repatriate_reserved_named(s, a, from, to, n) ==
  LET k == Min({n, s.reserved[a][from]})
  IN  IF from = to THEN Ok(unreserve_named(s, a, from, n))
      ELSE Ok(Dusted([s EXCEPT !.reserved[a][from] = @ - k,
                               !.free[a][to] = @ + k], a, from))
===========================================================================
