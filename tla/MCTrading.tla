----------------------------- MODULE MCTrading -----------------------------
(* Instances of module Trading: see the README for what each one shows.    *)
EXTENDS Trading, TLC

CONSTANTS ann, bob, cat, dan

MCUsers == {ann, bob}

MCScalar == {"Long", "Short"}

MCDeposits == [a \in MCScalar |-> 1] @@ [a \in {Base} |-> 2]

MCDeployments ==
  {[amount |-> 4, reserves |-> [a \in MCScalar |-> 4], liquidity |-> 1]}

\* A pool whose price is at its limit, a buy that takes a little, a buy the
\* logarithm refuses, a trade that may be large.
MCPicks == {[until |-> 0, out |-> 1, lnOk |-> TRUE],
            [until |-> 3, out |-> 1, lnOk |-> TRUE],
            [until |-> 3, out |-> 1, lnOk |-> FALSE]}

MCOpenings ==
  LET pool  == [who |-> ann, d |-> CHOOSE d \in MCDeployments : TRUE, fee |-> 1]
      order(who, give, n, get, m) ==
        [who |-> who, give |-> give, amount |-> n, get |-> get, asked |-> m]
  IN  {[sets |-> 8, swapFee |-> 2, deploy |-> p,
        accounts |-> [winnings |-> None, swap |-> None, exit |-> None],
        orders |-> <<order(ann, "Long", 4, Base, 3), order(bob, Base, 3, "Long", 4)>>] :
         p \in {None, pool}}

MCOrderLists == {<<>>, <<1>>, <<2>>, <<1, 3>>}
---------------------------------------------------------------------------
(* The providers of a pool. *)

LPUsers == {ann, bob, cat, dan}

LPOutcomes == {"Yes", "No"}

LPDeposits == [a \in LPOutcomes |-> 1] @@ [a \in {Base} |-> 1]

LPDeployments ==
  {[amount |-> 8, reserves |-> ("Yes" :> 8 @@ "No" :> 5), liquidity |-> 6]}

LPPicks == {[until |-> 0, out |-> 1, lnOk |-> TRUE]}

LPOpenings == {None} \cup
  {[sets |-> 30, swapFee |-> 0, orders |-> <<>>,
    accounts |-> [winnings |-> None, swap |-> None, exit |-> None],
    deploy |-> p] :
     p \in {None, [who |-> ann, d |-> CHOOSE d \in LPDeployments : TRUE, fee |-> 2]}}

LPSymmetry == Permutations({bob, cat, dan})
===========================================================================
