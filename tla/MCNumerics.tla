---------------------------- MODULE MCNumerics ----------------------------
(* The two numerical algorithms side by side: a behaviour either trades with *)
(* a pool or searches for a preimage.                                        *)
EXTENDS ScoringRule, Bisection, TLC

vars == <<poolVars, searchVars>>

\* A search that has been answered at once.
NoSearch ==
  /\ fn = [x \in Numbers |-> x] /\ value = 0 /\ max_iterations = 0 /\ tol = 1
  /\ from = 0 /\ to = 0 /\ min = 0 /\ max = 0 /\ fmax = 0 /\ mid = 0 /\ iteration = 0
  /\ pc = "error"

\* A pool that is as it was deployed and is not traded with.
NoPool ==
  /\ LET d == calculate_reserves_from_spot_prices(
               CHOOSE amount \in Deposits : TRUE, CHOOSE prices \in SpotPrices : TRUE)
     IN  reserves = d.reserves /\ liquidity = d.liquidity
  /\ held = [a \in Assets |-> 0] /\ paid = 0 /\ trades = MaxTrades

Init == (PoolInit /\ NoSearch) \/ (NoPool /\ SearchInit)

Next == (Trade /\ UNCHANGED searchVars) \/ (SearchNext /\ UNCHANGED poolVars)

Spec == Init /\ [][Next]_vars

MCAssets == {"A", "B"}

MCSpotPrices == {[a \in {"A", "B"} |-> BASE \div 2], "A" :> 30 @@ "B" :> BASE - 30}

\* Growing, falling, flat in places, and one that is not monotonous.
MCFunctions ==
  {[x \in 0..MaxValue |-> x], [x \in 0..MaxValue |-> MaxValue - x],
   [x \in 0..MaxValue |-> 2 * x + 1], [x \in 0..MaxValue |-> 2 * (x \div 3)],
   [x \in 0..MaxValue |-> (MaxValue - x) \div 2], [x \in 0..MaxValue |-> (3 * x) % 5]}
===========================================================================
