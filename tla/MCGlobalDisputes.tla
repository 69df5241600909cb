--------------------------- MODULE MCGlobalDisputes ---------------------------
(* Small instances of GlobalDisputes: two markets whose disputes overlap.   *)
EXTENDS GlobalDisputes, TLC

CONSTANTS m1, m2, a1, a2, o1, o2

Item(o, a, n) == [outcome |-> o, owner |-> a, amount |-> n]

(* The report alone; the report and two appealed outcomes of the court, the *)
(* second of which repeats.                                                 *)
MCInitialItems == {<<Item(o1, a1, 0)>>,
                   <<Item(o1, a1, 0), Item(o2, a2, 0), Item(o2, a2, 0)>>}

MCBalances == (a1 :> 1) @@ (a2 :> 3)

MarketSymmetry == Permutations(Markets)
=============================================================================
