------------------------------- MODULE MCCourt -------------------------------
(* Small instances of Court.                                                *)
EXTENDS Court, TLC

CONSTANTS m1, m2

Join(a, n, d, blocks) == [who |-> a, amount |-> n, delegations |-> d, at |-> blocks]

MCBalances == (1 :> 6) @@ (2 :> 4) @@ (3 :> 4)

MCJoins == {Join(1, 2, {}, {0}), Join(1, 3, {}, {3}), Join(2, 2, {}, {0}), Join(3, 1, {1}, {0}),
            Join(3, 2, {1, 2}, {0})}

(* The second juror may copy the first one's commitment.                    *)
MCCopies == [a \in Accounts |-> IF a = 2 THEN {[juror |-> 1, vote_item |-> 1]} ELSE {}]

(* One juror with stake for two draws, in two courts that overlap.          *)
LockBalances == (1 :> 5) @@ (2 :> 3)
LockJoins == {Join(1, 2, {}, {0}), Join(2, 1, {}, {0})}
=============================================================================
