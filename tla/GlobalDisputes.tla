---------------------------- MODULE GlobalDisputes ----------------------------
(***************************************************************************)
(* The global disputes pallet: a token-weighted vote over the outcomes of  *)
(* a disputed market (pallets/global-disputes/src).  Every extrinsic and   *)
(* every call of its API is an action; the market pallet that calls the    *)
(* API is reduced to the set of markets that are still unresolved, and the *)
(* currency to free balances with one lock per account.  An extrinsic that *)
(* returns an error changes nothing: its action is not enabled.            *)
(***************************************************************************)
EXTENDS Integers, Sequences, FiniteSets, FiniteSetsExt, SequencesExt

CONSTANTS
  Markets, Accounts, OutcomeReports, None,
  InitialItems,               \* the lists start_global_dispute is called with
  Balances,                   \* free balance of each account at the start
  VoteAmounts,                \* amounts that are voted with
  VotingOutcomeFee, MinOutcomeVoteAmount, MaxGlobalDisputeVotes, MaxOwners,
  RemoveKeysLimit, AddOutcomePeriod, GdVotingPeriod,
  MaxBlock                    \* bound: the last block

ASSUME GlobalDisputeConstants ==
  /\ VotingOutcomeFee \in Nat /\ MinOutcomeVoteAmount \in Nat \ {0}
  /\ Balances \in [Accounts -> Nat] /\ VoteAmounts \subseteq Nat
  /\ {MaxGlobalDisputeVotes, MaxOwners, RemoveKeysLimit} \subseteq Nat \ {0}
  /\ {AddOutcomePeriod, GdVotingPeriod, MaxBlock} \subseteq Nat

VARIABLES
  GlobalDisputesInfo,         \* market -> the dispute and its leader, or None
  Outcomes,                   \* market -> outcome -> OutcomeInfo, or None
  Locks,                      \* account -> market -> amount voted with, 0 for no entry
  lock,                       \* account -> currency lock under GlobalDisputeLockId
  free,                       \* account -> free balance
  reward_account,             \* market -> balance of its reward account
  autoResolve,                \* market -> block at which it is resolved, or None
  unresolved,                 \* markets that are neither resolved nor removed
  now,
  paid,                       \* history: market -> initial amounts and fees in its sums
  decided                     \* history: market -> possession of the outcome that won

vars == <<GlobalDisputesInfo, Outcomes, Locks, lock, free, reward_account, autoResolve,
          unresolved, now, paid, decided>>

Paid(owner, fee) == [kind |-> "Paid", owners |-> <<owner>>, fee |-> fee]
Shared(owners) == [kind |-> "Shared", owners |-> owners, fee |-> 0]
OutcomeInfo(sum, possession) == [outcome_sum |-> sum, possession |-> possession]
Active(add_end, end) == [kind |-> "Active", add_outcome_end |-> add_end, vote_end |-> end]
Finished == [kind |-> "Finished", add_outcome_end |-> 0, vote_end |-> 0]
Destroyed == [Finished EXCEPT !.kind = "Destroyed"]

GdIs(m, kind) == GlobalDisputesInfo[m] # None /\ GlobalDisputesInfo[m].status.kind = kind
Present(m) == {o \in OutcomeReports : Outcomes[m][o] # None}

Init ==
  /\ GlobalDisputesInfo = [m \in Markets |-> None]
  /\ Outcomes = [m \in Markets |-> [o \in OutcomeReports |-> None]]
  /\ Locks = [a \in Accounts |-> [m \in Markets |-> 0]]
  /\ lock = [a \in Accounts |-> 0]
  /\ free = Balances
  /\ reward_account = [m \in Markets |-> 0]
  /\ autoResolve = [m \in Markets |-> None]
  /\ unresolved = Markets
  /\ now = 0
  /\ paid = [m \in Markets |-> 0]
  /\ decided = [m \in Markets |-> None]

-----------------------------------------------------------------------------
(* Mutant of update_winner: the latest outcome always takes the lead. *)
update_winner_Latest(gd, outcome, info) ==
  IF gd = None
  THEN [winner_outcome |-> outcome, outcome_info |-> info, status |-> Active(0, 0)]
  ELSE [gd EXCEPT !.winner_outcome = outcome, !.outcome_info.outcome_sum = info.outcome_sum]

(* The leader is cached: an outcome whose sum reaches the cached sum takes  *)
(* the lead.  The possession cached with it is the first outcome's.         *)
update_winner(gd, outcome, info) ==
  IF gd = None
  THEN [winner_outcome |-> outcome, outcome_info |-> info, status |-> Active(0, 0)]
  ELSE IF info.outcome_sum >= gd.outcome_info.outcome_sum
       THEN [gd EXCEPT !.winner_outcome = outcome,
                       !.outcome_info.outcome_sum = info.outcome_sum]
       ELSE gd

(* One initial item joins the outcomes `s.outcomes` and the dispute `s.gd`. *)
AddInitialItem(s, item) ==
  LET old == s.outcomes[item.outcome]
      info == IF old = None
              THEN OutcomeInfo(item.amount, Shared(<<item.owner>>))
              ELSE OutcomeInfo(old.outcome_sum + item.amount,
                               Shared(Append(old.possession.owners, item.owner)))
  IN [gd |-> update_winner(s.gd, item.outcome, info),
      outcomes |-> [s.outcomes EXCEPT ![item.outcome] = info]]

start_global_dispute(m, initial_items) ==
  LET s == FoldLeft(AddInitialItem,
                    [gd |-> None, outcomes |-> Outcomes[m]], initial_items)
      add_outcome_end == now + AddOutcomePeriod
      vote_end == add_outcome_end + GdVotingPeriod
  IN /\ m \in unresolved
     /\ GlobalDisputesInfo[m] = None
     /\ \A o \in OutcomeReports : s.outcomes[o] # None
                                    => Len(s.outcomes[o].possession.owners) <= MaxOwners
     /\ s.gd # None
     /\ vote_end <= MaxBlock
     /\ GlobalDisputesInfo' = [GlobalDisputesInfo EXCEPT
                                 ![m] = [s.gd EXCEPT !.status = Active(add_outcome_end, vote_end)]]
     /\ Outcomes' = [Outcomes EXCEPT ![m] = s.outcomes]
     /\ autoResolve' = [autoResolve EXCEPT ![m] = vote_end]
     /\ paid' = [paid EXCEPT ![m] = FoldLeft(LAMBDA x, i : x + i.amount, 0, initial_items)]
     /\ UNCHANGED <<Locks, lock, free, reward_account, unresolved, now, decided>>

add_vote_outcome(owner, m, outcome) ==
  LET info == OutcomeInfo(VotingOutcomeFee, Paid(owner, VotingOutcomeFee))
  IN /\ GdIs(m, "Active")
     /\ m \in unresolved
     /\ now <= GlobalDisputesInfo[m].status.add_outcome_end
     /\ Outcomes[m][outcome] = None
     /\ free[owner] - VotingOutcomeFee > 0          \* KeepAlive
     /\ free[owner] - VotingOutcomeFee >= lock[owner]
     /\ free' = [free EXCEPT ![owner] = @ - VotingOutcomeFee]
     /\ reward_account' = [reward_account EXCEPT ![m] = @ + VotingOutcomeFee]
     /\ GlobalDisputesInfo' = [GlobalDisputesInfo EXCEPT ![m] = update_winner(@, outcome, info)]
     /\ Outcomes' = [Outcomes EXCEPT ![m][outcome] = info]
     /\ paid' = [paid EXCEPT ![m] = @ + VotingOutcomeFee]
     /\ UNCHANGED <<Locks, lock, autoResolve, unresolved, now, decided>>

(* The entry of a market accumulates what its voter voted with. *)
LockVote(locks, voter, m, amount) == [locks EXCEPT ![voter][m] = @ + amount]

(* Mutant of extend_lock: the lock is set, and may shrink. *)
extend_lock_Sets(old, amount) == amount

(* The currency's extend_lock never shrinks the lock. *)
extend_lock(old, amount) == Max({old, amount})

vote_on_outcome(voter, m, outcome, amount) ==
  LET old == Outcomes[m][outcome]
      info == [old EXCEPT !.outcome_sum = @ + amount]
      locks == LockVote(Locks, voter, m, amount)
      status == GlobalDisputesInfo[m].status
  IN /\ amount <= free[voter]
     /\ amount >= MinOutcomeVoteAmount
     /\ GdIs(m, "Active")
     /\ status.add_outcome_end < now /\ now <= status.vote_end
     /\ old # None
     /\ IF Locks[voter][m] # 0
        THEN Locks[voter][m] + amount <= free[voter]
        ELSE Cardinality({n \in Markets : Locks[voter][n] # 0}) < MaxGlobalDisputeVotes
     /\ GlobalDisputesInfo' = [GlobalDisputesInfo EXCEPT ![m] = update_winner(@, outcome, info)]
     /\ Outcomes' = [Outcomes EXCEPT ![m][outcome] = info]
     /\ Locks' = locks
     /\ lock' = [lock EXCEPT ![voter] = extend_lock(@, locks[voter][m])]
     /\ UNCHANGED <<free, reward_account, autoResolve, unresolved, now, paid, decided>>

(* Entries of finished and destroyed disputes go; the lock shrinks to the   *)
(* largest entry that is left.                                              *)
unlock_vote_balance(voter) ==
  LET kept == [m \in Markets |-> IF GdIs(m, "Active") THEN Locks[voter][m] ELSE 0]
  IN /\ Locks' = [Locks EXCEPT ![voter] = kept]
     /\ lock' = [lock EXCEPT ![voter] = Max({0} \cup {kept[m] : m \in Markets})]
     /\ UNCHANGED <<GlobalDisputesInfo, Outcomes, free, reward_account, autoResolve,
                    unresolved, now, paid, decided>>

-----------------------------------------------------------------------------
(* drain_prefix(m).take(RemoveKeysLimit): the first keys in storage order,  *)
(* which is the order of hashes.                                            *)
Drained(present) ==
  {s \in SUBSET present :
     Cardinality(s) = Min({RemoveKeysLimit, Cardinality(present)})}

Without(m, gone) == [o \in OutcomeReports |-> IF o \in gone THEN None ELSE Outcomes[m][o]]

FeesOf(m, outcomes, owner) ==
  MapThenSumSet(LAMBDA o : Outcomes[m][o].possession.fee,
                {o \in outcomes : /\ Outcomes[m][o].possession.kind = "Paid"
                                  /\ Outcomes[m][o].possession.owners = <<owner>>})

(* What refund_vote_fees pays back to `owner` for the outcomes it drains.   *)
Refunds(m, gone, owner) == FeesOf(m, gone, owner)

refund_vote_fees(m) ==
  /\ GdIs(m, "Destroyed")
  /\ \E gone \in Drained(Present(m)) :
       /\ free' = [a \in Accounts |-> free[a] + Refunds(m, gone, a)]
       /\ reward_account' = [reward_account EXCEPT
                               ![m] = @ - MapThenSumSet(LAMBDA a : Refunds(m, gone, a), Accounts)]
       /\ Outcomes' = [Outcomes EXCEPT ![m] = Without(m, gone)]
  /\ UNCHANGED <<GlobalDisputesInfo, Locks, lock, autoResolve, unresolved, now, paid, decided>>

(* Mutant of SaveWinner: the winner is drained without saving its owners. *)
SaveWinner_Forgets(gd, info) == gd

(* The first purge moves the winning outcome into GlobalDisputesInfo.       *)
SaveWinner(gd, info) == IF info = None THEN gd ELSE [gd EXCEPT !.outcome_info = info]

purge_outcomes(m) ==
  LET winner == GlobalDisputesInfo[m].winner_outcome
  IN /\ GdIs(m, "Finished")
     /\ GlobalDisputesInfo' = [GlobalDisputesInfo EXCEPT ![m] = SaveWinner(@, Outcomes[m][winner])]
     /\ \E gone \in Drained(Present(m) \ {winner}) :
          Outcomes' = [Outcomes EXCEPT ![m] = Without(m, gone \cup {winner})]
     /\ UNCHANGED <<Locks, lock, free, reward_account, autoResolve, unresolved, now, paid, decided>>

(* What each account is paid.  Shared owners get equal parts and the        *)
(* remainder stays on the reward account; a single payer takes it all.      *)
reward_shared_possession(reward, owners) ==
  [a \in Accounts |->
     Cardinality({i \in DOMAIN owners : owners[i] = a}) * (reward \div Len(owners))]

reward_paid_possession(reward, owner) ==
  [a \in Accounts |-> IF a = owner THEN reward ELSE 0]

reward_outcome_owner(m) ==
  LET possession == GlobalDisputesInfo[m].outcome_info.possession
      paidOut == IF possession.kind = "Paid"
                 THEN reward_paid_possession(reward_account[m], possession.owners[1])
                 ELSE reward_shared_possession(reward_account[m], possession.owners)
  IN /\ Present(m) = {}
     /\ GdIs(m, "Finished")
     /\ reward_account[m] # 0
     /\ free' = [a \in Accounts |-> free[a] + paidOut[a]]
     /\ reward_account' = [reward_account EXCEPT
                             ![m] = @ - MapThenSumSet(LAMBDA a : paidOut[a], Accounts)]
     /\ UNCHANGED <<GlobalDisputesInfo, Outcomes, Locks, lock, autoResolve, unresolved, now,
                    paid, decided>>

-----------------------------------------------------------------------------
(* determine_voting_winner of the markets in `ms`, called when the market   *)
(* pallet resolves them: the leader wins.                                   *)
determine_voting_winner(ms) ==
  /\ GlobalDisputesInfo' = [m \in Markets |->
       IF m \in ms /\ GlobalDisputesInfo[m] # None
       THEN [GlobalDisputesInfo[m] EXCEPT !.status = Finished] ELSE GlobalDisputesInfo[m]]
  /\ decided' = [m \in Markets |->
       IF m \in ms /\ GlobalDisputesInfo[m] # None
       THEN Outcomes[m][GlobalDisputesInfo[m].winner_outcome].possession ELSE decided[m]]
  /\ unresolved' = unresolved \ ms
  /\ UNCHANGED <<Outcomes, Locks, lock, free, reward_account, autoResolve, paid>>

(* on_initialize of the market pallet resolves the markets that are due.    *)
NewBlock ==
  /\ now < MaxBlock
  /\ now' = now + 1
  /\ determine_voting_winner({m \in unresolved : autoResolve[m] = now + 1})

(* admin_move_market_to_resolved: the vote is cut short.                    *)
ResolveEarly(m) ==
  /\ m \in unresolved
  /\ GlobalDisputesInfo[m] # None
  /\ determine_voting_winner({m})
  /\ UNCHANGED now

(* The market is removed while its dispute runs.                            *)
destroy_global_dispute(m) ==
  /\ m \in unresolved
  /\ GdIs(m, "Active")
  /\ GlobalDisputesInfo' = [GlobalDisputesInfo EXCEPT ![m].status = Destroyed]
  /\ autoResolve' = [autoResolve EXCEPT ![m] = None]
  /\ unresolved' = unresolved \ {m}
  /\ UNCHANGED <<Outcomes, Locks, lock, free, reward_account, now, paid, decided>>

Next ==
  \/ NewBlock
  \/ \E m \in Markets :
       \/ \E items \in InitialItems : start_global_dispute(m, items)
       \/ \E a \in Accounts, o \in OutcomeReports :
            \/ add_vote_outcome(a, m, o)
            \/ \E amount \in VoteAmounts : vote_on_outcome(a, m, o, amount)
       \/ refund_vote_fees(m)
       \/ purge_outcomes(m)
       \/ reward_outcome_owner(m)
       \/ ResolveEarly(m)
       \/ destroy_global_dispute(m)
  \/ \E a \in Accounts : unlock_vote_balance(a)

Spec == Init /\ [][Next]_vars

-----------------------------------------------------------------------------
(* The leader update_winner caches is right: while the vote runs, the       *)
(* cached outcome exists, its cached sum is its own, and no other outcome   *)
(* has a larger one.                                                        *)
LeaderHasTheLargestSum ==
  \A m \in Markets : GdIs(m, "Active") =>
    LET gd == GlobalDisputesInfo[m]
    IN /\ gd.winner_outcome \in Present(m)
       /\ gd.outcome_info.outcome_sum = Outcomes[m][gd.winner_outcome].outcome_sum
       /\ \A o \in Present(m) : Outcomes[m][o].outcome_sum <= gd.outcome_info.outcome_sum

(* Every token that vote_on_outcome counts is locked: while a vote runs,    *)
(* the sums of its outcomes are the initial amounts and fees plus what the  *)
(* Locks of all voters hold for the market, and no entry is more than its   *)
(* voter owns.                                                              *)
VotesAreBackedByLocks ==
  /\ \A m \in Markets : GdIs(m, "Active") =>
       MapThenSumSet(LAMBDA o : Outcomes[m][o].outcome_sum, Present(m))
         = paid[m] + MapThenSumSet(LAMBDA a : Locks[a][m], Accounts)
  /\ \A a \in Accounts : lock[a] <= free[a]

(* The one currency lock of an account covers its votes in all markets and  *)
(* no more: extend_lock and unlock_vote_balance keep it at the largest      *)
(* entry of Locks.                                                          *)
LockIsTheLargestVote ==
  \A a \in Accounts : lock[a] = Max({0} \cup {Locks[a][m] : m \in Markets})

(* The reward account holds the fees of the outcomes that are still there   *)
(* while a dispute runs or is being refunded, so no refund of               *)
(* refund_vote_fees fails and none is left behind.                          *)
RewardAccountHoldsTheFees ==
  \A m \in Markets : GdIs(m, "Active") \/ GdIs(m, "Destroyed") =>
    reward_account[m] = MapThenSumSet(LAMBDA a : FeesOf(m, Present(m), a), Accounts)

(* A step that takes money from a reward account gives it to the owners of  *)
(* the outcome that had won when the winner was determined, or back to      *)
(* payers of a destroyed dispute: purge_outcomes saves the right owners,    *)
(* although update_winner never caches them.                                *)
RewardsGoToTheWinner ==
  [][\A m \in Markets, a \in Accounts :
       reward_account'[m] < reward_account[m] /\ free'[a] > free[a]
         => \/ GdIs(m, "Destroyed")
            \/ a \in Range(decided[m].owners)]_vars

(* No money of a vote is missing: what vote_on_outcome counts is locked,    *)
(* the lock of an account is its largest vote, and the reward account holds *)
(* the fees that may have to go back.                                       *)
FundsAreAccounted ==
  VotesAreBackedByLocks /\ LockIsTheLargestVote /\ RewardAccountHoldsTheFees
=============================================================================
