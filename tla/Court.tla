-------------------------------- MODULE Court --------------------------------
(***************************************************************************)
(* The court pallet (pallets/court/src): the stake-weighted pool of jurors *)
(* and delegators, the random draws, the rounds of secret votes, appeals,  *)
(* the reassignment of stakes and the inflation paid to the pool.          *)
(*                                                                         *)
(* A market is disputed at most once, so a court is named by its market.   *)
(* The market pallet is reduced to the status of the market and the block  *)
(* at which it is resolved.  Accounts and outcomes are numbers because the *)
(* code sorts by them.  A commitment is the juror and the item that were   *)
(* hashed: the salt only hides them.  Every source of randomness is a      *)
(* choice.                                                                 *)
(***************************************************************************)
EXTENDS Integers, Sequences, FiniteSets, FiniteSetsExt, Functions, SequencesExt

CONSTANTS
  Accounts, Markets, OutcomeReports, None,
  Reported,                   \* the outcome the oracle reported
  Balances,                   \* free balance of each account at the start
  Joins,                      \* [who, amount, delegations, at]: what is asked for when
  Leavers,                    \* accounts that may leave the court
  Copies,                     \* account -> commitments of others that it may send in
  DisputeBlocks,              \* blocks at which disputes are raised
  InflationBlocks,            \* blocks at which the inflation is set
  MinJurorStake, MaxCourtParticipants, MaxDelegations, MaxSelectedDraws, MaxAppeals,
  INITIAL_DRAWS_NUM, AppealBond, RequestInterval, VotePeriod, AggregationPeriod,
  AppealPeriod, InflationPeriod,
  InflationRates,             \* mints per period that set_inflation may lead to
  Accuracy,                   \* parts of a Perquintill
  MaxBlock                    \* bound: the last block

ASSUME CourtConstants ==
  /\ Accounts \subseteq Nat /\ OutcomeReports \subseteq Nat /\ Reported \in OutcomeReports
  /\ Balances \in [Accounts -> Nat]
  /\ {MinJurorStake, MaxCourtParticipants, InflationPeriod, INITIAL_DRAWS_NUM} \subseteq Nat \ {0}
  /\ {MaxAppeals, MaxDelegations, MaxSelectedDraws, AppealBond, MaxBlock} \subseteq Nat

VARIABLES
  CourtPool,                  \* items sorted by stake and account
  Participants,               \* account -> stake, lock, exit and delegations, or None
  SelectedDraws,              \* market -> account -> its draw, or None
  Courts,                     \* market -> status, appeals and round ends, or None
  RequestBlock,
  YearlyInflation,            \* what a period mints
  free, reserved,             \* account -> free balance, appeal bonds in reserve
  lock,                       \* account -> currency lock under LockId
  treasury,                   \* balance of the treasury
  market,                     \* market -> "Reported", "Disputed", "GlobalDispute", "Resolved"
  resolveAt,                  \* market -> block at which it is resolved, or None
  now,
  stranded,                   \* history: account -> bonds of courts that were removed
  settled                     \* history: account -> stake in the pool when the period began

poolVars == <<CourtPool, Participants, lock>>
courtVars == <<SelectedDraws, Courts, market, resolveAt>>
moneyVars == <<free, reserved, treasury, stranded>>
timeVars == <<now, RequestBlock, YearlyInflation, settled>>
vars == <<CourtPool, Participants, SelectedDraws, Courts, RequestBlock, YearlyInflation,
          free, reserved, lock, treasury, market, resolveAt, now, stranded, settled>>

-----------------------------------------------------------------------------
(* Types *)

VoteItem == OutcomeReports

RawCommitment == [juror : Accounts, vote_item : VoteItem]

Vote == {"Delegated", "Drawn", "Secret", "Revealed", "Denounced"}

Draw == [weight : Nat, slashable : Nat, vote : Vote, commitment : RawCommitment \cup {None},
         delegated_stakes : [Accounts -> Nat]]

CourtParticipantInfo == [stake : Nat, active_lock : Nat, prepare_exit_at : Nat \cup {None},
                         delegations : SUBSET Accounts]

CourtPoolItem == [stake : Nat, court_participant : Accounts, consumed_stake : Nat,
                  uneligible_index : Nat, uneligible_stake : Nat]

AppealInfo == [backer : Accounts, bond : Nat, appealed_vote_item : VoteItem]

CourtStatus == {"Open", "Closed", "Reassigned"}

RoundTiming == [pre_vote : Nat, vote : Nat, aggregation : Nat, appeal : Nat]

CourtInfo == [status : CourtStatus, winner : VoteItem \cup {None}, appeals : Seq(AppealInfo),
              round_ends : RoundTiming]

Init ==
  /\ CourtPool = <<>>
  /\ Participants = [a \in Accounts |-> None]
  /\ SelectedDraws = [m \in Markets |-> [a \in Accounts |-> None]]
  /\ Courts = [m \in Markets |-> None]
  /\ RequestBlock = RequestInterval
  /\ YearlyInflation = 0
  /\ free = Balances
  /\ reserved = [a \in Accounts |-> 0]
  /\ lock = [a \in Accounts |-> 0]
  /\ treasury = 0
  /\ market = [m \in Markets |-> "Reported"]
  /\ resolveAt = [m \in Markets |-> None]
  /\ now = 0
  /\ stranded = [a \in Accounts |-> 0]
  /\ settled = [a \in Accounts |-> 0]

-----------------------------------------------------------------------------
(* The pool *)

Before(i, j) == \/ i.stake < j.stake
                \/ i.stake = j.stake /\ i.court_participant < j.court_participant

(* get_pool_item searches for the pair of stake and account: the index of   *)
(* the item of `who`, or 0.                                                 *)
get_pool_item(pool, stake, who) ==
  LET at == {i \in DOMAIN pool : pool[i].stake = stake /\ pool[i].court_participant = who}
  IN IF at = {} THEN 0 ELSE CHOOSE i \in at : TRUE

InsertItem(pool, item) ==
  SelectSeq(pool, LAMBDA i : Before(i, item)) \o <<item>> \o SelectSeq(pool, LAMBDA i : Before(item, i))

full(pool) == Len(pool) >= MaxCourtParticipants

get_uneligible_stake(prev, amount, index) ==
  CASE prev = None -> amount
    [] prev # None /\ index # prev.uneligible_index -> amount - prev.stake
    [] OTHER -> prev.uneligible_stake + amount - prev.stake

(* Mutant of ConsumedStake: who comes back has all the stake to draw from. *)
ConsumedStake_Fresh(p, prev) == IF prev = None THEN 0 ELSE prev.consumed_stake

(* Stake of a joining participant that was drawn already.                   *)
ConsumedStake(p, prev) ==
  CASE p = None -> 0
    [] p # None /\ prev # None -> prev.consumed_stake
    [] OTHER -> p.active_lock

(* do_join_court: who is new or raises the stake; the weakest item of a     *)
(* full pool makes room for one that is not in the pool.                    *)
do_join_court(who, amount, delegations) ==
  LET p == Participants[who]
      at == IF p = None THEN 0 ELSE get_pool_item(CourtPool, p.stake, who)
      prev == IF at = 0 THEN None ELSE CourtPool[at]
      pruned == IF at # 0 THEN RemoveAt(CourtPool, at)
                ELSE IF full(CourtPool) THEN Tail(CourtPool) ELSE CourtPool
      index == now \div InflationPeriod
  IN /\ amount >= MinJurorStake
     /\ amount <= free[who]
     /\ p # None => amount >= p.stake
     /\ at = 0 /\ full(CourtPool) => amount > Head(CourtPool).stake
     /\ CourtPool' = InsertItem(pruned,
          [stake |-> amount, court_participant |-> who, consumed_stake |-> ConsumedStake(p, prev),
           uneligible_index |-> index,
           uneligible_stake |-> get_uneligible_stake(prev, amount, index)])
     /\ Participants' = [Participants EXCEPT
          ![who] = [stake |-> amount, active_lock |-> IF p = None THEN 0 ELSE p.active_lock,
                    prepare_exit_at |-> None, delegations |-> delegations]]
     /\ lock' = [lock EXCEPT ![who] = amount]
     /\ UNCHANGED <<courtVars, moneyVars, timeVars>>

InPool(j) == Participants[j] # None /\ get_pool_item(CourtPool, Participants[j].stake, j) # 0

join_court(who, amount) == do_join_court(who, amount, {})

(* A delegator names jurors of the pool, none of them a delegator; a        *)
(* participant without delegations is a juror.                              *)
delegate(who, amount, delegations) ==
  /\ delegations # {} /\ Cardinality(delegations) <= MaxDelegations
  /\ \A j \in delegations : InPool(j) /\ Participants[j].delegations = {}
  /\ who \notin delegations
  /\ do_join_court(who, amount, delegations)

prepare_exit_court(who) ==
  /\ Participants[who] # None
  /\ Participants[who].prepare_exit_at = None
  /\ CourtPool' = SelectSeq(CourtPool, LAMBDA i : i.court_participant # who \/ i.stake # Participants[who].stake)
  /\ Participants' = [Participants EXCEPT ![who].prepare_exit_at = now]
  /\ UNCHANGED <<lock, courtVars, moneyVars, timeVars>>

exit_court(who) ==
  LET p == Participants[who]
  IN /\ p # None
     /\ p.prepare_exit_at # None
     /\ now - p.prepare_exit_at >= InflationPeriod
     /\ Participants' = [Participants EXCEPT
          ![who] = IF p.active_lock = 0 THEN None ELSE [p EXCEPT !.stake = p.active_lock]]
     /\ lock' = [lock EXCEPT ![who] = p.active_lock]
     /\ UNCHANGED <<CourtPool, courtVars, moneyVars, timeVars>>

-----------------------------------------------------------------------------
(* The draws *)

necessary_draws_weight(appeals_len) == 2^appeals_len * INITIAL_DRAWS_NUM + 2^appeals_len - 1

ASSUME DrawsFit == MaxAppeals > 0 => MaxSelectedDraws >= 2 * necessary_draws_weight(MaxAppeals - 1)

(* Sections of MinJurorStake that an item of the pool still offers.         *)
Sections(item) == Max({0, item.stake - item.consumed_stake}) \div MinJurorStake

PoolSections == MapThenSumSet(LAMBDA i : Sections(CourtPool[i]), DOMAIN CourtPool)

(* get_n_random_section_ends draws n different sections: how many of them   *)
(* each item gets is all that is used.                                      *)
get_n_random_section_ends(n) ==
  {hits \in [DOMAIN CourtPool -> 0..n] :
     /\ \A i \in DOMAIN CourtPool : hits[i] <= Sections(CourtPool[i])
     /\ SumFunction(hits) = n}

IsDelegator(a) == Participants[a] # None /\ Participants[a].delegations # {}

valid_delegated_jurors(d) ==
  {j \in Participants[d].delegations : InPool(j) /\ Participants[j].delegations = {}}

(* Each section drawn from a delegator goes to one of its valid jurors.     *)
DelegatedDraws(hits) ==
  LET who(i) == CourtPool[i].court_participant
      draws == {d \in (DOMAIN CourtPool) \X (1..SumFunction(hits)) :
                  /\ d[2] <= hits[d[1]] /\ IsDelegator(who(d[1]))
                  /\ valid_delegated_jurors(who(d[1])) # {}}
  IN {c \in [draws -> Accounts] : \A d \in draws : c[d] \in valid_delegated_jurors(who(d[1]))}

(* Mutant of OwnWeight: delegators keep their voting weight. *)
OwnWeight_All(a, own) == own

OwnWeight(a, own) == IF IsDelegator(a) THEN 0 ELSE own

(* update_selections and convert_selections_to_draws: the draw of account   *)
(* `a`, or None.  A section always locks a whole MinJurorStake.             *)
DrawOf(a, hits, chosen) ==
  LET mine == {i \in DOMAIN CourtPool : CourtPool[i].court_participant = a}
      own == SumFunctionOnSet(hits, mine)
      given == {d \in DOMAIN chosen : d[1] \in mine}
      weight == OwnWeight(a, own) + Cardinality({d \in DOMAIN chosen : chosen[d] = a})
      slashable == MinJurorStake * (IF IsDelegator(a) THEN Cardinality(given) ELSE own)
  IN IF weight = 0 /\ slashable = 0 THEN None
     ELSE [weight |-> weight, slashable |-> slashable,
           vote |-> IF given = {} THEN "Drawn" ELSE "Delegated", commitment |-> None,
           delegated_stakes |-> [j \in Accounts |->
             MinJurorStake * Cardinality({d \in given : chosen[d] = j})]]

(* Items of delegators without a valid juror are removed from the pool, one *)
(* removal by index for each section they were drawn with, in ascending     *)
(* order; an index past the end panics, so nothing happens.                 *)
InvalidIndices(hits) ==
  LET invalid(i) == /\ IsDelegator(CourtPool[i].court_participant)
                    /\ valid_delegated_jurors(CourtPool[i].court_participant) = {}
  IN FoldLeftDomain(LAMBDA acc, i : IF invalid(i) THEN acc \o [k \in 1..hits[i] |-> i] ELSE acc,
                    <<>>, CourtPool)

Removable(pool, indices) == \A k \in DOMAIN indices : indices[k] <= Len(pool) - k + 1

add_active_lock(p, lock_added) == [p EXCEPT !.active_lock = @ + lock_added]

Selection(hits, chosen) ==
  LET consumed == [i \in DOMAIN CourtPool |->
                     [CourtPool[i] EXCEPT !.consumed_stake = @ + hits[i] * MinJurorStake]]
      locked(a) == MinJurorStake * SumFunctionOnSet(hits,
                     {i \in DOMAIN CourtPool : CourtPool[i].court_participant = a})
  IN [pool |-> FoldLeft(RemoveAt, consumed, InvalidIndices(hits)),
      participants |-> [a \in Accounts |->
        IF Participants[a] = None THEN None
        ELSE add_active_lock(Participants[a], locked(a))],
      draws |-> [a \in Accounts |-> DrawOf(a, hits, chosen)]]

(* select_participants: the outcomes of choose_multiple_weighted; none when *)
(* the pool does not offer enough stake.                                    *)
select_participants(appeal_number) ==
  UNION {{Selection(hits, chosen) : chosen \in DelegatedDraws(hits)} :
           hits \in {h \in get_n_random_section_ends(necessary_draws_weight(appeal_number)) :
                       Removable(CourtPool, InvalidIndices(h))}}

(* unlock_participants_from_last_draw *)
UnlockDraws(participants, draws) ==
  [a \in Accounts |->
     IF participants[a] = None \/ draws[a] = None THEN participants[a]
     ELSE [participants[a] EXCEPT !.active_lock = Max({0, @ - draws[a].slashable})]]

-----------------------------------------------------------------------------
(* The rounds *)

RoundEnds ==
  LET vote == RequestBlock + VotePeriod
      aggregation == vote + AggregationPeriod
  IN [pre_vote |-> RequestBlock, vote |-> vote, aggregation |-> aggregation,
      appeal |-> aggregation + AppealPeriod]

on_dispute(m) ==
  /\ market[m] = "Reported"
  /\ RoundEnds.appeal <= MaxBlock
  /\ \E sel \in select_participants(0) :
       /\ CourtPool' = sel.pool
       /\ Participants' = sel.participants
       /\ SelectedDraws' = [SelectedDraws EXCEPT ![m] = sel.draws]
  /\ Courts' = [Courts EXCEPT ![m] = [status |-> "Open", winner |-> None, appeals |-> <<>>,
                                      round_ends |-> RoundEnds]]
  /\ market' = [market EXCEPT ![m] = "Disputed"]
  /\ resolveAt' = [resolveAt EXCEPT ![m] = RoundEnds.appeal]
  /\ UNCHANGED <<lock, moneyVars, timeVars>>

InVotePeriod(m) == /\ Courts[m] # None
                   /\ Courts[m].round_ends.pre_vote < now /\ now <= Courts[m].round_ends.vote

(* A juror commits to an item, or replaces the commitment.  The hash that   *)
(* is sent in may be anything, the commitment of another juror included.    *)
vote(who, m, commitment) ==
  /\ InVotePeriod(m)
  /\ SelectedDraws[m][who] # None
  /\ SelectedDraws[m][who].vote \in {"Drawn", "Secret"}
  /\ SelectedDraws' = [SelectedDraws EXCEPT ![m][who].vote = "Secret",
                                            ![m][who].commitment = commitment]
  /\ UNCHANGED <<poolVars, Courts, market, resolveAt, moneyVars, timeVars>>

compare_commitment(hashed, raw) == hashed = raw

(* Only a secret vote can be shown to be what it hides.                     *)
get_hashed_commitment(draw, raw) == draw.vote = "Secret" /\ compare_commitment(draw.commitment, raw)

(* Someone who knows the secret of a juror shows it before it is revealed.  *)
denounce_vote(juror, m, item) ==
  /\ InVotePeriod(m)
  /\ Participants[juror] # None
  /\ SelectedDraws[m][juror] # None
  /\ get_hashed_commitment(SelectedDraws[m][juror], [juror |-> juror, vote_item |-> item])
  /\ SelectedDraws' = [SelectedDraws EXCEPT ![m][juror].vote = "Denounced"]
  /\ UNCHANGED <<poolVars, Courts, market, resolveAt, moneyVars, timeVars>>

reveal_vote(who, m, item) ==
  /\ Courts[m] # None
  /\ Participants[who] # None
  /\ Courts[m].round_ends.vote < now /\ now <= Courts[m].round_ends.aggregation
  /\ SelectedDraws[m][who] # None
  /\ get_hashed_commitment(SelectedDraws[m][who], [juror |-> who, vote_item |-> item])
  /\ SelectedDraws' = [SelectedDraws EXCEPT ![m][who].vote = "Revealed"]
  /\ UNCHANGED <<poolVars, Courts, market, resolveAt, moneyVars, timeVars>>

Revealed(draws) == {a \in Accounts : draws[a] # None /\ draws[a].vote = "Revealed"}

(* The revealed weight of each item that was revealed.                      *)
Scores(draws) ==
  [item \in {draws[a].commitment.vote_item : a \in Revealed(draws)} |->
     MapThenSumSet(LAMBDA a : draws[a].weight,
                   {a \in Revealed(draws) : draws[a].commitment.vote_item = item})]

(* One step of the scan for the best two items, in the order of the items.  *)
BestTwo(scores, two, item) ==
  CASE scores[item] > scores[two.best] -> [best |-> item, second |-> two.best]
    [] scores[item] <= scores[two.best] /\ scores[item] > scores[two.second]
         -> [two EXCEPT !.second = item]
    [] OTHER -> two

(* Mutant of OnTie: the better of the two items wins anyway. *)
OnTie_Best(best, last_winner) == best

OnTie(best, last_winner) == last_winner

get_winner(scores, last_winner) ==
  LET items == SetToSortSeq(DOMAIN scores, <)
      first == IF scores[items[2]] > scores[items[1]]
               THEN [best |-> items[2], second |-> items[1]]
               ELSE [best |-> items[1], second |-> items[2]]
      two == FoldLeft(LAMBDA t, item : BestTwo(scores, t, item), first,
                      SubSeq(items, 3, Len(items)))
  IN CASE Len(items) = 0 -> None
       [] Len(items) = 1 -> items[1]
       [] OTHER -> IF scores[two.best] = scores[two.second] THEN OnTie(two.best, last_winner)
                   ELSE two.best

(* The item the market would resolve on: of this round, else of the round   *)
(* before, else the oracle's report.                                        *)
get_latest_winner_vote_item(m) ==
  LET appeals == Courts[m].appeals
      last_winner == IF appeals = <<>> THEN None ELSE Last(appeals).appealed_vote_item
      winner == get_winner(Scores(SelectedDraws[m]), last_winner)
  IN IF winner = None THEN Reported ELSE winner

get_appeal_bond(n) == AppealBond * 2^n

InAppealPeriod(m) == /\ market[m] = "Disputed"
                     /\ Courts[m].round_ends.aggregation < now
                     /\ now < Courts[m].round_ends.appeal

(* The appeal of the last admitted number starts no round and takes the     *)
(* market off the schedule; any other draws anew and frees the last draws.  *)
appeal(who, m) ==
  LET court == Courts[m]
      appeal_number == Len(court.appeals) + 1
      bond == get_appeal_bond(appeal_number)
      appealed == [court EXCEPT !.appeals = Append(@,
                     [backer |-> who, bond |-> bond,
                      appealed_vote_item |-> get_latest_winner_vote_item(m)])]
  IN /\ court # None
     /\ appeal_number <= MaxAppeals
     /\ free[who] - bond >= lock[who]
     /\ InAppealPeriod(m)
     /\ \/ /\ appeal_number < MaxAppeals
           /\ RoundEnds.appeal <= MaxBlock
           /\ \E sel \in select_participants(appeal_number) :
                /\ CourtPool' = sel.pool
                /\ Participants' = UnlockDraws(sel.participants, SelectedDraws[m])
                /\ SelectedDraws' = [SelectedDraws EXCEPT ![m] = sel.draws]
           /\ Courts' = [Courts EXCEPT ![m] = [appealed EXCEPT !.round_ends = RoundEnds]]
           /\ resolveAt' = [resolveAt EXCEPT ![m] = RoundEnds.appeal]
        \/ /\ appeal_number = MaxAppeals
           /\ Courts' = [Courts EXCEPT ![m] = appealed]
           /\ resolveAt' = [resolveAt EXCEPT ![m] = None]
           /\ UNCHANGED <<CourtPool, Participants, SelectedDraws>>
     /\ free' = [free EXCEPT ![who] = @ - bond]
     /\ reserved' = [reserved EXCEPT ![who] = @ + bond]
     /\ UNCHANGED <<lock, market, treasury, stranded, timeVars>>

BondsOf(m, a, lost(_)) ==
  LET appeals == Courts[m].appeals
  IN MapThenSumSet(LAMBDA i : appeals[i].bond,
                   {i \in DOMAIN appeals : appeals[i].backer = a /\ lost(appeals[i].appealed_vote_item)})

(* exchange: who appealed the outcome that is resolved on loses the bond.   *)
exchange(m, a, outcome) == [slashed |-> BondsOf(m, a, LAMBDA i : i = outcome),
                            returned |-> BondsOf(m, a, LAMBDA i : i # outcome)]

(* resolve_market of the market pallet for the markets in `due`:            *)
(* on_resolution closes the court and frees the draws, exchange settles the *)
(* appeal bonds, and what is slashed goes on to the treasury.               *)
on_resolution(due, minted) ==
  LET winner == [m \in due |-> get_latest_winner_vote_item(m)]
      slashed(a) == MapThenSumSet(LAMBDA m : exchange(m, a, winner[m]).slashed, due)
      returned(a) == MapThenSumSet(LAMBDA m : exchange(m, a, winner[m]).returned, due)
  IN /\ Participants' = FoldSet(LAMBDA m, ps : UnlockDraws(ps, SelectedDraws[m]), Participants, due)
     /\ Courts' = [m \in Markets |->
          IF m \in due THEN [Courts[m] EXCEPT !.status = "Closed", !.winner = winner[m]] ELSE Courts[m]]
     /\ market' = [m \in Markets |-> IF m \in due THEN "Resolved" ELSE market[m]]
     /\ resolveAt' = [m \in Markets |-> IF m \in due THEN None ELSE resolveAt[m]]
     /\ reserved' = [a \in Accounts |-> reserved[a] - slashed(a) - returned(a)]
     /\ free' = [a \in Accounts |-> free[a] + returned(a) + minted[a]]
     /\ treasury' = treasury + MapThenSumSet(slashed, Accounts)
     /\ UNCHANGED <<CourtPool, lock, SelectedDraws, stranded>>

has_failed(m) ==
  \/ Len(Courts[m].appeals) = MaxAppeals
  \/ /\ InAppealPeriod(m)
     /\ PoolSections < necessary_draws_weight(Len(Courts[m].appeals) + 1)

(* start_global_dispute of the market pallet: on_global_dispute removes the *)
(* court; nobody settles the bonds of its appeals.                          *)
on_global_dispute(m) ==
  /\ market[m] = "Disputed"
  /\ has_failed(m)
  /\ Participants' = UnlockDraws(Participants, SelectedDraws[m])
  /\ SelectedDraws' = [SelectedDraws EXCEPT ![m] = [a \in Accounts |-> None]]
  /\ Courts' = [Courts EXCEPT ![m] = None]
  /\ market' = [market EXCEPT ![m] = "GlobalDispute"]
  /\ resolveAt' = [resolveAt EXCEPT ![m] = None]
  /\ stranded' = [a \in Accounts |-> stranded[a] + BondsOf(m, a, LAMBDA i : TRUE)]
  /\ UNCHANGED <<CourtPool, lock, free, reserved, treasury, timeVars>>

-----------------------------------------------------------------------------
(* Stakes after the verdict *)

(* Currency::slash takes what it can get of the free balance.               *)
slash(a, amount) == Min({free[a], amount})

Won(m, j) == /\ SelectedDraws[m][j] # None
             /\ SelectedDraws[m][j].vote = "Revealed"
             /\ SelectedDraws[m][j].commitment.vote_item = Courts[m].winner

(* Mutant of Lost: a delegator loses the whole draw with the first juror.   *)
Lost_AllDelegated(m, a) ==
  LET draw == SelectedDraws[m][a]
  IN IF draw = None \/ Won(m, a) THEN 0 ELSE draw.slashable

(* What account `a` loses: a juror who is tardy, denounced or on another    *)
(* side loses the draw, a delegator what went to such jurors.               *)
Lost(m, a) ==
  LET draw == SelectedDraws[m][a]
  IN CASE draw = None \/ Won(m, a) -> 0
       [] draw # None /\ draw.vote = "Delegated"
            -> MapThenSumSet(LAMBDA j : draw.delegated_stakes[j], {j \in Accounts : ~Won(m, j)})
       [] OTHER -> draw.slashable

(* The stakes that were risked on the winning side, juror by juror: the     *)
(* juror's own, then those delegated to that juror.                         *)
Risked(m) ==
  LET delegators(j) == {d \in Accounts : /\ SelectedDraws[m][d] # None
                                          /\ SelectedDraws[m][d].delegated_stakes[j] > 0}
      side(j) == <<[who |-> j, amount |-> SelectedDraws[m][j].slashable]>>
                   \o [i \in 1..Cardinality(delegators(j)) |->
                         LET d == SetToSortSeq(delegators(j), <)[i]
                         IN [who |-> d, amount |-> SelectedDraws[m][d].delegated_stakes[j]]]
  IN FoldLeft(LAMBDA acc, j : acc \o side(j), <<>>,
              SetToSortSeq({j \in Accounts : Won(m, j)}, <))

(* A Perquintill is a rational rounded down to Accuracy parts; its product  *)
(* with an amount is rounded to the nearest, or down by mul_floor.          *)
from_rational(r, t) == (r * Accuracy) \div Max({t, 1})
MulNearest(share, x) == (2 * share * x + Accuracy - 1) \div (2 * Accuracy)
mul_floor(share, x) == (share * x) \div Accuracy

(* Imbalance::split never takes more than is left.                          *)
Split(s, share) == LET part == Min({s.left, share}) IN [left |-> s.left - part, paid |-> part]

Rewards(m, pot) ==
  LET risked == Risked(m)
      total == FoldLeft(LAMBDA x, r : x + r.amount, 0, risked)
      pay(s, r) == LET split == Split([left |-> s.left, paid |-> 0],
                                      MulNearest(from_rational(r.amount, total), pot))
                   IN [left |-> split.left, to |-> [s.to EXCEPT ![r.who] = @ + split.paid]]
  IN FoldLeft(pay, [left |-> pot, to |-> [a \in Accounts |-> 0]], risked)

(* Losers are slashed and the winners share it; without winners, and for    *)
(* the rest of the division, the treasury gets it.  The draws, which were   *)
(* freed by on_resolution, are freed once more.                             *)
slash_losers_to_award_winners(m) ==
  LET taken == [a \in Accounts |-> slash(a, Lost(m, a))]
      rewards == Rewards(m, SumFunction(taken))
  IN /\ free' = [a \in Accounts |-> free[a] - taken[a] + rewards.to[a]]
     /\ treasury' = treasury + rewards.left

reassign_court_stakes(m) ==
  /\ Courts[m] # None
  /\ Courts[m].status = "Closed"
  /\ Participants' = UnlockDraws(Participants, SelectedDraws[m])
  /\ slash_losers_to_award_winners(m)
  /\ Courts' = [Courts EXCEPT ![m].status = "Reassigned"]
  /\ SelectedDraws' = [SelectedDraws EXCEPT ![m] = [a \in Accounts |-> None]]
  /\ UNCHANGED <<CourtPool, lock, market, resolveAt, reserved, stranded, timeVars>>

-----------------------------------------------------------------------------
(* Inflation and time *)

set_inflation(mint) ==
  /\ YearlyInflation' = mint
  /\ UNCHANGED <<poolVars, courtVars, moneyVars, now, RequestBlock, settled>>

(* Stake that is in the pool since before period `index`.                   *)
eligible_stake(item, index) ==
  IF index # item.uneligible_index THEN item.stake
  ELSE Max({0, item.stake - item.uneligible_stake})

(* At the end of a period its mint is shared by eligible stake, and what    *)
(* the division leaves is burned.                                           *)
InflationFor(a, index) ==
  LET total == MapThenSumSet(LAMBDA i : eligible_stake(CourtPool[i], index), DOMAIN CourtPool)
      mine == {i \in DOMAIN CourtPool : CourtPool[i].court_participant = a}
  IN MapThenSumSet(LAMBDA i : mul_floor(from_rational(eligible_stake(CourtPool[i], index), total),
                                        YearlyInflation), mine)

StakeInPool(a) ==
  MapThenSumSet(LAMBDA i : CourtPool[i].stake,
                {i \in DOMAIN CourtPool : CourtPool[i].court_participant = a})

(* A new block: the court's on_initialize, and the markets that are due.    *)
NewBlock ==
  LET due == {m \in Markets : market[m] = "Disputed" /\ resolveAt[m] = now + 1}
      period_ends == (now + 1) % InflationPeriod = 0
      index == (now + 1) \div InflationPeriod - 1
      minted == [a \in Accounts |->
                   IF period_ends /\ YearlyInflation # 0 THEN InflationFor(a, index) ELSE 0]
  IN /\ now < MaxBlock
     /\ now' = now + 1
     /\ RequestBlock' = IF now + 1 >= RequestBlock THEN now + 1 + RequestInterval ELSE RequestBlock
     /\ settled' = IF period_ends THEN [a \in Accounts |-> StakeInPool(a)] ELSE settled
     /\ on_resolution(due, minted)
     /\ UNCHANGED YearlyInflation

Next ==
  \/ NewBlock
  \/ \E j \in Joins : /\ now \in j.at
                      /\ \/ j.delegations = {} /\ join_court(j.who, j.amount)
                         \/ delegate(j.who, j.amount, j.delegations)
  \/ now \in InflationBlocks /\ \E mint \in InflationRates : set_inflation(mint)
  \/ \E a \in Leavers : prepare_exit_court(a) \/ exit_court(a)
  \/ \E a \in Accounts, m \in Markets :
       \/ \E item \in VoteItem : \/ vote(a, m, [juror |-> a, vote_item |-> item])
                                \/ denounce_vote(a, m, item)
                                \/ reveal_vote(a, m, item)
       \/ \E c \in Copies[a] : vote(a, m, c)
       \/ appeal(a, m)
  \/ \E m \in Markets :
       \/ now \in DisputeBlocks /\ on_dispute(m)
       \/ on_global_dispute(m)
       \/ reassign_court_stakes(m)

Spec == Init /\ [][Next]_vars

-----------------------------------------------------------------------------
(* The binary searches of get_pool_item are sound: the pool is sorted by    *)
(* stake and account, holds nobody twice, and every item is found under the *)
(* stake its participant has now; nobody who prepares to exit is in it.     *)
PoolMatchesParticipants ==
  /\ \A i, j \in DOMAIN CourtPool : i < j =>
       /\ Before(CourtPool[i], CourtPool[j])
       /\ CourtPool[i].court_participant # CourtPool[j].court_participant
  /\ \A i \in DOMAIN CourtPool :
       LET p == Participants[CourtPool[i].court_participant]
       IN p # None /\ p.stake = CourtPool[i].stake /\ p.prepare_exit_at = None
  /\ Len(CourtPool) <= MaxCourtParticipants

CourtTypeOK ==
  /\ \A i \in DOMAIN CourtPool : CourtPool[i] \in CourtPoolItem
  /\ Participants \in [Accounts -> CourtParticipantInfo \cup {None}]
  /\ SelectedDraws \in [Markets -> [Accounts -> Draw \cup {None}]]
  /\ Courts \in [Markets -> CourtInfo \cup {None}]
  /\ {free, reserved, lock} \subseteq [Accounts -> Nat]

(* No draw locks stake twice: what is locked in courts is within what the   *)
(* pool counts as consumed, that within the stake, and the stake is what    *)
(* the currency locks.                                                      *)
LockedWithinStake ==
  /\ \A a \in Accounts : Participants[a] # None =>
       /\ Participants[a].active_lock <= Participants[a].stake
       /\ lock[a] = Participants[a].stake
  /\ \A i \in DOMAIN CourtPool :
       /\ Participants[CourtPool[i].court_participant].active_lock <= CourtPool[i].consumed_stake
       /\ CourtPool[i].consumed_stake <= CourtPool[i].stake

(* The draws of an open court: every unit of voting weight is backed by one *)
(* MinJurorStake at risk, delegators carry no weight and split their risk   *)
(* exactly over their jurors, and the weight is at most that of the round.  *)
DrawsAreBacked ==
  \A m \in Markets : Courts[m] # None /\ Courts[m].status = "Open" =>
    LET draws == SelectedDraws[m]
        drawn == {a \in Accounts : draws[a] # None}
        weight == MapThenSumSet(LAMBDA a : draws[a].weight, drawn)
    IN /\ MapThenSumSet(LAMBDA a : draws[a].slashable, drawn) = MinJurorStake * weight
       /\ weight <= necessary_draws_weight(Len(Courts[m].appeals))
       /\ \A a \in drawn : draws[a].vote = "Delegated" =>
            draws[a].weight = 0 /\ SumFunction(draws[a].delegated_stakes) = draws[a].slashable

(* The reserve of an account is exactly its bonds in open courts, plus the  *)
(* bonds of courts that a global dispute removed: exchange settles each     *)
(* bond once, and on_global_dispute settles none.                           *)
AppealBondsAreHeld ==
  \A a \in Accounts :
    reserved[a] = stranded[a]
      + MapThenSumSet(LAMBDA m : BondsOf(m, a, LAMBDA i : TRUE),
                      {m \in Markets : Courts[m] # None /\ Courts[m].status = "Open"})

(* A court closes on the item that the weight revealed in its last round    *)
(* prefers; a tie leaves the item that was appealed last, and without any   *)
(* revealed vote, or on a tie in the first round, the oracle's report       *)
(* stands, even against the verdict of an earlier round.                    *)
VerdictFollowsTheLastRound ==
  [][\A m \in Markets :
       Courts[m] # None /\ Courts[m].status = "Open" /\ Courts'[m] # None /\ Courts'[m].status = "Closed" =>
         LET weight(i) == MapThenSumSet(LAMBDA a : SelectedDraws[m][a].weight,
                            {a \in Revealed(SelectedDraws[m]) : SelectedDraws[m][a].commitment.vote_item = i})
             ahead(i) == \A j \in OutcomeReports \ {i} : weight(j) < weight(i)
             winner == Courts'[m].winner
         IN \/ ahead(winner)
            \/ /\ \A i \in OutcomeReports : ~ahead(i)
               /\ IF Courts[m].appeals = <<>> \/ Revealed(SelectedDraws[m]) = {}
                  THEN winner = Reported
                  ELSE winner = Last(Courts[m].appeals).appealed_vote_item]_vars

(* reassign_court_stakes punishes only the losing side: no juror who        *)
(* revealed the winner, and no delegator all of whose jurors did, is left   *)
(* with less, and nothing but the losers' stakes is handed out.             *)
WinnersAreNotPunished ==
  [][\A m \in Markets : Courts[m] # None /\ Courts'[m] # None /\ SelectedDraws'[m] # SelectedDraws[m]
        /\ Courts[m].status = "Closed" /\ Courts'[m].status = "Reassigned" =>
       /\ \A a \in Accounts :
            \/ SelectedDraws[m][a] = None
            \/ Won(m, a)
            \/ /\ SelectedDraws[m][a].vote = "Delegated"
               /\ \A j \in Accounts : SelectedDraws[m][a].delegated_stakes[j] > 0 => Won(m, j)
            => free'[a] >= free[a]
       /\ SumFunction(free') + treasury' = SumFunction(free) + treasury
       /\ treasury' >= treasury]_vars

(* handle_inflation pays only for stake that was in the pool when the       *)
(* period began: joining, raising the stake, or leaving and coming back     *)
(* within a period earns nothing for it.                                    *)
InflationForWholePeriods ==
  \A i \in DOMAIN CourtPool :
    eligible_stake(CourtPool[i], now \div InflationPeriod) <= settled[CourtPool[i].court_participant]

(* The books of the court agree: the pool with the participants, what is    *)
(* locked and consumed with the stakes, the reserves with the appeal bonds, *)
(* and inflation is due only on stake that was there all period.            *)
StakesAreAccounted ==
  /\ CourtTypeOK
  /\ PoolMatchesParticipants
  /\ LockedWithinStake
  /\ AppealBondsAreHeld
  /\ InflationForWholePeriods

(* active_lock is "the current amount of funds which are locked in courts", *)
(* so what a participant risks in courts that are still open is covered by  *)
(* it.                                                                      *)
ActiveLockCoversDraws ==
  \A a \in Accounts :
    LET open == {m \in Markets : /\ Courts[m] # None /\ Courts[m].status = "Open"
                                 /\ SelectedDraws[m][a] # None}
        atRisk == MapThenSumSet(LAMBDA m : SelectedDraws[m][a].slashable, open)
    IN atRisk > 0 => Participants[a] # None /\ Participants[a].active_lock >= atRisk
=============================================================================
