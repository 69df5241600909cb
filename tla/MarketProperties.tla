-------------------------- MODULE MarketProperties --------------------------
(* What PredictionMarkets is checked against.                              *)
EXTENDS PredictionMarkets

Exists(m) == markets[m] # None

IsOpen(m) == HasStatus(m, "Active") \/ HasStatus(m, "Proposed")

Indicator(P) == IF P THEN 1 ELSE 0

-----------------------------------------------------------------------------
(* Queues *)

(* MarketIdsPerCloseBlock and MarketIdsPerCloseTimeFrame list a market     *)
(* exactly once, at the end of its current period, while it is Proposed or *)
(* Active, and nowhere else: create, edit, reject, early close and its     *)
(* disputes, and every way of closing keep them in step with the market.   *)
CloseQueueExact ==
  \A m \in MarketIds : \A s \in CloseSlots :
    MarketIdsPerClose[s][m]
      = Indicator(IF IsOpen(m) THEN s = CloseSlot(markets[m].period) ELSE FALSE)

(* A Reported market waits in MarketIdsPerReportBlock at the end of its    *)
(* dispute window, once.  Entries that dispute leaves behind belong to     *)
(* that same block, so that the hook can skip them.                        *)
ReportQueueExact ==
  \A m \in MarketIds : \A b \in Blocks :
    /\ HasStatus(m, "Reported") =>
         MarketIdsPerReportBlock[b][m] = Indicator(b = DisputeDurationEnd(markets[m]))
    /\ MarketIdsPerReportBlock[b][m] # 0 =>
         /\ Exists(m)
         /\ markets[m].report # None
         /\ b = DisputeDurationEnd(markets[m])
         /\ MarketIdsPerReportBlock[b][m] = 1

(* The block in which a market without a global dispute resolves by        *)
(* itself.  A court out of appeals waits for a global dispute.             *)
AutoResolveBlock(m) ==
  IF ~HasStatus(m, "Disputed") THEN None
  ELSE IF markets[m].dispute_mechanism = "Court" /\ Courts[m] # None
          /\ Courts[m].appeals = MaxAppeals THEN None
  ELSE get_auto_resolve(m)

(* MarketIdsPerDisputeBlock lists a market exactly once, in the block its  *)
(* dispute mechanism has announced, as long as no global dispute was       *)
(* started: authorize_market_outcome, Court::on_dispute, Court::appeal and *)
(* admin_move_market_to_resolved keep it in step.                          *)
DisputeQueueExact ==
  \A m \in MarketIds : \A b \in Blocks :
    GlobalDisputesInfo[m] = None =>
      MarketIdsPerDisputeBlock[b][m] = Indicator(b = AutoResolveBlock(m))

(* MarketIdsForEdit holds only markets that are waiting for approval: no   *)
(* way out of Proposed leaves a request behind.                            *)
EditOnlyProposed == \A m \in MarketIdsForEdit : HasStatus(m, "Proposed")

(* Whatever the markets do and however blocks fall, all queues of the hook *)
(* are in step with the markets, and so are the requests for an edit.      *)
QueuesExact == CloseQueueExact /\ ReportQueueExact /\ DisputeQueueExact /\ EditOnlyProposed

(* on_initialize is rolled back only in a block in which a market under    *)
(* global dispute is due; no other history makes a market fail to close or *)
(* to resolve.                                                             *)
RollbackOnlyByGlobalDispute ==
  [][now' # now /\ OnInitializeRollsBack => \E m \in DueDisputes : GlobalDisputesInfo[m] # None]_vars

-----------------------------------------------------------------------------
(* Time *)

(* As long as no block was rolled back, a block based market is over when  *)
(* its end is reached, a report can be disputed only inside the dispute    *)
(* window (dispute itself does not look at the clock), and the authority   *)
(* can correct its outcome only before it takes effect.                    *)
NothingOverdue ==
  ~rolledBack =>
    \A m \in MarketIds :
      /\ IsOpen(m) /\ markets[m].period.kind = "Block" => now < markets[m].period.end
      /\ HasStatus(m, "Reported") => now < DisputeDurationEnd(markets[m])
      /\ GlobalDisputesInfo[m] = None /\ AutoResolveBlock(m) # None => now < AutoResolveBlock(m)

(* Nothing falls due without being done, but in a block that a global      *)
(* dispute makes roll back.                                                *)
DueIsDone == []NothingOverdue /\ RollbackOnlyByGlobalDispute

-----------------------------------------------------------------------------
(* Bonds *)

(* No bond is paid out twice and none is overwritten while its money is    *)
(* still reserved.                                                         *)
ReserveSound == \A m \in MarketIds : \A k \in BondKinds : held[m][k] \notin {"overdrawn", "lost"}

(* A market that is resolved or gone keeps nothing in the named reserve,   *)
(* and what a market still has reserved is known to it as a pending bond.  *)
NoBondLeftBehind ==
  \A m \in MarketIds : \A k \in BondKinds :
    held[m][k] = "reserved" => Exists(m) /\ ~HasStatus(m, "Resolved") /\ IsPending(markets[m], k)

(* The money of the early-close bonds is reserved exactly while the        *)
(* request, or the dispute about it, is undecided on an Active market:     *)
(* schedule_early_close, dispute_early_close, reject_early_close and every *)
(* way of closing settle them together with the state.                     *)
EarlyCloseBondsMatchState ==
  \A m \in MarketIds :
    LET undecided(states) ==
          HasStatus(m, "Active") /\ markets[m].early_close # None
            /\ markets[m].early_close.state \in states
    IN  /\ held[m]["close_request"] = "reserved"
             <=> undecided({"ScheduledAsMarketCreator", "Disputed"})
        /\ held[m]["close_dispute"] = "reserved" <=> undecided({"Disputed"})

(* The money in the named reserve is the one the markets know of, none of  *)
(* it is taken twice, and that of the early-close bonds is there as long   *)
(* as the early close is undecided.                                        *)
ReservesMatchState == ReserveSound /\ NoBondLeftBehind /\ EarlyCloseBondsMatchState

(* Who has the money of a resolved market: a wrong report costs the        *)
(* creator the oracle bond and an outsider the outsider bond, both for the *)
(* disputor; a right one costs the disputor the dispute bond.  An outsider *)
(* who was right is paid the oracle bond.  The creation bond goes back.    *)
BondsGoWhereDue ==
  \A m \in MarketIds :
    HasStatus(m, "Resolved") =>
      LET mk == markets[m]
          reporter == mk.report.by
          wrong == mk.resolved_outcome # mk.report.outcome
          byOracle == reporter = mk.oracle
          h == held[m]
      IN  /\ h["creation"] = mk.creator
          /\ wrong => /\ HasBond(mk, "dispute")
                      /\ h["dispute"] = mk.bonds["dispute"].who
                      /\ h["oracle"] = mk.bonds["dispute"].who
                      /\ ~byOracle => h["outsider"] = mk.bonds["dispute"].who
          /\ ~wrong => /\ h["dispute"] = (IF HasBond(mk, "dispute") THEN Treasury ELSE None)
                       /\ h["oracle"] = (IF byOracle THEN mk.creator ELSE reporter)
                       /\ ~byOracle => h["outsider"] = reporter

-----------------------------------------------------------------------------
(* Early close *)

(* A scheduled early close ends before the period it replaces; after a     *)
(* dispute or a rejection the old period is in force again.                *)
EarlyCloseNeverExtends ==
  \A m \in MarketIds :
    HasStatus(m, "Active") /\ markets[m].early_close # None =>
      LET mk == markets[m] IN
      IF mk.early_close.state \in {"ScheduledAsMarketCreator", "ScheduledAsOther"}
      THEN mk.period.kind = mk.early_close.old.kind /\ mk.period.end < mk.early_close.old.end
      ELSE mk.period = mk.early_close.old

-----------------------------------------------------------------------------
(* Time frames *)

(* The hook has gone past the time frame in which the market should have   *)
(* been closed.                                                            *)
Missed(m) ==
  /\ IsOpen(m)
  /\ markets[m].period.kind = "Timestamp"
  /\ LastTimeFrame # None
  /\ calculate_time_frame_of_moment(markets[m].period.end) <= LastTimeFrame

(* Time based markets are closed although the hook sees the previous       *)
(* block's timestamp and slots may stay empty: a step that makes the hook  *)
(* miss a market is a block after a gap beyond the recovery limit, or one  *)
(* that is rolled back.                                                    *)
NoMarketMissed ==
  [][\A m \in MarketIds :
       (~Missed(m) /\ Missed(m)') =>
         /\ now' # now
         /\ \/ OnInitializeRollsBack
            \/ /\ LastTimeFrame # None
               /\ CurrentTimeFrame - (LastTimeFrame + 1) > MAX_RECOVERY_TIME_FRAMES]_vars

(* After a longer gap an Active market that was missed can be closed with *)
(* manually_close_market.                                                  *)
MissedCanBeClosed ==
  \A m \in MarketIds :
    HasStatus(m, "Active") /\ Missed(m) /\ markets[m].period.end <= moment
      => CanCloseManually(m)

(* Only a gap beyond the recovery limit strands a time based market, and   *)
(* then an Active one can be closed by hand.                               *)
TimeFramesAreKept == NoMarketMissed /\ []MissedCanBeClosed

-----------------------------------------------------------------------------
(* Refinement and progress *)

LifecycleStatus(m) ==
  IF Exists(m) THEN markets[m].status
  ELSE IF m < MarketCounter THEN "Destroyed" ELSE "NotCreated"

Lifecycle(m) ==
  INSTANCE MarketLifecycle
    WITH OutcomeReports <- Outcomes,
         NoOutcome <- None,
         status <- LifecycleStatus(m),
         reported <- IF Exists(m) /\ markets[m].report # None
                     THEN markets[m].report.outcome ELSE None,
         resolved <- IF Exists(m) THEN markets[m].resolved_outcome ELSE None

(* Every market, among all others, lives the abstract life of              *)
(* MarketLifecycle.                                                        *)
MarketsFollowLifecycle ==
  /\ \A m \in MarketIds : Lifecycle(m)!Init
  /\ [][\A m \in MarketIds : [Lifecycle(m)!Next]_(Lifecycle(m)!lifecycle)]_vars

(* Aura goes on producing blocks.                                          *)
FairSpec == Spec /\ WF_vars(NewBlock)

(* Without global disputes, open markets are over one day, reports are     *)
(* disputed or become the outcome, and the authority's outcome takes       *)
(* effect, whatever else happens on the chain.                             *)
MarketsMoveOn ==
  \A m \in MarketIds :
    /\ IsOpen(m) ~> ~IsOpen(m)
    /\ HasStatus(m, "Reported") ~> HasStatus(m, "Disputed") \/ HasStatus(m, "Resolved")
    /\ AuthorizedOutcomeReports[m] # None ~> HasStatus(m, "Resolved")

-----------------------------------------------------------------------------
(* What comments and docs say, and the code does not do.                   *)

(* Bond in primitives/prediction-market/src/market.rs: is_settled is true  *)
(* if and only if the bond is unreserved and/or (partially) slashed.       *)
BondFlagFaithful ==
  \A m \in MarketIds : \A k \in BondKinds :
    Exists(m) /\ HasBond(markets[m], k) =>
      (markets[m].bonds[k].is_settled <=> held[m][k] # "reserved")

(* "Trying to settle a bond multiple times is always a logic error": no    *)
(* sequence of calls reaches the debug assertion.                          *)
NeverSettledTwice == \A m \in MarketIds : asserts[m] \cap {"settled_twice", "not_pending"} = {}

(* "This will never happen": dispute_early_close and reject_early_close    *)
(* never return to a period that is over.                                  *)
OldPeriodNeverExpired == \A m \in MarketIds : "old_period_expired" \notin asserts[m]

(* "Allows the manual closing for broken markets", those whose auto close  *)
(* was scheduled during a chain stall.                                     *)
EveryMissedCanBeClosed ==
  \A m \in MarketIds :
    Missed(m) /\ markets[m].period.end <= moment => CanCloseManually(m)

(* "ensure, that global disputes controls the resolution now": once a      *)
(* global dispute has started, the market is due only when its vote ends.  *)
GlobalDisputeControlsResolution ==
  \A m \in MarketIds : \A b \in Blocks :
    GlobalDisputesInfo[m] # None /\ MarketIdsPerDisputeBlock[b][m] # 0 => b = GlobalDisputesInfo[m]

(* The global dispute determines "the canonical outcome on which the       *)
(* market finally resolves": the market is Resolved once the vote is over. *)
GlobalDisputeResolves ==
  \A m \in MarketIds :
    GlobalDisputesInfo[m] # None /\ now >= GlobalDisputesInfo[m] => HasStatus(m, "Resolved")

(* "a dispute can not be initiated, because court has not enough juror and *)
(* delegator stake": in that case, inside the dispute window, a global     *)
(* dispute can be started for a Reported market.                           *)
GlobalDisputeWithoutCourt ==
  \A m \in MarketIds :
    HasStatus(m, "Reported") /\ markets[m].dispute_mechanism = "Court"
      /\ now < DisputeDurationEnd(markets[m])
      => CanStartGlobalDispute(m, TRUE)

=============================================================================
