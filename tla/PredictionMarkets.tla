-------------------------- MODULE PredictionMarkets --------------------------
(***************************************************************************)
(* The life of a market in pallets/prediction-markets, driven by           *)
(* extrinsics and by the on_initialize hook of every block, with the       *)
(* dispute mechanisms it calls: pallets/authorized, and what it sees of    *)
(* pallets/court and pallets/global-disputes.                              *)
(*                                                                         *)
(* Every extrinsic is transactional: an error leaves the state alone, so   *)
(* an error is an action that is not enabled.  An account that cannot pay  *)
(* a bond is such an error too.                                            *)
(*                                                                         *)
(* A queue maps each slot to the multiset of market ids stored there (the  *)
(* order inside a BoundedVec is not observable).                           *)
(***************************************************************************)
EXTENDS Market, Functions

CONSTANTS MaxMarkets,                   \* bound: number of markets created
          Blocks,                       \* bound: the block numbers explored
          Moments,                      \* bound: the timestamps explored
          MaxSkippedSlots,              \* bound: Aura slots without a block
          Creators,                     \* whitelisted market creators
          Creations, Mechanisms, Periods, DeadlineChoices,   \* inputs of create_market
          CacheSize,
          MAX_RECOVERY_TIME_FRAMES,
          MinDisputeDuration,
          CorrectionPeriod,
          CloseEarlyBlockPeriod, CloseEarlyTimeFramePeriod,
          CloseEarlyProtectionBlockPeriod, CloseEarlyProtectionTimeFramePeriod,
          RequestInterval, VotePeriod, AggregationPeriod, AppealPeriod, MaxAppeals,
          AddOutcomePeriod, GdVotingPeriod

ASSUME InputAssumption ==
  /\ MaxMarkets \in Nat
  /\ Blocks \subseteq Nat /\ 1 \in Blocks
  /\ Moments \subseteq Nat /\ 0 \in Moments
  /\ Creators \subseteq Accounts
  /\ Creations \subseteq {"Permissionless", "Advised"}
  /\ Mechanisms \subseteq {None, "Authorized", "Court"}
  /\ Periods \subseteq Period
  /\ DeadlineChoices \subseteq Deadlines

(* The periods of runtime/src/lib.rs are positive; "This value must not be *)
(* zero" is said of CorrectionPeriod in pallets/authorized/src/lib.rs.     *)
ASSUME PeriodAssumption ==
  /\ MinDisputeDuration \in Nat \ {0}
  /\ CorrectionPeriod \in Nat \ {0}
  /\ CloseEarlyBlockPeriod \in Nat \ {0}
  /\ CloseEarlyTimeFramePeriod \in Nat
  /\ CloseEarlyTimeFramePeriod >= MILLISECS_PER_BLOCK
  /\ CloseEarlyProtectionBlockPeriod \in Nat \ {0}
  /\ CloseEarlyProtectionTimeFramePeriod \in Nat
  /\ CloseEarlyProtectionTimeFramePeriod >= MILLISECS_PER_BLOCK
  /\ RequestInterval \in Nat \ {0}
  /\ VotePeriod \in Nat \ {0} /\ AggregationPeriod \in Nat \ {0} /\ AppealPeriod \in Nat \ {0}
  /\ MaxAppeals \in Nat \ {0}
  /\ AddOutcomePeriod \in Nat \ {0} /\ GdVotingPeriod \in Nat \ {0}
  /\ MAX_RECOVERY_TIME_FRAMES \in Nat
  /\ MaxSkippedSlots \in Nat
  /\ CacheSize \in Nat \ {0}

VARIABLES
  markets,                    \* market id -> MarketRecord or None
  held,                       \* market id -> holder of each bond's money
  asserts,                    \* market id -> debug assertions that failed
  MarketCounter,
  MarketIdsForEdit,
  MarketIdsPerClose,          \* MarketIdsPerCloseBlock and ...CloseTimeFrame
  MarketIdsPerReportBlock,
  MarketIdsPerDisputeBlock,
  AuthorizedOutcomeReports,   \* market id -> [resolve_at, outcome] or None
  MarketIdToCourtId,          \* markets that have been given a court id
  Courts,                     \* market id -> its court, or None
  GlobalDisputesInfo,         \* market id -> end of the vote, or None
  now,                        \* block number
  moment,                     \* timestamp of the current block
  LastTimeFrame,
  rolledBack                  \* history: some on_initialize was rolled back

marketVars == <<markets, held, asserts>>
queueVars == <<MarketIdsPerClose, MarketIdsPerReportBlock, MarketIdsPerDisputeBlock>>
disputeVars == <<AuthorizedOutcomeReports, MarketIdToCourtId, Courts, GlobalDisputesInfo>>
timeVars == <<now, moment, LastTimeFrame, rolledBack>>
idVars == <<MarketCounter, MarketIdsForEdit>>
vars == <<markets, held, asserts, MarketCounter, MarketIdsForEdit, MarketIdsPerClose,
          MarketIdsPerReportBlock, MarketIdsPerDisputeBlock, AuthorizedOutcomeReports,
          MarketIdToCourtId, Courts, GlobalDisputesInfo, now, moment, LastTimeFrame, rolledBack>>

MarketIds == 0..(MaxMarkets - 1)

TimeFrames == {calculate_time_frame_of_moment(t) : t \in Moments}

CloseSlots == ({"Block"} \X Blocks) \cup ({"TimeFrame"} \X TimeFrames)

Ids == [MarketIds -> Nat]

NoIds == [m \in MarketIds |-> 0]

Court == [appeals : Nat, vote : Nat, aggregation : Nat, appeal : Nat,
          winner : Outcomes \cup {None}]

AuthorityReport == [resolve_at : Nat, outcome : Outcomes]

ASSUME NoDisputeAssumption == None \notin Court /\ None \notin AuthorityReport

TypeOK ==
  /\ markets \in [MarketIds -> MarketRecord \cup {None}]
  /\ held \in [MarketIds -> [BondKinds -> Holders]]
  /\ asserts \in [MarketIds -> SUBSET DebugAsserts]
  /\ MarketCounter \in 0..MaxMarkets
  /\ MarketIdsForEdit \subseteq MarketIds
  /\ MarketIdsPerClose \in [CloseSlots -> Ids]
  /\ MarketIdsPerReportBlock \in [Blocks -> Ids]
  /\ MarketIdsPerDisputeBlock \in [Blocks -> Ids]
  /\ AuthorizedOutcomeReports \in [MarketIds -> AuthorityReport \cup {None}]
  /\ MarketIdToCourtId \subseteq MarketIds
  /\ Courts \in [MarketIds -> Court \cup {None}]
  /\ GlobalDisputesInfo \in [MarketIds -> Nat \cup {None}]
  /\ now \in Blocks
  /\ moment \in Moments
  /\ LastTimeFrame \in Nat \cup {None}
  /\ rolledBack \in BOOLEAN

(* Block 1, the first block with extrinsics; on_initialize returned early  *)
(* in it.                                                                  *)
Init ==
  /\ markets = [m \in MarketIds |-> None]
  /\ held = [m \in MarketIds |-> [k \in BondKinds |-> None]]
  /\ asserts = [m \in MarketIds |-> {}]
  /\ MarketCounter = 0
  /\ MarketIdsForEdit = {}
  /\ MarketIdsPerClose = [s \in CloseSlots |-> NoIds]
  /\ MarketIdsPerReportBlock = [b \in Blocks |-> NoIds]
  /\ MarketIdsPerDisputeBlock = [b \in Blocks |-> NoIds]
  /\ AuthorizedOutcomeReports = [m \in MarketIds |-> None]
  /\ MarketIdToCourtId = {}
  /\ Courts = [m \in MarketIds |-> None]
  /\ GlobalDisputesInfo = [m \in MarketIds |-> None]
  /\ now = 1
  /\ moment = 0
  /\ LastTimeFrame = None
  /\ rolledBack = FALSE

-----------------------------------------------------------------------------
(* Queues *)

HasRoom(q, s) == s \in DOMAIN q /\ SumFunction(q[s]) < CacheSize

Push(q, s, m) == [q EXCEPT ![s][m] = @ + 1]

(* Mutant: removes without looking for the position first. *)
remove_item_Unchecked(q, s, m) == [q EXCEPT ![s][m] = @ - 1]

remove_item(q, s, m) == [q EXCEPT ![s][m] = IF @ > 0 THEN @ - 1 ELSE 0]

insert_auto_close(q, m, mk) == Push(q, CloseSlot(mk.period), m)

clear_auto_close(q, m, mk) ==
  IF mk.status \in {"Active", "Proposed"} THEN remove_item(q, CloseSlot(mk.period), m) ELSE q

(* The block in which the dispute window of a reported market is over.     *)
DisputeDurationEnd(mk) == mk.report.at + mk.deadlines.dispute_duration

authorized_get_auto_resolve(m) ==
  IF AuthorizedOutcomeReports[m] = None THEN None
  ELSE AuthorizedOutcomeReports[m].resolve_at

court_get_auto_resolve(m) ==
  IF m \in MarketIdToCourtId /\ Courts[m] # None THEN Courts[m].appeal ELSE None

(* When the dispute mechanism of a disputed market resolves it.            *)
get_auto_resolve(m) ==
  CASE markets[m].dispute_mechanism = "Authorized" -> authorized_get_auto_resolve(m)
    [] markets[m].dispute_mechanism = "Court" -> court_get_auto_resolve(m)
    [] OTHER -> None

-----------------------------------------------------------------------------
(* Resolution *)

(* on_resolution and everything it calls return Ok.  Court::on_resolution  *)
(* and Court::exchange need the court; a global dispute has removed it.    *)
ResolutionSucceeds(m) ==
  LET mk == markets[m] IN
  /\ mk # None
  /\ mk.status \in {"Reported", "Disputed"}
  /\ mk.report # None
  /\ HasBond(mk, "oracle")
  /\ mk.creation = "Permissionless" => HasBond(mk, "creation")
  /\ mk.status = "Disputed" =>
       \/ mk.dispute_mechanism = "Authorized"
       \/ mk.dispute_mechanism = "Court" /\ m \in MarketIdToCourtId /\ Courts[m] # None

get_resolved_outcome(m) ==
  LET mk == markets[m]
      report == AuthorizedOutcomeReports[m]
      byMechanism ==
        IF mk.status = "Disputed" /\ mk.dispute_mechanism = "Authorized" /\ report # None
        THEN report.outcome
        ELSE IF mk.status = "Disputed" /\ mk.dispute_mechanism = "Court"
        THEN Courts[m].winner
        ELSE None
  IN  IF byMechanism = None THEN mk.report.outcome ELSE byMechanism

BookOf(m) == Book(markets[m], held[m], asserts[m])

ResolvedBook(m) == on_resolution(BookOf(m), get_resolved_outcome(m))

(* Authorized::on_resolution takes the authority's report.                 *)
ReportsAfterResolution(resolving) ==
  [m \in MarketIds |->
     IF m \in resolving /\ markets[m].status = "Disputed"
          /\ markets[m].dispute_mechanism = "Authorized"
     THEN None ELSE AuthorizedOutcomeReports[m]]

PutBook(m, b) ==
  /\ markets' = [markets EXCEPT ![m] = b.mk]
  /\ held' = [held EXCEPT ![m] = b.held]
  /\ asserts' = [asserts EXCEPT ![m] = b.asserts]

HasStatus(m, status) == markets[m] # None /\ markets[m].status = status

-----------------------------------------------------------------------------
(* Creation *)

ensure_market_period_is_valid(period) ==
  IF period.kind = "Block"
  THEN now < period.end
  ELSE calculate_time_frame_of_moment(moment) < calculate_time_frame_of_moment(period.end)

ensure_market_deadlines_are_valid(deadlines, trusted) ==
  IF trusted THEN deadlines.dispute_duration = 0
  ELSE deadlines.dispute_duration >= MinDisputeDuration

construct_market(creation, creator, oracle, mechanism, period, deadlines, bonds) ==
  [creation |-> creation, creator |-> creator, oracle |-> oracle,
   dispute_mechanism |-> mechanism, period |-> period, deadlines |-> deadlines,
   report |-> None, resolved_outcome |-> None,
   status |-> IF creation = "Permissionless" THEN "Active" ELSE "Proposed",
   bonds |-> bonds, early_close |-> None]

ConstructOk(creator, mechanism, period, deadlines) ==
  /\ creator \in Creators
  /\ ensure_market_period_is_valid(period)
  /\ ensure_market_deadlines_are_valid(deadlines, mechanism = None)

(* The market gets the next identifier.                                    *)
build_market(book) ==
  /\ MarketCounter < MaxMarkets
  /\ MarketCounter' = MarketCounter + 1
  /\ PutBook(MarketCounter, book)

create_market(who, oracle, creation, mechanism, period, deadlines) ==
  LET m == MarketCounter
      mk == construct_market(creation, who, oracle, mechanism, period, deadlines,
                             [k \in BondKinds |-> None])
      c == OpenBond(Book(mk, [k \in BondKinds |-> None], {}), "creation", who)
  IN  /\ ConstructOk(who, mechanism, period, deadlines)
      /\ build_market(OpenBond(c, "oracle", who))
      /\ HasRoom(MarketIdsPerClose, CloseSlot(period))
      /\ MarketIdsPerClose' = insert_auto_close(MarketIdsPerClose, m, mk)
      /\ UNCHANGED <<MarketIdsForEdit, MarketIdsPerReportBlock, MarketIdsPerDisputeBlock,
                     disputeVars, timeVars>>

CreateMarket ==
  \E who, oracle \in Accounts, creation \in Creations, mechanism \in Mechanisms,
     period \in Periods, deadlines \in DeadlineChoices :
       create_market(who, oracle, creation, mechanism, period, deadlines)

approve_market(m) ==
  /\ HasStatus(m, "Proposed")
  /\ m \notin MarketIdsForEdit
  /\ HasBond(markets[m], "creation")
  /\ PutBook(m, unreserve_bond([BookOf(m) EXCEPT !.mk.status = "Active"], "creation"))
  /\ UNCHANGED <<idVars, queueVars, disputeVars, timeVars>>

request_edit(m) ==
  /\ HasStatus(m, "Proposed")
  /\ m \notin MarketIdsForEdit
  /\ MarketIdsForEdit' = MarketIdsForEdit \cup {m}
  /\ UNCHANGED <<marketVars, MarketCounter, queueVars, disputeVars, timeVars>>

edit_market(m, oracle, mechanism, period, deadlines) ==
  LET old == markets[m]
      cleared == clear_auto_close(MarketIdsPerClose, m, old)
      edited == construct_market(old.creation, old.creator, oracle, mechanism, period,
                                 deadlines, old.bonds)
  IN  /\ m \in MarketIdsForEdit
      /\ HasStatus(m, "Proposed")
      /\ ConstructOk(old.creator, mechanism, period, deadlines)
      /\ HasRoom(cleared, CloseSlot(period))
      /\ markets' = [markets EXCEPT ![m] = edited]
      /\ MarketIdsPerClose' = insert_auto_close(cleared, m, edited)
      /\ MarketIdsForEdit' = MarketIdsForEdit \ {m}
      /\ UNCHANGED <<held, asserts, MarketCounter, MarketIdsPerReportBlock,
                     MarketIdsPerDisputeBlock, disputeVars, timeVars>>

EditMarket(m) ==
  \E oracle \in Accounts, mechanism \in Mechanisms, period \in Periods,
     deadlines \in DeadlineChoices : edit_market(m, oracle, mechanism, period, deadlines)

reject_market(m) ==
  LET o == unreserve_bond(BookOf(m), "oracle")
      c == slash_bond(o, "creation", "split")
  IN  /\ HasStatus(m, "Proposed")
      /\ HasBond(markets[m], "oracle") /\ HasBond(markets[m], "creation")
      /\ PutBook(m, [c EXCEPT !.mk = None])
      /\ MarketIdsPerClose' = clear_auto_close(MarketIdsPerClose, m, markets[m])
      /\ MarketIdsForEdit' = MarketIdsForEdit \ {m}
      /\ UNCHANGED <<MarketCounter, MarketIdsPerReportBlock, MarketIdsPerDisputeBlock,
                     disputeVars, timeVars>>

-----------------------------------------------------------------------------
(* Closing *)

set_market_end(mk) ==
  [mk EXCEPT !.period.end = IF mk.period.kind = "Block" THEN now ELSE moment]

(* clear_auto_close, close_market and set_market_end, in this order.       *)
CloseNow(m) ==
  LET b == close_market(BookOf(m)) IN
  /\ PutBook(m, [b EXCEPT !.mk = set_market_end(b.mk)])
  /\ MarketIdsPerClose' = clear_auto_close(MarketIdsPerClose, m, markets[m])
  /\ UNCHANGED <<idVars, MarketIdsPerReportBlock, MarketIdsPerDisputeBlock, disputeVars, timeVars>>

admin_move_market_to_closed(m) == HasStatus(m, "Active") /\ CloseNow(m)

close_trusted_market(m, who) ==
  /\ HasStatus(m, "Active")
  /\ who = markets[m].creator
  /\ markets[m].dispute_mechanism = None
  /\ CloseNow(m)

(* Every call in manually_close_market returns Ok: the market's time frame *)
(* was skipped by the hook and still lists it.  A Proposed market would be *)
(* removed by on_market_close, and set_market_end then fails.              *)
CanCloseManually(m) ==
  /\ HasStatus(m, "Active")
  /\ markets[m].period.kind = "Timestamp"
  /\ markets[m].period.end <= moment
  /\ MarketIdsPerClose[CloseSlot(markets[m].period)][m] > 0

manually_close_market(m) == CanCloseManually(m) /\ CloseNow(m)

-----------------------------------------------------------------------------
(* Early close *)

(* get_new_period: closing so many blocks or moments from now.             *)
NewPeriod(mk, blocks, moments) ==
  [mk.period EXCEPT !.end = IF mk.period.kind = "Block" THEN now + blocks ELSE moment + moments]

ProtectionPeriod(mk) ==
  NewPeriod(mk, CloseEarlyProtectionBlockPeriod, CloseEarlyProtectionTimeFramePeriod)

(* Mutant: inserts before the period is mutated. *)
Reschedule_InsertsFirst(m, b) ==
  LET cleared == clear_auto_close(MarketIdsPerClose, m, markets[m]) IN
  /\ HasRoom(cleared, CloseSlot(b.mk.period))
  /\ PutBook(m, b)
  /\ MarketIdsPerClose' = insert_auto_close(cleared, m, markets[m])
  /\ UNCHANGED <<idVars, MarketIdsPerReportBlock, MarketIdsPerDisputeBlock, disputeVars, timeVars>>

(* Put market m under the period of mk: clear_auto_close for the old       *)
(* period, mutate the market, insert_auto_close for the new one.           *)
Reschedule(m, b) ==
  LET cleared == clear_auto_close(MarketIdsPerClose, m, markets[m]) IN
  /\ HasRoom(cleared, CloseSlot(b.mk.period))
  /\ PutBook(m, b)
  /\ MarketIdsPerClose' = insert_auto_close(cleared, m, b.mk)
  /\ UNCHANGED <<idVars, MarketIdsPerReportBlock, MarketIdsPerDisputeBlock, disputeVars, timeVars>>

Scheduled(b, period, state) ==
  [b EXCEPT !.mk.period = period,
            !.mk.early_close = [old |-> b.mk.period, state |-> state]]

ScheduleAsMarketCreator(m, who) ==
  LET mk == markets[m]
      period == NewPeriod(mk, CloseEarlyBlockPeriod, CloseEarlyTimeFramePeriod)
  IN  /\ HasStatus(m, "Active")
      /\ who = mk.creator
      /\ mk.early_close = None
      /\ period.end < mk.period.end
      /\ Reschedule(m, Scheduled(OpenBond(BookOf(m), "close_request", who), period,
                                 "ScheduledAsMarketCreator"))

(* The authority settles a disputed request in favour of the creator.      *)
BondsOfApprovedRequest(b) ==
  LET d == IF IsPending(b.mk, "close_dispute")
           THEN repatriate_bond(b, "close_dispute", b.mk.creator) ELSE b
  IN  IF IsPending(b.mk, "close_request") THEN unreserve_bond(d, "close_request") ELSE d

ScheduleAsOther(m) ==
  LET mk == markets[m]
      disputed == mk.early_close # None /\ mk.early_close.state = "Disputed"
      b == IF disputed THEN BondsOfApprovedRequest(BookOf(m)) ELSE BookOf(m)
  IN  /\ HasStatus(m, "Active")
      /\ mk.early_close # None => mk.early_close.state \in {"Disputed", "Rejected"}
      /\ ProtectionPeriod(mk).end < mk.period.end
      /\ Reschedule(m, Scheduled(b, ProtectionPeriod(mk), "ScheduledAsOther"))

schedule_early_close(m) ==
  \/ ScheduleAsOther(m)
  \/ \E who \in Accounts : ScheduleAsMarketCreator(m, who)

IsExpired(period) == period.end <= (IF period.kind = "Block" THEN now ELSE moment)

(* Mutant: keeps the early end. *)
RestoredPeriod_KeepsNew(b) == b

(* Back to the old period; an old period that is over already fails a      *)
(* debug assertion.                                                        *)
RestoredPeriod(b) ==
  [b EXCEPT !.mk.period = b.mk.early_close.old,
            !.asserts = IF IsExpired(b.mk.early_close.old)
                        THEN @ \cup {"old_period_expired"} ELSE @]

dispute_early_close(m, who) ==
  LET b == OpenBond(RestoredPeriod(BookOf(m)), "close_dispute", who) IN
  /\ HasStatus(m, "Active")
  /\ markets[m].early_close # None
  /\ markets[m].early_close.state = "ScheduledAsMarketCreator"
  /\ Reschedule(m, [b EXCEPT !.mk.early_close.state = "Disputed"])

(* The bonds go to the disputor whenever there is a dispute bond, settled  *)
(* or not.                                                                 *)
BondsOfRejectedRequest(b) ==
  IF ~HasBond(b.mk, "close_dispute") THEN b
  ELSE unreserve_bond(
         repatriate_bond(b, "close_request", b.mk.bonds["close_dispute"].who), "close_dispute")

Rejected(b) == [BondsOfRejectedRequest(b) EXCEPT !.mk.early_close.state = "Rejected"]

reject_early_close(m) ==
  /\ HasStatus(m, "Active")
  /\ markets[m].early_close # None
  /\ HasBond(markets[m], "close_dispute") => HasBond(markets[m], "close_request")
  /\ \/ /\ markets[m].early_close.state = "Disputed"
        /\ PutBook(m, Rejected(BookOf(m)))
        /\ UNCHANGED <<idVars, queueVars, disputeVars, timeVars>>
     \/ /\ markets[m].early_close.state = "ScheduledAsOther"
        /\ Reschedule(m, Rejected(RestoredPeriod(BookOf(m))))

-----------------------------------------------------------------------------
(* Reporting *)

(* The clock and the scale of a market's deadlines: blocks, or moments.    *)
Clock(mk) == IF mk.period.kind = "Block" THEN now ELSE moment

GracePeriodEnd(mk) ==
  mk.period.end + mk.deadlines.grace_period
                  * (IF mk.period.kind = "Block" THEN 1 ELSE MILLISECS_PER_BLOCK)

oracle_reporting_window_expired(mk) ==
  Clock(mk) > GracePeriodEnd(mk)
              + mk.deadlines.oracle_duration
                * (IF mk.period.kind = "Block" THEN 1 ELSE MILLISECS_PER_BLOCK)

(* Mutant: one block late. *)
block_after_dispute_duration_Late(mk) == now + mk.deadlines.dispute_duration + 1

block_after_dispute_duration(mk) == now + mk.deadlines.dispute_duration

Reported(b, who, outcome) ==
  [b EXCEPT !.mk.report = [at |-> now, by |-> who, outcome |-> outcome],
            !.mk.status = "Reported"]

report_market_with_dispute_mechanism(m, who, outcome) ==
  LET mk == markets[m]
      outsider == who # mk.oracle
      b == IF outsider THEN OpenBond(BookOf(m), "outsider", who) ELSE BookOf(m)
      at == block_after_dispute_duration(mk)
  IN  /\ GracePeriodEnd(mk) <= Clock(mk)
      /\ outsider => oracle_reporting_window_expired(mk)
      /\ HasRoom(MarketIdsPerReportBlock, at)
      /\ PutBook(m, Reported(b, who, outcome))
      /\ MarketIdsPerReportBlock' = Push(MarketIdsPerReportBlock, at, m)
      /\ UNCHANGED <<idVars, MarketIdsPerClose, MarketIdsPerDisputeBlock, disputeVars, timeVars>>

(* A trusted market resolves in the call that reports it.                  *)
report_and_resolve_market(m, who, outcome) ==
  /\ who = markets[m].oracle
  /\ HasBond(markets[m], "oracle")
  /\ markets[m].creation = "Permissionless" => HasBond(markets[m], "creation")
  /\ PutBook(m, on_resolution(Reported(BookOf(m), who, outcome), outcome))
  /\ UNCHANGED <<idVars, queueVars, disputeVars, timeVars>>

(* Mutant: does not ensure that the market is closed. *)
report_Open(m, who, outcome) ==
  /\ markets[m] # None
  /\ markets[m].report = None
  /\ IF markets[m].dispute_mechanism # None
     THEN report_market_with_dispute_mechanism(m, who, outcome)
     ELSE report_and_resolve_market(m, who, outcome)

report(m, who, outcome) ==
  /\ HasStatus(m, "Closed")
  /\ markets[m].report = None
  /\ IF markets[m].dispute_mechanism # None
     THEN report_market_with_dispute_mechanism(m, who, outcome)
     ELSE report_and_resolve_market(m, who, outcome)

admin_update_market_oracle(m, new_oracle) ==
  /\ HasStatus(m, "Closed")
  /\ markets[m].report = None
  /\ markets[m].dispute_mechanism = None
  /\ oracle_reporting_window_expired(markets[m])
  /\ markets' = [markets EXCEPT ![m].oracle = new_oracle]
  /\ UNCHANGED <<held, asserts, idVars, queueVars, disputeVars, timeVars>>

-----------------------------------------------------------------------------
(* Disputes *)

Disputed(b, who) == [OpenBond(b, "dispute", who) EXCEPT !.mk.status = "Disputed"]

(* RoundTiming of a round whose pre-vote phase ends at request_block.      *)
Round(appeals, request_block) ==
  [appeals |-> appeals,
   vote |-> request_block + VotePeriod,
   aggregation |-> request_block + VotePeriod + AggregationPeriod,
   appeal |-> request_block + VotePeriod + AggregationPeriod + AppealPeriod,
   winner |-> None]

(* RequestBlock is ahead of the current block by at most RequestInterval.  *)
RequestBlocks == (now + 1)..(now + RequestInterval)

DisputeAuthorized(m, who) ==
  /\ markets[m].dispute_mechanism = "Authorized"
  /\ PutBook(m, Disputed(BookOf(m), who))
  /\ UNCHANGED <<idVars, queueVars, disputeVars, timeVars>>

(* Court::on_dispute opens a court.  Too little stake in the pool is an    *)
(* error.                                                                  *)
DisputeCourt(m, who) ==
  /\ markets[m].dispute_mechanism = "Court"
  /\ PutBook(m, Disputed(BookOf(m), who))
  /\ \E request_block \in RequestBlocks :
       LET court == Round(0, request_block) IN
       /\ HasRoom(MarketIdsPerDisputeBlock, court.appeal)
       /\ MarketIdsPerDisputeBlock' = Push(MarketIdsPerDisputeBlock, court.appeal, m)
       /\ Courts' = [Courts EXCEPT ![m] = court]
  /\ MarketIdToCourtId' = MarketIdToCourtId \cup {m}
  /\ UNCHANGED <<idVars, MarketIdsPerClose, MarketIdsPerReportBlock, AuthorizedOutcomeReports,
                 GlobalDisputesInfo, timeVars>>

dispute(m, who) ==
  /\ HasStatus(m, "Reported")
  /\ DisputeAuthorized(m, who) \/ DisputeCourt(m, who)

(* The authority may correct its outcome, but not the block of resolution. *)
authorize_market_outcome(m, outcome) ==
  LET first == AuthorizedOutcomeReports[m] = None
      resolve_at == IF first THEN now + CorrectionPeriod
                    ELSE AuthorizedOutcomeReports[m].resolve_at
  IN  /\ HasStatus(m, "Disputed")
      /\ markets[m].dispute_mechanism = "Authorized"
      /\ AuthorizedOutcomeReports' =
           [AuthorizedOutcomeReports EXCEPT ![m] = [resolve_at |-> resolve_at, outcome |-> outcome]]
      /\ IF first
         THEN /\ HasRoom(MarketIdsPerDisputeBlock, resolve_at)
              /\ MarketIdsPerDisputeBlock' = Push(MarketIdsPerDisputeBlock, resolve_at, m)
         ELSE UNCHANGED MarketIdsPerDisputeBlock
      /\ UNCHANGED <<marketVars, idVars, MarketIdsPerClose, MarketIdsPerReportBlock,
                     MarketIdToCourtId, Courts, GlobalDisputesInfo, timeVars>>

(* The votes revealed in the aggregation period decide the winner of the   *)
(* round; which one they decide is left open.                              *)
reveal_vote(m, outcome) ==
  /\ Courts[m] # None
  /\ Courts[m].vote < now /\ now <= Courts[m].aggregation
  /\ Courts' = [Courts EXCEPT ![m].winner = outcome]
  /\ UNCHANGED <<marketVars, idVars, queueVars, AuthorizedOutcomeReports, MarketIdToCourtId,
                 GlobalDisputesInfo, timeVars>>

check_appealable_market(m) ==
  /\ HasStatus(m, "Disputed")
  /\ markets[m].dispute_mechanism = "Court"
  /\ Courts[m].aggregation < now /\ now < Courts[m].appeal

(* The last appeal starts no new round and leaves the market to a global   *)
(* dispute.                                                                *)
appeal(m) ==
  LET court == Courts[m]
      number == court.appeals + 1
      last == court.appeal
  IN  /\ court # None
      /\ number <= MaxAppeals
      /\ check_appealable_market(m)
      /\ \/ /\ number < MaxAppeals
            /\ \E request_block \in RequestBlocks :
                 LET round == Round(number, request_block) IN
                 /\ HasRoom(MarketIdsPerDisputeBlock, round.appeal)
                 /\ Courts' = [Courts EXCEPT ![m] = round]
                 /\ MarketIdsPerDisputeBlock' =
                      remove_item(Push(MarketIdsPerDisputeBlock, round.appeal, m), last, m)
         \/ /\ number = MaxAppeals
            /\ Courts' = [Courts EXCEPT ![m].appeals = number]
            /\ MarketIdsPerDisputeBlock' = remove_item(MarketIdsPerDisputeBlock, last, m)
      /\ UNCHANGED <<marketVars, idVars, MarketIdsPerClose, MarketIdsPerReportBlock,
                     AuthorizedOutcomeReports, MarketIdToCourtId, GlobalDisputesInfo, timeVars>>

(* Court::has_failed returns Ok(true); lowStake says whether the juror     *)
(* pool has too little unconsumed stake for one more round.                *)
has_failed(m, lowStake) ==
  /\ m \in MarketIdToCourtId
  /\ IF Courts[m] # None
     THEN \/ Courts[m].appeals = MaxAppeals
          \/ check_appealable_market(m) /\ lowStake
     ELSE /\ markets[m].report.at <= now /\ now < DisputeDurationEnd(markets[m])
          /\ lowStake

CanStartGlobalDispute(m, lowStake) ==
  /\ markets[m] # None
  /\ markets[m].dispute_mechanism = "Court"
  /\ markets[m].status \in {"Disputed", "Reported"}
  /\ GlobalDisputesInfo[m] = None
  /\ markets[m].report # None
  /\ has_failed(m, lowStake)
  /\ m \in MarketIdToCourtId => Courts[m] # None

(* Court::on_global_dispute removes the court first, so that the           *)
(* clear_auto_resolve that follows finds no block to clear for a disputed  *)
(* market.                                                                 *)
start_global_dispute(m) ==
  LET vote_end == now + AddOutcomePeriod + GdVotingPeriod IN
  /\ \E lowStake \in BOOLEAN : CanStartGlobalDispute(m, lowStake)
  /\ Courts' = [Courts EXCEPT ![m] = None]
  /\ MarketIdsPerReportBlock' =
       IF markets[m].status = "Reported"
       THEN remove_item(MarketIdsPerReportBlock, DisputeDurationEnd(markets[m]), m)
       ELSE MarketIdsPerReportBlock
  /\ markets' = [markets EXCEPT ![m].status = "Disputed"]
  /\ HasRoom(MarketIdsPerDisputeBlock, vote_end)
  /\ MarketIdsPerDisputeBlock' = Push(MarketIdsPerDisputeBlock, vote_end, m)
  /\ GlobalDisputesInfo' = [GlobalDisputesInfo EXCEPT ![m] = vote_end]
  /\ UNCHANGED <<held, asserts, idVars, MarketIdsPerClose, AuthorizedOutcomeReports,
                 MarketIdToCourtId, timeVars>>

-----------------------------------------------------------------------------
(* Resolving *)

(* Mutant: forgets the disputed markets. *)
ClearAutoResolve_OnlyReported(m) ==
  /\ MarketIdsPerReportBlock' =
       IF markets[m].dispute_mechanism # None /\ markets[m].status = "Reported"
       THEN remove_item(MarketIdsPerReportBlock, DisputeDurationEnd(markets[m]), m)
       ELSE MarketIdsPerReportBlock
  /\ UNCHANGED MarketIdsPerDisputeBlock

(* clear_auto_resolve of a market with a dispute mechanism.                *)
ClearAutoResolve(m) ==
  LET mk == markets[m]
      at == get_auto_resolve(m)
  IN  /\ MarketIdsPerReportBlock' =
           IF mk.dispute_mechanism # None /\ mk.status = "Reported"
           THEN remove_item(MarketIdsPerReportBlock, DisputeDurationEnd(mk), m)
           ELSE MarketIdsPerReportBlock
      /\ MarketIdsPerDisputeBlock' =
           IF mk.dispute_mechanism # None /\ mk.status = "Disputed" /\ at # None
           THEN remove_item(MarketIdsPerDisputeBlock, at, m)
           ELSE MarketIdsPerDisputeBlock

admin_move_market_to_resolved(m) ==
  /\ ResolutionSucceeds(m)
  /\ ClearAutoResolve(m)
  /\ PutBook(m, ResolvedBook(m))
  /\ AuthorizedOutcomeReports' = ReportsAfterResolution({m})
  /\ UNCHANGED <<idVars, MarketIdsPerClose, MarketIdToCourtId, Courts, GlobalDisputesInfo,
                 timeVars>>

-----------------------------------------------------------------------------
(* The hook.  It runs before the timestamp of the new block is set, so it  *)
(* still sees the previous one.                                            *)

CurrentTimeFrame == calculate_time_frame_of_moment(moment) + 1

(* Mutant: starts one time frame too late. *)
StartTimeFrame_Late ==
  (IF LastTimeFrame = None THEN CurrentTimeFrame - 1 ELSE LastTimeFrame) + 2

(* First time frame to process; what lies further back than the recovery   *)
(* limit is skipped.                                                       *)
StartTimeFrame ==
  LET start == (IF LastTimeFrame = None THEN CurrentTimeFrame - 1 ELSE LastTimeFrame) + 1 IN
  IF CurrentTimeFrame - start > MAX_RECOVERY_TIME_FRAMES
  THEN CurrentTimeFrame - MAX_RECOVERY_TIME_FRAMES ELSE start

(* Mutant of DueSlots: the queue of the blocks is forgotten. *)
DueSlots_TimeFrames == {"TimeFrame"} \X (StartTimeFrame..CurrentTimeFrame)

DueSlots == {<<"Block", now + 1>>} \cup ({"TimeFrame"} \X (StartTimeFrame..CurrentTimeFrame))

IsListed(q, slots, m) == \E s \in slots \cap DOMAIN q : q[s][m] > 0

Closing == {m \in MarketIds : IsListed(MarketIdsPerClose, DueSlots, m)}

(* market_status_manager returns Ok: a second visit of the same market     *)
(* would find the status changed, or no market.                            *)
ClosingSucceeds ==
  \A m \in Closing :
    /\ HasStatus(m, "Active") \/ HasStatus(m, "Proposed")
    /\ HasStatus(m, "Proposed") => HasBond(markets[m], "creation") /\ HasBond(markets[m], "oracle")
    /\ \A s, t \in DueSlots \cap CloseSlots :
         /\ MarketIdsPerClose[s][m] <= 1
         /\ MarketIdsPerClose[s][m] = 1 /\ MarketIdsPerClose[t][m] = 1 => s = t

DueReports == {m \in MarketIds : MarketIdsPerReportBlock[now + 1][m] > 0}

DueDisputes == {m \in MarketIds : MarketIdsPerDisputeBlock[now + 1][m] > 0}

Resolving == {m \in DueReports : HasStatus(m, "Reported")} \cup DueDisputes

(* resolution_manager returns Ok.  Reported markets are skipped once their *)
(* status has changed, disputed ones are not.                              *)
ResolvingSucceeds ==
  /\ \A m \in DueReports : markets[m] # None
  /\ \A m \in Resolving : ResolutionSucceeds(m)
  /\ \A m \in DueDisputes :
       /\ MarketIdsPerDisputeBlock[now + 1][m] = 1
       /\ ~(m \in DueReports /\ HasStatus(m, "Reported"))

on_market_close(m) ==
  IF markets[m].status = "Active"
  THEN close_market(BookOf(m))
  ELSE handle_expired_advised_market(BookOf(m))

(* The book of market m after the hook.                                    *)
BookAfterHook(m) ==
  IF m \in Closing THEN on_market_close(m)
  ELSE IF m \in Resolving THEN ResolvedBook(m)
  ELSE BookOf(m)

OnInitializeCommits ==
  /\ ClosingSucceeds /\ ResolvingSucceeds
  /\ markets' = [m \in MarketIds |-> BookAfterHook(m).mk]
  /\ held' = [m \in MarketIds |-> BookAfterHook(m).held]
  /\ asserts' = [m \in MarketIds |-> BookAfterHook(m).asserts]
  /\ MarketIdsForEdit' = {m \in MarketIdsForEdit : ~(m \in Closing /\ HasStatus(m, "Proposed"))}
  /\ MarketIdsPerClose' =
       [s \in CloseSlots |-> IF s \in DueSlots THEN NoIds ELSE MarketIdsPerClose[s]]
  /\ MarketIdsPerReportBlock' = [MarketIdsPerReportBlock EXCEPT ![now + 1] = NoIds]
  /\ MarketIdsPerDisputeBlock' = [MarketIdsPerDisputeBlock EXCEPT ![now + 1] = NoIds]
  /\ AuthorizedOutcomeReports' = ReportsAfterResolution(Resolving)
  /\ LastTimeFrame' = CurrentTimeFrame
  /\ UNCHANGED <<MarketCounter, MarketIdToCourtId, Courts, GlobalDisputesInfo, rolledBack>>

(* One failing market takes the work of the whole block with it.           *)
OnInitializeRollsBack ==
  /\ ~(ClosingSucceeds /\ ResolvingSucceeds)
  /\ rolledBack' = TRUE
  /\ UNCHANGED <<marketVars, idVars, queueVars, disputeVars, LastTimeFrame>>

(* pallet-timestamp and Aura, external: each block has a slot of its own,  *)
(* so the time frame grows; slots without a block are skipped.             *)
SetTimestamp ==
  \E t \in Moments :
    /\ calculate_time_frame_of_moment(t) > calculate_time_frame_of_moment(moment)
    /\ calculate_time_frame_of_moment(t) <= CurrentTimeFrame + MaxSkippedSlots
    /\ moment' = t

NewBlock ==
  /\ now + 1 \in Blocks
  /\ now' = now + 1
  /\ SetTimestamp
  /\ OnInitializeCommits \/ OnInitializeRollsBack

-----------------------------------------------------------------------------

MarketStep(m) ==
  \/ approve_market(m)
  \/ request_edit(m)
  \/ EditMarket(m)
  \/ reject_market(m)
  \/ admin_move_market_to_closed(m)
  \/ \E who \in Accounts : close_trusted_market(m, who)
  \/ manually_close_market(m)
  \/ schedule_early_close(m)
  \/ \E who \in Accounts : dispute_early_close(m, who)
  \/ reject_early_close(m)
  \/ \E who \in Accounts, outcome \in Outcomes : report(m, who, outcome)
  \/ \E oracle \in Accounts : admin_update_market_oracle(m, oracle)
  \/ \E who \in Accounts : dispute(m, who)
  \/ \E outcome \in Outcomes : authorize_market_outcome(m, outcome)
  \/ \E outcome \in Outcomes : reveal_vote(m, outcome)
  \/ appeal(m)
  \/ start_global_dispute(m)
  \/ admin_move_market_to_resolved(m)

Next ==
  \/ NewBlock
  \/ CreateMarket
  \/ \E m \in MarketIds : MarketStep(m)

Spec == Init /\ [][Next]_vars

=============================================================================
