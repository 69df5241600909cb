----------------------------- MODULE MarketTime -----------------------------
(* The markets and the clock: what falls due is done, and what the hook    *)
(* misses can be closed.                                                   *)
EXTENDS MarketTheorems

-----------------------------------------------------------------------------
(* Rolled back blocks *)

\* No extrinsic moves the clock.
LEMMA ClockSteps ==
  ASSUME Next
  PROVE  NewBlock \/ UNCHANGED timeVars
<1>1. CASE CreateMarket
  BY ZenonT(30), <1>1 DEF CreateMarket, create_market
<1>2. ASSUME NEW m \in MarketIds, MarketStep(m)
      PROVE  UNCHANGED timeVars
  <2>1. CASE approve_market(m) \/ request_edit(m) \/ EditMarket(m) \/ reject_market(m)
    BY Zenon, <2>1 DEF approve_market, request_edit, EditMarket, edit_market, reject_market
  <2>2. CASE \/ admin_move_market_to_closed(m) \/ manually_close_market(m)
             \/ \E who \in Accounts : close_trusted_market(m, who)
    BY Zenon, <2>2 DEF admin_move_market_to_closed, manually_close_market, close_trusted_market,
                       CloseNow
  <2>3. CASE schedule_early_close(m)
    BY Zenon, <2>3 DEF schedule_early_close, ScheduleAsOther, ScheduleAsMarketCreator, Reschedule
  <2>4. CASE reject_early_close(m) \/ \E who \in Accounts : dispute_early_close(m, who)
    BY Zenon, <2>4 DEF reject_early_close, dispute_early_close, Reschedule
  <2>5. CASE \E who \in Accounts, outcome \in Outcomes : report(m, who, outcome)
    BY Zenon, <2>5 DEF report, report_market_with_dispute_mechanism, report_and_resolve_market
  <2>6. CASE \E oracle \in Accounts : admin_update_market_oracle(m, oracle)
    BY Zenon, <2>6 DEF admin_update_market_oracle
  <2>7. CASE \E who \in Accounts : dispute(m, who)
    BY Zenon, <2>7 DEF dispute, DisputeAuthorized, DisputeCourt
  <2>8. CASE \E outcome \in Outcomes : authorize_market_outcome(m, outcome) \/ reveal_vote(m, outcome)
    BY Zenon, <2>8 DEF authorize_market_outcome, reveal_vote
  <2>9. CASE appeal(m) \/ start_global_dispute(m) \/ admin_move_market_to_resolved(m)
    BY Zenon, <2>9 DEF appeal, start_global_dispute, admin_move_market_to_resolved
  <2>10. QED
    BY Zenon, <1>2, <2>1, <2>2, <2>3, <2>4, <2>5, <2>6, <2>7, <2>8, <2>9 DEF MarketStep
<1>3. QED
  BY Zenon, <1>1, <1>2 DEF Next

(* A block is rolled back only if a market under global dispute is due in  *)
(* it: no history of creations, edits, early closes, reports, disputes and *)
(* appeals lets a market fail to close or to resolve in on_initialize.     *)
THEOREM RollbacksCorrect == Spec => RollbackOnlyByGlobalDispute
<1>1. ASSUME MarketInv, [Next]_vars, now' # now, OnInitializeRollsBack
      PROVE  \E m \in DueDisputes : GlobalDisputesInfo[m] # None
  <2>1. NewBlock
    BY Zenon, <1>1, ClockSteps DEF vars, timeVars
  <2>2. now + 1 \in Blocks /\ ~(ClosingSucceeds /\ ResolvingSucceeds)
    BY Zenon, <1>1, <2>1 DEF NewBlock, OnInitializeRollsBack
  <2>3. QED
    BY Zenon, <1>1, <2>2, HookWorks
<1>2. MarketInv /\ [Next]_vars =>
        [now' # now /\ OnInitializeRollsBack =>
           \E m \in DueDisputes : GlobalDisputesInfo[m] # None]_vars
  BY Zenon, <1>1
<1>3. QED
  BY <1>2, Invariant, PTL DEF Spec, RollbackOnlyByGlobalDispute

-----------------------------------------------------------------------------
(* Deadlines *)

(* The market mk, whose dispute is due at the block at, or at no block, is *)
(* not overdue at the block t; gd is its global dispute, if any.           *)
OnTime(mk, gd, at, t) ==
  /\ mk # None /\ mk.status \in {"Active", "Proposed"} /\ mk.period.kind = "Block" =>
       t < mk.period.end
  /\ mk # None /\ mk.status = "Reported" => t < DisputeDurationEnd(mk)
  /\ gd = None /\ at # None => t < at

DueOf(m) == DueBlock(markets[m], AuthorizedOutcomeReports[m], Courts[m])

\* NothingOverdue, market by market.
LEMMA OverdueParts ==
  /\ DisputesSound =>
       (NothingOverdue <=> (~rolledBack =>
          \A m \in MarketIds : OnTime(markets[m], GlobalDisputesInfo[m], DueOf(m), now)))
  /\ DisputesSound' =>
       (NothingOverdue' <=> (~rolledBack' =>
          \A m \in MarketIds : OnTime(markets'[m], GlobalDisputesInfo'[m], DueOf(m)', now')))
<1>1. ASSUME DisputesSound
      PROVE  \A m \in MarketIds : AutoResolveBlock(m) = DueOf(m)
  BY Zenon, <1>1, DueBlocks DEF DisputesSound, DueOf
<1>2. ASSUME DisputesSound'
      PROVE  \A m \in MarketIds : AutoResolveBlock(m)' = DueOf(m)'
  BY Zenon, <1>2, DueBlocks DEF DisputesSound, DueOf
<1>3. ASSUME DisputesSound, NEW m \in MarketIds
      PROVE  OnTime(markets[m], GlobalDisputesInfo[m], DueOf(m), now)
             <=> /\ IsOpen(m) /\ markets[m].period.kind = "Block" => now < markets[m].period.end
                 /\ HasStatus(m, "Reported") => now < DisputeDurationEnd(markets[m])
                 /\ GlobalDisputesInfo[m] = None /\ AutoResolveBlock(m) # None =>
                      now < AutoResolveBlock(m)
  BY Zenon, <1>1, <1>3 DEF OnTime, IsOpen, HasStatus
<1>4. ASSUME DisputesSound', NEW m \in MarketIds
      PROVE  OnTime(markets'[m], GlobalDisputesInfo'[m], DueOf(m)', now')
             <=> /\ IsOpen(m)' /\ markets'[m].period.kind = "Block" => now' < markets'[m].period.end
                 /\ HasStatus(m, "Reported")' => now' < DisputeDurationEnd(markets'[m])
                 /\ GlobalDisputesInfo'[m] = None /\ AutoResolveBlock(m)' # None =>
                      now' < AutoResolveBlock(m)'
  BY Zenon, <1>2, <1>4 DEF OnTime, IsOpen, HasStatus
<1>5. QED
  BY Zenon, <1>3, <1>4 DEF NothingOverdue

\* A step that changes one market and its dispute, but not the clock.
LEMMA OneOnTime ==
  ASSUME DisputesSound, DisputesSound', NothingOverdue, NEW m \in MarketIds,
         OnlyBook(m), OnlyDispute(m), UNCHANGED timeVars,
         OnTime(markets[m], GlobalDisputesInfo[m], DueOf(m), now) =>
           OnTime(markets'[m], GlobalDisputesInfo'[m], DueOf(m)', now)
  PROVE  NothingOverdue'
<1>1. now' = now /\ rolledBack' = rolledBack
  BY Zenon DEF timeVars
<1>2. SUFFICES ASSUME ~rolledBack, NEW n \in MarketIds
               PROVE  OnTime(markets'[n], GlobalDisputesInfo'[n], DueOf(n)', now)
  BY Zenon, <1>1, OverdueParts
<1>3. OnTime(markets[n], GlobalDisputesInfo[n], DueOf(n), now)
  BY Zenon, <1>2, OverdueParts
<1>4. CASE n # m
  <2>1. /\ markets'[n] = markets[n] /\ GlobalDisputesInfo'[n] = GlobalDisputesInfo[n]
        /\ AuthorizedOutcomeReports'[n] = AuthorizedOutcomeReports[n] /\ Courts'[n] = Courts[n]
    BY Zenon, <1>4 DEF OnlyBook, OnlyDispute
  <2>2. DueOf(n)' = DueOf(n)
    BY Zenon, <2>1 DEF DueOf
  <2>3. QED
    BY Zenon, <1>3, <2>1, <2>2
<1>5. QED
  BY Zenon, <1>3, <1>4

\* Calls on markets that are not reported yet.
LEMMA OpenOnTime ==
  ASSUME TypeOK, TypeOK', NEW m \in MarketIds, OpenMove(m),
         OnTime(markets[m], GlobalDisputesInfo[m], DueOf(m), now)
  PROVE  OnTime(markets'[m], GlobalDisputesInfo'[m], DueOf(m)', now)
<1>1. CASE markets'[m] = None
  BY Zenon, <1>1 DEF OnTime, DueOf, DueBlock
<1>2. CASE markets'[m] # None
  <2>1. /\ markets[m] # None /\ markets'[m].status \in {"Proposed", "Active", "Closed"}
        /\ markets'[m].status # "Closed" => markets[m].status \in {"Proposed", "Active"}
    BY Zenon, <1>2 DEF OpenMove
  <2>2. DueOf(m)' = None
    BY Zenon, <2>1 DEF DueOf, DueBlock
  <2>3. ASSUME markets'[m].status # "Closed", markets'[m].period.kind = "Block"
        PROVE  now < markets'[m].period.end
    <3>1. markets[m].period.kind = "Block" => now < markets[m].period.end
      BY Zenon, <2>1, <2>3 DEF OnTime
    <3>2. markets[m].period.end \in Nat /\ markets'[m].period.end \in Nat /\ now \in Nat
      <4>1. markets[m] \in MarketRecord /\ markets'[m] \in MarketRecord
        BY Zenon, <1>2, <2>1 DEF TypeOK
      <4>2. QED
        BY Zenon, <4>1, TypeParts, ClockType DEF MarketRecord, Period
    <3>3. CASE markets'[m].period = markets[m].period
      BY Zenon, <2>3, <3>1, <3>3
    <3>4. CASE ensure_market_period_is_valid(markets'[m].period)
      BY Zenon, <2>3, <3>4 DEF ensure_market_period_is_valid
    <3>5. CASE /\ markets'[m].period.kind = markets[m].period.kind
               /\ markets[m].period.end < markets'[m].period.end
      BY <2>3, <3>1, <3>2, <3>5
    <3>6. QED
      BY Zenon, <1>2, <2>3, <3>3, <3>4, <3>5 DEF OpenMove
  <2>4. QED
    BY Zenon, <2>1, <2>2, <2>3 DEF OnTime
<1>3. QED
  BY Zenon, <1>1, <1>2

\* What the hook of the next block leaves alone is not due in that block.
LEMMA NotDue ==
  ASSUME MarketInv, now + 1 \in Blocks, NEW m \in MarketIds, m \notin Closing \cup Resolving
  PROVE  /\ IsOpen(m) /\ markets[m].period.kind = "Block" => markets[m].period.end # now + 1
         /\ HasStatus(m, "Reported") => DisputeDurationEnd(markets[m]) # now + 1
         /\ GlobalDisputesInfo[m] = None => DueOf(m) # now + 1
<1>1. /\ TypeOK /\ CloseQueueExact /\ DisputesSound /\ ReportQueueExact /\ DisputeQueueExact
  BY Zenon DEF MarketInv, QueueInv, BookInv
<1>2. ASSUME IsOpen(m), markets[m].period.kind = "Block", markets[m].period.end = now + 1
      PROVE  FALSE
  <2> DEFINE s == <<"Block", now + 1>>
  <2>1. s = CloseSlot(markets[m].period)
    BY Zenon, <1>2 DEF CloseSlot
  <2>2. s \in CloseSlots /\ s \in DueSlots
    BY Zenon DEF CloseSlots, DueSlots
  <2> HIDE DEF s
  <2>3. MarketIdsPerClose[s][m] > 0
    BY Zenon, <1>1, <1>2, <2>1, <2>2, CloseEntry
  <2>4. s \in DOMAIN MarketIdsPerClose
    BY Zenon, <1>1, <2>2 DEF TypeOK
  <2>5. QED
    BY Zenon, <2>2, <2>3, <2>4 DEF Closing, IsListed
<1>3. ASSUME HasStatus(m, "Reported"), DisputeDurationEnd(markets[m]) = now + 1
      PROVE  FALSE
  <2>1. MarketIdsPerReportBlock[now + 1][m] = 1
    BY Zenon, <1>1, <1>3 DEF ReportQueueExact, Indicator
  <2>2. m \in DueReports
    BY <2>1 DEF DueReports
  <2>3. QED
    BY Zenon, <1>3, <2>2 DEF Resolving
<1>4. ASSUME GlobalDisputesInfo[m] = None, DueOf(m) = now + 1
      PROVE  FALSE
  <2>1. DisputeQueued(MarketIdsPerDisputeBlock, now + 1, m)
    BY Zenon, <1>1, <1>4, DisputeQueueParts DEF DueOf
  <2>2. MarketIdsPerDisputeBlock[now + 1][m] = 1
    BY Zenon, <2>1 DEF DisputeQueued, Indicator
  <2>3. m \in DueDisputes
    BY <2>2 DEF DueDisputes
  <2>4. QED
    BY Zenon, <2>3 DEF Resolving
<1>5. QED
  BY Zenon, <1>2, <1>3, <1>4

\* The deadlines of a market are numbers.
LEMMA DeadlineTypes ==
  ASSUME TypeOK, BooksSound, NEW m \in MarketIds
  PROVE  /\ markets[m] # None => markets[m].period.end \in Nat
         /\ HasStatus(m, "Reported") => DisputeDurationEnd(markets[m]) \in Nat
         /\ DueOf(m) \in Nat \cup {None}
<1>1. markets[m] # None => markets[m] \in MarketRecord
  BY Zenon DEF TypeOK
<1>2. markets[m] # None => markets[m].period.end \in Nat
  BY Zenon, <1>1 DEF MarketRecord, Period
<1>3. HasStatus(m, "Reported") => DisputeDurationEnd(markets[m]) \in Nat
  <2> SUFFICES ASSUME HasStatus(m, "Reported") PROVE DisputeDurationEnd(markets[m]) \in Nat
    OBVIOUS
  <2>1. markets[m] # None /\ markets[m].status = "Reported"
    BY Zenon DEF HasStatus
  <2>2. markets[m].report # None
    BY Zenon, <2>1 DEF BooksSound, Exists, SoundBook, StatusSound
  <2>3. markets[m].report \in Report /\ markets[m].deadlines \in Deadlines
    BY Zenon, <1>1, <2>1, <2>2 DEF MarketRecord
  <2>4. markets[m].report.at \in Nat /\ markets[m].deadlines.dispute_duration \in Nat
    BY Zenon, <2>3 DEF Report, Deadlines
  <2>5. QED
    BY <2>4 DEF DisputeDurationEnd
<1>4. DueOf(m) \in Nat \cup {None}
  <2>1. AuthorizedOutcomeReports[m] # None => AuthorizedOutcomeReports[m].resolve_at \in Nat
    BY Zenon DEF TypeOK, AuthorityReport
  <2>2. Courts[m] # None => Courts[m].appeal \in Nat
    BY Zenon DEF TypeOK, Court
  <2>3. QED
    BY Zenon, <2>1, <2>2 DEF DueOf, DueBlock
<1>5. QED
  BY Zenon, <1>2, <1>3, <1>4

\* The hook leaves nothing that is overdue in its block.
LEMMA HookOnTime ==
  ASSUME MarketInv, now + 1 \in Blocks, OnInitializeCommits, NEW m \in MarketIds,
         OnTime(markets[m], GlobalDisputesInfo[m], DueOf(m), now)
  PROVE  OnTime(markets'[m], GlobalDisputesInfo'[m], DueOf(m)', now + 1)
<1>1. TypeOK /\ BooksSound
  BY Zenon DEF MarketInv, QueueInv, BookInv
<1>2. HookMove(m)
  BY Zenon, <1>1, HookMoves
<1>3. CASE m \notin Closing \cup Resolving /\ markets'[m] = markets[m]
  <2>1. /\ UNCHANGED <<Courts, GlobalDisputesInfo>>
        /\ AuthorizedOutcomeReports'[m] = AuthorizedOutcomeReports[m]
    BY Zenon, <1>3 DEF OnInitializeCommits, ReportsAfterResolution
  <2>2. DueOf(m)' = DueOf(m)
    BY Zenon, <1>3, <2>1 DEF DueOf
  <2>3. now \in Nat
    BY Zenon, <1>1, TypeParts, ClockType
  <2>4. ASSUME NEW x \in Nat, now < x, x # now + 1
        PROVE  now + 1 < x
    BY <2>3, <2>4
  <2>5. IsOpen(m) /\ markets[m].period.kind = "Block" => now + 1 < markets[m].period.end
    BY Zenon, <1>1, <1>3, <2>4, NotDue, DeadlineTypes DEF OnTime, IsOpen, HasStatus
  <2>6. HasStatus(m, "Reported") => now + 1 < DisputeDurationEnd(markets[m])
    BY Zenon, <1>1, <1>3, <2>4, NotDue, DeadlineTypes DEF OnTime, HasStatus
  <2>7. GlobalDisputesInfo[m] = None /\ DueOf(m) # None => now + 1 < DueOf(m)
    BY Zenon, <1>1, <1>3, <2>4, NotDue, DeadlineTypes DEF OnTime
  <2>8. QED
    BY Zenon, <1>3, <2>1, <2>2, <2>5, <2>6, <2>7 DEF OnTime, IsOpen, HasStatus
<1>4. CASE markets'[m] = None \/ markets'[m].status \in {"Closed", "Resolved"}
  <2>1. DueOf(m)' = None
    BY Zenon, <1>4 DEF DueOf, DueBlock
  <2>2. QED
    BY Zenon, <1>4, <2>1 DEF OnTime
<1>5. QED
  BY Zenon, <1>2, <1>3, <1>4 DEF HookMove, Resolution

\* The rounds of a court lie ahead.
LEMMA RoundAhead ==
  ASSUME TypeOK, NEW number \in Nat, NEW request_block \in RequestBlocks
  PROVE  LET round == Round(number, request_block)
         IN  now < round.aggregation /\ now < round.appeal
<1>1. now \in Nat
  BY Zenon, TypeParts, ClockType
<1>2. request_block \in Nat /\ now < request_block
  BY <1>1, PeriodAssumption DEF RequestBlocks
<1>3. QED
  BY <1>1, <1>2, PeriodAssumption DEF Round

\* dispute: the authority has not spoken yet, and a court starts its first round.
LEMMA DisputeOnTime ==
  ASSUME TypeOK, BooksSound, DisputesSound, DisputesSound', NothingOverdue,
         NEW m \in MarketIds, NEW who \in Accounts, dispute(m, who)
  PROVE  NothingOverdue'
<1>1. Advances(m, "Reported", "Disputed")
  BY Zenon, DisputeMove
<1>2. AuthorizedOutcomeReports[m] = None /\ Courts[m] = None
  BY Zenon, <1>1, NoDispute DEF Advances, HasStatus
<1>3. CASE DisputeAuthorized(m, who)
  <2>1. /\ UNCHANGED <<AuthorizedOutcomeReports, MarketIdToCourtId, Courts, GlobalDisputesInfo>>
        /\ UNCHANGED timeVars
    BY Zenon, <1>3 DEF DisputeAuthorized, disputeVars
  <2>2. OnlyBook(m) /\ OnlyDispute(m)
    BY Zenon, <1>1, <2>1 DEF Advances, OnlyDispute
  <2>3. DueOf(m)' = None
    BY Zenon, <1>1, <1>2, <2>1 DEF Advances, DueOf, DueBlock
  <2>4. OnTime(markets'[m], GlobalDisputesInfo'[m], DueOf(m)', now)
    BY Zenon, <1>1, <2>3 DEF Advances, OnTime
  <2>5. QED
    BY Zenon, <2>1, <2>2, <2>4, OneOnTime
<1>4. CASE DisputeCourt(m, who)
  <2>1. PICK request_block \in RequestBlocks :
          Courts' = [Courts EXCEPT ![m] = Round(0, request_block)]
    BY Zenon, <1>4 DEF DisputeCourt
  <2> DEFINE new == Round(0, request_block)
  <2>2. now < new.appeal
    BY Zenon, RoundAhead, 0 \in Nat
  <2> HIDE DEF new
  <2>3. Courts'[m] = new /\ \A n \in MarketIds \ {m} : Courts'[n] = Courts[n]
    BY Zenon, <2>1 DEF TypeOK, new
  <2>4. /\ MarketIdToCourtId' = MarketIdToCourtId \cup {m}
        /\ UNCHANGED <<AuthorizedOutcomeReports, GlobalDisputesInfo>> /\ UNCHANGED timeVars
    BY Zenon, <1>4 DEF DisputeCourt
  <2>5. OnlyBook(m) /\ OnlyDispute(m)
    BY Zenon, <1>1, <2>3, <2>4 DEF Advances, OnlyDispute
  <2>6. DueOf(m)' = None \/ DueOf(m)' = new.appeal
    BY Zenon, <1>2, <2>3, <2>4 DEF DueOf, DueBlock
  <2>7. OnTime(markets'[m], GlobalDisputesInfo'[m], DueOf(m)', now)
    BY Zenon, <1>1, <2>2, <2>6 DEF Advances, OnTime
  <2>8. QED
    BY Zenon, <2>4, <2>5, <2>7, OneOnTime
<1>5. QED
  BY Zenon, <1>3, <1>4 DEF dispute

\* authorize_market_outcome: the first outcome has its time ahead, a correction keeps it.
LEMMA AuthorizeOnTime ==
  ASSUME TypeOK, DisputesSound, DisputesSound', NothingOverdue, NEW m \in MarketIds,
         NEW outcome \in Outcomes, authorize_market_outcome(m, outcome)
  PROVE  NothingOverdue'
<1> DEFINE old == AuthorizedOutcomeReports[m]
           at == IF old = None THEN now + CorrectionPeriod ELSE old.resolve_at
           new == [resolve_at |-> at, outcome |-> outcome]
<1>1. /\ HasStatus(m, "Disputed") /\ markets[m].dispute_mechanism = "Authorized"
      /\ AuthorizedOutcomeReports' = [AuthorizedOutcomeReports EXCEPT ![m] = new]
      /\ UNCHANGED <<markets, held, MarketIdToCourtId, Courts, GlobalDisputesInfo>>
      /\ UNCHANGED timeVars
  BY Zenon DEF authorize_market_outcome, marketVars
<1>2. old = None => now < at
  BY ClockType, TypeParts, PeriodAssumption
<1>3. old # None => DueOf(m) = at
  BY Zenon, <1>1 DEF DueOf, DueBlock, HasStatus
<1>4. new.resolve_at = at
  OBVIOUS
<1> HIDE DEF new, at
<1>5. AuthorizedOutcomeReports'[m] = new
      /\ \A n \in MarketIds \ {m} : AuthorizedOutcomeReports'[n] = AuthorizedOutcomeReports[n]
  BY Zenon, <1>1 DEF TypeOK
<1>6. OnlyBook(m) /\ OnlyDispute(m)
  BY Zenon, <1>1, <1>5 DEF OnlyBook, OnlyDispute
<1>7. DueOf(m)' = None \/ DueOf(m)' = at
  BY Zenon, <1>1, <1>4, <1>5 DEF DueOf, DueBlock, HasStatus
<1>8. old # None => at # None
  <2>1. old # None => old \in AuthorityReport
    BY Zenon DEF TypeOK
  <2>2. old # None => at \in Nat
    BY Zenon, <2>1 DEF AuthorityReport, at
  <2>3. QED
    BY Zenon, <2>2, NoneAssumption
<1>9. OnTime(markets[m], GlobalDisputesInfo[m], DueOf(m), now) =>
        OnTime(markets'[m], GlobalDisputesInfo'[m], DueOf(m)', now)
  <2> HIDE DEF old
  <2> QED BY Zenon, <1>1, <1>2, <1>3, <1>7, <1>8 DEF OnTime, HasStatus
<1>10. QED
  BY Zenon, <1>1, <1>6, <1>9, OneOnTime

\* reveal_vote and appeal: the court's block of resolution stays, or lies ahead, or there is none.
LEMMA CourtOnTime ==
  ASSUME TypeOK, DisputesSound, DisputesSound', NothingOverdue, NEW m \in MarketIds,
         appeal(m) \/ \E outcome \in Outcomes : reveal_vote(m, outcome)
  PROVE  NothingOverdue'
<1>1. /\ Courts[m] # None
      /\ UNCHANGED <<markets, held, AuthorizedOutcomeReports, MarketIdToCourtId,
                     GlobalDisputesInfo>>
      /\ UNCHANGED timeVars
  BY Zenon DEF appeal, reveal_vote, marketVars
<1>2. Courts[m] \in Court /\ Courts \in [MarketIds -> Court \cup {None}]
  BY Zenon, <1>1 DEF TypeOK
<1>3. ASSUME NEW new, Courts' = [Courts EXCEPT ![m] = new],
             \/ now < new.appeal \/ new.appeals = MaxAppeals
             \/ new.appeals = Courts[m].appeals /\ new.appeal = Courts[m].appeal
      PROVE  NothingOverdue'
  <2>1. Courts'[m] = new /\ \A n \in MarketIds \ {m} : Courts'[n] = Courts[n]
    BY Zenon, <1>2, <1>3
  <2>2. OnlyBook(m) /\ OnlyDispute(m)
    BY Zenon, <1>1, <2>1 DEF OnlyBook, OnlyDispute
  <2>3. DueOf(m)' = None \/ DueOf(m)' = DueOf(m) \/ now < DueOf(m)'
    BY Zenon, <1>1, <1>3, <2>1 DEF DueOf, DueBlock
  <2>4. OnTime(markets[m], GlobalDisputesInfo[m], DueOf(m), now) =>
          OnTime(markets'[m], GlobalDisputesInfo'[m], DueOf(m)', now)
    BY Zenon, <1>1, <2>3 DEF OnTime
  <2>5. QED
    BY Zenon, <1>1, <2>2, <2>4, OneOnTime
<1>4. CASE \E outcome \in Outcomes : reveal_vote(m, outcome)
  <2>1. PICK outcome \in Outcomes : reveal_vote(m, outcome)
    BY Zenon, <1>4
  <2> DEFINE new == [Courts[m] EXCEPT !.winner = outcome]
  <2>2. Courts' = [Courts EXCEPT ![m] = new]
    BY Zenon, <2>1 DEF reveal_vote
  <2>3. new.appeals = Courts[m].appeals /\ new.appeal = Courts[m].appeal
    BY Zenon, <1>2 DEF Court
  <2> HIDE DEF new
  <2>4. QED
    BY Zenon, <1>3, <2>2, <2>3
<1>5. CASE appeal(m)
  <2> DEFINE number == Courts[m].appeals + 1
  <2>1. number \in Nat
    BY <1>2 DEF Court
  <2>2. \/ \E request_block \in RequestBlocks :
             Courts' = [Courts EXCEPT ![m] = Round(number, request_block)]
        \/ number = MaxAppeals /\ Courts' = [Courts EXCEPT ![m] = [Courts[m] EXCEPT !.appeals = number]]
    BY Zenon, <1>5 DEF appeal
  <2> HIDE DEF number
  <2>3. CASE \E request_block \in RequestBlocks :
               Courts' = [Courts EXCEPT ![m] = Round(number, request_block)]
    <3>1. PICK request_block \in RequestBlocks :
            Courts' = [Courts EXCEPT ![m] = Round(number, request_block)]
      BY Zenon, <2>3
    <3>2. now < Round(number, request_block).appeal
      BY Zenon, <2>1, RoundAhead
    <3>3. QED
      BY Zenon, <1>3, <3>1, <3>2
  <2>4. CASE /\ number = MaxAppeals
             /\ Courts' = [Courts EXCEPT ![m] = [Courts[m] EXCEPT !.appeals = number]]
    <3> DEFINE new == [Courts[m] EXCEPT !.appeals = number]
    <3>1. Courts' = [Courts EXCEPT ![m] = new]
      BY Zenon, <2>4
    <3>2. new.appeals = MaxAppeals
      BY Zenon, <1>2, <2>4 DEF Court
    <3> HIDE DEF new
    <3>3. QED
      BY Zenon, <1>3, <3>1, <3>2
  <2>5. QED
    BY Zenon, <2>2, <2>3, <2>4
<1>6. QED
  BY Zenon, <1>4, <1>5

\* Every step leaves nothing overdue.
LEMMA StepOnTime ==
  ASSUME MarketInv, MarketInv', NothingOverdue, Next
  PROVE  NothingOverdue'
<1>1. /\ TypeOK /\ FreshIds /\ BooksSound /\ DisputesSound /\ TypeOK' /\ DisputesSound'
  BY Zenon DEF MarketInv, QueueInv, BookInv
<1>2. CASE NewBlock
  <2>1. CASE OnInitializeRollsBack
    BY Zenon, <2>1 DEF OnInitializeRollsBack, NothingOverdue
  <2>2. CASE OnInitializeCommits
    <3>1. now + 1 \in Blocks /\ now' = now + 1 /\ rolledBack' = rolledBack
      BY Zenon, <1>2, <2>2 DEF NewBlock, OnInitializeCommits
    <3>2. SUFFICES ASSUME ~rolledBack, NEW m \in MarketIds
                   PROVE  OnTime(markets'[m], GlobalDisputesInfo'[m], DueOf(m)', now + 1)
      BY Zenon, <1>1, <3>1, OverdueParts
    <3>3. OnTime(markets[m], GlobalDisputesInfo[m], DueOf(m), now)
      BY Zenon, <1>1, <3>2, OverdueParts
    <3>4. QED
      BY Zenon, <2>2, <3>1, <3>3, HookOnTime
  <2>3. QED
    BY Zenon, <1>2, <2>1, <2>2 DEF NewBlock
<1>3. CASE CreateMarket
  <2>1. PICK m \in MarketIds : CreateMove(m)
    BY Zenon, <1>1, <1>3, CreateMoves
  <2>2. /\ OnlyBook(m) /\ UNCHANGED <<disputeVars, timeVars>>
        /\ markets'[m] # None /\ markets'[m].status \in {"Active", "Proposed"}
        /\ ensure_market_period_is_valid(markets'[m].period)
    BY Zenon, <2>1 DEF CreateMove
  <2>3. OnlyDispute(m)
    BY Zenon, <2>2 DEF OnlyDispute, disputeVars
  <2>4. DueOf(m)' = None
    BY Zenon, <2>2 DEF DueOf, DueBlock
  <2>5. OnTime(markets'[m], GlobalDisputesInfo'[m], DueOf(m)', now)
    BY Zenon, <2>2, <2>4 DEF OnTime, ensure_market_period_is_valid
  <2>6. QED
    BY Zenon, <1>1, <2>2, <2>3, <2>5, OneOnTime
<1>4. ASSUME NEW m \in MarketIds, MarketStep(m)
      PROVE  NothingOverdue'
  <2>1. CASE OpenStep(m)
    <3>1. OpenMove(m)
      BY Zenon, <1>1, <2>1, OpenSteps
    <3>2. OnlyBook(m) /\ OnlyDispute(m) /\ UNCHANGED timeVars
      BY Zenon, <3>1 DEF OpenMove, OnlyDispute, disputeVars
    <3>3. QED
      BY Zenon, <1>1, <3>1, <3>2, OpenOnTime, OneOnTime
  <2>2. CASE \E who \in Accounts, outcome \in Outcomes : report(m, who, outcome)
    <3>1. PICK who \in Accounts, outcome \in Outcomes : report(m, who, outcome)
      BY Zenon, <2>2
    <3>2. UNCHANGED <<disputeVars, timeVars>>
      BY Zenon, <3>1 DEF report, report_market_with_dispute_mechanism, report_and_resolve_market
    <3>3. /\ OnlyBook(m) /\ markets'[m] # None
          /\ \/ markets'[m].status = "Resolved"
             \/ /\ markets'[m].status = "Reported" /\ markets'[m].report.at = now
                /\ markets[m].dispute_mechanism # None
                /\ markets'[m].dispute_mechanism = markets[m].dispute_mechanism
                /\ SoundBook(markets'[m], held'[m])
      BY Zenon, <1>1, <3>1, ReportMove DEF Advances
    <3>4. OnlyDispute(m)
      BY Zenon, <3>2 DEF OnlyDispute, disputeVars
    <3>5. DueOf(m)' = None
      BY Zenon, <3>3 DEF DueOf, DueBlock
    <3>6. markets'[m].status = "Reported" => now < DisputeDurationEnd(markets'[m])
      <4> SUFFICES ASSUME markets'[m].status = "Reported"
                   PROVE  now < DisputeDurationEnd(markets'[m])
        OBVIOUS
      <4>1. markets'[m].deadlines.dispute_duration >= MinDisputeDuration
        BY Zenon, <3>3 DEF SoundBook, StatusSound
      <4>2. markets'[m] \in MarketRecord
        BY Zenon, <1>1, <3>3 DEF TypeOK
      <4>3. markets'[m].deadlines.dispute_duration \in Nat
        BY Zenon, <4>2 DEF MarketRecord, Deadlines
      <4>4. now \in Nat /\ markets'[m].report.at = now
        BY Zenon, <1>1, <3>3, TypeParts, ClockType
      <4>5. QED
        BY <4>1, <4>3, <4>4, PeriodAssumption DEF DisputeDurationEnd
    <3>7. OnTime(markets'[m], GlobalDisputesInfo'[m], DueOf(m)', now)
      BY Zenon, <3>3, <3>5, <3>6 DEF OnTime
    <3>8. QED
      BY Zenon, <1>1, <3>2, <3>3, <3>4, <3>7, OneOnTime
  <2>3. CASE \E who \in Accounts : dispute(m, who)
    BY Zenon, <1>1, <2>3, DisputeOnTime
  <2>4. CASE \E outcome \in Outcomes : authorize_market_outcome(m, outcome)
    BY Zenon, <1>1, <2>4, AuthorizeOnTime
  <2>5. CASE appeal(m) \/ \E outcome \in Outcomes : reveal_vote(m, outcome)
    BY Zenon, <1>1, <2>5, CourtOnTime
  <2>6. CASE start_global_dispute(m)
    <3>1. UNCHANGED <<markets, held>> /\ HasStatus(m, "Disputed")
      BY Zenon, <1>1, <2>6, GlobalDisputeMarket
    <3>2. /\ Courts' = [Courts EXCEPT ![m] = None]
          /\ GlobalDisputesInfo' = [GlobalDisputesInfo EXCEPT ![m] = now + AddOutcomePeriod + GdVotingPeriod]
          /\ UNCHANGED <<AuthorizedOutcomeReports, MarketIdToCourtId>> /\ UNCHANGED timeVars
      BY Zenon, <2>6 DEF start_global_dispute
    <3>3. now + AddOutcomePeriod + GdVotingPeriod \in Nat
      BY <1>1, TypeParts, ClockType, PeriodAssumption
    <3>4. OnlyBook(m) /\ OnlyDispute(m) /\ GlobalDisputesInfo'[m] # None
      BY Zenon, <1>1, <3>1, <3>2, <3>3, NoneAssumption DEF OnlyBook, OnlyDispute, TypeOK
    <3>5. OnTime(markets'[m], GlobalDisputesInfo'[m], DueOf(m)', now)
      BY Zenon, <3>1, <3>4 DEF OnTime, HasStatus
    <3>6. QED
      BY Zenon, <1>1, <3>2, <3>4, <3>5, OneOnTime
  <2>7. CASE admin_move_market_to_resolved(m)
    <3>1. OnlyBook(m) /\ Resolution(m, markets'[m], held'[m])
      BY Zenon, <1>1, <2>7, ResolveMove
    <3>2. /\ AuthorizedOutcomeReports' = ReportsAfterResolution({m})
          /\ UNCHANGED <<MarketIdToCourtId, Courts, GlobalDisputesInfo>> /\ UNCHANGED timeVars
      BY Zenon, <2>7 DEF admin_move_market_to_resolved
    <3>3. OnlyDispute(m)
      BY Zenon, <3>2 DEF OnlyDispute, ReportsAfterResolution
    <3>4. markets'[m].status = "Resolved" /\ DueOf(m)' = None
      BY Zenon, <3>1 DEF DueOf, DueBlock, Resolution
    <3>5. OnTime(markets'[m], GlobalDisputesInfo'[m], DueOf(m)', now)
      BY Zenon, <3>4 DEF OnTime
    <3>6. QED
      BY Zenon, <1>1, <3>1, <3>2, <3>3, <3>5, OneOnTime
  <2>8. QED
    BY Zenon, <1>4, <2>1, <2>2, <2>3, <2>4, <2>5, <2>6, <2>7 DEF MarketStep, OpenStep
<1>5. QED
  BY Zenon, <1>2, <1>3, <1>4 DEF Next

(* Nothing falls due without being done, as long as no block was rolled    *)
(* back, and a block is rolled back only for a global dispute: the hook    *)
(* finds every market that is due, whatever moved its deadline before.     *)
THEOREM DeadlinesCorrect == Spec => DueIsDone
<1>1. Init => NothingOverdue
  <2> SUFFICES ASSUME Init, NEW m \in MarketIds
               PROVE  /\ ~IsOpen(m) /\ ~HasStatus(m, "Reported")
                      /\ AutoResolveBlock(m) = None
    BY Zenon DEF NothingOverdue
  <2>1. markets[m] = None
    BY Zenon DEF Init
  <2>2. QED
    BY Zenon, <2>1 DEF IsOpen, HasStatus, AutoResolveBlock
<1>2. MarketInv /\ MarketInv' /\ NothingOverdue /\ [Next]_vars => NothingOverdue'
  <2>1. ASSUME MarketInv, MarketInv', NothingOverdue, UNCHANGED vars
        PROVE  NothingOverdue'
    <3>1. UNCHANGED <<markets, AuthorizedOutcomeReports, Courts, GlobalDisputesInfo, now, rolledBack>>
      BY Zenon, <2>1 DEF vars
    <3>2. DisputesSound /\ DisputesSound' /\ \A m \in MarketIds : DueOf(m)' = DueOf(m)
      BY Zenon, <2>1, <3>1 DEF MarketInv, BookInv, DueOf
    <3>3. QED
      BY Zenon, <2>1, <3>1, <3>2, OverdueParts
  <2>2. QED
    BY Zenon, <2>1, StepOnTime
<1>3. QED
  BY <1>1, <1>2, Invariant, RollbacksCorrect, PTL DEF Spec, DueIsDone

-----------------------------------------------------------------------------
(* Time frames *)

(* An open market has a place in the queues: insert_auto_close fails for   *)
(* an end without a slot.                                                  *)
SlotsExist == \A m \in MarketIds : IsOpen(m) => CloseSlot(markets[m].period) \in CloseSlots

(* The hook is at most one time frame ahead of the timestamp it saw.       *)
FramesBehind ==
  LastTimeFrame # None => LastTimeFrame <= calculate_time_frame_of_moment(moment)

(* Before the hook has done its first work no global dispute can have      *)
(* started, and the time based markets end in later time frames.           *)
FirstBlock ==
  LastTimeFrame = None =>
    \A m \in MarketIds :
      /\ GlobalDisputesInfo[m] = None
      /\ Courts[m] # None => now < Courts[m].aggregation /\ Courts[m].appeals # MaxAppeals
      /\ IsOpen(m) /\ markets[m].period.kind = "Timestamp" =>
           calculate_time_frame_of_moment(moment)
             < calculate_time_frame_of_moment(markets[m].period.end)

\* The calls on open markets keep or find a slot for them.
LEMMA OpenSlot ==
  ASSUME TypeOK, BooksSound, SlotsExist, NEW m \in MarketIds, OpenStep(m)
  PROVE  IsOpen(m)' => CloseSlot(markets'[m].period) \in CloseSlots
<1>1. BooksOK /\ TimeOK /\ MarketIdsPerClose \in [CloseSlots -> Ids]
  BY Zenon, TypeParts DEF TypeOK
<1>2. ASSUME NEW period, HasRoom(clear_auto_close(MarketIdsPerClose, m, markets[m]), CloseSlot(period))
      PROVE  CloseSlot(period) \in CloseSlots
  <2>1. clear_auto_close(MarketIdsPerClose, m, markets[m]) \in [CloseSlots -> Ids]
    BY Zenon, <1>1, ClearAutoCloseType
  <2>2. DOMAIN clear_auto_close(MarketIdsPerClose, m, markets[m]) = CloseSlots
    BY Zenon, <2>1
  <2>3. QED
    BY Zenon, <1>2, <2>2 DEF HasRoom
<1>3. ASSUME Reschedules(m)
      PROVE  CloseSlot(markets'[m].period) \in CloseSlots
  <2>1. PICK b \in Books : Reschedule(m, b)
    BY Zenon, <1>3 DEF Reschedules
  <2>2. /\ HasRoom(clear_auto_close(MarketIdsPerClose, m, markets[m]), CloseSlot(b.mk.period))
        /\ PutBook(m, b)
    BY Zenon, <2>1 DEF Reschedule
  <2>3. markets'[m].period = b.mk.period
    BY Zenon, <1>1, <2>2, PutBookBecomes DEF Becomes
  <2>4. QED
    BY Zenon, <1>2, <2>2, <2>3
<1>4. CASE approve_market(m)
  <2>1. IsOpen(m) /\ Becomes(m, "Active", markets[m].period)
    BY Zenon, <1>1, <1>4, ApproveMarket DEF approve_market, IsOpen
  <2>2. QED
    BY Zenon, <2>1 DEF Becomes, SlotsExist
<1>5. CASE request_edit(m)
  <2>1. UNCHANGED markets
    BY Zenon, <1>5 DEF request_edit, marketVars
  <2>2. QED
    BY Zenon, <2>1 DEF SlotsExist, IsOpen, HasStatus
<1>6. CASE EditMarket(m)
  <2>1. PICK oracle \in Accounts, mechanism \in Mechanisms, period \in Periods,
             deadlines \in DeadlineChoices : edit_market(m, oracle, mechanism, period, deadlines)
    BY Zenon, <1>6 DEF EditMarket
  <2>2. HasRoom(clear_auto_close(MarketIdsPerClose, m, markets[m]), CloseSlot(period))
    BY Zenon, <2>1 DEF edit_market
  <2>3. markets'[m].period = period
    BY Zenon, <1>1, <2>1, EditMarketMarket DEF Becomes
  <2>4. QED
    BY Zenon, <1>2, <2>2, <2>3
<1>7. CASE reject_market(m)
  BY Zenon, <1>1, <1>7, RejectMarket DEF IsOpen, HasStatus
<1>8. CASE \/ admin_move_market_to_closed(m) \/ manually_close_market(m)
           \/ \E who \in Accounts : close_trusted_market(m, who)
  <2>1. markets[m] # None /\ CloseNow(m)
    BY Zenon, <1>8 DEF admin_move_market_to_closed, manually_close_market, close_trusted_market,
                       CanCloseManually, HasStatus
  <2>2. markets'[m].status = "Closed"
    BY Zenon, <1>1, <2>1, CloseNowMarket DEF Becomes
  <2>3. QED
    BY Zenon, <2>2 DEF IsOpen, HasStatus
<1>9. CASE schedule_early_close(m)
  BY Zenon, <1>1, <1>3, <1>9, ScheduleAsMarketCreatorMarket, ScheduleAsOtherMarket
     DEF schedule_early_close
<1>10. CASE \E who \in Accounts : dispute_early_close(m, who)
  BY Zenon, <1>1, <1>3, <1>10, DisputeEarlyCloseMarket
<1>11. CASE reject_early_close(m)
  <2>1. CASE Becomes(m, "Active", markets[m].period)
    <3>1. IsOpen(m)
      BY Zenon, <1>11 DEF reject_early_close, IsOpen
    <3>2. QED
      BY Zenon, <2>1, <3>1 DEF Becomes, SlotsExist
  <2>2. QED
    BY Zenon, <1>1, <1>3, <1>11, <2>1, RejectEarlyCloseMarket
<1>12. CASE \E oracle \in Accounts : admin_update_market_oracle(m, oracle)
  <2>1. HasStatus(m, "Closed") /\ OpenMove(m)
    BY Zenon, <1>12, UpdateOracleMove DEF admin_update_market_oracle
  <2>2. QED
    BY Zenon, <2>1 DEF OpenMove, IsOpen, HasStatus
<1>13. QED
  BY Zenon, <1>4, <1>5, <1>6, <1>7, <1>8, <1>9, <1>10, <1>11, <1>12 DEF OpenStep

(* What a call on a market that is not open any more can make of it.       *)
LaterStep(m) ==
  \/ \E who \in Accounts, outcome \in Outcomes : report(m, who, outcome)
  \/ \E who \in Accounts : dispute(m, who)
  \/ \E outcome \in Outcomes : authorize_market_outcome(m, outcome)
  \/ \E outcome \in Outcomes : reveal_vote(m, outcome)
  \/ appeal(m)
  \/ start_global_dispute(m)
  \/ admin_move_market_to_resolved(m)

\* It is not open afterwards, or nothing has changed for it, and nothing for the others.
LEMMA LaterSteps ==
  ASSUME TypeOK, BooksSound, DisputesSound, NEW m \in MarketIds, LaterStep(m)
  PROVE  /\ OnlyBook(m) /\ UNCHANGED timeVars
         /\ ~IsOpen(m)' \/ markets'[m] = markets[m]
<1>1. CASE \E who \in Accounts, outcome \in Outcomes : report(m, who, outcome)
  <2>1. PICK who \in Accounts, outcome \in Outcomes : report(m, who, outcome)
    BY Zenon, <1>1
  <2>2. OnlyBook(m) /\ markets'[m].status \in {"Reported", "Resolved"}
    BY Zenon, <2>1, ReportMove DEF Advances
  <2>3. UNCHANGED timeVars
    BY Zenon, <2>1 DEF report, report_market_with_dispute_mechanism, report_and_resolve_market
  <2>4. QED
    BY Zenon, <2>2, <2>3 DEF IsOpen, HasStatus
<1>2. CASE \E who \in Accounts : dispute(m, who)
  <2>1. OnlyBook(m) /\ markets'[m].status = "Disputed"
    BY Zenon, <1>2, DisputeMove DEF Advances
  <2>2. UNCHANGED timeVars
    BY Zenon, <1>2 DEF dispute, DisputeAuthorized, DisputeCourt
  <2>3. QED
    BY Zenon, <2>1, <2>2 DEF IsOpen, HasStatus
<1>3. CASE \/ appeal(m)
           \/ \E outcome \in Outcomes : authorize_market_outcome(m, outcome) \/ reveal_vote(m, outcome)
  <2>1. UNCHANGED <<markets, held>> /\ UNCHANGED timeVars
    BY Zenon, <1>3 DEF appeal, authorize_market_outcome, reveal_vote, marketVars
  <2>2. QED
    BY Zenon, <2>1 DEF OnlyBook
<1>4. CASE start_global_dispute(m)
  <2>1. UNCHANGED <<markets, held>> /\ UNCHANGED timeVars
    BY Zenon, <1>4, GlobalDisputeMarket DEF start_global_dispute
  <2>2. QED
    BY Zenon, <2>1 DEF OnlyBook
<1>5. CASE admin_move_market_to_resolved(m)
  <2>1. OnlyBook(m) /\ markets'[m].status = "Resolved"
    BY Zenon, <1>5, ResolveMove DEF Resolution
  <2>2. UNCHANGED timeVars
    BY Zenon, <1>5 DEF admin_move_market_to_resolved
  <2>3. QED
    BY Zenon, <2>1, <2>2 DEF IsOpen, HasStatus
<1>6. QED
  BY Zenon, <1>1, <1>2, <1>3, <1>4, <1>5 DEF LaterStep

\* What the hook leaves open it has not touched.
LEMMA HookLeavesOpen ==
  ASSUME TypeOK, BooksSound, OnInitializeCommits, NEW m \in MarketIds, IsOpen(m)'
  PROVE  m \notin Closing /\ markets'[m] = markets[m]
<1>1. HookMove(m)
  BY Zenon, HookMoves
<1>2. markets'[m] # None /\ markets'[m].status \in {"Active", "Proposed"}
  BY Zenon DEF IsOpen, HasStatus
<1>3. QED
  BY Zenon, <1>1, <1>2 DEF HookMove, Resolution

\* Every step finds a slot for the markets it leaves open.
LEMMA StepSlots ==
  ASSUME MarketInv, SlotsExist, Next
  PROVE  SlotsExist'
<1>1. TypeOK /\ BooksSound /\ DisputesSound
  BY Zenon DEF MarketInv, QueueInv, BookInv
<1>2. SUFFICES ASSUME NEW n \in MarketIds, IsOpen(n)'
               PROVE  CloseSlot(markets'[n].period) \in CloseSlots
  BY Zenon DEF SlotsExist
<1>3. markets'[n] = markets[n] => CloseSlot(markets'[n].period) \in CloseSlots
  BY Zenon, <1>2 DEF SlotsExist, IsOpen, HasStatus
<1>4. CASE NewBlock
  BY Zenon, <1>1, <1>2, <1>3, <1>4, HookLeavesOpen DEF NewBlock, OnInitializeRollsBack, marketVars
<1>5. CASE CreateMarket
  <2>1. PICK who \in Accounts, oracle \in Accounts, creation \in Creations,
             mechanism \in Mechanisms, period \in Periods, deadlines \in DeadlineChoices :
               create_market(who, oracle, creation, mechanism, period, deadlines)
    BY Zenon, <1>5 DEF CreateMarket
  <2>2. PICK m \in MarketIds : OthersUnchanged(m) /\ markets'[m].period = period
    BY Zenon, <1>1, <2>1, CreateMarketMarket, TypeParts DEF Becomes
  <2>3. CloseSlot(period) \in CloseSlots
    BY Zenon, <1>1, <2>1 DEF create_market, HasRoom, TypeOK
  <2>4. QED
    BY Zenon, <1>3, <2>2, <2>3 DEF OthersUnchanged
<1>6. ASSUME NEW m \in MarketIds, MarketStep(m)
      PROVE  CloseSlot(markets'[n].period) \in CloseSlots
  <2>1. CASE OpenStep(m)
    <3>1. OnlyBook(m)
      BY Zenon, <1>1, <2>1, OpenSteps DEF OpenMove
    <3>2. QED
      BY Zenon, <1>1, <1>2, <1>3, <2>1, <3>1, OpenSlot DEF OnlyBook
  <2>2. CASE LaterStep(m)
    <3>1. OnlyBook(m) /\ (~IsOpen(m)' \/ markets'[m] = markets[m])
      BY Zenon, <1>1, <2>2, LaterSteps
    <3>2. QED
      BY Zenon, <1>2, <1>3, <3>1 DEF OnlyBook
  <2>3. QED
    BY Zenon, <1>6, <2>1, <2>2 DEF MarketStep, OpenStep, LaterStep
<1>7. QED
  BY Zenon, <1>4, <1>5, <1>6 DEF Next

(* The end of the market mk lies beyond the time frame f.                  *)
EndsAfter(mk, f) ==
  mk # None /\ mk.status \in {"Active", "Proposed"} /\ mk.period.kind = "Timestamp" =>
    f < calculate_time_frame_of_moment(mk.period.end)

\* Calls on open markets do not bring their end before the present time frame.
LEMMA OpenEndsAfter ==
  ASSUME TypeOK, TypeOK', NEW m \in MarketIds, OpenMove(m), NEW f \in Nat,
         f <= calculate_time_frame_of_moment(moment), EndsAfter(markets[m], f)
  PROVE  EndsAfter(markets'[m], f)
<1> SUFFICES ASSUME markets'[m] # None, markets'[m].status \in {"Active", "Proposed"},
                    markets'[m].period.kind = "Timestamp"
             PROVE  f < calculate_time_frame_of_moment(markets'[m].period.end)
  BY Zenon DEF EndsAfter
<1>1. markets[m] # None /\ markets[m].status \in {"Proposed", "Active"}
  BY Zenon DEF OpenMove
<1>2. markets[m] \in MarketRecord /\ markets'[m] \in MarketRecord
  BY Zenon, <1>1 DEF TypeOK
<1>3. markets[m].period.end \in Nat /\ markets'[m].period.end \in Nat /\ moment \in Nat
  BY Zenon, <1>2, TypeParts, ClockType DEF MarketRecord, Period
<1>4. /\ calculate_time_frame_of_moment(markets[m].period.end) \in Nat
      /\ calculate_time_frame_of_moment(markets'[m].period.end) \in Nat
      /\ calculate_time_frame_of_moment(moment) \in Nat
  BY Zenon, <1>3, TimeFrameType
<1>5. CASE markets'[m].period = markets[m].period
  BY Zenon, <1>1, <1>5 DEF EndsAfter
<1>6. CASE ensure_market_period_is_valid(markets'[m].period)
  <2>1. calculate_time_frame_of_moment(moment)
          < calculate_time_frame_of_moment(markets'[m].period.end)
    BY <1>6 DEF ensure_market_period_is_valid
  <2>2. QED
    BY <1>4, <2>1
<1>7. CASE /\ markets'[m].period.kind = markets[m].period.kind
           /\ markets[m].period.end < markets'[m].period.end
  <2>1. f < calculate_time_frame_of_moment(markets[m].period.end)
    BY Zenon, <1>1, <1>7 DEF EndsAfter
  <2>2. markets[m].period.end <= markets'[m].period.end
    BY <1>3, <1>7
  <2>3. calculate_time_frame_of_moment(markets[m].period.end)
          <= calculate_time_frame_of_moment(markets'[m].period.end)
    BY Zenon, <1>3, <2>2, FramesGrow
  <2>4. QED
    BY <1>4, <2>1, <2>3
<1>8. QED
  BY Zenon, <1>5, <1>6, <1>7 DEF OpenMove

\* Nor does any other call.
LEMMA CallEndsAfter ==
  ASSUME MarketInv, MarketInv', Next, UNCHANGED timeVars, NEW f \in Nat,
         f <= calculate_time_frame_of_moment(moment), NEW n \in MarketIds, EndsAfter(markets[n], f)
  PROVE  EndsAfter(markets'[n], f)
<1>1. TypeOK /\ TypeOK' /\ BooksSound /\ DisputesSound
  BY Zenon DEF MarketInv, QueueInv, BookInv
<1>2. CASE CreateMarket
  <2>1. PICK m \in MarketIds : CreateMove(m)
    BY Zenon, <1>1, <1>2, CreateMoves
  <2>2. CASE n # m
    BY Zenon, <2>1, <2>2 DEF CreateMove, OnlyBook
  <2>3. CASE n = m
    <3> SUFFICES ASSUME markets'[n].period.kind = "Timestamp"
                 PROVE  f < calculate_time_frame_of_moment(markets'[n].period.end)
      BY Zenon DEF EndsAfter
    <3>1. markets'[n] # None /\ ensure_market_period_is_valid(markets'[n].period)
      BY Zenon, <2>1, <2>3 DEF CreateMove
    <3>2. markets'[n] \in MarketRecord
      BY Zenon, <1>1, <3>1 DEF TypeOK
    <3>3. markets'[n].period.end \in Nat /\ moment \in Nat
      BY Zenon, <1>1, <3>2, TypeParts, ClockType DEF MarketRecord, Period
    <3>4. /\ calculate_time_frame_of_moment(markets'[n].period.end) \in Nat
          /\ calculate_time_frame_of_moment(moment) \in Nat
      BY Zenon, <3>3, TimeFrameType
    <3>5. calculate_time_frame_of_moment(moment)
            < calculate_time_frame_of_moment(markets'[n].period.end)
      BY <3>1 DEF ensure_market_period_is_valid
    <3>6. QED
      BY <3>4, <3>5
  <2>4. QED
    BY Zenon, <2>2, <2>3
<1>3. ASSUME NEW m \in MarketIds, OpenStep(m)
      PROVE  EndsAfter(markets'[n], f)
  <2>1. OpenMove(m)
    BY Zenon, <1>1, <1>3, OpenSteps
  <2>2. n # m => markets'[n] = markets[n]
    BY Zenon, <2>1 DEF OpenMove, OnlyBook
  <2>3. QED
    BY Zenon, <1>1, <2>1, <2>2, OpenEndsAfter
<1>4. ASSUME NEW m \in MarketIds, LaterStep(m)
      PROVE  EndsAfter(markets'[n], f)
  <2>1. OnlyBook(m) /\ (~IsOpen(m)' \/ markets'[m] = markets[m])
    BY Zenon, <1>1, <1>4, LaterSteps
  <2>2. ~IsOpen(n)' \/ markets'[n] = markets[n]
    BY Zenon, <2>1 DEF OnlyBook
  <2>3. QED
    BY Zenon, <2>2 DEF EndsAfter, IsOpen, HasStatus
<1>5. CASE NewBlock
  <2>1. now' = now /\ now' = now + 1 /\ now \in Nat
    BY Zenon, <1>1, <1>5, ClockType, TypeParts DEF NewBlock, timeVars
  <2>2. QED
    BY <2>1
<1>6. QED
  BY Zenon, <1>2, <1>3, <1>4, <1>5 DEF Next, MarketStep, OpenStep, LaterStep

\* Before the hook has done its first work, every step leaves FirstBlock true.
LEMMA StepFirst ==
  ASSUME MarketInv, MarketInv', FirstBlock, Next
  PROVE  FirstBlock'
<1>1. TypeOK /\ TypeOK' /\ BooksSound /\ DisputesSound
  BY Zenon DEF MarketInv, QueueInv, BookInv
<1>2. SUFFICES ASSUME LastTimeFrame' = None, NEW n \in MarketIds
               PROVE  /\ GlobalDisputesInfo'[n] = None
                      /\ Courts'[n] # None =>
                           now' < Courts'[n].aggregation /\ Courts'[n].appeals # MaxAppeals
                      /\ IsOpen(n)' /\ markets'[n].period.kind = "Timestamp" =>
                           calculate_time_frame_of_moment(moment')
                             < calculate_time_frame_of_moment(markets'[n].period.end)
  BY Zenon DEF FirstBlock
<1>3. now \in Nat /\ moment \in Nat /\ calculate_time_frame_of_moment(moment) \in Nat
  BY Zenon, <1>1, TypeParts, ClockType, TimeFrameType
<1>4. ~NewBlock
  <2> SUFFICES ASSUME NewBlock PROVE FALSE
    OBVIOUS
  <2>1. CASE OnInitializeCommits
    <3>1. CurrentTimeFrame \in Nat
      BY <1>3 DEF CurrentTimeFrame
    <3>2. QED
      BY Zenon, <1>2, <2>1, <3>1, NoneAssumption DEF OnInitializeCommits
  <2>2. CASE OnInitializeRollsBack
    <3>1. LastTimeFrame = None
      BY Zenon, <1>2, <2>2 DEF OnInitializeRollsBack
    <3>2. \A m \in DueDisputes : GlobalDisputesInfo[m] = None
      BY Zenon, <3>1 DEF FirstBlock, DueDisputes
    <3>3. QED
      BY Zenon, <2>2, <3>2, HookWorks DEF NewBlock, OnInitializeRollsBack
  <2>3. QED
    BY Zenon, <2>1, <2>2 DEF NewBlock
<1>5. UNCHANGED timeVars /\ now' = now /\ moment' = moment /\ LastTimeFrame = None
  BY Zenon, <1>2, <1>4, ClockSteps DEF timeVars
<1>6. IsOpen(n)' /\ markets'[n].period.kind = "Timestamp" =>
        calculate_time_frame_of_moment(moment)
          < calculate_time_frame_of_moment(markets'[n].period.end)
  <2>1. EndsAfter(markets[n], calculate_time_frame_of_moment(moment))
    BY Zenon, <1>5 DEF FirstBlock, EndsAfter, IsOpen, HasStatus
  <2>2. calculate_time_frame_of_moment(moment) <= calculate_time_frame_of_moment(moment)
    BY <1>3
  <2>3. EndsAfter(markets'[n], calculate_time_frame_of_moment(moment))
    BY Zenon, <1>3, <1>5, <2>1, <2>2, CallEndsAfter
  <2>4. QED
    BY Zenon, <2>3 DEF EndsAfter, IsOpen, HasStatus
<1> DEFINE Early(c) == c # None => now < c.aggregation /\ c.appeals # MaxAppeals
<1>7. GlobalDisputesInfo[n] = None /\ \A m \in MarketIds : Early(Courts[m])
  BY Zenon, <1>5 DEF FirstBlock
<1>8. CASE UNCHANGED <<Courts, GlobalDisputesInfo>>
  BY Zenon, <1>5, <1>6, <1>7, <1>8
<1>9. ASSUME NEW m \in MarketIds, NEW c, Courts' = [Courts EXCEPT ![m] = c], Early(c),
             UNCHANGED GlobalDisputesInfo
      PROVE  GlobalDisputesInfo'[n] = None /\ Early(Courts'[n])
  <2> HIDE DEF Early
  <2>1. Courts'[n] = c \/ Courts'[n] = Courts[n]
    BY Zenon, <1>1, <1>9 DEF TypeOK
  <2>2. QED
    BY Zenon, <1>7, <1>9, <2>1
<1>10. CASE CreateMarket
  <2>1. PICK m \in MarketIds : CreateMove(m)
    BY Zenon, <1>1, <1>10, CreateMoves
  <2>2. QED
    BY Zenon, <1>8, <2>1 DEF CreateMove, disputeVars
<1>11. ASSUME NEW m \in MarketIds, MarketStep(m)
       PROVE  \/ UNCHANGED <<Courts, GlobalDisputesInfo>>
              \/ GlobalDisputesInfo'[n] = None /\ Early(Courts'[n])
  <2>1. CASE OpenStep(m)
    BY Zenon, <1>1, <2>1, OpenSteps DEF OpenMove, disputeVars
  <2>2. CASE \/ \E who \in Accounts, outcome \in Outcomes : report(m, who, outcome)
             \/ \E outcome \in Outcomes : authorize_market_outcome(m, outcome)
             \/ admin_move_market_to_resolved(m)
    BY Zenon, <2>2 DEF report, report_market_with_dispute_mechanism, report_and_resolve_market,
                       authorize_market_outcome, admin_move_market_to_resolved, disputeVars
  <2>3. CASE \E who \in Accounts : DisputeAuthorized(m, who)
    BY Zenon, <2>3 DEF DisputeAuthorized, disputeVars
  <2>4. CASE \E who \in Accounts : DisputeCourt(m, who)
    <3>1. PICK request_block \in RequestBlocks :
            Courts' = [Courts EXCEPT ![m] = Round(0, request_block)]
      BY Zenon, <2>4 DEF DisputeCourt
    <3>2. now < Round(0, request_block).aggregation
      BY Zenon, <1>1, RoundAhead, 0 \in Nat
    <3>3. Round(0, request_block).appeals # MaxAppeals
      BY PeriodAssumption DEF Round
    <3>4. UNCHANGED GlobalDisputesInfo
      BY Zenon, <2>4 DEF DisputeCourt
    <3>5. QED
      BY Zenon, <1>9, <3>1, <3>2, <3>3, <3>4
  <2>5. CASE \E outcome \in Outcomes : reveal_vote(m, outcome)
    <3>1. PICK outcome \in Outcomes : reveal_vote(m, outcome)
      BY Zenon, <2>5
    <3> DEFINE c == [Courts[m] EXCEPT !.winner = outcome]
    <3>2. /\ Courts[m] # None /\ Courts' = [Courts EXCEPT ![m] = c] /\ UNCHANGED GlobalDisputesInfo
      BY Zenon, <3>1 DEF reveal_vote
    <3>3. Courts[m] \in Court
      BY Zenon, <1>1, <3>2 DEF TypeOK
    <3>4. c.appeals = Courts[m].appeals /\ c.aggregation = Courts[m].aggregation
      BY Zenon, <3>3 DEF Court
    <3> HIDE DEF c
    <3>5. Early(c)
      BY Zenon, <1>7, <3>2, <3>4
    <3>6. QED
      BY Zenon, <1>9, <3>2, <3>5
  <2>6. CASE check_appealable_market(m) /\ Courts[m] # None
    <3>1. Courts[m] \in Court
      BY Zenon, <1>1, <2>6 DEF TypeOK
    <3>2. Courts[m].aggregation \in Nat
      BY Zenon, <3>1 DEF Court
    <3>3. Courts[m].aggregation < now /\ now < Courts[m].aggregation
      BY Zenon, <1>7, <2>6 DEF check_appealable_market
    <3>4. QED
      BY <1>3, <3>2, <3>3
  <2>7. CASE appeal(m)
    BY Zenon, <2>6, <2>7 DEF appeal
  <2>8. CASE start_global_dispute(m)
    <3>1. Courts[m] # None
      BY Zenon, <1>1, <2>8, GlobalDisputeMarket
    <3>2. \E lowStake \in BOOLEAN : has_failed(m, lowStake)
      BY Zenon, <2>8 DEF start_global_dispute, CanStartGlobalDispute
    <3>3. Courts[m].appeals = MaxAppeals \/ check_appealable_market(m)
      BY Zenon, <3>1, <3>2 DEF has_failed
    <3>4. QED
      BY Zenon, <1>7, <2>6, <3>1, <3>3
  <2>9. QED
    BY Zenon, <1>11, <2>1, <2>2, <2>3, <2>4, <2>5, <2>7, <2>8 DEF MarketStep, OpenStep, dispute
<1>12. QED
  BY Zenon, <1>4, <1>5, <1>6, <1>8, <1>10, <1>11 DEF Next

\* Only the hook moves LastTimeFrame, and the next timestamp catches up with it.
LEMMA StepBehind ==
  ASSUME TypeOK, TypeOK', FramesBehind, Next
  PROVE  FramesBehind'
<1>1. CASE NewBlock
  <2>1. moment \in Nat /\ moment' \in Nat
    <3>1. TimeOK /\ TimeOK'
      BY Zenon, TypeParts
    <3>2. moment \in Moments /\ moment' \in Moments
      BY Zenon, <3>1 DEF TimeOK
    <3>3. QED
      BY Zenon, <3>2, InputAssumption
  <2>2. /\ calculate_time_frame_of_moment(moment) \in Nat
        /\ calculate_time_frame_of_moment(moment') \in Nat
    BY Zenon, <2>1, TimeFrameType
  <2>3. calculate_time_frame_of_moment(moment') > calculate_time_frame_of_moment(moment)
    BY Zenon, <1>1 DEF NewBlock, SetTimestamp
  <2>4. CASE LastTimeFrame' = calculate_time_frame_of_moment(moment) + 1
    BY <2>2, <2>3, <2>4 DEF FramesBehind
  <2>5. CASE LastTimeFrame' = LastTimeFrame
    <3>1. LastTimeFrame \in Nat \cup {None}
      BY Zenon DEF TypeOK
    <3>2. QED
      BY <2>2, <2>3, <2>5, <3>1 DEF FramesBehind
  <2>6. QED
    BY Zenon, <1>1, <2>4, <2>5
       DEF NewBlock, OnInitializeCommits, OnInitializeRollsBack, CurrentTimeFrame
<1>2. CASE UNCHANGED timeVars
  BY Zenon, <1>2 DEF timeVars, FramesBehind
<1>3. QED
  BY Zenon, <1>1, <1>2, ClockSteps

\* A market that the hook leaves in the queue ends outside the time frames it has processed.
LEMMA NotClosing ==
  ASSUME TypeOK, CloseQueueExact, SlotsExist, NEW m \in MarketIds, IsOpen(m),
         markets[m].period.kind = "Timestamp", m \notin Closing
  PROVE  calculate_time_frame_of_moment(markets[m].period.end) \notin StartTimeFrame..CurrentTimeFrame
<1> DEFINE f == calculate_time_frame_of_moment(markets[m].period.end)
           s == CloseSlot(markets[m].period)
<1>1. s \in CloseSlots
  BY Zenon DEF SlotsExist
<1>2. s = <<"TimeFrame", f>>
  BY DEF CloseSlot
<1> HIDE DEF s, f
<1>3. MarketIdsPerClose[s][m] > 0
  BY Zenon, <1>1, CloseEntry DEF s
<1>4. s \in DOMAIN MarketIdsPerClose
  BY Zenon, <1>1 DEF TypeOK
<1>5. s \notin DueSlots
  BY Zenon, <1>3, <1>4 DEF Closing, IsListed
<1>6. f \notin StartTimeFrame..CurrentTimeFrame
  BY Zenon, <1>2, <1>5 DEF DueSlots
<1>7. QED
  BY Zenon, <1>6 DEF f

\* The block that leaves a market behind comes after a gap.
LEMMA HookMisses ==
  ASSUME MarketInv, SlotsExist, FirstBlock, NewBlock, OnInitializeCommits,
         NEW m \in MarketIds, ~Missed(m), Missed(m)'
  PROVE  /\ LastTimeFrame # None
         /\ CurrentTimeFrame - (LastTimeFrame + 1) > MAX_RECOVERY_TIME_FRAMES
<1>1. TypeOK /\ BooksSound /\ CloseQueueExact
  BY Zenon DEF MarketInv, QueueInv, BookInv
<1>2. IsOpen(m)' /\ markets'[m].period.kind = "Timestamp"
  BY Zenon DEF Missed
<1>3. m \notin Closing /\ markets'[m] = markets[m]
  BY Zenon, <1>1, <1>2, HookLeavesOpen
<1>4. IsOpen(m) /\ markets[m].period.kind = "Timestamp"
  BY Zenon, <1>2, <1>3 DEF IsOpen, HasStatus
<1> DEFINE f == calculate_time_frame_of_moment(markets[m].period.end)
<1>5. f \notin StartTimeFrame..CurrentTimeFrame
  BY Zenon, <1>1, <1>3, <1>4, NotClosing
<1>6. f <= CurrentTimeFrame
  BY Zenon, <1>3 DEF Missed, OnInitializeCommits
<1>7. /\ f \in Nat /\ CurrentTimeFrame \in Nat
      /\ CurrentTimeFrame = calculate_time_frame_of_moment(moment) + 1
      /\ calculate_time_frame_of_moment(moment) \in Nat
  <2>1. moment \in Nat /\ markets[m].period.end \in Nat
    BY Zenon, <1>1, <1>4, TypeParts, ClockType, DeadlineTypes DEF IsOpen, HasStatus
  <2>2. f \in Nat /\ calculate_time_frame_of_moment(moment) \in Nat
    BY Zenon, <2>1, TimeFrameType
  <2>3. QED
    BY <2>2 DEF CurrentTimeFrame
<1>8. LastTimeFrame # None => f > LastTimeFrame
  <2> SUFFICES ASSUME LastTimeFrame # None PROVE f > LastTimeFrame
    OBVIOUS
  <2>1. LastTimeFrame \in Nat
    BY Zenon, <1>1 DEF TypeOK
  <2>2. ~(f <= LastTimeFrame)
    BY Zenon, <1>4 DEF Missed
  <2> HIDE DEF f
  <2>3. QED
    BY <1>7, <2>1, <2>2
<1>9. LastTimeFrame = None => f > calculate_time_frame_of_moment(moment)
  <2> SUFFICES ASSUME LastTimeFrame = None PROVE f > calculate_time_frame_of_moment(moment)
    OBVIOUS
  <2>1. calculate_time_frame_of_moment(moment) < f
    BY Zenon, <1>4 DEF FirstBlock
  <2> HIDE DEF f
  <2>2. QED
    BY <1>7, <2>1
<1> HIDE DEF f
<1>10. MAX_RECOVERY_TIME_FRAMES \in Nat
  BY PeriodAssumption
<1>11. CASE LastTimeFrame = None
  <2>1. StartTimeFrame = CurrentTimeFrame
    BY <1>7, <1>10, <1>11 DEF StartTimeFrame
  <2>2. QED
    BY <1>5, <1>6, <1>7, <1>9, <1>11, <2>1
<1>12. CASE LastTimeFrame # None
  <2>1. LastTimeFrame \in Nat
    BY Zenon, <1>1, <1>12 DEF TypeOK
  <2>2. ASSUME ~(CurrentTimeFrame - (LastTimeFrame + 1) > MAX_RECOVERY_TIME_FRAMES)
        PROVE  FALSE
    <3>1. StartTimeFrame = LastTimeFrame + 1
      BY <1>7, <1>10, <1>12, <2>1, <2>2 DEF StartTimeFrame
    <3>2. QED
      BY <1>5, <1>6, <1>7, <1>8, <1>12, <2>1, <3>1
  <2>3. QED
    BY Zenon, <1>12, <2>2
<1>13. QED
  BY Zenon, <1>11, <1>12

\* No call makes the hook miss a market.
LEMMA CallMissesNone ==
  ASSUME MarketInv, MarketInv', FramesBehind, Next, UNCHANGED timeVars,
         NEW m \in MarketIds, ~Missed(m)
  PROVE  ~Missed(m)'
<1> SUFFICES ASSUME Missed(m)' PROVE FALSE
  OBVIOUS
<1>1. /\ IsOpen(m)' /\ markets'[m].period.kind = "Timestamp"
      /\ LastTimeFrame # None
      /\ calculate_time_frame_of_moment(markets'[m].period.end) <= LastTimeFrame
  BY Zenon DEF Missed, timeVars
<1>2. TypeOK /\ TypeOK' /\ BooksSound /\ BooksSound'
  BY Zenon DEF MarketInv, QueueInv, BookInv
<1>3. LastTimeFrame \in Nat /\ LastTimeFrame <= calculate_time_frame_of_moment(moment)
  BY Zenon, <1>1, <1>2 DEF TypeOK, FramesBehind
<1>4. EndsAfter(markets[m], LastTimeFrame)
  <2> SUFFICES ASSUME markets[m] # None, markets[m].status \in {"Active", "Proposed"},
                      markets[m].period.kind = "Timestamp"
               PROVE  LastTimeFrame < calculate_time_frame_of_moment(markets[m].period.end)
    BY Zenon DEF EndsAfter
  <2>1. ~(calculate_time_frame_of_moment(markets[m].period.end) <= LastTimeFrame)
    BY Zenon, <1>1 DEF Missed, IsOpen, HasStatus
  <2>2. calculate_time_frame_of_moment(markets[m].period.end) \in Nat
    BY Zenon, <1>2, DeadlineTypes, TimeFrameType
  <2>3. QED
    BY <1>3, <2>1, <2>2
<1>5. EndsAfter(markets'[m], LastTimeFrame)
  BY Zenon, <1>3, <1>4, CallEndsAfter
<1>6. LastTimeFrame < calculate_time_frame_of_moment(markets'[m].period.end)
  BY Zenon, <1>1, <1>5 DEF EndsAfter, IsOpen, HasStatus
<1>7. markets'[m] \in MarketRecord
  BY Zenon, <1>1, <1>2 DEF TypeOK, IsOpen, HasStatus
<1>8. markets'[m].period.end \in Nat
  BY Zenon, <1>7 DEF MarketRecord, Period
<1>9. calculate_time_frame_of_moment(markets'[m].period.end) \in Nat
  BY Zenon, <1>8, TimeFrameType
<1>10. QED
  BY <1>1, <1>3, <1>6, <1>9

(* Only a gap beyond the recovery limit, or a rolled back block, makes the *)
(* hook pass the time frame in which a time based market ends, although it *)
(* sees the timestamp of the block before and slots may stay empty; and an *)
(* Active market that it has passed can be closed with                     *)
(* manually_close_market.                                                  *)
THEOREM TimeFramesCorrect == Spec => TimeFramesAreKept
<1> DEFINE Frames == SlotsExist /\ FramesBehind /\ FirstBlock
<1>1. Init => Frames
  <2> SUFFICES ASSUME Init PROVE Frames
    OBVIOUS
  <2>1. /\ \A m \in MarketIds : markets[m] = None /\ GlobalDisputesInfo[m] = None /\ Courts[m] = None
        /\ LastTimeFrame = None
    BY Zenon DEF Init
  <2>2. QED
    BY Zenon, <2>1 DEF SlotsExist, FramesBehind, FirstBlock, IsOpen, HasStatus
<1>2. MarketInv /\ MarketInv' /\ Frames /\ [Next]_vars => Frames'
  <2>1. ASSUME Frames, UNCHANGED vars
        PROVE  Frames'
    <3>1. UNCHANGED <<markets, Courts, GlobalDisputesInfo, now, moment, LastTimeFrame>>
      BY Zenon, <2>1 DEF vars
    <3>2. QED
      BY Zenon, <2>1, <3>1 DEF SlotsExist, FramesBehind, FirstBlock, IsOpen, HasStatus
  <2>2. MarketInv /\ MarketInv' => TypeOK /\ TypeOK'
    BY Zenon DEF MarketInv, QueueInv
  <2>3. QED
    BY Zenon, <2>1, <2>2, StepSlots, StepBehind, StepFirst
<1>3. MarketInv /\ Frames => MissedCanBeClosed
  <2> SUFFICES ASSUME MarketInv, SlotsExist, NEW m \in MarketIds, HasStatus(m, "Active"), Missed(m),
                      markets[m].period.end <= moment
               PROVE  CanCloseManually(m)
    BY Zenon DEF MissedCanBeClosed
  <2>1. CloseQueueExact /\ IsOpen(m) /\ markets[m].period.kind = "Timestamp"
    BY Zenon DEF MarketInv, QueueInv, Missed
  <2>2. MarketIdsPerClose[CloseSlot(markets[m].period)][m] > 0
    BY Zenon, <2>1, CloseEntry DEF SlotsExist
  <2>3. QED
    BY Zenon, <2>1, <2>2 DEF CanCloseManually
<1>4. ASSUME MarketInv, MarketInv', Frames, [Next]_vars, NEW m \in MarketIds, ~Missed(m), Missed(m)'
      PROVE  /\ now' # now
             /\ \/ OnInitializeRollsBack
                \/ /\ LastTimeFrame # None
                   /\ CurrentTimeFrame - (LastTimeFrame + 1) > MAX_RECOVERY_TIME_FRAMES
  <2>1. CASE UNCHANGED vars
    <3>1. UNCHANGED <<markets, LastTimeFrame>>
      BY Zenon, <2>1 DEF vars
    <3>2. QED
      BY Zenon, <1>4, <3>1 DEF Missed, IsOpen, HasStatus
  <2>2. CASE Next /\ UNCHANGED timeVars
    BY Zenon, <1>4, <2>2, CallMissesNone
  <2>3. CASE NewBlock
    <3>1. now \in Nat /\ now' = now + 1
      BY Zenon, <1>4, <2>3, TypeParts, ClockType DEF NewBlock, MarketInv, QueueInv
    <3>2. now' # now
      BY <3>1
    <3>3. QED
      BY Zenon, <1>4, <2>3, <3>2, HookMisses DEF NewBlock
  <2>4. QED
    BY Zenon, <1>4, <2>1, <2>2, <2>3, ClockSteps
<1>5. MarketInv /\ MarketInv' /\ Frames /\ [Next]_vars =>
        [\A m \in MarketIds :
           (~Missed(m) /\ Missed(m)') =>
             /\ now' # now
             /\ \/ OnInitializeRollsBack
                \/ /\ LastTimeFrame # None
                   /\ CurrentTimeFrame - (LastTimeFrame + 1) > MAX_RECOVERY_TIME_FRAMES]_vars
  BY Zenon, <1>4
<1>6. QED
  BY <1>1, <1>2, <1>3, <1>5, Invariant, PTL DEF Spec, TimeFramesAreKept, NoMarketMissed
=============================================================================
