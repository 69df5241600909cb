--------------------------- MODULE MarketTheorems ---------------------------
(* The queue of disputed markets, the invariant as a whole, and the        *)
(* theorems about the markets that rest on it.                             *)
EXTENDS MarketInvariants

-----------------------------------------------------------------------------
(* The queue of disputes *)

(* The block in which a market resolves by itself, given the market, the   *)
(* authority's report and the court.                                       *)
DueBlock(mk, report_, court) ==
  IF mk = None \/ mk.status # "Disputed" THEN None
  ELSE IF mk.dispute_mechanism = "Authorized"
  THEN IF report_ = None THEN None ELSE report_.resolve_at
  ELSE IF mk.dispute_mechanism = "Court" /\ court # None /\ court.appeals # MaxAppeals
  THEN court.appeal ELSE None

(* Market m is listed once, at the block at, or nowhere.                   *)
DisputeQueued(q, at, m) == \A b \in Blocks : q[b][m] = Indicator(b = at)

\* Sound disputes make get_auto_resolve a matter of these three alone.
LEMMA DueBlocks ==
  ASSUME NEW m \in MarketIds
  PROVE  /\ DisputeSound(m) =>
              AutoResolveBlock(m) = DueBlock(markets[m], AuthorizedOutcomeReports[m], Courts[m])
         /\ DisputeSound(m)' =>
              AutoResolveBlock(m)' = DueBlock(markets'[m], AuthorizedOutcomeReports'[m], Courts'[m])
<1>1. DisputeSound(m) =>
        AutoResolveBlock(m) = DueBlock(markets[m], AuthorizedOutcomeReports[m], Courts[m])
  <2>1. SUFFICES ASSUME DisputeSound(m), HasStatus(m, "Disputed")
        PROVE AutoResolveBlock(m) = DueBlock(markets[m], AuthorizedOutcomeReports[m], Courts[m])
    BY Zenon DEF AutoResolveBlock, DueBlock, HasStatus
  <2>2. CASE markets[m].dispute_mechanism = "Authorized"
    BY <2>1, <2>2 DEF AutoResolveBlock, DueBlock, HasStatus, get_auto_resolve,
                      authorized_get_auto_resolve
  <2>3. CASE markets[m].dispute_mechanism = "Court"
    BY <2>1, <2>3 DEF AutoResolveBlock, DueBlock, HasStatus, get_auto_resolve,
                      court_get_auto_resolve, DisputeSound
  <2>4. CASE markets[m].dispute_mechanism \notin {"Authorized", "Court"}
    BY <2>1, <2>4 DEF AutoResolveBlock, DueBlock, HasStatus, get_auto_resolve
  <2>5. QED
    BY Zenon, <2>2, <2>3, <2>4
<1>2. DisputeSound(m)' =>
        AutoResolveBlock(m)' = DueBlock(markets'[m], AuthorizedOutcomeReports'[m], Courts'[m])
  <2>1. SUFFICES ASSUME DisputeSound(m)', HasStatus(m, "Disputed")'
        PROVE AutoResolveBlock(m)' = DueBlock(markets'[m], AuthorizedOutcomeReports'[m], Courts'[m])
    BY Zenon DEF AutoResolveBlock, DueBlock, HasStatus
  <2>2. CASE markets'[m].dispute_mechanism = "Authorized"
    BY <2>1, <2>2 DEF AutoResolveBlock, DueBlock, HasStatus, get_auto_resolve,
                      authorized_get_auto_resolve
  <2>3. CASE markets'[m].dispute_mechanism = "Court"
    BY <2>1, <2>3 DEF AutoResolveBlock, DueBlock, HasStatus, get_auto_resolve,
                      court_get_auto_resolve, DisputeSound
  <2>4. CASE markets'[m].dispute_mechanism \notin {"Authorized", "Court"}
    BY <2>1, <2>4 DEF AutoResolveBlock, DueBlock, HasStatus, get_auto_resolve
  <2>5. QED
    BY Zenon, <2>2, <2>3, <2>4
<1>3. QED
  BY Zenon, <1>1, <1>2

\* The queue is exact if it is for every market without a global dispute.
LEMMA DisputeQueueParts ==
  /\ DisputesSound =>
       (DisputeQueueExact
          <=> \A m \in MarketIds : GlobalDisputesInfo[m] = None =>
                DisputeQueued(MarketIdsPerDisputeBlock,
                              DueBlock(markets[m], AuthorizedOutcomeReports[m], Courts[m]), m))
  /\ DisputesSound' =>
       (DisputeQueueExact'
          <=> \A m \in MarketIds : GlobalDisputesInfo'[m] = None =>
                DisputeQueued(MarketIdsPerDisputeBlock',
                              DueBlock(markets'[m], AuthorizedOutcomeReports'[m], Courts'[m]), m))
<1>1. ASSUME DisputesSound
      PROVE  \A m \in MarketIds :
               AutoResolveBlock(m) = DueBlock(markets[m], AuthorizedOutcomeReports[m], Courts[m])
  BY Zenon, <1>1, DueBlocks DEF DisputesSound
<1>2. ASSUME DisputesSound'
      PROVE  \A m \in MarketIds :
               AutoResolveBlock(m)' = DueBlock(markets'[m], AuthorizedOutcomeReports'[m], Courts'[m])
  BY Zenon, <1>2, DueBlocks DEF DisputesSound
<1>3. ASSUME DisputesSound
      PROVE  DisputeQueueExact
               <=> \A m \in MarketIds : GlobalDisputesInfo[m] = None =>
                     DisputeQueued(MarketIdsPerDisputeBlock,
                                   DueBlock(markets[m], AuthorizedOutcomeReports[m], Courts[m]), m)
  <2>1. DisputeQueueExact
          <=> \A m \in MarketIds : GlobalDisputesInfo[m] = None =>
                DisputeQueued(MarketIdsPerDisputeBlock, AutoResolveBlock(m), m)
    BY Zenon DEF DisputeQueueExact, DisputeQueued
  <2>2. QED
    BY Zenon, <1>1, <1>3, <2>1
<1>4. ASSUME DisputesSound'
      PROVE  DisputeQueueExact'
               <=> \A m \in MarketIds : GlobalDisputesInfo'[m] = None =>
                     DisputeQueued(MarketIdsPerDisputeBlock',
                                   DueBlock(markets'[m], AuthorizedOutcomeReports'[m], Courts'[m]), m)
  <2>1. DisputeQueueExact'
          <=> \A m \in MarketIds : GlobalDisputesInfo'[m] = None =>
                DisputeQueued(MarketIdsPerDisputeBlock', AutoResolveBlock(m)', m)
    BY Zenon DEF DisputeQueueExact, DisputeQueued
  <2>2. QED
    BY Zenon, <1>2, <1>4, <2>1
<1>5. QED
  BY Zenon, <1>3, <1>4

\* A step that changes one market, its dispute and its entries.
LEMMA OneDisputeQueued ==
  ASSUME DisputesSound, DisputesSound', DisputeQueueExact, NEW m \in MarketIds,
         OnlyBook(m), OnlyDispute(m),
         \A n \in MarketIds \ {m}, b \in Blocks :
           MarketIdsPerDisputeBlock'[b][n] = MarketIdsPerDisputeBlock[b][n],
         GlobalDisputesInfo'[m] = None =>
           DisputeQueued(MarketIdsPerDisputeBlock',
                         DueBlock(markets'[m], AuthorizedOutcomeReports'[m], Courts'[m]), m)
  PROVE  DisputeQueueExact'
<1>1. SUFFICES ASSUME NEW n \in MarketIds, GlobalDisputesInfo'[n] = None
               PROVE  DisputeQueued(MarketIdsPerDisputeBlock',
                        DueBlock(markets'[n], AuthorizedOutcomeReports'[n], Courts'[n]), n)
  BY Zenon, DisputeQueueParts
<1>2. CASE n # m
  <2>1. /\ markets'[n] = markets[n] /\ AuthorizedOutcomeReports'[n] = AuthorizedOutcomeReports[n]
        /\ Courts'[n] = Courts[n] /\ GlobalDisputesInfo[n] = None
        /\ \A b \in Blocks : MarketIdsPerDisputeBlock'[b][n] = MarketIdsPerDisputeBlock[b][n]
    BY Zenon, <1>1, <1>2 DEF OnlyBook, OnlyDispute
  <2>2. DisputeQueued(MarketIdsPerDisputeBlock,
                      DueBlock(markets[n], AuthorizedOutcomeReports[n], Courts[n]), n)
    BY Zenon, <2>1, DisputeQueueParts
  <2>3. QED
    BY Zenon, <2>1, <2>2 DEF DisputeQueued
<1>3. QED
  BY Zenon, <1>1, <1>2

\* Steps that concern no dispute.
LEMMA QuietDisputeQueue ==
  ASSUME DisputesSound, DisputesSound', DisputeQueueExact, NEW m \in MarketIds, OnlyBook(m),
         UNCHANGED <<disputeVars, MarketIdsPerDisputeBlock>>,
         ~HasStatus(m, "Disputed"), ~HasStatus(m, "Disputed")'
  PROVE  DisputeQueueExact'
<1>1. /\ DueBlock(markets[m], AuthorizedOutcomeReports[m], Courts[m]) = None
      /\ DueBlock(markets'[m], AuthorizedOutcomeReports'[m], Courts'[m]) = None
  BY Zenon DEF DueBlock, HasStatus
<1>2. OnlyDispute(m) /\ UNCHANGED <<MarketIdsPerDisputeBlock, GlobalDisputesInfo>>
  BY Zenon DEF OnlyDispute, disputeVars
<1>3. GlobalDisputesInfo[m] = None => DisputeQueued(MarketIdsPerDisputeBlock, None, m)
  BY Zenon, <1>1, DisputeQueueParts
<1>4. GlobalDisputesInfo'[m] = None =>
        DisputeQueued(MarketIdsPerDisputeBlock',
                      DueBlock(markets'[m], AuthorizedOutcomeReports'[m], Courts'[m]), m)
  BY Zenon, <1>1, <1>2, <1>3
<1>5. QED
  BY Zenon, <1>2, <1>4, OneDisputeQueued

\* The hook takes the entries of one block, and resolves every market among them.
LEMMA HookDisputeQueue ==
  ASSUME TypeOK, BooksSound, DisputesSound, DisputesSound', DisputeQueueExact,
         now + 1 \in Blocks, OnInitializeCommits
  PROVE  DisputeQueueExact'
<1>1. SUFFICES ASSUME NEW m \in MarketIds, GlobalDisputesInfo'[m] = None
               PROVE  DisputeQueued(MarketIdsPerDisputeBlock',
                        DueBlock(markets'[m], AuthorizedOutcomeReports'[m], Courts'[m]), m)
  BY Zenon, DisputeQueueParts
<1> DEFINE at == DueBlock(markets[m], AuthorizedOutcomeReports[m], Courts[m])
<1>2. /\ UNCHANGED <<Courts, GlobalDisputesInfo>>
      /\ m \notin Resolving => AuthorizedOutcomeReports'[m] = AuthorizedOutcomeReports[m]
  BY Zenon DEF OnInitializeCommits, ReportsAfterResolution
<1>3. \A b \in Blocks : MarketIdsPerDisputeBlock[b][m] = IF b = at THEN 1 ELSE 0
  BY Zenon, <1>1, <1>2, DisputeQueueParts DEF DisputeQueued, Indicator
<1>4. \A b \in Blocks : MarketIdsPerDisputeBlock'[b][m]
                          = IF b = now + 1 THEN 0 ELSE MarketIdsPerDisputeBlock[b][m]
  <2>1. /\ MarketIdsPerDisputeBlock' = [MarketIdsPerDisputeBlock EXCEPT ![now + 1] = NoIds]
        /\ MarketIdsPerDisputeBlock \in [Blocks -> Ids] /\ NoIds[m] = 0
    BY Zenon DEF OnInitializeCommits, TypeOK, NoIds
  <2>2. QED
    BY Zenon, <2>1
<1>5. HookMove(m)
  BY Zenon, HookMoves
<1>6. m \in DueDisputes <=> at = now + 1
  <2> HIDE DEF at
  <2> QED BY <1>3 DEF DueDisputes
<1>7. CASE m \notin Closing \cup Resolving /\ markets'[m] = markets[m]
  <2>1. at # now + 1
    BY Zenon, <1>6, <1>7 DEF Resolving
  <2>2. DueBlock(markets'[m], AuthorizedOutcomeReports'[m], Courts'[m]) = at
    BY Zenon, <1>2, <1>7
  <2> HIDE DEF at
  <2>3. \A b \in Blocks : MarketIdsPerDisputeBlock'[b][m] = IF b = at THEN 1 ELSE 0
    BY Zenon, <1>3, <1>4, <2>1
  <2>4. QED
    BY Zenon, <2>2, <2>3 DEF DisputeQueued, Indicator
<1>8. CASE m \in Closing /\ (HasStatus(m, "Proposed") \/ HasStatus(m, "Active"))
           /\ (markets'[m] # None => markets'[m].status = "Closed")
  <2>1. at = None /\ DueBlock(markets'[m], AuthorizedOutcomeReports'[m], Courts'[m]) = None
    BY Zenon, <1>8 DEF DueBlock, HasStatus
  <2>2. None \notin Blocks
    BY Zenon, NoneAssumption, InputAssumption
  <2> HIDE DEF at
  <2>3. \A b \in Blocks : MarketIdsPerDisputeBlock'[b][m] = 0 /\ b # None
    BY Zenon, <1>3, <1>4, <2>1, <2>2
  <2>4. QED
    BY Zenon, <2>1, <2>3 DEF DisputeQueued, Indicator
<1>9. CASE m \in Resolving /\ Resolution(m, markets'[m], held'[m])
  <2>1. markets'[m].status = "Resolved"
    BY Zenon, <1>9 DEF Resolution
  <2>2. DueBlock(markets'[m], AuthorizedOutcomeReports'[m], Courts'[m]) = None
    BY Zenon, <2>1 DEF DueBlock
  <2>3. None \notin Blocks
    BY Zenon, NoneAssumption, InputAssumption
  <2>4. at = now + 1 \/ at = None
    <3>1. CASE m \in DueDisputes
      BY Zenon, <1>6, <3>1
    <3>2. CASE m \notin DueDisputes
      <4>1. HasStatus(m, "Reported")
        BY Zenon, <1>9, <3>2 DEF Resolving
      <4>2. QED
        BY Zenon, <4>1 DEF DueBlock, HasStatus
    <3>3. QED
      BY Zenon, <3>1, <3>2
  <2> HIDE DEF at
  <2>5. \A b \in Blocks : MarketIdsPerDisputeBlock'[b][m] = 0 /\ b # None
    BY Zenon, <1>3, <1>4, <2>3, <2>4
  <2>6. QED
    BY Zenon, <2>2, <2>5 DEF DisputeQueued, Indicator
<1>10. QED
  BY Zenon, <1>5, <1>7, <1>8, <1>9 DEF HookMove

\* Listing a market, entry by entry.
LEMMA PushedDispute ==
  ASSUME TypeOK, NEW m \in MarketIds, NEW at,
         MarketIdsPerDisputeBlock' = Push(MarketIdsPerDisputeBlock, at, m)
  PROVE  \A b \in Blocks, n \in MarketIds :
           MarketIdsPerDisputeBlock'[b][n]
             = IF b = at /\ n = m THEN MarketIdsPerDisputeBlock[b][n] + 1
               ELSE MarketIdsPerDisputeBlock[b][n]
  BY PushType DEF TypeOK

\* Taking a market away, entry by entry.
LEMMA RemovedDispute ==
  ASSUME TypeOK, NEW m \in MarketIds, NEW at,
         MarketIdsPerDisputeBlock' = remove_item(MarketIdsPerDisputeBlock, at, m)
  PROVE  \A b \in Blocks, n \in MarketIds :
           MarketIdsPerDisputeBlock'[b][n]
             = IF b = at /\ n = m
               THEN (IF MarketIdsPerDisputeBlock[b][n] > 0 THEN MarketIdsPerDisputeBlock[b][n] - 1
                     ELSE 0)
               ELSE MarketIdsPerDisputeBlock[b][n]
  BY RemoveItemType DEF TypeOK

\* Listing a market that is listed nowhere.
LEMMA ListedOnce ==
  ASSUME TypeOK, NEW m \in MarketIds, NEW at, DisputeQueued(MarketIdsPerDisputeBlock, None, m),
         MarketIdsPerDisputeBlock' = Push(MarketIdsPerDisputeBlock, at, m)
  PROVE  DisputeQueued(MarketIdsPerDisputeBlock', at, m)
<1>1. None \notin Blocks
  BY Zenon, NoneAssumption, InputAssumption
<1>2. \A b \in Blocks : MarketIdsPerDisputeBlock[b][m] = 0
  BY Zenon, <1>1 DEF DisputeQueued, Indicator
<1>3. \A b \in Blocks : MarketIdsPerDisputeBlock'[b][m] = IF b = at THEN 1 ELSE 0
  BY <1>2, PushedDispute
<1>4. QED
  BY <1>3 DEF DisputeQueued, Indicator

\* Taking the only entry of a market away.
LEMMA ListedNoMore ==
  ASSUME TypeOK, NEW m \in MarketIds, NEW at, DisputeQueued(MarketIdsPerDisputeBlock, at, m),
         MarketIdsPerDisputeBlock' = remove_item(MarketIdsPerDisputeBlock, at, m)
  PROVE  DisputeQueued(MarketIdsPerDisputeBlock', None, m)
<1>1. None \notin Blocks
  BY Zenon, NoneAssumption, InputAssumption
<1>2. \A b \in Blocks : MarketIdsPerDisputeBlock[b][m] = IF b = at THEN 1 ELSE 0
  BY Zenon DEF DisputeQueued, Indicator
<1>3. \A b \in Blocks : MarketIdsPerDisputeBlock'[b][m] = 0
  BY <1>2, RemovedDispute
<1>4. QED
  BY <1>1, <1>3 DEF DisputeQueued, Indicator

\* Listing and taking away leave the entries of other markets alone.
LEMMA OthersListed ==
  ASSUME TypeOK, NEW m \in MarketIds, NEW at, NEW last,
         MarketIdsPerDisputeBlock' = remove_item(Push(MarketIdsPerDisputeBlock, at, m), last, m)
  PROVE  \A n \in MarketIds \ {m}, b \in Blocks :
           MarketIdsPerDisputeBlock'[b][n] = MarketIdsPerDisputeBlock[b][n]
<1> DEFINE q == Push(MarketIdsPerDisputeBlock, at, m)
<1>1. /\ q \in [Blocks -> Ids]
      /\ \A b \in Blocks, n \in MarketIds \ {m} : q[b][n] = MarketIdsPerDisputeBlock[b][n]
  BY PushType DEF TypeOK
<1>2. MarketIdsPerDisputeBlock' = remove_item(q, last, m)
  OBVIOUS
<1> HIDE DEF q
<1>3. \A b \in Blocks, n \in MarketIds \ {m} : MarketIdsPerDisputeBlock'[b][n] = q[b][n]
  BY <1>1, <1>2, RemoveItemType
<1>4. QED
  BY Zenon, <1>1, <1>3

\* An appeal lists the market before it takes the old entry away, which may be the same one.
LEMMA ListedAnew ==
  ASSUME TypeOK, NEW m \in MarketIds, NEW at, NEW last,
         DisputeQueued(MarketIdsPerDisputeBlock, last, m),
         MarketIdsPerDisputeBlock' = remove_item(Push(MarketIdsPerDisputeBlock, at, m), last, m)
  PROVE  DisputeQueued(MarketIdsPerDisputeBlock', at, m)
<1> DEFINE q == Push(MarketIdsPerDisputeBlock, at, m)
<1>1. /\ q \in [Blocks -> Ids]
      /\ \A b \in Blocks, n \in MarketIds :
           q[b][n] = IF b = at /\ n = m THEN MarketIdsPerDisputeBlock[b][n] + 1
                     ELSE MarketIdsPerDisputeBlock[b][n]
  BY PushType DEF TypeOK
<1>2. MarketIdsPerDisputeBlock' = remove_item(q, last, m)
  OBVIOUS
<1> HIDE DEF q
<1>3. \A b \in Blocks, n \in MarketIds :
        MarketIdsPerDisputeBlock'[b][n]
          = IF b = last /\ n = m THEN (IF q[b][n] > 0 THEN q[b][n] - 1 ELSE 0) ELSE q[b][n]
  BY <1>1, <1>2, RemoveItemType
<1>4. \A b \in Blocks : MarketIdsPerDisputeBlock[b][m] = IF b = last THEN 1 ELSE 0
  BY Zenon DEF DisputeQueued, Indicator
<1>5. \A b \in Blocks : q[b][m] = (IF b = last THEN 1 ELSE 0) + (IF b = at THEN 1 ELSE 0)
  BY <1>1, <1>4
<1>6. \A b \in Blocks : MarketIdsPerDisputeBlock'[b][m] = IF b = at THEN 1 ELSE 0
  BY <1>3, <1>5
<1>7. QED
  BY <1>6 DEF DisputeQueued, Indicator

\* The authority's outcome: the first one is listed, a correction keeps the block.
LEMMA AuthorizeQueue ==
  ASSUME TypeOK, DisputesSound, DisputesSound', DisputeQueueExact, NEW m \in MarketIds,
         NEW outcome \in Outcomes, authorize_market_outcome(m, outcome)
  PROVE  DisputeQueueExact'
<1> DEFINE old == AuthorizedOutcomeReports[m]
           at == IF old = None THEN now + CorrectionPeriod ELSE old.resolve_at
           new == [resolve_at |-> at, outcome |-> outcome]
<1>1. /\ HasStatus(m, "Disputed") /\ markets[m].dispute_mechanism = "Authorized"
      /\ AuthorizedOutcomeReports' = [AuthorizedOutcomeReports EXCEPT ![m] = new]
      /\ old = None => MarketIdsPerDisputeBlock' = Push(MarketIdsPerDisputeBlock, at, m)
      /\ old # None => UNCHANGED MarketIdsPerDisputeBlock
      /\ UNCHANGED <<markets, held, MarketIdToCourtId, Courts, GlobalDisputesInfo>>
  BY Zenon DEF authorize_market_outcome, marketVars
<1>2. new.resolve_at = at /\ new \in AuthorityReport
  <2>1. at \in Nat
    BY ClockType, TypeParts, PeriodAssumption DEF TypeOK, AuthorityReport
  <2> HIDE DEF at
  <2>2. QED
    BY Zenon, <2>1 DEF AuthorityReport
<1>3. new # None
  BY Zenon, <1>2, NoDisputeAssumption
<1> HIDE DEF new
<1>4. AuthorizedOutcomeReports'[m] = new
      /\ \A n \in MarketIds \ {m} : AuthorizedOutcomeReports'[n] = AuthorizedOutcomeReports[n]
  BY Zenon, <1>1 DEF TypeOK
<1>5. OnlyBook(m) /\ OnlyDispute(m)
  BY Zenon, <1>1, <1>4 DEF OnlyBook, OnlyDispute
<1>6. DueBlock(markets'[m], AuthorizedOutcomeReports'[m], Courts'[m]) = at
  BY Zenon, <1>1, <1>2, <1>3, <1>4 DEF DueBlock, HasStatus
<1>7. DueBlock(markets[m], old, Courts[m]) = IF old = None THEN None ELSE at
  BY Zenon, <1>1 DEF DueBlock, HasStatus
<1>8. GlobalDisputesInfo[m] = None =>
        DisputeQueued(MarketIdsPerDisputeBlock, IF old = None THEN None ELSE at, m)
  BY Zenon, <1>7, DisputeQueueParts
<1> HIDE DEF at, old
<1>9. CASE old = None
  <2>1. \A n \in MarketIds \ {m}, b \in Blocks :
          MarketIdsPerDisputeBlock'[b][n] = MarketIdsPerDisputeBlock[b][n]
    BY <1>1, <1>9, PushedDispute
  <2>2. ASSUME GlobalDisputesInfo'[m] = None
        PROVE  DisputeQueued(MarketIdsPerDisputeBlock', at, m)
    BY Zenon, <1>1, <1>8, <1>9, <2>2, ListedOnce
  <2>3. QED
    BY Zenon, <1>5, <1>6, <2>1, <2>2, OneDisputeQueued
<1>10. CASE old # None
  <2>1. GlobalDisputesInfo'[m] = None => DisputeQueued(MarketIdsPerDisputeBlock', at, m)
    BY Zenon, <1>1, <1>8, <1>10
  <2>2. QED
    BY Zenon, <1>1, <1>5, <1>6, <1>10, <2>1, OneDisputeQueued
<1>11. QED
  BY Zenon, <1>9, <1>10

\* The votes revealed move no deadline of the court.
LEMMA RevealQueue ==
  ASSUME TypeOK, DisputesSound, DisputesSound', DisputeQueueExact, NEW m \in MarketIds,
         NEW outcome \in Outcomes, reveal_vote(m, outcome)
  PROVE  DisputeQueueExact'
<1> DEFINE new == [Courts[m] EXCEPT !.winner = outcome]
<1>1. /\ Courts[m] # None /\ Courts' = [Courts EXCEPT ![m] = new]
      /\ UNCHANGED <<markets, held, MarketIdsPerDisputeBlock, AuthorizedOutcomeReports,
                     MarketIdToCourtId, GlobalDisputesInfo>>
  BY Zenon DEF reveal_vote, marketVars, queueVars
<1>2. Courts[m] \in Court /\ Courts \in [MarketIds -> Court \cup {None}]
  BY Zenon, <1>1 DEF TypeOK
<1>3. new \in Court /\ new.appeals = Courts[m].appeals /\ new.appeal = Courts[m].appeal
  BY Zenon, <1>2 DEF Court
<1> HIDE DEF new
<1>4. Courts'[m] = new /\ new # None /\ \A n \in MarketIds \ {m} : Courts'[n] = Courts[n]
  BY Zenon, <1>1, <1>2, <1>3, NoDisputeAssumption
<1>5. OnlyBook(m) /\ OnlyDispute(m)
  BY Zenon, <1>1, <1>4 DEF OnlyBook, OnlyDispute
<1>6. DueBlock(markets'[m], AuthorizedOutcomeReports'[m], Courts'[m])
        = DueBlock(markets[m], AuthorizedOutcomeReports[m], Courts[m])
  BY Zenon, <1>1, <1>3, <1>4 DEF DueBlock
<1>7. GlobalDisputesInfo'[m] = None =>
        DisputeQueued(MarketIdsPerDisputeBlock',
                      DueBlock(markets'[m], AuthorizedOutcomeReports'[m], Courts'[m]), m)
  BY Zenon, <1>1, <1>6, DisputeQueueParts
<1>8. QED
  BY Zenon, <1>1, <1>5, <1>7, OneDisputeQueued

\* An appeal lists the next round; the last one leaves the market to a global dispute.
LEMMA AppealQueue ==
  ASSUME TypeOK, DisputesSound, DisputesSound', DisputeQueueExact, NEW m \in MarketIds, appeal(m)
  PROVE  DisputeQueueExact'
<1> DEFINE last == Courts[m].appeal
           number == Courts[m].appeals + 1
<1>1. /\ Courts[m] # None /\ number <= MaxAppeals
      /\ HasStatus(m, "Disputed") /\ markets[m].dispute_mechanism = "Court"
      /\ UNCHANGED <<markets, held, AuthorizedOutcomeReports, MarketIdToCourtId,
                     GlobalDisputesInfo>>
  BY Zenon DEF appeal, check_appealable_market, marketVars
<1>2. Courts[m] \in Court /\ Courts \in [MarketIds -> Court \cup {None}]
  BY Zenon, <1>1 DEF TypeOK
<1>3. Courts[m].appeals \in Nat /\ Courts[m].appeals # MaxAppeals
  BY <1>1, <1>2, PeriodAssumption DEF Court
<1>4. DueBlock(markets[m], AuthorizedOutcomeReports[m], Courts[m]) = last
  BY <1>1, <1>3 DEF DueBlock, HasStatus
<1>5. GlobalDisputesInfo[m] = None => DisputeQueued(MarketIdsPerDisputeBlock, last, m)
  BY Zenon, <1>4, DisputeQueueParts
<1>6. ASSUME NEW new \in Court, Courts' = [Courts EXCEPT ![m] = new]
      PROVE  /\ OnlyBook(m) /\ OnlyDispute(m) /\ Courts'[m] = new
             /\ DueBlock(markets'[m], AuthorizedOutcomeReports'[m], Courts'[m])
                  = IF new.appeals = MaxAppeals THEN None ELSE new.appeal
  <2>1. Courts'[m] = new /\ new # None /\ \A n \in MarketIds \ {m} : Courts'[n] = Courts[n]
    BY Zenon, <1>2, <1>6, NoDisputeAssumption
  <2>2. OnlyBook(m) /\ OnlyDispute(m)
    BY Zenon, <1>1, <2>1 DEF OnlyBook, OnlyDispute
  <2>3. markets'[m] # None /\ markets'[m].status = "Disputed"
        /\ markets'[m].dispute_mechanism = "Court"
    BY Zenon, <1>1 DEF HasStatus
  <2>4. QED
    BY <2>1, <2>2, <2>3 DEF DueBlock
<1>7. CASE number < MaxAppeals
  <2>1. PICK request_block \in RequestBlocks :
          /\ Courts' = [Courts EXCEPT ![m] = Round(number, request_block)]
          /\ MarketIdsPerDisputeBlock' =
               remove_item(Push(MarketIdsPerDisputeBlock, Round(number, request_block).appeal, m),
                           last, m)
    <3>1. number # MaxAppeals
      BY <1>3, <1>7, PeriodAssumption
    <3>2. QED
      BY Zenon, <3>1 DEF appeal
  <2> DEFINE new == Round(number, request_block)
  <2>2. new.appeals = number /\ new \in Court
    <3>1. number \in Nat
      BY <1>3
    <3> HIDE DEF number
    <3>2. QED
      BY Zenon, <3>1, RoundType, TypeParts DEF Round
  <2>3. number # MaxAppeals
    BY <1>3, <1>7, PeriodAssumption
  <2> HIDE DEF new, number, last
  <2>4. /\ Courts' = [Courts EXCEPT ![m] = new]
        /\ MarketIdsPerDisputeBlock'
             = remove_item(Push(MarketIdsPerDisputeBlock, new.appeal, m), last, m)
    BY Zenon, <2>1 DEF new
  <2>5. /\ OnlyBook(m) /\ OnlyDispute(m)
        /\ DueBlock(markets'[m], AuthorizedOutcomeReports'[m], Courts'[m]) = new.appeal
    BY Zenon, <1>6, <2>2, <2>3, <2>4
  <2>6. \A n \in MarketIds \ {m}, b \in Blocks :
          MarketIdsPerDisputeBlock'[b][n] = MarketIdsPerDisputeBlock[b][n]
    BY Zenon, <2>4, OthersListed
  <2>7. GlobalDisputesInfo'[m] = None => DisputeQueued(MarketIdsPerDisputeBlock', new.appeal, m)
    BY Zenon, <1>1, <1>5, <2>4, ListedAnew
  <2>8. QED
    BY Zenon, <2>5, <2>6, <2>7, OneDisputeQueued
<1>8. CASE number = MaxAppeals
  <2> DEFINE new == [Courts[m] EXCEPT !.appeals = number]
  <2>1. /\ Courts' = [Courts EXCEPT ![m] = new]
        /\ MarketIdsPerDisputeBlock' = remove_item(MarketIdsPerDisputeBlock, last, m)
    <3>1. ~(number < MaxAppeals)
      BY <1>3, <1>8, PeriodAssumption
    <3>2. QED
      BY Zenon, <3>1 DEF appeal
  <2>2. new \in Court /\ new.appeals = MaxAppeals
    <3>1. number \in Nat
      BY <1>3
    <3> HIDE DEF number
    <3>2. QED
      BY Zenon, <1>2, <1>8, <3>1 DEF Court
  <2> HIDE DEF new, number, last
  <2>3. /\ OnlyBook(m) /\ OnlyDispute(m)
        /\ DueBlock(markets'[m], AuthorizedOutcomeReports'[m], Courts'[m]) = None
    BY Zenon, <1>6, <2>1, <2>2
  <2>4. \A n \in MarketIds \ {m}, b \in Blocks :
          MarketIdsPerDisputeBlock'[b][n] = MarketIdsPerDisputeBlock[b][n]
    BY <2>1, RemovedDispute
  <2>5. GlobalDisputesInfo'[m] = None => DisputeQueued(MarketIdsPerDisputeBlock', None, m)
    BY Zenon, <1>1, <1>5, <2>1, ListedNoMore
  <2>6. QED
    BY Zenon, <2>3, <2>4, <2>5, OneDisputeQueued
<1>9. QED
  BY Zenon, <1>7, <1>8 DEF appeal

\* Taking away the entry of a market that has none.
LEMMA NothingToTake ==
  ASSUME TypeOK, NEW m \in MarketIds, NEW at, DisputeQueued(MarketIdsPerDisputeBlock, None, m),
         MarketIdsPerDisputeBlock' = remove_item(MarketIdsPerDisputeBlock, at, m)
  PROVE  DisputeQueued(MarketIdsPerDisputeBlock', None, m)
<1>1. None \notin Blocks
  BY Zenon, NoneAssumption, InputAssumption
<1>2. \A b \in Blocks : MarketIdsPerDisputeBlock[b][m] = 0
  BY Zenon, <1>1 DEF DisputeQueued, Indicator
<1>3. \A b \in Blocks : MarketIdsPerDisputeBlock'[b][m] = 0
  BY <1>2, RemovedDispute
<1>4. QED
  BY <1>1, <1>3 DEF DisputeQueued, Indicator

\* A dispute before the court lists the market under the first round.
LEMMA DisputeQueue ==
  ASSUME TypeOK, BooksSound, DisputesSound, DisputesSound', DisputeQueueExact,
         NEW m \in MarketIds, NEW who \in Accounts, dispute(m, who)
  PROVE  DisputeQueueExact'
<1>1. Advances(m, "Reported", "Disputed")
  BY Zenon, DisputeMove
<1>2. AuthorizedOutcomeReports[m] = None /\ Courts[m] = None
  BY Zenon, <1>1, NoDispute DEF Advances, HasStatus
<1>3. DueBlock(markets[m], AuthorizedOutcomeReports[m], Courts[m]) = None
  BY Zenon, <1>1 DEF Advances, DueBlock, HasStatus
<1>4. GlobalDisputesInfo[m] = None => DisputeQueued(MarketIdsPerDisputeBlock, None, m)
  BY Zenon, <1>3, DisputeQueueParts
<1>5. CASE DisputeAuthorized(m, who)
  <2>1. /\ UNCHANGED <<MarketIdsPerDisputeBlock, AuthorizedOutcomeReports, MarketIdToCourtId,
                       Courts, GlobalDisputesInfo>>
        /\ markets[m].dispute_mechanism = "Authorized"
    BY Zenon, <1>5 DEF DisputeAuthorized, queueVars, disputeVars
  <2>2. OnlyBook(m) /\ OnlyDispute(m)
    BY Zenon, <1>1, <2>1 DEF Advances, OnlyDispute
  <2>3. DueBlock(markets'[m], AuthorizedOutcomeReports'[m], Courts'[m]) = None
    BY Zenon, <1>1, <1>2, <2>1 DEF Advances, DueBlock
  <2>4. QED
    BY Zenon, <1>4, <2>1, <2>2, <2>3, OneDisputeQueued
<1>6. CASE DisputeCourt(m, who)
  <2>1. PICK request_block \in RequestBlocks :
          /\ Courts' = [Courts EXCEPT ![m] = Round(0, request_block)]
          /\ MarketIdsPerDisputeBlock'
               = Push(MarketIdsPerDisputeBlock, Round(0, request_block).appeal, m)
    BY Zenon, <1>6 DEF DisputeCourt
  <2> DEFINE new == Round(0, request_block)
  <2>2. new \in Court /\ new.appeals = 0
    BY Zenon, RoundType, TypeParts DEF Round
  <2>3. new # None /\ new.appeals # MaxAppeals
    BY <2>2, NoDisputeAssumption, PeriodAssumption
  <2> HIDE DEF new
  <2>4. /\ Courts' = [Courts EXCEPT ![m] = new]
        /\ MarketIdsPerDisputeBlock' = Push(MarketIdsPerDisputeBlock, new.appeal, m)
    BY Zenon, <2>1 DEF new
  <2>5. /\ markets[m].dispute_mechanism = "Court" /\ MarketIdToCourtId' = MarketIdToCourtId \cup {m}
        /\ UNCHANGED <<AuthorizedOutcomeReports, GlobalDisputesInfo>>
    BY Zenon, <1>6 DEF DisputeCourt
  <2>6. Courts'[m] = new /\ \A n \in MarketIds \ {m} : Courts'[n] = Courts[n]
    BY Zenon, <2>4 DEF TypeOK
  <2>7. OnlyBook(m) /\ OnlyDispute(m)
    BY Zenon, <1>1, <2>5, <2>6 DEF Advances, OnlyDispute
  <2>8. /\ markets'[m] # None /\ markets'[m].status = "Disputed"
        /\ markets'[m].dispute_mechanism = "Court"
    BY Zenon, <1>1, <2>5 DEF Advances
  <2>9. DueBlock(markets'[m], AuthorizedOutcomeReports'[m], Courts'[m]) = new.appeal
    BY <2>3, <2>6, <2>8 DEF DueBlock
  <2>10. \A n \in MarketIds \ {m}, b \in Blocks :
           MarketIdsPerDisputeBlock'[b][n] = MarketIdsPerDisputeBlock[b][n]
    BY <2>4, PushedDispute
  <2>11. GlobalDisputesInfo'[m] = None => DisputeQueued(MarketIdsPerDisputeBlock', new.appeal, m)
    BY Zenon, <1>4, <2>4, <2>5, ListedOnce
  <2>12. QED
    BY Zenon, <2>7, <2>9, <2>10, <2>11, OneDisputeQueued
<1>7. QED
  BY Zenon, <1>5, <1>6 DEF dispute

\* admin_move_market_to_resolved takes the entry of the market away, wherever it is.
LEMMA ResolveQueue ==
  ASSUME TypeOK, BooksSound, DisputesSound, DisputesSound', DisputeQueueExact,
         NEW m \in MarketIds, admin_move_market_to_resolved(m)
  PROVE  DisputeQueueExact'
<1> DEFINE due == DueBlock(markets[m], AuthorizedOutcomeReports[m], Courts[m])
           at == get_auto_resolve(m)
<1>1. OnlyBook(m) /\ Resolution(m, markets'[m], held'[m])
  BY Zenon, ResolveMove
<1>2. /\ AuthorizedOutcomeReports' = ReportsAfterResolution({m})
      /\ UNCHANGED <<MarketIdToCourtId, Courts, GlobalDisputesInfo>>
      /\ MarketIdsPerDisputeBlock' =
           IF markets[m].dispute_mechanism # None /\ markets[m].status = "Disputed" /\ at # None
           THEN remove_item(MarketIdsPerDisputeBlock, at, m)
           ELSE MarketIdsPerDisputeBlock
  BY Zenon DEF admin_move_market_to_resolved, ClearAutoResolve
<1>3. OnlyDispute(m)
  BY Zenon, <1>2 DEF OnlyDispute, ReportsAfterResolution
<1>4. DueBlock(markets'[m], AuthorizedOutcomeReports'[m], Courts'[m]) = None
  BY Zenon, <1>1 DEF DueBlock, Resolution
<1>5. \A n \in MarketIds \ {m}, b \in Blocks :
        MarketIdsPerDisputeBlock'[b][n] = MarketIdsPerDisputeBlock[b][n]
  <2> HIDE DEF at
  <2> QED BY <1>2, RemovedDispute
<1>6. GlobalDisputesInfo[m] = None => DisputeQueued(MarketIdsPerDisputeBlock, due, m)
  BY Zenon, DisputeQueueParts
<1>7. DueBlock(markets[m], AuthorizedOutcomeReports[m], Courts[m]) = AutoResolveBlock(m)
  BY Zenon, DueBlocks DEF DisputesSound
<1>8. ASSUME GlobalDisputesInfo[m] = None
      PROVE  DisputeQueued(MarketIdsPerDisputeBlock', None, m)
  <2>1. CASE markets[m].status # "Disputed"
    <3>1. due = None
      BY Zenon, <2>1 DEF DueBlock
    <3>2. QED
      BY Zenon, <1>2, <1>6, <1>8, <2>1, <3>1
  <2>2. CASE markets[m].status = "Disputed" /\ due = None
    <3>1. DisputeQueued(MarketIdsPerDisputeBlock, None, m)
      BY Zenon, <1>6, <1>8, <2>2
    <3> HIDE DEF at
    <3>2. CASE MarketIdsPerDisputeBlock' = remove_item(MarketIdsPerDisputeBlock, at, m)
      BY Zenon, <3>1, <3>2, NothingToTake
    <3>3. QED
      BY Zenon, <1>2, <3>1, <3>2
  <2>3. CASE markets[m].status = "Disputed" /\ due # None
    <3>1. markets[m].dispute_mechanism # None
      BY Zenon, <1>1, <2>3 DEF BooksSound, Exists, SoundBook, StatusSound, Resolution
    <3>2. at = due
      BY Zenon, <1>7, <2>3 DEF AutoResolveBlock
    <3>3. MarketIdsPerDisputeBlock' = remove_item(MarketIdsPerDisputeBlock, due, m)
      BY Zenon, <1>2, <2>3, <3>1, <3>2
    <3> HIDE DEF due
    <3>4. QED
      BY Zenon, <1>6, <1>8, <3>3, ListedNoMore
  <2>4. QED
    BY Zenon, <2>1, <2>2, <2>3
<1>9. QED
  BY Zenon, <1>1, <1>2, <1>3, <1>4, <1>5, <1>8, OneDisputeQueued

\* Every step keeps the queue of disputes exact.
LEMMA StepDisputeQueue ==
  ASSUME TypeOK, FreshIds, BooksSound, DisputesSound, DisputesSound', DisputeQueueExact, Next
  PROVE  DisputeQueueExact'
<1>1. CASE NewBlock
  <2>1. CASE OnInitializeRollsBack
    <3>1. UNCHANGED <<markets, MarketIdsPerDisputeBlock, AuthorizedOutcomeReports, Courts,
                      GlobalDisputesInfo>>
      BY Zenon, <2>1 DEF OnInitializeRollsBack, marketVars, queueVars, disputeVars
    <3>2. QED
      BY Zenon, <3>1, DisputeQueueParts
  <2>2. QED
    BY Zenon, <1>1, <2>1, HookDisputeQueue DEF NewBlock
<1>2. CASE CreateMarket
  <2>1. PICK m \in MarketIds : CreateMove(m)
    BY Zenon, <1>2, CreateMoves
  <2>2. markets[m] = None
    BY <2>1 DEF CreateMove, FreshIds, MarketIds
  <2>3. QED
    BY Zenon, <2>1, <2>2, QuietDisputeQueue DEF CreateMove, HasStatus
<1>3. ASSUME NEW m \in MarketIds, MarketStep(m)
      PROVE  DisputeQueueExact'
  <2>1. CASE OpenStep(m)
    BY Zenon, <2>1, OpenSteps, QuietDisputeQueue DEF OpenMove, HasStatus
  <2>2. CASE \E who \in Accounts, outcome \in Outcomes : report(m, who, outcome)
    <3>1. PICK who \in Accounts, outcome \in Outcomes : report(m, who, outcome)
      BY Zenon, <2>2
    <3>2. UNCHANGED <<disputeVars, MarketIdsPerDisputeBlock>>
      BY Zenon, <3>1 DEF report, report_market_with_dispute_mechanism, report_and_resolve_market,
                         queueVars
    <3>3. QED
      BY Zenon, <3>1, <3>2, ReportMove, QuietDisputeQueue DEF Advances, HasStatus
  <2>3. CASE \E who \in Accounts : dispute(m, who)
    BY Zenon, <2>3, DisputeQueue
  <2>4. CASE \E outcome \in Outcomes : authorize_market_outcome(m, outcome)
    BY Zenon, <2>4, AuthorizeQueue
  <2>5. CASE \E outcome \in Outcomes : reveal_vote(m, outcome)
    BY Zenon, <2>5, RevealQueue
  <2>6. CASE appeal(m)
    BY Zenon, <2>6, AppealQueue
  <2>7. CASE start_global_dispute(m)
    <3>1. UNCHANGED <<markets, held>>
      BY Zenon, <2>7, GlobalDisputeMarket
    <3> DEFINE vote_end == now + AddOutcomePeriod + GdVotingPeriod
    <3>2. vote_end \in Nat
      BY TypeParts, ClockType, PeriodAssumption
    <3>3. /\ Courts' = [Courts EXCEPT ![m] = None]
          /\ GlobalDisputesInfo' = [GlobalDisputesInfo EXCEPT ![m] = vote_end]
          /\ MarketIdsPerDisputeBlock' = Push(MarketIdsPerDisputeBlock, vote_end, m)
          /\ UNCHANGED <<AuthorizedOutcomeReports, MarketIdToCourtId>>
      BY Zenon, <2>7 DEF start_global_dispute
    <3> HIDE DEF vote_end
    <3>4. GlobalDisputesInfo'[m] # None
      BY Zenon, <3>2, <3>3, NoneAssumption DEF TypeOK
    <3>5. OnlyBook(m) /\ OnlyDispute(m)
      BY Zenon, <3>1, <3>3 DEF OnlyBook, OnlyDispute, TypeOK
    <3>6. \A n \in MarketIds \ {m}, b \in Blocks :
            MarketIdsPerDisputeBlock'[b][n] = MarketIdsPerDisputeBlock[b][n]
      BY <3>3, PushedDispute
    <3>7. QED
      BY Zenon, <3>4, <3>5, <3>6, OneDisputeQueued
  <2>8. CASE admin_move_market_to_resolved(m)
    BY Zenon, <2>8, ResolveQueue
  <2>9. QED
    BY Zenon, <1>3, <2>1, <2>2, <2>3, <2>4, <2>5, <2>6, <2>7, <2>8 DEF MarketStep, OpenStep
<1>4. QED
  BY Zenon, <1>1, <1>2, <1>3 DEF Next

-----------------------------------------------------------------------------
(* The invariant *)

MarketInv == QueueInv /\ BookInv

\* At genesis there is no market, no bond and no dispute.
LEMMA InitInv ==
  ASSUME Init
  PROVE  MarketInv
<1>1. QueueInv
  BY Zenon, QueueInit
<1>2. \A m \in MarketIds : markets[m] = None /\ AuthorizedOutcomeReports[m] = None /\ Courts[m] = None
  BY Zenon DEF Init
<1>3. \A m \in MarketIds, k \in BondKinds : Released(held[m], k)
  BY Zenon, HolderAssumption DEF Init, Released
<1>4. BooksSound
  BY Zenon, <1>2, <1>3 DEF BooksSound, Exists
<1>5. DisputesSound
  BY Zenon, <1>2 DEF DisputesSound, DisputeSound, HasStatus
<1>6. \A m \in MarketIds, b \in Blocks :
        MarketIdsPerReportBlock[b][m] = 0 /\ MarketIdsPerDisputeBlock[b][m] = 0 /\ b # None
  BY Zenon, NoneAssumption, InputAssumption DEF Init, NoIds
<1>7. ReportQueueExact
  BY Zenon, <1>2, <1>6 DEF ReportQueueExact, HasStatus
<1>8. DisputeQueueExact
  BY Zenon, <1>2, <1>6 DEF DisputeQueueExact, AutoResolveBlock, HasStatus, Indicator
<1>9. QED
  BY Zenon, <1>1, <1>4, <1>5, <1>7, <1>8 DEF MarketInv, BookInv

\* Every step preserves it.
LEMMA StepInv ==
  ASSUME MarketInv, [Next]_vars
  PROVE  MarketInv'
<1>1. QueueInv'
  BY Zenon, QueueStep DEF MarketInv
<1>2. CASE Next
  <2>1. TypeOK /\ FreshIds /\ BooksSound /\ DisputesSound /\ ReportQueueExact /\ DisputeQueueExact
    BY Zenon DEF MarketInv, QueueInv, BookInv
  <2>2. BooksSound' /\ DisputesSound'
    BY Zenon, <1>2, <2>1, StepBooks, StepDisputes
  <2>3. ReportQueueExact' /\ DisputeQueueExact'
    BY Zenon, <1>2, <2>1, <2>2, StepReports, StepDisputeQueue
  <2>4. QED
    BY Zenon, <1>1, <2>2, <2>3 DEF MarketInv, BookInv
<1>3. CASE UNCHANGED vars
  <2>1. /\ UNCHANGED <<markets, held, MarketIdsPerReportBlock, MarketIdsPerDisputeBlock>>
        /\ UNCHANGED <<AuthorizedOutcomeReports, MarketIdToCourtId, Courts, GlobalDisputesInfo>>
    BY Zenon, <1>3 DEF vars
  <2>2. BooksSound' /\ DisputesSound'
    BY Zenon, <2>1, SameBooksSound DEF MarketInv, BookInv, DisputesSound, DisputeSound, HasStatus
  <2>3. ReportQueueExact' /\ DisputeQueueExact'
    BY Zenon, <2>1, <2>2, ReportQueueParts, DisputeQueueParts DEF MarketInv, BookInv
  <2>4. QED
    BY Zenon, <1>1, <2>2, <2>3 DEF MarketInv, BookInv
<1>4. QED
  BY Zenon, <1>2, <1>3

\* The books, the disputes and the queues are sound in every reachable state.
LEMMA Invariant == Spec => []MarketInv
<1>1. Init => MarketInv
  BY Zenon, InitInv
<1>2. MarketInv /\ [Next]_vars => MarketInv'
  BY Zenon, StepInv
<1>3. QED
  BY <1>1, <1>2, PTL DEF Spec

-----------------------------------------------------------------------------
(* Safety *)

(* All queues of the hook and the requests for an edit are in step with    *)
(* the markets, whatever extrinsics and hooks run: what is due is listed   *)
(* once, where it is due, and nothing else is.                             *)
THEOREM QueuesCorrect == Spec => []QueuesExact
<1>1. MarketInv => QueuesExact
  BY Zenon DEF MarketInv, QueueInv, BookInv, QueuesExact
<1>2. QED
  BY <1>1, Invariant, PTL

\* The money of the bonds that creation, report and dispute ask for.
LEMMA LifeBonds ==
  ASSUME NEW mk \in MarketRecord, NEW h, SoundBook(mk, h),
         NEW k \in {"creation", "oracle", "outsider", "dispute"}
  PROVE  \/ mk.status # "Resolved" /\ Waiting(mk, h, k)
         \/ Released(h, k)
<1>1. mk.creator \in Accounts /\ mk.status \in Statuses /\ mk.report \in Report \cup {None}
  BY Zenon DEF MarketRecord
<1>2. \A j \in BondKinds : HasBond(mk, j) => mk.bonds[j].who \in Accounts
  BY Zenon DEF MarketRecord, Bond, HasBond
<1>3. \A j \in BondKinds : h[j] \in Accounts \cup {None, Treasury} => Released(h, j)
  BY Zenon, HolderAssumption DEF Released
<1>4. CASE mk.status # "Resolved"
  <2>1. Waiting(mk, h, "creation") \/ h["creation"] \in Accounts
    BY Zenon, <1>1 DEF SoundBook, CreatorBondsSound
  <2>2. Waiting(mk, h, "oracle")
    BY Zenon, <1>4 DEF SoundBook, CreatorBondsSound
  <2>3. Waiting(mk, h, "outsider") \/ h["outsider"] = None
    BY Zenon, <1>4 DEF SoundBook, ReportBondsSound, Absent
  <2>4. Waiting(mk, h, "dispute") \/ h["dispute"] = None
    BY Zenon, <1>4 DEF SoundBook, ReportBondsSound, Absent
  <2>5. QED
    BY Zenon, <1>3, <1>4, <2>1, <2>2, <2>3, <2>4 DEF BondKinds
<1>5. CASE mk.status = "Resolved"
  <2>1. mk.report # None /\ PaidOut(mk, h) /\ ReportBondsSound(mk, h)
    BY Zenon, <1>5 DEF SoundBook, StatusSound
  <2>2. mk.report.by \in Accounts
    BY Zenon, <1>1, <2>1 DEF Report
  <2>3. h["creation"] \in Accounts
    BY Zenon, <1>1, <2>1 DEF PaidOut
  <2>4. /\ h["dispute"] \in Accounts \cup {None, Treasury}
        /\ h["oracle"] \in Accounts
        /\ mk.report.by # mk.oracle => h["outsider"] \in Accounts
    <3>1. CASE mk.resolved_outcome # mk.report.outcome
      <4>1. mk.bonds["dispute"].who \in Accounts
        BY Zenon, <1>2, <2>1, <3>1 DEF PaidOut, BondKinds
      <4>2. QED
        BY Zenon, <2>1, <3>1, <4>1 DEF PaidOut
    <3>2. CASE mk.resolved_outcome = mk.report.outcome
      BY Zenon, <1>1, <2>1, <2>2, <3>2 DEF PaidOut
    <3>3. QED
      BY Zenon, <3>1, <3>2
  <2>5. mk.report.by = mk.oracle => h["outsider"] = None
    BY Zenon, <2>1 DEF ReportBondsSound, Absent
  <2>6. QED
    BY Zenon, <1>3, <2>3, <2>4, <2>5 DEF BondKinds
<1>6. QED
  BY Zenon, <1>4, <1>5

\* The money of the bonds of an early close.
LEMMA EarlyCloseBonds ==
  ASSUME NEW mk \in MarketRecord, NEW h, SoundBook(mk, h)
  PROVE  /\ IF mk.status = "Active" /\ mk.early_close # None
              /\ mk.early_close.state \in {"ScheduledAsMarketCreator", "Disputed"}
            THEN Waiting(mk, h, "close_request") ELSE Released(h, "close_request")
         /\ IF mk.status = "Active" /\ mk.early_close # None /\ mk.early_close.state \in {"Disputed"}
            THEN Waiting(mk, h, "close_dispute") ELSE Released(h, "close_dispute")
<1>1. /\ EarlyCloseBondsSound(mk, h)
      /\ mk.status = "Proposed" => mk.early_close = None
      /\ mk.early_close # None => mk.early_close.state \in EarlyCloseStates
  BY Zenon DEF SoundBook, StatusSound, MarketRecord, EarlyClose
<1>2. \A k \in BondKinds : Absent(mk, h, k) => Released(h, k)
  BY Zenon, HolderAssumption DEF Absent, Released
<1>3. "close_request" \in BondKinds /\ "close_dispute" \in BondKinds
  BY Zenon DEF BondKinds
<1>4. CASE mk.status = "Active" /\ mk.early_close # None
  <2>1. CASE mk.early_close.state = "ScheduledAsMarketCreator"
    BY Zenon, <1>1, <1>2, <1>3, <1>4, <2>1 DEF EarlyCloseBondsSound
  <2>2. CASE mk.early_close.state = "Disputed"
    BY Zenon, <1>1, <1>4, <2>2 DEF EarlyCloseBondsSound
  <2>3. CASE mk.early_close.state \in {"ScheduledAsOther", "Rejected"}
    BY Zenon, <1>1, <1>4, <2>3 DEF EarlyCloseBondsSound
  <2>4. QED
    BY Zenon, <1>1, <1>4, <2>1, <2>2, <2>3 DEF EarlyCloseStates
<1>5. CASE ~(mk.status = "Active" /\ mk.early_close # None)
  BY Zenon, <1>1, <1>2, <1>3, <1>5 DEF EarlyCloseBondsSound
<1>6. QED
  BY Zenon, <1>4, <1>5

(* No bond is paid twice or overwritten, none stays in the reserve without *)
(* a market that knows it, and those of an early close are there exactly   *)
(* as long as it is undecided.                                             *)
THEOREM ReservesCorrect == Spec => []ReservesMatchState
<1>1. ASSUME TypeOK, BooksSound, NEW m \in MarketIds, NEW k \in BondKinds
      PROVE  /\ held[m][k] \notin {"overdrawn", "lost"}
             /\ held[m][k] = "reserved" =>
                  Exists(m) /\ ~HasStatus(m, "Resolved") /\ IsPending(markets[m], k)
  <2>1. CASE ~Exists(m)
    BY Zenon, <1>1, <2>1 DEF BooksSound, Released
  <2>2. CASE Exists(m)
    <3>1. markets[m] \in MarketRecord /\ SoundBook(markets[m], held[m])
      BY Zenon, <1>1, <2>2 DEF BooksSound, TypeOK, Exists
    <3>2. CASE k \in {"creation", "oracle", "outsider", "dispute"}
      BY Zenon, <2>2, <3>1, <3>2, LifeBonds DEF Waiting, Released, HasStatus
    <3>3. CASE k \in {"close_request", "close_dispute"}
      BY Zenon, <2>2, <3>1, <3>3, EarlyCloseBonds DEF Waiting, Released, HasStatus
    <3>4. QED
      BY Zenon, <1>1, <3>2, <3>3 DEF BondKinds
  <2>3. QED
    BY Zenon, <2>1, <2>2
<1>2. ASSUME TypeOK, BooksSound, NEW m \in MarketIds
      PROVE  /\ held[m]["close_request"] = "reserved" <=>
                  /\ HasStatus(m, "Active") /\ markets[m].early_close # None
                  /\ markets[m].early_close.state \in {"ScheduledAsMarketCreator", "Disputed"}
             /\ held[m]["close_dispute"] = "reserved" <=>
                  /\ HasStatus(m, "Active") /\ markets[m].early_close # None
                  /\ markets[m].early_close.state \in {"Disputed"}
  <2>1. CASE ~Exists(m)
    <3>1. Released(held[m], "close_request") /\ Released(held[m], "close_dispute")
      BY Zenon, <1>2, <2>1 DEF BooksSound, BondKinds
    <3>2. ~HasStatus(m, "Active")
      BY Zenon, <2>1 DEF Exists, HasStatus
    <3>3. QED
      BY Zenon, <3>1, <3>2 DEF Released
  <2>2. CASE Exists(m)
    <3>1. markets[m] \in MarketRecord /\ SoundBook(markets[m], held[m])
      BY Zenon, <1>2, <2>2 DEF BooksSound, TypeOK, Exists
    <3>2. HasStatus(m, "Active") <=> markets[m].status = "Active"
      BY Zenon, <2>2 DEF Exists, HasStatus
    <3>3. QED
      BY Zenon, <3>1, <3>2, EarlyCloseBonds DEF Waiting, Released
  <2>3. QED
    BY Zenon, <2>1, <2>2
<1>3. MarketInv => TypeOK /\ BooksSound
  BY Zenon DEF MarketInv, QueueInv, BookInv
<1>4. MarketInv => ReserveSound /\ NoBondLeftBehind
  BY Zenon, <1>1, <1>3 DEF ReserveSound, NoBondLeftBehind
<1>5. MarketInv => EarlyCloseBondsMatchState
  BY Zenon, <1>2, <1>3 DEF EarlyCloseBondsMatchState
<1>6. QED
  BY <1>4, <1>5, Invariant, PTL DEF ReservesMatchState

(* When a market is resolved everybody has been paid what the report, the  *)
(* dispute and the outcome say.                                            *)
THEOREM BondsCorrect == Spec => []BondsGoWhereDue
<1>1. BooksSound => BondsGoWhereDue
  <2>1. ASSUME BooksSound, NEW m \in MarketIds, HasStatus(m, "Resolved")
        PROVE  PaidOut(markets[m], held[m])
    BY Zenon, <2>1 DEF BooksSound, Exists, SoundBook, HasStatus
  <2>2. QED
    BY Zenon, <2>1 DEF BondsGoWhereDue, PaidOut
<1>2. MarketInv => BondsGoWhereDue
  BY Zenon, <1>1 DEF MarketInv, BookInv
<1>3. QED
  BY <1>2, Invariant, PTL

(* No sequence of requests, disputes and decisions makes an early close    *)
(* end later than the market would have ended.                             *)
THEOREM EarlyCloseCorrect == Spec => []EarlyCloseNeverExtends
<1>1. BooksSound => EarlyCloseNeverExtends
  BY Zenon DEF BooksSound, Exists, SoundBook, PeriodSound, EarlyCloseNeverExtends, HasStatus
<1>2. MarketInv => EarlyCloseNeverExtends
  BY Zenon, <1>1 DEF MarketInv, BookInv
<1>3. QED
  BY <1>2, Invariant, PTL

-----------------------------------------------------------------------------
(* Rolled back blocks *)

\* What an entry of the close queues says.
LEMMA CloseEntry ==
  ASSUME CloseQueueExact, NEW m \in MarketIds, NEW s \in CloseSlots
  PROVE  /\ MarketIdsPerClose[s][m] \in {0, 1}
         /\ MarketIdsPerClose[s][m] > 0 <=> IsOpen(m) /\ s = CloseSlot(markets[m].period)
         /\ MarketIdsPerClose[s][m] = 1 <=> IsOpen(m) /\ s = CloseSlot(markets[m].period)
<1>1. MarketIdsPerClose[s][m]
        = Indicator(IF IsOpen(m) THEN s = CloseSlot(markets[m].period) ELSE FALSE)
  BY Zenon DEF CloseQueueExact
<1>2. CASE IsOpen(m) /\ s = CloseSlot(markets[m].period)
  <2>1. MarketIdsPerClose[s][m] = 1
    BY Zenon, <1>1, <1>2 DEF Indicator
  <2>2. QED
    BY <1>2, <2>1
<1>3. CASE ~(IsOpen(m) /\ s = CloseSlot(markets[m].period))
  <2>1. MarketIdsPerClose[s][m] = 0
    BY Zenon, <1>1, <1>3 DEF Indicator
  <2>2. QED
    BY <1>3, <2>1
<1>4. QED
  BY Zenon, <1>2, <1>3

\* The markets that are due to close are open, and listed once.
LEMMA ClosingWorks ==
  ASSUME TypeOK, CloseQueueExact, BooksSound
  PROVE  ClosingSucceeds
<1> SUFFICES ASSUME NEW m \in Closing
             PROVE  /\ IsOpen(m)
                    /\ HasStatus(m, "Proposed") =>
                         HasBond(markets[m], "creation") /\ HasBond(markets[m], "oracle")
                    /\ \A s, t \in DueSlots \cap CloseSlots :
                         /\ MarketIdsPerClose[s][m] <= 1
                         /\ MarketIdsPerClose[s][m] = 1 /\ MarketIdsPerClose[t][m] = 1 => s = t
  BY Zenon DEF ClosingSucceeds, IsOpen
<1>1. m \in MarketIds
  BY Zenon DEF Closing
<1>2. DOMAIN MarketIdsPerClose = CloseSlots
  BY Zenon DEF TypeOK
<1>3. PICK s \in CloseSlots : MarketIdsPerClose[s][m] > 0
  BY Zenon, <1>2 DEF Closing, IsListed
<1>4. IsOpen(m)
  BY Zenon, <1>1, <1>3, CloseEntry
<1>5. HasBond(markets[m], "creation") /\ HasBond(markets[m], "oracle")
  <2>1. markets[m] # None
    BY Zenon, <1>4 DEF IsOpen, HasStatus
  <2>2. SoundBook(markets[m], held[m])
    BY Zenon, <1>1, <2>1 DEF BooksSound, Exists
  <2>3. QED
    BY Zenon, <2>2 DEF SoundBook, CreatorBondsSound
<1>6. \A x \in CloseSlots : MarketIdsPerClose[x][m] <= 1
  <2> SUFFICES ASSUME NEW x \in CloseSlots PROVE MarketIdsPerClose[x][m] <= 1
    OBVIOUS
  <2>1. MarketIdsPerClose[x][m] \in {0, 1}
    BY Zenon, <1>1, CloseEntry
  <2>2. QED
    BY <2>1
<1>7. \A x, y \in CloseSlots :
        MarketIdsPerClose[x][m] = 1 /\ MarketIdsPerClose[y][m] = 1 => x = y
  <2>1. \A x \in CloseSlots : MarketIdsPerClose[x][m] = 1 => x = CloseSlot(markets[m].period)
    BY Zenon, <1>1, CloseEntry
  <2>2. QED
    BY Zenon, <2>1
<1>8. QED
  BY Zenon, <1>4, <1>5, <1>6, <1>7

\* A market that is due by its report, and still Reported, can be resolved.
LEMMA DueReportWorks ==
  ASSUME TypeOK, ReportQueueExact, BooksSound, now + 1 \in Blocks, NEW m \in DueReports
  PROVE  markets[m] # None /\ (HasStatus(m, "Reported") => ResolutionSucceeds(m))
<1>1. m \in MarketIds /\ MarketIdsPerReportBlock[now + 1][m] > 0
  BY Zenon DEF DueReports
<1>2. MarketIdsPerReportBlock[now + 1][m] # 0
  BY <1>1
<1>3. markets[m] # None /\ markets[m].report # None
  BY Zenon, <1>1, <1>2 DEF ReportQueueExact, Exists
<1>4. SoundBook(markets[m], held[m])
  BY Zenon, <1>1, <1>3 DEF BooksSound, Exists
<1>5. HasBond(markets[m], "creation") /\ HasBond(markets[m], "oracle")
  BY Zenon, <1>4 DEF SoundBook, CreatorBondsSound
<1>6. QED
  BY Zenon, <1>3, <1>5 DEF ResolutionSucceeds, HasStatus

\* A market that is due by its dispute mechanism can be resolved, and is listed once.
LEMMA DueDisputeWorks ==
  ASSUME TypeOK, DisputeQueueExact, BooksSound, DisputesSound, now + 1 \in Blocks,
         NEW m \in DueDisputes, GlobalDisputesInfo[m] = None
  PROVE  /\ ResolutionSucceeds(m) /\ HasStatus(m, "Disputed")
         /\ MarketIdsPerDisputeBlock[now + 1][m] = 1
<1>1. m \in MarketIds /\ MarketIdsPerDisputeBlock[now + 1][m] > 0
  BY Zenon DEF DueDisputes
<1>2. MarketIdsPerDisputeBlock[now + 1][m] # 0
  BY <1>1
<1>3. MarketIdsPerDisputeBlock[now + 1][m] = Indicator(now + 1 = AutoResolveBlock(m))
  BY Zenon, <1>1 DEF DisputeQueueExact
<1>4. now + 1 = AutoResolveBlock(m) /\ MarketIdsPerDisputeBlock[now + 1][m] = 1
  BY Zenon, <1>2, <1>3 DEF Indicator
<1>5. now + 1 # None
  BY Zenon, NoneAssumption, InputAssumption
<1>6. HasStatus(m, "Disputed") /\ get_auto_resolve(m) # None
  BY Zenon, <1>4, <1>5 DEF AutoResolveBlock
<1>7. \/ markets[m].dispute_mechanism = "Authorized"
      \/ markets[m].dispute_mechanism = "Court" /\ m \in MarketIdToCourtId /\ Courts[m] # None
  <2>1. markets[m].dispute_mechanism \in {None, "Authorized", "Court"}
    BY Zenon, <1>1, <1>6 DEF TypeOK, HasStatus, MarketRecord
  <2>2. markets[m].dispute_mechanism # None
    BY Zenon, <1>1, <1>6 DEF BooksSound, Exists, HasStatus, SoundBook, StatusSound
  <2>3. markets[m].dispute_mechanism = "Court" => m \in MarketIdToCourtId /\ Courts[m] # None
    BY Zenon, <1>1, <1>6 DEF DisputesSound, DisputeSound
  <2>4. QED
    BY Zenon, <2>1, <2>2, <2>3
<1>8. /\ markets[m] # None /\ markets[m].report # None
      /\ HasBond(markets[m], "creation") /\ HasBond(markets[m], "oracle")
  BY Zenon, <1>1, <1>6 DEF BooksSound, Exists, HasStatus, SoundBook, StatusSound, CreatorBondsSound
<1>9. QED
  BY Zenon, <1>4, <1>6, <1>7, <1>8 DEF ResolutionSucceeds, HasStatus

\* No market makes the hook of a block fail, unless a global dispute has taken its court away.
LEMMA HookWorks ==
  ASSUME MarketInv, now + 1 \in Blocks, \A m \in DueDisputes : GlobalDisputesInfo[m] = None
  PROVE  ClosingSucceeds /\ ResolvingSucceeds
<1>1. /\ TypeOK /\ CloseQueueExact
      /\ BooksSound /\ DisputesSound /\ ReportQueueExact /\ DisputeQueueExact
  BY Zenon DEF MarketInv, QueueInv, BookInv
<1>2. ClosingSucceeds
  BY Zenon, <1>1, ClosingWorks
<1>3. \A m \in DueReports :
        markets[m] # None /\ (HasStatus(m, "Reported") => ResolutionSucceeds(m))
  BY Zenon, <1>1, DueReportWorks
<1>4. \A m \in DueDisputes :
        /\ ResolutionSucceeds(m) /\ HasStatus(m, "Disputed")
        /\ MarketIdsPerDisputeBlock[now + 1][m] = 1
  BY Zenon, <1>1, DueDisputeWorks
<1>5. \A m \in Resolving : ResolutionSucceeds(m)
  BY Zenon, <1>3, <1>4 DEF Resolving
<1>6. \A m \in DueDisputes : ~HasStatus(m, "Reported")
  <2> SUFFICES ASSUME NEW m \in DueDisputes PROVE ~HasStatus(m, "Reported")
    OBVIOUS
  <2>1. HasStatus(m, "Disputed")
    BY Zenon, <1>4
  <2>2. QED
    BY Zenon, <2>1 DEF HasStatus
<1>7. QED
  BY Zenon, <1>2, <1>3, <1>4, <1>5, <1>6 DEF ResolvingSucceeds

-----------------------------------------------------------------------------
(* The life of a market *)

(* The outcome reported for, and the outcome of, a market or no market.    *)
ReportOf(mk) == IF mk # None /\ mk.report # None THEN mk.report.outcome ELSE None
ResultOf(mk) == IF mk # None THEN mk.resolved_outcome ELSE None

(* Market m goes from one status of its life to another.                   *)
Goes(m, from, to) == LifecycleStatus(m) = from /\ LifecycleStatus(m)' = to

SameOutcomes(m) ==
  /\ ReportOf(markets'[m]) = ReportOf(markets[m])
  /\ ResultOf(markets'[m]) = ResultOf(markets[m])

\* The steps of MarketLifecycle in terms of the markets.
LEMMA LifeSteps ==
  ASSUME NEW m \in MarketIds
  PROVE  /\ /\ SameOutcomes(m)
            /\ \/ Goes(m, "NotCreated", "Proposed") \/ Goes(m, "NotCreated", "Active")
               \/ Goes(m, "Proposed", "Active") \/ Goes(m, "Proposed", "Destroyed")
               \/ Goes(m, "Active", "Closed") \/ Goes(m, "Reported", "Disputed")
            => Lifecycle(m)!Next
         /\ /\ Goes(m, "Closed", "Reported") /\ ReportOf(markets'[m]) \in Outcomes
            /\ ResultOf(markets'[m]) = ResultOf(markets[m])
            => Lifecycle(m)!Next
         /\ /\ Goes(m, "Closed", "Resolved") /\ ReportOf(markets'[m]) \in Outcomes
            /\ ResultOf(markets'[m]) = ReportOf(markets'[m])
            => Lifecycle(m)!Next
         /\ /\ Goes(m, "Reported", "Resolved") /\ ReportOf(markets'[m]) = ReportOf(markets[m])
            /\ ResultOf(markets'[m]) = ReportOf(markets[m])
            => Lifecycle(m)!Next
         /\ /\ Goes(m, "Disputed", "Resolved") /\ ReportOf(markets'[m]) = ReportOf(markets[m])
            /\ ResultOf(markets'[m]) \in Outcomes
            => Lifecycle(m)!Next
         /\ SameOutcomes(m) /\ LifecycleStatus(m)' = LifecycleStatus(m)
            => UNCHANGED Lifecycle(m)!lifecycle
<1>1. /\ SameOutcomes(m)
      /\ \/ Goes(m, "NotCreated", "Proposed") \/ Goes(m, "NotCreated", "Active")
         \/ Goes(m, "Proposed", "Active") \/ Goes(m, "Proposed", "Destroyed")
         \/ Goes(m, "Active", "Closed") \/ Goes(m, "Reported", "Disputed")
      => Lifecycle(m)!Next
  BY Zenon DEF SameOutcomes, Goes, ReportOf, ResultOf, Exists, Lifecycle!Next, Lifecycle!Move,
       Lifecycle!Create, Lifecycle!Approve, Lifecycle!Destroy, Lifecycle!Close, Lifecycle!Dispute
<1>2. /\ Goes(m, "Closed", "Reported") /\ ReportOf(markets'[m]) \in Outcomes
      /\ ResultOf(markets'[m]) = ResultOf(markets[m])
      => Lifecycle(m)!Next
  BY Zenon DEF Goes, ReportOf, ResultOf, Exists, Lifecycle!Next, Lifecycle!Move, Lifecycle!Report
<1>3. /\ Goes(m, "Closed", "Resolved") /\ ReportOf(markets'[m]) \in Outcomes
      /\ ResultOf(markets'[m]) = ReportOf(markets'[m])
      => Lifecycle(m)!Next
  BY Zenon DEF Goes, ReportOf, ResultOf, Exists, Lifecycle!Next, Lifecycle!Move,
       Lifecycle!ReportTrusted
<1>4. /\ Goes(m, "Reported", "Resolved") /\ ReportOf(markets'[m]) = ReportOf(markets[m])
      /\ ResultOf(markets'[m]) = ReportOf(markets[m])
      => Lifecycle(m)!Next
  BY Zenon DEF Goes, ReportOf, ResultOf, Exists, Lifecycle!Next, Lifecycle!Move,
       Lifecycle!ResolveReported
<1>5. /\ Goes(m, "Disputed", "Resolved") /\ ReportOf(markets'[m]) = ReportOf(markets[m])
      /\ ResultOf(markets'[m]) \in Outcomes
      => Lifecycle(m)!Next
  BY Zenon DEF Goes, ReportOf, ResultOf, Exists, Lifecycle!Next, Lifecycle!Move,
       Lifecycle!ResolveDisputed
<1>6. SameOutcomes(m) /\ LifecycleStatus(m)' = LifecycleStatus(m)
      => UNCHANGED Lifecycle(m)!lifecycle
  BY Zenon DEF SameOutcomes, ReportOf, ResultOf, Exists, Lifecycle!lifecycle
<1>7. QED
  BY Zenon, <1>1, <1>2, <1>3, <1>4, <1>5, <1>6

(* A step of the life of market m, or none.                                *)
Lives(m) == [Lifecycle(m)!Next]_(Lifecycle(m)!lifecycle)

\* A market that does not change, and whose id is not taken, lives on.
LEMMA SameLife ==
  ASSUME NEW m \in MarketIds, markets'[m] = markets[m],
         m < MarketCounter' <=> m < MarketCounter
  PROVE  Lives(m)
<1>1. SameOutcomes(m) /\ LifecycleStatus(m)' = LifecycleStatus(m)
  BY Zenon DEF SameOutcomes, LifecycleStatus, Exists
<1>2. QED
  BY Zenon, <1>1, LifeSteps DEF Lives

\* Before the report there is no outcome.
LEMMA NoOutcomes ==
  ASSUME NEW mk, NEW h, SoundBook(mk, h)
  PROVE  /\ mk.status \in {"Proposed", "Active", "Closed"} => ReportOf(mk) = None
         /\ mk # None /\ mk.status # "Resolved" => ResultOf(mk) = None
  BY Zenon DEF SoundBook, StatusSound, ReportOf, ResultOf

\* A proposed market that is removed is destroyed for good.
LEMMA RemovedLives ==
  ASSUME TypeOK, FreshIds, BooksSound, NEW m \in MarketIds, markets[m] # None,
         markets[m].status = "Proposed", markets'[m] = None, MarketCounter' = MarketCounter
  PROVE  Lives(m)
<1>1. SoundBook(markets[m], held[m])
  BY Zenon DEF BooksSound, Exists
<1>2. ReportOf(markets[m]) = None /\ ResultOf(markets[m]) = None
  BY Zenon, <1>1, NoOutcomes
<1>3. m < MarketCounter
  <2>1. ~(m >= MarketCounter)
    BY Zenon DEF FreshIds
  <2>2. m \in Int /\ MarketCounter \in Int
    BY TypeParts, InputAssumption DEF IdsOK, MarketIds
  <2>3. QED
    BY <2>1, <2>2
<1>4. Goes(m, "Proposed", "Destroyed")
  BY Zenon, <1>3 DEF Goes, LifecycleStatus, Exists
<1>5. SameOutcomes(m)
  BY Zenon, <1>2 DEF SameOutcomes, ReportOf, ResultOf
<1>6. QED
  BY Zenon, <1>4, <1>5, LifeSteps DEF Lives

\* Calls on markets that are not reported yet.
LEMMA OpenLives ==
  ASSUME TypeOK, FreshIds, BooksSound, NEW m \in MarketIds, OpenMove(m)
  PROVE  Lives(m)
<1>1. /\ markets[m] # None /\ markets[m].status \in {"Proposed", "Active", "Closed"}
      /\ MarketCounter' = MarketCounter
  BY Zenon DEF OpenMove
<1>2. SoundBook(markets[m], held[m])
  BY Zenon, <1>1 DEF BooksSound, Exists
<1>3. ReportOf(markets[m]) = None /\ ResultOf(markets[m]) = None
  BY Zenon, <1>1, <1>2, NoOutcomes
<1>4. LifecycleStatus(m) = markets[m].status
  BY Zenon, <1>1 DEF LifecycleStatus, Exists
<1>5. CASE markets[m].status = "Proposed" /\ markets'[m] = None
  BY Zenon, <1>1, <1>5, RemovedLives
<1>6. CASE markets'[m] # None /\ SoundBook(markets'[m], held'[m])
  <2>1. LifecycleStatus(m)' = markets'[m].status
    BY Zenon, <1>6 DEF LifecycleStatus, Exists
  <2>2. \/ markets'[m].status = markets[m].status
        \/ markets[m].status = "Proposed" /\ markets'[m].status = "Active"
        \/ markets[m].status = "Active" /\ markets'[m].status = "Closed"
    BY Zenon, <1>6 DEF OpenMove
  <2>3. markets'[m].status \in {"Proposed", "Active", "Closed"}
    BY Zenon, <1>1, <2>2
  <2>4. ReportOf(markets'[m]) = None /\ ResultOf(markets'[m]) = None
    BY Zenon, <1>6, <2>3, NoOutcomes
  <2>5. SameOutcomes(m)
    BY Zenon, <1>3, <2>4 DEF SameOutcomes
  <2>6. \/ LifecycleStatus(m)' = LifecycleStatus(m)
        \/ Goes(m, "Proposed", "Active") \/ Goes(m, "Active", "Closed")
    BY Zenon, <1>4, <2>1, <2>2 DEF Goes
  <2>7. QED
    BY Zenon, <2>5, <2>6, LifeSteps DEF Lives
<1>7. QED
  BY Zenon, <1>5, <1>6 DEF OpenMove

\* Resolving a reported or disputed market.
LEMMA ResolutionLives ==
  ASSUME BooksSound, NEW m \in MarketIds, Resolution(m, markets'[m], held'[m])
  PROVE  Lives(m)
<1>1. /\ markets[m] # None /\ markets[m].status \in {"Reported", "Disputed"}
      /\ markets'[m] \in MarketRecord /\ markets'[m].status = "Resolved"
      /\ markets'[m].report = markets[m].report /\ markets'[m].resolved_outcome \in Outcomes
      /\ markets[m].status = "Reported" =>
           markets'[m].resolved_outcome = markets'[m].report.outcome
  BY Zenon DEF Resolution
<1>2. markets'[m] # None
  BY Zenon, <1>1, NoneAssumption
<1>3. markets[m].report # None
  BY Zenon, <1>1 DEF BooksSound, Exists, SoundBook, StatusSound
<1>4. /\ ReportOf(markets'[m]) = ReportOf(markets[m])
      /\ ResultOf(markets'[m]) = markets'[m].resolved_outcome
      /\ ReportOf(markets[m]) = markets'[m].report.outcome
  BY Zenon, <1>1, <1>2, <1>3 DEF ReportOf, ResultOf
<1>5. Goes(m, "Reported", "Resolved") \/ Goes(m, "Disputed", "Resolved")
  BY Zenon, <1>1, <1>2 DEF Goes, LifecycleStatus, Exists
<1>6. CASE Goes(m, "Reported", "Resolved")
  <2>1. markets[m].status = "Reported"
    BY Zenon, <1>1, <1>6 DEF Goes, LifecycleStatus, Exists
  <2>2. QED
    BY Zenon, <1>1, <1>4, <1>6, <2>1, LifeSteps DEF Lives
<1>7. CASE Goes(m, "Disputed", "Resolved")
  BY Zenon, <1>1, <1>4, <1>7, LifeSteps DEF Lives
<1>8. QED
  BY Zenon, <1>5, <1>6, <1>7

\* A market is reported, and a trusted one resolved with it.
LEMMA ReportLives ==
  ASSUME TypeOK, BooksSound, NEW m \in MarketIds, NEW who \in Accounts, NEW outcome \in Outcomes,
         report(m, who, outcome)
  PROVE  Lives(m)
<1>1. /\ markets'[m].report.outcome = outcome
      /\ \/ Advances(m, "Closed", "Reported")
         \/ Advances(m, "Closed", "Resolved") /\ markets'[m].resolved_outcome = outcome
  BY Zenon, ReportMove
<1>2. /\ markets[m] # None /\ markets[m].status = "Closed" /\ markets'[m] # None
      /\ SoundBook(markets'[m], held'[m]) /\ markets'[m].status \in {"Reported", "Resolved"}
  BY Zenon, <1>1 DEF Advances, HasStatus
<1>3. SoundBook(markets[m], held[m])
  BY Zenon, <1>2 DEF BooksSound, Exists
<1>4. ResultOf(markets[m]) = None
  BY Zenon, <1>2, <1>3, NoOutcomes
<1>5. markets'[m].report # None
  BY Zenon, <1>2 DEF SoundBook, StatusSound
<1>6. ReportOf(markets'[m]) = outcome
  BY Zenon, <1>1, <1>2, <1>5 DEF ReportOf
<1>7. LifecycleStatus(m) = "Closed" /\ LifecycleStatus(m)' = markets'[m].status
  BY Zenon, <1>2 DEF LifecycleStatus, Exists
<1>8. CASE Advances(m, "Closed", "Reported")
  <2>1. Goes(m, "Closed", "Reported")
    BY Zenon, <1>7, <1>8 DEF Goes, Advances
  <2>2. ResultOf(markets'[m]) = None
    BY Zenon, <1>2, <1>8, NoOutcomes DEF Advances
  <2>3. QED
    BY Zenon, <1>4, <1>6, <2>1, <2>2, LifeSteps DEF Lives
<1>9. CASE Advances(m, "Closed", "Resolved") /\ markets'[m].resolved_outcome = outcome
  <2>1. Goes(m, "Closed", "Resolved")
    BY Zenon, <1>7, <1>9 DEF Goes, Advances
  <2>2. ResultOf(markets'[m]) = outcome
    BY Zenon, <1>2, <1>9 DEF ResultOf
  <2>3. QED
    BY Zenon, <1>6, <2>1, <2>2, LifeSteps DEF Lives
<1>10. QED
  BY Zenon, <1>1, <1>8, <1>9

\* A dispute keeps the report.
LEMMA DisputeLives ==
  ASSUME TypeOK, BooksSound, NEW m \in MarketIds, NEW who \in Accounts, dispute(m, who)
  PROVE  Lives(m)
<1>1. Advances(m, "Reported", "Disputed") /\ markets'[m].report = markets[m].report
  BY Zenon, DisputeMove
<1>2. /\ markets[m] # None /\ markets[m].status = "Reported" /\ markets'[m] # None
      /\ SoundBook(markets'[m], held'[m]) /\ markets'[m].status = "Disputed"
  BY Zenon, <1>1 DEF Advances, HasStatus
<1>3. SoundBook(markets[m], held[m])
  BY Zenon, <1>2 DEF BooksSound, Exists
<1>4. ResultOf(markets[m]) = None /\ ResultOf(markets'[m]) = None
  BY Zenon, <1>2, <1>3, NoOutcomes
<1>5. SameOutcomes(m)
  BY Zenon, <1>1, <1>2, <1>4 DEF SameOutcomes, ReportOf
<1>6. Goes(m, "Reported", "Disputed")
  BY Zenon, <1>2 DEF Goes, LifecycleStatus, Exists
<1>7. QED
  BY Zenon, <1>5, <1>6, LifeSteps DEF Lives

\* The hook closes, removes or resolves a market, or leaves it.
LEMMA HookLives ==
  ASSUME TypeOK, FreshIds, BooksSound, OnInitializeCommits, NEW m \in MarketIds
  PROVE  Lives(m)
<1>1. HookMove(m) /\ MarketCounter' = MarketCounter
  BY Zenon, HookMoves DEF OnInitializeCommits
<1>2. CASE markets'[m] = markets[m]
  BY Zenon, <1>1, <1>2, SameLife
<1>3. CASE Resolution(m, markets'[m], held'[m])
  BY Zenon, <1>3, ResolutionLives
<1>4. CASE HasStatus(m, "Proposed") /\ markets'[m] = None
  <2>1. markets[m] # None /\ markets[m].status = "Proposed"
    BY Zenon, <1>4 DEF HasStatus
  <2>2. QED
    BY Zenon, <1>1, <1>4, <2>1, RemovedLives
<1>5. CASE /\ HasStatus(m, "Active") /\ markets'[m] # None /\ markets'[m].status = "Closed"
           /\ SoundBook(markets'[m], held'[m])
  <2>1. markets[m] # None /\ markets[m].status = "Active"
    BY Zenon, <1>5 DEF HasStatus
  <2>2. SoundBook(markets[m], held[m])
    BY Zenon, <2>1 DEF BooksSound, Exists
  <2>3. SameOutcomes(m)
    BY Zenon, <1>5, <2>1, <2>2, NoOutcomes DEF SameOutcomes
  <2>4. Goes(m, "Active", "Closed")
    BY Zenon, <1>5, <2>1 DEF Goes, LifecycleStatus, Exists
  <2>5. QED
    BY Zenon, <2>3, <2>4, LifeSteps DEF Lives
<1>6. QED
  BY Zenon, <1>1, <1>2, <1>3, <1>4, <1>5 DEF HookMove

\* create_market takes the next id.
LEMMA CreateLives ==
  ASSUME TypeOK, FreshIds, BooksSound, NEW m \in MarketIds, CreateMove(m), NEW n \in MarketIds
  PROVE  Lives(n)
<1>1. /\ m = MarketCounter /\ MarketCounter' = m + 1 /\ OnlyBook(m)
      /\ markets'[m] # None /\ SoundBook(markets'[m], held'[m])
      /\ markets'[m].status \in {"Active", "Proposed"}
  BY Zenon DEF CreateMove
<1>2. m \in Int /\ n \in Int
  BY InputAssumption DEF MarketIds
<1>3. CASE n # m
  <2>1. n < MarketCounter' <=> n < MarketCounter
    BY <1>1, <1>2, <1>3
  <2>2. markets'[n] = markets[n]
    BY Zenon, <1>1, <1>3 DEF OnlyBook
  <2>3. QED
    BY Zenon, <2>1, <2>2, SameLife
<1>4. CASE n = m
  <2>1. m >= MarketCounter /\ ~(m < MarketCounter)
    BY <1>1, <1>2
  <2>2. markets[m] = None
    BY Zenon, <2>1 DEF FreshIds
  <2>3. LifecycleStatus(m) = "NotCreated" /\ LifecycleStatus(m)' = markets'[m].status
    BY Zenon, <1>1, <2>1, <2>2 DEF LifecycleStatus, Exists
  <2>4. ReportOf(markets'[m]) = None /\ ResultOf(markets'[m]) = None
    BY Zenon, <1>1, NoOutcomes
  <2>5. SameOutcomes(m)
    BY Zenon, <2>2, <2>4 DEF SameOutcomes, ReportOf, ResultOf
  <2>6. Goes(m, "NotCreated", "Proposed") \/ Goes(m, "NotCreated", "Active")
    BY Zenon, <1>1, <2>3 DEF Goes
  <2>7. QED
    BY Zenon, <1>4, <2>5, <2>6, LifeSteps DEF Lives
<1>5. QED
  BY Zenon, <1>3, <1>4

\* Every step is a step, or none, in the life of every market.
LEMMA StepLives ==
  ASSUME MarketInv, Next, NEW n \in MarketIds
  PROVE  Lives(n)
<1>1. TypeOK /\ FreshIds /\ BooksSound /\ DisputesSound
  BY Zenon DEF MarketInv, QueueInv, BookInv
<1>2. CASE NewBlock
  <2>1. OnInitializeRollsBack => markets'[n] = markets[n] /\ MarketCounter' = MarketCounter
    BY Zenon DEF OnInitializeRollsBack, marketVars, idVars
  <2>2. QED
    BY Zenon, <1>1, <1>2, <2>1, HookLives, SameLife DEF NewBlock
<1>3. CASE CreateMarket
  <2>1. PICK m \in MarketIds : CreateMove(m)
    BY Zenon, <1>1, <1>3, CreateMoves
  <2>2. QED
    BY Zenon, <1>1, <2>1, CreateLives
<1>4. ASSUME NEW m \in MarketIds, OnlyBook(m), MarketCounter' = MarketCounter, Lives(m)
      PROVE  Lives(n)
  <2>1. CASE n # m
    <3>1. markets'[n] = markets[n]
      BY Zenon, <1>4, <2>1 DEF OnlyBook
    <3>2. QED
      BY Zenon, <1>4, <3>1, SameLife
  <2>2. QED
    BY Zenon, <1>4, <2>1
<1>5. ASSUME NEW m \in MarketIds, MarketStep(m)
      PROVE  Lives(n)
  <2>1. CASE OpenStep(m)
    <3>1. OpenMove(m)
      BY Zenon, <1>1, <2>1, OpenSteps
    <3>2. OnlyBook(m) /\ MarketCounter' = MarketCounter
      BY Zenon, <3>1 DEF OpenMove
    <3>3. QED
      BY Zenon, <1>1, <1>4, <3>1, <3>2, OpenLives
  <2>2. CASE \E who \in Accounts, outcome \in Outcomes : report(m, who, outcome)
    <3>1. PICK who \in Accounts, outcome \in Outcomes : report(m, who, outcome)
      BY Zenon, <2>2
    <3>2. MarketCounter' = MarketCounter
      BY Zenon, <3>1 DEF report, report_market_with_dispute_mechanism, report_and_resolve_market,
                         idVars
    <3>3. OnlyBook(m)
      BY Zenon, <1>1, <3>1, ReportMove DEF Advances
    <3>4. QED
      BY Zenon, <1>1, <1>4, <3>1, <3>2, <3>3, ReportLives
  <2>3. CASE \E who \in Accounts : dispute(m, who)
    <3>1. PICK who \in Accounts : dispute(m, who)
      BY Zenon, <2>3
    <3>2. MarketCounter' = MarketCounter
      BY Zenon, <3>1 DEF dispute, DisputeAuthorized, DisputeCourt, idVars
    <3>3. OnlyBook(m)
      BY Zenon, <1>1, <3>1, DisputeMove DEF Advances
    <3>4. QED
      BY Zenon, <1>1, <1>4, <3>1, <3>2, <3>3, DisputeLives
  <2>4. CASE \/ appeal(m)
             \/ \E outcome \in Outcomes : authorize_market_outcome(m, outcome) \/ reveal_vote(m, outcome)
    <3>1. markets' = markets /\ MarketCounter' = MarketCounter
      BY Zenon, <2>4 DEF appeal, authorize_market_outcome, reveal_vote, marketVars, idVars
    <3>2. QED
      BY Zenon, <3>1, SameLife
  <2>5. CASE start_global_dispute(m)
    <3>1. markets' = markets /\ MarketCounter' = MarketCounter
      BY Zenon, <1>1, <2>5, GlobalDisputeMarket DEF start_global_dispute, idVars
    <3>2. QED
      BY Zenon, <3>1, SameLife
  <2>6. CASE admin_move_market_to_resolved(m)
    <3>1. MarketCounter' = MarketCounter
      BY Zenon, <2>6 DEF admin_move_market_to_resolved, idVars
    <3>2. OnlyBook(m) /\ Resolution(m, markets'[m], held'[m])
      BY Zenon, <1>1, <2>6, ResolveMove
    <3>3. QED
      BY Zenon, <1>1, <1>4, <3>1, <3>2, ResolutionLives
  <2>7. QED
    BY Zenon, <1>5, <2>1, <2>2, <2>3, <2>4, <2>5, <2>6 DEF MarketStep, OpenStep
<1>6. QED
  BY Zenon, <1>2, <1>3, <1>5 DEF Next

(* Every market, among all others and under every order of calls and       *)
(* blocks, lives the life that MarketLifecycle describes: the pallet       *)
(* implements it, market by market.                                        *)
THEOREM LifecycleImplemented == Spec => MarketsFollowLifecycle
<1>1. Init => \A m \in MarketIds : Lifecycle(m)!Init
  <2> SUFFICES ASSUME Init, NEW m \in MarketIds PROVE Lifecycle(m)!Init
    OBVIOUS
  <2>1. markets[m] = None /\ MarketCounter = 0
    BY Zenon DEF Init
  <2>2. ~(m < MarketCounter)
    BY <2>1, InputAssumption DEF MarketIds
  <2>3. LifecycleStatus(m) = "NotCreated"
    BY Zenon, <2>1, <2>2 DEF LifecycleStatus, Exists
  <2>4. QED
    BY Zenon, <2>1, <2>3 DEF Lifecycle!Init, Exists
<1>2. MarketInv /\ [Next]_vars =>
        [\A m \in MarketIds : [Lifecycle(m)!Next]_(Lifecycle(m)!lifecycle)]_vars
  BY Zenon, StepLives DEF Lives
<1>3. QED
  BY <1>1, <1>2, Invariant, PTL DEF Spec, MarketsFollowLifecycle
=============================================================================
