---------------------------- MODULE MarketQueue -----------------------------
(* What each operation of PredictionMarkets makes of the market it is      *)
(* called for, type correctness, and the close queues and edit requests,   *)
(* for all sets of accounts and markets, all blocks, moments and periods.  *)
(* CloseQueueExact alone is not inductive: create_market would list a      *)
(* market that is listed already if its id could be in use.                *)
EXTENDS MarketProperties, TLAPS

BondMap == [BondKinds -> Bond \cup {None}]

HolderMap == [BondKinds -> Holders]

(* c is the book b after some of its bonds were settled: the market is the *)
(* same in everything but the bonds, and has lost none of them.            *)
SettledFrom(b, c) ==
  /\ c \in Books
  /\ c.mk = [b.mk EXCEPT !.bonds = c.mk.bonds]
  /\ \A k \in BondKinds : HasBond(b.mk, k) => HasBond(c.mk, k)

(* n has the terms, the report and the outcome of mk.                      *)
SameTerms(mk, n) ==
  /\ n.creation = mk.creation /\ n.creator = mk.creator /\ n.oracle = mk.oracle
  /\ n.dispute_mechanism = mk.dispute_mechanism /\ n.deadlines = mk.deadlines
  /\ n.report = mk.report /\ n.resolved_outcome = mk.resolved_outcome

(* Nothing but the bonds of a market record is replaced.                   *)
LEMMA MarketWithBonds ==
  ASSUME NEW mk \in MarketRecord, NEW bonds \in BondMap
  PROVE  /\ [mk EXCEPT !.bonds = bonds] \in MarketRecord
         /\ [mk EXCEPT !.bonds = bonds].bonds = bonds
  BY Zenon DEF MarketRecord, BondMap

(* The parts of a book have their types.                                   *)
LEMMA BookParts ==
  ASSUME NEW b \in Books
  PROVE  /\ b.mk \in MarketRecord /\ b.mk.bonds \in BondMap
         /\ b.held \in HolderMap /\ b.asserts \in SUBSET DebugAsserts
  BY Zenon DEF Books, MarketRecord, BondMap, HolderMap

(* Replacing parts of a book by parts of the same type.                    *)
LEMMA BookWith ==
  ASSUME NEW b \in Books, NEW mk \in MarketRecord, NEW h \in HolderMap
  PROVE  [b EXCEPT !.mk = mk, !.held = h] \in Books
         /\ [b EXCEPT !.mk = mk, !.held = h].mk = mk
  BY Zenon DEF Books, HolderMap

\* Replacing the market of a book by another market record gives a book.
LEMMA BookWithMarket ==
  ASSUME NEW b \in Books, NEW mk \in MarketRecord
  PROVE  /\ [b EXCEPT !.mk = mk] \in Books /\ [b EXCEPT !.mk = mk].mk = mk
         /\ [b EXCEPT !.mk = mk].held = b.held
  BY Zenon DEF Books

\* Recording a failed debug_assert in a book gives a book.
LEMMA BookWithAsserts ==
  ASSUME NEW b \in Books, NEW a \in SUBSET DebugAsserts
  PROVE  /\ [b EXCEPT !.asserts = a] \in Books /\ [b EXCEPT !.asserts = a].mk = b.mk
         /\ [b EXCEPT !.asserts = a].held = b.held
  BY Zenon DEF Books

(* Settling nothing.                                                       *)
LEMMA SettledFromSame ==
  ASSUME NEW b \in Books
  PROVE  SettledFrom(b, b)
<1>1. b.mk = [b.mk EXCEPT !.bonds = b.mk.bonds]
  BY Zenon DEF Books, MarketRecord
<1>2. QED
  BY Zenon, <1>1 DEF SettledFrom

(* What two settlements in a row do is a settlement.                       *)
LEMMA SettledFromTransitive ==
  ASSUME NEW b \in Books, NEW c, NEW d, SettledFrom(b, c), SettledFrom(c, d)
  PROVE  SettledFrom(b, d)
<1>1. d \in Books /\ c \in Books
  BY Zenon DEF SettledFrom
<1>2. d.mk = [b.mk EXCEPT !.bonds = d.mk.bonds]
  <2>1. c.mk = [b.mk EXCEPT !.bonds = c.mk.bonds] /\ d.mk = [c.mk EXCEPT !.bonds = d.mk.bonds]
    BY Zenon DEF SettledFrom
  <2>2. b.mk \in MarketRecord
    BY Zenon, BookParts
  <2>3. QED
    BY Zenon, <2>1, <2>2 DEF MarketRecord
<1>3. QED
  BY Zenon, <1>1, <1>2 DEF SettledFrom

(* The fields that a settlement keeps.                                     *)
LEMMA SettledFromFields ==
  ASSUME NEW b \in Books, NEW c, SettledFrom(b, c)
  PROVE  /\ c \in Books
         /\ c.mk.status = b.mk.status /\ c.mk.period = b.mk.period
         /\ c.mk.creation = b.mk.creation /\ c.mk.creator = b.mk.creator
         /\ c.mk.oracle = b.mk.oracle /\ c.mk.report = b.mk.report
         /\ c.mk.early_close = b.mk.early_close
         /\ c.mk.dispute_mechanism = b.mk.dispute_mechanism
         /\ c.mk.deadlines = b.mk.deadlines /\ c.mk.resolved_outcome = b.mk.resolved_outcome
         /\ \A k \in BondKinds : HasBond(b.mk, k) => HasBond(c.mk, k)
<1>1. c \in Books /\ c.mk = [b.mk EXCEPT !.bonds = c.mk.bonds]
  BY Zenon DEF SettledFrom
<1>2. b.mk \in MarketRecord
  BY Zenon, BookParts
<1>3. QED
  BY Zenon, <1>1, <1>2 DEF MarketRecord, SettledFrom

(* A new bond is unsettled; nothing else about the market changes.         *)
LEMMA OpenBondType ==
  ASSUME NEW b \in Books, NEW k \in BondKinds, NEW who \in Accounts
  PROVE  SettledFrom(b, OpenBond(b, k, who)) /\ HasBond(OpenBond(b, k, who).mk, k)
<1> DEFINE bond == [who |-> who, is_settled |-> FALSE]
           bonds == [b.mk.bonds EXCEPT ![k] = bond]
           mk == [b.mk EXCEPT !.bonds = bonds]
           h == [b.held EXCEPT ![k] = IF @ = "reserved" THEN "lost" ELSE "reserved"]
           c == [b EXCEPT !.mk = mk, !.held = h]
<1>1. bond \in Bond
  BY Zenon DEF Bond
<1>2. b.mk \in MarketRecord /\ b.mk.bonds \in BondMap /\ b.held \in HolderMap
  BY Zenon, BookParts
<1>3. bonds \in BondMap
  <2> HIDE DEF bond
  <2> QED BY Zenon, <1>1, <1>2 DEF BondMap
<1>4. mk \in MarketRecord /\ mk.bonds = bonds
  <2> HIDE DEF bonds
  <2> QED BY Zenon, <1>2, <1>3, MarketWithBonds
<1>5. h \in HolderMap
  BY Zenon, <1>2 DEF Holders, HolderMap
<1>6. c \in Books /\ c.mk = mk
  <2> HIDE DEF mk, h
  <2> QED BY Zenon, <1>4, <1>5, BookWith
<1>7. OpenBond(b, k, who) = c
  BY Zenon DEF OpenBond
<1>8. OpenBond(b, k, who) \in Books /\ OpenBond(b, k, who).mk = mk
  <2> HIDE DEF c
  <2> QED BY Zenon, <1>6, <1>7
<1>9. \A j \in BondKinds : HasBond(b.mk, j) \/ j = k => bonds[j] # None
  <2> HIDE DEF bond
  <2> QED BY Zenon, <1>1, <1>2, NoneAssumption DEF BondMap, HasBond
<1>10. QED
  <2> HIDE DEF bonds
  <2> QED BY Zenon, <1>4, <1>8, <1>9 DEF SettledFrom, HasBond

(* Settling a bond, to whomever its money goes.                            *)
LEMMA SettleType ==
  ASSUME NEW b \in Books, NEW k \in BondKinds, NEW to \in Holders, HasBond(b.mk, k)
  PROVE  SettledFrom(b, Settle(b, k, to))
<1> DEFINE bond == [b.mk.bonds[k] EXCEPT !.is_settled = TRUE]
           bonds == [b.mk.bonds EXCEPT ![k] = bond]
           mk == [b.mk EXCEPT !.bonds = bonds]
           h == [b.held EXCEPT ![k] = IF @ = "reserved" THEN to ELSE "overdrawn"]
           c == [b EXCEPT !.mk = mk, !.held = h]
           a == b.asserts \cup {"settled_twice"}
<1>1. b.mk \in MarketRecord /\ b.mk.bonds \in BondMap /\ b.held \in HolderMap
  BY Zenon, BookParts
<1>2. bond \in Bond
  <2>1. b.mk.bonds[k] \in Bond
    BY Zenon, <1>1 DEF BondMap, HasBond
  <2> QED BY Zenon, <2>1 DEF Bond
<1>3. bonds \in BondMap
  <2> HIDE DEF bond
  <2> QED BY Zenon, <1>1, <1>2 DEF BondMap
<1>4. mk \in MarketRecord /\ mk.bonds = bonds
  <2> HIDE DEF bonds
  <2> QED BY Zenon, <1>1, <1>3, MarketWithBonds
<1>5. h \in HolderMap
  BY Zenon, <1>1 DEF Holders, HolderMap
<1>6. c \in Books /\ c.mk = mk
  <2> HIDE DEF mk, h
  <2> QED BY Zenon, <1>4, <1>5, BookWith
<1>7. [b EXCEPT !.asserts = a] \in Books /\ [b EXCEPT !.asserts = a].mk = b.mk
  BY Zenon DEF Books, DebugAsserts
<1>8. CASE b.mk.bonds[k].is_settled
  <2>1. Settle(b, k, to) = [b EXCEPT !.asserts = a]
    BY Zenon, <1>8 DEF Settle
  <2>2. b.mk = [b.mk EXCEPT !.bonds = b.mk.bonds]
    BY Zenon, <1>1 DEF MarketRecord
  <2>3. QED
    <3> HIDE DEF a
    <3> QED BY Zenon, <1>7, <2>1, <2>2 DEF SettledFrom
<1>9. CASE ~b.mk.bonds[k].is_settled
  <2>1. Settle(b, k, to) = c
    BY Zenon, <1>9 DEF Settle
  <2>2. Settle(b, k, to) \in Books /\ Settle(b, k, to).mk = mk
    <3> HIDE DEF c
    <3> QED BY Zenon, <1>6, <2>1
  <2>3. \A j \in BondKinds : HasBond(b.mk, j) => bonds[j] # None
    <3> HIDE DEF bond
    <3> QED BY Zenon, <1>1, <1>2, NoneAssumption DEF BondMap, HasBond
  <2>4. QED
    <3> HIDE DEF bonds
    <3> QED BY Zenon, <1>4, <2>2, <2>3 DEF SettledFrom, HasBond
<1>10. QED
  BY Zenon, <1>8, <1>9

(* The owner of a bond can be given its money.                             *)
LEMMA UnreserveType ==
  ASSUME NEW b \in Books, NEW k \in BondKinds, HasBond(b.mk, k)
  PROVE  SettledFrom(b, unreserve_bond(b, k))
<1>1. b.mk.bonds \in BondMap
  BY Zenon, BookParts
<1>2. b.mk.bonds[k] \in Bond
  BY Zenon, <1>1 DEF BondMap, HasBond
<1>3. b.mk.bonds[k].who \in Holders
  BY Zenon, <1>2 DEF Bond, Holders
<1>4. QED
  BY Zenon, <1>3, SettleType DEF unreserve_bond

(* A bond is settled if it is pending, otherwise only noted.               *)
LEMMA SettleIfPendingType ==
  ASSUME NEW b \in Books, NEW k \in BondKinds, NEW to \in Holders
  PROVE  SettledFrom(b, SettleIfPending(b, k, to))
<1>1. CASE IsPending(b.mk, k)
  BY Zenon, <1>1, SettleType DEF SettleIfPending, IsPending
<1>2. CASE ~IsPending(b.mk, k)
  <2> DEFINE c == [b EXCEPT !.asserts = @ \cup {"not_pending"}]
  <2>1. c \in Books /\ c.mk = b.mk
    BY Zenon DEF Books, DebugAsserts
  <2>2. b.mk = [b.mk EXCEPT !.bonds = b.mk.bonds]
    BY Zenon, SettledFromSame DEF SettledFrom
  <2>3. SettleIfPending(b, k, to) = c
    BY Zenon, <1>2 DEF SettleIfPending
  <2>4. QED
    <3> HIDE DEF c
    <3> QED BY Zenon, <2>1, <2>2, <2>3 DEF SettledFrom
<1>3. QED
  BY Zenon, <1>1, <1>2

(* close_market changes the status and, in the stored market, no bond.     *)
LEMMA CloseMarketType ==
  ASSUME NEW b \in Books
  PROVE  /\ close_market(b) \in Books
         /\ close_market(b).mk = [b.mk EXCEPT !.status = "Closed"]
<1> DEFINE state == IF b.mk.early_close = None THEN None ELSE b.mk.early_close.state
           d == IF state = "Disputed" /\ IsPending(b.mk, "close_dispute")
                THEN unreserve_bond(b, "close_dispute") ELSE b
           r == IF state \in {"Disputed", "ScheduledAsMarketCreator"}
                     /\ IsPending(b.mk, "close_request")
                THEN unreserve_bond(d, "close_request") ELSE d
           mk == [b.mk EXCEPT !.status = "Closed"]
<1>1. SettledFrom(b, d)
  <2> HIDE DEF state
  <2> QED BY Zenon, UnreserveType, SettledFromSame DEF IsPending, BondKinds
<1>2. d \in Books /\ \A k \in BondKinds : HasBond(b.mk, k) => HasBond(d.mk, k)
  <2> HIDE DEF d
  <2> QED BY Zenon, <1>1, SettledFromFields
<1>3. r \in Books
  <2>1. CASE IsPending(b.mk, "close_request")
    <3> HIDE DEF d, state
    <3>1. SettledFrom(d, unreserve_bond(d, "close_request"))
      BY Zenon, <1>2, <2>1, UnreserveType DEF IsPending, BondKinds
    <3>2. QED
      BY Zenon, <1>2, <3>1 DEF SettledFrom
  <2>2. CASE ~IsPending(b.mk, "close_request")
    <3> HIDE DEF d, state
    <3> QED BY Zenon, <1>2, <2>2
  <2>3. QED
    BY Zenon, <2>1, <2>2
<1>4. mk \in MarketRecord
  <2>1. b.mk \in MarketRecord
    BY Zenon, BookParts
  <2>2. QED
    BY Zenon, <2>1 DEF MarketRecord, Statuses
<1>5. close_market(b) = [r EXCEPT !.mk = mk]
  BY Zenon DEF close_market
<1>6. QED
  <2> HIDE DEF r, mk
  <2>1. [r EXCEPT !.mk = mk] \in Books /\ [r EXCEPT !.mk = mk].mk = mk
    BY Zenon, <1>3, <1>4, BookWithMarket
  <2>2. close_market(b) \in Books /\ close_market(b).mk = mk
    BY Zenon, <1>5, <2>1
  <2>3. QED
    BY Zenon, <2>2 DEF mk

(* handle_expired_advised_market leaves no market.                         *)
LEMMA ExpiredType ==
  ASSUME NEW b \in Books, HasBond(b.mk, "creation"), HasBond(b.mk, "oracle")
  PROVE  /\ handle_expired_advised_market(b).mk = None
         /\ handle_expired_advised_market(b).held \in HolderMap
         /\ handle_expired_advised_market(b).asserts \in SUBSET DebugAsserts
<1> DEFINE c == unreserve_bond(b, "creation")
           o == unreserve_bond(c, "oracle")
<1>1. c \in Books /\ HasBond(c.mk, "oracle")
  BY Zenon, UnreserveType DEF SettledFrom, BondKinds
<1>2. o \in Books
  <2> HIDE DEF c
  <2> QED BY Zenon, <1>1, UnreserveType DEF SettledFrom, BondKinds
<1>3. handle_expired_advised_market(b) = [o EXCEPT !.mk = None]
  BY Zenon DEF handle_expired_advised_market
<1>4. QED
  <2> HIDE DEF o
  <2> QED BY Zenon, <1>2, <1>3 DEF Books, HolderMap

(* The bonds of a market whose report nobody disputed.                     *)
LEMMA ResolveReportedType ==
  ASSUME NEW b \in Books, b.mk.report # None, HasBond(b.mk, "oracle")
  PROVE  SettledFrom(b, resolve_reported_market(b))
<1>1. b.mk.report.by \in Holders
  BY Zenon, BookParts DEF MarketRecord, Report, Holders
<1>2. CASE b.mk.report.by = b.mk.oracle
  BY Zenon, <1>2, UnreserveType DEF resolve_reported_market, BondKinds
<1>3. CASE b.mk.report.by # b.mk.oracle
  <2> DEFINE to == b.mk.report.by
             o == repatriate_bond(b, "oracle", to)
             s == SettleIfPending(o, "outsider", to)
  <2>1. SettledFrom(b, o)
    <3> HIDE DEF to
    <3> QED BY Zenon, <1>1, SettleType DEF repatriate_bond, BondKinds, to
  <2>2. SettledFrom(o, s)
    <3> HIDE DEF o
    <3> QED BY <1>1, <2>1, SettleIfPendingType DEF SettledFrom, BondKinds
  <2>3. SettledFrom(b, s)
    <3> HIDE DEF o, s
    <3> QED BY Zenon, <2>1, <2>2, SettledFromTransitive
  <2>4. QED
    BY Zenon, <1>3, <2>3 DEF resolve_reported_market
<1>4. QED
  BY Zenon, <1>2, <1>3

(* The bonds of a disputed market.                                         *)
LEMMA SettleBondsType ==
  ASSUME NEW b \in Books, NEW resolved_outcome,
         b.mk.report # None, HasBond(b.mk, "oracle")
  PROVE  SettledFrom(b, settle_bonds(b, resolved_outcome))
<1> DEFINE made == b.mk.report
           is_correct == made.outcome = resolved_outcome
           disputed == IsPending(b.mk, "dispute")
           winner == IF disputed THEN b.mk.bonds["dispute"].who ELSE Treasury
           o == IF ~is_correct THEN slash_bond(b, "oracle", winner)
                ELSE IF made.by = b.mk.oracle THEN unreserve_bond(b, "oracle")
                ELSE repatriate_bond(b, "oracle", made.by)
           to == IF is_correct THEN made.by ELSE winner
           s == IF made.by = b.mk.oracle THEN o ELSE SettleIfPending(o, "outsider", to)
           d == IF ~disputed THEN s
                ELSE IF is_correct THEN slash_bond(s, "dispute", Treasury)
                ELSE unreserve_bond(s, "dispute")
<1>1. made.by \in Holders
  BY Zenon, BookParts DEF MarketRecord, Report, Holders
<1>2. winner \in Holders
  <2>1. disputed => b.mk.bonds["dispute"] \in Bond
    BY Zenon, BookParts DEF BondMap, IsPending, HasBond, BondKinds
  <2>2. QED
    <3> HIDE DEF disputed
    <3> QED BY Zenon, <2>1 DEF Holders, Bond
<1>3. SettledFrom(b, o)
  <2> HIDE DEF made, is_correct, winner
  <2> QED BY Zenon, <1>1, <1>2, SettleType, UnreserveType DEF slash_bond, repatriate_bond, BondKinds
<1>4. SettledFrom(b, s)
  <2> HIDE DEF made, is_correct, winner, o
  <2>1. o \in Books
    BY Zenon, <1>3 DEF SettledFrom
  <2>2. SettledFrom(o, SettleIfPending(o, "outsider", to))
    BY Zenon, <1>1, <1>2, <2>1, SettleIfPendingType DEF BondKinds
  <2>3. SettledFrom(b, SettleIfPending(o, "outsider", to))
    <3> HIDE DEF to
    <3> QED BY Zenon, <1>3, <2>2, SettledFromTransitive
  <2>4. QED
    <3> HIDE DEF to
    <3> QED BY Zenon, <1>3, <2>3
<1>5. SettledFrom(b, d)
  <2>1. s \in Books /\ (disputed => HasBond(s.mk, "dispute"))
    <3> HIDE DEF s
    <3> QED BY Zenon, <1>4 DEF SettledFrom, IsPending, BondKinds
  <2> HIDE DEF s, disputed, is_correct
  <2>2. disputed => SettledFrom(s, d)
    BY Zenon, <2>1, SettleType, UnreserveType DEF slash_bond, BondKinds, Holders
  <2>3. CASE disputed
    <3> HIDE DEF d
    <3> QED BY Zenon, <1>4, <2>2, <2>3, SettledFromTransitive
  <2>4. CASE ~disputed
    BY Zenon, <1>4, <2>4
  <2>5. QED
    BY Zenon, <2>3, <2>4
<1>6. settle_bonds(b, resolved_outcome) = d
  BY Zenon DEF settle_bonds
<1>7. QED
  <2> HIDE DEF d
  <2> QED BY Zenon, <1>5, <1>6

(* on_resolution sets the status and the outcome and settles bonds.        *)
LEMMA OnResolutionType ==
  ASSUME NEW b \in Books, NEW outcome \in Outcomes,
         b.mk.report # None, HasBond(b.mk, "oracle"),
         b.mk.creation = "Permissionless" => HasBond(b.mk, "creation")
  PROVE  /\ on_resolution(b, outcome) \in Books
         /\ on_resolution(b, outcome).mk.status = "Resolved"
         /\ on_resolution(b, outcome).mk.period = b.mk.period
         /\ on_resolution(b, outcome).mk.report = b.mk.report
         /\ on_resolution(b, outcome).mk.resolved_outcome = outcome
<1> DEFINE c == IF b.mk.creation = "Permissionless" THEN unreserve_bond(b, "creation") ELSE b
           s == IF b.mk.status = "Reported" THEN resolve_reported_market(c)
                ELSE settle_bonds(c, outcome)
           r == [s EXCEPT !.mk.status = "Resolved", !.mk.resolved_outcome = outcome]
<1>1. SettledFrom(b, c)
  BY Zenon, UnreserveType, SettledFromSame DEF BondKinds
<1>2. c \in Books /\ c.mk.report # None /\ HasBond(c.mk, "oracle")
  <2> HIDE DEF c
  <2> QED BY Zenon, <1>1, SettledFromFields DEF BondKinds
<1>3. SettledFrom(c, s)
  <2> HIDE DEF c
  <2> QED BY Zenon, <1>2, ResolveReportedType, SettleBondsType
<1>4. s \in Books /\ s.mk.period = b.mk.period /\ s.mk.report = b.mk.report
  <2> HIDE DEF c, s
  <2>1. SettledFrom(b, s)
    BY Zenon, <1>1, <1>3, SettledFromTransitive
  <2>2. QED
    BY <2>1, SettledFromFields
<1>5. on_resolution(b, outcome) = r
  BY Zenon DEF on_resolution
<1>6. QED
  <2> HIDE DEF s
  <2> DEFINE mk == [s.mk EXCEPT !.status = "Resolved", !.resolved_outcome = outcome]
  <2>1. s.mk \in MarketRecord
    BY Zenon, <1>4, BookParts
  <2>2. /\ mk \in MarketRecord /\ mk.status = "Resolved" /\ mk.resolved_outcome = outcome
        /\ mk.period = s.mk.period /\ mk.report = s.mk.report
    BY Zenon, <2>1 DEF MarketRecord, Statuses
  <2>3. r = [s EXCEPT !.mk = mk]
    BY Zenon, <1>4 DEF Books
  <2>4. [s EXCEPT !.mk = mk] \in Books /\ [s EXCEPT !.mk = mk].mk = mk
    <3> HIDE DEF mk
    <3> QED BY Zenon, <1>4, <2>2, BookWithMarket
  <2>5. r \in Books /\ r.mk = mk
    <3> HIDE DEF mk, r
    <3> QED BY Zenon, <2>3, <2>4
  <2>6. QED
    <3> HIDE DEF mk, r
    <3> QED BY Zenon, <1>4, <1>5, <2>2, <2>5

-----------------------------------------------------------------------------
(* The conjuncts of TypeOK, by the part of the state they are about.       *)
BooksOK ==
  /\ markets \in [MarketIds -> MarketRecord \cup {None}]
  /\ held \in [MarketIds -> HolderMap]
  /\ asserts \in [MarketIds -> SUBSET DebugAsserts]

IdsOK == MarketCounter \in 0..MaxMarkets /\ MarketIdsForEdit \subseteq MarketIds

QueuesOK ==
  /\ MarketIdsPerClose \in [CloseSlots -> Ids]
  /\ MarketIdsPerReportBlock \in [Blocks -> Ids]
  /\ MarketIdsPerDisputeBlock \in [Blocks -> Ids]

DisputesOK ==
  /\ AuthorizedOutcomeReports
       \in [MarketIds -> AuthorityReport \cup {None}]
  /\ MarketIdToCourtId \subseteq MarketIds
  /\ Courts \in [MarketIds -> Court \cup {None}]
  /\ GlobalDisputesInfo \in [MarketIds -> Nat \cup {None}]

TimeOK ==
  now \in Blocks /\ moment \in Moments /\ LastTimeFrame \in Nat \cup {None} /\ rolledBack \in BOOLEAN

\* TypeOK is the conjunction of one part per group of storage items, before and after a step.
LEMMA TypeParts ==
  /\ TypeOK <=> BooksOK /\ IdsOK /\ QueuesOK /\ DisputesOK /\ TimeOK
  /\ TypeOK' <=> BooksOK' /\ IdsOK' /\ QueuesOK' /\ DisputesOK' /\ TimeOK'
  BY Zenon DEF TypeOK, BooksOK, IdsOK, QueuesOK, DisputesOK, TimeOK, HolderMap

-----------------------------------------------------------------------------
(* Helpers *)

(* Division of a moment into time frames.                                  *)
LEMMA TimeFrameType ==
  ASSUME NEW t \in Nat
  PROVE  calculate_time_frame_of_moment(t) \in Nat
  BY MillisAssumption DEF calculate_time_frame_of_moment

(* Push adds one entry, whatever the slot.                                 *)
LEMMA PushType ==
  ASSUME NEW S, NEW q \in [S -> Ids], NEW s, NEW m \in MarketIds
  PROVE  /\ Push(q, s, m) \in [S -> Ids]
         /\ \A t \in S, n \in MarketIds :
              Push(q, s, m)[t][n] = IF t = s /\ n = m THEN q[t][n] + 1 ELSE q[t][n]
<1> DEFINE row == [q[s] EXCEPT ![m] = @ + 1]
<1>1. Push(q, s, m) = [q EXCEPT ![s] = row]
  BY Zenon DEF Push
<1>2. CASE s \in S
  <2>1. q[s] \in Ids
    BY Zenon, <1>2
  <2>2. row \in Ids /\ \A n \in MarketIds : row[n] = IF n = m THEN q[s][n] + 1 ELSE q[s][n]
    BY <2>1 DEF Ids
  <2>3. QED
    <3> HIDE DEF row
    <3> QED BY Zenon, <1>1, <1>2, <2>2
<1>3. CASE s \notin S
  <2> HIDE DEF row
  <2>1. Push(q, s, m) = q
    BY Zenon, <1>1, <1>3
  <2>2. QED
    BY Zenon, <1>3, <2>1
<1>4. QED
  BY Zenon, <1>2, <1>3

(* remove_item takes one entry away, if there is one.                      *)
LEMMA RemoveItemType ==
  ASSUME NEW S, NEW q \in [S -> Ids], NEW s, NEW m \in MarketIds
  PROVE  /\ remove_item(q, s, m) \in [S -> Ids]
         /\ \A t \in S, n \in MarketIds :
              remove_item(q, s, m)[t][n]
                = IF t = s /\ n = m THEN (IF q[t][n] > 0 THEN q[t][n] - 1 ELSE 0) ELSE q[t][n]
<1> DEFINE row == [q[s] EXCEPT ![m] = IF @ > 0 THEN @ - 1 ELSE 0]
<1>1. remove_item(q, s, m) = [q EXCEPT ![s] = row]
  BY Zenon DEF remove_item
<1>2. CASE s \in S
  <2>1. q[s] \in Ids
    BY Zenon, <1>2
  <2>2. row \in Ids /\ \A n \in MarketIds : row[n] = IF n = m THEN (IF q[s][n] > 0 THEN q[s][n] - 1 ELSE 0)
                                                 ELSE q[s][n]
    BY <2>1 DEF Ids
  <2>3. QED
    <3> HIDE DEF row
    <3> QED BY Zenon, <1>1, <1>2, <2>2
<1>3. CASE s \notin S
  <2> HIDE DEF row
  <2>1. remove_item(q, s, m) = q
    BY Zenon, <1>1, <1>3
  <2>2. QED
    BY Zenon, <1>3, <2>1
<1>4. QED
  BY Zenon, <1>2, <1>3

\* clear_auto_close leaves a well-typed close queue.
LEMMA ClearAutoCloseType ==
  ASSUME NEW S, NEW q \in [S -> Ids], NEW m \in MarketIds, NEW mk
  PROVE  clear_auto_close(q, m, mk) \in [S -> Ids]
  BY Zenon, RemoveItemType DEF clear_auto_close

\* insert_auto_close leaves a well-typed close queue.
LEMMA InsertAutoCloseType ==
  ASSUME NEW S, NEW q \in [S -> Ids], NEW m \in MarketIds, NEW mk
  PROVE  insert_auto_close(q, m, mk) \in [S -> Ids]
  BY Zenon, PushType DEF insert_auto_close

(* The book of a market that exists.                                       *)
LEMMA BookOfType ==
  ASSUME BooksOK, NEW m \in MarketIds, markets[m] # None
  PROVE  BookOf(m) \in Books /\ BookOf(m).mk = markets[m]
  BY Zenon DEF BooksOK, BookOf, Book, Books, HolderMap

(* Writing a book back.                                                    *)
LEMMA PutBookType ==
  ASSUME BooksOK, NEW m \in MarketIds, NEW b, PutBook(m, b),
         b.mk \in MarketRecord \cup {None}, b.held \in HolderMap,
         b.asserts \in SUBSET DebugAsserts
  PROVE  /\ BooksOK'
         /\ markets'[m] = b.mk
         /\ \A n \in MarketIds \ {m} : markets'[n] = markets[n]
  BY Zenon DEF BooksOK, PutBook

\* Writing back a book (mutate_market) keeps the books well-typed.
LEMMA PutBookOfBooks ==
  ASSUME BooksOK, NEW m \in MarketIds, NEW b \in Books, PutBook(m, b)
  PROVE  /\ BooksOK'
         /\ markets'[m] = b.mk
         /\ \A n \in MarketIds \ {m} : markets'[n] = markets[n]
<1>1. b.mk \in MarketRecord /\ b.held \in HolderMap /\ b.asserts \in SUBSET DebugAsserts
  BY Zenon, BookParts
<1>2. QED
  BY Zenon, <1>1, PutBookType

-----------------------------------------------------------------------------
(* What each operation does to the markets.  Becomes(m, st, per): market m *)
(* exists afterwards, in status st and with period per, and no other       *)
(* market has changed.                                                     *)

OthersUnchanged(m) == \A n \in MarketIds \ {m} : markets'[n] = markets[n]

Becomes(m, st, per) ==
  /\ BooksOK' /\ OthersUnchanged(m)
  /\ markets'[m] # None /\ markets'[m].status = st /\ markets'[m].period = per

(* Writing the book of a market.                                           *)
LEMMA PutBookBecomes ==
  ASSUME BooksOK, NEW m \in MarketIds, NEW b \in Books, PutBook(m, b)
  PROVE  Becomes(m, b.mk.status, b.mk.period)
<1>1. b.mk \in MarketRecord
  BY Zenon, BookParts
<1>2. b.mk # None
  BY Zenon, <1>1, NoneAssumption
<1>3. QED
  BY Zenon, <1>2, PutBookOfBooks DEF Becomes, OthersUnchanged

(* A market record keeps its type when one of these fields is set.         *)
LEMMA MarketWithStatus ==
  ASSUME NEW mk \in MarketRecord, NEW st \in Statuses
  PROVE  LET n == [mk EXCEPT !.status = st]
         IN  /\ n \in MarketRecord /\ n.status = st /\ n.bonds = mk.bonds
             /\ SameTerms(mk, n)
             /\ n.period = mk.period /\ n.early_close = mk.early_close
  BY Zenon DEF MarketRecord, SameTerms

\* Replacing the period of a market keeps its type.
LEMMA MarketWithPeriod ==
  ASSUME NEW mk \in MarketRecord, NEW period \in Period
  PROVE  LET n == [mk EXCEPT !.period = period]
         IN  /\ n \in MarketRecord /\ n.period = period /\ n.bonds = mk.bonds
             /\ SameTerms(mk, n)
             /\ n.status = mk.status /\ n.early_close = mk.early_close
  BY Zenon DEF MarketRecord, SameTerms

\* Replacing the early_close field of a market keeps its type.
LEMMA MarketWithEarlyClose ==
  ASSUME NEW mk \in MarketRecord, NEW ec \in EarlyClose
  PROVE  LET n == [mk EXCEPT !.early_close = ec]
         IN  /\ n \in MarketRecord /\ n.early_close = ec /\ n.bonds = mk.bonds
             /\ SameTerms(mk, n)
             /\ n.status = mk.status /\ n.period = mk.period
  BY Zenon DEF MarketRecord, SameTerms

(* A time of the chain.                                                    *)
LEMMA ClockType ==
  ASSUME TimeOK
  PROVE  now \in Nat /\ moment \in Nat
  BY Zenon, InputAssumption DEF TimeOK

\* approve_market leaves an Active market and touches no other.
LEMMA ApproveMarket ==
  ASSUME BooksOK, NEW m \in MarketIds, approve_market(m)
  PROVE  Becomes(m, "Active", markets[m].period)
<1> DEFINE mk == [markets[m] EXCEPT !.status = "Active"]
           b == [BookOf(m) EXCEPT !.mk = mk]
           c == unreserve_bond(b, "creation")
<1>1. markets[m] # None /\ HasBond(markets[m], "creation")
  BY Zenon DEF approve_market, HasStatus
<1>2. BookOf(m) \in Books /\ markets[m] \in MarketRecord /\ BookOf(m).mk = markets[m]
  BY Zenon, <1>1, BookOfType, BookParts
<1>3. /\ mk \in MarketRecord /\ mk.status = "Active"
      /\ mk.period = markets[m].period /\ mk.bonds = markets[m].bonds
  BY Zenon, <1>2, MarketWithStatus DEF Statuses
<1>4. b \in Books /\ b.mk = mk
  <2> HIDE DEF mk
  <2> QED BY Zenon, <1>2, <1>3, BookWithMarket
<1>5. HasBond(b.mk, "creation")
  <2> HIDE DEF b, mk
  <2> QED BY Zenon, <1>1, <1>3, <1>4 DEF HasBond
<1>6. SettledFrom(b, c)
  <2> HIDE DEF b
  <2> QED BY Zenon, <1>4, <1>5, UnreserveType DEF BondKinds
<1>7. c \in Books /\ c.mk.status = "Active" /\ c.mk.period = markets[m].period
  <2> HIDE DEF b, c, mk
  <2> QED BY Zenon, <1>3, <1>4, <1>6, SettledFromFields
<1>8. PutBook(m, c)
  BY Zenon, <1>2 DEF approve_market
<1>9. QED
  <2> HIDE DEF c
  <2> QED BY Zenon, <1>7, <1>8, PutBookBecomes

\* reject_market removes the market and touches no other.
LEMMA RejectMarket ==
  ASSUME BooksOK, NEW m \in MarketIds, reject_market(m)
  PROVE  BooksOK' /\ OthersUnchanged(m) /\ markets'[m] = None
<1> DEFINE o == unreserve_bond(BookOf(m), "oracle")
           c == slash_bond(o, "creation", "split")
           r == [c EXCEPT !.mk = None]
<1>1. /\ markets[m] # None /\ PutBook(m, r)
      /\ HasBond(markets[m], "oracle") /\ HasBond(markets[m], "creation")
  BY Zenon DEF reject_market, HasStatus
<1>2. BookOf(m) \in Books /\ BookOf(m).mk = markets[m]
  BY Zenon, <1>1, BookOfType
<1>3. o \in Books /\ HasBond(o.mk, "creation")
  BY Zenon, <1>1, <1>2, UnreserveType DEF SettledFrom, BondKinds
<1>4. c \in Books
  <2> HIDE DEF o
  <2> QED BY Zenon, <1>3, SettleType DEF slash_bond, SettledFrom, BondKinds, Holders
<1>5. r.mk = None /\ r.held \in HolderMap /\ r.asserts \in SUBSET DebugAsserts
  <2> HIDE DEF c
  <2> QED BY Zenon, <1>4 DEF Books, HolderMap
<1>6. QED
  <2> HIDE DEF r
  <2> QED BY Zenon, <1>1, <1>5, PutBookType DEF OthersUnchanged

\* Closing by hand leaves a Closed market whose period ends now, and touches no other.
LEMMA CloseNowMarket ==
  ASSUME BooksOK, TimeOK, NEW m \in MarketIds, markets[m] # None, CloseNow(m)
  PROVE  \E per \in Period : Becomes(m, "Closed", per)
<1> DEFINE b == close_market(BookOf(m))
           mk == set_market_end(b.mk)
           c == [b EXCEPT !.mk = mk]
           per == [b.mk.period EXCEPT !.end = IF b.mk.period.kind = "Block" THEN now ELSE moment]
<1>1. BookOf(m) \in Books /\ markets[m] \in MarketRecord /\ BookOf(m).mk = markets[m]
  BY Zenon, BookOfType, BookParts
<1>2. b \in Books /\ b.mk = [markets[m] EXCEPT !.status = "Closed"]
  BY Zenon, <1>1, CloseMarketType
<1>3. b.mk \in MarketRecord /\ b.mk.status = "Closed" /\ b.mk.period \in Period
  <2> HIDE DEF b
  <2> QED BY Zenon, <1>1, <1>2, BookParts DEF MarketRecord
<1>4. per \in Period
  <2> HIDE DEF b
  <2> QED BY Zenon, <1>3, ClockType DEF Period
<1>5. mk \in MarketRecord /\ mk.status = "Closed" /\ mk.period = per
  <2> HIDE DEF b
  <2>1. mk = [b.mk EXCEPT !.period = per]
    BY Zenon DEF set_market_end
  <2>2. QED
    <3> HIDE DEF per, mk
    <3> QED BY Zenon, <1>3, <1>4, <2>1, MarketWithPeriod
<1>6. c \in Books /\ c.mk = mk
  <2> HIDE DEF b, mk
  <2> QED BY Zenon, <1>2, <1>5, BookWithMarket
<1>7. PutBook(m, c)
  BY Zenon DEF CloseNow
<1>8. QED
  <2> HIDE DEF c, mk, per
  <2> QED BY Zenon, <1>4, <1>5, <1>6, <1>7, PutBookBecomes

-----------------------------------------------------------------------------
(* Operations *)

(* The four operations of early close put an Active market under another   *)
(* period.                                                                 *)
Reschedules(m) == \E b \in Books : b.mk.status = "Active" /\ Reschedule(m, b)

\* The shortened period of schedule_early_close is a period.
LEMMA NewPeriodType ==
  ASSUME TimeOK, NEW mk \in MarketRecord, NEW x \in Nat, NEW y \in Nat
  PROVE  NewPeriod(mk, x, y) \in Period
<1>1. mk.period \in Period
  BY Zenon DEF MarketRecord
<1>2. QED
  BY <1>1, ClockType DEF NewPeriod, Period

\* Scheduling an early close gives a book of the same status.
LEMMA ScheduledType ==
  ASSUME NEW b \in Books, NEW period \in Period, NEW state \in EarlyCloseStates
  PROVE  LET c == Scheduled(b, period, state)
         IN  /\ c \in Books /\ c.held = b.held
             /\ c.mk.status = b.mk.status /\ c.mk.bonds = b.mk.bonds /\ SameTerms(b.mk, c.mk)
             /\ c.mk.period = period /\ c.mk.early_close # None
             /\ c.mk.early_close.old = b.mk.period /\ c.mk.early_close.state = state
<1> DEFINE ec == [old |-> b.mk.period, state |-> state]
           p == [b.mk EXCEPT !.period = period]
           mk == [p EXCEPT !.early_close = ec]
           c == [b EXCEPT !.mk = mk]
<1>1. b.mk \in MarketRecord /\ b.mk.period \in Period
  BY Zenon, BookParts DEF MarketRecord
<1>2. ec \in EarlyClose /\ ec.old = b.mk.period /\ ec.state = state
  BY Zenon, <1>1 DEF EarlyClose
<1>3. /\ p \in MarketRecord /\ p.status = b.mk.status /\ p.period = period
      /\ p.bonds = b.mk.bonds /\ SameTerms(b.mk, p)
  BY Zenon, <1>1, MarketWithPeriod
<1>4. /\ mk \in MarketRecord /\ mk.status = b.mk.status /\ mk.period = period
      /\ mk.bonds = b.mk.bonds /\ SameTerms(b.mk, mk) /\ mk.early_close = ec
  <2> HIDE DEF p, ec
  <2> QED BY Zenon, <1>2, <1>3, MarketWithEarlyClose DEF SameTerms
<1>5. c \in Books /\ c.mk = mk /\ c.held = b.held
  <2> HIDE DEF mk
  <2> QED BY Zenon, <1>4, BookWithMarket
<1>6. Scheduled(b, period, state) = c
  BY Zenon DEF Scheduled, Books
<1>7. ec # None
  <2> HIDE DEF ec
  <2> QED BY Zenon, <1>2, NoneAssumption
<1>8. QED
  <2> HIDE DEF c, mk, ec
  <2> QED BY Zenon, <1>2, <1>4, <1>5, <1>6, <1>7

\* A creator's early close request touches one market and keeps it Active.
LEMMA ScheduleAsMarketCreatorMarket ==
  ASSUME BooksOK, TimeOK, NEW m \in MarketIds, NEW who \in Accounts,
         ScheduleAsMarketCreator(m, who)
  PROVE  Reschedules(m)
<1> DEFINE period == NewPeriod(markets[m], CloseEarlyBlockPeriod, CloseEarlyTimeFramePeriod)
           o == OpenBond(BookOf(m), "close_request", who)
           b == Scheduled(o, period, "ScheduledAsMarketCreator")
<1>1. markets[m] # None /\ markets[m].status = "Active" /\ Reschedule(m, b)
  BY Zenon DEF ScheduleAsMarketCreator, HasStatus
<1>2. BookOf(m) \in Books /\ markets[m] \in MarketRecord /\ BookOf(m).mk = markets[m]
  BY Zenon, <1>1, BookOfType, BookParts
<1>3. o \in Books /\ o.mk.status = "Active"
  <2>1. SettledFrom(BookOf(m), o)
    BY Zenon, <1>2, OpenBondType DEF BondKinds
  <2>2. QED
    <3> HIDE DEF o
    <3> QED BY <1>1, <1>2, <2>1, SettledFromFields
<1>4. period \in Period
  BY Zenon, <1>2, NewPeriodType, PeriodAssumption
<1>5. b \in Books /\ b.mk.status = "Active"
  <2> HIDE DEF o, period
  <2>1. "ScheduledAsMarketCreator" \in EarlyCloseStates
    BY Zenon DEF EarlyCloseStates
  <2> QED BY Zenon, <1>3, <1>4, <2>1, ScheduledType
<1>6. QED
  <2> HIDE DEF b
  <2> QED BY Zenon, <1>1, <1>5 DEF Reschedules

\* Settling the bonds of an approved request gives a book of the same status and period.
LEMMA ApprovedRequestType ==
  ASSUME NEW b \in Books
  PROVE  SettledFrom(b, BondsOfApprovedRequest(b))
<1> DEFINE d == IF IsPending(b.mk, "close_dispute")
                THEN repatriate_bond(b, "close_dispute", b.mk.creator) ELSE b
           r == IF IsPending(b.mk, "close_request") THEN unreserve_bond(d, "close_request") ELSE d
<1>1. b.mk.creator \in Holders
  BY Zenon, BookParts DEF MarketRecord, Holders
<1>2. SettledFrom(b, d)
  BY Zenon, <1>1, SettleType, SettledFromSame DEF IsPending, repatriate_bond, BondKinds
<1>3. d \in Books /\ (IsPending(b.mk, "close_request") => HasBond(d.mk, "close_request"))
  <2> HIDE DEF d
  <2> QED BY Zenon, <1>2 DEF SettledFrom, IsPending, BondKinds
<1>4. SettledFrom(d, r)
  <2> HIDE DEF d
  <2> QED BY Zenon, <1>3, UnreserveType, SettledFromSame DEF BondKinds
<1>5. SettledFrom(b, r)
  <2> HIDE DEF d, r
  <2> QED BY Zenon, <1>2, <1>4, SettledFromTransitive
<1>6. QED
  BY Zenon, <1>5 DEF BondsOfApprovedRequest

\* An early close scheduled by the CloseMarketEarlyOrigin touches one market and keeps it Active.
LEMMA ScheduleAsOtherMarket ==
  ASSUME BooksOK, TimeOK, NEW m \in MarketIds, ScheduleAsOther(m)
  PROVE  Reschedules(m)
<1> DEFINE disputed == markets[m].early_close # None /\ markets[m].early_close.state = "Disputed"
           o == IF disputed THEN BondsOfApprovedRequest(BookOf(m)) ELSE BookOf(m)
           b == Scheduled(o, ProtectionPeriod(markets[m]), "ScheduledAsOther")
<1>1. markets[m] # None /\ markets[m].status = "Active" /\ Reschedule(m, b)
  BY Zenon DEF ScheduleAsOther, HasStatus
<1>2. BookOf(m) \in Books /\ markets[m] \in MarketRecord /\ BookOf(m).mk = markets[m]
  BY Zenon, <1>1, BookOfType, BookParts
<1>3. o \in Books /\ o.mk.status = "Active"
  <2> HIDE DEF disputed
  <2> QED BY <1>1, <1>2, ApprovedRequestType, SettledFromFields
<1>4. ProtectionPeriod(markets[m]) \in Period
  BY Zenon, <1>2, NewPeriodType, PeriodAssumption DEF ProtectionPeriod
<1>5. b \in Books /\ b.mk.status = "Active"
  <2> HIDE DEF o
  <2>1. "ScheduledAsOther" \in EarlyCloseStates
    BY Zenon DEF EarlyCloseStates
  <2> QED BY Zenon, <1>3, <1>4, <2>1, ScheduledType
<1>6. QED
  <2> HIDE DEF b
  <2> QED BY Zenon, <1>1, <1>5 DEF Reschedules

\* Restoring the old period gives a book of the same status.
LEMMA RestoredPeriodType ==
  ASSUME NEW b \in Books, b.mk.early_close # None
  PROVE  LET c == RestoredPeriod(b)
         IN  /\ c \in Books /\ c.held = b.held
             /\ c.mk.status = b.mk.status /\ c.mk.bonds = b.mk.bonds /\ SameTerms(b.mk, c.mk)
             /\ c.mk.period = b.mk.early_close.old /\ c.mk.early_close = b.mk.early_close
<1> DEFINE a == IF IsExpired(b.mk.early_close.old)
                THEN b.asserts \cup {"old_period_expired"} ELSE b.asserts
           mk == [b.mk EXCEPT !.period = b.mk.early_close.old]
           c == [b EXCEPT !.mk = mk]
           r == [c EXCEPT !.asserts = a]
<1>1. b.mk \in MarketRecord /\ b.mk.early_close.old \in Period
  BY Zenon, BookParts DEF MarketRecord, EarlyClose
<1>2. a \in SUBSET DebugAsserts
  BY Zenon, BookParts DEF DebugAsserts
<1>3. /\ mk \in MarketRecord /\ mk.status = b.mk.status /\ mk.period = b.mk.early_close.old
      /\ mk.bonds = b.mk.bonds /\ mk.early_close = b.mk.early_close /\ SameTerms(b.mk, mk)
  BY Zenon, <1>1, MarketWithPeriod
<1>4. c \in Books /\ c.mk = mk /\ c.held = b.held
  <2> HIDE DEF mk
  <2> QED BY Zenon, <1>3, BookWithMarket
<1>5. r \in Books /\ r.mk = mk /\ r.held = b.held
  <2> HIDE DEF c, a
  <2> QED BY Zenon, <1>2, <1>4, BookWithAsserts
<1>6. RestoredPeriod(b) = r
  BY Zenon DEF RestoredPeriod, Books
<1>7. QED
  <2> HIDE DEF r, mk
  <2> QED BY Zenon, <1>3, <1>5, <1>6

\* Changing the state of the early close record keeps the book's type, status and period.
LEMMA EarlyCloseStateType ==
  ASSUME NEW b \in Books, b.mk.early_close # None, NEW state \in EarlyCloseStates
  PROVE  LET c == [b EXCEPT !.mk.early_close.state = state]
         IN  /\ c \in Books /\ c.held = b.held
             /\ c.mk.status = b.mk.status /\ c.mk.bonds = b.mk.bonds /\ SameTerms(b.mk, c.mk)
             /\ c.mk.period = b.mk.period /\ c.mk.early_close # None
             /\ c.mk.early_close.old = b.mk.early_close.old /\ c.mk.early_close.state = state
<1> DEFINE ec == [b.mk.early_close EXCEPT !.state = state]
           mk == [b.mk EXCEPT !.early_close = ec]
           c == [b EXCEPT !.mk = mk]
<1>1. b.mk \in MarketRecord /\ b.mk.early_close \in EarlyClose
  BY Zenon, BookParts DEF MarketRecord
<1>2. ec \in EarlyClose /\ ec.old = b.mk.early_close.old /\ ec.state = state
  BY Zenon, <1>1 DEF EarlyClose
<1>3. /\ mk \in MarketRecord /\ mk.status = b.mk.status /\ mk.period = b.mk.period
      /\ mk.bonds = b.mk.bonds /\ SameTerms(b.mk, mk) /\ mk.early_close = ec
  <2> HIDE DEF ec
  <2> QED BY Zenon, <1>1, <1>2, MarketWithEarlyClose
<1>4. c \in Books /\ c.mk = mk /\ c.held = b.held
  <2> HIDE DEF mk
  <2> QED BY Zenon, <1>3, BookWithMarket
<1>5. ec # None
  <2> HIDE DEF ec
  <2> QED BY Zenon, <1>2, NoneAssumption
<1>6. [b EXCEPT !.mk.early_close.state = state] = c
  BY Zenon
<1>7. QED
  <2> HIDE DEF c, mk, ec
  <2> QED BY Zenon, <1>2, <1>3, <1>4, <1>5, <1>6

\* dispute_early_close touches one market and keeps it Active.
LEMMA DisputeEarlyCloseMarket ==
  ASSUME BooksOK, NEW m \in MarketIds, NEW who \in Accounts, dispute_early_close(m, who)
  PROVE  Reschedules(m)
<1> DEFINE r == RestoredPeriod(BookOf(m))
           o == OpenBond(r, "close_dispute", who)
           b == [o EXCEPT !.mk.early_close.state = "Disputed"]
<1>1. /\ markets[m] # None /\ markets[m].status = "Active"
      /\ markets[m].early_close # None /\ Reschedule(m, b)
  BY Zenon DEF dispute_early_close, HasStatus
<1>2. BookOf(m) \in Books /\ BookOf(m).mk = markets[m]
  BY Zenon, <1>1, BookOfType
<1>3. r \in Books /\ r.mk.status = "Active" /\ r.mk.early_close # None
  BY Zenon, <1>1, <1>2, RestoredPeriodType
<1>4. o \in Books /\ o.mk.status = "Active" /\ o.mk.early_close # None
  <2> HIDE DEF r
  <2> QED BY Zenon, <1>3, OpenBondType, SettledFromFields DEF BondKinds
<1>5. b \in Books /\ b.mk.status = "Active"
  <2> HIDE DEF o
  <2> QED BY Zenon, <1>4, EarlyCloseStateType DEF EarlyCloseStates
<1>6. QED
  <2> HIDE DEF b
  <2> QED BY Zenon, <1>1, <1>5 DEF Reschedules

\* Settling the bonds of a rejected request gives a book of the same status and period.
LEMMA RejectedBonds ==
  ASSUME NEW b \in Books, HasBond(b.mk, "close_dispute") => HasBond(b.mk, "close_request")
  PROVE  SettledFrom(b, BondsOfRejectedRequest(b))
<1> DEFINE c == BondsOfRejectedRequest(b)
           p == repatriate_bond(b, "close_request", b.mk.bonds["close_dispute"].who)
<1>1. CASE HasBond(b.mk, "close_dispute")
  <2>1. b.mk.bonds["close_dispute"].who \in Holders
    <3>1. b.mk.bonds["close_dispute"] \in Bond
      BY Zenon, <1>1, BookParts DEF BondMap, HasBond, BondKinds
    <3>2. QED
      BY Zenon, <3>1 DEF Bond, Holders
  <2>2. SettledFrom(b, p)
    BY Zenon, <1>1, <2>1, SettleType DEF repatriate_bond, BondKinds
  <2>3. SettledFrom(p, unreserve_bond(p, "close_dispute"))
    <3> HIDE DEF p
    <3>1. p \in Books /\ HasBond(p.mk, "close_dispute")
      BY Zenon, <1>1, <2>2 DEF SettledFrom, BondKinds
    <3>2. QED
      BY Zenon, <3>1, UnreserveType DEF BondKinds
  <2>4. c = unreserve_bond(p, "close_dispute")
    BY Zenon, <1>1 DEF BondsOfRejectedRequest
  <2>5. SettledFrom(b, c)
    <3> HIDE DEF p, c
    <3> QED BY Zenon, <2>2, <2>3, <2>4, SettledFromTransitive
  <2>6. QED
    BY Zenon, <2>5
<1>2. CASE ~HasBond(b.mk, "close_dispute")
  BY Zenon, <1>2, SettledFromSame DEF BondsOfRejectedRequest
<1>3. QED
  BY Zenon, <1>1, <1>2

\* Settling and recording a rejected request gives a book of the same status.
LEMMA RejectedType ==
  ASSUME NEW b \in Books, b.mk.early_close # None,
         HasBond(b.mk, "close_dispute") => HasBond(b.mk, "close_request")
  PROVE  Rejected(b) \in Books /\ Rejected(b).mk.status = b.mk.status
         /\ Rejected(b).mk.period = b.mk.period
<1> DEFINE c == BondsOfRejectedRequest(b)
<1>1. SettledFrom(b, c)
  BY Zenon, RejectedBonds
<1>2. /\ c \in Books /\ c.mk.early_close # None
      /\ c.mk.status = b.mk.status /\ c.mk.period = b.mk.period
  <2> HIDE DEF c
  <2> QED BY Zenon, <1>1, SettledFromFields
<1> DEFINE d == [c EXCEPT !.mk.early_close.state = "Rejected"]
<1>3. d \in Books /\ d.mk.status = b.mk.status /\ d.mk.period = b.mk.period
  <2> HIDE DEF c
  <2> QED BY Zenon, <1>2, EarlyCloseStateType DEF EarlyCloseStates
<1>4. Rejected(b) = d
  BY Zenon DEF Rejected
<1>5. QED
  <2> HIDE DEF d
  <2> QED BY Zenon, <1>3, <1>4

(* A rejection either leaves period and queue alone or reschedules.        *)
LEMMA RejectEarlyCloseMarket ==
  ASSUME BooksOK, NEW m \in MarketIds, reject_early_close(m)
  PROVE  \/ Becomes(m, "Active", markets[m].period) /\ UNCHANGED queueVars
         \/ Reschedules(m)
<1>1. /\ markets[m] # None /\ markets[m].status = "Active" /\ markets[m].early_close # None
      /\ HasBond(markets[m], "close_dispute") => HasBond(markets[m], "close_request")
  BY Zenon DEF reject_early_close, HasStatus
<1>2. BookOf(m) \in Books /\ BookOf(m).mk = markets[m]
  BY Zenon, <1>1, BookOfType
<1>3. CASE PutBook(m, Rejected(BookOf(m))) /\ UNCHANGED queueVars
  BY <1>1, <1>2, <1>3, RejectedType, PutBookBecomes
<1>4. CASE Reschedule(m, Rejected(RestoredPeriod(BookOf(m))))
  <2> DEFINE r == RestoredPeriod(BookOf(m))
             b == Rejected(r)
  <2>1. /\ r \in Books /\ r.mk.status = "Active" /\ r.mk.early_close # None
        /\ HasBond(r.mk, "close_dispute") => HasBond(r.mk, "close_request")
    BY <1>1, <1>2, RestoredPeriodType DEF HasBond
  <2>2. b \in Books /\ b.mk.status = "Active"
    <3> HIDE DEF r
    <3> QED BY Zenon, <2>1, RejectedType
  <2>3. QED
    <3> HIDE DEF b
    <3> QED BY Zenon, <1>4, <2>2 DEF Reschedules, b
<1>5. QED
  BY Zenon, <1>3, <1>4 DEF reject_early_close

\* Recording a report gives a Reported book with the same period, creation and bonds.
LEMMA ReportedType ==
  ASSUME TimeOK, NEW b \in Books, NEW who \in Accounts, NEW outcome \in Outcomes
  PROVE  /\ Reported(b, who, outcome) \in Books
         /\ Reported(b, who, outcome).mk.status = "Reported"
         /\ Reported(b, who, outcome).mk.period = b.mk.period
         /\ Reported(b, who, outcome).mk.report # None
         /\ Reported(b, who, outcome).mk.creation = b.mk.creation
         /\ Reported(b, who, outcome).mk.bonds = b.mk.bonds
<1> DEFINE rep == [at |-> now, by |-> who, outcome |-> outcome]
           mk == [b.mk EXCEPT !.report = rep, !.status = "Reported"]
           c == [b EXCEPT !.mk = mk]
<1>1. b.mk \in MarketRecord
  BY Zenon, BookParts
<1>2. rep \in Report
  BY Zenon, ClockType DEF Report
<1>3. /\ mk \in MarketRecord /\ mk.status = "Reported" /\ mk.period = b.mk.period
      /\ mk.report = rep /\ mk.creation = b.mk.creation /\ mk.bonds = b.mk.bonds
  <2> HIDE DEF rep
  <2> QED BY Zenon, <1>1, <1>2 DEF MarketRecord, Statuses
<1>4. c \in Books /\ c.mk = mk
  <2> HIDE DEF mk
  <2> QED BY Zenon, <1>3, BookWithMarket
<1>5. Reported(b, who, outcome) = c
  BY Zenon DEF Reported, Books
<1>6. rep # None
  <2> HIDE DEF rep
  <2> QED BY Zenon, <1>2, NoneAssumption
<1>7. QED
  <2> HIDE DEF c, mk, rep
  <2> QED BY Zenon, <1>3, <1>4, <1>5, <1>6

\* report leaves a market that is Reported or Resolved and touches no other.
LEMMA ReportMarket ==
  ASSUME BooksOK, TimeOK, NEW m \in MarketIds, NEW who \in Accounts, NEW outcome \in Outcomes,
         report(m, who, outcome)
  PROVE  \E st \in {"Reported", "Resolved"} : Becomes(m, st, markets[m].period)
<1>1. markets[m] # None
  BY Zenon DEF report, HasStatus
<1>2. BookOf(m) \in Books /\ BookOf(m).mk = markets[m]
  BY Zenon, <1>1, BookOfType
<1>3. CASE report_market_with_dispute_mechanism(m, who, outcome)
  <2> DEFINE o == IF who # markets[m].oracle
                  THEN OpenBond(BookOf(m), "outsider", who) ELSE BookOf(m)
             b == Reported(o, who, outcome)
  <2>1. SettledFrom(BookOf(m), o)
    BY Zenon, <1>2, OpenBondType, SettledFromSame DEF BondKinds
  <2>2. o \in Books /\ o.mk.period = markets[m].period
    <3> HIDE DEF o
    <3> QED BY <1>2, <2>1, SettledFromFields
  <2>3. b \in Books /\ b.mk.status = "Reported" /\ b.mk.period = markets[m].period
    <3> HIDE DEF o
    <3> QED BY Zenon, <2>2, ReportedType
  <2>4. PutBook(m, b)
    BY Zenon, <1>3 DEF report_market_with_dispute_mechanism
  <2>5. QED
    <3> HIDE DEF b
    <3> QED BY Zenon, <2>3, <2>4, PutBookBecomes
<1>4. CASE report_and_resolve_market(m, who, outcome)
  <2> DEFINE o == Reported(BookOf(m), who, outcome)
             b == on_resolution(o, outcome)
  <2>1. /\ HasBond(markets[m], "oracle") /\ PutBook(m, b)
        /\ markets[m].creation = "Permissionless" => HasBond(markets[m], "creation")
    BY Zenon, <1>4 DEF report_and_resolve_market
  <2>2. /\ o \in Books /\ o.mk.period = markets[m].period /\ o.mk.report # None
        /\ o.mk.creation = markets[m].creation /\ o.mk.bonds = markets[m].bonds
    BY <1>2, ReportedType
  <2>3. b \in Books /\ b.mk.status = "Resolved" /\ b.mk.period = markets[m].period
    <3> HIDE DEF o
    <3>1. /\ HasBond(o.mk, "oracle")
          /\ o.mk.creation = "Permissionless" => HasBond(o.mk, "creation")
      BY Zenon, <2>1, <2>2 DEF HasBond
    <3>2. QED
      BY Zenon, <2>2, <3>1, OnResolutionType
  <2>4. QED
    <3> HIDE DEF b
    <3> QED BY Zenon, <2>1, <2>3, PutBookBecomes
<1>5. QED
  BY Zenon, <1>3, <1>4 DEF report

\* dispute leaves a Disputed market and touches no other.
LEMMA DisputeMarket ==
  ASSUME BooksOK, NEW m \in MarketIds, NEW who \in Accounts, dispute(m, who)
  PROVE  Becomes(m, "Disputed", markets[m].period)
<1> DEFINE o == OpenBond(BookOf(m), "dispute", who)
           mk == [o.mk EXCEPT !.status = "Disputed"]
           b == [o EXCEPT !.mk = mk]
<1>1. markets[m] # None /\ PutBook(m, Disputed(BookOf(m), who))
  BY Zenon DEF dispute, HasStatus, DisputeAuthorized, DisputeCourt
<1>2. BookOf(m) \in Books /\ BookOf(m).mk = markets[m]
  BY Zenon, <1>1, BookOfType
<1>3. SettledFrom(BookOf(m), o)
  BY Zenon, <1>2, OpenBondType DEF BondKinds
<1>4. o \in Books /\ o.mk \in MarketRecord /\ o.mk.period = markets[m].period
  <2> HIDE DEF o
  <2> QED BY <1>2, <1>3, SettledFromFields, BookParts
<1>5. mk \in MarketRecord /\ mk.status = "Disputed" /\ mk.period = markets[m].period
  <2> HIDE DEF o
  <2> QED BY Zenon, <1>4, MarketWithStatus DEF Statuses
<1>6. b \in Books /\ b.mk = mk
  <2> HIDE DEF o, mk
  <2> QED BY Zenon, <1>4, <1>5, BookWithMarket
<1>7. Disputed(BookOf(m), who) = b
  BY Zenon DEF Disputed
<1>8. QED
  <2> HIDE DEF b, mk
  <2> QED BY Zenon, <1>1, <1>5, <1>6, <1>7, PutBookBecomes

(* get_resolved_outcome finds an outcome whenever resolution succeeds.     *)
LEMMA ResolvedOutcomeType ==
  ASSUME BooksOK, DisputesOK, NEW m \in MarketIds, ResolutionSucceeds(m)
  PROVE  get_resolved_outcome(m) \in Outcomes
<1>1. /\ markets[m] \in MarketRecord /\ markets[m].report # None
      /\ markets[m].status = "Disputed" /\ markets[m].dispute_mechanism = "Court"
           => Courts[m] # None
  BY Zenon DEF BooksOK, ResolutionSucceeds
<1>2. markets[m].report.outcome \in Outcomes
  <2>1. markets[m].report \in Report
    BY Zenon, <1>1 DEF MarketRecord
  <2>2. QED
    BY Zenon, <2>1 DEF Report
<1>3. AuthorizedOutcomeReports[m] # None => AuthorizedOutcomeReports[m].outcome \in Outcomes
  BY Zenon DEF DisputesOK, AuthorityReport
<1>4. Courts[m] # None => Courts[m].winner \in Outcomes \cup {None}
  BY Zenon DEF DisputesOK, Court
<1>5. QED
  BY Zenon, <1>1, <1>2, <1>3, <1>4 DEF get_resolved_outcome

\* on_resolution leaves a Resolved book.
LEMMA ResolvedBookType ==
  ASSUME BooksOK, DisputesOK, NEW m \in MarketIds, ResolutionSucceeds(m)
  PROVE  /\ ResolvedBook(m) \in Books
         /\ ResolvedBook(m).mk.status = "Resolved"
         /\ ResolvedBook(m).mk.period = markets[m].period
<1>1. /\ markets[m] # None /\ markets[m].report # None /\ HasBond(markets[m], "oracle")
      /\ markets[m].creation = "Permissionless" => HasBond(markets[m], "creation")
  BY Zenon DEF ResolutionSucceeds
<1>2. BookOf(m) \in Books /\ BookOf(m).mk = markets[m]
  BY Zenon, <1>1, BookOfType
<1>3. get_resolved_outcome(m) \in Outcomes
  BY Zenon, ResolvedOutcomeType
<1>4. QED
  BY <1>1, <1>2, <1>3, OnResolutionType DEF ResolvedBook

(* The market that create_market and edit_market construct.                *)
LEMMA ConstructMarketType ==
  ASSUME NEW creation \in {"Permissionless", "Advised"}, NEW creator \in Accounts,
         NEW oracle \in Accounts, NEW mechanism \in {None, "Authorized", "Court"},
         NEW period \in Period, NEW deadlines \in Deadlines, NEW bonds \in BondMap
  PROVE  LET mk == construct_market(creation, creator, oracle, mechanism, period, deadlines, bonds)
         IN  mk \in MarketRecord /\ mk.period = period /\ mk.status \in {"Active", "Proposed"}
  BY SMTT(30) DEF construct_market, MarketRecord, BondMap, Statuses

\* create_market stores an Active or Proposed market under the next id and touches no other.
LEMMA CreateMarketMarket ==
  ASSUME BooksOK, IdsOK, NEW who \in Accounts, NEW oracle \in Accounts,
         NEW creation \in Creations, NEW mechanism \in Mechanisms,
         NEW period \in Periods, NEW deadlines \in DeadlineChoices,
         create_market(who, oracle, creation, mechanism, period, deadlines)
  PROVE  /\ MarketCounter \in MarketIds
         /\ \E st \in {"Active", "Proposed"} : Becomes(MarketCounter, st, period)
<1> DEFINE m == MarketCounter
           none == [k \in BondKinds |-> None]
           mk == construct_market(creation, who, oracle, mechanism, period, deadlines, none)
           n == Book(mk, none, {})
           c == OpenBond(n, "creation", who)
           b == OpenBond(c, "oracle", who)
<1>1. m \in MarketIds
  BY InputAssumption DEF IdsOK, MarketIds, create_market, build_market
<1>2. none \in BondMap /\ none \in HolderMap
  BY Zenon DEF BondMap, HolderMap, Holders
<1>3. mk \in MarketRecord /\ mk.period = period /\ mk.status \in {"Active", "Proposed"}
  <2> HIDE DEF none
  <2> QED BY <1>2, InputAssumption, ConstructMarketType
<1>4. n \in Books /\ n.mk = mk
  <2> HIDE DEF none, mk
  <2> QED BY Zenon, <1>2, <1>3 DEF Book, Books, HolderMap
<1>5. SettledFrom(n, c)
  <2> HIDE DEF n
  <2> QED BY Zenon, <1>4, OpenBondType DEF BondKinds
<1>6. SettledFrom(c, b)
  <2> HIDE DEF c
  <2>1. c \in Books
    BY Zenon, <1>5 DEF SettledFrom
  <2>2. QED
    BY Zenon, <2>1, OpenBondType DEF BondKinds
<1>7. b \in Books /\ b.mk.period = period /\ b.mk.status \in {"Active", "Proposed"}
  <2> HIDE DEF b, c, n, mk
  <2>1. SettledFrom(n, b)
    BY Zenon, <1>4, <1>5, <1>6, SettledFromTransitive
  <2>2. QED
    BY Zenon, <1>3, <1>4, <2>1, SettledFromFields
<1>8. PutBook(m, b)
  BY SMTT(30) DEF create_market, build_market
<1>9. QED
  <2> HIDE DEF b
  <2> QED BY Zenon, <1>1, <1>7, <1>8, PutBookBecomes

\* edit_market stores a Proposed market and touches no other.
LEMMA EditMarketMarket ==
  ASSUME BooksOK, NEW m \in MarketIds, NEW oracle \in Accounts, NEW mechanism \in Mechanisms,
         NEW period \in Periods, NEW deadlines \in DeadlineChoices,
         edit_market(m, oracle, mechanism, period, deadlines)
  PROVE  \E st \in {"Active", "Proposed"} : Becomes(m, st, period)
<1> DEFINE mk == construct_market(markets[m].creation, markets[m].creator, oracle, mechanism,
                                  period, deadlines, markets[m].bonds)
<1>1. /\ markets[m] \in MarketRecord
      /\ markets' = [markets EXCEPT ![m] = mk] /\ UNCHANGED <<held, asserts>>
  BY Zenon DEF edit_market, HasStatus, BooksOK
<1>2. /\ markets[m].creation \in {"Permissionless", "Advised"} /\ markets[m].creator \in Accounts
      /\ markets[m].bonds \in BondMap
  BY Zenon, <1>1 DEF MarketRecord, BondMap
<1>3. mk \in MarketRecord /\ mk.period = period /\ mk.status \in {"Active", "Proposed"}
  BY <1>2, InputAssumption, ConstructMarketType
<1>4. QED
  <2> HIDE DEF mk
  <2> QED BY Zenon, <1>1, <1>3, NoneAssumption DEF Becomes, BooksOK, OthersUnchanged

\* Changing nothing but the status of a market keeps its period and touches no other.
LEMMA StatusMarket ==
  ASSUME BooksOK, NEW m \in MarketIds, markets[m] # None, NEW st \in Statuses,
         markets' = [markets EXCEPT ![m].status = st], UNCHANGED <<held, asserts>>
  PROVE  Becomes(m, st, markets[m].period)
<1> DEFINE mk == [markets[m] EXCEPT !.status = st]
<1>1. mk \in MarketRecord /\ mk.status = st /\ mk.period = markets[m].period
  BY MarketWithStatus DEF BooksOK
<1>2. markets' = [markets EXCEPT ![m] = mk]
  BY Zenon DEF BooksOK
<1>3. QED
  <2> HIDE DEF mk
  <2> QED BY Zenon, <1>1, <1>2, NoneAssumption DEF Becomes, BooksOK, OthersUnchanged

\* admin_update_market_oracle keeps the status and the period of the market.
LEMMA UpdateOracleMarket ==
  ASSUME BooksOK, NEW m \in MarketIds, NEW oracle \in Accounts,
         admin_update_market_oracle(m, oracle)
  PROVE  Becomes(m, "Closed", markets[m].period)
<1> DEFINE mk == [markets[m] EXCEPT !.oracle = oracle]
<1>1. markets[m] \in MarketRecord /\ markets[m].status = "Closed"
  BY Zenon DEF admin_update_market_oracle, HasStatus, BooksOK
<1>2. mk \in MarketRecord /\ mk.status = "Closed" /\ mk.period = markets[m].period
  BY Zenon, <1>1 DEF MarketRecord
<1>3. markets' = [markets EXCEPT ![m] = mk] /\ UNCHANGED <<held, asserts>>
  BY SMTT(30) DEF admin_update_market_oracle
<1>4. QED
  <2> HIDE DEF mk
  <2> QED BY Zenon, <1>2, <1>3, NoneAssumption DEF Becomes, BooksOK, OthersUnchanged

(* The hook closes or removes the markets that are due to close, resolves  *)
(* those that are due to resolve, and touches no other.                    *)
LEMMA HookMarkets ==
  ASSUME BooksOK, DisputesOK, OnInitializeCommits
  PROVE  /\ BooksOK'
         /\ \A m \in MarketIds :
              /\ m \in Closing =>
                   \/ markets'[m] = None /\ HasStatus(m, "Proposed")
                   \/ HasStatus(m, "Active") /\ markets'[m] # None /\ markets'[m].status = "Closed"
              /\ m \in Resolving \ Closing =>
                   /\ ~HasStatus(m, "Active") /\ ~HasStatus(m, "Proposed")
                   /\ markets'[m] # None /\ markets'[m].status = "Resolved"
              /\ m \notin Resolving \cup Closing => markets'[m] = markets[m]
<1>1. ASSUME NEW m \in MarketIds, m \in Closing
      PROVE  /\ BookAfterHook(m).mk \in MarketRecord \cup {None}
             /\ BookAfterHook(m).held \in HolderMap
             /\ BookAfterHook(m).asserts \in SUBSET DebugAsserts
             /\ \/ BookAfterHook(m).mk = None /\ HasStatus(m, "Proposed")
                \/ /\ HasStatus(m, "Active") /\ BookAfterHook(m).mk # None
                   /\ BookAfterHook(m).mk.status = "Closed"
  <2>1. /\ HasStatus(m, "Active") \/ HasStatus(m, "Proposed")
        /\ HasStatus(m, "Proposed") =>
             HasBond(markets[m], "creation") /\ HasBond(markets[m], "oracle")
    BY Zenon, <1>1 DEF OnInitializeCommits, ClosingSucceeds
  <2>2. BookOf(m) \in Books /\ BookOf(m).mk = markets[m] /\ markets[m] \in MarketRecord
    BY Zenon, <2>1, BookOfType, BookParts DEF HasStatus
  <2>3. CASE HasStatus(m, "Active")
    <3> DEFINE c == close_market(BookOf(m))
    <3>1. c \in Books /\ c.mk = [markets[m] EXCEPT !.status = "Closed"]
      BY Zenon, <2>2, CloseMarketType
    <3>2. BookAfterHook(m) = c
      BY Zenon, <1>1, <2>3 DEF BookAfterHook, on_market_close, HasStatus
    <3>3. /\ c.mk \in MarketRecord /\ c.mk.status = "Closed"
          /\ c.held \in HolderMap /\ c.asserts \in SUBSET DebugAsserts
      <4> HIDE DEF c
      <4> QED BY Zenon, <2>2, <3>1, BookParts DEF MarketRecord
    <3>4. QED
      <4> HIDE DEF c
      <4> QED BY Zenon, <2>3, <3>2, <3>3, NoneAssumption
  <2>4. CASE HasStatus(m, "Proposed")
    <3>1. BookAfterHook(m) = handle_expired_advised_market(BookOf(m))
      BY Zenon, <1>1, <2>4 DEF BookAfterHook, on_market_close, HasStatus
    <3>2. QED
      BY Zenon, <2>1, <2>2, <2>4, <3>1, ExpiredType
  <2>5. QED
    BY Zenon, <2>1, <2>3, <2>4
<1>2. ASSUME NEW m \in MarketIds, m \in Resolving \ Closing
      PROVE  /\ BookAfterHook(m) \in Books /\ BookAfterHook(m).mk # None
             /\ BookAfterHook(m).mk.status = "Resolved"
             /\ ~HasStatus(m, "Active") /\ ~HasStatus(m, "Proposed")
  <2>1. ResolutionSucceeds(m)
    BY Zenon, <1>2 DEF OnInitializeCommits, ResolvingSucceeds
  <2>2. ResolvedBook(m) \in Books /\ ResolvedBook(m).mk.status = "Resolved"
    BY Zenon, <2>1, ResolvedBookType
  <2>3. ResolvedBook(m).mk # None
    BY Zenon, <2>2, BookParts, NoneAssumption
  <2>4. QED
    BY Zenon, <1>2, <2>1, <2>2, <2>3 DEF BookAfterHook, HasStatus, ResolutionSucceeds
<1>3. ASSUME NEW m \in MarketIds, m \notin Resolving \cup Closing
      PROVE  /\ BookAfterHook(m).mk = markets[m] /\ BookAfterHook(m).held = held[m]
             /\ BookAfterHook(m).asserts = asserts[m]
  BY Zenon, <1>3 DEF BookAfterHook, BookOf, Book
<1>4. \A m \in MarketIds : /\ BookAfterHook(m).mk \in MarketRecord \cup {None}
                           /\ BookAfterHook(m).held \in HolderMap
                           /\ BookAfterHook(m).asserts \in SUBSET DebugAsserts
  <2> TAKE m \in MarketIds
  <2>1. CASE m \in Closing
    BY Zenon, <1>1, <2>1
  <2>2. CASE m \in Resolving \ Closing
    BY Zenon, <1>2, <2>2, BookParts
  <2>3. CASE m \notin Resolving \cup Closing
    BY Zenon, <1>3, <2>3 DEF BooksOK
  <2>4. QED
    BY Zenon, <2>1, <2>2, <2>3
<1>5. /\ markets' = [m \in MarketIds |-> BookAfterHook(m).mk]
      /\ held' = [m \in MarketIds |-> BookAfterHook(m).held]
      /\ asserts' = [m \in MarketIds |-> BookAfterHook(m).asserts]
  BY Zenon DEF OnInitializeCommits
<1>6. BooksOK'
  BY Zenon, <1>4, <1>5 DEF BooksOK
<1>7. \A m \in MarketIds : markets'[m] = BookAfterHook(m).mk
  BY Zenon, <1>5
<1>8. QED
  BY ZenonT(30), <1>1, <1>2, <1>3, <1>6, <1>7

-----------------------------------------------------------------------------
(* Types *)

(* What is left alone keeps its type.                                      *)
LEMMA FrameTypes ==
  /\ UNCHANGED marketVars /\ BooksOK => BooksOK'
  /\ UNCHANGED idVars /\ IdsOK => IdsOK'
  /\ UNCHANGED queueVars /\ QueuesOK => QueuesOK'
  /\ UNCHANGED disputeVars /\ DisputesOK => DisputesOK'
  /\ UNCHANGED timeVars /\ TimeOK => TimeOK'
<1>1. UNCHANGED marketVars /\ BooksOK => BooksOK'
  BY Zenon DEF marketVars, BooksOK
<1>2. UNCHANGED idVars /\ IdsOK => IdsOK'
  BY Zenon DEF idVars, IdsOK
<1>3. UNCHANGED queueVars /\ QueuesOK => QueuesOK'
  BY Zenon DEF queueVars, QueuesOK
<1>4. UNCHANGED disputeVars /\ DisputesOK => DisputesOK'
  BY Zenon DEF disputeVars, DisputesOK
<1>5. UNCHANGED timeVars /\ TimeOK => TimeOK'
  BY Zenon DEF timeVars, TimeOK
<1>6. QED
  BY Zenon, <1>1, <1>2, <1>3, <1>4, <1>5

\* Moving a market to another slot of the close queue preserves TypeOK.
LEMMA RescheduleTypes ==
  ASSUME TypeOK, NEW m \in MarketIds, NEW b \in Books, Reschedule(m, b)
  PROVE  TypeOK'
<1>1. BooksOK /\ IdsOK /\ QueuesOK /\ DisputesOK /\ TimeOK
  BY Zenon, TypeParts
<1>2. BooksOK'
  BY Zenon, <1>1, PutBookOfBooks DEF Reschedule
<1>3. QueuesOK'
  <2> DEFINE cleared == clear_auto_close(MarketIdsPerClose, m, markets[m])
  <2>1. cleared \in [CloseSlots -> Ids]
    BY Zenon, <1>1, ClearAutoCloseType DEF QueuesOK
  <2>2. /\ MarketIdsPerClose' = insert_auto_close(cleared, m, b.mk)
        /\ UNCHANGED <<MarketIdsPerReportBlock, MarketIdsPerDisputeBlock>>
    BY Zenon DEF Reschedule
  <2>3. QED
    <3> HIDE DEF cleared
    <3> QED BY Zenon, <1>1, <2>1, <2>2, InsertAutoCloseType DEF QueuesOK
<1>4. IdsOK' /\ DisputesOK' /\ TimeOK'
  BY Zenon, <1>1, FrameTypes DEF Reschedule
<1>5. QED
  BY Zenon, <1>2, <1>3, <1>4, TypeParts

\* Closing a market by hand preserves TypeOK.
LEMMA CloseNowTypes ==
  ASSUME TypeOK, NEW m \in MarketIds, markets[m] # None, CloseNow(m)
  PROVE  TypeOK'
<1>1. BooksOK /\ IdsOK /\ QueuesOK /\ DisputesOK /\ TimeOK
  BY Zenon, TypeParts
<1>2. BooksOK'
  BY Zenon, <1>1, CloseNowMarket DEF Becomes
<1>3. QueuesOK'
  BY Zenon, <1>1, ClearAutoCloseType DEF QueuesOK, CloseNow
<1>4. IdsOK' /\ DisputesOK' /\ TimeOK'
  BY Zenon, <1>1, FrameTypes DEF CloseNow
<1>5. QED
  BY Zenon, <1>2, <1>3, <1>4, TypeParts

\* A court round has the type of a court.
LEMMA RoundType ==
  ASSUME TimeOK, NEW appeals \in Nat, NEW request_block \in RequestBlocks
  PROVE  Round(appeals, request_block) \in Court
<1>1. request_block \in Nat
  BY ClockType, PeriodAssumption DEF RequestBlocks
<1>2. QED
  BY <1>1, PeriodAssumption DEF Round, Court

\* Dropping the authority's reports of resolved markets keeps their type.
LEMMA ReportsAfterResolutionType ==
  ASSUME DisputesOK, NEW R
  PROVE  ReportsAfterResolution(R)
           \in [MarketIds -> AuthorityReport \cup {None}]
  BY Zenon DEF DisputesOK, ReportsAfterResolution

\* on_initialize, committed or rolled back, and the new timestamp preserve TypeOK.
LEMMA NewBlockTypes ==
  ASSUME TypeOK, NewBlock
  PROVE  TypeOK'
<1>1. BooksOK /\ IdsOK /\ QueuesOK /\ DisputesOK /\ TimeOK
  BY Zenon, TypeParts
<1>2. now' \in Blocks /\ moment' \in Moments
  BY Zenon DEF NewBlock, SetTimestamp
<1>3. CASE OnInitializeCommits
  <2>1. BooksOK'
    BY Zenon, <1>1, <1>3, HookMarkets
  <2>2. IdsOK'
    BY Zenon, <1>1, <1>3 DEF OnInitializeCommits, IdsOK
  <2>3. QueuesOK'
    <3>1. NoIds \in Ids
      BY Zenon DEF NoIds, Ids
    <3>2. QED
      <4> HIDE DEF NoIds, Ids
      <4> QED BY Zenon, <1>1, <1>3, <3>1 DEF OnInitializeCommits, QueuesOK
  <2>4. DisputesOK'
    BY Zenon, <1>1, <1>3, ReportsAfterResolutionType DEF OnInitializeCommits, DisputesOK
  <2>5. TimeOK'
    <3>1. CurrentTimeFrame \in Nat
      BY <1>1, ClockType, TimeFrameType DEF CurrentTimeFrame
    <3>2. LastTimeFrame' \in Nat \cup {None} /\ UNCHANGED rolledBack
      BY Zenon, <1>3, <3>1 DEF OnInitializeCommits
    <3>3. QED
      BY <1>1, <1>2, <3>2, Zenon DEF TimeOK
  <2>6. QED
    BY Zenon, <2>1, <2>2, <2>3, <2>4, <2>5, TypeParts
<1>4. CASE OnInitializeRollsBack
  <2>1. BooksOK' /\ IdsOK' /\ QueuesOK' /\ DisputesOK'
    BY Zenon, <1>1, <1>4, FrameTypes DEF OnInitializeRollsBack
  <2>2. TimeOK'
    BY <1>1, <1>2, <1>4, Zenon DEF OnInitializeRollsBack, TimeOK
  <2>3. QED
    BY Zenon, <2>1, <2>2, TypeParts
<1>5. QED
  BY Zenon, <1>3, <1>4 DEF NewBlock

\* create_market preserves TypeOK.
LEMMA CreateMarketTypes ==
  ASSUME TypeOK, CreateMarket
  PROVE  TypeOK'
<1>1. BooksOK /\ IdsOK /\ QueuesOK /\ DisputesOK /\ TimeOK
  BY Zenon, TypeParts
<1>2. PICK who \in Accounts, oracle \in Accounts, creation \in Creations,
           mechanism \in Mechanisms, period \in Periods, deadlines \in DeadlineChoices :
             create_market(who, oracle, creation, mechanism, period, deadlines)
  BY Zenon DEF CreateMarket
<1>3. MarketCounter \in MarketIds /\ BooksOK'
  BY Zenon, <1>1, <1>2, CreateMarketMarket DEF Becomes
<1>4. IdsOK'
  BY <1>1, <1>2, InputAssumption DEF create_market, build_market, IdsOK
<1>5. QueuesOK'
  BY Zenon, <1>1, <1>2, <1>3, InsertAutoCloseType DEF create_market, build_market, QueuesOK
<1>6. DisputesOK' /\ TimeOK'
  BY Zenon, <1>1, <1>2, FrameTypes DEF create_market, build_market
<1>7. QED
  BY Zenon, <1>3, <1>4, <1>5, <1>6, TypeParts

\* admin_move_market_to_resolved preserves TypeOK.
LEMMA AdminResolvedTypes ==
  ASSUME TypeOK, NEW m \in MarketIds, admin_move_market_to_resolved(m)
  PROVE  TypeOK'
<1>1. BooksOK /\ IdsOK /\ QueuesOK /\ DisputesOK /\ TimeOK
  BY Zenon, TypeParts
<1>2. BooksOK'
  BY Zenon, <1>1, ResolvedBookType, PutBookOfBooks DEF admin_move_market_to_resolved
<1>3. QueuesOK'
  <2>1. ClearAutoResolve(m) /\ UNCHANGED MarketIdsPerClose
    BY Zenon DEF admin_move_market_to_resolved
  <2>2. QED
    BY Zenon, <1>1, <2>1, RemoveItemType DEF ClearAutoResolve, QueuesOK
<1>4. DisputesOK'
  BY Zenon, <1>1, ReportsAfterResolutionType DEF admin_move_market_to_resolved, DisputesOK
<1>5. UNCHANGED idVars /\ UNCHANGED timeVars
  BY Zenon DEF admin_move_market_to_resolved
<1>6. QED
  BY Zenon, <1>1, <1>2, <1>3, <1>4, <1>5, FrameTypes, TypeParts

\* Every call on one market preserves TypeOK.
LEMMA MarketStepTypes ==
  ASSUME TypeOK, NEW m \in MarketIds, MarketStep(m)
  PROVE  TypeOK'
<1>1. BooksOK /\ IdsOK /\ QueuesOK /\ DisputesOK /\ TimeOK
  BY Zenon, TypeParts
<1>2. CASE approve_market(m)
  <2>1. BooksOK'
    BY Zenon, <1>1, <1>2, ApproveMarket DEF Becomes
  <2>2. QED
    BY Zenon, <1>1, <1>2, <2>1, FrameTypes, TypeParts DEF approve_market
<1>3. CASE request_edit(m)
  <2>1. IdsOK'
    BY Zenon, <1>1, <1>3 DEF request_edit, IdsOK
  <2>2. QED
    BY Zenon, <1>1, <1>3, <2>1, FrameTypes, TypeParts DEF request_edit
<1>4. CASE EditMarket(m)
  <2>1. PICK oracle \in Accounts, mechanism \in Mechanisms, period \in Periods,
             deadlines \in DeadlineChoices : edit_market(m, oracle, mechanism, period, deadlines)
    BY Zenon, <1>4 DEF EditMarket
  <2>2. BooksOK'
    BY Zenon, <1>1, <2>1, EditMarketMarket DEF Becomes
  <2>3. QueuesOK'
    <3> DEFINE cleared == clear_auto_close(MarketIdsPerClose, m, markets[m])
    <3>1. cleared \in [CloseSlots -> Ids]
      BY Zenon, <1>1, ClearAutoCloseType DEF QueuesOK
    <3>2. PICK mk : MarketIdsPerClose' = insert_auto_close(cleared, m, mk)
      BY Zenon, <2>1 DEF edit_market
    <3>3. UNCHANGED <<MarketIdsPerReportBlock, MarketIdsPerDisputeBlock>>
      BY Zenon, <2>1 DEF edit_market
    <3>4. QED
      <4> HIDE DEF cleared
      <4> QED BY Zenon, <1>1, <3>1, <3>2, <3>3, InsertAutoCloseType DEF QueuesOK
  <2>4. IdsOK'
    BY Zenon, <1>1, <2>1 DEF edit_market, IdsOK
  <2>5. QED
    BY Zenon, <1>1, <2>1, <2>2, <2>3, <2>4, FrameTypes, TypeParts DEF edit_market
<1>5. CASE reject_market(m)
  <2>1. BooksOK'
    BY Zenon, <1>1, <1>5, RejectMarket
  <2>2. QueuesOK'
    BY Zenon, <1>1, <1>5, ClearAutoCloseType DEF reject_market, QueuesOK
  <2>3. IdsOK'
    BY Zenon, <1>1, <1>5 DEF reject_market, IdsOK
  <2>4. QED
    BY Zenon, <1>1, <1>5, <2>1, <2>2, <2>3, FrameTypes, TypeParts DEF reject_market
<1>6. CASE \/ admin_move_market_to_closed(m)
           \/ \E who \in Accounts : close_trusted_market(m, who)
           \/ manually_close_market(m)
  BY Zenon, <1>6, CloseNowTypes DEF admin_move_market_to_closed, close_trusted_market,
                             manually_close_market, CanCloseManually, HasStatus
<1>7. CASE Reschedules(m)
  BY Zenon, <1>7, RescheduleTypes DEF Reschedules
<1>8. CASE schedule_early_close(m) \/ \E who \in Accounts : dispute_early_close(m, who)
  BY Zenon, <1>1, <1>7, <1>8, ScheduleAsMarketCreatorMarket, ScheduleAsOtherMarket,
     DisputeEarlyCloseMarket DEF schedule_early_close
<1>9. CASE reject_early_close(m)
  <2>1. CASE Becomes(m, "Active", markets[m].period) /\ UNCHANGED queueVars
    <3>1. IdsOK' /\ DisputesOK' /\ TimeOK'
      BY Zenon, <1>1, <1>9, FrameTypes DEF reject_early_close, Reschedule
    <3>2. QED
      BY Zenon, <1>1, <2>1, <3>1, FrameTypes, TypeParts DEF Becomes
  <2>2. QED
    BY Zenon, <1>1, <1>7, <1>9, <2>1, RejectEarlyCloseMarket
<1>10. CASE \E who \in Accounts, outcome \in Outcomes : report(m, who, outcome)
  <2>1. PICK who \in Accounts, outcome \in Outcomes : report(m, who, outcome)
    BY Zenon, <1>10
  <2>2. BooksOK'
    BY Zenon, <1>1, <2>1, ReportMarket DEF Becomes
  <2>3. CASE report_market_with_dispute_mechanism(m, who, outcome)
    <3>1. QueuesOK'
      BY Zenon, <1>1, <2>3, PushType DEF report_market_with_dispute_mechanism, QueuesOK
    <3>2. QED
      BY Zenon, <1>1, <2>2, <2>3, <3>1, FrameTypes, TypeParts
         DEF report_market_with_dispute_mechanism
  <2>4. CASE report_and_resolve_market(m, who, outcome)
    BY Zenon, <1>1, <2>2, <2>4, FrameTypes, TypeParts DEF report_and_resolve_market
  <2>5. QED
    BY Zenon, <2>1, <2>3, <2>4 DEF report
<1>11. CASE \E oracle \in Accounts : admin_update_market_oracle(m, oracle)
  <2>1. BooksOK'
    BY Zenon, <1>1, <1>11, UpdateOracleMarket DEF Becomes
  <2>2. QED
    BY Zenon, <1>1, <1>11, <2>1, FrameTypes, TypeParts DEF admin_update_market_oracle
<1>12. CASE \E who \in Accounts : dispute(m, who)
  <2>1. PICK who \in Accounts : dispute(m, who)
    BY Zenon, <1>12
  <2>2. BooksOK'
    BY Zenon, <1>1, <2>1, DisputeMarket DEF Becomes
  <2>3. CASE DisputeAuthorized(m, who)
    BY Zenon, <1>1, <2>2, <2>3, FrameTypes, TypeParts DEF DisputeAuthorized
  <2>4. CASE DisputeCourt(m, who)
    <3>1. PICK request_block \in RequestBlocks :
            /\ MarketIdsPerDisputeBlock'
                 = Push(MarketIdsPerDisputeBlock, Round(0, request_block).appeal, m)
            /\ Courts' = [Courts EXCEPT ![m] = Round(0, request_block)]
      BY Zenon, <2>4 DEF DisputeCourt
    <3>2. QueuesOK'
      BY Zenon, <1>1, <2>4, <3>1, PushType DEF DisputeCourt, QueuesOK
    <3>3. Round(0, request_block) \in Court
      BY Zenon, <1>1, RoundType
    <3>4. DisputesOK'
      <4>1. Courts' \in [MarketIds -> Court \cup {None}]
        BY Zenon, <1>1, <3>1, <3>3 DEF DisputesOK
      <4>2. /\ MarketIdToCourtId' = MarketIdToCourtId \cup {m}
            /\ UNCHANGED <<AuthorizedOutcomeReports, GlobalDisputesInfo>>
        BY Zenon, <2>4 DEF DisputeCourt
      <4>3. QED
        BY Zenon, <1>1, <4>1, <4>2 DEF DisputesOK
    <3>5. QED
      BY Zenon, <1>1, <2>2, <2>4, <3>2, <3>4, FrameTypes, TypeParts DEF DisputeCourt
  <2>5. QED
    BY Zenon, <2>1, <2>3, <2>4 DEF dispute
<1>13. CASE \E outcome \in Outcomes : authorize_market_outcome(m, outcome)
  <2>1. PICK outcome \in Outcomes : authorize_market_outcome(m, outcome)
    BY Zenon, <1>13
  <2> DEFINE resolve_at == IF AuthorizedOutcomeReports[m] = None THEN now + CorrectionPeriod
                           ELSE AuthorizedOutcomeReports[m].resolve_at
  <2>2. resolve_at \in Nat
    BY SMTT(30), <1>1, ClockType, PeriodAssumption DEF DisputesOK, AuthorityReport
  <2>3. AuthorizedOutcomeReports' =
          [AuthorizedOutcomeReports EXCEPT ![m] = [resolve_at |-> resolve_at, outcome |-> outcome]]
    BY Zenon, <2>1 DEF authorize_market_outcome
  <2>4. DisputesOK'
    <3>1. UNCHANGED <<MarketIdToCourtId, Courts, GlobalDisputesInfo>>
      BY Zenon, <2>1 DEF authorize_market_outcome
    <3>2. QED
      <4> HIDE DEF resolve_at
      <4> QED BY Zenon, <1>1, <2>2, <2>3, <3>1 DEF DisputesOK, AuthorityReport
  <2>5. QueuesOK'
    BY <1>1, <2>1, PushType DEF authorize_market_outcome, QueuesOK
  <2>6. QED
    BY Zenon, <1>1, <2>1, <2>4, <2>5, FrameTypes, TypeParts DEF authorize_market_outcome
<1>14. CASE \E outcome \in Outcomes : reveal_vote(m, outcome)
  <2>1. PICK outcome \in Outcomes : reveal_vote(m, outcome)
    BY Zenon, <1>14
  <2> DEFINE court == [Courts[m] EXCEPT !.winner = outcome]
  <2>2. court \in Court
    BY Zenon, <1>1, <2>1 DEF reveal_vote, DisputesOK, Court
  <2>3. DisputesOK'
    <3>1. /\ Courts' = [Courts EXCEPT ![m] = court]
          /\ UNCHANGED <<AuthorizedOutcomeReports, MarketIdToCourtId, GlobalDisputesInfo>>
      BY Zenon, <2>1 DEF reveal_vote
    <3>2. QED
      <4> HIDE DEF court
      <4> QED BY Zenon, <1>1, <2>2, <3>1 DEF DisputesOK
  <2>4. QED
    BY Zenon, <1>1, <2>1, <2>3, FrameTypes, TypeParts DEF reveal_vote
<1>15. CASE appeal(m)
  <2>1. Courts[m] \in Court
    BY Zenon, <1>1, <1>15 DEF appeal, DisputesOK
  <2>2. /\ UNCHANGED <<marketVars, idVars, timeVars>>
        /\ UNCHANGED <<MarketIdsPerClose, MarketIdsPerReportBlock>>
        /\ UNCHANGED <<AuthorizedOutcomeReports, MarketIdToCourtId, GlobalDisputesInfo>>
    BY Zenon, <1>15 DEF appeal
  <2>3. QueuesOK' /\ DisputesOK'
    <3>1. CASE Courts[m].appeals + 1 < MaxAppeals
      <4>1. PICK request_block \in RequestBlocks :
              LET round == Round(Courts[m].appeals + 1, request_block) IN
              /\ Courts' = [Courts EXCEPT ![m] = round]
              /\ MarketIdsPerDisputeBlock' =
                   remove_item(Push(MarketIdsPerDisputeBlock, round.appeal, m), Courts[m].appeal, m)
        BY SMTT(30), <1>15, <2>1, <3>1, PeriodAssumption DEF appeal, Court
      <4> DEFINE round == Round(Courts[m].appeals + 1, request_block)
                 pushed == Push(MarketIdsPerDisputeBlock, round.appeal, m)
      <4>2. round \in Court
        BY SMTT(30), <1>1, <2>1, RoundType DEF Court
      <4>3. pushed \in [Blocks -> Ids]
        BY SMTT(30), <1>1, PushType DEF QueuesOK
      <4>4. MarketIdsPerDisputeBlock' \in [Blocks -> Ids]
        <5>1. MarketIdsPerDisputeBlock' = remove_item(pushed, Courts[m].appeal, m)
          BY Zenon, <4>1
        <5> HIDE DEF pushed
        <5> QED BY ZenonT(30), <4>3, <5>1, RemoveItemType
      <4>5. Courts' \in [MarketIds -> Court \cup {None}]
        <5>1. Courts' = [Courts EXCEPT ![m] = round]
          BY Zenon, <4>1
        <5> HIDE DEF round
        <5> QED BY ZenonT(30), <1>1, <4>2, <5>1 DEF DisputesOK
      <4>6. QED
        BY Zenon, <1>1, <2>2, <4>4, <4>5 DEF QueuesOK, DisputesOK
    <3>2. CASE Courts[m].appeals + 1 = MaxAppeals
      <4> DEFINE court == [Courts[m] EXCEPT !.appeals = Courts[m].appeals + 1]
      <4>1. court \in Court
        BY <2>1 DEF Court
      <4>2. /\ Courts' = [Courts EXCEPT ![m] = court]
            /\ MarketIdsPerDisputeBlock' = remove_item(MarketIdsPerDisputeBlock, Courts[m].appeal, m)
        BY <1>15, <2>1, <3>2, PeriodAssumption DEF appeal, Court
      <4>3. Courts' \in [MarketIds -> Court \cup {None}]
        <5> HIDE DEF court
        <5> QED BY Zenon, <1>1, <4>1, <4>2 DEF DisputesOK
      <4>4. MarketIdsPerDisputeBlock' \in [Blocks -> Ids]
        BY Zenon, <1>1, <4>2, RemoveItemType DEF QueuesOK
      <4>5. QED
        BY Zenon, <1>1, <2>2, <4>3, <4>4 DEF QueuesOK, DisputesOK
    <3>3. QED
      BY Zenon, <1>15, <3>1, <3>2 DEF appeal
  <2>4. QED
    BY Zenon, <1>1, <2>2, <2>3, FrameTypes, TypeParts
<1>16. CASE start_global_dispute(m)
  <2>1. BooksOK'
    <3>1. markets[m] # None
      BY Zenon, <1>16 DEF start_global_dispute, CanStartGlobalDispute
    <3>2. QED
      BY ZenonT(30), <1>1, <1>16, <3>1, StatusMarket DEF start_global_dispute, Becomes, Statuses
  <2>2. QueuesOK'
    BY Zenon, <1>1, <1>16, PushType, RemoveItemType DEF start_global_dispute, QueuesOK
  <2>3. DisputesOK'
    BY <1>1, <1>16, ClockType, PeriodAssumption DEF start_global_dispute, DisputesOK
  <2>4. QED
    BY Zenon, <1>1, <1>16, <2>1, <2>2, <2>3, FrameTypes, TypeParts DEF start_global_dispute
<1>17. CASE admin_move_market_to_resolved(m)
  BY Zenon, <1>17, AdminResolvedTypes
<1>18. QED
  BY Zenon, <1>2, <1>3, <1>4, <1>5, <1>6, <1>8, <1>9, <1>10, <1>11, <1>12, <1>13, <1>14, <1>15, <1>16,
     <1>17 DEF MarketStep

\* The genesis state is well-typed.
LEMMA InitTypes == Init => TypeOK
<1> SUFFICES ASSUME Init PROVE TypeOK
  BY Zenon
<1>1. BooksOK
  BY Zenon DEF Init, BooksOK, HolderMap, Holders
<1>2. IdsOK /\ QueuesOK
  BY InputAssumption DEF Init, IdsOK, QueuesOK, NoIds, Ids
<1>3. DisputesOK
  BY Zenon DEF Init, DisputesOK
<1>4. TimeOK
  BY Zenon, InputAssumption DEF Init, TimeOK
<1>5. QED
  BY Zenon, <1>1, <1>2, <1>3, <1>4, TypeParts

\* Every step preserves TypeOK.
LEMMA StepTypes == TypeOK /\ [Next]_vars => TypeOK'
<1>1. TypeOK /\ Next => TypeOK'
  BY Zenon, NewBlockTypes, CreateMarketTypes, MarketStepTypes DEF Next
<1>2. TypeOK /\ UNCHANGED vars => TypeOK'
  BY Zenon, FrameTypes, TypeParts DEF vars, marketVars, idVars, queueVars, disputeVars, timeVars
<1>3. QED
  BY Zenon, <1>1, <1>2

(* Every variable of PredictionMarkets keeps its type, whatever extrinsics *)
(* and hooks run: no operation settles a bond that does not exist, or      *)
(* resolves a market without a report to an outcome.                       *)
THEOREM TypeCorrect == Spec => []TypeOK
  BY InitTypes, StepTypes, PTL DEF Spec

-----------------------------------------------------------------------------
(* Queues *)

FreshIds == \A m \in MarketIds : m >= MarketCounter => markets[m] = None

QueueInv == TypeOK /\ FreshIds /\ CloseQueueExact /\ EditOnlyProposed

(* Market m, and no other, has changed, and the ids in use are the same.   *)
Touches(m) ==
  OthersUnchanged(m) /\ markets[m] # None /\ UNCHANGED MarketCounter

\* A step that touches an existing market only keeps the unused ids unused.
LEMMA TouchesKeepsFreshIds ==
  ASSUME FreshIds, NEW m \in MarketIds, Touches(m)
  PROVE  FreshIds'
  BY Zenon DEF FreshIds, Touches, OthersUnchanged

\* A step that touches one market and drops its edit request keeps EditOnlyProposed.
LEMMA TouchesKeepsEdits ==
  ASSUME IdsOK, EditOnlyProposed, NEW m \in MarketIds, Touches(m),
         MarketIdsForEdit' \subseteq MarketIdsForEdit, m \notin MarketIdsForEdit'
  PROVE  EditOnlyProposed'
  BY Zenon DEF EditOnlyProposed, Touches, OthersUnchanged, HasStatus, IdsOK

(* Neither the queue nor the slot of a market changes.                     *)
LEMMA SlotUnchanged ==
  ASSUME CloseQueueExact, NEW m \in MarketIds, Touches(m), UNCHANGED MarketIdsPerClose,
         IsOpen(m)' <=> IsOpen(m),
         IsOpen(m) => markets'[m].period = markets[m].period
  PROVE  CloseQueueExact'
<1>1. SUFFICES ASSUME NEW n \in MarketIds, NEW s \in CloseSlots
               PROVE  MarketIdsPerClose'[s][n]
                        = Indicator(IF IsOpen(n)' THEN s = CloseSlot(markets'[n].period) ELSE FALSE)
  BY Zenon DEF CloseQueueExact
<1>2. MarketIdsPerClose[s][n]
        = Indicator(IF IsOpen(n) THEN s = CloseSlot(markets[n].period) ELSE FALSE)
  BY Zenon DEF CloseQueueExact
<1>3. CASE n = m
  BY Zenon, <1>2, <1>3 DEF Indicator
<1>4. CASE n # m
  <2>1. markets'[n] = markets[n]
    BY Zenon, <1>4 DEF Touches, OthersUnchanged
  <2>2. IsOpen(n)' <=> IsOpen(n)
    BY Zenon, <2>1 DEF IsOpen, HasStatus
  <2>3. QED
    BY Zenon, <1>2, <2>1, <2>2 DEF Indicator
<1>5. QED
  BY Zenon, <1>3, <1>4

(* clear_auto_close takes an open market out of the queue.                 *)
LEMMA ClearedQueue ==
  ASSUME QueuesOK, CloseQueueExact, NEW m \in MarketIds, IsOpen(m)
  PROVE  LET cleared == clear_auto_close(MarketIdsPerClose, m, markets[m])
         IN  /\ cleared \in [CloseSlots -> Ids]
             /\ \A s \in CloseSlots, n \in MarketIds :
                  cleared[s][n] = IF n = m THEN 0 ELSE MarketIdsPerClose[s][n]
<1> DEFINE slot == CloseSlot(markets[m].period)
           cleared == remove_item(MarketIdsPerClose, slot, m)
<1>1. clear_auto_close(MarketIdsPerClose, m, markets[m]) = cleared
  BY Zenon DEF clear_auto_close, IsOpen, HasStatus
<1>2. /\ cleared \in [CloseSlots -> Ids]
      /\ \A s \in CloseSlots, n \in MarketIds :
           cleared[s][n] = IF s = slot /\ n = m
                           THEN (IF MarketIdsPerClose[s][n] > 0 THEN MarketIdsPerClose[s][n] - 1
                                 ELSE 0)
                           ELSE MarketIdsPerClose[s][n]
  <2> HIDE DEF slot
  <2> QED BY RemoveItemType DEF QueuesOK
<1>3. \A s \in CloseSlots : MarketIdsPerClose[s][m] = IF s = slot THEN 1 ELSE 0
  BY Zenon DEF CloseQueueExact, Indicator
<1>4. QED
  <2> HIDE DEF slot, cleared
  <2> QED BY <1>1, <1>2, <1>3

(* A market that is taken out of the queue is not open any more.           *)
LEMMA LeavesQueue ==
  ASSUME QueuesOK, CloseQueueExact, NEW m \in MarketIds, IsOpen(m), Touches(m), ~IsOpen(m)',
         MarketIdsPerClose' = clear_auto_close(MarketIdsPerClose, m, markets[m])
  PROVE  CloseQueueExact'
<1>1. SUFFICES ASSUME NEW n \in MarketIds, NEW s \in CloseSlots
               PROVE  MarketIdsPerClose'[s][n]
                        = Indicator(IF IsOpen(n)' THEN s = CloseSlot(markets'[n].period) ELSE FALSE)
  BY Zenon DEF CloseQueueExact
<1>2. MarketIdsPerClose'[s][n] = IF n = m THEN 0 ELSE MarketIdsPerClose[s][n]
  BY Zenon, ClearedQueue
<1>3. CASE n = m
  BY Zenon, <1>2, <1>3 DEF Indicator
<1>4. CASE n # m
  <2>1. markets'[n] = markets[n]
    BY Zenon, <1>4 DEF Touches, OthersUnchanged
  <2>2. IsOpen(n)' <=> IsOpen(n)
    BY Zenon, <2>1 DEF IsOpen, HasStatus
  <2>3. MarketIdsPerClose[s][n]
          = Indicator(IF IsOpen(n) THEN s = CloseSlot(markets[n].period) ELSE FALSE)
    BY Zenon DEF CloseQueueExact
  <2>4. QED
    BY Zenon, <1>2, <1>4, <2>1, <2>2, <2>3 DEF Indicator
<1>5. QED
  BY Zenon, <1>3, <1>4

(* insert_auto_close lists an open market under its period, in a queue     *)
(* that does not list it yet.                                              *)
LEMMA EntersQueue ==
  ASSUME CloseQueueExact, NEW m \in MarketIds, OthersUnchanged(m), IsOpen(m)',
         NEW q \in [CloseSlots -> Ids],
         \A s \in CloseSlots, n \in MarketIds :
           q[s][n] = IF n = m THEN 0 ELSE MarketIdsPerClose[s][n],
         NEW mk, mk.period = markets'[m].period,
         MarketIdsPerClose' = insert_auto_close(q, m, mk)
  PROVE  CloseQueueExact'
<1>1. SUFFICES ASSUME NEW n \in MarketIds, NEW s \in CloseSlots
               PROVE  MarketIdsPerClose'[s][n]
                        = Indicator(IF IsOpen(n)' THEN s = CloseSlot(markets'[n].period) ELSE FALSE)
  BY Zenon DEF CloseQueueExact
<1> DEFINE slot == CloseSlot(markets'[m].period)
<1>2. MarketIdsPerClose'[s][n] = IF s = slot /\ n = m THEN q[s][n] + 1 ELSE q[s][n]
  <2>1. MarketIdsPerClose' = Push(q, slot, m)
    BY Zenon DEF insert_auto_close
  <2>2. QED
    <3> HIDE DEF slot
    <3> QED BY <2>1, PushType
<1>3. CASE n = m
  <2> HIDE DEF slot
  <2> QED BY <1>2, <1>3 DEF Indicator, slot
<1>4. CASE n # m
  <2>1. markets'[n] = markets[n]
    BY Zenon, <1>4 DEF OthersUnchanged
  <2>2. IsOpen(n)' <=> IsOpen(n)
    BY Zenon, <2>1 DEF IsOpen, HasStatus
  <2>3. MarketIdsPerClose[s][n]
          = Indicator(IF IsOpen(n) THEN s = CloseSlot(markets[n].period) ELSE FALSE)
    BY Zenon DEF CloseQueueExact
  <2>4. MarketIdsPerClose'[s][n] = MarketIdsPerClose[s][n]
    <3> HIDE DEF slot
    <3> QED BY Zenon, <1>2, <1>4
  <2>5. QED
    BY Zenon, <2>1, <2>2, <2>3, <2>4 DEF Indicator
<1>5. QED
  BY Zenon, <1>3, <1>4

(* The hook takes the due slots, and closes or removes what they list.     *)
LEMMA NewBlockQueue ==
  ASSUME QueueInv, NewBlock
  PROVE  FreshIds' /\ CloseQueueExact' /\ EditOnlyProposed'
<1>1. BooksOK /\ IdsOK /\ QueuesOK /\ DisputesOK /\ TimeOK
  BY Zenon, TypeParts DEF QueueInv
<1>2. CASE OnInitializeCommits
  <2>1. \A m \in MarketIds :
          /\ m \in Closing =>
               \/ markets'[m] = None /\ HasStatus(m, "Proposed")
               \/ HasStatus(m, "Active") /\ markets'[m] # None /\ markets'[m].status = "Closed"
          /\ m \in Resolving \ Closing =>
               /\ ~IsOpen(m)
               /\ markets'[m] # None /\ markets'[m].status = "Resolved"
          /\ m \notin Resolving \cup Closing => markets'[m] = markets[m]
    BY Zenon, <1>1, <1>2, HookMarkets DEF IsOpen
  <2>2. FreshIds'
    <3>1. UNCHANGED MarketCounter
      BY Zenon, <1>2 DEF OnInitializeCommits
    <3>2. \A m \in MarketIds : markets[m] = None => m \notin Closing /\ m \notin Resolving
      BY Zenon, <1>2 DEF OnInitializeCommits, ClosingSucceeds, ResolvingSucceeds, ResolutionSucceeds,
                  HasStatus
    <3>3. QED
      BY Zenon, <2>1, <3>1, <3>2 DEF FreshIds, QueueInv
  <2>3. CloseQueueExact'
    <3>1. SUFFICES ASSUME NEW m \in MarketIds, NEW s \in CloseSlots
                   PROVE  MarketIdsPerClose'[s][m]
                            = Indicator(IF IsOpen(m)' THEN s = CloseSlot(markets'[m].period)
                                        ELSE FALSE)
      BY Zenon DEF CloseQueueExact
    <3>2. MarketIdsPerClose'[s][m] = IF s \in DueSlots THEN 0 ELSE MarketIdsPerClose[s][m]
      <4>1. MarketIdsPerClose'[s] = IF s \in DueSlots THEN NoIds ELSE MarketIdsPerClose[s]
        BY Zenon, <1>2 DEF OnInitializeCommits
      <4>2. QED
        BY Zenon, <4>1 DEF NoIds
    <3>3. \A t \in CloseSlots : MarketIdsPerClose[t][m]
            = IF IsOpen(m) /\ t = CloseSlot(markets[m].period) THEN 1 ELSE 0
      BY Zenon DEF QueueInv, CloseQueueExact, Indicator
    <3>4. m \in Closing <=> \E t \in DueSlots \cap CloseSlots : MarketIdsPerClose[t][m] > 0
      <4>1. DOMAIN MarketIdsPerClose = CloseSlots
        BY Zenon, <1>1 DEF QueuesOK
      <4>2. QED
        BY Zenon, <4>1 DEF Closing, IsListed
    <3>5. CASE m \in Closing
      <4>1. ~IsOpen(m)'
        BY Zenon, <2>1, <3>5 DEF IsOpen, HasStatus
      <4>2. PICK t \in DueSlots \cap CloseSlots : MarketIdsPerClose[t][m] > 0
        BY Zenon, <3>4, <3>5
      <4>3. t = CloseSlot(markets[m].period)
        BY <3>3, <4>2
      <4>4. MarketIdsPerClose'[s][m] = 0
        BY Zenon, <3>2, <3>3, <4>2, <4>3
      <4>5. QED
        BY Zenon, <4>1, <4>4 DEF Indicator
    <3>6. CASE m \notin Closing
      <4>1. MarketIdsPerClose'[s][m] = MarketIdsPerClose[s][m]
        BY <3>2, <3>3, <3>4, <3>6
      <4>2. CASE m \in Resolving
        <5>1. ~IsOpen(m) /\ ~IsOpen(m)'
          BY Zenon, <2>1, <3>6, <4>2 DEF IsOpen, HasStatus
        <5>2. QED
          BY Zenon, <3>3, <4>1, <5>1 DEF Indicator
      <4>3. CASE m \notin Resolving
        <5>1. markets'[m] = markets[m]
          BY Zenon, <2>1, <3>6, <4>3
        <5>2. IsOpen(m)' <=> IsOpen(m)
          BY Zenon, <5>1 DEF IsOpen, HasStatus
        <5>3. QED
          BY Zenon, <3>3, <4>1, <5>1, <5>2 DEF Indicator
      <4>4. QED
        BY Zenon, <4>2, <4>3
    <3>7. QED
      BY Zenon, <3>5, <3>6
  <2>4. EditOnlyProposed'
    <3>1. SUFFICES ASSUME NEW m \in MarketIdsForEdit' PROVE HasStatus(m, "Proposed")'
      BY Zenon DEF EditOnlyProposed
    <3>2. m \in MarketIds /\ HasStatus(m, "Proposed") /\ m \notin Closing
      BY Zenon, <1>1, <1>2 DEF OnInitializeCommits, QueueInv, EditOnlyProposed, IdsOK
    <3>3. markets'[m] = markets[m]
      BY Zenon, <2>1, <3>2 DEF IsOpen
    <3>4. QED
      BY Zenon, <3>2, <3>3 DEF HasStatus
  <2>5. QED
    BY Zenon, <2>2, <2>3, <2>4
<1>3. CASE OnInitializeRollsBack
  <2>1. UNCHANGED <<markets, MarketCounter, MarketIdsForEdit, MarketIdsPerClose>>
    BY Zenon, <1>3 DEF OnInitializeRollsBack, marketVars, idVars, queueVars
  <2>2. QED
    BY Zenon, <2>1 DEF QueueInv, FreshIds, CloseQueueExact, EditOnlyProposed, IsOpen, HasStatus
<1>4. QED
  BY Zenon, <1>2, <1>3 DEF NewBlock

(* A new market gets a fresh id, so nothing lists it yet.                  *)
LEMMA CreateMarketQueue ==
  ASSUME QueueInv, CreateMarket
  PROVE  FreshIds' /\ CloseQueueExact' /\ EditOnlyProposed'
<1>1. BooksOK /\ IdsOK /\ QueuesOK
  BY Zenon, TypeParts DEF QueueInv
<1>2. PICK who \in Accounts, oracle \in Accounts, creation \in Creations,
           mechanism \in Mechanisms, period \in Periods, deadlines \in DeadlineChoices :
             create_market(who, oracle, creation, mechanism, period, deadlines)
  BY Zenon DEF CreateMarket
<1>3. PICK m \in MarketIds :
        m = MarketCounter /\ \E st \in {"Active", "Proposed"} : Becomes(m, st, period)
  BY Zenon, <1>1, <1>2, CreateMarketMarket
<1>4. OthersUnchanged(m) /\ IsOpen(m)' /\ markets'[m].period = period
  BY Zenon, <1>3 DEF Becomes, IsOpen, HasStatus
<1>5. markets[m] = None
  BY <1>3 DEF QueueInv, FreshIds, MarketIds
<1>6. FreshIds'
  <2>1. MarketCounter' = m + 1
    BY Zenon, <1>2, <1>3 DEF create_market, build_market
  <2>2. QED
    BY <1>1, <1>3, <1>4, <2>1 DEF QueueInv, FreshIds, OthersUnchanged, IdsOK, MarketIds
<1>7. CloseQueueExact'
  <2>1. \A s \in CloseSlots, n \in MarketIds :
          MarketIdsPerClose[s][n] = IF n = m THEN 0 ELSE MarketIdsPerClose[s][n]
    BY Zenon, <1>3, <1>5 DEF QueueInv, CloseQueueExact, Indicator, IsOpen, HasStatus
  <2>2. PICK mk : mk.period = period
                  /\ MarketIdsPerClose' = insert_auto_close(MarketIdsPerClose, m, mk)
    BY Zenon, <1>2, <1>3 DEF create_market, build_market, construct_market
  <2>3. QED
    BY Zenon, <1>1, <1>4, <2>1, <2>2, EntersQueue DEF QueueInv, QueuesOK
<1>8. EditOnlyProposed'
  <2>1. UNCHANGED MarketIdsForEdit
    BY Zenon, <1>2 DEF create_market, build_market
  <2>2. QED
    BY Zenon, <1>1, <1>4, <1>5, <2>1 DEF QueueInv, EditOnlyProposed, OthersUnchanged, HasStatus, IdsOK
<1>9. QED
  BY Zenon, <1>6, <1>7, <1>8

(* An early close, its dispute and its rejection move the market to        *)
(* another slot and keep the queue exact.                                  *)
LEMMA RescheduleQueue ==
  ASSUME QueueInv, NEW m \in MarketIds, HasStatus(m, "Active"), Reschedules(m)
  PROVE  FreshIds' /\ CloseQueueExact' /\ EditOnlyProposed'
<1>1. BooksOK /\ IdsOK /\ QueuesOK
  BY Zenon, TypeParts DEF QueueInv
<1>2. PICK b \in Books : b.mk.status = "Active" /\ Reschedule(m, b)
  BY Zenon DEF Reschedules
<1>3. Becomes(m, "Active", b.mk.period)
  BY Zenon, <1>1, <1>2, PutBookBecomes DEF Reschedule
<1>4. IsOpen(m) /\ IsOpen(m)'
  BY Zenon, <1>3 DEF Becomes, IsOpen, HasStatus
<1>5. UNCHANGED <<MarketCounter, MarketIdsForEdit>>
  BY Zenon, <1>2 DEF Reschedule, idVars
<1>6. Touches(m)
  BY Zenon, <1>3, <1>5 DEF Touches, Becomes, HasStatus
<1>7. CloseQueueExact'
  <2> DEFINE cleared == clear_auto_close(MarketIdsPerClose, m, markets[m])
  <2>1. /\ cleared \in [CloseSlots -> Ids]
        /\ \A s \in CloseSlots, n \in MarketIds :
             cleared[s][n] = IF n = m THEN 0 ELSE MarketIdsPerClose[s][n]
    BY Zenon, <1>1, <1>4, ClearedQueue DEF QueueInv
  <2>2. MarketIdsPerClose' = insert_auto_close(cleared, m, b.mk) /\ b.mk.period = markets'[m].period
    BY Zenon, <1>2, <1>3 DEF Reschedule, Becomes
  <2>3. QED
    <3> HIDE DEF cleared
    <3> QED BY Zenon, <1>4, <1>6, <2>1, <2>2, EntersQueue DEF QueueInv, Touches
<1>8. m \notin MarketIdsForEdit
  BY Zenon DEF QueueInv, EditOnlyProposed, HasStatus
<1>9. QED
  BY Zenon, <1>1, <1>5, <1>6, <1>7, <1>8, TouchesKeepsFreshIds, TouchesKeepsEdits DEF QueueInv

\* Closing a market by hand takes it off the close queue and keeps the queue exact.
LEMMA CloseNowQueue ==
  ASSUME QueueInv, NEW m \in MarketIds, HasStatus(m, "Active"), CloseNow(m)
  PROVE  FreshIds' /\ CloseQueueExact' /\ EditOnlyProposed'
<1>1. BooksOK /\ IdsOK /\ QueuesOK /\ TimeOK
  BY Zenon, TypeParts DEF QueueInv
<1>2. PICK per \in Period : Becomes(m, "Closed", per)
  BY Zenon, <1>1, CloseNowMarket DEF HasStatus
<1>3. UNCHANGED <<MarketCounter, MarketIdsForEdit>>
  BY Zenon DEF CloseNow, idVars
<1>4. Touches(m) /\ IsOpen(m) /\ ~IsOpen(m)'
  BY Zenon, <1>2, <1>3 DEF Touches, Becomes, IsOpen, HasStatus
<1>5. MarketIdsPerClose' = clear_auto_close(MarketIdsPerClose, m, markets[m])
  BY Zenon DEF CloseNow
<1>6. m \notin MarketIdsForEdit
  BY SMTT(30) DEF QueueInv, EditOnlyProposed, HasStatus
<1>7. QED
  BY Zenon, <1>1, <1>3, <1>4, <1>5, <1>6, LeavesQueue, TouchesKeepsFreshIds, TouchesKeepsEdits
     DEF QueueInv

(* A market that is past closing stays out of the queue.                   *)
LEMMA SettledMarketQueue ==
  ASSUME QueueInv, NEW m \in MarketIds, NEW st, NEW per, Becomes(m, st, per),
         markets[m] # None, markets[m].status \in {"Closed", "Reported", "Disputed"},
         st \in {"Closed", "Reported", "Disputed", "Resolved"},
         UNCHANGED <<MarketCounter, MarketIdsForEdit, MarketIdsPerClose>>
  PROVE  FreshIds' /\ CloseQueueExact' /\ EditOnlyProposed'
<1>1. IdsOK
  BY Zenon, TypeParts DEF QueueInv
<1>2. Touches(m) /\ ~IsOpen(m) /\ ~IsOpen(m)'
  BY Zenon DEF Touches, Becomes, IsOpen, HasStatus
<1>3. m \notin MarketIdsForEdit
  BY SMTT(30) DEF QueueInv, EditOnlyProposed, HasStatus
<1>4. QED
  BY Zenon, <1>1, <1>2, <1>3, SlotUnchanged, TouchesKeepsFreshIds, TouchesKeepsEdits DEF QueueInv

-----------------------------------------------------------------------------
(* The extrinsics, and the theorems *)

\* Every call on one market preserves QueueInv.
LEMMA MarketStepQueue ==
  ASSUME QueueInv, NEW m \in MarketIds, MarketStep(m)
  PROVE  FreshIds' /\ CloseQueueExact' /\ EditOnlyProposed'
<1>1. BooksOK /\ IdsOK /\ QueuesOK /\ DisputesOK /\ TimeOK
  BY Zenon, TypeParts DEF QueueInv
<1>2. CASE approve_market(m)
  <2>1. HasStatus(m, "Proposed") /\ m \notin MarketIdsForEdit
        /\ UNCHANGED <<MarketCounter, MarketIdsForEdit, MarketIdsPerClose>>
    BY Zenon, <1>2 DEF approve_market, idVars, queueVars
  <2>2. Becomes(m, "Active", markets[m].period)
    BY Zenon, <1>1, <1>2, ApproveMarket
  <2>3. /\ Touches(m) /\ IsOpen(m) /\ IsOpen(m)'
        /\ markets'[m].period = markets[m].period
    BY Zenon, <2>1, <2>2 DEF Touches, Becomes, IsOpen, HasStatus
  <2>4. QED
    BY Zenon, <1>1, <2>1, <2>3, SlotUnchanged, TouchesKeepsFreshIds, TouchesKeepsEdits DEF QueueInv
<1>3. CASE request_edit(m)
  <2>1. UNCHANGED <<markets, MarketCounter, MarketIdsPerClose>>
    BY Zenon, <1>3 DEF request_edit, marketVars, queueVars
  <2>2. HasStatus(m, "Proposed") /\ MarketIdsForEdit' = MarketIdsForEdit \cup {m}
    BY Zenon, <1>3 DEF request_edit
  <2>3. QED
    BY ZenonT(30), <2>1, <2>2 DEF QueueInv, FreshIds, CloseQueueExact, EditOnlyProposed, IsOpen,
                                    HasStatus
<1>4. CASE EditMarket(m)
  <2>1. PICK oracle \in Accounts, mechanism \in Mechanisms, period \in Periods,
             deadlines \in DeadlineChoices : edit_market(m, oracle, mechanism, period, deadlines)
    BY Zenon, <1>4 DEF EditMarket
  <2>2. \E st \in {"Active", "Proposed"} : Becomes(m, st, period)
    BY Zenon, <1>1, <2>1, EditMarketMarket
  <2>3. HasStatus(m, "Proposed") /\ UNCHANGED MarketCounter
        /\ MarketIdsForEdit' = MarketIdsForEdit \ {m}
    BY Zenon, <2>1 DEF edit_market
  <2>4. Touches(m) /\ IsOpen(m) /\ IsOpen(m)' /\ markets'[m].period = period
    BY Zenon, <2>2, <2>3 DEF Touches, Becomes, IsOpen, HasStatus
  <2>5. CloseQueueExact'
    <3> DEFINE cleared == clear_auto_close(MarketIdsPerClose, m, markets[m])
    <3>1. /\ cleared \in [CloseSlots -> Ids]
          /\ \A s \in CloseSlots, n \in MarketIds :
               cleared[s][n] = IF n = m THEN 0 ELSE MarketIdsPerClose[s][n]
      BY Zenon, <1>1, <2>4, ClearedQueue DEF QueueInv
    <3>2. PICK mk : mk.period = period /\ MarketIdsPerClose' = insert_auto_close(cleared, m, mk)
      BY <2>1 DEF edit_market, construct_market
    <3>3. QED
      <4>1. CloseQueueExact /\ OthersUnchanged(m) /\ mk.period = markets'[m].period
        BY Zenon, <2>4, <3>2 DEF QueueInv, Touches
      <4> HIDE DEF cleared
      <4>2. QED
        BY Zenon, <2>4, <3>1, <3>2, <4>1, EntersQueue
  <2>6. QED
    BY Zenon, <1>1, <2>3, <2>4, <2>5, TouchesKeepsFreshIds, TouchesKeepsEdits DEF QueueInv
<1>5. CASE reject_market(m)
  <2>1. OthersUnchanged(m) /\ markets'[m] = None
    BY Zenon, <1>1, <1>5, RejectMarket
  <2>2. /\ HasStatus(m, "Proposed") /\ UNCHANGED MarketCounter
        /\ MarketIdsForEdit' = MarketIdsForEdit \ {m}
        /\ MarketIdsPerClose' = clear_auto_close(MarketIdsPerClose, m, markets[m])
    BY Zenon, <1>5 DEF reject_market
  <2>3. Touches(m) /\ IsOpen(m) /\ ~IsOpen(m)'
    BY Zenon, <2>1, <2>2 DEF Touches, IsOpen, HasStatus
  <2>4. QED
    BY Zenon, <1>1, <2>2, <2>3, LeavesQueue, TouchesKeepsFreshIds, TouchesKeepsEdits DEF QueueInv
<1>6. CASE \/ admin_move_market_to_closed(m)
           \/ \E who \in Accounts : close_trusted_market(m, who)
           \/ manually_close_market(m)
  BY Zenon, <1>6, CloseNowQueue DEF admin_move_market_to_closed, close_trusted_market,
                             manually_close_market, CanCloseManually
<1>7. CASE schedule_early_close(m) \/ \E who \in Accounts : dispute_early_close(m, who)
  <2>1. HasStatus(m, "Active")
    BY ZenonT(30), <1>7 DEF schedule_early_close, ScheduleAsOther, ScheduleAsMarketCreator,
                             dispute_early_close
  <2>2. Reschedules(m)
    BY Zenon, <1>1, <1>7, ScheduleAsMarketCreatorMarket, ScheduleAsOtherMarket, DisputeEarlyCloseMarket
       DEF schedule_early_close
  <2>3. QED
    BY Zenon, <2>1, <2>2, RescheduleQueue
<1>8. CASE reject_early_close(m)
  <2>1. HasStatus(m, "Active")
    BY Zenon, <1>8 DEF reject_early_close
  <2>2. CASE Becomes(m, "Active", markets[m].period) /\ UNCHANGED queueVars
    <3>1. UNCHANGED <<MarketCounter, MarketIdsForEdit, MarketIdsPerClose>>
      BY Zenon, <1>8, <2>2 DEF reject_early_close, Reschedule, idVars, queueVars
    <3>2. /\ Touches(m) /\ IsOpen(m) /\ IsOpen(m)'
          /\ markets'[m].period = markets[m].period
      BY Zenon, <2>1, <2>2, <3>1 DEF Touches, Becomes, IsOpen, HasStatus
    <3>3. m \notin MarketIdsForEdit
      BY Zenon, <2>1 DEF QueueInv, EditOnlyProposed, HasStatus
    <3>4. QED
      BY Zenon, <1>1, <3>1, <3>2, <3>3, SlotUnchanged, TouchesKeepsFreshIds, TouchesKeepsEdits
         DEF QueueInv
  <2>3. QED
    BY Zenon, <1>1, <1>8, <2>1, <2>2, RejectEarlyCloseMarket, RescheduleQueue
<1>9. CASE \E who \in Accounts, outcome \in Outcomes : report(m, who, outcome)
  <2>1. PICK who \in Accounts, outcome \in Outcomes : report(m, who, outcome)
    BY Zenon, <1>9
  <2>2. HasStatus(m, "Closed") /\ UNCHANGED <<MarketCounter, MarketIdsForEdit, MarketIdsPerClose>>
    BY Zenon, <2>1 DEF report, report_market_with_dispute_mechanism, report_and_resolve_market,
                idVars, queueVars
  <2>3. \E st \in {"Reported", "Resolved"} : Becomes(m, st, markets[m].period)
    BY Zenon, <1>1, <2>1, ReportMarket
  <2>4. QED
    BY Zenon, <2>2, <2>3, SettledMarketQueue DEF HasStatus
<1>10. CASE \E oracle \in Accounts : admin_update_market_oracle(m, oracle)
  <2>1. HasStatus(m, "Closed") /\ UNCHANGED <<MarketCounter, MarketIdsForEdit, MarketIdsPerClose>>
    BY Zenon, <1>10 DEF admin_update_market_oracle, idVars, queueVars
  <2>2. QED
    BY Zenon, <1>1, <1>10, <2>1, UpdateOracleMarket, SettledMarketQueue DEF HasStatus
<1>11. CASE \E who \in Accounts : dispute(m, who)
  <2>1. HasStatus(m, "Reported") /\ UNCHANGED <<MarketCounter, MarketIdsForEdit, MarketIdsPerClose>>
    BY Zenon, <1>11 DEF dispute, DisputeAuthorized, DisputeCourt, idVars, queueVars
  <2>2. Becomes(m, "Disputed", markets[m].period)
    BY Zenon, <1>1, <1>11, DisputeMarket
  <2>3. QED
    BY Zenon, <2>1, <2>2, SettledMarketQueue DEF HasStatus
<1>12. CASE \/ \E outcome \in Outcomes : authorize_market_outcome(m, outcome)
            \/ \E outcome \in Outcomes : reveal_vote(m, outcome)
            \/ appeal(m)
  <2>1. UNCHANGED <<markets, MarketCounter, MarketIdsForEdit, MarketIdsPerClose>>
    BY Zenon, <1>12 DEF authorize_market_outcome, reveal_vote, appeal, marketVars, idVars, queueVars
  <2>2. QED
    BY Zenon, <2>1 DEF QueueInv, FreshIds, CloseQueueExact, EditOnlyProposed, IsOpen, HasStatus
<1>13. CASE start_global_dispute(m)
  <2>1. /\ markets[m] # None /\ markets[m].status \in {"Disputed", "Reported"}
        /\ UNCHANGED <<MarketCounter, MarketIdsForEdit, MarketIdsPerClose>>
    BY Zenon, <1>13 DEF start_global_dispute, CanStartGlobalDispute, idVars
  <2>2. Becomes(m, "Disputed", markets[m].period)
    BY Zenon, <1>1, <1>13, <2>1, StatusMarket DEF start_global_dispute, Statuses
  <2>3. QED
    BY Zenon, <2>1, <2>2, SettledMarketQueue
<1>14. CASE admin_move_market_to_resolved(m)
  <2>1. /\ markets[m] # None /\ markets[m].status \in {"Disputed", "Reported"}
        /\ UNCHANGED <<MarketCounter, MarketIdsForEdit, MarketIdsPerClose>>
    BY Zenon, <1>14 DEF admin_move_market_to_resolved, ResolutionSucceeds, idVars
  <2>2. Becomes(m, "Resolved", markets[m].period)
    BY Zenon, <1>1, <1>14, ResolvedBookType, PutBookBecomes DEF admin_move_market_to_resolved
  <2>3. QED
    BY Zenon, <2>1, <2>2, SettledMarketQueue
<1>15. QED
  BY Zenon, <1>2, <1>3, <1>4, <1>5, <1>6, <1>7, <1>8, <1>9, <1>10, <1>11, <1>12, <1>13, <1>14
     DEF MarketStep

\* QueueInv holds at genesis.
LEMMA QueueInit ==
  ASSUME Init
  PROVE  QueueInv
<1>1. TypeOK
  BY Zenon, InitTypes
<1>2. FreshIds /\ EditOnlyProposed
  BY Zenon DEF Init, FreshIds, EditOnlyProposed
<1>3. CloseQueueExact
  BY Zenon DEF Init, CloseQueueExact, NoIds, Indicator, IsOpen, HasStatus
<1>4. QED
  BY Zenon, <1>1, <1>2, <1>3 DEF QueueInv

\* Every step preserves QueueInv.
LEMMA QueueStep ==
  ASSUME QueueInv, [Next]_vars
  PROVE  QueueInv'
<1>1. TypeOK'
  BY Zenon, StepTypes DEF QueueInv
<1>2. CASE Next
  BY Zenon, <1>1, <1>2, NewBlockQueue, CreateMarketQueue, MarketStepQueue DEF Next, QueueInv
<1>3. CASE UNCHANGED vars
  <2>1. UNCHANGED <<markets, MarketCounter, MarketIdsForEdit, MarketIdsPerClose>>
    BY Zenon, <1>3 DEF vars
  <2>2. QED
    BY Zenon, <1>1, <2>1 DEF QueueInv, FreshIds, CloseQueueExact, EditOnlyProposed, IsOpen,
                             HasStatus
<1>4. QED
  BY Zenon, <1>2, <1>3

\* QueueInv is an invariant: it holds at genesis and every step preserves it.
LEMMA QueueInvariant == Spec => []QueueInv
<1>1. Init => QueueInv
  BY Zenon, QueueInit
<1>2. QueueInv /\ [Next]_vars => QueueInv'
  BY Zenon, QueueStep
<1>3. QED
  BY <1>1, <1>2, PTL DEF Spec

(* The close queues list exactly the open markets, each once and at the    *)
(* end of its period, whatever extrinsics and hooks run.                   *)
THEOREM CloseQueueCorrect == Spec => []CloseQueueExact
<1>1. QueueInv => CloseQueueExact
  BY Zenon DEF QueueInv
<1>2. QED
  BY <1>1, QueueInvariant, PTL

(* No way out of Proposed leaves a request for an edit behind.             *)
THEOREM EditRequestsCorrect == Spec => []EditOnlyProposed
<1>1. QueueInv => EditOnlyProposed
  BY Zenon DEF QueueInv
<1>2. QED
  BY <1>1, QueueInvariant, PTL
=============================================================================
