-------------------------- MODULE MarketInvariants --------------------------
(* The invariant of the markets: the books, that is, which bonds a market  *)
(* has in which status and who holds their money, the disputes, and the    *)
(* queues of the hook.  What the properties of the reserve say of single   *)
(* bonds is not inductive: that a bond is reserved when it is to be        *)
(* settled follows from the status, the report and the state of the early  *)
(* close, so the invariant relates the bonds to all of these.  Every       *)
(* operation on a book keeps it sound, and so does every action.           *)
EXTENDS MarketQueue

(* The money of a bond is inside the reserve, and the market knows.        *)
Waiting(mk, h, k) == IsPending(mk, k) /\ h[k] = "reserved"

(* There never was such a bond.                                            *)
Absent(mk, h, k) == ~HasBond(mk, k) /\ h[k] = None

(* The money of a bond was never reserved, or went to one holder.          *)
Released(h, k) == h[k] \notin {"reserved", "overdrawn", "lost"}

(* What the status says about the rest of the market.                      *)
StatusSound(mk) ==
  /\ mk.status = "Proposed" => mk.creation = "Advised" /\ mk.early_close = None
  /\ mk.report # None <=> mk.status \in {"Reported", "Disputed", "Resolved"}
  /\ mk.status # "Resolved" => mk.resolved_outcome = None
  /\ mk.status \in {"Reported", "Disputed"} => mk.dispute_mechanism # None
  /\ mk.dispute_mechanism # None => mk.deadlines.dispute_duration >= MinDisputeDuration

(* The bonds of the creator.                                               *)
CreatorBondsSound(mk, h) ==
  /\ HasBond(mk, "creation") /\ mk.bonds["creation"].who = mk.creator
  /\ HasBond(mk, "oracle") /\ mk.bonds["oracle"].who = mk.creator
  /\ IF mk.status = "Proposed" \/ (mk.creation = "Permissionless" /\ mk.status # "Resolved")
     THEN Waiting(mk, h, "creation") ELSE h["creation"] = mk.creator
  /\ mk.status # "Resolved" => Waiting(mk, h, "oracle")

(* The bonds of an outsider's report and of a dispute.                     *)
ReportBondsSound(mk, h) ==
  /\ IF mk.report # None /\ mk.report.by # mk.oracle
     THEN mk.status # "Resolved" => Waiting(mk, h, "outsider")
     ELSE Absent(mk, h, "outsider")
  /\ mk.status \notin {"Disputed", "Resolved"} => Absent(mk, h, "dispute")
  /\ mk.status = "Disputed" => Waiting(mk, h, "dispute")

(* The bonds of an early close.  close_market loses the flags of those it  *)
(* settles, so nothing is said about the flags of a market that is closed. *)
EarlyCloseBondsSound(mk, h) ==
  IF mk.status \in {"Proposed", "Active"}
  THEN IF mk.early_close = None
       THEN Absent(mk, h, "close_request") /\ Absent(mk, h, "close_dispute")
       ELSE /\ mk.early_close.state = "ScheduledAsMarketCreator" =>
                 Waiting(mk, h, "close_request") /\ Absent(mk, h, "close_dispute")
            /\ mk.early_close.state = "Disputed" =>
                 Waiting(mk, h, "close_request") /\ Waiting(mk, h, "close_dispute")
            /\ mk.early_close.state \in {"ScheduledAsOther", "Rejected"} =>
                 /\ ~IsPending(mk, "close_request") /\ Released(h, "close_request")
                 /\ ~IsPending(mk, "close_dispute") /\ Released(h, "close_dispute")
  ELSE Released(h, "close_request") /\ Released(h, "close_dispute")

(* The period in force beside the one that an early close replaces.        *)
PeriodSound(mk) ==
  mk.status = "Active" /\ mk.early_close # None =>
    IF mk.early_close.state \in {"ScheduledAsMarketCreator", "ScheduledAsOther"}
    THEN mk.period.kind = mk.early_close.old.kind /\ mk.period.end < mk.early_close.old.end
    ELSE mk.period = mk.early_close.old

(* Who has been paid in a resolved market.                                 *)
PaidOut(mk, h) ==
  LET reporter == mk.report.by
      byOracle == reporter = mk.oracle
  IN  /\ h["creation"] = mk.creator
      /\ mk.resolved_outcome # mk.report.outcome =>
           /\ HasBond(mk, "dispute")
           /\ h["dispute"] = mk.bonds["dispute"].who
           /\ h["oracle"] = mk.bonds["dispute"].who
           /\ ~byOracle => h["outsider"] = mk.bonds["dispute"].who
      /\ mk.resolved_outcome = mk.report.outcome =>
           /\ h["dispute"] = (IF HasBond(mk, "dispute") THEN Treasury ELSE None)
           /\ h["oracle"] = (IF byOracle THEN mk.creator ELSE reporter)
           /\ ~byOracle => h["outsider"] = reporter

SoundBook(mk, h) ==
  /\ StatusSound(mk)
  /\ CreatorBondsSound(mk, h)
  /\ ReportBondsSound(mk, h)
  /\ EarlyCloseBondsSound(mk, h)
  /\ PeriodSound(mk)
  /\ mk.status = "Resolved" => PaidOut(mk, h)

BooksSound ==
  \A m \in MarketIds :
    IF Exists(m) THEN SoundBook(markets[m], held[m])
    ELSE \A k \in BondKinds : Released(held[m], k)

(* A court belongs to a market that was disputed before it.  A market in   *)
(* court has its court until a global dispute takes it away, and the       *)
(* authority's report is there only while the market is disputed.          *)
DisputeSound(m) ==
  /\ AuthorizedOutcomeReports[m] # None =>
       HasStatus(m, "Disputed") /\ markets[m].dispute_mechanism = "Authorized"
  /\ Courts[m] # None =>
       /\ HasStatus(m, "Disputed") \/ HasStatus(m, "Resolved")
       /\ m \in MarketIdToCourtId /\ Courts[m].appeals <= MaxAppeals
  /\ HasStatus(m, "Disputed") /\ markets[m].dispute_mechanism = "Court"
       /\ GlobalDisputesInfo[m] = None => Courts[m] # None

DisputesSound == \A m \in MarketIds : DisputeSound(m)

BookInv == BooksSound /\ DisputesSound /\ ReportQueueExact /\ DisputeQueueExact


-----------------------------------------------------------------------------
(* Bonds *)

(* c is the book b after its pending bond k was settled in favour of to.   *)
Paid(b, c, k, to) ==
  /\ SettledFrom(b, c)
  /\ HasBond(c.mk, k) /\ c.mk.bonds[k].who = b.mk.bonds[k].who /\ c.mk.bonds[k].is_settled
  /\ c.held[k] = to
  /\ \A j \in BondKinds \ {k} : c.mk.bonds[j] = b.mk.bonds[j] /\ c.held[j] = b.held[j]

(* c is the book b with a new bond k of who.                               *)
Opened(b, c, k, who) ==
  /\ SettledFrom(b, c)
  /\ HasBond(c.mk, k) /\ c.mk.bonds[k].who = who /\ ~c.mk.bonds[k].is_settled
  /\ c.held[k] = "reserved"
  /\ \A j \in BondKinds \ {k} : c.mk.bonds[j] = b.mk.bonds[j] /\ c.held[j] = b.held[j]

\* Settling a bond whose money is reserved hands that money over, and touches no other bond.
LEMMA SettlePays ==
  ASSUME NEW b \in Books, NEW k \in BondKinds, NEW to \in Holders, Waiting(b.mk, b.held, k)
  PROVE  Paid(b, Settle(b, k, to), k, to)
<1> DEFINE bond == [b.mk.bonds[k] EXCEPT !.is_settled = TRUE]
           bonds == [b.mk.bonds EXCEPT ![k] = bond]
           mk == [b.mk EXCEPT !.bonds = bonds]
           h == [b.held EXCEPT ![k] = to]
           c == [b EXCEPT !.mk = mk, !.held = h]
<1>1. b.mk \in MarketRecord /\ b.mk.bonds \in BondMap /\ b.held \in HolderMap
  BY Zenon, BookParts
<1>2. b.mk.bonds[k] \in Bond /\ ~b.mk.bonds[k].is_settled /\ b.held[k] = "reserved"
  BY Zenon, <1>1 DEF BondMap, HasBond, IsPending, Waiting
<1>3. bond \in Bond /\ bond.is_settled /\ bond.who = b.mk.bonds[k].who
  BY Zenon, <1>2 DEF Bond
<1>4. bonds \in BondMap /\ bonds[k] = bond /\ \A j \in BondKinds \ {k} : bonds[j] = b.mk.bonds[j]
  <2> HIDE DEF bond
  <2> QED BY Zenon, <1>1, <1>3 DEF BondMap
<1>5. mk.bonds = bonds
  <2> HIDE DEF bonds
  <2> QED BY Zenon, <1>1, <1>4, MarketWithBonds
<1>6. h[k] = to /\ \A j \in BondKinds \ {k} : h[j] = b.held[j]
  BY Zenon, <1>1 DEF HolderMap
<1>7. Settle(b, k, to) = c
  BY Zenon, <1>2 DEF Settle
<1>8. c.mk = mk /\ c.held = h
  <2> HIDE DEF mk, h
  <2> QED BY Zenon DEF Books
<1>9. SettledFrom(b, Settle(b, k, to))
  BY Zenon, SettleType DEF Waiting, IsPending
<1>10. bonds[k] # None
  <2> HIDE DEF bond, bonds
  <2> QED BY Zenon, <1>3, <1>4, NoneAssumption
<1>11. QED
  <2> HIDE DEF bond, bonds, mk, h, c
  <2> QED BY Zenon, <1>3, <1>4, <1>5, <1>6, <1>7, <1>8, <1>9, <1>10 DEF Paid, HasBond

\* The owner of a bond gets it back.
LEMMA UnreservePays ==
  ASSUME NEW b \in Books, NEW k \in BondKinds, Waiting(b.mk, b.held, k)
  PROVE  Paid(b, unreserve_bond(b, k), k, b.mk.bonds[k].who) /\ b.mk.bonds[k].who \in Accounts
<1>1. b.mk.bonds[k] \in Bond
  BY Zenon, BookParts DEF BondMap, HasBond, IsPending, Waiting
<1>2. b.mk.bonds[k].who \in Accounts /\ b.mk.bonds[k].who \in Holders
  BY Zenon, <1>1 DEF Bond, Holders
<1>3. QED
  BY Zenon, <1>2, SettlePays DEF unreserve_bond

\* A new bond is reserved, and no other bond is touched.
LEMMA OpenBondOpens ==
  ASSUME NEW b \in Books, NEW k \in BondKinds, NEW who \in Accounts, b.held[k] # "reserved"
  PROVE  Opened(b, OpenBond(b, k, who), k, who)
<1> DEFINE bond == [who |-> who, is_settled |-> FALSE]
           bonds == [b.mk.bonds EXCEPT ![k] = bond]
           mk == [b.mk EXCEPT !.bonds = bonds]
           h == [b.held EXCEPT ![k] = IF @ = "reserved" THEN "lost" ELSE "reserved"]
           c == [b EXCEPT !.mk = mk, !.held = h]
<1>1. b.mk \in MarketRecord /\ b.mk.bonds \in BondMap /\ b.held \in HolderMap
  BY Zenon, BookParts
<1>2. bond \in Bond /\ bond.who = who /\ ~bond.is_settled
  BY Zenon DEF Bond
<1>3. bonds \in BondMap /\ bonds[k] = bond /\ \A j \in BondKinds \ {k} : bonds[j] = b.mk.bonds[j]
  <2> HIDE DEF bond
  <2> QED BY Zenon, <1>1, <1>2 DEF BondMap
<1>4. mk.bonds = bonds
  <2> HIDE DEF bonds
  <2> QED BY Zenon, <1>1, <1>3, MarketWithBonds
<1>5. h[k] = "reserved" /\ \A j \in BondKinds \ {k} : h[j] = b.held[j]
  BY Zenon, <1>1 DEF HolderMap
<1>6. OpenBond(b, k, who) = c
  BY Zenon DEF OpenBond
<1>7. c.mk = mk /\ c.held = h
  <2> HIDE DEF mk, h
  <2> QED BY Zenon DEF Books
<1>8. SettledFrom(b, OpenBond(b, k, who))
  BY Zenon, OpenBondType
<1>9. bonds[k] # None
  <2> HIDE DEF bond, bonds
  <2> QED BY Zenon, <1>2, <1>3, NoneAssumption
<1>10. QED
  <2> HIDE DEF bond, bonds, mk, h, c
  <2> QED BY Zenon, <1>2, <1>3, <1>4, <1>5, <1>6, <1>7, <1>8, <1>9 DEF Opened, HasBond


-----------------------------------------------------------------------------
(* Books *)

\* What settling bonds leaves alone.
LEMMA SettledTerms ==
  ASSUME NEW b \in Books, NEW c, SettledFrom(b, c)
  PROVE  /\ c \in Books /\ SameTerms(b.mk, c.mk)
         /\ c.mk.status = b.mk.status /\ c.mk.period = b.mk.period
         /\ c.mk.early_close = b.mk.early_close
  BY SettledFromFields DEF SameTerms

\* approve_market settles the creation bond and keeps the book sound.
LEMMA ApprovedSound ==
  ASSUME NEW b \in Books, SoundBook(b.mk, b.held), b.mk.status = "Proposed"
  PROVE  LET c == unreserve_bond([b EXCEPT !.mk.status = "Active"], "creation")
         IN  c \in Books /\ SoundBook(c.mk, c.held)
<1> DEFINE mk == [b.mk EXCEPT !.status = "Active"]
           a == [b EXCEPT !.mk = mk]
           c == unreserve_bond(a, "creation")
<1>1. /\ mk \in MarketRecord /\ mk.status = "Active" /\ mk.bonds = b.mk.bonds
      /\ SameTerms(b.mk, mk) /\ mk.period = b.mk.period /\ mk.early_close = b.mk.early_close
  BY Zenon, BookParts, MarketWithStatus DEF Statuses, SameTerms
<1>2. a \in Books /\ a.mk = mk /\ a.held = b.held
  <2> HIDE DEF mk
  <2> QED BY Zenon, <1>1, BookWithMarket
<1>3. unreserve_bond([b EXCEPT !.mk.status = "Active"], "creation") = c
  BY Zenon
<1> HIDE DEF a, c, mk
<1>4. Waiting(a.mk, a.held, "creation") /\ a.mk.bonds["creation"].who = b.mk.creator
  BY Zenon, <1>1, <1>2 DEF SoundBook, CreatorBondsSound, Waiting, IsPending, HasBond
<1>5. Paid(a, c, "creation", b.mk.creator)
  BY Zenon, <1>2, <1>4, UnreservePays DEF BondKinds, c
<1>6. /\ c \in Books /\ c.mk.status = "Active" /\ SameTerms(b.mk, c.mk)
      /\ c.mk.period = b.mk.period /\ c.mk.early_close = b.mk.early_close
  BY <1>1, <1>2, <1>5, SettledTerms DEF Paid, SameTerms
<1>7. /\ HasBond(c.mk, "creation") /\ c.mk.bonds["creation"].who = c.mk.creator
      /\ c.held["creation"] = c.mk.creator
      /\ \A j \in BondKinds \ {"creation"} :
           c.mk.bonds[j] = b.mk.bonds[j] /\ c.held[j] = b.held[j]
  BY <1>1, <1>2, <1>4, <1>5, <1>6 DEF Paid, SameTerms
<1>8. StatusSound(c.mk)
  BY Zenon, <1>6 DEF SoundBook, StatusSound, SameTerms
<1>9. CreatorBondsSound(c.mk, c.held)
  BY Zenon, <1>6, <1>7 DEF SoundBook, StatusSound, CreatorBondsSound, SameTerms, Waiting, IsPending,
                    HasBond, BondKinds
<1>10. ReportBondsSound(c.mk, c.held)
  BY <1>6, <1>7 DEF SoundBook, ReportBondsSound, SameTerms, Waiting, Absent, IsPending, HasBond,
                    BondKinds
<1>11. EarlyCloseBondsSound(c.mk, c.held) /\ PeriodSound(c.mk)
  BY Zenon, <1>6, <1>7 DEF SoundBook, StatusSound, EarlyCloseBondsSound, PeriodSound, Waiting, Absent,
                    IsPending, HasBond, BondKinds
<1>12. QED
  BY Zenon, <1>3, <1>6, <1>8, <1>9, <1>10, <1>11 DEF SoundBook

\* The edited market takes over the bonds, and is as sound as the one it replaces.
LEMMA EditedSound ==
  ASSUME NEW mk \in MarketRecord, NEW h, SoundBook(mk, h), mk.status = "Proposed",
         NEW oracle, NEW mechanism, NEW period, NEW deadlines \in Deadlines,
         ensure_market_deadlines_are_valid(deadlines, mechanism = None)
  PROVE  SoundBook(construct_market(mk.creation, mk.creator, oracle, mechanism, period, deadlines,
                                    mk.bonds), h)
<1> DEFINE n == construct_market(mk.creation, mk.creator, oracle, mechanism, period, deadlines,
                                 mk.bonds)
<1>1. /\ n.creation = mk.creation /\ n.creator = mk.creator /\ n.bonds = mk.bonds
      /\ n.report = None /\ n.resolved_outcome = None /\ n.early_close = None
      /\ n.dispute_mechanism = mechanism /\ n.deadlines = deadlines
      /\ n.status = IF mk.creation = "Permissionless" THEN "Active" ELSE "Proposed"
  BY Zenon DEF construct_market
<1>2. n.status = "Proposed" /\ mk.report = None /\ mk.early_close = None /\ n.creation = "Advised"
  BY Zenon, <1>1 DEF SoundBook, StatusSound
<1> HIDE DEF n
<1>3. StatusSound(n)
  BY Zenon, <1>1, <1>2 DEF StatusSound, ensure_market_deadlines_are_valid
<1>4. CreatorBondsSound(n, h)
  BY Zenon, <1>1, <1>2 DEF SoundBook, CreatorBondsSound, Waiting, IsPending, HasBond
<1>5. ReportBondsSound(n, h) /\ EarlyCloseBondsSound(n, h) /\ PeriodSound(n)
  BY Zenon, <1>1, <1>2 DEF SoundBook, ReportBondsSound, EarlyCloseBondsSound, PeriodSound, Absent, HasBond
<1>6. QED
  BY Zenon, <1>2, <1>3, <1>4, <1>5 DEF SoundBook, n


\* create_market reserves the creation bond and the oracle bond of the new market.
LEMMA CreatedSound ==
  ASSUME NEW creation \in {"Permissionless", "Advised"}, NEW who \in Accounts,
         NEW oracle \in Accounts, NEW mechanism \in {None, "Authorized", "Court"},
         NEW period \in Period, NEW deadlines \in Deadlines,
         ensure_market_deadlines_are_valid(deadlines, mechanism = None)
  PROVE  LET none == [k \in BondKinds |-> None]
             mk == construct_market(creation, who, oracle, mechanism, period, deadlines, none)
             b == OpenBond(OpenBond(Book(mk, none, {}), "creation", who), "oracle", who)
         IN  b \in Books /\ SoundBook(b.mk, b.held)
<1> DEFINE none == [k \in BondKinds |-> None]
           mk == construct_market(creation, who, oracle, mechanism, period, deadlines, none)
           n == Book(mk, none, {})
           c == OpenBond(n, "creation", who)
           b == OpenBond(c, "oracle", who)
<1>1. none \in BondMap /\ none \in HolderMap /\ \A k \in BondKinds : none[k] = None
  BY Zenon DEF BondMap, HolderMap, Holders
<1>2. /\ mk.creation = creation /\ mk.creator = who /\ mk.bonds = none
      /\ mk.report = None /\ mk.resolved_outcome = None /\ mk.early_close = None
      /\ mk.dispute_mechanism = mechanism /\ mk.deadlines = deadlines
      /\ mk.status = IF creation = "Permissionless" THEN "Active" ELSE "Proposed"
  BY Zenon DEF construct_market
<1>3. mk \in MarketRecord
  <2> HIDE DEF none
  <2> QED BY Zenon, <1>1, ConstructMarketType
<1>4. n \in Books /\ n.mk = mk /\ n.held = none
  <2> HIDE DEF none, mk
  <2> QED BY Zenon, <1>1, <1>3 DEF Book, Books, HolderMap
<1> HIDE DEF none, mk, n, c, b
<1>5. None # "reserved"
  BY Zenon, HolderAssumption
<1>6. Opened(n, c, "creation", who)
  BY Zenon, <1>1, <1>4, <1>5, OpenBondOpens DEF BondKinds, c
<1>7. /\ c \in Books /\ SameTerms(mk, c.mk) /\ c.mk.status = mk.status
      /\ c.mk.early_close = mk.early_close
  BY Zenon, <1>4, <1>6, SettledTerms DEF Opened
<1>8. c.held["oracle"] = None
  BY Zenon, <1>1, <1>4, <1>6 DEF Opened, BondKinds
<1>9. Opened(c, b, "oracle", who)
  BY Zenon, <1>5, <1>7, <1>8, OpenBondOpens DEF BondKinds, b
<1>10. /\ b \in Books /\ SameTerms(mk, b.mk) /\ b.mk.status = mk.status
       /\ b.mk.early_close = mk.early_close
  BY <1>7, <1>9, SettledTerms DEF Opened, SameTerms
<1>11. /\ Waiting(b.mk, b.held, "creation") /\ b.mk.bonds["creation"].who = who
       /\ Waiting(b.mk, b.held, "oracle") /\ b.mk.bonds["oracle"].who = who
       /\ Absent(b.mk, b.held, "outsider") /\ Absent(b.mk, b.held, "dispute")
       /\ Absent(b.mk, b.held, "close_request") /\ Absent(b.mk, b.held, "close_dispute")
  BY <1>1, <1>2, <1>4, <1>6, <1>9 DEF Opened, Waiting, Absent, IsPending, HasBond, BondKinds
<1>12. StatusSound(b.mk)
  BY Zenon, <1>2, <1>10 DEF StatusSound, SameTerms, ensure_market_deadlines_are_valid
<1>13. CreatorBondsSound(b.mk, b.held)
  BY Zenon, <1>2, <1>10, <1>11 DEF CreatorBondsSound, SameTerms, Waiting, IsPending
<1>14. ReportBondsSound(b.mk, b.held) /\ EarlyCloseBondsSound(b.mk, b.held) /\ PeriodSound(b.mk)
  BY Zenon, <1>2, <1>10, <1>11 DEF ReportBondsSound, EarlyCloseBondsSound, PeriodSound, SameTerms
<1>15. SoundBook(b.mk, b.held)
  BY Zenon, <1>2, <1>10, <1>12, <1>13, <1>14 DEF SoundBook
<1>16. QED
  BY Zenon, <1>10, <1>15 DEF b, c, n, mk, none

\* A market that leaves Proposed without becoming Active takes its two bonds out of the reserve.
LEMMA ProposedReleased ==
  ASSUME NEW b \in Books, SoundBook(b.mk, b.held), b.mk.status = "Proposed",
         NEW k \in {"creation", "oracle"}, NEW j \in {"creation", "oracle"}, k # j,
         NEW to \in Accounts \cup {"split"}, NEW rest \in Accounts \cup {"split"}
  PROVE  LET c == Settle(b, k, to)
             d == Settle(c, j, rest)
         IN  /\ c.mk.bonds[j] = b.mk.bonds[j]
             /\ \A i \in BondKinds : Released(d.held, i)
<1> DEFINE c == Settle(b, k, to)
           d == Settle(c, j, rest)
<1>1. to \in Holders /\ rest \in Holders
  BY Zenon DEF Holders
<1>2. k \in BondKinds /\ j \in BondKinds
  BY Zenon DEF BondKinds
<1>3. Waiting(b.mk, b.held, k) /\ Waiting(b.mk, b.held, j)
  BY Zenon DEF SoundBook, CreatorBondsSound
<1>4. Paid(b, c, k, to)
  BY Zenon, <1>1, <1>2, <1>3, SettlePays
<1> HIDE DEF c, d
<1>5. c \in Books
  BY Zenon, <1>4 DEF Paid, SettledFrom
<1>6. Waiting(c.mk, c.held, j) /\ c.mk.bonds[j] = b.mk.bonds[j]
  BY Zenon, <1>2, <1>3, <1>4 DEF Paid, Waiting, IsPending, HasBond
<1>7. Paid(c, d, j, rest)
  BY Zenon, <1>1, <1>2, <1>5, <1>6, SettlePays DEF d
<1>8. /\ b.held["outsider"] = None /\ b.held["dispute"] = None
      /\ b.held["close_request"] = None /\ b.held["close_dispute"] = None
  BY Zenon DEF SoundBook, StatusSound, ReportBondsSound, EarlyCloseBondsSound, Absent
<1>9. \A i \in BondKinds : d.held[i] \in Accounts \cup {"split", None}
  BY <1>2, <1>4, <1>7, <1>8 DEF Paid, BondKinds
<1>10. \A i \in BondKinds : Released(d.held, i)
  BY Zenon, <1>9, HolderAssumption DEF Released
<1>11. QED
  BY Zenon, <1>6, <1>10 DEF c, d


(* close_market takes the bonds of an undecided early close out of the     *)
(* reserve.  n is the closed market, whatever its period is set to.        *)
LEMMA ClosedSound ==
  ASSUME NEW b \in Books, SoundBook(b.mk, b.held), b.mk.status = "Active",
         NEW n, n.status = "Closed", n.bonds = b.mk.bonds, SameTerms(b.mk, n)
  PROVE  SoundBook(n, close_market(b).held)
<1> DEFINE state == IF b.mk.early_close = None THEN None ELSE b.mk.early_close.state
           d == IF state = "Disputed" /\ IsPending(b.mk, "close_dispute")
                THEN unreserve_bond(b, "close_dispute") ELSE b
           r == IF state \in {"Disputed", "ScheduledAsMarketCreator"}
                     /\ IsPending(b.mk, "close_request")
                THEN unreserve_bond(d, "close_request") ELSE d
           h == close_market(b).held
<1>1. h = [r EXCEPT !.mk = [b.mk EXCEPT !.status = "Closed"]].held
  BY Zenon DEF close_market
<1>2. h = r.held
  BY <1>1
<1> HIDE DEF h
<1>3. /\ \A k \in BondKinds \ {"close_request", "close_dispute"} : r.held[k] = b.held[k]
      /\ Released(r.held, "close_request") /\ Released(r.held, "close_dispute")
  <2>1. CASE b.mk.early_close = None
    <3>1. Absent(b.mk, b.held, "close_request") /\ Absent(b.mk, b.held, "close_dispute")
      BY Zenon, <2>1 DEF SoundBook, EarlyCloseBondsSound
    <3>2. r = b
      BY Zenon, <3>1 DEF Absent, IsPending
    <3>3. QED
      BY Zenon, <3>1, <3>2, HolderAssumption DEF Absent, Released
  <2>2. CASE b.mk.early_close # None /\ state = "ScheduledAsMarketCreator"
    <3>1. Waiting(b.mk, b.held, "close_request") /\ Absent(b.mk, b.held, "close_dispute")
      BY Zenon, <2>2 DEF SoundBook, EarlyCloseBondsSound
    <3>2. r = unreserve_bond(b, "close_request")
      BY Zenon, <2>2, <3>1 DEF Waiting
    <3>3. Paid(b, r, "close_request", b.mk.bonds["close_request"].who)
          /\ b.mk.bonds["close_request"].who \in Accounts
      BY Zenon, <3>1, <3>2, UnreservePays DEF BondKinds
    <3> HIDE DEF r
    <3>4. QED
      BY Zenon, <3>1, <3>3, HolderAssumption DEF Paid, Absent, Released, BondKinds
  <2>3. CASE b.mk.early_close # None /\ state = "Disputed"
    <3>1. Waiting(b.mk, b.held, "close_request") /\ Waiting(b.mk, b.held, "close_dispute")
      BY Zenon, <2>3 DEF SoundBook, EarlyCloseBondsSound
    <3>2. d = unreserve_bond(b, "close_dispute")
      BY Zenon, <2>3, <3>1 DEF Waiting
    <3>3. Paid(b, d, "close_dispute", b.mk.bonds["close_dispute"].who)
          /\ b.mk.bonds["close_dispute"].who \in Accounts
      BY Zenon, <3>1, <3>2, UnreservePays DEF BondKinds
    <3>4. r = unreserve_bond(d, "close_request")
      <4> HIDE DEF d
      <4> QED BY Zenon, <2>3, <3>1 DEF Waiting
    <3> HIDE DEF d, r, state
    <3>5. d \in Books /\ Waiting(d.mk, d.held, "close_request")
      BY Zenon, <3>1, <3>3 DEF Paid, SettledFrom, Waiting, IsPending, HasBond, BondKinds
    <3>6. Paid(d, r, "close_request", d.mk.bonds["close_request"].who)
          /\ d.mk.bonds["close_request"].who \in Accounts
      BY Zenon, <3>4, <3>5, UnreservePays DEF BondKinds
    <3>7. QED
      BY <3>3, <3>6, HolderAssumption DEF Paid, Released, BondKinds
  <2>4. CASE b.mk.early_close # None /\ state \in {"ScheduledAsOther", "Rejected"}
    <3>1. r = b
      BY Zenon, <2>4
    <3>2. QED
      BY Zenon, <2>4, <3>1 DEF SoundBook, EarlyCloseBondsSound
  <2>5. b.mk.early_close # None => state \in EarlyCloseStates
    BY Zenon, BookParts DEF MarketRecord, EarlyClose
  <2>6. QED
    <3> HIDE DEF r, state
    <3> QED BY Zenon, <2>1, <2>2, <2>3, <2>4, <2>5 DEF EarlyCloseStates
<1> HIDE DEF r
<1>4. StatusSound(n)
  BY Zenon DEF SoundBook, StatusSound, SameTerms
<1>5. CreatorBondsSound(n, h) /\ ReportBondsSound(n, h)
  BY <1>2, <1>3 DEF SoundBook, CreatorBondsSound, ReportBondsSound, SameTerms, Waiting, Absent,
                    IsPending, HasBond, BondKinds
<1>6. EarlyCloseBondsSound(n, h) /\ PeriodSound(n)
  BY Zenon, <1>2, <1>3 DEF EarlyCloseBondsSound, PeriodSound, Released
<1>7. QED
  BY Zenon, <1>4, <1>5, <1>6 DEF SoundBook, h

(* An Active market under another period and with another state of the     *)
(* early close is as sound as its early-close bonds.                       *)
LEMMA ActiveSound ==
  ASSUME NEW mk, NEW h, SoundBook(mk, h), mk.status = "Active",
         NEW n, NEW g, n.status = "Active", SameTerms(mk, n), n.early_close # None,
         \A k \in BondKinds \ {"close_request", "close_dispute"} :
           n.bonds[k] = mk.bonds[k] /\ g[k] = h[k],
         EarlyCloseBondsSound(n, g), PeriodSound(n)
  PROVE  SoundBook(n, g)
<1>1. StatusSound(n)
  BY Zenon DEF SoundBook, StatusSound, SameTerms
<1>2. CreatorBondsSound(n, g) /\ ReportBondsSound(n, g)
  BY DEF SoundBook, CreatorBondsSound, ReportBondsSound, SameTerms, Waiting, Absent, IsPending,
         HasBond, BondKinds
<1>3. QED
  BY Zenon, <1>1, <1>2 DEF SoundBook


\* The creator's request reserves the request bond and shortens the period.
LEMMA RequestedSound ==
  ASSUME NEW b \in Books, SoundBook(b.mk, b.held), b.mk.status = "Active", b.mk.early_close = None,
         NEW who \in Accounts, NEW period \in Period,
         period.kind = b.mk.period.kind, period.end < b.mk.period.end
  PROVE  LET c == Scheduled(OpenBond(b, "close_request", who), period, "ScheduledAsMarketCreator")
         IN  SoundBook(c.mk, c.held)
<1> DEFINE o == OpenBond(b, "close_request", who)
           c == Scheduled(o, period, "ScheduledAsMarketCreator")
<1>1. Absent(b.mk, b.held, "close_request") /\ Absent(b.mk, b.held, "close_dispute")
  BY Zenon DEF SoundBook, EarlyCloseBondsSound
<1>2. Opened(b, o, "close_request", who)
  BY Zenon, <1>1, HolderAssumption, OpenBondOpens DEF Absent, BondKinds
<1> HIDE DEF o
<1>3. /\ o \in Books /\ SameTerms(b.mk, o.mk) /\ o.mk.status = "Active"
      /\ o.mk.period = b.mk.period
  BY Zenon, <1>2, SettledTerms DEF Opened
<1>4. "ScheduledAsMarketCreator" \in EarlyCloseStates
  BY Zenon DEF EarlyCloseStates
<1>5. /\ c.held = o.held /\ c.mk.bonds = o.mk.bonds /\ SameTerms(b.mk, c.mk)
      /\ c.mk.status = "Active" /\ c.mk.period = period
      /\ c.mk.early_close # None /\ c.mk.early_close.old = b.mk.period
      /\ c.mk.early_close.state = "ScheduledAsMarketCreator"
  BY <1>3, <1>4, ScheduledType DEF SameTerms
<1> HIDE DEF c
<1>6. \A k \in BondKinds \ {"close_request", "close_dispute"} :
        c.mk.bonds[k] = b.mk.bonds[k] /\ c.held[k] = b.held[k]
  BY Zenon, <1>2, <1>5 DEF Opened
<1>7. EarlyCloseBondsSound(c.mk, c.held)
  BY <1>1, <1>2, <1>5 DEF Opened, EarlyCloseBondsSound, Waiting, Absent, IsPending, HasBond, BondKinds
<1>8. PeriodSound(c.mk)
  BY Zenon, <1>5 DEF PeriodSound
<1>9. SoundBook(c.mk, c.held)
  BY <1>5, <1>6, <1>7, <1>8, ActiveSound
<1>10. QED
  BY Zenon, <1>9 DEF c, o

\* The decision for a disputed request takes both bonds out of the reserve.
LEMMA ApprovedRequestPays ==
  ASSUME NEW b \in Books,
         Waiting(b.mk, b.held, "close_request"), Waiting(b.mk, b.held, "close_dispute")
  PROVE  LET c == BondsOfApprovedRequest(b)
         IN  /\ \A k \in {"close_request", "close_dispute"} :
                  ~IsPending(c.mk, k) /\ Released(c.held, k)
             /\ \A k \in BondKinds \ {"close_request", "close_dispute"} :
                  c.mk.bonds[k] = b.mk.bonds[k] /\ c.held[k] = b.held[k]
<1> DEFINE d == repatriate_bond(b, "close_dispute", b.mk.creator)
           c == unreserve_bond(d, "close_request")
<1>1. BondsOfApprovedRequest(b) = c
  BY Zenon DEF BondsOfApprovedRequest, Waiting
<1>2. b.mk.creator \in Accounts /\ b.mk.creator \in Holders
  BY Zenon, BookParts DEF MarketRecord, Holders
<1>3. Paid(b, d, "close_dispute", b.mk.creator)
  BY Zenon, <1>2, SettlePays DEF repatriate_bond, BondKinds
<1> HIDE DEF d
<1>4. d \in Books /\ Waiting(d.mk, d.held, "close_request")
  BY Zenon, <1>3 DEF Paid, SettledFrom, Waiting, IsPending, HasBond, BondKinds
<1>5. Paid(d, c, "close_request", d.mk.bonds["close_request"].who)
      /\ d.mk.bonds["close_request"].who \in Accounts
  BY Zenon, <1>4, UnreservePays DEF BondKinds
<1> HIDE DEF c
<1>6. /\ c.mk.bonds["close_request"].is_settled /\ c.mk.bonds["close_dispute"].is_settled
      /\ c.held["close_request"] \in Accounts /\ c.held["close_dispute"] \in Accounts
  BY Zenon, <1>2, <1>3, <1>5 DEF Paid, BondKinds
<1>7. \A k \in {"close_request", "close_dispute"} : ~IsPending(c.mk, k) /\ Released(c.held, k)
  BY Zenon, <1>6, HolderAssumption DEF IsPending, Released
<1>8. \A k \in BondKinds \ {"close_request", "close_dispute"} :
        c.mk.bonds[k] = b.mk.bonds[k] /\ c.held[k] = b.held[k]
  BY Zenon, <1>3, <1>5 DEF Paid
<1>9. QED
  BY Zenon, <1>1, <1>7, <1>8

\* The CloseMarketEarlyOrigin decides an early close: nothing of it stays in the reserve.
LEMMA OrderedSound ==
  ASSUME NEW b \in Books, SoundBook(b.mk, b.held), b.mk.status = "Active",
         b.mk.early_close # None => b.mk.early_close.state \in {"Disputed", "Rejected"},
         NEW period \in Period,
         period.kind = b.mk.period.kind, period.end < b.mk.period.end
  PROVE  LET disputed == b.mk.early_close # None /\ b.mk.early_close.state = "Disputed"
             o == IF disputed THEN BondsOfApprovedRequest(b) ELSE b
             c == Scheduled(o, period, "ScheduledAsOther")
         IN  SoundBook(c.mk, c.held)
<1> DEFINE disputed == b.mk.early_close # None /\ b.mk.early_close.state = "Disputed"
           o == IF disputed THEN BondsOfApprovedRequest(b) ELSE b
           c == Scheduled(o, period, "ScheduledAsOther")
<1>1. SettledFrom(b, o)
  BY Zenon, ApprovedRequestType, SettledFromSame
<1>2. /\ \A k \in {"close_request", "close_dispute"} : ~IsPending(o.mk, k) /\ Released(o.held, k)
      /\ \A k \in BondKinds \ {"close_request", "close_dispute"} :
           o.mk.bonds[k] = b.mk.bonds[k] /\ o.held[k] = b.held[k]
  <2>1. CASE disputed
    <3>1. Waiting(b.mk, b.held, "close_request") /\ Waiting(b.mk, b.held, "close_dispute")
      BY Zenon, <2>1 DEF SoundBook, EarlyCloseBondsSound
    <3>2. QED
      BY Zenon, <2>1, <3>1, ApprovedRequestPays
  <2>2. CASE b.mk.early_close = None
    <3>1. Absent(b.mk, b.held, "close_request") /\ Absent(b.mk, b.held, "close_dispute")
      BY Zenon, <2>2 DEF SoundBook, EarlyCloseBondsSound
    <3>2. QED
      BY Zenon, <2>2, <3>1, HolderAssumption DEF Absent, Released, IsPending
  <2>3. CASE b.mk.early_close # None /\ b.mk.early_close.state = "Rejected"
    BY Zenon, <2>3 DEF SoundBook, EarlyCloseBondsSound
  <2>4. QED
    BY Zenon, <2>1, <2>2, <2>3
<1> HIDE DEF o
<1>3. /\ o \in Books /\ SameTerms(b.mk, o.mk) /\ o.mk.status = "Active"
      /\ o.mk.period = b.mk.period
  BY Zenon, <1>1, SettledTerms
<1>4. "ScheduledAsOther" \in EarlyCloseStates
  BY Zenon DEF EarlyCloseStates
<1>5. /\ c.held = o.held /\ c.mk.bonds = o.mk.bonds /\ SameTerms(b.mk, c.mk)
      /\ c.mk.status = "Active" /\ c.mk.period = period
      /\ c.mk.early_close # None /\ c.mk.early_close.old = b.mk.period
      /\ c.mk.early_close.state = "ScheduledAsOther"
  BY <1>3, <1>4, ScheduledType DEF SameTerms
<1> HIDE DEF c
<1>6. \A k \in BondKinds \ {"close_request", "close_dispute"} :
        c.mk.bonds[k] = b.mk.bonds[k] /\ c.held[k] = b.held[k]
  BY Zenon, <1>2, <1>5
<1>7. EarlyCloseBondsSound(c.mk, c.held) /\ PeriodSound(c.mk)
  BY Zenon, <1>2, <1>5 DEF EarlyCloseBondsSound, PeriodSound, IsPending, HasBond, Released
<1>8. SoundBook(c.mk, c.held)
  BY <1>5, <1>6, <1>7, ActiveSound
<1>9. QED
  BY Zenon, <1>8 DEF c, o


\* Disputing the request reserves the dispute bond beside the request bond and restores the period.
LEMMA EarlyCloseDisputedSound ==
  ASSUME NEW b \in Books, SoundBook(b.mk, b.held), b.mk.status = "Active",
         b.mk.early_close # None, b.mk.early_close.state = "ScheduledAsMarketCreator",
         NEW who \in Accounts
  PROVE  LET o == OpenBond(RestoredPeriod(b), "close_dispute", who)
             c == [o EXCEPT !.mk.early_close.state = "Disputed"]
         IN  SoundBook(c.mk, c.held)
<1> DEFINE r == RestoredPeriod(b)
           o == OpenBond(r, "close_dispute", who)
           c == [o EXCEPT !.mk.early_close.state = "Disputed"]
<1>1. Waiting(b.mk, b.held, "close_request") /\ Absent(b.mk, b.held, "close_dispute")
  BY Zenon DEF SoundBook, EarlyCloseBondsSound
<1>2. /\ r \in Books /\ r.held = b.held /\ r.mk.bonds = b.mk.bonds /\ SameTerms(b.mk, r.mk)
      /\ r.mk.status = "Active" /\ r.mk.period = b.mk.early_close.old
      /\ r.mk.early_close = b.mk.early_close
  BY Zenon, RestoredPeriodType
<1> HIDE DEF r
<1>3. Opened(r, o, "close_dispute", who)
  BY Zenon, <1>1, <1>2, HolderAssumption, OpenBondOpens DEF Absent, BondKinds
<1> HIDE DEF o
<1>4. /\ o \in Books /\ SameTerms(b.mk, o.mk) /\ o.mk.status = "Active"
      /\ o.mk.period = b.mk.early_close.old /\ o.mk.early_close = b.mk.early_close
  BY <1>2, <1>3, SettledTerms DEF Opened, SameTerms
<1>5. "Disputed" \in EarlyCloseStates
  BY Zenon DEF EarlyCloseStates
<1>6. /\ c.held = o.held /\ c.mk.bonds = o.mk.bonds /\ SameTerms(o.mk, c.mk)
      /\ c.mk.status = o.mk.status /\ c.mk.period = o.mk.period
      /\ c.mk.early_close # None /\ c.mk.early_close.old = o.mk.early_close.old
      /\ c.mk.early_close.state = "Disputed"
  BY Zenon, <1>4, <1>5, EarlyCloseStateType
<1> HIDE DEF c
<1>11. SameTerms(b.mk, c.mk)
  BY Zenon, <1>4, <1>6 DEF SameTerms
<1>7. \A k \in BondKinds \ {"close_request", "close_dispute"} :
        c.mk.bonds[k] = b.mk.bonds[k] /\ c.held[k] = b.held[k]
  BY Zenon, <1>2, <1>3, <1>6 DEF Opened
<1>8. EarlyCloseBondsSound(c.mk, c.held) /\ PeriodSound(c.mk)
  BY <1>1, <1>2, <1>3, <1>4, <1>6 DEF Opened, EarlyCloseBondsSound, PeriodSound, Waiting, IsPending,
                                HasBond, BondKinds
<1>9. SoundBook(c.mk, c.held)
  BY <1>4, <1>6, <1>7, <1>8, <1>11, ActiveSound
<1>10. QED
  BY Zenon, <1>9 DEF c, o, r

\* Settling a settled bond again moves no money.
LEMMA SettleAgain ==
  ASSUME NEW b \in Books, NEW k \in BondKinds, NEW to, HasBond(b.mk, k), ~IsPending(b.mk, k)
  PROVE  Settle(b, k, to) \in Books /\ Settle(b, k, to).mk = b.mk /\ Settle(b, k, to).held = b.held
<1>1. Settle(b, k, to) = [b EXCEPT !.asserts = b.asserts \cup {"settled_twice"}]
  BY Zenon DEF Settle, IsPending
<1>2. b.asserts \cup {"settled_twice"} \in SUBSET DebugAsserts
  BY Zenon, BookParts DEF DebugAsserts
<1>3. QED
  BY <1>1, <1>2, BookWithAsserts

(* A rejected request: the bonds of a dispute that is undecided leave the  *)
(* reserve, those that were settled before are not touched again.          *)
LEMMA RejectedRequestPays ==
  ASSUME NEW b \in Books, b.mk.early_close # None,
         b.mk.early_close.state \in {"Disputed", "ScheduledAsOther"}, b.mk.status = "Active",
         EarlyCloseBondsSound(b.mk, b.held),
         HasBond(b.mk, "close_dispute") => HasBond(b.mk, "close_request")
  PROVE  LET c == BondsOfRejectedRequest(b)
         IN  /\ \A k \in {"close_request", "close_dispute"} :
                  ~IsPending(c.mk, k) /\ Released(c.held, k)
             /\ \A k \in BondKinds \ {"close_request", "close_dispute"} :
                  c.mk.bonds[k] = b.mk.bonds[k] /\ c.held[k] = b.held[k]
<1> DEFINE to == b.mk.bonds["close_dispute"].who
           p == repatriate_bond(b, "close_request", to)
           c == unreserve_bond(p, "close_dispute")
<1>1. CASE ~HasBond(b.mk, "close_dispute")
  <2>1. BondsOfRejectedRequest(b) = b
    BY Zenon, <1>1 DEF BondsOfRejectedRequest
  <2>2. QED
    BY Zenon, <1>1, <2>1 DEF EarlyCloseBondsSound, Waiting, IsPending
<1>2. HasBond(b.mk, "close_dispute") => BondsOfRejectedRequest(b) = c
  BY Zenon DEF BondsOfRejectedRequest
<1>3. CASE HasBond(b.mk, "close_dispute") /\ b.mk.early_close.state = "Disputed"
  <2>1. Waiting(b.mk, b.held, "close_request") /\ Waiting(b.mk, b.held, "close_dispute")
    BY Zenon, <1>3 DEF EarlyCloseBondsSound
  <2>2. to \in Accounts /\ to \in Holders
    BY Zenon, <2>1, UnreservePays DEF BondKinds, Holders
  <2> HIDE DEF to
  <2>3. Paid(b, p, "close_request", to)
    BY Zenon, <2>1, <2>2, SettlePays DEF repatriate_bond, BondKinds
  <2> HIDE DEF p
  <2>4. p \in Books /\ Waiting(p.mk, p.held, "close_dispute")
    BY Zenon, <2>1, <2>3 DEF Paid, SettledFrom, Waiting, IsPending, HasBond, BondKinds
  <2>5. Paid(p, c, "close_dispute", p.mk.bonds["close_dispute"].who)
        /\ p.mk.bonds["close_dispute"].who \in Accounts
    BY Zenon, <2>4, UnreservePays DEF BondKinds
  <2> HIDE DEF c
  <2>6. /\ c.mk.bonds["close_request"].is_settled /\ c.mk.bonds["close_dispute"].is_settled
        /\ c.held["close_request"] \in Accounts /\ c.held["close_dispute"] \in Accounts
    BY Zenon, <2>2, <2>3, <2>5 DEF Paid, BondKinds
  <2>7. \A k \in {"close_request", "close_dispute"} : ~IsPending(c.mk, k) /\ Released(c.held, k)
    BY Zenon, <2>6, HolderAssumption DEF IsPending, Released
  <2>8. \A k \in BondKinds \ {"close_request", "close_dispute"} :
          c.mk.bonds[k] = b.mk.bonds[k] /\ c.held[k] = b.held[k]
    BY Zenon, <2>3, <2>5 DEF Paid
  <2>9. QED
    BY Zenon, <1>2, <1>3, <2>7, <2>8
<1>4. CASE HasBond(b.mk, "close_dispute") /\ b.mk.early_close.state = "ScheduledAsOther"
  <2>1. /\ ~IsPending(b.mk, "close_request") /\ Released(b.held, "close_request")
        /\ ~IsPending(b.mk, "close_dispute") /\ Released(b.held, "close_dispute")
    BY Zenon, <1>4 DEF EarlyCloseBondsSound
  <2>2. p \in Books /\ p.mk = b.mk /\ p.held = b.held
    BY Zenon, <1>4, <2>1, SettleAgain DEF repatriate_bond, BondKinds
  <2> HIDE DEF p
  <2>3. c.mk = b.mk /\ c.held = b.held
    BY Zenon, <1>4, <2>1, <2>2, SettleAgain DEF unreserve_bond, BondKinds
  <2> HIDE DEF c
  <2>4. QED
    BY Zenon, <1>2, <1>4, <2>1, <2>3
<1>5. QED
  BY Zenon, <1>1, <1>3, <1>4

\* Recording a rejection leaves the bonds settled and the old period in force.
LEMMA EarlyCloseRejectedSound ==
  ASSUME NEW a \in Books, SoundBook(a.mk, a.held), a.mk.status = "Active",
         NEW b \in Books, b.mk.status = "Active", SameTerms(a.mk, b.mk),
         b.mk.bonds = a.mk.bonds, b.held = a.held,
         b.mk.early_close # None, b.mk.early_close = a.mk.early_close,
         b.mk.period = b.mk.early_close.old,
         b.mk.early_close.state \in {"Disputed", "ScheduledAsOther"},
         HasBond(b.mk, "close_dispute") => HasBond(b.mk, "close_request")
  PROVE  SoundBook(Rejected(b).mk, Rejected(b).held)
<1> DEFINE c == BondsOfRejectedRequest(b)
           d == [c EXCEPT !.mk.early_close.state = "Rejected"]
<1>1. SettledFrom(b, c)
  BY Zenon, RejectedBonds
<1>2. EarlyCloseBondsSound(b.mk, b.held)
  BY Zenon DEF SoundBook, EarlyCloseBondsSound, Waiting, Absent, IsPending, HasBond
<1>3. /\ \A k \in {"close_request", "close_dispute"} : ~IsPending(c.mk, k) /\ Released(c.held, k)
      /\ \A k \in BondKinds \ {"close_request", "close_dispute"} :
           c.mk.bonds[k] = b.mk.bonds[k] /\ c.held[k] = b.held[k]
  BY Zenon, <1>2, RejectedRequestPays
<1>4. Rejected(b) = d
  BY Zenon DEF Rejected
<1> HIDE DEF c
<1>5. /\ c \in Books /\ SameTerms(b.mk, c.mk) /\ c.mk.status = "Active"
      /\ c.mk.period = b.mk.period /\ c.mk.early_close = b.mk.early_close
  BY Zenon, <1>1, SettledTerms
<1>6. "Rejected" \in EarlyCloseStates
  BY Zenon DEF EarlyCloseStates
<1>7. /\ d.held = c.held /\ d.mk.bonds = c.mk.bonds /\ SameTerms(c.mk, d.mk)
      /\ d.mk.status = c.mk.status /\ d.mk.period = c.mk.period
      /\ d.mk.early_close # None /\ d.mk.early_close.old = c.mk.early_close.old
      /\ d.mk.early_close.state = "Rejected"
  BY Zenon, <1>5, <1>6, EarlyCloseStateType
<1> HIDE DEF d
<1>11. SameTerms(a.mk, d.mk)
  BY Zenon, <1>5, <1>7 DEF SameTerms
<1>8. \A k \in BondKinds \ {"close_request", "close_dispute"} :
        d.mk.bonds[k] = a.mk.bonds[k] /\ d.held[k] = a.held[k]
  BY Zenon, <1>3, <1>7
<1>9. EarlyCloseBondsSound(d.mk, d.held) /\ PeriodSound(d.mk)
  BY <1>3, <1>5, <1>7 DEF EarlyCloseBondsSound, PeriodSound, IsPending, HasBond, Released
<1>10. QED
  BY <1>4, <1>5, <1>7, <1>8, <1>9, <1>11, ActiveSound

-----------------------------------------------------------------------------
(* Books of markets that are reported *)

(* n is mk with another status, and perhaps a report and an outcome.       *)
SameContract(mk, n) ==
  /\ n.creation = mk.creation /\ n.creator = mk.creator /\ n.oracle = mk.oracle
  /\ n.dispute_mechanism = mk.dispute_mechanism /\ n.deadlines = mk.deadlines

\* Recording a report changes the report and the status only.
LEMMA ReportedTerms ==
  ASSUME TimeOK, NEW b \in Books, NEW who \in Accounts, NEW outcome \in Outcomes
  PROVE  LET c == Reported(b, who, outcome)
         IN  /\ c \in Books /\ c.held = b.held /\ c.mk.bonds = b.mk.bonds
             /\ SameContract(b.mk, c.mk) /\ c.mk.resolved_outcome = b.mk.resolved_outcome
             /\ c.mk.status = "Reported" /\ c.mk.report # None /\ c.mk.report.at = now
             /\ c.mk.report.by = who /\ c.mk.report.outcome = outcome
             /\ c.mk.early_close = b.mk.early_close
<1> DEFINE rep == [at |-> now, by |-> who, outcome |-> outcome]
           mk == [b.mk EXCEPT !.report = rep, !.status = "Reported"]
           c == [b EXCEPT !.mk = mk]
<1>1. b.mk \in MarketRecord
  BY Zenon, BookParts
<1>2. rep \in Report /\ rep.at = now /\ rep.by = who /\ rep.outcome = outcome
  BY Zenon, ClockType DEF Report
<1>3. /\ mk \in MarketRecord /\ mk.status = "Reported" /\ mk.report = rep
      /\ mk.bonds = b.mk.bonds /\ SameContract(b.mk, mk)
      /\ mk.resolved_outcome = b.mk.resolved_outcome /\ mk.early_close = b.mk.early_close
  <2> HIDE DEF rep
  <2> QED BY Zenon, <1>1, <1>2 DEF MarketRecord, Statuses, SameContract
<1>4. c \in Books /\ c.mk = mk /\ c.held = b.held
  <2> HIDE DEF mk
  <2> QED BY Zenon, <1>3, BookWithMarket
<1>5. Reported(b, who, outcome) = c
  BY Zenon DEF Reported, Books
<1>6. rep # None
  <2> HIDE DEF rep
  <2> QED BY Zenon, <1>2, NoneAssumption
<1>7. QED
  <2> HIDE DEF c, mk, rep
  <2> QED BY Zenon, <1>2, <1>3, <1>4, <1>5, <1>6

(* report of a closed market: the outsider's bond is reserved exactly for  *)
(* a report that is not the oracle's.                                      *)
LEMMA ReportedBonds ==
  ASSUME TimeOK, NEW b \in Books, SoundBook(b.mk, b.held), b.mk.status = "Closed",
         NEW who \in Accounts, NEW outcome \in Outcomes
  PROVE  LET o == IF who # b.mk.oracle THEN OpenBond(b, "outsider", who) ELSE b
             c == Reported(o, who, outcome)
         IN  /\ c \in Books /\ c.mk.status = "Reported" /\ SameContract(b.mk, c.mk)
             /\ c.mk.report # None /\ c.mk.report.at = now /\ c.mk.report.by = who
             /\ c.mk.report.outcome = outcome /\ c.mk.resolved_outcome = None
             /\ CreatorBondsSound(c.mk, c.held) /\ ReportBondsSound(c.mk, c.held)
             /\ EarlyCloseBondsSound(c.mk, c.held)
             /\ c.mk.dispute_mechanism # None =>
                  c.mk.deadlines.dispute_duration >= MinDisputeDuration
<1> DEFINE o == IF who # b.mk.oracle THEN OpenBond(b, "outsider", who) ELSE b
           c == Reported(o, who, outcome)
<1>1. /\ b.mk.report = None /\ b.mk.resolved_outcome = None
      /\ Absent(b.mk, b.held, "outsider") /\ Absent(b.mk, b.held, "dispute")
  BY Zenon DEF SoundBook, StatusSound, ReportBondsSound
<1>2. /\ SettledFrom(b, o)
      /\ IF who # b.mk.oracle THEN Waiting(o.mk, o.held, "outsider")
         ELSE Absent(o.mk, o.held, "outsider")
      /\ \A j \in BondKinds \ {"outsider"} : o.mk.bonds[j] = b.mk.bonds[j] /\ o.held[j] = b.held[j]
  <2>1. CASE who # b.mk.oracle
    <3>1. o = OpenBond(b, "outsider", who)
      BY Zenon, <2>1
    <3>2. Opened(b, o, "outsider", who)
      BY Zenon, <1>1, <3>1, HolderAssumption, OpenBondOpens DEF Absent, BondKinds
    <3> HIDE DEF o
    <3>3. QED
      BY Zenon, <2>1, <3>2 DEF Opened, Waiting, IsPending, HasBond
  <2>2. CASE who = b.mk.oracle
    BY Zenon, <1>1, <2>2, SettledFromSame
  <2>3. QED
    BY Zenon, <2>1, <2>2
<1> HIDE DEF o
<1>3. o \in Books /\ SameTerms(b.mk, o.mk)
  BY Zenon, <1>2, SettledTerms
<1>4. /\ c \in Books /\ c.held = o.held /\ c.mk.bonds = o.mk.bonds
      /\ SameContract(o.mk, c.mk) /\ c.mk.resolved_outcome = o.mk.resolved_outcome
      /\ c.mk.status = "Reported" /\ c.mk.report # None /\ c.mk.report.at = now
      /\ c.mk.report.by = who /\ c.mk.report.outcome = outcome
  BY <1>3, ReportedTerms
<1> HIDE DEF c
<1>5. SameContract(b.mk, c.mk) /\ c.mk.resolved_outcome = None
  BY Zenon, <1>1, <1>3, <1>4 DEF SameContract, SameTerms
<1>6. CreatorBondsSound(c.mk, c.held)
  BY <1>2, <1>4, <1>5 DEF SoundBook, CreatorBondsSound, SameContract, Waiting, IsPending, HasBond,
                          BondKinds
<1>7. ReportBondsSound(c.mk, c.held)
  BY <1>1, <1>2, <1>4, <1>5 DEF ReportBondsSound, SameContract, Waiting, Absent, IsPending, HasBond,
                                BondKinds
<1>8. EarlyCloseBondsSound(c.mk, c.held)
  BY Zenon, <1>2, <1>4 DEF SoundBook, EarlyCloseBondsSound, Released, BondKinds
<1>9. c.mk.dispute_mechanism # None => c.mk.deadlines.dispute_duration >= MinDisputeDuration
  BY Zenon, <1>5 DEF SoundBook, StatusSound, SameContract
<1>10. QED
  BY Zenon, <1>4, <1>5, <1>6, <1>7, <1>8, <1>9 DEF c, o

\* dispute reserves the bond of the disputor.
LEMMA DisputedSound ==
  ASSUME NEW b \in Books, SoundBook(b.mk, b.held), b.mk.status = "Reported", NEW who \in Accounts
  PROVE  LET c == Disputed(b, who)
         IN  /\ c \in Books /\ SoundBook(c.mk, c.held) /\ SameTerms(b.mk, c.mk)
             /\ c.mk.status = "Disputed"
<1> DEFINE o == OpenBond(b, "dispute", who)
           mk == [o.mk EXCEPT !.status = "Disputed"]
           c == [o EXCEPT !.mk = mk]
<1>1. Absent(b.mk, b.held, "dispute")
  BY Zenon DEF SoundBook, ReportBondsSound
<1>2. Opened(b, o, "dispute", who)
  BY Zenon, <1>1, HolderAssumption, OpenBondOpens DEF Absent, BondKinds
<1>3. Disputed(b, who) = c
  BY Zenon DEF Disputed
<1> HIDE DEF o
<1>4. o \in Books /\ o.mk \in MarketRecord /\ SameTerms(b.mk, o.mk)
  BY Zenon, <1>2, SettledTerms, BookParts DEF Opened
<1>5. "Disputed" \in Statuses
  BY Zenon DEF Statuses
<1>6. mk \in MarketRecord /\ mk.status = "Disputed" /\ mk.bonds = o.mk.bonds /\ SameTerms(o.mk, mk)
  BY Zenon, <1>4, <1>5, MarketWithStatus
<1> HIDE DEF mk
<1>7. c \in Books /\ c.mk = mk /\ c.held = o.held
  BY Zenon, <1>4, <1>6, BookWithMarket
<1> HIDE DEF c
<1>8. SameTerms(b.mk, mk)
  BY Zenon, <1>4, <1>6 DEF SameTerms
<1>9. StatusSound(mk) /\ PeriodSound(mk)
  BY Zenon, <1>6, <1>8 DEF SoundBook, StatusSound, PeriodSound, SameTerms
<1>10. CreatorBondsSound(mk, o.held)
  BY <1>2, <1>6, <1>8 DEF Opened, SoundBook, CreatorBondsSound, SameTerms, Waiting, IsPending,
                          HasBond, BondKinds
<1>11. ReportBondsSound(mk, o.held)
  BY <1>2, <1>6, <1>8 DEF Opened, SoundBook, StatusSound, ReportBondsSound, SameTerms, Waiting,
                          Absent, IsPending, HasBond, BondKinds
<1>12. EarlyCloseBondsSound(mk, o.held)
  BY Zenon, <1>2, <1>6 DEF Opened, SoundBook, EarlyCloseBondsSound, Released, BondKinds
<1>13. QED
  BY Zenon, <1>3, <1>6, <1>7, <1>8, <1>9, <1>10, <1>11, <1>12 DEF SoundBook
-----------------------------------------------------------------------------
(* Resolution *)

\* Settling the oracle bond, and that of an outsider if there is one, touches no other bond.
LEMMA ReportBondsPaid ==
  ASSUME NEW b \in Books, Waiting(b.mk, b.held, "oracle"), NEW to \in Holders, NEW rest \in Holders,
         b.mk.report.by # b.mk.oracle => Waiting(b.mk, b.held, "outsider")
  PROVE  LET outsider == b.mk.report.by # b.mk.oracle
             o == Settle(b, "oracle", to)
             s == IF outsider THEN SettleIfPending(o, "outsider", rest) ELSE o
         IN  /\ SettledFrom(b, s)
             /\ HasBond(s.mk, "oracle") /\ s.mk.bonds["oracle"].who = b.mk.bonds["oracle"].who
             /\ s.held["oracle"] = to
             /\ outsider => s.held["outsider"] = rest
             /\ ~outsider => s.held["outsider"] = b.held["outsider"]
                             /\ s.mk.bonds["outsider"] = b.mk.bonds["outsider"]
             /\ \A k \in BondKinds \ {"oracle", "outsider"} :
                  s.mk.bonds[k] = b.mk.bonds[k] /\ s.held[k] = b.held[k]
<1> DEFINE outsider == b.mk.report.by # b.mk.oracle
           o == Settle(b, "oracle", to)
           s == IF outsider THEN SettleIfPending(o, "outsider", rest) ELSE o
<1>1. Paid(b, o, "oracle", to)
  BY Zenon, SettlePays DEF BondKinds
<1> HIDE DEF o
<1>2. CASE outsider
  <2>1. o \in Books /\ Waiting(o.mk, o.held, "outsider")
    BY Zenon, <1>1, <1>2 DEF Paid, SettledFrom, Waiting, IsPending, HasBond, BondKinds
  <2>2. s = Settle(o, "outsider", rest)
    BY Zenon, <1>2, <2>1 DEF SettleIfPending, Waiting
  <2>3. Paid(o, s, "outsider", rest)
    BY Zenon, <2>1, <2>2, SettlePays DEF BondKinds
  <2> HIDE DEF s
  <2>4. SettledFrom(b, s)
    BY Zenon, <1>1, <2>3, SettledFromTransitive DEF Paid
  <2>5. QED
    BY ZenonT(30), <1>1, <1>2, <2>3, <2>4 DEF Paid, HasBond, BondKinds, o, s
<1>3. CASE ~outsider
  <2>1. s = o
    BY Zenon, <1>3
  <2> HIDE DEF s
  <2>2. QED
    BY Zenon, <1>1, <1>3, <2>1 DEF Paid, BondKinds, o, s
<1>4. QED
  BY Zenon, <1>2, <1>3

(* Who has the money of the bonds that are settled with the report: t is   *)
(* the book after b was resolved with this outcome, w the disputor.        *)
ReportSettled(b, t, outcome, w) ==
  LET by == b.mk.report.by
      right == b.mk.report.outcome = outcome
  IN  /\ SettledFrom(b, t)
      /\ HasBond(t.mk, "oracle") /\ t.mk.bonds["oracle"].who = b.mk.bonds["oracle"].who
      /\ t.held["oracle"] = (IF ~right THEN w
                             ELSE IF by = b.mk.oracle THEN b.mk.bonds["oracle"].who ELSE by)
      /\ by # b.mk.oracle => t.held["outsider"] = (IF right THEN by ELSE w)
      /\ by = b.mk.oracle => t.held["outsider"] = b.held["outsider"]
                             /\ t.mk.bonds["outsider"] = b.mk.bonds["outsider"]
      /\ \A k \in {"creation", "close_request", "close_dispute"} :
           t.mk.bonds[k] = b.mk.bonds[k] /\ t.held[k] = b.held[k]

\* The reporter and the owner of a bond can be paid.
LEMMA Payable ==
  ASSUME NEW b \in Books, b.mk.report # None, NEW k \in BondKinds, HasBond(b.mk, k)
  PROVE  b.mk.report.by \in Holders /\ b.mk.bonds[k].who \in Holders
<1>1. b.mk.report \in Report /\ b.mk.bonds[k] \in Bond
  BY Zenon, BookParts DEF MarketRecord, BondMap, HasBond
<1>2. QED
  BY Zenon, <1>1 DEF Report, Bond, Holders

\* resolve_reported_market pays the reporter, and no bond but those of the report.
LEMMA ResolveReportedPays ==
  ASSUME NEW b \in Books, b.mk.report # None, Waiting(b.mk, b.held, "oracle"),
         b.mk.report.by # b.mk.oracle => Waiting(b.mk, b.held, "outsider"), NEW w
  PROVE  LET t == resolve_reported_market(b)
         IN  /\ ReportSettled(b, t, b.mk.report.outcome, w)
             /\ t.mk.bonds["dispute"] = b.mk.bonds["dispute"] /\ t.held["dispute"] = b.held["dispute"]
<1> DEFINE by == b.mk.report.by
           outsider == by # b.mk.oracle
           to == IF outsider THEN by ELSE b.mk.bonds["oracle"].who
           o == Settle(b, "oracle", to)
           t == IF outsider THEN SettleIfPending(o, "outsider", by) ELSE o
<1>1. resolve_reported_market(b) = t
  BY Zenon DEF resolve_reported_market, repatriate_bond, unreserve_bond
<1>2. to \in Holders /\ by \in Holders
  BY Zenon, Payable DEF Waiting, IsPending, BondKinds
<1> HIDE DEF to
<1>3. /\ SettledFrom(b, t)
      /\ HasBond(t.mk, "oracle") /\ t.mk.bonds["oracle"].who = b.mk.bonds["oracle"].who
      /\ t.held["oracle"] = to
      /\ outsider => t.held["outsider"] = by
      /\ ~outsider => t.held["outsider"] = b.held["outsider"]
                      /\ t.mk.bonds["outsider"] = b.mk.bonds["outsider"]
      /\ \A k \in BondKinds \ {"oracle", "outsider"} :
           t.mk.bonds[k] = b.mk.bonds[k] /\ t.held[k] = b.held[k]
  BY Zenon, <1>2, ReportBondsPaid
<1> HIDE DEF t
<1>4. QED
  BY Zenon, <1>1, <1>3 DEF ReportSettled, BondKinds, to

(* settle_bonds pays the disputor for a wrong report with the bonds of the *)
(* report, and slashes the dispute bond for a right one.                   *)
LEMMA SettleBondsPays ==
  ASSUME NEW b \in Books, b.mk.report # None, NEW outcome, Waiting(b.mk, b.held, "oracle"),
         b.mk.report.by # b.mk.oracle => Waiting(b.mk, b.held, "outsider"),
         Waiting(b.mk, b.held, "dispute")
  PROVE  LET t == settle_bonds(b, outcome)
             w == b.mk.bonds["dispute"].who
         IN  /\ ReportSettled(b, t, outcome, w)
             /\ HasBond(t.mk, "dispute") /\ t.mk.bonds["dispute"].who = w
             /\ t.held["dispute"] = (IF b.mk.report.outcome = outcome THEN Treasury ELSE w)
<1> DEFINE by == b.mk.report.by
           w == b.mk.bonds["dispute"].who
           right == b.mk.report.outcome = outcome
           outsider == by # b.mk.oracle
           to == IF ~right THEN w ELSE IF outsider THEN by ELSE b.mk.bonds["oracle"].who
           rest == IF right THEN by ELSE w
           o == Settle(b, "oracle", to)
           s == IF outsider THEN SettleIfPending(o, "outsider", rest) ELSE o
           last == IF right THEN Treasury ELSE s.mk.bonds["dispute"].who
           t == Settle(s, "dispute", last)
<1>1. settle_bonds(b, outcome) = t
  BY Zenon DEF settle_bonds, slash_bond, repatriate_bond, unreserve_bond, Waiting
<1>2. to \in Holders /\ rest \in Holders /\ w \in Holders
  BY Zenon, Payable DEF Waiting, IsPending, BondKinds
<1> HIDE DEF to, rest
<1>3. /\ SettledFrom(b, s)
      /\ HasBond(s.mk, "oracle") /\ s.mk.bonds["oracle"].who = b.mk.bonds["oracle"].who
      /\ s.held["oracle"] = to
      /\ outsider => s.held["outsider"] = rest
      /\ ~outsider => s.held["outsider"] = b.held["outsider"]
                      /\ s.mk.bonds["outsider"] = b.mk.bonds["outsider"]
      /\ \A k \in BondKinds \ {"oracle", "outsider"} :
           s.mk.bonds[k] = b.mk.bonds[k] /\ s.held[k] = b.held[k]
  BY Zenon, <1>2, ReportBondsPaid
<1> HIDE DEF s
<1>4. /\ s \in Books /\ Waiting(s.mk, s.held, "dispute")
      /\ s.mk.bonds["dispute"].who = w /\ last \in Holders
  BY Zenon, <1>2, <1>3 DEF SettledFrom, Waiting, IsPending, HasBond, BondKinds, Holders
<1>5. Paid(s, t, "dispute", last)
  <2> HIDE DEF last
  <2> QED BY Zenon, <1>4, SettlePays DEF BondKinds
<1> HIDE DEF t
<1>6. SettledFrom(b, t)
  BY Zenon, <1>3, <1>5, SettledFromTransitive DEF Paid
<1>7. ReportSettled(b, t, outcome, w)
  BY Zenon, <1>3, <1>5, <1>6 DEF Paid, ReportSettled, HasBond, BondKinds, to, rest
<1>8. QED
  BY Zenon, <1>1, <1>4, <1>5, <1>7 DEF Paid

(* r is the book b with its market resolved to outcome.                    *)
ResolvedWith(b, r, outcome) ==
  r = [b EXCEPT !.mk.status = "Resolved", !.mk.resolved_outcome = outcome]

\* The market record of a resolved market.
LEMMA MarketResolved ==
  ASSUME NEW b \in Books, NEW outcome \in Outcomes, NEW r, ResolvedWith(b, r, outcome)
  PROVE  /\ r.held = b.held /\ r.mk.bonds = b.mk.bonds /\ SameContract(b.mk, r.mk)
         /\ r.mk.status = "Resolved" /\ r.mk.resolved_outcome = outcome /\ r.mk.report = b.mk.report
         /\ r.mk \in MarketRecord
<1> DEFINE mk == [b.mk EXCEPT !.status = "Resolved", !.resolved_outcome = outcome]
<1>1. b.mk \in MarketRecord
  BY Zenon, BookParts
<1>2. /\ mk \in MarketRecord /\ mk.status = "Resolved" /\ mk.resolved_outcome = outcome
      /\ mk.bonds = b.mk.bonds /\ mk.report = b.mk.report /\ SameContract(b.mk, mk)
  BY Zenon, <1>1 DEF MarketRecord, Statuses, SameContract
<1>3. r = [b EXCEPT !.mk = mk]
  BY Zenon DEF Books, ResolvedWith
<1> HIDE DEF mk
<1>4. r.mk = mk /\ r.held = b.held
  BY Zenon, <1>2, <1>3, BookWithMarket
<1>5. QED
  BY Zenon, <1>2, <1>4

(* on_resolution pays everybody and leaves nothing in the reserve.         *)
LEMMA ResolutionSound ==
  ASSUME NEW b \in Books, NEW outcome \in Outcomes, b.mk.status \in {"Reported", "Disputed"},
         b.mk.report # None, b.mk.status = "Reported" => outcome = b.mk.report.outcome,
         CreatorBondsSound(b.mk, b.held), ReportBondsSound(b.mk, b.held),
         EarlyCloseBondsSound(b.mk, b.held),
         b.mk.dispute_mechanism # None => b.mk.deadlines.dispute_duration >= MinDisputeDuration
  PROVE  LET r == on_resolution(b, outcome)
         IN  /\ SoundBook(r.mk, r.held) /\ SameContract(b.mk, r.mk) /\ r.mk.status = "Resolved"
             /\ r.mk.report = b.mk.report /\ r.mk.resolved_outcome = outcome
             /\ r.mk \in MarketRecord
<1> DEFINE c == IF b.mk.creation = "Permissionless" THEN unreserve_bond(b, "creation") ELSE b
           s == IF b.mk.status = "Reported" THEN resolve_reported_market(c)
                ELSE settle_bonds(c, outcome)
           r == [s EXCEPT !.mk.status = "Resolved", !.mk.resolved_outcome = outcome]
           w == b.mk.bonds["dispute"].who
<1>1. /\ SettledFrom(b, c) /\ c.held["creation"] = b.mk.creator
      /\ HasBond(c.mk, "creation") /\ c.mk.bonds["creation"].who = b.mk.creator
      /\ \A j \in BondKinds \ {"creation"} : c.mk.bonds[j] = b.mk.bonds[j] /\ c.held[j] = b.held[j]
  <2>1. CASE b.mk.creation = "Permissionless"
    <3>1. Waiting(b.mk, b.held, "creation") /\ b.mk.bonds["creation"].who = b.mk.creator
      BY Zenon, <2>1 DEF CreatorBondsSound
    <3>2. c = unreserve_bond(b, "creation")
      BY Zenon, <2>1
    <3>3. Paid(b, c, "creation", b.mk.creator)
      BY Zenon, <3>1, <3>2, UnreservePays DEF BondKinds
    <3> HIDE DEF c
    <3>4. QED
      BY Zenon, <3>1, <3>3 DEF Paid
  <2>2. CASE b.mk.creation # "Permissionless"
    BY Zenon, <2>2, SettledFromSame DEF CreatorBondsSound
  <2>3. QED
    BY Zenon, <2>1, <2>2
<1>2. on_resolution(b, outcome) = r
  BY Zenon DEF on_resolution
<1> HIDE DEF c
<1>3. c \in Books /\ SameTerms(b.mk, c.mk)
  BY Zenon, <1>1, SettledTerms
<1>4. /\ c.mk.report = b.mk.report /\ c.mk.oracle = b.mk.oracle
      /\ Waiting(c.mk, c.held, "oracle") /\ c.mk.bonds["oracle"].who = b.mk.creator
      /\ IF b.mk.report.by # b.mk.oracle THEN Waiting(c.mk, c.held, "outsider")
         ELSE Absent(c.mk, c.held, "outsider")
      /\ IF b.mk.status = "Disputed" THEN Waiting(c.mk, c.held, "dispute")
         ELSE Absent(c.mk, c.held, "dispute")
      /\ c.mk.bonds["dispute"] = b.mk.bonds["dispute"]
  BY <1>1, <1>3 DEF CreatorBondsSound, ReportBondsSound, SameTerms, Waiting, Absent, IsPending,
                    HasBond, BondKinds
<1>5. /\ ReportSettled(c, s, outcome, w)
      /\ b.mk.status = "Reported" => Absent(s.mk, s.held, "dispute")
      /\ b.mk.status = "Disputed" =>
           /\ HasBond(s.mk, "dispute") /\ s.mk.bonds["dispute"].who = w
           /\ s.held["dispute"] = (IF b.mk.report.outcome = outcome THEN Treasury ELSE w)
  <2>1. CASE b.mk.status = "Reported"
    <3>1. s = resolve_reported_market(c)
      BY Zenon, <2>1
    <3>2. /\ ReportSettled(c, s, outcome, w)
          /\ s.mk.bonds["dispute"] = c.mk.bonds["dispute"] /\ s.held["dispute"] = c.held["dispute"]
      BY Zenon, <1>3, <1>4, <2>1, <3>1, ResolveReportedPays
    <3>3. QED
      BY Zenon, <1>4, <2>1, <3>2 DEF Absent, HasBond
  <2>2. CASE b.mk.status = "Disputed"
    <3>1. s = settle_bonds(c, outcome)
      BY Zenon, <2>2
    <3>2. QED
      <4>1. /\ c.mk.report # None /\ Waiting(c.mk, c.held, "oracle")
            /\ c.mk.report.by # c.mk.oracle => Waiting(c.mk, c.held, "outsider")
            /\ Waiting(c.mk, c.held, "dispute")
        BY Zenon, <1>4, <2>2
      <4> DEFINE t == settle_bonds(c, outcome)
                 wc == c.mk.bonds["dispute"].who
      <4>2. /\ ReportSettled(c, t, outcome, wc)
            /\ HasBond(t.mk, "dispute") /\ t.mk.bonds["dispute"].who = wc
            /\ t.held["dispute"] = (IF c.mk.report.outcome = outcome THEN Treasury ELSE wc)
        BY Zenon, <1>3, <4>1, SettleBondsPays
      <4> HIDE DEF t
      <4>3. t = s /\ wc = w /\ c.mk.report = b.mk.report
        BY Zenon, <1>4, <3>1 DEF t
      <4>4. QED
        BY Zenon, <2>2, <4>2, <4>3
  <2>3. QED
    BY Zenon, <2>1, <2>2
<1> HIDE DEF s
<1>6. s \in Books /\ SameTerms(c.mk, s.mk)
  BY Zenon, <1>3, <1>5, SettledTerms DEF ReportSettled
<1>7. ResolvedWith(s, r, outcome)
  BY Zenon DEF ResolvedWith
<1> HIDE DEF r
<1>8. /\ r.held = s.held /\ r.mk.bonds = s.mk.bonds /\ SameContract(s.mk, r.mk)
      /\ r.mk.status = "Resolved" /\ r.mk.resolved_outcome = outcome /\ r.mk.report = s.mk.report
      /\ r.mk \in MarketRecord
  BY Zenon, <1>6, <1>7, MarketResolved
<1>9. SameContract(b.mk, r.mk) /\ r.mk.report = b.mk.report
  BY Zenon, <1>3, <1>6, <1>8 DEF SameContract, SameTerms
<1>10. StatusSound(r.mk) /\ PeriodSound(r.mk)
  BY Zenon, <1>8, <1>9 DEF StatusSound, PeriodSound, SameContract
<1>11. CreatorBondsSound(r.mk, r.held)
  <2>1. /\ s.mk.bonds["creation"] = c.mk.bonds["creation"] /\ s.held["creation"] = b.mk.creator
        /\ HasBond(s.mk, "oracle") /\ s.mk.bonds["oracle"].who = b.mk.creator
    BY Zenon, <1>1, <1>4, <1>5 DEF ReportSettled
  <2>2. /\ HasBond(r.mk, "creation") /\ r.mk.bonds["creation"].who = r.mk.creator
        /\ HasBond(r.mk, "oracle") /\ r.mk.bonds["oracle"].who = r.mk.creator
        /\ r.held["creation"] = r.mk.creator
    BY <1>1, <1>8, <1>9, <2>1 DEF SameContract, HasBond
  <2>3. QED
    BY Zenon, <1>8, <2>2 DEF CreatorBondsSound
<1>12. ReportBondsSound(r.mk, r.held)
  BY Zenon, <1>4, <1>5, <1>8, <1>9 DEF ReportBondsSound, ReportSettled, SameContract, Absent, HasBond
<1>13. EarlyCloseBondsSound(r.mk, r.held)
  BY Zenon, <1>1, <1>5, <1>8 DEF EarlyCloseBondsSound, ReportSettled, Released, BondKinds
<1>14. PaidOut(r.mk, r.held)
  <2>1. r.held["creation"] = r.mk.creator
    BY Zenon, <1>1, <1>5, <1>8, <1>9 DEF ReportSettled, SameContract
  <2>2. r.mk.resolved_outcome # r.mk.report.outcome =>
          /\ HasBond(r.mk, "dispute") /\ r.mk.bonds["dispute"].who = w
          /\ r.held["dispute"] = w /\ r.held["oracle"] = w
          /\ r.mk.report.by # r.mk.oracle => r.held["outsider"] = w
    BY Zenon, <1>4, <1>5, <1>8, <1>9 DEF ReportSettled, SameContract, HasBond
  <2>3. r.mk.resolved_outcome = r.mk.report.outcome =>
          /\ r.held["dispute"] = (IF HasBond(r.mk, "dispute") THEN Treasury ELSE None)
          /\ r.held["oracle"] = (IF r.mk.report.by = r.mk.oracle THEN r.mk.creator
                                 ELSE r.mk.report.by)
          /\ r.mk.report.by # r.mk.oracle => r.held["outsider"] = r.mk.report.by
    BY ZenonT(30), <1>4, <1>5, <1>8, <1>9 DEF ReportSettled, SameContract, HasBond, Absent
  <2>4. QED
    BY Zenon, <2>1, <2>2, <2>3 DEF PaidOut
<1>15. SoundBook(r.mk, r.held)
  BY Zenon, <1>10, <1>11, <1>12, <1>13, <1>14 DEF SoundBook
<1>16. QED
  BY Zenon, <1>2, <1>8, <1>9, <1>15

-----------------------------------------------------------------------------
(* Calls on markets that are not reported yet *)

(* Later moments lie in later time frames, or in the same.                 *)
LEMMA FramesGrow ==
  ASSUME NEW s \in Nat, NEW t \in Nat, s <= t
  PROVE  calculate_time_frame_of_moment(s) <= calculate_time_frame_of_moment(t)
  BY MillisAssumption DEF calculate_time_frame_of_moment

(* A time frame, or more, from now lies in a later time frame.             *)
LEMMA FrameAdvances ==
  ASSUME NEW t \in Nat, NEW d \in Nat, d >= MILLISECS_PER_BLOCK
  PROVE  calculate_time_frame_of_moment(t) < calculate_time_frame_of_moment(t + d)
  BY MillisAssumption DEF calculate_time_frame_of_moment

(* Market m, and no other, and its bonds, have changed.                    *)
OnlyBook(m) == \A n \in MarketIds \ {m} : markets'[n] = markets[n] /\ held'[n] = held[n]

(* What a call does to a market that is not reported: it removes a         *)
(* proposed market, or it keeps or advances the status of a sound market   *)
(* under a period that is the old one, a longer one, or one that ends      *)
(* later than now.                                                         *)
OpenMove(m) ==
  /\ markets[m] # None /\ markets[m].status \in {"Proposed", "Active", "Closed"}
  /\ OnlyBook(m)
  /\ UNCHANGED <<MarketIdsPerReportBlock, MarketIdsPerDisputeBlock, disputeVars, timeVars,
                 MarketCounter>>
  /\ \/ /\ markets[m].status = "Proposed" /\ markets'[m] = None
        /\ \A k \in BondKinds : Released(held'[m], k)
     \/ /\ markets'[m] # None /\ SoundBook(markets'[m], held'[m])
        /\ \/ markets'[m].status = markets[m].status
           \/ markets[m].status = "Proposed" /\ markets'[m].status = "Active"
           \/ markets[m].status = "Active" /\ markets'[m].status = "Closed"
        /\ markets'[m].status # "Closed" =>
             \/ markets'[m].period = markets[m].period
             \/ ensure_market_period_is_valid(markets'[m].period)
             \/ /\ markets'[m].period.kind = markets[m].period.kind
                /\ markets[m].period.end < markets'[m].period.end

\* Writing the book of a market writes no other.
LEMMA PutBookOnly ==
  ASSUME BooksOK, NEW m \in MarketIds, NEW b, PutBook(m, b)
  PROVE  OnlyBook(m) /\ markets'[m] = b.mk /\ held'[m] = b.held
  BY Zenon DEF BooksOK, PutBook, OnlyBook

\* The book of a sound market is sound.
LEMMA BookOfSound ==
  ASSUME BooksOK, BooksSound, NEW m \in MarketIds, markets[m] # None
  PROVE  /\ BookOf(m) \in Books /\ BookOf(m).mk = markets[m] /\ BookOf(m).held = held[m]
         /\ SoundBook(BookOf(m).mk, BookOf(m).held) /\ markets[m] \in MarketRecord
<1>1. BookOf(m) \in Books /\ BookOf(m).mk = markets[m] /\ BookOf(m).held = held[m]
  BY Zenon, BookOfType DEF BookOf, Book
<1>2. SoundBook(markets[m], held[m])
  BY Zenon DEF BooksSound, Exists
<1>3. QED
  BY Zenon, <1>1, <1>2, BookParts

\* approve_market, request_edit, edit_market and reject_market.
LEMMA ProposedMove ==
  ASSUME TypeOK, BooksSound, NEW m \in MarketIds,
         approve_market(m) \/ request_edit(m) \/ EditMarket(m) \/ reject_market(m)
  PROVE  OpenMove(m)
<1>1. BooksOK /\ TimeOK
  BY Zenon, TypeParts
<1>2. markets[m] # None /\ markets[m].status = "Proposed"
  BY Zenon DEF approve_market, request_edit, EditMarket, edit_market, reject_market, HasStatus
<1>3. UNCHANGED <<MarketIdsPerReportBlock, MarketIdsPerDisputeBlock, disputeVars, timeVars,
                  MarketCounter>>
  BY Zenon DEF approve_market, request_edit, EditMarket, edit_market, reject_market, idVars, queueVars
<1> DEFINE b == BookOf(m)
<1>4. /\ b \in Books /\ b.mk = markets[m] /\ b.held = held[m]
      /\ SoundBook(b.mk, b.held) /\ markets[m] \in MarketRecord
  BY Zenon, <1>1, <1>2, BookOfSound
<1>5. CASE approve_market(m)
  <2> DEFINE c == unreserve_bond([b EXCEPT !.mk.status = "Active"], "creation")
  <2>1. PutBook(m, c)
    BY Zenon, <1>5 DEF approve_market
  <2>2. SoundBook(c.mk, c.held)
    <3> HIDE DEF b
    <3> QED BY Zenon, <1>2, <1>4, ApprovedSound
  <2>3. OnlyBook(m) /\ markets'[m] = c.mk /\ held'[m] = c.held
    <3> HIDE DEF c
    <3> QED BY Zenon, <1>1, <2>1, PutBookOnly
  <2>4. /\ markets'[m] # None /\ markets'[m].status = "Active"
        /\ markets'[m].period = markets[m].period
    BY Zenon, <1>1, <1>5, ApproveMarket DEF Becomes
  <2>5. QED
    <3> HIDE DEF c
    <3> QED BY Zenon, <1>2, <1>3, <2>2, <2>3, <2>4 DEF OpenMove
<1>6. CASE request_edit(m)
  <2>1. markets' = markets /\ held' = held
    BY Zenon, <1>6 DEF request_edit, marketVars
  <2>2. QED
    BY Zenon, <1>2, <1>3, <1>4, <2>1 DEF OpenMove, OnlyBook
<1>7. CASE EditMarket(m)
  <2>1. PICK oracle \in Accounts, mechanism \in Mechanisms, period \in Periods,
             deadlines \in DeadlineChoices : edit_market(m, oracle, mechanism, period, deadlines)
    BY Zenon, <1>7 DEF EditMarket
  <2> DEFINE n == construct_market(markets[m].creation, markets[m].creator, oracle, mechanism,
                                   period, deadlines, markets[m].bonds)
  <2>2. /\ markets' = [markets EXCEPT ![m] = n] /\ held' = held
        /\ ensure_market_period_is_valid(period)
        /\ ensure_market_deadlines_are_valid(deadlines, mechanism = None)
    BY Zenon, <2>1 DEF edit_market, ConstructOk
  <2>3. SoundBook(n, held[m])
    <3>1. deadlines \in Deadlines
      BY Zenon, InputAssumption
    <3>2. QED
      BY Zenon, <1>2, <1>4, <2>2, <3>1, EditedSound
  <2>4. n.status = "Proposed" /\ n.period = period /\ n # None
    <3>1. n.status = IF markets[m].creation = "Permissionless" THEN "Active" ELSE "Proposed"
      BY Zenon DEF construct_market
    <3>2. markets[m].creation = "Advised"
      BY Zenon, <1>2, <1>4 DEF SoundBook, StatusSound
    <3>3. n.period = period
      BY Zenon DEF construct_market
    <3>4. \E st \in {"Active", "Proposed"} : Becomes(m, st, period)
      BY Zenon, <1>1, <2>1, EditMarketMarket
    <3>5. markets'[m] = n
      BY Zenon, <1>1, <2>2 DEF BooksOK
    <3>6. QED
      <4> HIDE DEF n
      <4> QED BY Zenon, <3>1, <3>2, <3>3, <3>4, <3>5 DEF Becomes
  <2>5. QED
    <3> HIDE DEF n
    <3> QED BY Zenon, <1>1, <1>2, <1>3, <2>2, <2>3, <2>4 DEF OpenMove, OnlyBook, BooksOK
<1>8. CASE reject_market(m)
  <2> DEFINE w == b.mk.bonds["oracle"].who
             o == Settle(b, "oracle", w)
             c == Settle(o, "creation", "split")
  <2>1. PutBook(m, [c EXCEPT !.mk = None])
    BY Zenon, <1>8 DEF reject_market, unreserve_bond, slash_bond
  <2>2. w \in Accounts
    <3> HIDE DEF b
    <3> QED BY Zenon, <1>2, <1>4, UnreservePays DEF SoundBook, CreatorBondsSound, BondKinds
  <2>3. \A k \in BondKinds : Released(c.held, k)
    <3> HIDE DEF b, w
    <3> QED BY Zenon, <1>2, <1>4, <2>2, ProposedReleased
  <2>4. OnlyBook(m) /\ markets'[m] = None /\ held'[m] = c.held
    <3> DEFINE r == [c EXCEPT !.mk = None]
    <3>1. c \in Books
      <4>1. SettledFrom(b, o)
        BY Zenon, <1>2, <1>4, UnreserveType DEF SoundBook, CreatorBondsSound, unreserve_bond, BondKinds
      <4>2. o \in Books /\ HasBond(o.mk, "creation")
        <5> HIDE DEF b, o
        <5> QED BY Zenon, <1>2, <1>4, <4>1 DEF SettledFrom, SoundBook, CreatorBondsSound, BondKinds
      <4>3. "split" \in Holders
        BY Zenon DEF Holders
      <4>4. QED
        <5> HIDE DEF o
        <5> QED BY Zenon, <4>2, <4>3, SettleType DEF SettledFrom, BondKinds
    <3>2. r.mk = None /\ r.held = c.held
      <4> HIDE DEF c
      <4> QED BY Zenon, <3>1 DEF Books
    <3>3. QED
      <4> HIDE DEF r
      <4> QED BY Zenon, <1>1, <2>1, <3>2, PutBookOnly DEF r
  <2>5. QED
    <3> HIDE DEF c
    <3> QED BY Zenon, <1>2, <1>3, <2>3, <2>4 DEF OpenMove
<1>9. QED
  BY Zenon, <1>5, <1>6, <1>7, <1>8

\* Every way of closing a market by hand.
LEMMA CloseMove ==
  ASSUME TypeOK, BooksSound, NEW m \in MarketIds, HasStatus(m, "Active"), CloseNow(m)
  PROVE  OpenMove(m)
<1>1. BooksOK /\ TimeOK
  BY Zenon, TypeParts
<1> DEFINE a == BookOf(m)
           b == close_market(a)
           n == set_market_end(b.mk)
           c == [b EXCEPT !.mk = n]
           per == [b.mk.period EXCEPT !.end = IF b.mk.period.kind = "Block" THEN now ELSE moment]
<1>2. /\ a \in Books /\ a.mk = markets[m] /\ a.held = held[m] /\ a.mk.status = "Active"
      /\ SoundBook(a.mk, a.held) /\ a.mk \in MarketRecord
  BY Zenon, <1>1, BookOfSound DEF HasStatus
<1> HIDE DEF a
<1>3. b \in Books /\ b.mk = [a.mk EXCEPT !.status = "Closed"]
  BY Zenon, <1>2, CloseMarketType
<1>4. /\ b.mk \in MarketRecord /\ b.mk.status = "Closed" /\ b.mk.bonds = a.mk.bonds
      /\ SameTerms(a.mk, b.mk)
  <2> HIDE DEF b
  <2>1. "Closed" \in Statuses
    BY Zenon DEF Statuses
  <2>2. QED
    BY <1>2, <1>3, <2>1, MarketWithStatus
<1>5. n.status = "Closed" /\ n.bonds = a.mk.bonds /\ SameTerms(a.mk, n) /\ n \in MarketRecord
  <2> HIDE DEF b
  <2>1. per \in Period
    BY Zenon, <1>1, <1>4, ClockType DEF MarketRecord, Period
  <2>2. n = [b.mk EXCEPT !.period = per]
    BY Zenon DEF set_market_end
  <2> HIDE DEF per, n
  <2>3. n \in MarketRecord /\ n.bonds = b.mk.bonds /\ SameTerms(b.mk, n) /\ n.status = b.mk.status
    BY Zenon, <1>4, <2>1, <2>2, MarketWithPeriod
  <2>4. QED
    BY Zenon, <1>4, <2>3 DEF SameTerms
<1>6. c.mk = n /\ c.held = b.held
  <2> HIDE DEF b, n
  <2> QED BY Zenon, <1>3, <1>5, BookWithMarket
<1>7. SoundBook(n, b.held)
  <2> HIDE DEF n
  <2> QED BY Zenon, <1>2, <1>5, ClosedSound
<1>8. PutBook(m, c)
  BY Zenon DEF CloseNow, a
<1> HIDE DEF b, n, c
<1>9. OnlyBook(m) /\ markets'[m] = n /\ held'[m] = b.held
  BY Zenon, <1>1, <1>6, <1>8, PutBookOnly
<1>10. UNCHANGED <<MarketIdsPerReportBlock, MarketIdsPerDisputeBlock, disputeVars, timeVars,
                   MarketCounter>>
  BY Zenon DEF CloseNow, idVars
<1>11. n # None
  BY Zenon, <1>5, NoneAssumption
<1>12. QED
  BY Zenon, <1>2, <1>5, <1>7, <1>9, <1>10, <1>11 DEF OpenMove, HasStatus

\* A market under another period, or with another state of its early close.
LEMMA ActiveMove ==
  ASSUME TypeOK, NEW m \in MarketIds, HasStatus(m, "Active"), NEW b \in Books,
         b.mk.status = "Active", SoundBook(b.mk, b.held),
         PutBook(m, b),
         UNCHANGED <<MarketIdsPerReportBlock, MarketIdsPerDisputeBlock, disputeVars, timeVars,
                     MarketCounter>>,
         \/ b.mk.period = markets[m].period
         \/ ensure_market_period_is_valid(b.mk.period)
         \/ b.mk.period.kind = markets[m].period.kind /\ markets[m].period.end < b.mk.period.end
  PROVE  OpenMove(m)
<1>1. BooksOK
  BY Zenon, TypeParts
<1>2. OnlyBook(m) /\ markets'[m] = b.mk /\ held'[m] = b.held
  BY Zenon, <1>1, PutBookOnly
<1>3. b.mk # None
  BY Zenon, BookParts, NoneAssumption
<1>4. QED
  BY Zenon, <1>2, <1>3 DEF OpenMove, HasStatus

\* The period of a scheduled early close ends later than now.
LEMMA NewPeriodValid ==
  ASSUME TimeOK, NEW mk \in MarketRecord, NEW x \in Nat \ {0}, NEW y \in Nat,
         y >= MILLISECS_PER_BLOCK
  PROVE  /\ NewPeriod(mk, x, y) \in Period /\ NewPeriod(mk, x, y).kind = mk.period.kind
         /\ ensure_market_period_is_valid(NewPeriod(mk, x, y))
<1> DEFINE p == NewPeriod(mk, x, y)
<1>1. mk.period \in Period /\ now \in Nat /\ moment \in Nat
  BY Zenon, ClockType DEF MarketRecord
<1>2. /\ p \in Period /\ p.kind = mk.period.kind
      /\ p.end = IF mk.period.kind = "Block" THEN now + x ELSE moment + y
  BY <1>1 DEF NewPeriod, Period
<1> HIDE DEF p
<1>3. now < now + x
  BY <1>1
<1>4. calculate_time_frame_of_moment(moment) < calculate_time_frame_of_moment(moment + y)
  BY Zenon, <1>1, FrameAdvances
<1>5. QED
  BY Zenon, <1>2, <1>3, <1>4 DEF ensure_market_period_is_valid, p

\* schedule_early_close, by the creator and by the CloseMarketEarlyOrigin.
LEMMA ScheduleMove ==
  ASSUME TypeOK, BooksSound, NEW m \in MarketIds, schedule_early_close(m)
  PROVE  OpenMove(m)
<1>1. BooksOK /\ TimeOK
  BY Zenon, TypeParts
<1>2. HasStatus(m, "Active")
  BY Zenon DEF schedule_early_close, ScheduleAsOther, ScheduleAsMarketCreator
<1> DEFINE b == BookOf(m)
<1>3. /\ b \in Books /\ b.mk = markets[m] /\ b.held = held[m] /\ b.mk.status = "Active"
      /\ SoundBook(b.mk, b.held) /\ markets[m] \in MarketRecord
  BY Zenon, <1>1, <1>2, BookOfSound DEF HasStatus
<1>4. ASSUME NEW who \in Accounts, ScheduleAsMarketCreator(m, who)
      PROVE  OpenMove(m)
  <2> DEFINE period == NewPeriod(markets[m], CloseEarlyBlockPeriod, CloseEarlyTimeFramePeriod)
             o == OpenBond(b, "close_request", who)
             c == Scheduled(o, period, "ScheduledAsMarketCreator")
  <2>1. Reschedule(m, c) /\ period.end < markets[m].period.end /\ markets[m].early_close = None
    BY Zenon, <1>4 DEF ScheduleAsMarketCreator
  <2>2. /\ period \in Period /\ period.kind = markets[m].period.kind
        /\ ensure_market_period_is_valid(period)
    BY Zenon, <1>1, <1>3, PeriodAssumption, NewPeriodValid
  <2> HIDE DEF b, period
  <2>3. SoundBook(c.mk, c.held)
    BY Zenon, <1>3, <2>1, <2>2, RequestedSound
  <2>4. o \in Books /\ o.mk.status = "Active"
    BY Zenon, <1>3, OpenBondType, SettledTerms DEF BondKinds
  <2> HIDE DEF o
  <2>5. "ScheduledAsMarketCreator" \in EarlyCloseStates
    BY Zenon DEF EarlyCloseStates
  <2>6. c \in Books /\ c.mk.status = "Active" /\ c.mk.period = period
    BY <2>2, <2>4, <2>5, ScheduledType
  <2> HIDE DEF c
  <2>7. /\ PutBook(m, c)
         /\ UNCHANGED <<MarketIdsPerReportBlock, MarketIdsPerDisputeBlock, disputeVars, timeVars,
                        MarketCounter>>
    BY Zenon, <2>1 DEF Reschedule, idVars
  <2>8. QED
    BY Zenon, <1>2, <2>2, <2>3, <2>6, <2>7, ActiveMove
<1>5. CASE ScheduleAsOther(m)
  <2> DEFINE period == ProtectionPeriod(markets[m])
             disputed == b.mk.early_close # None /\ b.mk.early_close.state = "Disputed"
             o == IF disputed THEN BondsOfApprovedRequest(b) ELSE b
             c == Scheduled(o, period, "ScheduledAsOther")
  <2>1. /\ period.end < markets[m].period.end
        /\ markets[m].early_close # None => markets[m].early_close.state \in {"Disputed", "Rejected"}
    BY Zenon, <1>5 DEF ScheduleAsOther
  <2>2. Reschedule(m, c)
    <3>1. markets[m] = b.mk
      BY Zenon, <1>3
    <3>2. QED
      BY Zenon, <1>5, <3>1 DEF ScheduleAsOther
  <2>3. /\ period \in Period /\ period.kind = markets[m].period.kind
        /\ ensure_market_period_is_valid(period)
    BY Zenon, <1>1, <1>3, PeriodAssumption, NewPeriodValid DEF ProtectionPeriod
  <2> HIDE DEF b, period
  <2>4. SoundBook(c.mk, c.held)
    BY Zenon, <1>3, <2>1, <2>3, OrderedSound
  <2>5. SettledFrom(b, o)
    BY Zenon, <1>3, ApprovedRequestType, SettledFromSame
  <2> HIDE DEF o
  <2>6. o \in Books /\ o.mk.status = "Active"
    BY Zenon, <1>3, <2>5, SettledTerms
  <2>7. "ScheduledAsOther" \in EarlyCloseStates
    BY Zenon DEF EarlyCloseStates
  <2>8. c \in Books /\ c.mk.status = "Active" /\ c.mk.period = period
    BY <2>3, <2>6, <2>7, ScheduledType
  <2> HIDE DEF c
  <2>9. /\ PutBook(m, c)
         /\ UNCHANGED <<MarketIdsPerReportBlock, MarketIdsPerDisputeBlock, disputeVars, timeVars,
                        MarketCounter>>
    BY Zenon, <2>2 DEF Reschedule, idVars
  <2>10. QED
    BY Zenon, <1>2, <2>3, <2>4, <2>8, <2>9, ActiveMove
<1>6. QED
  BY Zenon, <1>4, <1>5 DEF schedule_early_close

\* dispute_early_close brings back the longer period.
LEMMA DisputeEarlyCloseMove ==
  ASSUME TypeOK, BooksSound, NEW m \in MarketIds, NEW who \in Accounts, dispute_early_close(m, who)
  PROVE  OpenMove(m)
<1>1. BooksOK
  BY Zenon, TypeParts
<1> DEFINE b == BookOf(m)
           r == RestoredPeriod(b)
           o == OpenBond(r, "close_dispute", who)
           c == [o EXCEPT !.mk.early_close.state = "Disputed"]
<1>2. /\ HasStatus(m, "Active") /\ markets[m].early_close # None
      /\ markets[m].early_close.state = "ScheduledAsMarketCreator" /\ Reschedule(m, c)
  BY Zenon DEF dispute_early_close
<1>3. /\ b \in Books /\ b.mk = markets[m] /\ b.mk.status = "Active" /\ SoundBook(b.mk, b.held)
  BY Zenon, <1>1, <1>2, BookOfSound DEF HasStatus
<1> HIDE DEF b
<1>4. SoundBook(c.mk, c.held)
  BY Zenon, <1>2, <1>3, EarlyCloseDisputedSound
<1>5. r \in Books /\ r.mk.status = "Active" /\ r.mk.period = b.mk.early_close.old
      /\ r.mk.early_close = b.mk.early_close
  BY Zenon, <1>2, <1>3, RestoredPeriodType
<1> HIDE DEF r
<1>6. o \in Books /\ o.mk.status = "Active" /\ o.mk.period = b.mk.early_close.old
      /\ o.mk.early_close # None
  BY Zenon, <1>2, <1>3, <1>5, OpenBondType, SettledTerms DEF BondKinds
<1> HIDE DEF o
<1>7. "Disputed" \in EarlyCloseStates
  BY Zenon DEF EarlyCloseStates
<1>8. c \in Books /\ c.mk.status = o.mk.status /\ c.mk.period = o.mk.period
  BY Zenon, <1>6, <1>7, EarlyCloseStateType
<1> HIDE DEF c
<1>9. c.mk.period.kind = markets[m].period.kind /\ markets[m].period.end < c.mk.period.end
  BY Zenon, <1>2, <1>3, <1>6, <1>8 DEF SoundBook, PeriodSound
<1>10. /\ PutBook(m, c)
       /\ UNCHANGED <<MarketIdsPerReportBlock, MarketIdsPerDisputeBlock, disputeVars, timeVars,
                      MarketCounter>>
  BY Zenon, <1>2 DEF Reschedule, idVars
<1>11. QED
  BY Zenon, <1>2, <1>4, <1>6, <1>8, <1>9, <1>10, ActiveMove

\* reject_early_close leaves the period of a disputed request, and restores it after an order.
LEMMA RejectEarlyCloseMove ==
  ASSUME TypeOK, BooksSound, NEW m \in MarketIds, reject_early_close(m)
  PROVE  OpenMove(m)
<1>1. BooksOK
  BY Zenon, TypeParts
<1> DEFINE b == BookOf(m)
           r == RestoredPeriod(b)
<1>2. /\ HasStatus(m, "Active") /\ markets[m].early_close # None
      /\ HasBond(markets[m], "close_dispute") => HasBond(markets[m], "close_request")
  BY Zenon DEF reject_early_close
<1>3. /\ b \in Books /\ b.mk = markets[m] /\ b.mk.status = "Active" /\ SoundBook(b.mk, b.held)
  BY Zenon, <1>1, <1>2, BookOfSound DEF HasStatus
<1>4. CASE /\ markets[m].early_close.state = "Disputed" /\ PutBook(m, Rejected(b))
           /\ UNCHANGED <<idVars, queueVars, disputeVars, timeVars>>
  <2> HIDE DEF b
  <2>1. /\ Rejected(b) \in Books /\ Rejected(b).mk.status = "Active"
        /\ Rejected(b).mk.period = markets[m].period
    BY Zenon, <1>2, <1>3, RejectedType
  <2>2. b.mk.period = b.mk.early_close.old
    BY Zenon, <1>2, <1>3, <1>4 DEF SoundBook, PeriodSound
  <2>3. SoundBook(Rejected(b).mk, Rejected(b).held)
    BY Zenon, <1>2, <1>3, <1>4, <2>2, EarlyCloseRejectedSound DEF SameTerms
  <2>4. /\ PutBook(m, Rejected(b))
         /\ UNCHANGED <<MarketIdsPerReportBlock, MarketIdsPerDisputeBlock, disputeVars, timeVars,
                        MarketCounter>>
    BY Zenon, <1>4 DEF idVars, queueVars
  <2>5. QED
    BY Zenon, <1>2, <2>1, <2>3, <2>4, ActiveMove
<1>5. CASE /\ markets[m].early_close.state = "ScheduledAsOther" /\ Reschedule(m, Rejected(r))
  <2> HIDE DEF b
  <2>1. /\ r \in Books /\ r.held = b.held /\ r.mk.status = "Active" /\ r.mk.bonds = b.mk.bonds
        /\ SameTerms(b.mk, r.mk) /\ r.mk.period = b.mk.early_close.old
        /\ r.mk.early_close = b.mk.early_close
    BY Zenon, <1>2, <1>3, RestoredPeriodType
  <2> HIDE DEF r
  <2>2. HasBond(r.mk, "close_dispute") => HasBond(r.mk, "close_request")
    BY Zenon, <1>2, <1>3, <2>1 DEF HasBond
  <2>3. /\ Rejected(r) \in Books /\ Rejected(r).mk.status = "Active"
        /\ Rejected(r).mk.period = b.mk.early_close.old
    BY Zenon, <1>2, <1>3, <2>1, <2>2, RejectedType
  <2>4. SoundBook(Rejected(r).mk, Rejected(r).held)
    BY Zenon, <1>2, <1>3, <1>5, <2>1, <2>2, EarlyCloseRejectedSound
  <2>5. /\ Rejected(r).mk.period.kind = markets[m].period.kind
        /\ markets[m].period.end < Rejected(r).mk.period.end
    BY Zenon, <1>2, <1>3, <1>5, <2>3 DEF SoundBook, PeriodSound
  <2>6. /\ PutBook(m, Rejected(r))
         /\ UNCHANGED <<MarketIdsPerReportBlock, MarketIdsPerDisputeBlock, disputeVars, timeVars,
                        MarketCounter>>
    BY Zenon, <1>5 DEF Reschedule, idVars
  <2>7. QED
    BY Zenon, <1>2, <2>3, <2>4, <2>5, <2>6, ActiveMove
<1>6. QED
  BY Zenon, <1>4, <1>5 DEF reject_early_close

-----------------------------------------------------------------------------
(* Moves of markets that are closed *)

(* The sound market m, and no other, advances from one status to another.  *)
Advances(m, from, to) ==
  /\ HasStatus(m, from) /\ OnlyBook(m)
  /\ markets'[m] # None /\ markets'[m].status = to /\ SoundBook(markets'[m], held'[m])
  /\ markets'[m].dispute_mechanism = markets[m].dispute_mechanism
  /\ markets'[m].deadlines = markets[m].deadlines

\* report, of a market with a dispute mechanism and of a trusted one.
LEMMA ReportMove ==
  ASSUME TypeOK, BooksSound, NEW m \in MarketIds, NEW who \in Accounts, NEW outcome \in Outcomes,
         report(m, who, outcome)
  PROVE  /\ markets'[m].report.outcome = outcome
         /\ markets[m].dispute_mechanism # None =>
              Advances(m, "Closed", "Reported") /\ markets'[m].report.at = now
         /\ markets[m].dispute_mechanism = None =>
              Advances(m, "Closed", "Resolved") /\ markets'[m].resolved_outcome = outcome
<1>1. BooksOK /\ TimeOK
  BY Zenon, TypeParts
<1>2. HasStatus(m, "Closed")
  BY Zenon DEF report
<1> DEFINE b == BookOf(m)
           o == IF who # b.mk.oracle THEN OpenBond(b, "outsider", who) ELSE b
           c == Reported(o, who, outcome)
<1>3. /\ b \in Books /\ b.mk = markets[m] /\ b.mk.status = "Closed" /\ SoundBook(b.mk, b.held)
  BY Zenon, <1>1, <1>2, BookOfSound DEF HasStatus
<1>4. b.mk.dispute_mechanism # None => PutBook(m, c)
  BY Zenon, <1>3 DEF report, report_market_with_dispute_mechanism
<1>5. b.mk.dispute_mechanism = None => o = b /\ PutBook(m, on_resolution(c, outcome))
  BY Zenon, <1>3 DEF report, report_and_resolve_market
<1> HIDE DEF b
<1>6. /\ c \in Books /\ c.mk.status = "Reported" /\ SameContract(b.mk, c.mk)
      /\ c.mk.report # None /\ c.mk.report.at = now /\ c.mk.report.by = who
      /\ c.mk.report.outcome = outcome /\ c.mk.resolved_outcome = None
      /\ CreatorBondsSound(c.mk, c.held) /\ ReportBondsSound(c.mk, c.held)
      /\ EarlyCloseBondsSound(c.mk, c.held)
      /\ c.mk.dispute_mechanism # None => c.mk.deadlines.dispute_duration >= MinDisputeDuration
  BY Zenon, <1>1, <1>3, ReportedBonds
<1> HIDE DEF c, o
<1>7. CASE b.mk.dispute_mechanism # None
  <2>1. StatusSound(c.mk) /\ PeriodSound(c.mk)
    BY Zenon, <1>6, <1>7 DEF StatusSound, PeriodSound, SameContract
  <2>2. SoundBook(c.mk, c.held)
    BY Zenon, <1>6, <2>1 DEF SoundBook
  <2>3. OnlyBook(m) /\ markets'[m] = c.mk /\ held'[m] = c.held
    BY Zenon, <1>1, <1>4, <1>7, PutBookOnly
  <2>4. c.mk # None
    BY Zenon, <1>6, BookParts, NoneAssumption
  <2>5. QED
    BY Zenon, <1>2, <1>3, <1>6, <1>7, <2>2, <2>3, <2>4 DEF Advances, SameContract
<1>8. CASE b.mk.dispute_mechanism = None
  <2> DEFINE r == on_resolution(c, outcome)
  <2>1. /\ SoundBook(r.mk, r.held) /\ SameContract(c.mk, r.mk) /\ r.mk.status = "Resolved"
        /\ r.mk.report = c.mk.report /\ r.mk.resolved_outcome = outcome
        /\ r.mk \in MarketRecord
    BY Zenon, <1>6, ResolutionSound
  <2>2. PutBook(m, r)
    BY Zenon, <1>5, <1>8
  <2> HIDE DEF r
  <2>3. OnlyBook(m) /\ markets'[m] = r.mk /\ held'[m] = r.held
    BY Zenon, <1>1, <2>2, PutBookOnly
  <2>4. r.mk # None
    BY Zenon, <2>1, NoneAssumption
  <2>5. QED
    BY Zenon, <1>2, <1>3, <1>6, <1>8, <2>1, <2>3, <2>4 DEF Advances, SameContract
<1>9. QED
  BY Zenon, <1>7, <1>8

\* dispute, whatever the mechanism.
LEMMA DisputeMove ==
  ASSUME TypeOK, BooksSound, NEW m \in MarketIds, NEW who \in Accounts, dispute(m, who)
  PROVE  Advances(m, "Reported", "Disputed") /\ markets'[m].report = markets[m].report
<1>1. BooksOK
  BY Zenon, TypeParts
<1> DEFINE b == BookOf(m)
           c == Disputed(b, who)
<1>2. HasStatus(m, "Reported") /\ PutBook(m, c)
  BY Zenon DEF dispute, DisputeAuthorized, DisputeCourt
<1>3. b \in Books /\ b.mk = markets[m] /\ b.mk.status = "Reported" /\ SoundBook(b.mk, b.held)
  BY Zenon, <1>1, <1>2, BookOfSound DEF HasStatus
<1> HIDE DEF b
<1>4. c \in Books /\ SoundBook(c.mk, c.held) /\ SameTerms(b.mk, c.mk) /\ c.mk.status = "Disputed"
  BY Zenon, <1>3, DisputedSound
<1> HIDE DEF c
<1>5. OnlyBook(m) /\ markets'[m] = c.mk /\ held'[m] = c.held
  BY Zenon, <1>1, <1>2, PutBookOnly
<1>6. c.mk # None
  BY Zenon, <1>4, BookParts, NoneAssumption
<1>7. QED
  BY Zenon, <1>2, <1>3, <1>4, <1>5, <1>6 DEF Advances, SameTerms

(* What the resolution of market m leaves: n and h are the market and the  *)
(* holders of its bonds.                                                   *)
Resolution(m, n, h) ==
  /\ markets[m] # None /\ markets[m].status \in {"Reported", "Disputed"}
  /\ n \in MarketRecord /\ n.status = "Resolved" /\ SoundBook(n, h)
  /\ n.dispute_mechanism = markets[m].dispute_mechanism /\ n.deadlines = markets[m].deadlines
  /\ n.report = markets[m].report /\ n.resolved_outcome \in Outcomes
  /\ markets[m].status = "Reported" => n.resolved_outcome = n.report.outcome

\* on_resolution with the outcome of the report, the authority or the court.
LEMMA ResolvedBookSound ==
  ASSUME TypeOK, BooksSound, NEW m \in MarketIds, ResolutionSucceeds(m)
  PROVE  Resolution(m, ResolvedBook(m).mk, ResolvedBook(m).held)
<1>1. BooksOK /\ DisputesOK
  BY Zenon, TypeParts
<1>2. markets[m] # None /\ markets[m].status \in {"Reported", "Disputed"} /\ markets[m].report # None
  BY Zenon DEF ResolutionSucceeds
<1> DEFINE b == BookOf(m)
           outcome == get_resolved_outcome(m)
           r == on_resolution(b, outcome)
<1>3. outcome \in Outcomes
  BY Zenon, <1>1, ResolvedOutcomeType
<1>4. markets[m].status = "Reported" => outcome = markets[m].report.outcome
  BY Zenon DEF get_resolved_outcome
<1>5. b \in Books /\ b.mk = markets[m] /\ SoundBook(b.mk, b.held)
  BY Zenon, <1>1, <1>2, BookOfSound
<1>6. ResolvedBook(m) = r
  BY Zenon DEF ResolvedBook
<1> HIDE DEF b, outcome
<1>7. /\ CreatorBondsSound(b.mk, b.held) /\ ReportBondsSound(b.mk, b.held)
      /\ EarlyCloseBondsSound(b.mk, b.held)
      /\ b.mk.dispute_mechanism # None => b.mk.deadlines.dispute_duration >= MinDisputeDuration
  BY Zenon, <1>5 DEF SoundBook, StatusSound
<1>8. /\ SoundBook(r.mk, r.held) /\ SameContract(b.mk, r.mk) /\ r.mk.status = "Resolved"
      /\ r.mk.report = b.mk.report /\ r.mk.resolved_outcome = outcome
      /\ r.mk \in MarketRecord
  BY Zenon, <1>2, <1>3, <1>4, <1>5, <1>7, ResolutionSound
<1> HIDE DEF r
<1>9. QED
  BY Zenon, <1>2, <1>3, <1>4, <1>5, <1>6, <1>8 DEF Resolution, SameContract

\* admin_move_market_to_resolved.
LEMMA ResolveMove ==
  ASSUME TypeOK, BooksSound, NEW m \in MarketIds, admin_move_market_to_resolved(m)
  PROVE  OnlyBook(m) /\ Resolution(m, markets'[m], held'[m])
<1>1. ResolutionSucceeds(m) /\ PutBook(m, ResolvedBook(m)) /\ BooksOK
  BY Zenon, TypeParts DEF admin_move_market_to_resolved
<1>2. QED
  BY Zenon, <1>1, ResolvedBookSound, PutBookOnly

(* What the hook does to market m.                                         *)
HookMove(m) ==
  \/ /\ m \notin Closing \cup Resolving
     /\ markets'[m] = markets[m] /\ held'[m] = held[m]
  \/ /\ m \in Closing /\ HasStatus(m, "Proposed")
     /\ markets'[m] = None /\ \A k \in BondKinds : Released(held'[m], k)
  \/ /\ m \in Closing /\ HasStatus(m, "Active")
     /\ markets'[m] # None /\ markets'[m].status = "Closed" /\ SoundBook(markets'[m], held'[m])
  \/ m \in Resolving /\ Resolution(m, markets'[m], held'[m])

\* The hook closes, removes and resolves markets and leaves the others alone.
LEMMA HookMoves ==
  ASSUME TypeOK, BooksSound, OnInitializeCommits, NEW m \in MarketIds
  PROVE  HookMove(m)
<1>1. BooksOK
  BY Zenon, TypeParts
<1>2. markets'[m] = BookAfterHook(m).mk /\ held'[m] = BookAfterHook(m).held
  BY Zenon DEF OnInitializeCommits
<1>3. CASE m \notin Closing \cup Resolving
  BY Zenon, <1>2, <1>3 DEF BookAfterHook, BookOf, Book, HookMove
<1>4. CASE m \in Closing
  <2>1. BookAfterHook(m) = on_market_close(m)
    BY Zenon, <1>4 DEF BookAfterHook
  <2>2. HasStatus(m, "Active") \/ HasStatus(m, "Proposed")
    BY Zenon, <1>4 DEF OnInitializeCommits, ClosingSucceeds
  <2> DEFINE b == BookOf(m)
  <2>3. b \in Books /\ b.mk = markets[m] /\ SoundBook(b.mk, b.held)
    BY Zenon, <1>1, <2>2, BookOfSound DEF HasStatus
  <2>4. CASE HasStatus(m, "Active")
    <3> DEFINE c == close_market(b)
    <3>1. markets'[m] = c.mk /\ held'[m] = c.held
      BY Zenon, <1>2, <2>1, <2>4 DEF on_market_close, HasStatus
    <3> HIDE DEF b
    <3>2. b.mk.status = "Active" /\ b.mk \in MarketRecord
      BY Zenon, <2>3, <2>4, BookParts DEF HasStatus
    <3>3. c.mk = [b.mk EXCEPT !.status = "Closed"]
      BY Zenon, <2>3, CloseMarketType
    <3>4. "Closed" \in Statuses
      BY Zenon DEF Statuses
    <3> HIDE DEF c
    <3>5. /\ c.mk \in MarketRecord /\ c.mk.status = "Closed" /\ c.mk.bonds = b.mk.bonds
          /\ SameTerms(b.mk, c.mk)
      BY <3>2, <3>3, <3>4, MarketWithStatus
    <3>6. SoundBook(c.mk, c.held)
      BY Zenon, <2>3, <3>2, <3>5, ClosedSound DEF c
    <3>7. QED
      BY Zenon, <1>4, <2>4, <3>1, <3>5, <3>6, NoneAssumption DEF HookMove
  <2>5. CASE HasStatus(m, "Proposed")
    <3> DEFINE v == b.mk.bonds["creation"].who
               c == Settle(b, "creation", v)
               w == c.mk.bonds["oracle"].who
               o == Settle(c, "oracle", w)
    <3>1. markets'[m] = [o EXCEPT !.mk = None].mk /\ held'[m] = [o EXCEPT !.mk = None].held
      BY Zenon, <1>2, <2>1, <2>5 DEF on_market_close, HasStatus, handle_expired_advised_market,
                              unreserve_bond
    <3> HIDE DEF b
    <3>2. b.mk.status = "Proposed" /\ Waiting(b.mk, b.held, "creation")
          /\ Waiting(b.mk, b.held, "oracle")
      BY Zenon, <2>3, <2>5 DEF HasStatus, SoundBook, CreatorBondsSound
    <3>3. v \in Accounts /\ b.mk.bonds["oracle"].who \in Accounts
      BY Zenon, <2>3, <3>2, UnreservePays DEF BondKinds
    <3> HIDE DEF v
    <3>4. c.mk.bonds["oracle"] = b.mk.bonds["oracle"]
      BY Zenon, <2>3, <3>2, <3>3, ProposedReleased
    <3>5. w \in Accounts
      BY Zenon, <3>3, <3>4
    <3> HIDE DEF w
    <3>6. \A k \in BondKinds : Released(o.held, k)
      BY Zenon, <2>3, <3>2, <3>3, <3>5, ProposedReleased
    <3>7. o \in Books
      <4>1. SettledFrom(b, c)
        BY Zenon, <2>3, <3>2, <3>3, SettlePays DEF Paid, BondKinds, Holders
      <4>2. c \in Books /\ HasBond(c.mk, "oracle") /\ w \in Holders
        BY Zenon, <3>2, <3>4, <3>5, <4>1 DEF SettledFrom, Waiting, IsPending, HasBond, Holders
      <4> HIDE DEF c
      <4>3. QED
        BY Zenon, <4>2, SettleType DEF SettledFrom, BondKinds
    <3> HIDE DEF o
    <3>8. [o EXCEPT !.mk = None].mk = None /\ [o EXCEPT !.mk = None].held = o.held
      BY Zenon, <3>7 DEF Books
    <3>9. QED
      BY Zenon, <1>4, <2>5, <3>1, <3>6, <3>8 DEF HookMove
  <2>6. QED
    BY Zenon, <2>2, <2>4, <2>5
<1>5. CASE m \in Resolving \ Closing
  <2>1. BookAfterHook(m) = ResolvedBook(m)
    BY Zenon, <1>5 DEF BookAfterHook
  <2>2. ResolutionSucceeds(m)
    BY Zenon, <1>5 DEF OnInitializeCommits, ResolvingSucceeds
  <2>3. QED
    BY Zenon, <1>2, <1>5, <2>1, <2>2, ResolvedBookSound DEF HookMove
<1>6. QED
  BY Zenon, <1>3, <1>4, <1>5

-----------------------------------------------------------------------------
(* Calls on open markets *)

\* admin_update_market_oracle gives a closed trusted market another oracle.
LEMMA UpdateOracleMove ==
  ASSUME TypeOK, BooksSound, NEW m \in MarketIds, NEW oracle \in Accounts,
         admin_update_market_oracle(m, oracle)
  PROVE  OpenMove(m)
<1> DEFINE n == [markets[m] EXCEPT !.oracle = oracle]
<1>1. BooksOK
  BY Zenon, TypeParts
<1>2. /\ HasStatus(m, "Closed") /\ markets[m].report = None
      /\ markets' = [markets EXCEPT ![m] = n] /\ UNCHANGED held
      /\ UNCHANGED <<MarketIdsPerReportBlock, MarketIdsPerDisputeBlock, disputeVars, timeVars,
                     MarketCounter>>
  BY Zenon DEF admin_update_market_oracle, idVars, queueVars
<1>3. markets[m] \in MarketRecord /\ SoundBook(markets[m], held[m])
  BY Zenon, <1>1, <1>2, BookOfSound DEF HasStatus
<1>4. /\ n \in MarketRecord /\ n.status = markets[m].status /\ n.bonds = markets[m].bonds
      /\ n.creation = markets[m].creation /\ n.creator = markets[m].creator
      /\ n.report = markets[m].report /\ n.resolved_outcome = markets[m].resolved_outcome
      /\ n.dispute_mechanism = markets[m].dispute_mechanism /\ n.deadlines = markets[m].deadlines
      /\ n.early_close = markets[m].early_close
  BY Zenon, <1>3 DEF MarketRecord
<1> HIDE DEF n
<1>5. n.status = "Closed" /\ n.report = None
  BY Zenon, <1>2, <1>4 DEF HasStatus
<1>6. StatusSound(n) /\ PeriodSound(n)
  BY Zenon, <1>3, <1>4, <1>5 DEF SoundBook, StatusSound, PeriodSound
<1>7. CreatorBondsSound(n, held[m])
  BY Zenon, <1>3, <1>4 DEF SoundBook, CreatorBondsSound, Waiting, IsPending, HasBond
<1>8. ReportBondsSound(n, held[m]) /\ EarlyCloseBondsSound(n, held[m])
  BY Zenon, <1>2, <1>3, <1>4, <1>5 DEF SoundBook, ReportBondsSound, EarlyCloseBondsSound, Absent, HasBond
<1>9. SoundBook(n, held[m])
  BY Zenon, <1>5, <1>6, <1>7, <1>8 DEF SoundBook
<1>10. OnlyBook(m) /\ markets'[m] = n /\ held'[m] = held[m]
  BY Zenon, <1>1, <1>2 DEF OnlyBook, BooksOK
<1>11. n # None
  BY Zenon, <1>4, NoneAssumption
<1>12. QED
  BY Zenon, <1>2, <1>5, <1>9, <1>10, <1>11 DEF OpenMove, HasStatus

(* The calls on markets that are not reported yet.                         *)
OpenStep(m) ==
  \/ approve_market(m)
  \/ request_edit(m)
  \/ EditMarket(m)
  \/ reject_market(m)
  \/ admin_move_market_to_closed(m)
  \/ \E who \in Accounts : close_trusted_market(m, who)
  \/ manually_close_market(m)
  \/ schedule_early_close(m)
  \/ \E who \in Accounts : dispute_early_close(m, who)
  \/ reject_early_close(m)
  \/ \E oracle \in Accounts : admin_update_market_oracle(m, oracle)

\* Each of them is an open move.
LEMMA OpenSteps ==
  ASSUME TypeOK, BooksSound, NEW m \in MarketIds, OpenStep(m)
  PROVE  OpenMove(m)
<1>1. CASE approve_market(m) \/ request_edit(m) \/ EditMarket(m) \/ reject_market(m)
  BY Zenon, <1>1, ProposedMove
<1>2. CASE \/ admin_move_market_to_closed(m)
           \/ \E who \in Accounts : close_trusted_market(m, who)
           \/ manually_close_market(m)
  BY Zenon, <1>2, CloseMove DEF admin_move_market_to_closed, close_trusted_market,
                         manually_close_market, CanCloseManually
<1>3. CASE schedule_early_close(m) \/ reject_early_close(m)
  BY Zenon, <1>3, ScheduleMove, RejectEarlyCloseMove
<1>4. CASE \E who \in Accounts : dispute_early_close(m, who)
  BY Zenon, <1>4, DisputeEarlyCloseMove
<1>5. CASE \E oracle \in Accounts : admin_update_market_oracle(m, oracle)
  BY Zenon, <1>5, UpdateOracleMove
<1>6. QED
  BY Zenon, <1>1, <1>2, <1>3, <1>4, <1>5 DEF OpenStep

(* create_market, which makes the sound market m.                          *)
CreateMove(m) ==
  /\ m = MarketCounter /\ MarketCounter' = m + 1 /\ OnlyBook(m)
  /\ markets'[m] # None /\ SoundBook(markets'[m], held'[m])
  /\ markets'[m].status \in {"Active", "Proposed"}
  /\ ensure_market_period_is_valid(markets'[m].period)
  /\ UNCHANGED <<MarketIdsPerReportBlock, MarketIdsPerDisputeBlock, disputeVars, timeVars>>

\* Whatever create_market is called with.
LEMMA CreateMoves ==
  ASSUME TypeOK, CreateMarket
  PROVE  \E m \in MarketIds : CreateMove(m)
<1>1. BooksOK /\ IdsOK
  BY Zenon, TypeParts
<1>2. PICK who \in Accounts, oracle \in Accounts, creation \in Creations,
           mechanism \in Mechanisms, period \in Periods, deadlines \in DeadlineChoices :
             create_market(who, oracle, creation, mechanism, period, deadlines)
  BY Zenon DEF CreateMarket
<1>3. PICK m \in MarketIds :
        m = MarketCounter /\ \E st \in {"Active", "Proposed"} : Becomes(m, st, period)
  BY Zenon, <1>1, <1>2, CreateMarketMarket
<1> DEFINE none == [k \in BondKinds |-> None]
           mk == construct_market(creation, who, oracle, mechanism, period, deadlines, none)
           b == OpenBond(OpenBond(Book(mk, none, {}), "creation", who), "oracle", who)
<1>4. /\ creation \in {"Permissionless", "Advised"} /\ mechanism \in {None, "Authorized", "Court"}
      /\ period \in Period /\ deadlines \in Deadlines
  BY Zenon, InputAssumption
<1>5. /\ ensure_market_deadlines_are_valid(deadlines, mechanism = None)
      /\ ensure_market_period_is_valid(period)
      /\ PutBook(m, b) /\ MarketCounter' = m + 1
      /\ UNCHANGED <<MarketIdsPerReportBlock, MarketIdsPerDisputeBlock, disputeVars, timeVars>>
  BY Zenon, <1>2, <1>3 DEF create_market, ConstructOk, build_market
<1>6. b \in Books /\ SoundBook(b.mk, b.held)
  BY Zenon, <1>4, <1>5, CreatedSound
<1> HIDE DEF b
<1>7. OnlyBook(m) /\ markets'[m] = b.mk /\ held'[m] = b.held
  BY Zenon, <1>1, <1>5, PutBookOnly
<1>8. markets'[m].status \in {"Active", "Proposed"} /\ markets'[m].period = period
      /\ markets'[m] # None
  BY Zenon, <1>3 DEF Becomes
<1>9. CreateMove(m)
  BY Zenon, <1>3, <1>5, <1>6, <1>7, <1>8 DEF CreateMove
<1>10. QED
  BY Zenon, <1>9

-----------------------------------------------------------------------------
(* Books *)

\* A step that leaves the book of one market sound, and the others alone.
LEMMA OneBookSound ==
  ASSUME BooksSound, NEW m \in MarketIds, OnlyBook(m),
         IF markets'[m] # None THEN SoundBook(markets'[m], held'[m])
         ELSE \A k \in BondKinds : Released(held'[m], k)
  PROVE  BooksSound'
<1>1. SUFFICES ASSUME NEW n \in MarketIds
               PROVE  IF markets'[n] # None THEN SoundBook(markets'[n], held'[n])
                      ELSE \A k \in BondKinds : Released(held'[n], k)
  BY Zenon DEF BooksSound, Exists
<1>2. CASE n = m
  BY Zenon, <1>2
<1>3. CASE n # m
  <2>1. markets'[n] = markets[n] /\ held'[n] = held[n]
    BY Zenon, <1>3 DEF OnlyBook
  <2>2. IF markets[n] # None THEN SoundBook(markets[n], held[n])
        ELSE \A k \in BondKinds : Released(held[n], k)
    BY Zenon DEF BooksSound, Exists
  <2>3. QED
    BY Zenon, <2>1, <2>2
<1>4. QED
  BY Zenon, <1>2, <1>3

\* A step that writes no book.
LEMMA SameBooksSound ==
  ASSUME BooksSound, UNCHANGED <<markets, held>>
  PROVE  BooksSound'
  BY Zenon DEF BooksSound, Exists

\* start_global_dispute finds the market disputed, so that it changes no market.
LEMMA GlobalDisputeMarket ==
  ASSUME TypeOK, DisputesSound, NEW m \in MarketIds, start_global_dispute(m)
  PROVE  HasStatus(m, "Disputed") /\ Courts[m] # None /\ UNCHANGED <<markets, held>>
<1>1. /\ markets[m] # None /\ markets[m].status \in {"Disputed", "Reported"}
      /\ m \in MarketIdToCourtId /\ Courts[m] # None
      /\ markets' = [markets EXCEPT ![m].status = "Disputed"] /\ UNCHANGED held
  BY Zenon DEF start_global_dispute, CanStartGlobalDispute, has_failed
<1>2. markets[m].status = "Disputed"
  BY Zenon, <1>1 DEF DisputesSound, DisputeSound, HasStatus
<1>3. markets[m] \in MarketRecord /\ markets \in [MarketIds -> MarketRecord \cup {None}]
  BY Zenon, <1>1 DEF TypeOK
<1>4. [markets[m] EXCEPT !.status = "Disputed"] = markets[m]
  BY Zenon, <1>2, <1>3 DEF MarketRecord
<1>5. [markets EXCEPT ![m] = markets[m]] = markets
  BY Zenon, <1>3
<1>6. QED
  BY Zenon, <1>1, <1>2, <1>4, <1>5 DEF HasStatus

\* Every step keeps the books sound.
LEMMA StepBooks ==
  ASSUME TypeOK, BooksSound, DisputesSound, Next
  PROVE  BooksSound'
<1>1. CASE NewBlock
  <2>1. CASE OnInitializeCommits
    <3>1. \A n \in MarketIds :
            IF markets'[n] # None THEN SoundBook(markets'[n], held'[n])
            ELSE \A k \in BondKinds : Released(held'[n], k)
      <4> SUFFICES ASSUME NEW n \in MarketIds
                   PROVE  IF markets'[n] # None THEN SoundBook(markets'[n], held'[n])
                          ELSE \A k \in BondKinds : Released(held'[n], k)
        BY Zenon
      <4>1. HookMove(n)
        BY Zenon, <2>1, HookMoves
      <4>2. IF markets[n] # None THEN SoundBook(markets[n], held[n])
            ELSE \A k \in BondKinds : Released(held[n], k)
        BY Zenon DEF BooksSound, Exists
      <4>3. QED
        BY Zenon, <4>1, <4>2, NoneAssumption DEF HookMove, Resolution
    <3>2. QED
      BY Zenon, <3>1 DEF BooksSound, Exists
  <2>2. CASE OnInitializeRollsBack
    BY Zenon, <2>2, SameBooksSound DEF OnInitializeRollsBack, marketVars
  <2>3. QED
    BY Zenon, <1>1, <2>1, <2>2 DEF NewBlock
<1>2. CASE CreateMarket
  BY Zenon, <1>2, CreateMoves, OneBookSound DEF CreateMove
<1>3. ASSUME NEW m \in MarketIds, MarketStep(m)
      PROVE  BooksSound'
  <2>1. CASE OpenStep(m)
    BY Zenon, <2>1, OpenSteps, OneBookSound DEF OpenMove
  <2>2. CASE \E who \in Accounts, outcome \in Outcomes : report(m, who, outcome)
    BY Zenon, <2>2, ReportMove, OneBookSound DEF Advances
  <2>3. CASE \E who \in Accounts : dispute(m, who)
    BY Zenon, <2>3, DisputeMove, OneBookSound DEF Advances
  <2>4. CASE \/ \E outcome \in Outcomes : authorize_market_outcome(m, outcome)
             \/ \E outcome \in Outcomes : reveal_vote(m, outcome)
             \/ appeal(m)
    BY Zenon, <2>4, SameBooksSound DEF authorize_market_outcome, reveal_vote, appeal, marketVars
  <2>5. CASE start_global_dispute(m)
    BY Zenon, <2>5, GlobalDisputeMarket, SameBooksSound
  <2>6. CASE admin_move_market_to_resolved(m)
    BY Zenon, <2>6, ResolveMove, OneBookSound, NoneAssumption DEF Resolution
  <2>7. QED
    BY Zenon, <1>3, <2>1, <2>2, <2>3, <2>4, <2>5, <2>6 DEF MarketStep, OpenStep
<1>4. QED
  BY Zenon, <1>1, <1>2, <1>3 DEF Next

-----------------------------------------------------------------------------
(* Disputes *)

(* Whatever changes for market m, the disputes of the others stay.         *)
OnlyDispute(m) ==
  \A n \in MarketIds \ {m} :
    /\ AuthorizedOutcomeReports'[n] = AuthorizedOutcomeReports[n] /\ Courts'[n] = Courts[n]
    /\ GlobalDisputesInfo'[n] = GlobalDisputesInfo[n]
    /\ n \in MarketIdToCourtId' <=> n \in MarketIdToCourtId

\* It is enough to look at the one market that changes.
LEMMA OneDisputeSound ==
  ASSUME DisputesSound, NEW m \in MarketIds, OnlyBook(m), OnlyDispute(m), DisputeSound(m)'
  PROVE  DisputesSound'
<1>1. SUFFICES ASSUME NEW n \in MarketIds PROVE DisputeSound(n)'
  BY Zenon DEF DisputesSound
<1>2. CASE n = m
  BY Zenon, <1>2
<1>3. CASE n # m
  <2>1. DisputeSound(n) /\ markets'[n] = markets[n]
    BY Zenon, <1>3 DEF DisputesSound, OnlyBook
  <2>2. QED
    BY Zenon, <1>3, <2>1 DEF DisputeSound, OnlyDispute, HasStatus
<1>4. QED
  BY Zenon, <1>2, <1>3

\* A market that is not disputed has no report of the authority, and no court unless it is resolved.
LEMMA NoDispute ==
  ASSUME DisputesSound, NEW m \in MarketIds, ~HasStatus(m, "Disputed")
  PROVE  AuthorizedOutcomeReports[m] = None /\ (~HasStatus(m, "Resolved") => Courts[m] = None)
  BY Zenon DEF DisputesSound, DisputeSound

\* Steps that concern no dispute.
LEMMA QuietDisputes ==
  ASSUME DisputesSound, NEW m \in MarketIds, OnlyBook(m), UNCHANGED disputeVars,
         ~HasStatus(m, "Disputed"), ~HasStatus(m, "Resolved"), ~HasStatus(m, "Disputed")'
  PROVE  DisputesSound'
<1>1. AuthorizedOutcomeReports[m] = None /\ Courts[m] = None
  BY Zenon, NoDispute
<1>2. DisputeSound(m)' /\ OnlyDispute(m)
  BY Zenon, <1>1 DEF DisputeSound, OnlyDispute, disputeVars
<1>3. QED
  BY Zenon, <1>2, OneDisputeSound

\* Resolution takes the authority's report with it and leaves the court.
LEMMA ResolvedDispute ==
  ASSUME DisputesSound, NEW m \in MarketIds, Resolution(m, markets'[m], held'[m]),
         AuthorizedOutcomeReports'[m]
           = IF markets[m].status = "Disputed" /\ markets[m].dispute_mechanism = "Authorized"
             THEN None ELSE AuthorizedOutcomeReports[m],
         UNCHANGED <<MarketIdToCourtId, Courts>>
  PROVE  DisputeSound(m)' /\ AuthorizedOutcomeReports'[m] = None
<1>1. markets'[m] # None /\ markets'[m].status = "Resolved"
  BY Zenon, NoneAssumption DEF Resolution
<1>2. DisputeSound(m)
  BY Zenon DEF DisputesSound
<1>3. AuthorizedOutcomeReports'[m] = None
  BY Zenon, <1>2 DEF DisputeSound, HasStatus
<1>4. QED
  BY Zenon, <1>1, <1>2, <1>3 DEF DisputeSound, HasStatus

\* The hook and the disputes.
LEMMA HookDisputes ==
  ASSUME TypeOK, BooksSound, DisputesSound, OnInitializeCommits
  PROVE  DisputesSound'
<1>1. SUFFICES ASSUME NEW n \in MarketIds PROVE DisputeSound(n)'
  BY Zenon DEF DisputesSound
<1>2. /\ UNCHANGED <<MarketIdToCourtId, Courts, GlobalDisputesInfo>>
      /\ AuthorizedOutcomeReports'[n]
           = IF n \in Resolving /\ markets[n].status = "Disputed"
                  /\ markets[n].dispute_mechanism = "Authorized"
             THEN None ELSE AuthorizedOutcomeReports[n]
  BY Zenon DEF OnInitializeCommits, ReportsAfterResolution
<1>3. HookMove(n) /\ DisputeSound(n)
  BY Zenon, HookMoves DEF DisputesSound
<1>4. CASE n \notin Resolving \cup Closing
  BY Zenon, <1>2, <1>3, <1>4 DEF HookMove, DisputeSound, HasStatus
<1>5. CASE n \in Closing /\ (HasStatus(n, "Proposed") \/ HasStatus(n, "Active"))
           /\ ~HasStatus(n, "Disputed")'
  <2>1. AuthorizedOutcomeReports[n] = None /\ Courts[n] = None
    BY Zenon, <1>5, NoDispute DEF HasStatus
  <2>2. QED
    BY Zenon, <1>2, <1>5, <2>1 DEF DisputeSound
<1>6. CASE n \in Resolving /\ Resolution(n, markets'[n], held'[n])
  BY Zenon, <1>2, <1>6, ResolvedDispute
<1>7. QED
  BY Zenon, <1>3, <1>4, <1>5, <1>6 DEF HookMove, HasStatus

\* Every step keeps the disputes in step with the markets.
LEMMA StepDisputes ==
  ASSUME TypeOK, FreshIds, BooksSound, DisputesSound, Next
  PROVE  DisputesSound'
<1> USE DEF disputeVars
<1>1. CASE NewBlock
  <2>1. CASE OnInitializeRollsBack
    <3>1. UNCHANGED <<markets, AuthorizedOutcomeReports, MarketIdToCourtId, Courts,
                      GlobalDisputesInfo>>
      BY Zenon, <2>1 DEF OnInitializeRollsBack, marketVars
    <3>2. QED
      BY Zenon, <3>1 DEF DisputesSound, DisputeSound, HasStatus
  <2>2. QED
    BY Zenon, <1>1, <2>1, HookDisputes DEF NewBlock
<1>2. CASE CreateMarket
  <2>1. PICK m \in MarketIds : CreateMove(m)
    BY Zenon, <1>2, CreateMoves
  <2>2. markets[m] = None
    BY <2>1 DEF CreateMove, FreshIds, MarketIds
  <2>3. QED
    BY Zenon, <2>1, <2>2, QuietDisputes DEF CreateMove, HasStatus
<1>3. ASSUME NEW m \in MarketIds, MarketStep(m)
      PROVE  DisputesSound'
  <2>1. CASE OpenStep(m)
    BY Zenon, <2>1, OpenSteps, QuietDisputes DEF OpenMove, HasStatus
  <2>2. CASE \E who \in Accounts, outcome \in Outcomes : report(m, who, outcome)
    <3>1. PICK who \in Accounts, outcome \in Outcomes : report(m, who, outcome)
      BY Zenon, <2>2
    <3>2. UNCHANGED disputeVars
      BY Zenon, <3>1 DEF report, report_market_with_dispute_mechanism, report_and_resolve_market
    <3>3. QED
      BY Zenon, <3>1, <3>2, ReportMove, QuietDisputes DEF Advances, HasStatus
  <2>3. CASE \E who \in Accounts : dispute(m, who)
    <3>1. PICK who \in Accounts : dispute(m, who)
      BY Zenon, <2>3
    <3>2. Advances(m, "Reported", "Disputed")
      BY Zenon, <3>1, DisputeMove
    <3>3. AuthorizedOutcomeReports[m] = None /\ Courts[m] = None
      BY Zenon, <3>2, NoDispute DEF Advances, HasStatus
    <3>4. CASE DisputeAuthorized(m, who)
      <4>1. DisputeSound(m)' /\ OnlyDispute(m)
        BY Zenon, <3>2, <3>3, <3>4 DEF DisputeAuthorized, Advances, DisputeSound, OnlyDispute, HasStatus
      <4>2. QED
        BY Zenon, <3>2, <4>1, OneDisputeSound DEF Advances
    <3>5. CASE DisputeCourt(m, who)
      <4>1. PICK request_block \in RequestBlocks :
              Courts' = [Courts EXCEPT ![m] = Round(0, request_block)]
        BY Zenon, <3>5 DEF DisputeCourt
      <4>2. Round(0, request_block) \in Court /\ Round(0, request_block).appeals = 0
        BY Zenon, <4>1, RoundType, TypeParts DEF Round
      <4>3. Courts'[m] # None /\ Courts'[m].appeals <= MaxAppeals
            /\ \A n \in MarketIds \ {m} : Courts'[n] = Courts[n]
        BY <4>1, <4>2, NoDisputeAssumption, PeriodAssumption DEF TypeOK
      <4>4. DisputeSound(m)' /\ OnlyDispute(m)
        BY Zenon, <3>2, <3>3, <3>5, <4>3 DEF DisputeCourt, Advances, DisputeSound, OnlyDispute, HasStatus
      <4>5. QED
        BY Zenon, <3>2, <4>4, OneDisputeSound DEF Advances
    <3>6. QED
      BY Zenon, <3>1, <3>4, <3>5 DEF dispute
  <2>4. CASE \E outcome \in Outcomes : authorize_market_outcome(m, outcome)
    <3>1. /\ UNCHANGED <<markets, held, MarketIdToCourtId, Courts, GlobalDisputesInfo>>
          /\ HasStatus(m, "Disputed") /\ markets[m].dispute_mechanism = "Authorized"
          /\ \A n \in MarketIds \ {m} : AuthorizedOutcomeReports'[n] = AuthorizedOutcomeReports[n]
      BY Zenon, <2>4 DEF authorize_market_outcome, marketVars, TypeOK
    <3>2. OnlyBook(m) /\ OnlyDispute(m)
      BY Zenon, <3>1 DEF OnlyBook, OnlyDispute
    <3>3. DisputeSound(m)'
      BY Zenon, <3>1 DEF DisputesSound, DisputeSound, HasStatus
    <3>4. QED
      BY Zenon, <3>2, <3>3, OneDisputeSound
  <2>5. CASE (\E outcome \in Outcomes : reveal_vote(m, outcome)) \/ appeal(m)
    <3>1. /\ UNCHANGED <<markets, held, MarketIdToCourtId, AuthorizedOutcomeReports,
                         GlobalDisputesInfo>>
          /\ Courts[m] # None
      BY Zenon, <2>5 DEF reveal_vote, appeal, marketVars
    <3>2. /\ Courts'[m] # None /\ Courts'[m].appeals <= MaxAppeals
          /\ \A n \in MarketIds \ {m} : Courts'[n] = Courts[n]
      <4>1. Courts[m] \in Court /\ Courts[m].appeals <= MaxAppeals
        BY Zenon, <3>1 DEF DisputesSound, DisputeSound, TypeOK
      <4>2. CASE \E outcome \in Outcomes : reveal_vote(m, outcome)
        <5>1. PICK outcome \in Outcomes : reveal_vote(m, outcome)
          BY Zenon, <4>2
        <5> DEFINE court == [Courts[m] EXCEPT !.winner = outcome]
        <5>2. court \in Court /\ court.appeals = Courts[m].appeals
          BY Zenon, <4>1 DEF Court
        <5>3. Courts' = [Courts EXCEPT ![m] = court]
          BY Zenon, <5>1 DEF reveal_vote
        <5> HIDE DEF court
        <5>4. QED
          BY Zenon, <4>1, <5>2, <5>3, NoDisputeAssumption DEF TypeOK
      <4>3. CASE appeal(m)
        <5>1. PICK court \in Court :
                Courts' = [Courts EXCEPT ![m] = court] /\ court.appeals <= MaxAppeals
          <6>1. CASE \E request_block \in RequestBlocks :
                       Courts' = [Courts EXCEPT ![m] = Round(Courts[m].appeals + 1, request_block)]
            <7>1. PICK request_block \in RequestBlocks :
                    Courts' = [Courts EXCEPT ![m] = Round(Courts[m].appeals + 1, request_block)]
              BY Zenon, <6>1
            <7>2. Round(Courts[m].appeals + 1, request_block) \in Court
              <8>1. Courts[m].appeals + 1 \in Nat
                BY <4>1 DEF Court
              <8>2. QED
                BY Zenon, <8>1, RoundType, TypeParts
            <7>3. Round(Courts[m].appeals + 1, request_block).appeals <= MaxAppeals
              BY Zenon, <4>3 DEF Round, appeal
            <7>4. QED
              BY Zenon, <7>1, <7>2, <7>3
          <6>2. CASE Courts' = [Courts EXCEPT ![m].appeals = Courts[m].appeals + 1]
            <7> DEFINE court == [Courts[m] EXCEPT !.appeals = Courts[m].appeals + 1]
            <7>1. court \in Court /\ court.appeals = Courts[m].appeals + 1
              BY <4>1 DEF Court
            <7>2. court.appeals <= MaxAppeals
              BY Zenon, <4>3, <7>1 DEF appeal
            <7>3. QED
              BY Zenon, <6>2, <7>1, <7>2
          <6>3. QED
            BY Zenon, <4>3, <6>1, <6>2 DEF appeal
        <5>2. QED
          BY Zenon, <5>1, NoDisputeAssumption DEF TypeOK
      <4>4. QED
        BY Zenon, <2>5, <4>2, <4>3
    <3>3. OnlyBook(m) /\ OnlyDispute(m)
      BY Zenon, <3>1, <3>2 DEF OnlyBook, OnlyDispute
    <3>4. DisputeSound(m)'
      BY Zenon, <3>1, <3>2 DEF DisputesSound, DisputeSound, HasStatus
    <3>5. QED
      BY Zenon, <3>3, <3>4, OneDisputeSound
  <2>6. CASE start_global_dispute(m)
    <3>1. HasStatus(m, "Disputed") /\ UNCHANGED <<markets, held>>
      BY Zenon, <2>6, GlobalDisputeMarket
    <3>2. /\ Courts'[m] = None /\ GlobalDisputesInfo'[m] # None
          /\ UNCHANGED <<AuthorizedOutcomeReports, MarketIdToCourtId>>
          /\ \A n \in MarketIds \ {m} :
               Courts'[n] = Courts[n] /\ GlobalDisputesInfo'[n] = GlobalDisputesInfo[n]
      BY <2>6, TypeParts, ClockType, PeriodAssumption, NoneAssumption
         DEF start_global_dispute, DisputesOK
    <3>3. OnlyBook(m) /\ OnlyDispute(m)
      BY Zenon, <3>1, <3>2 DEF OnlyBook, OnlyDispute
    <3>4. DisputeSound(m)'
      BY Zenon, <3>1, <3>2 DEF DisputesSound, DisputeSound, HasStatus
    <3>5. QED
      BY Zenon, <3>3, <3>4, OneDisputeSound
  <2>7. CASE admin_move_market_to_resolved(m)
    <3>1. OnlyBook(m) /\ Resolution(m, markets'[m], held'[m])
      BY Zenon, <2>7, ResolveMove
    <3>2. /\ AuthorizedOutcomeReports' = ReportsAfterResolution({m})
          /\ UNCHANGED <<MarketIdToCourtId, Courts, GlobalDisputesInfo>>
      BY Zenon, <2>7 DEF admin_move_market_to_resolved
    <3>3. OnlyDispute(m)
      BY Zenon, <3>2 DEF OnlyDispute, ReportsAfterResolution
    <3>4. DisputeSound(m)'
      BY Zenon, <3>1, <3>2, ResolvedDispute DEF ReportsAfterResolution
    <3>5. QED
      BY Zenon, <3>1, <3>3, <3>4, OneDisputeSound
  <2>8. QED
    BY Zenon, <1>3, <2>1, <2>2, <2>3, <2>4, <2>5, <2>6, <2>7 DEF MarketStep, OpenStep
<1>4. QED
  BY Zenon, <1>1, <1>2, <1>3 DEF Next

-----------------------------------------------------------------------------
(* The queue of reports *)

(* What ReportQueueExact says of one market, its queue given as q.         *)
ReportQueued(q, mk, m) ==
  \A b \in Blocks :
    /\ mk # None /\ mk.status = "Reported" => q[b][m] = Indicator(b = DisputeDurationEnd(mk))
    /\ q[b][m] # 0 => /\ mk # None /\ mk.report # None
                      /\ b = DisputeDurationEnd(mk) /\ q[b][m] = 1

\* The queue is exact if it is for every market.
LEMMA ReportQueueParts ==
  /\ ReportQueueExact
       <=> \A m \in MarketIds : ReportQueued(MarketIdsPerReportBlock, markets[m], m)
  /\ ReportQueueExact'
       <=> \A m \in MarketIds : ReportQueued(MarketIdsPerReportBlock', markets'[m], m)
  BY Zenon DEF ReportQueueExact, ReportQueued, HasStatus, Exists

\* A step that changes one market and its entries.
LEMMA OneReportQueued ==
  ASSUME ReportQueueExact, NEW m \in MarketIds, OnlyBook(m),
         \A n \in MarketIds \ {m}, b \in Blocks :
           MarketIdsPerReportBlock'[b][n] = MarketIdsPerReportBlock[b][n],
         ReportQueued(MarketIdsPerReportBlock', markets'[m], m)
  PROVE  ReportQueueExact'
<1>1. SUFFICES ASSUME NEW n \in MarketIds
               PROVE  ReportQueued(MarketIdsPerReportBlock', markets'[n], n)
  BY Zenon, ReportQueueParts
<1>2. ReportQueued(MarketIdsPerReportBlock, markets[n], n)
  BY Zenon, ReportQueueParts
<1>3. CASE n # m
  BY <1>2, <1>3 DEF OnlyBook, ReportQueued
<1>4. QED
  BY Zenon, <1>3

\* A market without a report is not listed.
LEMMA NotReported ==
  ASSUME ReportQueueExact, NEW m \in MarketIds, markets[m] = None \/ markets[m].report = None
  PROVE  \A b \in Blocks : MarketIdsPerReportBlock[b][m] = 0
  BY Zenon DEF ReportQueueExact, Exists

\* A market that stays without a report, or keeps the one it has, and is not Reported.
LEMMA QuietReports ==
  ASSUME ReportQueueExact, NEW m \in MarketIds, OnlyBook(m), UNCHANGED MarketIdsPerReportBlock,
         ~HasStatus(m, "Reported")',
         \/ markets[m] = None \/ markets[m].report = None
         \/ /\ markets'[m] # None /\ markets'[m].report = markets[m].report
            /\ markets'[m].deadlines = markets[m].deadlines
  PROVE  ReportQueueExact'
<1>1. ReportQueued(MarketIdsPerReportBlock, markets[m], m)
  BY Zenon, ReportQueueParts
<1>2. CASE markets[m] = None \/ markets[m].report = None
  <2>1. \A b \in Blocks : MarketIdsPerReportBlock'[b][m] = 0
    BY Zenon, <1>2, NotReported
  <2>2. ReportQueued(MarketIdsPerReportBlock', markets'[m], m)
    BY Zenon, <2>1 DEF ReportQueued, HasStatus
  <2>3. QED
    BY Zenon, <2>2, OneReportQueued
<1>3. CASE /\ markets'[m] # None /\ markets'[m].report = markets[m].report
           /\ markets'[m].deadlines = markets[m].deadlines
  <2>1. DisputeDurationEnd(markets'[m]) = DisputeDurationEnd(markets[m])
    BY Zenon, <1>3 DEF DisputeDurationEnd
  <2>2. ReportQueued(MarketIdsPerReportBlock', markets'[m], m)
    BY Zenon, <1>1, <1>3, <2>1 DEF ReportQueued, HasStatus
  <2>3. QED
    BY Zenon, <2>2, OneReportQueued
<1>4. QED
  BY Zenon, <1>2, <1>3

\* A market that is not reported yet has no report.
LEMMA NoReportYet ==
  ASSUME BooksSound, NEW m \in MarketIds, markets[m] # None,
         markets[m].status \in {"Proposed", "Active", "Closed"}
  PROVE  markets[m].report = None
  BY Zenon DEF BooksSound, Exists, SoundBook, StatusSound

\* The hook takes the entries of one block, and resolves every Reported market among them.
LEMMA HookReports ==
  ASSUME TypeOK, BooksSound, ReportQueueExact, now + 1 \in Blocks, OnInitializeCommits
  PROVE  ReportQueueExact'
<1>1. SUFFICES ASSUME NEW m \in MarketIds
               PROVE  ReportQueued(MarketIdsPerReportBlock', markets'[m], m)
  BY Zenon, ReportQueueParts
<1>2. ReportQueued(MarketIdsPerReportBlock, markets[m], m) /\ HookMove(m)
  BY Zenon, ReportQueueParts, HookMoves
<1>3. \A b \in Blocks : MarketIdsPerReportBlock'[b][m]
                          = IF b = now + 1 THEN 0 ELSE MarketIdsPerReportBlock[b][m]
  <2>1. /\ MarketIdsPerReportBlock' = [MarketIdsPerReportBlock EXCEPT ![now + 1] = NoIds]
        /\ MarketIdsPerReportBlock \in [Blocks -> Ids] /\ NoIds[m] = 0
    BY Zenon DEF OnInitializeCommits, TypeOK, NoIds
  <2>2. QED
    BY Zenon, <2>1
<1>4. CASE m \notin Closing \cup Resolving /\ markets'[m] = markets[m]
  <2>1. MarketIdsPerReportBlock[now + 1][m] \in Nat
    BY DEF TypeOK, Ids
  <2>2. HasStatus(m, "Reported") => MarketIdsPerReportBlock[now + 1][m] = 0
    BY <1>4, <2>1 DEF Resolving, DueReports
  <2>3. QED
    BY Zenon, <1>2, <1>3, <1>4, <2>2 DEF ReportQueued, HasStatus
<1>5. CASE m \in Closing /\ (HasStatus(m, "Proposed") \/ HasStatus(m, "Active"))
           /\ (markets'[m] # None => markets'[m].status = "Closed")
  <2>1. \A b \in Blocks : MarketIdsPerReportBlock[b][m] = 0
    BY Zenon, <1>5, NoReportYet, NotReported DEF HasStatus
  <2>2. QED
    BY Zenon, <1>3, <1>5, <2>1 DEF ReportQueued
<1>6. CASE Resolution(m, markets'[m], held'[m])
  <2>1. /\ markets'[m] # None /\ markets'[m].status = "Resolved"
        /\ markets'[m].report = markets[m].report
        /\ DisputeDurationEnd(markets'[m]) = DisputeDurationEnd(markets[m])
    BY Zenon, <1>6, NoneAssumption DEF Resolution, DisputeDurationEnd
  <2>2. QED
    BY Zenon, <1>2, <1>3, <2>1 DEF ReportQueued
<1>7. QED
  BY Zenon, <1>2, <1>4, <1>5, <1>6 DEF HookMove

\* Every step keeps the queue of reports exact.
LEMMA StepReports ==
  ASSUME TypeOK, FreshIds, BooksSound, DisputesSound, ReportQueueExact, Next
  PROVE  ReportQueueExact'
<1>1. CASE NewBlock
  <2>1. CASE OnInitializeRollsBack
    <3>1. UNCHANGED <<markets, MarketIdsPerReportBlock>>
      BY Zenon, <2>1 DEF OnInitializeRollsBack, marketVars, queueVars
    <3>2. QED
      BY Zenon, <3>1, ReportQueueParts
  <2>2. QED
    BY Zenon, <1>1, <2>1, HookReports DEF NewBlock
<1>2. CASE CreateMarket
  <2>1. PICK m \in MarketIds : CreateMove(m)
    BY Zenon, <1>2, CreateMoves
  <2>2. markets[m] = None
    BY <2>1 DEF CreateMove, FreshIds, MarketIds
  <2>3. QED
    BY Zenon, <2>1, <2>2, QuietReports DEF CreateMove, HasStatus
<1>3. ASSUME NEW m \in MarketIds, MarketStep(m)
      PROVE  ReportQueueExact'
  <2>1. CASE OpenStep(m)
    <3>1. OpenMove(m)
      BY Zenon, <2>1, OpenSteps
    <3>2. markets[m].report = None
      BY Zenon, <3>1, NoReportYet DEF OpenMove
    <3>3. OnlyBook(m) /\ UNCHANGED MarketIdsPerReportBlock /\ ~HasStatus(m, "Reported")'
      BY Zenon, <3>1 DEF OpenMove, HasStatus
    <3>4. QED
      BY Zenon, <3>2, <3>3, QuietReports
  <2>2. CASE \E who \in Accounts, outcome \in Outcomes : report(m, who, outcome)
    <3>1. PICK who \in Accounts, outcome \in Outcomes : report(m, who, outcome)
      BY Zenon, <2>2
    <3>2. HasStatus(m, "Closed") /\ markets[m].report = None
      BY Zenon, <3>1 DEF report
    <3>3. CASE markets[m].dispute_mechanism = None
      <4>1. Advances(m, "Closed", "Resolved") /\ UNCHANGED MarketIdsPerReportBlock
        BY Zenon, <3>1, <3>3, ReportMove DEF report, report_and_resolve_market, queueVars
      <4>2. QED
        BY Zenon, <3>2, <4>1, QuietReports DEF Advances, HasStatus
    <3>4. CASE markets[m].dispute_mechanism # None
      <4> DEFINE at == block_after_dispute_duration(markets[m])
      <4>1. Advances(m, "Closed", "Reported") /\ markets'[m].report.at = now
        BY Zenon, <3>1, <3>4, ReportMove
      <4>2. MarketIdsPerReportBlock' = Push(MarketIdsPerReportBlock, at, m)
        BY Zenon, <3>1, <3>4 DEF report, report_market_with_dispute_mechanism
      <4>3. at = DisputeDurationEnd(markets'[m])
        BY Zenon, <4>1 DEF Advances, block_after_dispute_duration, DisputeDurationEnd
      <4>4. \A b \in Blocks, n \in MarketIds :
              MarketIdsPerReportBlock'[b][n]
                = IF b = at /\ n = m THEN MarketIdsPerReportBlock[b][n] + 1
                  ELSE MarketIdsPerReportBlock[b][n]
        <5> HIDE DEF at
        <5> QED BY <4>2, PushType DEF TypeOK
      <4>5. \A b \in Blocks : MarketIdsPerReportBlock[b][m] = 0
        BY Zenon, <3>2, NotReported
      <4> HIDE DEF at
      <4>6. markets'[m].report # None
        BY Zenon, <4>1 DEF Advances, SoundBook, StatusSound
      <4>7. ReportQueued(MarketIdsPerReportBlock', markets'[m], m)
        BY <4>1, <4>3, <4>4, <4>5, <4>6 DEF Advances, ReportQueued, Indicator
      <4>8. QED
        BY Zenon, <4>1, <4>4, <4>7, OneReportQueued DEF Advances
    <3>5. QED
      BY Zenon, <3>3, <3>4
  <2>3. CASE \E who \in Accounts : dispute(m, who)
    <3>1. PICK who \in Accounts : dispute(m, who)
      BY Zenon, <2>3
    <3>2. Advances(m, "Reported", "Disputed") /\ markets'[m].report = markets[m].report
      BY Zenon, <3>1, DisputeMove
    <3>3. UNCHANGED MarketIdsPerReportBlock
      BY Zenon, <3>1 DEF dispute, DisputeAuthorized, DisputeCourt, queueVars
    <3>4. QED
      BY Zenon, <3>2, <3>3, QuietReports DEF Advances, HasStatus
  <2>4. CASE \/ \E outcome \in Outcomes : authorize_market_outcome(m, outcome)
             \/ \E outcome \in Outcomes : reveal_vote(m, outcome)
             \/ appeal(m)
    <3>1. UNCHANGED <<markets, MarketIdsPerReportBlock>>
      BY Zenon, <2>4 DEF authorize_market_outcome, reveal_vote, appeal, marketVars, queueVars
    <3>2. QED
      BY Zenon, <3>1, ReportQueueParts
  <2>5. CASE start_global_dispute(m)
    <3>1. UNCHANGED <<markets, MarketIdsPerReportBlock>>
      BY Zenon, <2>5, GlobalDisputeMarket DEF start_global_dispute, HasStatus
    <3>2. QED
      BY Zenon, <3>1, ReportQueueParts
  <2>6. CASE admin_move_market_to_resolved(m)
    <3>1. OnlyBook(m) /\ Resolution(m, markets'[m], held'[m])
      BY Zenon, <2>6, ResolveMove
    <3>2. /\ markets'[m] # None /\ markets'[m].status = "Resolved"
          /\ markets'[m].report = markets[m].report /\ markets'[m].deadlines = markets[m].deadlines
          /\ markets[m] # None /\ markets[m].status \in {"Reported", "Disputed"}
      BY Zenon, <3>1, NoneAssumption DEF Resolution
    <3>3. CASE markets[m].status = "Disputed"
      <4>1. UNCHANGED MarketIdsPerReportBlock
        BY Zenon, <2>6, <3>3 DEF admin_move_market_to_resolved, ClearAutoResolve
      <4>2. QED
        BY Zenon, <3>1, <3>2, <4>1, QuietReports DEF HasStatus
    <3>4. CASE markets[m].status = "Reported"
      <4> DEFINE at == DisputeDurationEnd(markets[m])
      <4>1. markets[m].dispute_mechanism # None
        BY Zenon, <3>2, <3>4 DEF BooksSound, Exists, SoundBook, StatusSound
      <4>2. MarketIdsPerReportBlock' = remove_item(MarketIdsPerReportBlock, at, m)
        BY Zenon, <2>6, <3>4, <4>1 DEF admin_move_market_to_resolved, ClearAutoResolve
      <4>3. \A b \in Blocks : MarketIdsPerReportBlock[b][m] = IF b = at THEN 1 ELSE 0
        BY Zenon, <3>2, <3>4 DEF ReportQueueExact, HasStatus, Indicator
      <4> HIDE DEF at
      <4>4. \A b \in Blocks, n \in MarketIds :
              MarketIdsPerReportBlock'[b][n]
                = IF b = at /\ n = m
                  THEN (IF MarketIdsPerReportBlock[b][n] > 0 THEN MarketIdsPerReportBlock[b][n] - 1
                        ELSE 0)
                  ELSE MarketIdsPerReportBlock[b][n]
        BY <4>2, RemoveItemType DEF TypeOK
      <4>5. \A b \in Blocks : MarketIdsPerReportBlock'[b][m] = 0
        BY <4>3, <4>4
      <4>6. ReportQueued(MarketIdsPerReportBlock', markets'[m], m)
        BY Zenon, <3>2, <4>5 DEF ReportQueued
      <4>7. QED
        BY Zenon, <3>1, <4>4, <4>6, OneReportQueued
    <3>5. QED
      BY Zenon, <3>2, <3>3, <3>4
  <2>7. QED
    BY Zenon, <1>3, <2>1, <2>2, <2>3, <2>4, <2>5, <2>6 DEF MarketStep, OpenStep
<1>4. QED
  BY Zenon, <1>1, <1>2, <1>3 DEF Next
=============================================================================
