------------------------------- MODULE Market -------------------------------
(***************************************************************************)
(* The market record of primitives/prediction-market/src/market.rs and the *)
(* bond settlement of pallets/prediction-markets/src/lib.rs.               *)
(*                                                                         *)
(* An account's named reserve is one number in the code.  Here each bond   *)
(* has its own slice of it, and the model follows where the slice ends up: *)
(* held[k] says who holds the money of bond k.  Amounts are left out.      *)
(***************************************************************************)
EXTENDS Integers

CONSTANTS Accounts,             \* signed origins
          Outcomes,             \* outcome reports that match the market type
          None,                 \* Rust's Option::None
          Treasury,             \* where T::Slash sends what is slashed
          MILLISECS_PER_BLOCK   \* length of one time frame

ASSUME MillisAssumption == MILLISECS_PER_BLOCK \in Nat \ {0}

BondKinds ==
  {"creation", "oracle", "outsider", "dispute", "close_request", "close_dispute"}

Bond == [who : Accounts, is_settled : BOOLEAN]

(* "split" is the advisory bond of a rejected market, partly slashed and   *)
(* partly returned.  "overdrawn" and "lost" are the two ways to spoil the  *)
(* reserve: taking the same slice out twice, or overwriting a bond whose   *)
(* slice is still inside.                                                  *)
Holders == Accounts \cup {None, Treasury, "reserved", "split", "overdrawn", "lost"}

Statuses == {"Proposed", "Active", "Closed", "Reported", "Disputed", "Resolved"}

EarlyCloseStates == {"ScheduledAsMarketCreator", "ScheduledAsOther", "Disputed", "Rejected"}

Period == [kind : {"Block", "Timestamp"}, end : Nat]

EarlyClose == [old : Period, state : EarlyCloseStates]

Deadlines == [grace_period : Nat, oracle_duration : Nat, dispute_duration : Nat]

Report == [at : Nat, by : Accounts, outcome : Outcomes]

MarketRecord ==
  [creation : {"Permissionless", "Advised"},
   creator : Accounts,
   oracle : Accounts,
   dispute_mechanism : {None, "Authorized", "Court"},
   period : Period,
   deadlines : Deadlines,
   report : Report \cup {None},
   resolved_outcome : Outcomes \cup {None},
   status : Statuses,
   bonds : [BondKinds -> Bond \cup {None}],
   early_close : EarlyClose \cup {None}]

(* The debug assertions of the pallet that the model can see fail.         *)
DebugAsserts == {"settled_twice", "not_pending", "old_period_expired"}

ASSUME NoneAssumption ==
  /\ None \notin Nat /\ None \notin Accounts
  /\ None \notin MarketRecord /\ None \notin Bond /\ None \notin EarlyClose /\ None \notin Report

(* The marks of the reserve and the names of the mechanisms are not        *)
(* accounts, and not the absent value.                                     *)
ASSUME HolderAssumption ==
  /\ {"reserved", "split", "overdrawn", "lost"} \cap (Accounts \cup {None, Treasury}) = {}
  /\ None \notin {"Authorized", "Court"}

-----------------------------------------------------------------------------
(* Time *)

calculate_time_frame_of_moment(time) == time \div MILLISECS_PER_BLOCK

(* The storage slot that holds a market until its period ends.             *)
CloseSlot(period) ==
  IF period.kind = "Block"
  THEN <<"Block", period.end>>
  ELSE <<"TimeFrame", calculate_time_frame_of_moment(period.end)>>

-----------------------------------------------------------------------------
(* Bonds.  A book is a market with the holders of its bonds and the debug  *)
(* assertions that failed while they were settled.                         *)

Book(mk, held, asserts) == [mk |-> mk, held |-> held, asserts |-> asserts]

Books == [mk : MarketRecord, held : [BondKinds -> Holders], asserts : SUBSET DebugAsserts]

HasBond(mk, k) == mk.bonds[k] # None

IsPending(mk, k) == HasBond(mk, k) /\ ~mk.bonds[k].is_settled

OpenBond(b, k, who) ==
  [b EXCEPT !.mk.bonds[k] = [who |-> who, is_settled |-> FALSE],
            !.held[k] = IF @ = "reserved" THEN "lost" ELSE "reserved"]

(* A bond that is settled already is left alone: the code warns and fails  *)
(* a debug assertion.                                                      *)
Settle(b, k, to) ==
  IF b.mk.bonds[k].is_settled
  THEN [b EXCEPT !.asserts = @ \cup {"settled_twice"}]
  ELSE [b EXCEPT !.mk.bonds[k].is_settled = TRUE,
                 !.held[k] = IF @ = "reserved" THEN to ELSE "overdrawn"]

unreserve_bond(b, k) == Settle(b, k, b.mk.bonds[k].who)

slash_bond(b, k, to) == Settle(b, k, to)

repatriate_bond(b, k, beneficiary) == Settle(b, k, beneficiary)

(* is_..._bond_pending with with_warning: a bond that is not pending fails *)
(* a debug assertion and is skipped.                                       *)
SettleIfPending(b, k, to) ==
  IF IsPending(b.mk, k) THEN Settle(b, k, to)
  ELSE [b EXCEPT !.asserts = @ \cup {"not_pending"}]

-----------------------------------------------------------------------------
(* What closing and resolving do to one market.                            *)

(* Mutant: settles the bonds of disputed requests only. *)
close_market_OnlyDisputed(b) ==
  LET disputed == b.mk.early_close # None /\ b.mk.early_close.state = "Disputed"
      d == IF disputed /\ IsPending(b.mk, "close_dispute")
           THEN unreserve_bond(b, "close_dispute") ELSE b
      r == IF disputed /\ IsPending(b.mk, "close_request")
           THEN unreserve_bond(d, "close_request") ELSE d
  IN  [r EXCEPT !.mk = [b.mk EXCEPT !.status = "Closed"]]

(* close_market settles the early-close bonds inside the closure that owns *)
(* a copy of the market; that copy, without the is_settled flags, is what  *)
(* gets written at the end.                                                *)
close_market(b) ==
  LET state == IF b.mk.early_close = None THEN None ELSE b.mk.early_close.state
      d == IF state = "Disputed" /\ IsPending(b.mk, "close_dispute")
           THEN unreserve_bond(b, "close_dispute") ELSE b
      r == IF state \in {"Disputed", "ScheduledAsMarketCreator"}
                /\ IsPending(b.mk, "close_request")
           THEN unreserve_bond(d, "close_request") ELSE d
  IN  [r EXCEPT !.mk = [b.mk EXCEPT !.status = "Closed"]]

(* The bonds of an advised market that nobody approved in time.            *)
handle_expired_advised_market(b) ==
  LET c == unreserve_bond(b, "creation")
      o == unreserve_bond(c, "oracle")
  IN  [o EXCEPT !.mk = None]

resolve_reported_market(b) ==
  IF b.mk.report.by = b.mk.oracle
  THEN unreserve_bond(b, "oracle")
  ELSE LET o == repatriate_bond(b, "oracle", b.mk.report.by)
       IN  SettleIfPending(o, "outsider", b.mk.report.by)

(* Mutant: leaves every imbalance to T::Slash. *)
settle_bonds_AllToTreasury(b, resolved_outcome) ==
  LET report == b.mk.report
      is_correct == report.outcome = resolved_outcome
      o == IF ~is_correct THEN slash_bond(b, "oracle", Treasury)
           ELSE IF report.by = b.mk.oracle THEN unreserve_bond(b, "oracle")
           ELSE repatriate_bond(b, "oracle", report.by)
      s == IF report.by = b.mk.oracle THEN o
           ELSE SettleIfPending(o, "outsider", IF is_correct THEN report.by ELSE Treasury)
  IN  IF ~IsPending(b.mk, "dispute") THEN s
      ELSE IF is_correct THEN slash_bond(s, "dispute", Treasury)
      ELSE unreserve_bond(s, "dispute")

(* The oracle and outsider bonds of a wrong report go to the disputor when *)
(* there is a dispute bond, otherwise the imbalance is left for T::Slash.  *)
settle_bonds(b, resolved_outcome) ==
  LET report == b.mk.report
      is_correct == report.outcome = resolved_outcome
      disputed == IsPending(b.mk, "dispute")
      winner == IF disputed THEN b.mk.bonds["dispute"].who ELSE Treasury
      o == IF ~is_correct THEN slash_bond(b, "oracle", winner)
           ELSE IF report.by = b.mk.oracle THEN unreserve_bond(b, "oracle")
           ELSE repatriate_bond(b, "oracle", report.by)
      s == IF report.by = b.mk.oracle THEN o
           ELSE SettleIfPending(o, "outsider", IF is_correct THEN report.by ELSE winner)
  IN  IF ~disputed THEN s
      ELSE IF is_correct THEN slash_bond(s, "dispute", Treasury)
      ELSE unreserve_bond(s, "dispute")

on_resolution(b, resolved_outcome) ==
  LET c == IF b.mk.creation = "Permissionless" THEN unreserve_bond(b, "creation") ELSE b
      s == IF b.mk.status = "Reported"
           THEN resolve_reported_market(c)
           ELSE settle_bonds(c, resolved_outcome)
  IN  [s EXCEPT !.mk.status = "Resolved", !.mk.resolved_outcome = resolved_outcome]

=============================================================================
