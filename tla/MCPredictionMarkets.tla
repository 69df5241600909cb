------------------------ MODULE MCPredictionMarkets ------------------------
(* Small instances of PredictionMarkets: the sets that a cfg cannot write. *)
EXTENDS MarketProperties, TLC

CONSTANTS a1, a2, o1, o2

BlockPeriods(ends) == {[kind |-> "Block", end |-> e] : e \in ends}

TimestampPeriods(ends) == {[kind |-> "Timestamp", end |-> e] : e \in ends}

Deadline(grace, oracle, dispute_duration) ==
  [grace_period |-> grace, oracle_duration |-> oracle, dispute_duration |-> dispute_duration]

(* Blocks and moments *)
Blocks6 == 1..6
Blocks11 == 1..11
Blocks14 == 1..14
Moments11 == 0..11
Moments14 == 0..14
Moments17 == 0..17

(* Inputs *)
OnePeriod == BlockPeriods({2})
ClosingPeriods == BlockPeriods({2, 6}) \cup TimestampPeriods({5, 9})
BothDeadlines == {Deadline(0, 1, 0), Deadline(0, 1, 1)}
TrustedDeadline == {Deadline(0, 1, 0)}
OneDeadline == {Deadline(0, 1, 2)}
=============================================================================
