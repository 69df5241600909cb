--------------------------- MODULE MarketLifecycle ---------------------------
(***************************************************************************)
(* What pallets/prediction-markets promises about one market, whoever      *)
(* calls it and however the blocks fall: the MarketStatus of               *)
(* primitives/prediction-market/src/market.rs only moves forward, the      *)
(* report is made once, and an undisputed report is the outcome.           *)
(***************************************************************************)
CONSTANTS OutcomeReports, NoOutcome

VARIABLES status, reported, resolved

lifecycle == <<status, reported, resolved>>

Init == status = "NotCreated" /\ reported = NoOutcome /\ resolved = NoOutcome

Move(from, to) == status = from /\ status' = to

Create == (Move("NotCreated", "Proposed") \/ Move("NotCreated", "Active"))
          /\ UNCHANGED <<reported, resolved>>

Approve == Move("Proposed", "Active") /\ UNCHANGED <<reported, resolved>>

Destroy == Move("Proposed", "Destroyed") /\ UNCHANGED <<reported, resolved>>

Close == Move("Active", "Closed") /\ UNCHANGED <<reported, resolved>>

Report == Move("Closed", "Reported") /\ reported' \in OutcomeReports /\ UNCHANGED resolved

ReportTrusted == Move("Closed", "Resolved") /\ reported' \in OutcomeReports /\ resolved' = reported'

Dispute == Move("Reported", "Disputed") /\ UNCHANGED <<reported, resolved>>

ResolveReported == Move("Reported", "Resolved") /\ resolved' = reported /\ UNCHANGED reported

ResolveDisputed == Move("Disputed", "Resolved") /\ resolved' \in OutcomeReports /\ UNCHANGED reported

Next == Create \/ Approve \/ Destroy \/ Close \/ Report \/ ReportTrusted \/ Dispute
          \/ ResolveReported \/ ResolveDisputed

Spec == Init /\ [][Next]_lifecycle
=============================================================================
