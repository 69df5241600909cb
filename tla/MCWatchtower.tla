---------------------------- MODULE MCWatchtower ----------------------------
(* Three watchtowers of two owners, four internal proposals through a ring  *)
(* of two slots (one whose payload is no root), and an external one.        *)
EXTENDS WatchtowerSystem, TLC

CONSTANTS n1, n2, n3, o1, o2, i1, i2, i3, i4, e1, k1, k2

MCRequest ==
  LET internal(p, payload) ==
        [source |-> "Summary", payload |-> payload, threshold |-> 60,
         decision_rule |-> "SimpleMajority", vote_duration |-> None, external_ref |-> p]
  IN i1 :> internal(i1, "root") @@ i2 :> internal(i2, "bad")
     @@ i3 :> [internal(i3, "root") EXCEPT !.vote_duration = 1]
     @@ i4 :> [internal(i4, "text") EXCEPT !.source = "Admin"]
     @@ e1 :> [internal(e1, "uri") EXCEPT !.source = "External", !.threshold = 90]

MCArrivals ==
  i1 :> {} @@ i2 :> {i1} @@ i3 :> {i2} @@ i4 :> {i3} @@ e1 :> {i4}

MCAnswers == [p \in ProposalIds |-> IF p = i1 THEN {"match"} ELSE {"mismatch"}]

MCNodes ==
  do_register_node(do_register_node(NoNodes, n1, o1, k1), n2, o1, k1)

MCKeyOf == n1 :> k1 @@ n2 :> k1 @@ n3 :> k2
MCBallots == {<<n2, i1, TRUE>>, <<o1, e1, TRUE>>}
MCRegistrations == {<<n3, o2>>}
MCRemovals == {<<o1, n2>>}
MCSettings ==
  {[field |-> "MinVotingPeriod", value |-> 2], [field |-> "AdminAccount", value |-> o2]}
MCVoters == Nodes \cup Owners
===========================================================================
