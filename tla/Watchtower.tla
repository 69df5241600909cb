----------------------------- MODULE Watchtower -----------------------------
(***************************************************************************)
(* pallet-watchtower: proposals that the watchtowers vote on.  Internal    *)
(* proposals (the summary roots) are voted on one at a time, the others    *)
(* wait in a ring buffer; external ones run side by side.  A proposal ends *)
(* with the vote that reaches the threshold, with a call after its end, or *)
(* (an internal one) in on_idle, which also removes ended proposals.       *)
(*                                                                         *)
(* An extrinsic that fails is rolled back and is not enabled.  on_idle is  *)
(* not: it ignores the error of finalise_expired_voting and keeps what was *)
(* written before it, so operators return `ok` with the state so far.      *)
(***************************************************************************)
EXTENDS SummaryWatchtower, SignedLifetime, FiniteSetsExt

CONSTANTS
  Voters,            \* accounts that vote
  MaxInternalProposalLen,
  DefaultVotingPeriod,
  Settings,          \* what root sets: [field, value]
  Root,              \* the root origin
  Weights,           \* what is left for on_idle in a block
  MaxChanges         \* bound: changes of nodes and settings

VARIABLES
  changes,  \* bound: counts up to MaxChanges
  cast,     \* history: how often a vote of a voter was counted
  accepted, \* history: internal proposals in the order they were accepted
  started   \* history: internal proposals in the order they became active

history == <<cast, accepted, started>>
vars == <<wt, nodes, sent, ran, pool, changes, cast, accepted, started>>

Ended == {"passed", "rejected", "Expired"}

---------------------------------------------------------------------------
(* queue.rs                                                                *)

cap == MaxInternalProposalLen
len(s) == s.Tail - s.Head
is_empty(s) == len(s) = 0
is_full(s) == len(s) >= cap

can_enqueue(s) == ~ is_full(s) /\ s.InternalProposalQueue[s.Tail % cap] = None

enqueue(s, p) ==
  [s EXCEPT !.InternalProposalQueue[s.Tail % cap] = p, !.Tail = @ + 1]

can_dequeue(s) == ~ is_empty(s) /\ s.InternalProposalQueue[s.Head % cap] # None

front(s) == s.InternalProposalQueue[s.Head % cap]

dequeue(s) ==
  [s EXCEPT !.InternalProposalQueue[s.Head % cap] = None, !.Head = @ + 1]

---------------------------------------------------------------------------
(* vote.rs                                                                 *)

\* Perbill::mul_ceil, with the threshold in percent.
mul_ceil(percent, n) == (percent * n + 99) \div 100

threshold_achieved(s, p) ==
  LET total == get_authorized_watchtowers_count(nodes)
      min_votes == mul_ceil(Request[p].threshold, total)
  IN IF total = 0 THEN None
     ELSE IF s.Votes[p].in_favors >= min_votes THEN "passed"
     ELSE IF s.Votes[p].againsts >= min_votes THEN "rejected" ELSE None

get_vote_result_on_expiry(s, p) ==
  IF IsInternal(p) THEN "Expired"
  ELSE IF /\ Request[p].decision_rule = "SimpleMajority"
          /\ s.Votes[p].in_favors > s.Votes[p].againsts
       THEN "passed" ELSE "rejected"

\* Proposals[p] is the number of blocks left until end_at, zero when it is
\* not set (a queued proposal), None when there is no entry.
proposal_expired(s, p) == s.Proposals[p] = 0

\* The next queued proposal becomes the active one.
activate(s, next) ==
  LET hook == on_proposal_submitted(s.root, next)
      named == [s EXCEPT !.ActiveInternalProposal = next, !.ProposalStatus[next] = "Active"]
  IN IF s.Proposals[next] = None THEN [ok |-> FALSE, s |-> named]
     ELSE [ok |-> hook.ok,
           s |-> [named EXCEPT !.Proposals[next] = s.Duration[next], !.root = hook.root]]

activate_next(s) ==
  IF can_dequeue(s)
  THEN activate([dequeue(s) EXCEPT !.ActiveInternalProposal = None], front(s))
  ELSE [ok |-> TRUE, s |-> [s EXCEPT !.ActiveInternalProposal = None]]

finalise_voting(s, p, result) ==
  LET s1 == [s EXCEPT !.ProposalStatus[p] = result,
                      !.root = on_voting_completed(s.root, p)]
      next == IF IsInternal(p) THEN activate_next(s1) ELSE [ok |-> TRUE, s |-> s1]
  IN [next EXCEPT !.s.ProposalsToRemove = IF next.ok THEN @ \cup {p} ELSE @]

finalise_expired_voting(s, p) ==
  finalise_voting(s, p, get_vote_result_on_expiry(s, p))

---------------------------------------------------------------------------
(* The calls.                                                              *)

\* History: what a step adds to the order of activations.
Started(s, t) ==
  IF t.ActiveInternalProposal \in {None, s.ActiveInternalProposal} THEN started
  ELSE Append(started, t.ActiveInternalProposal)

\* The call succeeds with storage t.
Commit(t) ==
  /\ wt' = t
  /\ started' = Started(wt, t)

\* The voting period of the proposal that the request becomes.
to_proposal(p) ==
  IF Request[p].vote_duration = None THEN wt.MinVotingPeriod ELSE Request[p].vote_duration

\* A long enough vote, and a payload that fits the source: a reference for an
\* external proposal, the content itself for an internal one.
is_valid(p, duration) ==
  /\ duration >= wt.MinVotingPeriod
  /\ (Request[p].payload = "uri") = ~ IsInternal(p)

\* Mutant of is_new: only proposals that are still there are looked at.
is_new_Present(p) == wt.Proposals[p] = None

\* Neither the external reference nor the identifier is in use.
is_new(p) ==
  /\ Request[p].external_ref \notin wt.ExternalRef
  /\ wt.Proposals[p] = None

\* The proposal with its status and, when it is active, its end.
insert_proposal(p, duration) ==
  LET s == [wt EXCEPT !.Duration[p] = duration,
                      !.ExternalRef = @ \cup {Request[p].external_ref}]
      active == [s EXCEPT !.ProposalStatus[p] = "Active", !.Proposals[p] = duration]
      hook == on_proposal_submitted(s.root, p)
  IN IF ~ IsInternal(p) THEN [ok |-> TRUE, s |-> active]
     ELSE IF s.ActiveInternalProposal # None
     THEN [ok |-> can_enqueue(s),
           s |-> [enqueue(s, p) EXCEPT !.ProposalStatus[p] = "Queued", !.Proposals[p] = 0]]
     ELSE [ok |-> hook.ok,
           s |-> [active EXCEPT !.ActiveInternalProposal = p, !.root = hook.root]]

add_proposal(p) ==
  /\ is_valid(p, to_proposal(p))
  /\ is_new(p)
  /\ \E r \in {insert_proposal(p, to_proposal(p))} :
       r.ok /\ Commit(r.s)
  /\ accepted' = IF IsInternal(p) THEN Append(accepted, p) ELSE accepted
  /\ UNCHANGED <<nodes, sent, ran, pool, changes, cast>>

\* Root, or the admin, or anybody as long as there is no admin.
EnsureExternalProposerOrRoot(origin) == origin = Root \/ wt.AdminAccount \in {None, origin}

submit_external_proposal(origin, p) ==
  /\ EnsureExternalProposerOrRoot(origin)
  /\ ~ IsInternal(p)
  /\ add_proposal(p)

WatchtowerSignatureIsValid(proof, c) == verify_signature(proof, WatchtowerParam(proof, c))

\* "external_ref will ensure signature re-use is not possible" (proxy.rs).
signed_submit_external_proposal(sender, proof, c) ==
  LET origin == DispatchedAs(sender, proof, WatchtowerSignatureIsValid(proof, c))
  IN  /\ origin # Root
      /\ signed_for(origin, proof,
                    encode_signed_submit_external_proposal_params(proof.relayer, c), 0)
      /\ submit_external_proposal(origin, c.proposal)

\* WatchtowerInterface, for pallet-summary (external, and transactional).
submit_proposal(p) == IsInternal(p) /\ add_proposal(p)

vote_weight(p, voter) ==
  IF IsInternal(p)
  THEN IF is_authorized_watchtower(nodes, voter) THEN 1 ELSE 0
  ELSE IF is_watchtower_owner(nodes, voter)
       THEN get_watchtower_voting_weight(nodes, voter) ELSE 0

count_vote(p, voter, in_favor, weight) ==
  [wt EXCEPT !.Voters[p] = @ \cup {voter},
             !.Votes[p] = [in_favors |-> @.in_favors + (IF in_favor THEN weight ELSE 0),
                           againsts |-> @.againsts + (IF in_favor THEN 0 ELSE weight)]]

\* The vote, and the end of the voting when it decides.
settle_vote(s, p) ==
  IF threshold_achieved(s, p) = None THEN [ok |-> TRUE, s |-> s]
  ELSE finalise_voting(s, p, threshold_achieved(s, p))

\* Mutant of may_vote: a voter may vote again.
may_vote_Again(p, voter) ==
  /\ vote_weight(p, voter) > 0
  /\ IsInternal(p) => wt.ActiveInternalProposal = p

may_vote(p, voter) ==
  /\ voter \notin wt.Voters[p]
  /\ vote_weight(p, voter) > 0
  /\ IsInternal(p) => wt.ActiveInternalProposal = p

process_vote(p, voter, in_favor) ==
  /\ wt.Proposals[p] # None
  /\ wt.ProposalStatus[p] = "Active"
  /\ \/ /\ proposal_expired(wt, p)
        /\ \E r \in {finalise_expired_voting(wt, p)} : r.ok /\ Commit(r.s)
        /\ UNCHANGED cast
     \/ /\ ~ proposal_expired(wt, p)
        /\ may_vote(p, voter)
        /\ \E s \in {count_vote(p, voter, in_favor, vote_weight(p, voter))} :
             \E r \in {settle_vote(s, p)} : r.ok /\ Commit(r.s)
        /\ cast' = [cast EXCEPT ![p][voter] = @ + 1]

vote(voter, p, in_favor) ==
  /\ process_vote(p, voter, in_favor)
  /\ UNCHANGED <<nodes, sent, ran, pool, changes, accepted>>

\* It may be presented again while it is young enough; block numbers count from
\* the block of the call.
signed_vote(sender, proof, c) ==
  LET voter == DispatchedAs(sender, proof, WatchtowerSignatureIsValid(proof, c))
  IN  /\ signed_for(voter, proof, encode_signed_submit_vote_params(proof.relayer, c), 0)
      /\ vote(voter, c.proposal, c.in_favor)

validate_unsigned(tx) == is_authorized_watchtower(nodes, tx.watchtower)

\* Signed with the key the register holds for the watchtower now.
offchain_signature_is_valid(tx) == tx.key = get_node_signing_key(nodes, tx.watchtower)

\* validate_unsigned on inclusion, then the call.
unsigned_vote(tx) ==
  /\ validate_unsigned(tx)
  /\ wt.ActiveInternalProposal = tx.proposal
  /\ offchain_signature_is_valid(tx)
  /\ process_vote(tx.proposal, tx.watchtower, tx.in_favor)
  /\ pool' = pool \ {tx}
  /\ UNCHANGED <<nodes, sent, ran, changes, accepted>>

may_finalise(p) ==
  /\ wt.Proposals[p] # None
  /\ wt.ProposalStatus[p] = "Active"
  /\ proposal_expired(wt, p)

finalise_proposal(p) ==
  /\ may_finalise(p)
  /\ \E r \in {finalise_expired_voting(wt, p)} : r.ok /\ Commit(r.s)
  /\ UNCHANGED <<nodes, sent, ran, pool, changes, cast, accepted>>

set_admin_config(field, value) ==
  /\ changes < MaxChanges
  /\ changes' = changes + 1
  /\ wt' = [wt EXCEPT ![field] = value]
  /\ UNCHANGED <<nodes, sent, ran, pool, history>>

---------------------------------------------------------------------------
(* on_idle.  `w` is the weight that is left, one unit per step metered.    *)

\* Mutant of active_proposal_expiry_status: only the calls end a proposal.
active_proposal_expiry_status_Calls(s) ==
  IF s.ActiveInternalProposal = None THEN "none" ELSE "running"

active_proposal_expiry_status(s) ==
  LET p == s.ActiveInternalProposal
  IN IF p = None \/ s.Proposals[p] = None THEN "none"
     ELSE IF proposal_expired(s, p) THEN "expired" ELSE "running"

\* The second half of cleanup_proposals.  The voters are read, then removed;
\* any order of the map's keys.
remove_one(s, p, w) ==
  LET all == s.Voters[p]
      read == Min({Cardinality(all), w})
      removed == Min({read, w - read})
      left == w - read - removed
  IN {IF victims = all /\ left >= 2
      THEN [s EXCEPT !.Voters[p] = {}, !.Proposals[p] = None,
                     !.Votes[p] = [in_favors |-> 0, againsts |-> 0],
                     !.ProposalsToRemove = @ \ {p}]
      ELSE [s EXCEPT !.Voters[p] = @ \ victims] :
        victims \in {v \in SUBSET all : Cardinality(v) = removed}}

cleanup_completed(s, w) ==
  IF w < 1 \/ s.ProposalsToRemove = {} THEN {s}
  ELSE UNION {remove_one(s, p, w - 1) : p \in s.ProposalsToRemove}

cleanup_proposals(s, w) ==
  IF w < 1 \/ active_proposal_expiry_status(s) = "running" THEN {s}
  ELSE IF active_proposal_expiry_status(s) = "expired"
  THEN IF w < 2 THEN {s}
       ELSE UNION {cleanup_completed(r.s, w - 2) :
                     r \in {finalise_expired_voting(s, s.ActiveInternalProposal)}}
  ELSE cleanup_completed(s, w - 1)

\* One block less is left for every proposal and every vote on its way.
Tick(n) == IF n = None THEN None ELSE IF n > 0 THEN n - 1 ELSE n

\* The end of a block: on_idle with its block number, then the next block.
on_idle(w) ==
  /\ \E t \in cleanup_proposals(wt, w) :
       /\ wt' = [t EXCEPT !.Proposals = [p \in ProposalIds |-> Tick(t.Proposals[p])]]
       /\ started' = Started(wt, t)
  /\ sent' = [v \in Nodes |-> [p \in ProposalIds |->
                IF sent[v][p] = None THEN None ELSE Max({sent[v][p] - 1, -1})]]
  /\ ran' = {}
  /\ UNCHANGED <<nodes, pool, changes, cast, accepted>>
===========================================================================
