-------------------------- MODULE SummaryWatchtower --------------------------
(***************************************************************************)
(* pallet-summary-watchtower: the hooks that remember the summary root     *)
(* under vote (RootInfo), and the off-chain worker of a watchtower, which  *)
(* recalculates the root and sends an unsigned vote.                       *)
(*                                                                         *)
(* Watchtower calls the hooks on the state record it passes around; the    *)
(* worker reads RootInfo on some block and its vote arrives on a later one. *)
(* Block numbers only occur in differences, so they are kept as the blocks *)
(* that are left: `sent` counts down from BLOCK_INCLUSION_PERIOD.          *)
(***************************************************************************)
EXTENDS NodeRegistry

CONSTANTS
  ProposalIds,            \* the proposals that are made
  Request,                \* their ProposalRequest
  None,                   \* no value
  BLOCK_INCLUSION_PERIOD, \* blocks an unsigned vote is given to be included
  Answers,                \* what the service says of a proposal
  MaxPool                 \* bound: votes waiting in the pool

VARIABLES
  wt,     \* the storage of pallet-watchtower and RootInfo
  nodes,  \* the register of node-manager
  sent,   \* watchtower, proposal: blocks its last vote still has, or None
  ran,    \* watchtowers whose worker has run on this block
  pool    \* unsigned votes on their way

IsInternal(p) == Request[p].source # "External"

\* The payload decodes, and its range of blocks lies in the past.
RootIsValid(p) == Request[p].payload = "root"

---------------------------------------------------------------------------
(* Hooks: each returns whether it succeeds and the new RootInfo.           *)

remove_root_if_needed(root) == None

process_new_proposal(root, p) ==
  IF RootIsValid(p)
  THEN [ok |-> TRUE, root |-> IF remove_root_if_needed(root) = None THEN p ELSE root]
  ELSE [ok |-> FALSE, root |-> root]

on_proposal_submitted(root, p) ==
  IF Request[p].source \in {"Anchor", "Summary"} THEN process_new_proposal(root, p)
  ELSE [ok |-> TRUE, root |-> root]

\* Mutant of on_voting_completed: the root stays.
on_voting_completed_Keeps(root, p) == root

on_voting_completed(root, p) == IF root = p THEN None ELSE root

---------------------------------------------------------------------------
(* The off-chain worker.                                                   *)

\* sent[w][p] is last_submission + BLOCK_INCLUSION_PERIOD - now.
vote_in_progress(w, p) == sent[w][p] # None /\ sent[w][p] >= 0

record_vote_submission(w, p) ==
  sent' = [sent EXCEPT ![w][p] = BLOCK_INCLUSION_PERIOD]

\* validate_root: the lock is named after the block, so it is free on a new
\* one.  External: the service that recalculates the root answers with the
\* hash of the proposal, with another one, or not at all.
validate_root(w, p) == Answers[p] \cup {"error"}

\* The pool keeps one vote per watchtower and proposal (validate_unsigned).
submit_vote(w, p, in_favor) ==
  /\ ~ \E tx \in pool : tx.watchtower = w /\ tx.proposal = p
  /\ Cardinality(pool) < MaxPool
  /\ pool' = pool \cup {[watchtower |-> w, proposal |-> p, in_favor |-> in_favor,
                          key |-> get_node_signing_key(nodes, w)]}
  /\ record_vote_submission(w, p)

process_pending_validation(w, p) ==
  /\ ~ vote_in_progress(w, p)
  /\ \E answer \in validate_root(w, p) :
       IF answer = "error" THEN UNCHANGED <<pool, sent>>
       ELSE submit_vote(w, p, answer = "match")

ocw_already_run(w) == w \in ran

\* Once per block.  External: the finalised block, by which the range is not
\* final yet, or which is not known and then not waited for.
offchain_worker(w) ==
  /\ ~ ocw_already_run(w)
  /\ ran' = ran \cup {w}
  /\ w \in Registered(nodes)
  /\ wt.root # None
  /\ \/ process_pending_validation(w, wt.root)
     \/ UNCHANGED <<pool, sent>>
  /\ UNCHANGED <<wt, nodes>>

\* External: a vote is lost on the way.
Lose(tx) ==
  /\ pool' = pool \ {tx}
  /\ UNCHANGED <<wt, nodes, sent, ran>>
===========================================================================
