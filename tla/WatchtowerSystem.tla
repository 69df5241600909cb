-------------------------- MODULE WatchtowerSystem --------------------------
(***************************************************************************)
(* The watchtowers as a whole: the register of node-manager, the voting of *)
(* pallet-watchtower, the root under vote and the off-chain workers of     *)
(* pallet-summary-watchtower, and the blocks they run in.                  *)
(***************************************************************************)
EXTENDS Watchtower

CONSTANTS
  Arrivals,       \* bound: a proposal arrives after the ones this names
  ChangesDuring,  \* bound: nodes and settings change while these are active
  Ballots,        \* bound: the votes made by a call, <<voter, proposal, in_favor>>
  Proposers,      \* accounts that submit external proposals
  Relayer,        \* the relayer that signatures name
  Workers,        \* bound: the watchtowers that run the off-chain worker
  InitialNodes,   \* the register at the start
  Registrations,  \* bound: registrations, <<node, owner>>
  Removals,       \* bound: removals, <<owner, node>>
  KeyOf           \* the signing key of a node

\* None is not a value, and inputs have their types.
ASSUME WatchtowerAssumption ==
  /\ None \notin ProposalIds \cup Nat \cup {"passed", "rejected", "Expired"}
  /\ MaxInternalProposalLen \in Nat \ {0}
  /\ DefaultVotingPeriod \in Nat
  /\ \A p \in ProposalIds :
       Request[p].threshold \in Nat /\ Request[p].vote_duration \in Nat \cup {None}
  /\ \A s \in Settings :
       \/ s.field = "MinVotingPeriod" /\ s.value \in Nat
       \/ s.field = "AdminAccount" /\ s.value \in Voters
  /\ IsFiniteSet(Voters) /\ Workers \subseteq Nodes /\ Nodes \cup Owners \subseteq Voters
  /\ \A b \in Ballots : b[1] \in Voters /\ b[2] \in ProposalIds
  /\ \A r \in Registrations : r[1] \in Nodes /\ r[2] \in Owners
  /\ InitialNodes.OwnedNodes \subseteq Owners \X Nodes
  /\ InitialNodes.OwnedNodesCount \in [Owners -> Nat]
  /\ InitialNodes.TotalRegisteredNodes \in Nat

NoVotes == [in_favors |-> 0, againsts |-> 0]

Init ==
  /\ wt = [MinVotingPeriod |-> DefaultVotingPeriod, AdminAccount |-> None,
           ExternalRef |-> {},
           Proposals |-> [p \in ProposalIds |-> None],
           Duration |-> [p \in ProposalIds |-> 0],
           ProposalStatus |-> [p \in ProposalIds |-> "Unknown"],
           Votes |-> [p \in ProposalIds |-> NoVotes],
           Voters |-> [p \in ProposalIds |-> {}],
           ActiveInternalProposal |-> None,
           InternalProposalQueue |-> [i \in 0 .. cap - 1 |-> None],
           Head |-> 0, Tail |-> 0,
           ProposalsToRemove |-> {},
           root |-> None]
  /\ nodes = InitialNodes
  /\ sent = [w \in Nodes |-> [p \in ProposalIds |-> None]]
  /\ ran = {}
  /\ pool = {}
  /\ changes = 0
  /\ cast = [p \in ProposalIds |-> [v \in Voters |-> 0]]
  /\ accepted = << >>
  /\ started = << >>

ChangeNodes(new) ==
  /\ changes < MaxChanges
  /\ changes' = changes + 1
  /\ nodes' = new
  /\ UNCHANGED <<wt, sent, ran, pool, history>>

register_node(node, owner) ==
  /\ can_register(nodes, node)
  /\ ChangeNodes(do_register_node(nodes, node, owner, KeyOf[node]))

deregister_nodes(owner, list) ==
  /\ can_deregister(nodes, owner, list)
  /\ ChangeNodes(do_deregister_nodes(nodes, owner, list))

Arrives(p) == \A q \in Arrivals[p] : wt.ProposalStatus[q] # "Unknown"

MayChange == \E p \in ChangesDuring : wt.ProposalStatus[p] = "Active"

\* Blocks, counted from the present one, that a signature may name: the oldest
\* that is accepted, and one that is too old.
SignedAt == {1 - SignedTxLifetime, - SignedTxLifetime}

\* Proposals are submitted by their signers, votes by the relayer.
SignedBy(who, c) == Sign(who, Relayer, WatchtowerParam([relayer |-> Relayer], c))

Calls ==
  \/ \E p \in ProposalIds : Arrives(p) /\ submit_external_proposal(Root, p)
  \/ \E p \in ProposalIds, who \in Proposers, block \in SignedAt :
       LET c == [fn |-> "signed_submit_external_proposal", proposal |-> p,
                 block_number |-> block]
       IN  Arrives(p) /\ signed_submit_external_proposal(who, SignedBy(who, c), c)
  \/ \E p \in ProposalIds : Arrives(p) /\ submit_proposal(p)
  \/ \E b \in Ballots, block \in SignedAt :
       LET c == [fn |-> "signed_vote", proposal |-> b[2], in_favor |-> b[3],
                 block_number |-> block]
       IN  signed_vote(Relayer, SignedBy(b[1], c), c)
  \/ \E tx \in pool : unsigned_vote(tx)
  \/ \E p \in ProposalIds : finalise_proposal(p)
  \/ MayChange /\ \E s \in Settings : set_admin_config(s.field, s.value)
  \/ MayChange /\ \E r \in Registrations : register_node(r[1], r[2])
  \/ MayChange /\ \E r \in Removals : deregister_nodes(r[1], <<r[2]>>)

Offchain ==
  \/ \E w \in Workers : offchain_worker(w) /\ UNCHANGED <<changes, history>>
  \/ \E tx \in pool : Lose(tx) /\ UNCHANGED <<changes, history>>

Next ==
  \/ Calls
  \/ Offchain
  \/ \E w \in Weights : on_idle(w)

Spec == Init /\ [][Next]_vars

\* Blocks are produced, and again and again one leaves weight for on_idle.
FairSpec == Spec /\ WF_vars(on_idle(Max(Weights)))

---------------------------------------------------------------------------
Internal == {p \in ProposalIds : IsInternal(p)}

Queued == [i \in 1 .. len(wt) |-> wt.InternalProposalQueue[(wt.Head + i - 1) % cap]]

\* The ring buffer loses, repeats and reorders nothing while Head and Tail run
\* round it: the internal proposals become active in the order add_proposal
\* accepted them, those that have not are queued in that order, and every other
\* slot is free for enqueue.
QueueKeepsTheOrder ==
  /\ accepted = started \o Queued
  /\ Range(Queued) = {p \in Internal : wt.ProposalStatus[p] = "Queued"}
  /\ Cardinality({i \in 0 .. cap - 1 : wt.InternalProposalQueue[i] # None}) = len(wt)

\* The off-chain workers recalculate the root that is voted on: RootInfo holds
\* the active internal proposal whenever its payload names a root, and is empty
\* otherwise, across expiry in on_idle, deciding votes and activation of the
\* next proposal.
RootIsTheOneVotedOn ==
  wt.root = IF /\ wt.ActiveInternalProposal # None
               /\ Request[wt.ActiveInternalProposal].source \in {"Anchor", "Summary"}
               /\ RootIsValid(wt.ActiveInternalProposal)
            THEN wt.ActiveInternalProposal ELSE None

\* "Voters and only vote once per proposal so no nonce needed here" (proxy.rs):
\* a signed vote that is relayed again, an unsigned vote that the worker sends
\* again after BLOCK_INCLUSION_PERIOD and a vote by call count once together,
\* also while on_idle is removing the voters of an ended proposal.
VotesCountOnce ==
  /\ \A p \in ProposalIds, v \in Voters : cast[p][v] <= 1
  /\ \A p \in Internal : wt.ProposalStatus[p] = "Active" =>
       wt.Votes[p].in_favors + wt.Votes[p].againsts =
         Cardinality({v \in Voters : cast[p][v] = 1})

\* A decision is final: once VotingEnded is reported for a proposal no later
\* call, no on_idle and no new submission with its external reference after it
\* was cleaned up gives it another status.
OutcomesAreFinal ==
  [][\A p \in ProposalIds :
       wt.ProposalStatus[p] \in Ended => wt'.ProposalStatus[p] = wt.ProposalStatus[p]]_vars

\* A proposal passes only with the share of the nodes registered at that moment
\* which its threshold asks for, or, an external one after its end, by simple
\* majority: whichever of vote, unsigned_vote, finalise_proposal and on_idle
\* decides it, and however the register changed during the voting.
PassedByEnoughNodes ==
  [][\A p \in ProposalIds :
       wt.ProposalStatus[p] # "passed" /\ wt'.ProposalStatus[p] = "passed" =>
         \/ /\ nodes.TotalRegisteredNodes > 0
            /\ 100 * wt'.Votes[p].in_favors >=
                 Request[p].threshold * nodes.TotalRegisteredNodes
         \/ /\ ~ IsInternal(p)
            /\ wt.Proposals[p] = 0
            /\ wt'.Votes[p].in_favors > wt'.Votes[p].againsts]_vars

\* Every accepted internal proposal is decided: the queue behind an active one
\* that nobody votes on drains through on_idle, also past a proposal whose
\* activation fails.
InternalProposalsAreDecided ==
  <>[](\A p \in Internal : wt.ProposalStatus[p] \in Ended \cup {"Unknown"})

\* What follows p in the queue fails when it is activated, which leaves p out
\* of ProposalsToRemove (the error of finalise_voting in on_idle).
BlocksRemoval(p) ==
  \E i \in 1 .. Len(accepted) - 1 :
    accepted[i] = p /\ ~ on_proposal_submitted(None, accepted[i + 1]).ok

\* Once no proposals arrive any more, on_idle removes the data of every ended
\* one, in as many blocks as its weight allows.
EndedProposalsAreRemoved ==
  <>[](\A p \in ProposalIds :
         wt.ProposalStatus[p] \in Ended =>
           BlocksRemoval(p) \/ (wt.Proposals[p] = None /\ wt.Voters[p] = {}))

\* The internal proposal that is voted on is the next one of the queue, and the
\* root that the nodes recalculate is its root.
ActiveProposalIsNext == QueueKeepsTheOrder /\ RootIsTheOneVotedOn

\* A decision takes the votes it needs and is final.
DecisionsAreSound == PassedByEnoughNodes /\ OutcomesAreFinal

\* Internal proposals are decided and ended ones are removed, as long as on_idle
\* has weight for it.
ProposalsComeToAnEnd == InternalProposalsAreDecided /\ EndedProposalsAreRemoved
===========================================================================
