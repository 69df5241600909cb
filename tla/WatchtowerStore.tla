-------------------------- MODULE WatchtowerStore ---------------------------
(***************************************************************************)
(* The inductive invariant of the watchtowers, what the operations of the  *)
(* pallet make of the store, and that ending a vote and accepting a        *)
(* proposal keep the invariant.                                            *)
(***************************************************************************)
EXTENDS WatchtowerSystem, FiniteSetTheorems, SequenceTheorems, TLAPS

-----------------------------------------------------------------------------
(* The invariant.  It speaks about a state record `s`, so that it can be    *)
(* followed through the operations a call is made of.                       *)

Statuses == {"Unknown", "Queued", "Active"} \cup Ended
Tally == [in_favors : Nat, againsts : Nat]

Store ==
  [MinVotingPeriod : Nat,
   AdminAccount : Voters \cup {None},
   ExternalRef : SUBSET {Request[p].external_ref : p \in ProposalIds},
   Proposals : [ProposalIds -> Nat \cup {None}],
   Duration : [ProposalIds -> Nat],
   ProposalStatus : [ProposalIds -> Statuses],
   Votes : [ProposalIds -> Tally],
   Voters : [ProposalIds -> SUBSET Voters],
   ActiveInternalProposal : ProposalIds \cup {None},
   InternalProposalQueue : [0 .. cap - 1 -> ProposalIds \cup {None}],
   Head : Nat, Tail : Nat,
   ProposalsToRemove : SUBSET ProposalIds,
   root : ProposalIds \cup {None}]

NodesType ==
  /\ nodes.OwnedNodes \subseteq Owners \X Nodes
  /\ nodes.OwnedNodesCount \in [Owners -> Nat]
  /\ nodes.TotalRegisteredNodes \in Nat

PoolType == \A tx \in pool : tx.watchtower \in Nodes /\ tx.proposal \in ProposalIds

\* What was ever submitted is known by its reference; the active internal
\* proposal is the only one whose status is Active.
StatusOK(s) ==
  /\ \A p \in ProposalIds :
       s.ProposalStatus[p] # "Unknown" => Request[p].external_ref \in s.ExternalRef
  /\ \A p \in s.ProposalsToRemove : s.ProposalStatus[p] \in Ended
  /\ s.ActiveInternalProposal # None =>
       /\ IsInternal(s.ActiveInternalProposal)
       /\ s.ProposalStatus[s.ActiveInternalProposal] = "Active"
  /\ \A p \in ProposalIds :
       IsInternal(p) /\ s.ProposalStatus[p] = "Active" => p = s.ActiveInternalProposal
  /\ \A p \in ProposalIds :
       s.ProposalStatus[p] = "Queued" => IsInternal(p) /\ s.Proposals[p] # None

Place(s, k) == s.InternalProposalQueue[k % cap]
Places(s) == s.Head .. s.Tail - 1

\* The places from Head to Tail hold the queued proposals, each once, and the
\* other slots are free; nothing waits when nothing is active.
RingOK(s) ==
  /\ s.Head <= s.Tail
  /\ \A k \in Places(s) : Place(s, k) # None /\ s.ProposalStatus[Place(s, k)] = "Queued"
  /\ \A j, k \in Places(s) : j # k => Place(s, j) # Place(s, k)
  /\ \A i \in 0 .. cap - 1 :
       s.InternalProposalQueue[i] # None => \E k \in Places(s) : i = k % cap
  /\ \A p \in ProposalIds :
       s.ProposalStatus[p] = "Queued" => \E k \in Places(s) : Place(s, k) = p
  /\ s.ActiveInternalProposal = None => s.Head = s.Tail

RootOf(p) ==
  IF p # None /\ Request[p].source \in {"Anchor", "Summary"} /\ RootIsValid(p) THEN p ELSE None

RootOK(s) == s.root = RootOf(s.ActiveInternalProposal)

StoreInv(s) == s \in Store /\ StatusOK(s) /\ RingOK(s) /\ RootOK(s)

\* What was accepted is what was started, then what waits.
OrderOK(s, acc, st) ==
  /\ st \in Seq(ProposalIds) /\ acc \in Seq(ProposalIds)
  /\ Len(acc) = Len(st) + (s.Tail - s.Head)
  /\ \A i \in 1 .. Len(st) : acc[i] = st[i]
  /\ \A k \in Places(s) : Place(s, k) = acc[Len(st) + (k - s.Head) + 1]

Counted(c, p) == {v \in Voters : c[p][v] = 1}

\* A vote that was counted is remembered as long as the proposal is open.
CastOK(s, c) ==
  /\ c \in [ProposalIds -> [Voters -> {0, 1}]]
  /\ \A p \in ProposalIds : s.ProposalStatus[p] \notin Ended =>
       \A v \in Voters : c[p][v] = 1 => v \in s.Voters[p]
  /\ \A p \in Internal : s.ProposalStatus[p] \notin Ended =>
       s.Votes[p].in_favors + s.Votes[p].againsts = Cardinality(Counted(c, p))

WatchtowerInv ==
  /\ StoreInv(wt) /\ NodesType /\ PoolType
  /\ OrderOK(wt, accepted, started) /\ CastOK(wt, cast)

-----------------------------------------------------------------------------
(* What the operations write *)

LEMMA Slot ==
  ASSUME NEW k \in Nat
  PROVE  k % cap \in 0 .. cap - 1
BY WatchtowerAssumption DEF cap

LEMMA NextNat ==
  ASSUME NEW k \in Nat
  PROVE  k + 1 \in Nat
OBVIOUS

LEMMA ExceptOther ==
  ASSUME NEW D, NEW R, NEW f \in [D -> R], NEW i, NEW j \in D, i # j, NEW v
  PROVE  [f EXCEPT ![i] = v][j] = f[j]
OBVIOUS

LEMMA ExceptType ==
  ASSUME NEW D, NEW R, NEW f \in [D -> R], NEW i, NEW v, i \in D => v \in R
  PROVE  [f EXCEPT ![i] = v] \in [D -> R]
BY Zenon

\* The records the operations make, as operators.
EndRec(s, p, result, root) == [s EXCEPT !.ProposalStatus[p] = result, !.root = root]
NamedRec(s, p) == [s EXCEPT !.ActiveInternalProposal = p, !.ProposalStatus[p] = "Active"]
RunsRec(s, p, d, root) == [s EXCEPT !.Proposals[p] = d, !.root = root]
DequeueRec(s) == [dequeue(s) EXCEPT !.ActiveInternalProposal = None]
IdleRec(s) == [s EXCEPT !.ActiveInternalProposal = None]
ListedRec(s, rm) == [s EXCEPT !.ProposalsToRemove = rm]

\* What ending a vote leaves alone.
Untouched(s, t) ==
  /\ t.Votes = s.Votes /\ t.Voters = s.Voters
  /\ t.ExternalRef = s.ExternalRef /\ t.Tail = s.Tail

EndedTo(s, t, p, result, root) ==
  /\ t \in Store /\ Untouched(s, t)
  /\ t.Proposals = s.Proposals /\ t.Duration = s.Duration
  /\ t.ProposalStatus = [s.ProposalStatus EXCEPT ![p] = result]
  /\ t.ActiveInternalProposal = s.ActiveInternalProposal
  /\ t.InternalProposalQueue = s.InternalProposalQueue /\ t.Head = s.Head
  /\ t.ProposalsToRemove = s.ProposalsToRemove /\ t.root = root

LEMMA EndFields ==
  ASSUME NEW s \in Store, NEW p \in ProposalIds, NEW result \in Ended,
         NEW root \in ProposalIds \cup {None}, NEW t,
         t = EndRec(s, p, result, root)
  PROVE  EndedTo(s, t, p, result, root)
<1> DEFINE status == [s.ProposalStatus EXCEPT ![p] = result]
<1>1. status \in [ProposalIds -> Statuses]
  BY DEF Store, Statuses
<1>2. t = [s EXCEPT !.ProposalStatus = status, !.root = root]
  BY DEF Store, EndRec
<1> HIDE DEF status
<1>3. t \in Store
  BY Zenon, <1>1, <1>2 DEF Store
<1>4. QED
  BY Zenon, <1>2, <1>3 DEF Store, Untouched, status, EndedTo

DequeuedTo(s, t) ==
  /\ t \in Store /\ Untouched(s, t)
  /\ t.Proposals = s.Proposals /\ t.Duration = s.Duration
  /\ t.ProposalStatus = s.ProposalStatus
  /\ t.ActiveInternalProposal = None
  /\ t.InternalProposalQueue = [s.InternalProposalQueue EXCEPT ![s.Head % cap] = None]
  /\ t.Head = s.Head + 1
  /\ t.ProposalsToRemove = s.ProposalsToRemove /\ t.root = s.root

LEMMA DequeueFields ==
  ASSUME NEW s \in Store, NEW t, t = DequeueRec(s)
  PROVE  DequeuedTo(s, t)
<1> DEFINE queue == [s.InternalProposalQueue EXCEPT ![s.Head % cap] = None]
           head == s.Head + 1
<1>1. s.Head \in Nat /\ s.InternalProposalQueue \in [0 .. cap - 1 -> ProposalIds \cup {None}]
  BY DEF Store
<1>2. queue \in [0 .. cap - 1 -> ProposalIds \cup {None}]
  BY Zenon, <1>1
<1>a. head \in Nat
  BY Zenon, <1>1, NextNat
<1>3. t = [s EXCEPT !.InternalProposalQueue = queue, !.Head = head,
                    !.ActiveInternalProposal = None]
  BY DEF Store, dequeue, DequeueRec
<1> HIDE DEF queue, head
<1>4. t \in Store
  BY Zenon, <1>2, <1>3, <1>a DEF Store
<1>5. /\ t.Votes = s.Votes /\ t.Voters = s.Voters
      /\ t.ExternalRef = s.ExternalRef /\ t.Tail = s.Tail
      /\ t.Proposals = s.Proposals /\ t.Duration = s.Duration
      /\ t.ProposalStatus = s.ProposalStatus
      /\ t.ActiveInternalProposal = None
      /\ t.InternalProposalQueue = queue /\ t.Head = head
      /\ t.ProposalsToRemove = s.ProposalsToRemove /\ t.root = s.root
  BY <1>3 DEF Store
<1>6. QED
  BY Zenon, <1>4, <1>5 DEF Untouched, queue, head, DequeuedTo

NamedTo(s, t, p) ==
  /\ t \in Store /\ Untouched(s, t)
  /\ t.Proposals = s.Proposals /\ t.Duration = s.Duration
  /\ t.ProposalStatus = [s.ProposalStatus EXCEPT ![p] = "Active"]
  /\ t.ActiveInternalProposal = p
  /\ t.InternalProposalQueue = s.InternalProposalQueue /\ t.Head = s.Head
  /\ t.ProposalsToRemove = s.ProposalsToRemove /\ t.root = s.root

LEMMA NamedFields ==
  ASSUME NEW s \in Store, NEW p \in ProposalIds, NEW t,
         t = NamedRec(s, p)
  PROVE  NamedTo(s, t, p)
<1> DEFINE status == [s.ProposalStatus EXCEPT ![p] = "Active"]
<1>1. status \in [ProposalIds -> Statuses]
  BY DEF Store, Statuses
<1>2. t = [s EXCEPT !.ActiveInternalProposal = p, !.ProposalStatus = status]
  BY DEF Store, NamedRec
<1> HIDE DEF status
<1>3. t \in Store
  BY Zenon, <1>1, <1>2 DEF Store
<1>4. QED
  BY SMTT(20), <1>2, <1>3 DEF Store, Untouched, status, NamedTo

RunsTo(s, t, p, d, root) ==
  /\ t \in Store /\ Untouched(s, t)
  /\ t.Proposals = [s.Proposals EXCEPT ![p] = d] /\ t.Duration = s.Duration
  /\ t.ProposalStatus = s.ProposalStatus
  /\ t.ActiveInternalProposal = s.ActiveInternalProposal
  /\ t.InternalProposalQueue = s.InternalProposalQueue /\ t.Head = s.Head
  /\ t.ProposalsToRemove = s.ProposalsToRemove /\ t.root = root

LEMMA RunsFields ==
  ASSUME NEW s \in Store, NEW p \in ProposalIds, NEW d \in Nat,
         NEW root \in ProposalIds \cup {None}, NEW t,
         t = RunsRec(s, p, d, root)
  PROVE  RunsTo(s, t, p, d, root)
<1> DEFINE proposals == [s.Proposals EXCEPT ![p] = d]
<1>1. proposals \in [ProposalIds -> Nat \cup {None}]
  BY DEF Store
<1>2. t = [s EXCEPT !.Proposals = proposals, !.root = root]
  BY DEF Store, RunsRec
<1> HIDE DEF proposals
<1>3. t \in Store
  BY Zenon, <1>1, <1>2 DEF Store
<1>4. QED
  BY Zenon, <1>2, <1>3 DEF Store, Untouched, proposals, RunsTo

IdleTo(s, t) ==
  /\ t \in Store /\ Untouched(s, t)
  /\ t.Proposals = s.Proposals /\ t.Duration = s.Duration
  /\ t.ProposalStatus = s.ProposalStatus
  /\ t.ActiveInternalProposal = None
  /\ t.InternalProposalQueue = s.InternalProposalQueue /\ t.Head = s.Head
  /\ t.ProposalsToRemove = s.ProposalsToRemove /\ t.root = s.root

LEMMA IdleFields ==
  ASSUME NEW s \in Store, NEW t, t = IdleRec(s)
  PROVE  IdleTo(s, t)
<1>1. t \in Store
  BY Zenon DEF Store, IdleRec
<1>2. QED
  BY Zenon, <1>1 DEF Store, Untouched, IdleRec, IdleTo

ListedTo(s, t, rm) ==
  /\ t \in Store /\ Untouched(s, t)
  /\ t.Proposals = s.Proposals /\ t.Duration = s.Duration
  /\ t.ProposalStatus = s.ProposalStatus
  /\ t.ActiveInternalProposal = s.ActiveInternalProposal
  /\ t.InternalProposalQueue = s.InternalProposalQueue /\ t.Head = s.Head
  /\ t.ProposalsToRemove = rm /\ t.root = s.root

LEMMA ListedFields ==
  ASSUME NEW s \in Store, NEW rm \in SUBSET ProposalIds, NEW t,
         t = ListedRec(s, rm)
  PROVE  ListedTo(s, t, rm)
<1>1. t \in Store
  BY Zenon DEF Store, ListedRec
<1>2. QED
  BY Zenon, <1>1 DEF Store, Untouched, ListedRec, ListedTo

-----------------------------------------------------------------------------
(* The end of a vote *)

LEMMA HookRoots ==
  ASSUME NEW root \in ProposalIds \cup {None}, NEW p \in ProposalIds
  PROVE  /\ on_voting_completed(root, p) \in ProposalIds \cup {None}
         /\ on_proposal_submitted(root, p).root \in ProposalIds \cup {None}
BY DEF on_voting_completed, on_proposal_submitted, process_new_proposal, remove_root_if_needed

ActivatedTo(s, t, next) ==
  /\ t \in Store /\ Untouched(s, t)
  /\ t.Proposals = [s.Proposals EXCEPT ![next] = s.Duration[next]]
  /\ t.ProposalStatus = [s.ProposalStatus EXCEPT ![next] = "Active"]
  /\ t.ActiveInternalProposal = next
  /\ t.InternalProposalQueue = s.InternalProposalQueue /\ t.Head = s.Head
  /\ t.ProposalsToRemove = s.ProposalsToRemove
  /\ t.root = on_proposal_submitted(s.root, next).root

LEMMA ActivateFields ==
  ASSUME NEW s \in Store, NEW next \in ProposalIds, s.Proposals[next] # None,
         NEW t, t = activate(s, next).s
  PROVE  ActivatedTo(s, t, next)
<1> DEFINE root == on_proposal_submitted(s.root, next).root
           named == NamedRec(s, next)
<1>1. t = RunsRec(named, next, s.Duration[next], root)
  BY DEF activate, NamedRec, RunsRec
<1>2. s.root \in ProposalIds \cup {None} /\ s.Duration[next] \in Nat
  BY DEF Store
<1>3. root \in ProposalIds \cup {None}
  BY Zenon, <1>2, HookRoots
<1>4. NamedTo(s, named, next)
  BY Zenon, NamedFields
<1> HIDE DEF named, root
<1>5. named \in Store
  BY Zenon, <1>4 DEF NamedTo
<1>6. RunsTo(named, t, next, s.Duration[next], root)
  BY Zenon, <1>1, <1>2, <1>3, <1>5, RunsFields
<1>7. Untouched(s, t)
  BY Zenon, <1>4, <1>6 DEF Untouched, NamedTo, RunsTo
<1>8. QED
  BY Zenon, <1>4, <1>6, <1>7 DEF root, NamedTo, RunsTo, ActivatedTo

\* The vote on p ends with the result: s before, t after.
EndsVote(s, t, p, result) ==
  /\ t \in Store /\ Untouched(s, t)
  /\ t.ProposalsToRemove \subseteq s.ProposalsToRemove \cup {p}
  /\ \A q \in ProposalIds : s.Proposals[q] # None => t.Proposals[q] # None
  /\ \/ /\ ~ IsInternal(p)
        /\ t.ProposalStatus = [s.ProposalStatus EXCEPT ![p] = result]
        /\ t.ActiveInternalProposal = s.ActiveInternalProposal
        /\ t.InternalProposalQueue = s.InternalProposalQueue /\ t.Head = s.Head
        /\ t.root = on_voting_completed(s.root, p)
     \/ /\ IsInternal(p) /\ ~ can_dequeue(s)
        /\ t.ProposalStatus = [s.ProposalStatus EXCEPT ![p] = result]
        /\ t.ActiveInternalProposal = None
        /\ t.InternalProposalQueue = s.InternalProposalQueue /\ t.Head = s.Head
        /\ t.root = on_voting_completed(s.root, p)
     \/ /\ IsInternal(p) /\ can_dequeue(s)
        /\ t.ProposalStatus = [[s.ProposalStatus EXCEPT ![p] = result] EXCEPT ![front(s)] = "Active"]
        /\ t.ActiveInternalProposal = front(s)
        /\ t.InternalProposalQueue = [s.InternalProposalQueue EXCEPT ![s.Head % cap] = None]
        /\ t.Head = s.Head + 1
        /\ t.root = on_proposal_submitted(on_voting_completed(s.root, p), front(s)).root

\* What finalise_voting makes of the record of activate_next.
ListsTo(u, v, p) ==
  /\ v \in Store /\ Untouched(u, v)
  /\ v.ProposalsToRemove \subseteq u.ProposalsToRemove \cup {p}
  /\ v.Proposals = u.Proposals /\ v.ProposalStatus = u.ProposalStatus
  /\ v.ActiveInternalProposal = u.ActiveInternalProposal
  /\ v.InternalProposalQueue = u.InternalProposalQueue /\ v.Head = u.Head
  /\ v.root = u.root

LEMMA ListsEnded ==
  ASSUME NEW ok \in BOOLEAN, NEW u \in Store, NEW p \in ProposalIds, NEW next, NEW t,
         next = [ok |-> ok, s |-> u],
         t = [next EXCEPT !.s.ProposalsToRemove = IF next.ok THEN @ \cup {p} ELSE @]
  PROVE  ListsTo(u, t.s, p)
<1> DEFINE rm == IF ok THEN u.ProposalsToRemove \cup {p} ELSE u.ProposalsToRemove
           v == t.s
<1>1. v = ListedRec(u, rm)
  BY DEF ListedRec
<1>2. u.ProposalsToRemove \subseteq ProposalIds
  BY DEF Store
<1>3. rm \in SUBSET ProposalIds /\ rm \subseteq u.ProposalsToRemove \cup {p}
  BY <1>2
<1> HIDE DEF rm, v
<1>4. ListedTo(u, v, rm)
  BY Zenon, <1>1, <1>3, ListedFields
<1>5. ListsTo(u, v, p)
  BY Zenon, <1>3, <1>4 DEF ListedTo, ListsTo
<1>6. QED
  BY Zenon, <1>5 DEF v

LEMMA FinaliseEnds ==
  ASSUME NEW s \in Store, NEW p \in ProposalIds, NEW result \in Ended,
         can_dequeue(s) => s.Proposals[front(s)] # None
  PROVE  EndsVote(s, finalise_voting(s, p, result).s, p, result)
<1> DEFINE root == on_voting_completed(s.root, p)
           s1 == EndRec(s, p, result, root)
           next == IF IsInternal(p) THEN activate_next(s1) ELSE [ok |-> TRUE, s |-> s1]
           t == finalise_voting(s, p, result)
<1>1. root \in ProposalIds \cup {None}
  BY HookRoots DEF Store
<1> HIDE DEF root
<1>a. EndedTo(s, s1, p, result, root)
  BY Zenon, <1>1, EndFields
<1>2. /\ s1 \in Store /\ Untouched(s, s1)
      /\ s1.Proposals = s.Proposals /\ s1.Duration = s.Duration
      /\ s1.ProposalStatus = [s.ProposalStatus EXCEPT ![p] = result]
      /\ s1.ActiveInternalProposal = s.ActiveInternalProposal
      /\ s1.InternalProposalQueue = s.InternalProposalQueue /\ s1.Head = s.Head
      /\ s1.ProposalsToRemove = s.ProposalsToRemove /\ s1.root = root
  BY Zenon, <1>a DEF EndedTo
<1>3. t = [next EXCEPT !.s.ProposalsToRemove = IF next.ok THEN @ \cup {p} ELSE @]
  BY DEF finalise_voting, root, EndRec
<1> HIDE DEF s1, t
<1>4. ASSUME NEW ok \in BOOLEAN, NEW u \in Store, next = [ok |-> ok, s |-> u],
             Untouched(s1, u), u.ProposalsToRemove = s1.ProposalsToRemove
      PROVE  /\ t.s \in Store /\ Untouched(s, t.s)
             /\ t.s.ProposalsToRemove \subseteq s.ProposalsToRemove \cup {p}
             /\ t.s.Proposals = u.Proposals /\ t.s.ProposalStatus = u.ProposalStatus
             /\ t.s.ActiveInternalProposal = u.ActiveInternalProposal
             /\ t.s.InternalProposalQueue = u.InternalProposalQueue /\ t.s.Head = u.Head
             /\ t.s.root = u.root
  <2> HIDE DEF next
  <2>1. ListsTo(u, t.s, p)
    BY Zenon, <1>3, <1>4, ListsEnded
  <2>2. Untouched(s, t.s)
    BY Zenon, <1>2, <1>4, <2>1 DEF Untouched, ListsTo
  <2>3. QED
    BY Zenon, <1>2, <1>4, <2>1, <2>2 DEF ListsTo
<1>5. /\ can_dequeue(s1) <=> can_dequeue(s)
      /\ front(s1) = front(s)
  BY <1>2 DEF can_dequeue, is_empty, len, front, Untouched
<1>6. CASE ~ IsInternal(p)
  <2>1. next = [ok |-> TRUE, s |-> s1]
    BY <1>6
  <2>2. Untouched(s1, s1)
    BY Zenon DEF Untouched
  <2> HIDE DEF next
  <2>3. QED
    BY ZenonT(30), <1>2, <1>4, <1>6, <2>1, <2>2 DEF EndsVote, root, t
<1>7. CASE IsInternal(p) /\ ~ can_dequeue(s)
  <2> DEFINE u == IdleRec(s1)
  <2>1. next = [ok |-> TRUE, s |-> u]
    BY <1>5, <1>7 DEF activate_next, IdleRec
  <2>2. /\ u \in Store /\ Untouched(s1, u)
        /\ u.Proposals = s1.Proposals /\ u.ProposalStatus = s1.ProposalStatus
        /\ u.ActiveInternalProposal = None
        /\ u.InternalProposalQueue = s1.InternalProposalQueue /\ u.Head = s1.Head
        /\ u.ProposalsToRemove = s1.ProposalsToRemove /\ u.root = s1.root
    BY Zenon, <1>2, IdleFields DEF IdleTo
  <2> HIDE DEF next, u
  <2>3. QED
    BY ZenonT(30), <1>2, <1>4, <1>7, <2>1, <2>2 DEF EndsVote, root, t
<1>8. CASE IsInternal(p) /\ can_dequeue(s)
  <2> DEFINE d == DequeueRec(s1)
             u == activate(d, front(s)).s
  <2>1. front(s) \in ProposalIds
    <3>1. s.Head % cap \in 0 .. cap - 1
      BY Slot DEF Store
    <3>2. QED
      BY Zenon, <1>8, <3>1 DEF can_dequeue, front, Store
  <2>2. /\ d \in Store /\ Untouched(s1, d)
        /\ d.Proposals = s1.Proposals /\ d.Duration = s1.Duration
        /\ d.ProposalStatus = s1.ProposalStatus
        /\ d.InternalProposalQueue = [s1.InternalProposalQueue EXCEPT ![s1.Head % cap] = None]
        /\ d.Head = s1.Head + 1
        /\ d.ProposalsToRemove = s1.ProposalsToRemove /\ d.root = s1.root
    BY ZenonT(30), <1>2, DequeueFields DEF DequeuedTo
  <2>3. activate_next(s1) = activate(d, front(s))
    BY Zenon, <1>5, <1>8 DEF activate_next, DequeueRec
  <2> HIDE DEF d
  <2>4. d.Proposals[front(s)] # None
    BY Zenon, <1>2, <1>8, <2>2
  <2>a. ActivatedTo(d, u, front(s))
    BY Zenon, <2>1, <2>2, <2>4, ActivateFields
  <2>5. /\ u \in Store /\ Untouched(d, u)
        /\ u.Proposals = [d.Proposals EXCEPT ![front(s)] = d.Duration[front(s)]]
        /\ u.ProposalStatus = [d.ProposalStatus EXCEPT ![front(s)] = "Active"]
        /\ u.ActiveInternalProposal = front(s)
        /\ u.InternalProposalQueue = d.InternalProposalQueue /\ u.Head = d.Head
        /\ u.ProposalsToRemove = d.ProposalsToRemove
        /\ u.root = on_proposal_submitted(d.root, front(s)).root
    BY Zenon, <2>a DEF ActivatedTo
  <2>6. /\ activate(d, front(s)) = [ok |-> on_proposal_submitted(d.root, front(s)).ok, s |-> u]
        /\ on_proposal_submitted(d.root, front(s)).ok \in BOOLEAN
    BY <2>4 DEF activate, on_proposal_submitted, process_new_proposal
  <2>7. Untouched(s1, u)
    BY Zenon, <2>2, <2>5 DEF Untouched
  <2>8. next = [ok |-> on_proposal_submitted(d.root, front(s)).ok, s |-> u]
    BY Zenon, <1>8, <2>3, <2>6
  <2> HIDE DEF next, u
  <2>9. \A q \in ProposalIds : s.Proposals[q] # None => u.Proposals[q] # None
    <3>a. d.Duration[front(s)] \in Nat /\ s.Proposals \in [ProposalIds -> Nat \cup {None}]
      BY <2>1, <2>2 DEF Store
    <3>1. d.Duration[front(s)] # None /\ s.Proposals \in [ProposalIds -> Nat \cup {None}]
      BY Zenon, <3>a, WatchtowerAssumption
    <3>2. QED
      BY <1>2, <2>2, <2>5, <3>1
  <2>10. /\ t.s \in Store /\ Untouched(s, t.s)
         /\ t.s.ProposalsToRemove \subseteq s.ProposalsToRemove \cup {p}
         /\ t.s.Proposals = u.Proposals /\ t.s.ProposalStatus = u.ProposalStatus
         /\ t.s.ActiveInternalProposal = u.ActiveInternalProposal
         /\ t.s.InternalProposalQueue = u.InternalProposalQueue /\ t.s.Head = u.Head
         /\ t.s.root = u.root
    BY Zenon, <1>4, <2>2, <2>5, <2>6, <2>7, <2>8
  <2>11. /\ u.ProposalStatus = [[s.ProposalStatus EXCEPT ![p] = result] EXCEPT ![front(s)] = "Active"]
         /\ u.InternalProposalQueue = [s.InternalProposalQueue EXCEPT ![s.Head % cap] = None]
         /\ u.Head = s.Head + 1
         /\ u.root = on_proposal_submitted(on_voting_completed(s.root, p), front(s)).root
    <3>1. /\ d.ProposalStatus = [s.ProposalStatus EXCEPT ![p] = result]
          /\ d.Head = s.Head + 1 /\ d.root = on_voting_completed(s.root, p)
      BY Zenon, <1>2, <2>2 DEF root
    <3>2. d.InternalProposalQueue = [s.InternalProposalQueue EXCEPT ![s.Head % cap] = None]
      BY Zenon, <1>2, <2>2
    <3>3. /\ u.ProposalStatus = [d.ProposalStatus EXCEPT ![front(s)] = "Active"]
          /\ u.InternalProposalQueue = d.InternalProposalQueue /\ u.Head = d.Head
          /\ u.root = on_proposal_submitted(d.root, front(s)).root
      BY Zenon, <2>5
    <3>4. u.ProposalStatus = [[s.ProposalStatus EXCEPT ![p] = result] EXCEPT ![front(s)] = "Active"]
      BY Zenon, <3>1, <3>3
    <3>5. /\ u.InternalProposalQueue = [s.InternalProposalQueue EXCEPT ![s.Head % cap] = None]
          /\ u.Head = s.Head + 1
      BY Zenon, <3>1, <3>2, <3>3
    <3>6. u.root = on_proposal_submitted(on_voting_completed(s.root, p), front(s)).root
      BY Zenon, <3>1, <3>3
    <3>7. QED
      BY Zenon, <3>4, <3>5, <3>6
  <2>12. /\ t.s.ProposalStatus = [[s.ProposalStatus EXCEPT ![p] = result] EXCEPT ![front(s)] = "Active"]
         /\ t.s.ActiveInternalProposal = front(s)
         /\ t.s.InternalProposalQueue = [s.InternalProposalQueue EXCEPT ![s.Head % cap] = None]
         /\ t.s.Head = s.Head + 1
         /\ t.s.root = on_proposal_submitted(on_voting_completed(s.root, p), front(s)).root
    BY Zenon, <2>5, <2>10, <2>11
  <2>13. \A q \in ProposalIds : s.Proposals[q] # None => t.s.Proposals[q] # None
    BY Zenon, <2>9, <2>10
  <2>14. EndsVote(s, t.s, p, result)
    BY ZenonT(30), <1>8, <2>10, <2>12, <2>13 DEF EndsVote
  <2>15. QED
    BY Zenon, <2>14 DEF t
<1>9. QED
  BY Zenon, <1>6, <1>7, <1>8 DEF t

-----------------------------------------------------------------------------
(* The end of a vote keeps the invariant *)

\* What a step adds to the order of activations.
StartedBy(s, t, st) ==
  IF t.ActiveInternalProposal \in {None, s.ActiveInternalProposal} THEN st
  ELSE Append(st, t.ActiveInternalProposal)

\* No status but that of p changes, or that of a queued proposal that becomes
\* active.
OnlyEnds(s, t, p, result) ==
  /\ t.ProposalStatus[p] = result
  /\ \A q \in ProposalIds : q # p =>
       \/ t.ProposalStatus[q] = s.ProposalStatus[q]
       \/ s.ProposalStatus[q] = "Queued" /\ t.ProposalStatus[q] = "Active"

LEMMA StoreTypes ==
  ASSUME NEW s \in Store
  PROVE  /\ s.Head \in Nat /\ s.Tail \in Nat
         /\ s.ProposalStatus \in [ProposalIds -> Statuses]
         /\ s.Proposals \in [ProposalIds -> Nat \cup {None}]
         /\ s.Duration \in [ProposalIds -> Nat]
         /\ s.Votes \in [ProposalIds -> Tally]
         /\ s.Voters \in [ProposalIds -> SUBSET Voters]
         /\ s.ActiveInternalProposal \in ProposalIds \cup {None}
         /\ s.InternalProposalQueue \in [0 .. cap - 1 -> ProposalIds \cup {None}]
         /\ s.ProposalsToRemove \subseteq ProposalIds
         /\ s.root \in ProposalIds \cup {None}
BY DEF Store

LEMMA RingTypes ==
  ASSUME NEW s \in Store
  PROVE  s.Head \in Nat /\ s.Tail \in Nat
BY Zenon, StoreTypes

LEMMA StatusType ==
  ASSUME NEW s \in Store
  PROVE  s.ProposalStatus \in [ProposalIds -> Statuses]
BY Zenon, StoreTypes

LEMMA RemoveType ==
  ASSUME NEW s \in Store
  PROVE  s.ProposalsToRemove \subseteq ProposalIds
BY Zenon, StoreTypes

LEMMA ActiveType ==
  ASSUME NEW s \in Store
  PROVE  s.ActiveInternalProposal \in ProposalIds \cup {None}
BY Zenon, StoreTypes

LEMMA QueueType ==
  ASSUME NEW s \in Store
  PROVE  s.InternalProposalQueue \in [0 .. cap - 1 -> ProposalIds \cup {None}]
BY Zenon, StoreTypes

\* A queued proposal is at some place, and what is at a place is a proposal.
LEMMA PlaceTypes ==
  ASSUME NEW s \in Store, RingOK(s), NEW k \in Places(s)
  PROVE  k \in Nat /\ k % cap \in 0 .. cap - 1 /\ Place(s, k) \in ProposalIds
<1>1. k \in Nat
  BY RingTypes DEF Places
<1>2. k % cap \in 0 .. cap - 1
  BY Zenon, <1>1, Slot
<1>3. Place(s, k) \in ProposalIds \cup {None}
  BY Zenon, <1>2, StoreTypes DEF Place
<1>4. QED
  BY Zenon, <1>1, <1>2, <1>3 DEF RingOK

LEMMA EndExternalKeeps ==
  ASSUME NEW s, StoreInv(s), NEW p \in ProposalIds, s.ProposalStatus[p] = "Active",
         NEW result \in Ended, NEW t \in Store, Untouched(s, t),
         t.ProposalsToRemove \subseteq s.ProposalsToRemove \cup {p},
         \A q \in ProposalIds : s.Proposals[q] # None => t.Proposals[q] # None,
         ~ IsInternal(p),
         t.ProposalStatus = [s.ProposalStatus EXCEPT ![p] = result],
         t.ActiveInternalProposal = s.ActiveInternalProposal,
         t.InternalProposalQueue = s.InternalProposalQueue, t.Head = s.Head,
         t.root = on_voting_completed(s.root, p)
  PROVE  StoreInv(t) /\ OnlyEnds(s, t, p, result)
<1>1. s \in Store /\ StatusOK(s) /\ RingOK(s) /\ RootOK(s)
  BY Zenon DEF StoreInv
<1>2. /\ t.ProposalStatus[p] = result
      /\ \A q \in ProposalIds : q # p => t.ProposalStatus[q] = s.ProposalStatus[q]
  BY <1>1, StatusType
<1>3. result \notin {"Unknown", "Queued", "Active"} /\ t.Tail = s.Tail /\ t.ExternalRef = s.ExternalRef
  BY DEF Ended, Untouched
<1>4. StatusOK(t)
  <2>1. \A q \in ProposalIds :
          t.ProposalStatus[q] # "Unknown" => Request[q].external_ref \in t.ExternalRef
    BY <1>1, <1>2, <1>3 DEF StatusOK
  <2>2. \A q \in t.ProposalsToRemove : t.ProposalStatus[q] \in Ended
    BY <1>1, <1>2, RemoveType DEF StatusOK
  <2>3. /\ t.ActiveInternalProposal # None =>
             /\ IsInternal(t.ActiveInternalProposal)
             /\ t.ProposalStatus[t.ActiveInternalProposal] = "Active"
        /\ \A q \in ProposalIds :
             IsInternal(q) /\ t.ProposalStatus[q] = "Active" => q = t.ActiveInternalProposal
    BY <1>1, <1>2, <1>3, ActiveType DEF StatusOK
  <2>4. \A q \in ProposalIds :
          t.ProposalStatus[q] = "Queued" => IsInternal(q) /\ t.Proposals[q] # None
    BY <1>1, <1>2, <1>3 DEF StatusOK
  <2>5. QED
    BY Zenon, <2>1, <2>2, <2>3, <2>4 DEF StatusOK
<1>5. RingOK(t)
  <2>1. Places(t) = Places(s) /\ \A k : Place(t, k) = Place(s, k)
    BY <1>3 DEF Places, Place
  <2>2. \A k \in Places(t) : Place(t, k) # None /\ t.ProposalStatus[Place(t, k)] = "Queued"
    <3> SUFFICES ASSUME NEW k \in Places(s)
                 PROVE  Place(s, k) # None /\ t.ProposalStatus[Place(s, k)] = "Queued"
      BY Zenon, <2>1
    <3>1. Place(s, k) # None /\ s.ProposalStatus[Place(s, k)] = "Queued" /\ Place(s, k) \in ProposalIds
      BY Zenon, <1>1, PlaceTypes DEF RingOK
    <3>2. Place(s, k) # p
      BY <3>1
    <3>3. QED
      BY Zenon, <1>2, <3>1, <3>2
  <2>3. \A q \in ProposalIds :
          t.ProposalStatus[q] = "Queued" => \E k \in Places(t) : Place(t, k) = q
    BY <1>1, <1>2, <1>3, <2>1 DEF RingOK
  <2>4. QED
    BY <1>1, <1>3, <2>1, <2>2, <2>3 DEF RingOK
<1>6. RootOK(t)
  <2>1. s.root # p
    BY <1>1, WatchtowerAssumption DEF RootOK, RootOf, StatusOK
  <2>2. QED
    BY <1>1, <2>1 DEF RootOK, on_voting_completed
<1>7. QED
  BY Zenon, <1>2, <1>4, <1>5, <1>6 DEF StoreInv, OnlyEnds

LEMMA EndLastKeeps ==
  ASSUME NEW s, StoreInv(s), NEW p \in ProposalIds, s.ProposalStatus[p] = "Active",
         NEW result \in Ended, NEW t \in Store, Untouched(s, t),
         t.ProposalsToRemove \subseteq s.ProposalsToRemove \cup {p},
         \A q \in ProposalIds : s.Proposals[q] # None => t.Proposals[q] # None,
         IsInternal(p), ~ can_dequeue(s),
         t.ProposalStatus = [s.ProposalStatus EXCEPT ![p] = result],
         t.ActiveInternalProposal = None,
         t.InternalProposalQueue = s.InternalProposalQueue, t.Head = s.Head,
         t.root = on_voting_completed(s.root, p)
  PROVE  StoreInv(t) /\ OnlyEnds(s, t, p, result) /\ t.Head = t.Tail
<1>1. s \in Store /\ StatusOK(s) /\ RingOK(s) /\ RootOK(s)
  BY Zenon DEF StoreInv
<1>2. /\ t.ProposalStatus[p] = result
      /\ \A q \in ProposalIds : q # p => t.ProposalStatus[q] = s.ProposalStatus[q]
  BY <1>1, StatusType
<1>3. result \notin {"Unknown", "Queued", "Active"} /\ t.Tail = s.Tail /\ t.ExternalRef = s.ExternalRef
  BY DEF Ended, Untouched
<1>4. p = s.ActiveInternalProposal
  BY Zenon, <1>1 DEF StatusOK
<1>5. s.Head = s.Tail
  <2>1. s.Head \in Nat /\ s.Tail \in Nat /\ s.Head <= s.Tail
    BY <1>1, RingTypes DEF RingOK
  <2>2. s.Head < s.Tail => s.Head \in Places(s)
    BY <2>1 DEF Places
  <2>3. s.Head < s.Tail => can_dequeue(s)
    BY <1>1, <2>1, <2>2 DEF RingOK, can_dequeue, is_empty, len, Place
  <2>4. QED
    BY <2>1, <2>3
<1>6. \A q \in ProposalIds : s.ProposalStatus[q] # "Queued"
  <2>1. Places(s) = {}
    BY <1>1, <1>5, RingTypes DEF Places
  <2>2. QED
    BY <1>1, <2>1 DEF RingOK
<1>7. StatusOK(t)
  <2>1. \A q \in ProposalIds :
          t.ProposalStatus[q] # "Unknown" => Request[q].external_ref \in t.ExternalRef
    BY <1>1, <1>2, <1>3 DEF StatusOK
  <2>2. \A q \in t.ProposalsToRemove : t.ProposalStatus[q] \in Ended
    BY <1>1, <1>2, RemoveType DEF StatusOK
  <2>3. \A q \in ProposalIds : ~ (IsInternal(q) /\ t.ProposalStatus[q] = "Active")
    BY <1>1, <1>2, <1>3, <1>4 DEF StatusOK
  <2>4. \A q \in ProposalIds : t.ProposalStatus[q] # "Queued"
    BY <1>2, <1>3, <1>6
  <2>5. QED
    BY Zenon, <2>1, <2>2, <2>3, <2>4 DEF StatusOK
<1>8. RingOK(t)
  <2>1. Places(t) = {} /\ Places(s) = {}
    BY <1>1, <1>3, <1>5, RingTypes DEF Places
  <2>2. \A q \in ProposalIds : t.ProposalStatus[q] # "Queued"
    BY <1>2, <1>3, <1>6
  <2>3. t.Head <= t.Tail /\ t.Head = t.Tail
    BY <1>1, <1>3, <1>5, RingTypes
  <2>4. QED
    BY <1>1, <2>1, <2>2, <2>3 DEF RingOK
<1>9. RootOK(t)
  BY <1>1, <1>4, WatchtowerAssumption DEF RootOK, RootOf, on_voting_completed
<1>10. QED
  BY Zenon, <1>2, <1>3, <1>5, <1>7, <1>8, <1>9 DEF StoreInv, OnlyEnds

LEMMA EndNextKeeps ==
  ASSUME NEW s, StoreInv(s), NEW p \in ProposalIds, s.ProposalStatus[p] = "Active",
         NEW result \in Ended, NEW t \in Store, Untouched(s, t),
         t.ProposalsToRemove \subseteq s.ProposalsToRemove \cup {p},
         \A q \in ProposalIds : s.Proposals[q] # None => t.Proposals[q] # None,
         IsInternal(p), can_dequeue(s),
         t.ProposalStatus = [[s.ProposalStatus EXCEPT ![p] = result] EXCEPT ![front(s)] = "Active"],
         t.ActiveInternalProposal = front(s),
         t.InternalProposalQueue = [s.InternalProposalQueue EXCEPT ![s.Head % cap] = None],
         t.Head = s.Head + 1,
         t.root = on_proposal_submitted(on_voting_completed(s.root, p), front(s)).root
  PROVE  /\ StoreInv(t) /\ OnlyEnds(s, t, p, result)
         /\ s.Head \in Places(s) /\ front(s) \in ProposalIds
         /\ s.ActiveInternalProposal # front(s)
         /\ \A k \in Places(t) : k \in Places(s) /\ k # s.Head /\ Place(t, k) = Place(s, k)
<1> DEFINE n == front(s)
<1>1. s \in Store /\ StatusOK(s) /\ RingOK(s) /\ RootOK(s)
  BY Zenon DEF StoreInv
<1>2. s.Head \in Nat /\ s.Tail \in Nat /\ s.Head < s.Tail /\ t.Tail = s.Tail
  BY <1>1, RingTypes DEF RingOK, can_dequeue, is_empty, len, Untouched
<1>3. /\ s.Head \in Places(s)
      /\ \A k : k \in Places(t) <=> k \in Places(s) /\ k # s.Head
  BY <1>2 DEF Places
<1>4. /\ n = Place(s, s.Head) /\ n \in ProposalIds
      /\ s.ProposalStatus[n] = "Queued"
  BY Zenon, <1>1, <1>3, PlaceTypes DEF front, Place, RingOK
<1> HIDE DEF n
<1>5. n # p /\ p = s.ActiveInternalProposal
  BY <1>1, <1>4 DEF StatusOK
<1>6. /\ t.ProposalStatus[p] = result /\ t.ProposalStatus[n] = "Active"
      /\ \A q \in ProposalIds : q # p /\ q # n => t.ProposalStatus[q] = s.ProposalStatus[q]
  BY <1>1, <1>4, <1>5, StatusType DEF n
<1>7. result \notin {"Unknown", "Queued", "Active"} /\ t.ExternalRef = s.ExternalRef
  BY DEF Ended, Untouched
<1>8. OnlyEnds(s, t, p, result)
  BY <1>4, <1>6 DEF OnlyEnds
<1>9. ASSUME NEW k \in Places(t)
      PROVE  /\ k \in Places(s) /\ k # s.Head /\ Place(t, k) = Place(s, k)
             /\ Place(s, k) \in ProposalIds /\ Place(s, k) # n /\ Place(s, k) # p
             /\ s.ProposalStatus[Place(s, k)] = "Queued"
  <2>1. k \in Places(s) /\ k # s.Head
    BY Zenon, <1>3, <1>9
  <2>2. Place(s, k) # n /\ s.ProposalStatus[Place(s, k)] = "Queued"
    BY Zenon, <1>1, <1>3, <1>4, <2>1 DEF RingOK
  <2>3. Place(s, k) # p
    BY <2>2
  <2>4. k % cap # s.Head % cap
    BY Zenon, <1>4, <2>2 DEF Place
  <2>5. k % cap \in 0 .. cap - 1 /\ Place(s, k) \in ProposalIds
    BY Zenon, <1>1, <2>1, PlaceTypes
  <2>6. Place(t, k) = Place(s, k)
    <3>1. s.InternalProposalQueue \in [0 .. cap - 1 -> ProposalIds \cup {None}]
      BY Zenon, <1>1, StoreTypes
    <3>2. t.InternalProposalQueue[k % cap] = s.InternalProposalQueue[k % cap]
      BY <2>4, <2>5, <3>1
    <3>3. QED
      BY Zenon, <3>2 DEF Place
  <2>7. QED
    BY Zenon, <2>1, <2>2, <2>3, <2>5, <2>6
<1>10. StatusOK(t)
  <2>1. \A q \in ProposalIds :
          t.ProposalStatus[q] # "Unknown" => Request[q].external_ref \in t.ExternalRef
    BY <1>1, <1>4, <1>6, <1>7 DEF StatusOK
  <2>2. \A q \in t.ProposalsToRemove : t.ProposalStatus[q] \in Ended
    <3> SUFFICES ASSUME NEW q \in t.ProposalsToRemove, q # p
                 PROVE  t.ProposalStatus[q] \in Ended
      BY <1>6
    <3>1. s.ProposalStatus[q] \in Ended /\ q \in ProposalIds
      BY <1>1, RemoveType DEF StatusOK
    <3>2. q # n
      BY <1>4, <3>1 DEF Ended
    <3>3. QED
      BY Zenon, <1>6, <3>1, <3>2
  <2>3. /\ IsInternal(n) /\ t.ActiveInternalProposal = n
        /\ \A q \in ProposalIds : IsInternal(q) /\ t.ProposalStatus[q] = "Active" => q = n
    BY <1>1, <1>4, <1>5, <1>6, <1>7 DEF StatusOK, n
  <2>4. \A q \in ProposalIds :
          t.ProposalStatus[q] = "Queued" => IsInternal(q) /\ t.Proposals[q] # None
    BY <1>1, <1>6, <1>7 DEF StatusOK
  <2>5. QED
    BY Zenon, <1>6, <2>1, <2>2, <2>3, <2>4 DEF StatusOK
<1>11. RingOK(t)
  <2>1. t.Head <= t.Tail /\ t.ActiveInternalProposal # None
    BY <1>2, <1>4, WatchtowerAssumption DEF n
  <2>2. \A k \in Places(t) : Place(t, k) # None /\ t.ProposalStatus[Place(t, k)] = "Queued"
    <3> SUFFICES ASSUME NEW k \in Places(t)
                 PROVE  Place(t, k) # None /\ t.ProposalStatus[Place(t, k)] = "Queued"
      OBVIOUS
    <3>1. Place(s, k) # None
      BY Zenon, <1>1, <1>9 DEF RingOK
    <3>2. t.ProposalStatus[Place(s, k)] = s.ProposalStatus[Place(s, k)]
      BY Zenon, <1>6, <1>9
    <3>3. QED
      BY Zenon, <1>9, <3>1, <3>2
  <2>3. \A j, k \in Places(t) : j # k => Place(t, j) # Place(t, k)
    <3> SUFFICES ASSUME NEW j \in Places(t), NEW k \in Places(t), j # k
                 PROVE  Place(t, j) # Place(t, k)
      BY Zenon
    <3>1. j \in Places(s) /\ k \in Places(s)
          /\ Place(t, j) = Place(s, j) /\ Place(t, k) = Place(s, k)
      BY Zenon, <1>9
    <3>2. QED
      BY Zenon, <1>1, <3>1 DEF RingOK
  <2>4. \A i \in 0 .. cap - 1 :
          t.InternalProposalQueue[i] # None => \E k \in Places(t) : i = k % cap
    <3> SUFFICES ASSUME NEW i \in 0 .. cap - 1, t.InternalProposalQueue[i] # None
                 PROVE  \E k \in Places(t) : i = k % cap
      OBVIOUS
    <3>1. i # s.Head % cap /\ s.InternalProposalQueue[i] # None
      <4>1. s.InternalProposalQueue \in [0 .. cap - 1 -> ProposalIds \cup {None}]
        BY Zenon, <1>1, StoreTypes
      <4>2. QED
        BY Zenon, <4>1
    <3>2. PICK k \in Places(s) : i = k % cap
      BY Zenon, <1>1, <3>1 DEF RingOK
    <3>3. k \in Places(t)
      BY Zenon, <1>3, <3>1, <3>2
    <3>4. QED
      BY Zenon, <3>2, <3>3
  <2>5. \A q \in ProposalIds :
          t.ProposalStatus[q] = "Queued" => \E k \in Places(t) : Place(t, k) = q
    <3> SUFFICES ASSUME NEW q \in ProposalIds, t.ProposalStatus[q] = "Queued"
                 PROVE  \E k \in Places(t) : Place(t, k) = q
      OBVIOUS
    <3>1. q # n /\ s.ProposalStatus[q] = "Queued"
      BY <1>6, <1>7
    <3>2. PICK k \in Places(s) : Place(s, k) = q
      BY Zenon, <1>1, <3>1 DEF RingOK
    <3>3. k \in Places(t)
      BY Zenon, <1>3, <1>4, <3>1, <3>2
    <3>4. QED
      BY Zenon, <1>9, <3>2, <3>3
  <2>6. QED
    BY Zenon, <2>1, <2>2, <2>3, <2>4, <2>5 DEF RingOK
<1>12. RootOK(t)
  <2>1. on_voting_completed(s.root, p) = None
    BY SMTT(20), <1>1, <1>5, WatchtowerAssumption DEF RootOK, RootOf, on_voting_completed
  <2>2. t.root = on_proposal_submitted(None, n).root
    BY Zenon, <2>1 DEF n
  <2>3. n # None
    BY Zenon, <1>4, WatchtowerAssumption
  <2>4. on_proposal_submitted(None, n).root = RootOf(n)
    BY <2>3 DEF on_proposal_submitted, process_new_proposal, remove_root_if_needed, RootOf
  <2>5. QED
    BY Zenon, <2>2, <2>4 DEF RootOK, n
<1>13. QED
  BY Zenon, <1>3, <1>4, <1>5, <1>8, <1>9, <1>10, <1>11, <1>12 DEF StoreInv, n

\* Altogether: the end of a vote keeps the invariant and the order.
LEMMA EndKeeps ==
  ASSUME NEW s, StoreInv(s), NEW p \in ProposalIds, s.ProposalStatus[p] = "Active",
         NEW result \in Ended, NEW t, EndsVote(s, t, p, result)
  PROVE  /\ StoreInv(t) /\ OnlyEnds(s, t, p, result)
         /\ \A acc, st : OrderOK(s, acc, st) => OrderOK(t, acc, StartedBy(s, t, st))
<1>1. s \in Store /\ t \in Store /\ t.Tail = s.Tail
  BY Zenon DEF StoreInv, EndsVote, Untouched
<1>2. s.Head \in Nat /\ s.Tail \in Nat
  BY Zenon, <1>1, StoreTypes
<1>3. CASE ~ IsInternal(p)
  <2>1. /\ StoreInv(t) /\ OnlyEnds(s, t, p, result)
        /\ t.ActiveInternalProposal = s.ActiveInternalProposal
        /\ t.InternalProposalQueue = s.InternalProposalQueue /\ t.Head = s.Head
    BY ZenonT(30), <1>1, <1>3, EndExternalKeeps DEF EndsVote
  <2>2. QED
    BY <1>1, <2>1 DEF OrderOK, StartedBy, Places, Place
<1>4. CASE IsInternal(p) /\ ~ can_dequeue(s)
  <2>1. /\ StoreInv(t) /\ OnlyEnds(s, t, p, result)
        /\ t.ActiveInternalProposal = None
        /\ t.InternalProposalQueue = s.InternalProposalQueue /\ t.Head = s.Head
    BY Zenon, <1>1, <1>4, EndLastKeeps DEF EndsVote
  <2>2. QED
    BY <1>1, <2>1 DEF OrderOK, StartedBy, Places, Place
<1>5. CASE IsInternal(p) /\ can_dequeue(s)
  <2>1. /\ t.ActiveInternalProposal = front(s) /\ t.Head = s.Head + 1
    BY Zenon, <1>5 DEF EndsVote
  <2>2. /\ StoreInv(t) /\ OnlyEnds(s, t, p, result)
        /\ s.Head \in Places(s) /\ front(s) \in ProposalIds
        /\ s.ActiveInternalProposal # front(s)
        /\ \A k \in Places(t) : k \in Places(s) /\ k # s.Head /\ Place(t, k) = Place(s, k)
    BY Zenon, <1>1, <1>5, EndNextKeeps DEF EndsVote
  <2> SUFFICES ASSUME NEW acc, NEW st, OrderOK(s, acc, st)
               PROVE  OrderOK(t, acc, StartedBy(s, t, st))
    BY Zenon, <2>2
  <2>3. StartedBy(s, t, st) = Append(st, front(s))
    BY <2>1, <2>2, WatchtowerAssumption DEF StartedBy
  <2>4. /\ st \in Seq(ProposalIds) /\ acc \in Seq(ProposalIds)
        /\ Len(acc) = Len(st) + (s.Tail - s.Head)
        /\ \A i \in 1 .. Len(st) : acc[i] = st[i]
        /\ \A k \in Places(s) : Place(s, k) = acc[Len(st) + (k - s.Head) + 1]
    BY Zenon DEF OrderOK
  <2> DEFINE st2 == Append(st, front(s))
  <2>5. /\ st2 \in Seq(ProposalIds) /\ Len(st2) = Len(st) + 1 /\ Len(st) \in Nat
        /\ st2[Len(st) + 1] = front(s)
        /\ \A i \in 1 .. Len(st) : st2[i] = st[i]
    BY <2>2, <2>4
  <2> HIDE DEF st2
  <2>6. acc[Len(st) + 1] = front(s)
    <3>1. Len(st) + (s.Head - s.Head) + 1 = Len(st) + 1
      BY <1>2, <2>5
    <3>2. Place(s, s.Head) = acc[Len(st) + (s.Head - s.Head) + 1]
      BY Zenon, <2>2, <2>4
    <3>3. QED
      BY Zenon, <3>1, <3>2 DEF front, Place
  <2>7. Len(acc) = Len(st2) + (t.Tail - t.Head)
    BY <1>1, <1>2, <2>1, <2>4, <2>5
  <2>8. \A i \in 1 .. Len(st2) : acc[i] = st2[i]
    BY <2>4, <2>5, <2>6
  <2>9. \A k \in Places(t) : Place(t, k) = acc[Len(st2) + (k - t.Head) + 1]
    <3> SUFFICES ASSUME NEW k \in Places(t)
                 PROVE  Place(t, k) = acc[Len(st2) + (k - t.Head) + 1]
      OBVIOUS
    <3>1. k \in Int
      BY <1>1, <1>2, <2>1 DEF Places
    <3>2. Len(st2) + (k - t.Head) + 1 = Len(st) + (k - s.Head) + 1
      BY SMTT(20), <1>2, <2>1, <2>5, <3>1
    <3>3. QED
      BY Zenon, <2>2, <2>4, <3>2
  <2>10. QED
    BY Zenon, <2>3, <2>4, <2>5, <2>7, <2>8, <2>9 DEF OrderOK, st2
<1>6. QED
  BY Zenon, <1>3, <1>4, <1>5

-----------------------------------------------------------------------------
(* A new proposal *)

\* The proposal p enters: s before, t after.
Inserts(s, t, p) ==
  /\ t \in Store
  /\ t.Votes = s.Votes /\ t.Voters = s.Voters /\ t.Head = s.Head
  /\ t.ProposalsToRemove = s.ProposalsToRemove
  /\ t.ExternalRef = s.ExternalRef \cup {Request[p].external_ref}
  /\ \A q \in ProposalIds : q = p \/ s.Proposals[q] # None => t.Proposals[q] # None
  /\ \/ /\ ~ IsInternal(p)
        /\ t.ProposalStatus = [s.ProposalStatus EXCEPT ![p] = "Active"]
        /\ t.ActiveInternalProposal = s.ActiveInternalProposal
        /\ t.InternalProposalQueue = s.InternalProposalQueue /\ t.Tail = s.Tail
        /\ t.root = s.root
     \/ /\ IsInternal(p) /\ s.ActiveInternalProposal # None /\ can_enqueue(s)
        /\ t.ProposalStatus = [s.ProposalStatus EXCEPT ![p] = "Queued"]
        /\ t.ActiveInternalProposal = s.ActiveInternalProposal
        /\ t.InternalProposalQueue = [s.InternalProposalQueue EXCEPT ![s.Tail % cap] = p]
        /\ t.Tail = s.Tail + 1 /\ t.root = s.root
     \/ /\ IsInternal(p) /\ s.ActiveInternalProposal = None
        /\ t.ProposalStatus = [s.ProposalStatus EXCEPT ![p] = "Active"]
        /\ t.ActiveInternalProposal = p
        /\ t.InternalProposalQueue = s.InternalProposalQueue /\ t.Tail = s.Tail
        /\ t.root = on_proposal_submitted(s.root, p).root

LEMMA InsertFields ==
  ASSUME wt \in Store, NEW p \in ProposalIds, NEW d \in Nat, insert_proposal(p, d).ok
  PROVE  Inserts(wt, insert_proposal(p, d).s, p)
<1> DEFINE t == insert_proposal(p, d).s
           dur == [wt.Duration EXCEPT ![p] = d]
           ref == wt.ExternalRef \cup {Request[p].external_ref}
           status == [wt.ProposalStatus EXCEPT ![p] = "Active"]
           waits == [wt.ProposalStatus EXCEPT ![p] = "Queued"]
           runs == [wt.Proposals EXCEPT ![p] = d]
           rests == [wt.Proposals EXCEPT ![p] = 0]
           queue == [wt.InternalProposalQueue EXCEPT ![wt.Tail % cap] = p]
           root == on_proposal_submitted(wt.root, p).root
           tail == wt.Tail + 1
<1>1. /\ wt.Tail \in Nat /\ wt.root \in ProposalIds \cup {None}
      /\ wt.InternalProposalQueue \in [0 .. cap - 1 -> ProposalIds \cup {None}]
  BY Zenon, StoreTypes
<1>2. dur \in [ProposalIds -> Nat]
  BY StoreTypes
<1>3. ref \in SUBSET {Request[q].external_ref : q \in ProposalIds}
  BY DEF Store
<1>4. status \in [ProposalIds -> Statuses] /\ waits \in [ProposalIds -> Statuses]
  BY StatusType DEF Statuses
<1>5. runs \in [ProposalIds -> Nat \cup {None}] /\ rests \in [ProposalIds -> Nat \cup {None}]
  BY StoreTypes
<1>6. queue \in [0 .. cap - 1 -> ProposalIds \cup {None}]
  BY Zenon, <1>1
<1>7. root \in ProposalIds \cup {None}
  BY Zenon, <1>1, HookRoots
<1>8. /\ \A q \in ProposalIds : q = p \/ wt.Proposals[q] # None => runs[q] # None
      /\ \A q \in ProposalIds : q = p \/ wt.Proposals[q] # None => rests[q] # None
  BY StoreTypes, WatchtowerAssumption
<1>9. CASE ~ IsInternal(p)
  <2>1. t = [wt EXCEPT !.Duration = dur, !.ExternalRef = ref,
                       !.ProposalStatus = status, !.Proposals = runs]
    BY <1>9 DEF insert_proposal, Store
  <2> HIDE DEF t, dur, ref, status, runs
  <2>2. t \in Store
    BY Zenon, <1>2, <1>3, <1>4, <1>5, <2>1 DEF Store
  <2>3. /\ t.Votes = wt.Votes /\ t.Voters = wt.Voters /\ t.Head = wt.Head
        /\ t.ProposalsToRemove = wt.ProposalsToRemove /\ t.ExternalRef = ref
        /\ t.Proposals = runs /\ t.ProposalStatus = status
        /\ t.ActiveInternalProposal = wt.ActiveInternalProposal
        /\ t.InternalProposalQueue = wt.InternalProposalQueue /\ t.Tail = wt.Tail
        /\ t.root = wt.root
    BY <2>1 DEF Store
  <2>4. QED
    BY Zenon, <1>8, <1>9, <2>2, <2>3 DEF Inserts, t, ref, status
<1>10. CASE IsInternal(p) /\ wt.ActiveInternalProposal # None
  <2> DEFINE s1 == [wt EXCEPT !.Duration[p] = d,
                              !.ExternalRef = @ \cup {Request[p].external_ref}]
  <2>1. /\ s1.ActiveInternalProposal = wt.ActiveInternalProposal
        /\ s1.Tail = wt.Tail /\ s1.Head = wt.Head
        /\ s1.InternalProposalQueue = wt.InternalProposalQueue
    BY DEF Store
  <2>2. /\ t = [enqueue(s1, p) EXCEPT !.ProposalStatus[p] = "Queued", !.Proposals[p] = 0]
        /\ can_enqueue(s1)
    BY <1>10, <2>1 DEF insert_proposal
  <2>3. can_enqueue(wt)
    BY Zenon, <2>1, <2>2 DEF can_enqueue, is_full, len
  <2>4. t = [wt EXCEPT !.Duration = dur, !.ExternalRef = ref,
                       !.ProposalStatus = waits, !.Proposals = rests,
                       !.InternalProposalQueue = queue, !.Tail = tail]
    BY Zenon, <2>2 DEF enqueue, Store
  <2>a. tail \in Nat
    BY Zenon, <1>1, NextNat
  <2> HIDE DEF t, dur, ref, waits, rests, queue, s1, tail
  <2>5. t \in Store
    BY Zenon, <1>2, <1>3, <1>4, <1>5, <1>6, <2>4, <2>a DEF Store
  <2>6. /\ t.Votes = wt.Votes /\ t.Voters = wt.Voters /\ t.Head = wt.Head
        /\ t.ProposalsToRemove = wt.ProposalsToRemove /\ t.ExternalRef = ref
        /\ t.Proposals = rests /\ t.ProposalStatus = waits
        /\ t.ActiveInternalProposal = wt.ActiveInternalProposal
        /\ t.InternalProposalQueue = queue /\ t.Tail = tail
        /\ t.root = wt.root
    BY <2>4 DEF Store
  <2>7. QED
    BY Zenon, <1>8, <1>10, <2>3, <2>5, <2>6 DEF Inserts, t, ref, waits, queue, tail
<1>11. CASE IsInternal(p) /\ wt.ActiveInternalProposal = None
  <2> DEFINE s1 == [wt EXCEPT !.Duration[p] = d,
                              !.ExternalRef = @ \cup {Request[p].external_ref}]
  <2>1. s1.ActiveInternalProposal = wt.ActiveInternalProposal /\ s1.root = wt.root
    BY DEF Store
  <2>2. t = [[s1 EXCEPT !.ProposalStatus[p] = "Active", !.Proposals[p] = d]
               EXCEPT !.ActiveInternalProposal = p, !.root = root]
    BY <1>11, <2>1 DEF insert_proposal
  <2> HIDE DEF root
  <2>3. t = [wt EXCEPT !.Duration = dur, !.ExternalRef = ref,
                       !.ProposalStatus = status, !.Proposals = runs,
                       !.ActiveInternalProposal = p, !.root = root]
    BY <2>2 DEF Store
  <2> HIDE DEF t, dur, ref, status, runs, s1
  <2>4. t \in Store
    BY Zenon, <1>2, <1>3, <1>4, <1>5, <1>7, <2>3 DEF Store
  <2>5. /\ t.Votes = wt.Votes /\ t.Voters = wt.Voters /\ t.Head = wt.Head
        /\ t.ProposalsToRemove = wt.ProposalsToRemove /\ t.ExternalRef = ref
        /\ t.Proposals = runs /\ t.ProposalStatus = status
        /\ t.ActiveInternalProposal = p
        /\ t.InternalProposalQueue = wt.InternalProposalQueue /\ t.Tail = wt.Tail
        /\ t.root = root
    BY <2>3 DEF Store
  <2>6. QED
    BY Zenon, <1>8, <1>11, <2>4, <2>5 DEF Inserts, t, ref, status, root
<1>12. QED
  BY Zenon, <1>9, <1>10, <1>11

NewStatus(s, t, p) ==
  /\ t.ProposalStatus[p] \in {"Active", "Queued"}
  /\ \A q \in ProposalIds : q # p => t.ProposalStatus[q] = s.ProposalStatus[q]

LEMMA InsertStatus ==
  ASSUME NEW s, s \in Store, NEW p \in ProposalIds, s.ProposalStatus[p] = "Unknown",
         NEW t, Inserts(s, t, p)
  PROVE  NewStatus(s, t, p)
<1>1. s.ProposalStatus \in [ProposalIds -> Statuses]
  BY Zenon, StoreTypes
<1>2. \/ t.ProposalStatus = [s.ProposalStatus EXCEPT ![p] = "Active"]
      \/ t.ProposalStatus = [s.ProposalStatus EXCEPT ![p] = "Queued"]
  BY Zenon DEF Inserts
<1>3. QED
  BY <1>1, <1>2 DEF NewStatus

LEMMA InsertStatusOK ==
  ASSUME NEW s, StoreInv(s), NEW p \in ProposalIds, s.ProposalStatus[p] = "Unknown",
         NEW t, Inserts(s, t, p)
  PROVE  StatusOK(t)
<1>1. s \in Store /\ StatusOK(s) /\ t \in Store
  BY Zenon DEF StoreInv, Inserts
<1>2. /\ t.ProposalStatus[p] \in {"Active", "Queued"}
      /\ \A q \in ProposalIds : q # p => t.ProposalStatus[q] = s.ProposalStatus[q]
  <2>1. NewStatus(s, t, p)
    BY Zenon, <1>1, InsertStatus
  <2>2. QED
    BY Zenon, <2>1 DEF NewStatus
<1>3. /\ t.ProposalsToRemove = s.ProposalsToRemove
      /\ t.ExternalRef = s.ExternalRef \cup {Request[p].external_ref}
      /\ \A q \in ProposalIds : q = p \/ s.Proposals[q] # None => t.Proposals[q] # None
  BY Zenon DEF Inserts
<1>4. \A q \in ProposalIds :
        t.ProposalStatus[q] # "Unknown" => Request[q].external_ref \in t.ExternalRef
  BY Zenon, <1>1, <1>2, <1>3 DEF StatusOK
<1>5. \A q \in t.ProposalsToRemove : t.ProposalStatus[q] \in Ended
  <2> SUFFICES ASSUME NEW q \in s.ProposalsToRemove
               PROVE  t.ProposalStatus[q] \in Ended
    BY Zenon, <1>3
  <2>1. q \in ProposalIds /\ s.ProposalStatus[q] \in Ended
    BY <1>1, RemoveType DEF StatusOK
  <2>2. q # p
    BY <2>1 DEF Ended
  <2>3. QED
    BY Zenon, <1>2, <2>1, <2>2
<1>6. CASE ~ IsInternal(p)
  <2>1. /\ t.ProposalStatus = [s.ProposalStatus EXCEPT ![p] = "Active"]
        /\ t.ActiveInternalProposal = s.ActiveInternalProposal
    BY Zenon, <1>6 DEF Inserts
  <2>2. t.ProposalStatus[p] = "Active"
    BY <1>1, <2>1, StatusType
  <2>3. /\ t.ActiveInternalProposal # None =>
             /\ IsInternal(t.ActiveInternalProposal)
             /\ t.ProposalStatus[t.ActiveInternalProposal] = "Active"
        /\ \A q \in ProposalIds :
             IsInternal(q) /\ t.ProposalStatus[q] = "Active" => q = t.ActiveInternalProposal
    BY <1>1, <1>2, <1>6, <2>1, <2>2, ActiveType DEF StatusOK
  <2>4. \A q \in ProposalIds :
          t.ProposalStatus[q] = "Queued" => IsInternal(q) /\ t.Proposals[q] # None
    BY <1>1, <1>2, <1>3, <2>2 DEF StatusOK
  <2>5. QED
    BY Zenon, <1>4, <1>5, <2>3, <2>4 DEF StatusOK
<1>7. CASE IsInternal(p) /\ s.ActiveInternalProposal # None
  <2>1. /\ t.ProposalStatus = [s.ProposalStatus EXCEPT ![p] = "Queued"]
        /\ t.ActiveInternalProposal = s.ActiveInternalProposal
    BY Zenon, <1>7 DEF Inserts
  <2>2. t.ProposalStatus[p] = "Queued" /\ p # s.ActiveInternalProposal
    BY <1>1, <1>7, <2>1, StatusType, ActiveType DEF StatusOK
  <2>3. /\ t.ActiveInternalProposal # None =>
             /\ IsInternal(t.ActiveInternalProposal)
             /\ t.ProposalStatus[t.ActiveInternalProposal] = "Active"
        /\ \A q \in ProposalIds :
             IsInternal(q) /\ t.ProposalStatus[q] = "Active" => q = t.ActiveInternalProposal
    BY <1>1, <1>2, <2>1, <2>2, ActiveType DEF StatusOK
  <2>4. \A q \in ProposalIds :
          t.ProposalStatus[q] = "Queued" => IsInternal(q) /\ t.Proposals[q] # None
    BY Zenon, <1>1, <1>2, <1>3, <1>7 DEF StatusOK
  <2>5. QED
    BY Zenon, <1>4, <1>5, <2>3, <2>4 DEF StatusOK
<1>8. CASE IsInternal(p) /\ s.ActiveInternalProposal = None
  <2>1. /\ t.ProposalStatus = [s.ProposalStatus EXCEPT ![p] = "Active"]
        /\ t.ActiveInternalProposal = p
    BY Zenon, <1>8 DEF Inserts
  <2>2. t.ProposalStatus[p] = "Active"
    BY <1>1, <2>1, StatusType
  <2>3. \A q \in ProposalIds :
          IsInternal(q) /\ t.ProposalStatus[q] = "Active" => q = p
    BY Zenon, <1>1, <1>2, <1>8, WatchtowerAssumption DEF StatusOK
  <2>4. \A q \in ProposalIds :
          t.ProposalStatus[q] = "Queued" => IsInternal(q) /\ t.Proposals[q] # None
    BY Zenon, <1>1, <1>2, <1>3, <1>8 DEF StatusOK
  <2>5. QED
    BY Zenon, <1>4, <1>5, <1>8, <2>1, <2>2, <2>3, <2>4 DEF StatusOK
<1>9. QED
  BY Zenon, <1>6, <1>7, <1>8

\* The ring and the order are those of before when nothing enters the ring.
LEMMA SameRing ==
  ASSUME NEW s, s \in Store, NEW t, t.Head = s.Head, t.Tail = s.Tail,
         t.InternalProposalQueue = s.InternalProposalQueue
  PROVE  Places(t) = Places(s) /\ \A k : Place(t, k) = Place(s, k)
BY DEF Places, Place

\* A status that changes from Unknown is not that of a place.
KeptPlaces(s, t, p) ==
  \A k \in Places(s) :
    /\ Place(s, k) \in ProposalIds /\ Place(s, k) # None /\ Place(s, k) # p
    /\ t.ProposalStatus[Place(s, k)] = "Queued"

LEMMA InsertPlaces ==
  ASSUME NEW s, StoreInv(s), NEW p \in ProposalIds, s.ProposalStatus[p] = "Unknown",
         NEW t, Inserts(s, t, p)
  PROVE  KeptPlaces(s, t, p)
<1> SUFFICES ASSUME NEW k \in Places(s)
             PROVE  /\ Place(s, k) \in ProposalIds /\ Place(s, k) # None /\ Place(s, k) # p
                    /\ t.ProposalStatus[Place(s, k)] = "Queued"
  BY Zenon DEF KeptPlaces
<1>1. s \in Store /\ RingOK(s)
  BY Zenon DEF StoreInv
<1>2. /\ Place(s, k) \in ProposalIds /\ Place(s, k) # None
      /\ s.ProposalStatus[Place(s, k)] = "Queued"
  BY Zenon, <1>1, PlaceTypes DEF RingOK
<1>3. Place(s, k) # p
  BY <1>2
<1>4. NewStatus(s, t, p)
  BY Zenon, <1>1, InsertStatus
<1>5. QED
  BY Zenon, <1>2, <1>3, <1>4 DEF NewStatus

LEMMA InsertExternalKeeps ==
  ASSUME NEW s, StoreInv(s), NEW p \in ProposalIds, s.ProposalStatus[p] = "Unknown",
         NEW t, Inserts(s, t, p), ~ IsInternal(p)
  PROVE  /\ StoreInv(t)
         /\ \A acc, st : OrderOK(s, acc, st) => OrderOK(t, acc, StartedBy(s, t, st))
<1>1. s \in Store /\ StatusOK(s) /\ RingOK(s) /\ RootOK(s) /\ t \in Store
  BY Zenon DEF StoreInv, Inserts
<1>2. /\ t.ProposalStatus = [s.ProposalStatus EXCEPT ![p] = "Active"]
      /\ t.ActiveInternalProposal = s.ActiveInternalProposal
      /\ t.InternalProposalQueue = s.InternalProposalQueue
      /\ t.Head = s.Head /\ t.Tail = s.Tail /\ t.root = s.root
  BY Zenon DEF Inserts
<1>3. Places(t) = Places(s) /\ \A k : Place(t, k) = Place(s, k)
  BY Zenon, <1>1, <1>2, SameRing
<1>4. \A k \in Places(t) : Place(t, k) # None /\ t.ProposalStatus[Place(t, k)] = "Queued"
  <2>1. KeptPlaces(s, t, p)
    BY Zenon, InsertPlaces
  <2>2. QED
    BY Zenon, <1>3, <2>1 DEF KeptPlaces
<1>5. \A q \in ProposalIds : t.ProposalStatus[q] = "Queued" => s.ProposalStatus[q] = "Queued"
  BY <1>1, <1>2, StatusType
<1>6. RingOK(t)
  <2>1. \A j, k \in Places(t) : j # k => Place(t, j) # Place(t, k)
    BY Zenon, <1>1, <1>3 DEF RingOK
  <2>2. \A i \in 0 .. cap - 1 :
          t.InternalProposalQueue[i] # None => \E k \in Places(t) : i = k % cap
    BY Zenon, <1>1, <1>2, <1>3 DEF RingOK
  <2>3. \A q \in ProposalIds :
          t.ProposalStatus[q] = "Queued" => \E k \in Places(t) : Place(t, k) = q
    BY Zenon, <1>1, <1>3, <1>5 DEF RingOK
  <2>4. t.Head <= t.Tail /\ (t.ActiveInternalProposal = None => t.Head = t.Tail)
    BY Zenon, <1>1, <1>2 DEF RingOK
  <2>5. QED
    BY Zenon, <1>4, <2>1, <2>2, <2>3, <2>4 DEF RingOK
<1>7. RootOK(t)
  BY Zenon, <1>1, <1>2 DEF RootOK
<1>8. ASSUME NEW acc, NEW st, OrderOK(s, acc, st)
      PROVE  OrderOK(t, acc, StartedBy(s, t, st))
  <2>1. StartedBy(s, t, st) = st
    BY <1>2 DEF StartedBy
  <2>2. OrderOK(t, acc, st)
    BY Zenon, <1>2, <1>3, <1>8 DEF OrderOK
  <2>3. QED
    BY Zenon, <2>1, <2>2
<1>9. QED
  BY Zenon, <1>1, <1>6, <1>7, <1>8, InsertStatusOK DEF StoreInv

LEMMA InsertQueuedKeeps ==
  ASSUME NEW s, StoreInv(s), NEW p \in ProposalIds, s.ProposalStatus[p] = "Unknown",
         NEW t, Inserts(s, t, p), IsInternal(p), s.ActiveInternalProposal # None
  PROVE  /\ StoreInv(t)
         /\ \A acc, st : OrderOK(s, acc, st) => OrderOK(t, Append(acc, p), StartedBy(s, t, st))
<1>1. s \in Store /\ StatusOK(s) /\ RingOK(s) /\ RootOK(s) /\ t \in Store
  BY Zenon DEF StoreInv, Inserts
<1>2. /\ t.ProposalStatus = [s.ProposalStatus EXCEPT ![p] = "Queued"]
      /\ t.ActiveInternalProposal = s.ActiveInternalProposal
      /\ t.InternalProposalQueue = [s.InternalProposalQueue EXCEPT ![s.Tail % cap] = p]
      /\ t.Head = s.Head /\ t.Tail = s.Tail + 1 /\ t.root = s.root /\ can_enqueue(s)
  BY Zenon DEF Inserts
<1>3. s.Head \in Nat /\ s.Tail \in Nat /\ s.Head <= s.Tail
  BY <1>1, RingTypes DEF RingOK
<1>4. s.Tail % cap \in 0 .. cap - 1
  BY Zenon, <1>3, Slot
<1>5. /\ Places(t) = Places(s) \cup {s.Tail} /\ s.Tail \notin Places(s)
      /\ s.Tail \in Places(t)
  BY <1>2, <1>3 DEF Places
<1>6. Place(t, s.Tail) = p
  BY Zenon, <1>1, <1>2, <1>4, QueueType DEF Place
<1>7. ASSUME NEW k \in Places(s)
      PROVE  Place(t, k) = Place(s, k)
  <2>1. k % cap \in 0 .. cap - 1 /\ Place(s, k) # None
    BY Zenon, <1>1, PlaceTypes DEF RingOK
  <2>2. s.InternalProposalQueue[s.Tail % cap] = None
    BY Zenon, <1>2 DEF can_enqueue
  <2>3. k % cap # s.Tail % cap
    BY Zenon, <2>1, <2>2 DEF Place
  <2>4. QED
    BY <1>1, <1>2, <2>1, <2>3, QueueType DEF Place
<1>8. p # None /\ t.ProposalStatus[p] = "Queued"
  BY <1>1, <1>2, StatusType, WatchtowerAssumption
<1>9. RingOK(t)
  <2>1. t.Head <= t.Tail /\ t.ActiveInternalProposal # None
    BY <1>2, <1>3
  <2>2. \A k \in Places(t) : Place(t, k) # None /\ t.ProposalStatus[Place(t, k)] = "Queued"
    <3>1. KeptPlaces(s, t, p)
      BY Zenon, InsertPlaces
    <3>2. QED
      BY Zenon, <1>5, <1>6, <1>7, <1>8, <3>1 DEF KeptPlaces
  <2>3. \A j, k \in Places(t) : j # k => Place(t, j) # Place(t, k)
    <3>1. \A k \in Places(s) : Place(t, k) # p
      BY Zenon, <1>7, InsertPlaces DEF KeptPlaces
    <3>2. \A j, k \in Places(s) : j # k => Place(t, j) # Place(t, k)
      BY Zenon, <1>1, <1>7 DEF RingOK
    <3>3. QED
      BY Zenon, <1>5, <1>6, <3>1, <3>2
  <2>4. \A i \in 0 .. cap - 1 :
          t.InternalProposalQueue[i] # None => \E k \in Places(t) : i = k % cap
    <3> SUFFICES ASSUME NEW i \in 0 .. cap - 1, t.InternalProposalQueue[i] # None
                 PROVE  \E k \in Places(t) : i = k % cap
      OBVIOUS
    <3>1. CASE i = s.Tail % cap
      BY Zenon, <1>5, <3>1
    <3>2. CASE i # s.Tail % cap
      <4>1. s.InternalProposalQueue[i] # None
        BY <1>1, <1>2, <3>2, QueueType
      <4>2. QED
        BY Zenon, <1>1, <1>5, <4>1 DEF RingOK
    <3>3. QED
      BY Zenon, <3>1, <3>2
  <2>5. \A q \in ProposalIds :
          t.ProposalStatus[q] = "Queued" => \E k \in Places(t) : Place(t, k) = q
    <3> SUFFICES ASSUME NEW q \in ProposalIds, t.ProposalStatus[q] = "Queued"
                 PROVE  \E k \in Places(t) : Place(t, k) = q
      OBVIOUS
    <3>1. CASE q = p
      BY Zenon, <1>5, <1>6, <3>1
    <3>2. CASE q # p
      <4>1. s.ProposalStatus[q] = "Queued"
        BY <1>1, <1>2, <3>2, StatusType
      <4>2. PICK k \in Places(s) : Place(s, k) = q
        BY Zenon, <1>1, <4>1 DEF RingOK
      <4>3. QED
        BY Zenon, <1>5, <1>7, <4>2
    <3>3. QED
      BY Zenon, <3>1, <3>2
  <2>6. QED
    BY Zenon, <2>1, <2>2, <2>3, <2>4, <2>5 DEF RingOK
<1>10. RootOK(t)
  BY Zenon, <1>1, <1>2 DEF RootOK
<1>11. ASSUME NEW acc, NEW st, OrderOK(s, acc, st)
       PROVE  OrderOK(t, Append(acc, p), StartedBy(s, t, st))
  <2> DEFINE acc2 == Append(acc, p)
  <2>1. StartedBy(s, t, st) = st
    BY <1>2 DEF StartedBy
  <2>2. /\ st \in Seq(ProposalIds) /\ acc \in Seq(ProposalIds)
        /\ Len(acc) = Len(st) + (s.Tail - s.Head)
        /\ \A i \in 1 .. Len(st) : acc[i] = st[i]
        /\ \A k \in Places(s) : Place(s, k) = acc[Len(st) + (k - s.Head) + 1]
    BY Zenon, <1>11 DEF OrderOK
  <2>3. /\ acc2 \in Seq(ProposalIds) /\ Len(acc2) = Len(acc) + 1
        /\ Len(acc) \in Nat /\ Len(st) \in Nat
        /\ acc2[Len(acc) + 1] = p
        /\ \A i \in 1 .. Len(acc) : acc2[i] = acc[i]
    BY <2>2
  <2> HIDE DEF acc2
  <2>4. Len(acc2) = Len(st) + (t.Tail - t.Head)
    BY <1>2, <1>3, <2>2, <2>3
  <2>5. \A i \in 1 .. Len(st) : acc2[i] = st[i]
    BY <1>3, <2>2, <2>3
  <2>6. \A k \in Places(s) : Place(t, k) = acc2[Len(st) + (k - t.Head) + 1]
    <3> SUFFICES ASSUME NEW k \in Places(s)
                 PROVE  Place(s, k) = acc2[Len(st) + (k - s.Head) + 1]
      BY Zenon, <1>2, <1>7
    <3>1. Len(st) + (k - s.Head) + 1 \in 1 .. Len(acc)
      BY <1>3, <2>2, <2>3 DEF Places
    <3>2. QED
      BY Zenon, <2>2, <2>3, <3>1
  <2>7. Len(st) + (s.Tail - t.Head) + 1 = Len(acc) + 1
    BY <1>2, <1>3, <2>2, <2>3
  <2>8. \A k \in Places(t) : Place(t, k) = acc2[Len(st) + (k - t.Head) + 1]
    BY Zenon, <1>5, <1>6, <2>3, <2>6, <2>7
  <2>9. QED
    BY Zenon, <2>1, <2>2, <2>3, <2>4, <2>5, <2>8 DEF OrderOK, acc2
<1>12. QED
  BY Zenon, <1>1, <1>9, <1>10, <1>11, InsertStatusOK DEF StoreInv

LEMMA InsertActiveKeeps ==
  ASSUME NEW s, StoreInv(s), NEW p \in ProposalIds, s.ProposalStatus[p] = "Unknown",
         NEW t, Inserts(s, t, p), IsInternal(p), s.ActiveInternalProposal = None
  PROVE  /\ StoreInv(t)
         /\ \A acc, st : OrderOK(s, acc, st) => OrderOK(t, Append(acc, p), StartedBy(s, t, st))
<1>1. s \in Store /\ StatusOK(s) /\ RingOK(s) /\ RootOK(s) /\ t \in Store
  BY Zenon DEF StoreInv, Inserts
<1>2. /\ t.ProposalStatus = [s.ProposalStatus EXCEPT ![p] = "Active"]
      /\ t.ActiveInternalProposal = p
      /\ t.InternalProposalQueue = s.InternalProposalQueue
      /\ t.Head = s.Head /\ t.Tail = s.Tail
      /\ t.root = on_proposal_submitted(s.root, p).root
  BY Zenon DEF Inserts
<1>3. s.Head \in Nat /\ s.Tail = s.Head
  BY <1>1, RingTypes DEF RingOK
<1>4. Places(t) = Places(s) /\ \A k : Place(t, k) = Place(s, k)
  BY Zenon, <1>1, <1>2, SameRing
<1>5. Places(s) = {} /\ Places(t) = {} /\ t.Head <= t.Tail /\ p # None
  BY SMTT(20), <1>2, <1>3, WatchtowerAssumption DEF Places
<1>6. \A q \in ProposalIds : t.ProposalStatus[q] = "Queued" => s.ProposalStatus[q] = "Queued"
  BY <1>1, <1>2, StatusType
<1>7. RingOK(t)
  BY Zenon, <1>1, <1>2, <1>4, <1>5, <1>6 DEF RingOK
<1>8. RootOK(t)
  <2>1. s.root = None
    BY Zenon, <1>1 DEF RootOK, RootOf
  <2>2. on_proposal_submitted(None, p).root = RootOf(p)
    BY <1>5 DEF on_proposal_submitted, process_new_proposal, remove_root_if_needed, RootOf
  <2>3. QED
    BY Zenon, <1>2, <2>1, <2>2 DEF RootOK
<1>9. ASSUME NEW acc, NEW st, OrderOK(s, acc, st)
      PROVE  OrderOK(t, Append(acc, p), StartedBy(s, t, st))
  <2> DEFINE acc2 == Append(acc, p)
             st2 == Append(st, p)
  <2>1. StartedBy(s, t, st) = st2
    BY <1>2, <1>5 DEF StartedBy
  <2>2. /\ st \in Seq(ProposalIds) /\ acc \in Seq(ProposalIds)
        /\ Len(acc) = Len(st) + (s.Tail - s.Head)
        /\ \A i \in 1 .. Len(st) : acc[i] = st[i]
    BY Zenon, <1>9 DEF OrderOK
  <2>3. /\ acc2 \in Seq(ProposalIds) /\ Len(acc2) = Len(acc) + 1
        /\ Len(acc) \in Nat /\ Len(st) \in Nat
        /\ acc2[Len(acc) + 1] = p
        /\ \A i \in 1 .. Len(acc) : acc2[i] = acc[i]
    BY <2>2
  <2>4. /\ st2 \in Seq(ProposalIds) /\ Len(st2) = Len(st) + 1
        /\ st2[Len(st) + 1] = p
        /\ \A i \in 1 .. Len(st) : st2[i] = st[i]
    BY <2>2
  <2> HIDE DEF acc2, st2
  <2>5. Len(acc) = Len(st)
    BY <1>3, <2>2, <2>3
  <2>6. Len(acc2) = Len(st2) + (t.Tail - t.Head)
    BY SMTT(20), <1>2, <1>3, <2>3, <2>4, <2>5
  <2>7. \A i \in 1 .. Len(st2) : acc2[i] = st2[i]
    BY <2>2, <2>3, <2>4, <2>5
  <2>8. \A k \in Places(t) : Place(t, k) = acc2[Len(st2) + (k - t.Head) + 1]
    BY Zenon, <1>5
  <2>9. QED
    BY Zenon, <2>1, <2>3, <2>4, <2>6, <2>7, <2>8 DEF OrderOK, acc2
<1>10. QED
  BY Zenon, <1>1, <1>7, <1>8, <1>9, InsertStatusOK DEF StoreInv
=============================================================================
