------------------------- MODULE WatchtowerTheorems -------------------------
(***************************************************************************)
(* Theorems about the watchtowers: what a decision takes and that it is    *)
(* final, that votes count once, and that the ring keeps the order.        *)
(***************************************************************************)
EXTENDS WatchtowerStore

-----------------------------------------------------------------------------
(* Votes, settings, cleaning and the end of a block leave the order alone *)

\* Neither the statuses nor the ring change, and no queued proposal loses its
\* entry.
KeepsOrder(s, t) ==
  /\ t \in Store
  /\ t.ProposalStatus = s.ProposalStatus /\ t.ExternalRef = s.ExternalRef
  /\ t.ActiveInternalProposal = s.ActiveInternalProposal
  /\ t.InternalProposalQueue = s.InternalProposalQueue
  /\ t.Head = s.Head /\ t.Tail = s.Tail /\ t.root = s.root
  /\ t.ProposalsToRemove \subseteq s.ProposalsToRemove
  /\ \A q \in ProposalIds \ s.ProposalsToRemove :
       s.Proposals[q] # None => t.Proposals[q] # None

LEMMA KeepsOrderKeeps ==
  ASSUME NEW s, StoreInv(s), NEW t, KeepsOrder(s, t)
  PROVE  /\ StoreInv(t)
         /\ \A acc, st : OrderOK(s, acc, st) => OrderOK(t, acc, st)
<1>1. s \in Store /\ StatusOK(s) /\ RingOK(s) /\ RootOK(s) /\ t \in Store
  BY Zenon DEF StoreInv, KeepsOrder
<1>2. Places(t) = Places(s) /\ \A k : Place(t, k) = Place(s, k)
  BY Zenon, <1>1, SameRing DEF KeepsOrder
<1>3. \A q \in ProposalIds :
        t.ProposalStatus[q] = "Queued" => IsInternal(q) /\ t.Proposals[q] # None
  <2> SUFFICES ASSUME NEW q \in ProposalIds, s.ProposalStatus[q] = "Queued"
               PROVE  IsInternal(q) /\ t.Proposals[q] # None
    BY Zenon DEF KeepsOrder
  <2>1. s.ProposalStatus[q] \notin Ended
    BY DEF Ended
  <2>2. q \notin s.ProposalsToRemove
    BY Zenon, <1>1, <2>1 DEF StatusOK
  <2>3. QED
    BY Zenon, <1>1, <2>2 DEF StatusOK, KeepsOrder
<1>4. StatusOK(t)
  BY Zenon, <1>1, <1>3 DEF StatusOK, KeepsOrder
<1>5. RingOK(t)
  BY Zenon, <1>1, <1>2 DEF RingOK, KeepsOrder
<1>6. RootOK(t)
  BY Zenon, <1>1 DEF RootOK, KeepsOrder
<1>7. ASSUME NEW acc, NEW st, OrderOK(s, acc, st)
      PROVE  OrderOK(t, acc, st)
  BY Zenon, <1>2, <1>7 DEF OrderOK, KeepsOrder
<1>8. QED
  BY Zenon, <1>1, <1>4, <1>5, <1>6, <1>7 DEF StoreInv

LEMMA CastKept ==
  ASSUME NEW s, NEW t, NEW c, CastOK(s, c),
         \A q \in ProposalIds : t.ProposalStatus[q] \notin Ended =>
           /\ s.ProposalStatus[q] \notin Ended
           /\ t.Votes[q] = s.Votes[q] /\ t.Voters[q] = s.Voters[q]
  PROVE  CastOK(t, c)
<1>1. Internal \subseteq ProposalIds
  BY Zenon DEF Internal
<1>2. QED
  BY Zenon, <1>1 DEF CastOK

CountsTo(s, t, p, voter, w) ==
  /\ KeepsOrder(s, t) /\ t.Proposals = s.Proposals
  /\ t.Voters = [s.Voters EXCEPT ![p] = s.Voters[p] \cup {voter}]
  /\ \A q \in ProposalIds : q # p => t.Votes[q] = s.Votes[q]
  /\ t.Votes[p].in_favors + t.Votes[p].againsts = s.Votes[p].in_favors + s.Votes[p].againsts + w

LEMMA CountFields ==
  ASSUME wt \in Store, NEW p \in ProposalIds, NEW voter \in Voters, NEW in_favor,
         NEW w \in Nat, NEW t, t = count_vote(p, voter, in_favor, w)
  PROVE  CountsTo(wt, t, p, voter, w)
<1> DEFINE voters == [wt.Voters EXCEPT ![p] = wt.Voters[p] \cup {voter}]
           tally == [in_favors |-> wt.Votes[p].in_favors + (IF in_favor THEN w ELSE 0),
                     againsts |-> wt.Votes[p].againsts + (IF in_favor THEN 0 ELSE w)]
           votes == [wt.Votes EXCEPT ![p] = tally]
<1>1. wt.Voters \in [ProposalIds -> SUBSET Voters] /\ wt.Votes \in [ProposalIds -> Tally]
  BY Zenon, StoreTypes
<1>2. wt.Votes[p].in_favors \in Nat /\ wt.Votes[p].againsts \in Nat
  BY <1>1 DEF Tally
<1>3. /\ tally \in Tally
      /\ tally.in_favors + tally.againsts = wt.Votes[p].in_favors + wt.Votes[p].againsts + w
  BY <1>2 DEF Tally
<1>4. voters \in [ProposalIds -> SUBSET Voters]
  BY <1>1
<1>5. t = [wt EXCEPT !.Voters = voters, !.Votes = votes]
  BY DEF count_vote, Store
<1> HIDE DEF voters, tally
<1>6. votes \in [ProposalIds -> Tally] /\ votes[p] = tally
  BY <1>1, <1>3
<1>7. \A q \in ProposalIds : q # p => votes[q] = wt.Votes[q]
  BY <1>1
<1> HIDE DEF votes
<1>8. t \in Store
  BY Zenon, <1>4, <1>5, <1>6 DEF Store
<1>9. /\ t.Voters = voters /\ t.Votes = votes /\ t.Proposals = wt.Proposals
      /\ t.ProposalStatus = wt.ProposalStatus /\ t.ExternalRef = wt.ExternalRef
      /\ t.ActiveInternalProposal = wt.ActiveInternalProposal
      /\ t.InternalProposalQueue = wt.InternalProposalQueue
      /\ t.Head = wt.Head /\ t.Tail = wt.Tail /\ t.root = wt.root
      /\ t.ProposalsToRemove = wt.ProposalsToRemove
  BY <1>5 DEF Store
<1>10. QED
  BY Zenon, <1>3, <1>6, <1>7, <1>8, <1>9 DEF KeepsOrder, voters, CountsTo

\* One more vote is counted, once.
LEMMA CountKeeps ==
  ASSUME wt \in Store, NEW p \in ProposalIds, NEW voter \in Voters, NEW in_favor,
         NEW w \in Nat, IsInternal(p) => w = 1, voter \notin wt.Voters[p],
         wt.ProposalStatus[p] \notin Ended, CastOK(wt, cast),
         NEW t, t = count_vote(p, voter, in_favor, w)
  PROVE  CastOK(t, [cast EXCEPT ![p][voter] = @ + 1])
<1> DEFINE c == [cast EXCEPT ![p][voter] = @ + 1]
<1>1. /\ KeepsOrder(wt, t)
      /\ t.Voters = [wt.Voters EXCEPT ![p] = wt.Voters[p] \cup {voter}]
      /\ \A q \in ProposalIds : q # p => t.Votes[q] = wt.Votes[q]
      /\ t.Votes[p].in_favors + t.Votes[p].againsts =
           wt.Votes[p].in_favors + wt.Votes[p].againsts + w
  <2>1. CountsTo(wt, t, p, voter, w)
    BY Zenon, CountFields
  <2>2. QED
    BY Zenon, <2>1 DEF CountsTo
<1>2. t.ProposalStatus = wt.ProposalStatus
  BY Zenon, <1>1 DEF KeepsOrder
<1>3. cast \in [ProposalIds -> [Voters -> {0, 1}]]
  BY Zenon DEF CastOK
<1>4. cast[p][voter] = 0
  <2>1. cast[p][voter] \in {0, 1}
    BY <1>3
  <2>2. cast[p][voter] # 1
    BY Zenon DEF CastOK
  <2>3. QED
    BY <2>1, <2>2
<1>5. /\ c \in [ProposalIds -> [Voters -> {0, 1}]]
      /\ c[p][voter] = 1
      /\ \A v \in Voters : v # voter => c[p][v] = cast[p][v]
      /\ \A q \in ProposalIds : q # p => c[q] = cast[q]
  BY <1>3, <1>4
<1> HIDE DEF c
<1>6. /\ t.Voters[p] = wt.Voters[p] \cup {voter}
      /\ \A q \in ProposalIds : q # p => t.Voters[q] = wt.Voters[q]
  BY <1>1, StoreTypes
<1>7. \A q \in ProposalIds : t.ProposalStatus[q] \notin Ended =>
        \A v \in Voters : c[q][v] = 1 => v \in t.Voters[q]
  <2> SUFFICES ASSUME NEW q \in ProposalIds, wt.ProposalStatus[q] \notin Ended,
                      NEW v \in Voters, c[q][v] = 1
               PROVE  v \in t.Voters[q]
    BY Zenon, <1>2
  <2>1. v # voter \/ q # p => v \in wt.Voters[q]
    BY Zenon, <1>5 DEF CastOK
  <2>2. QED
    BY Zenon, <1>6, <2>1
<1>8. Cardinality(Counted(c, p)) = Cardinality(Counted(cast, p)) + 1
  <2>1. Counted(c, p) = Counted(cast, p) \cup {voter} /\ voter \notin Counted(cast, p)
    BY <1>4, <1>5 DEF Counted
  <2>2. IsFiniteSet(Counted(cast, p))
    BY Zenon, WatchtowerAssumption, FS_Subset DEF Counted
  <2>3. QED
    BY Zenon, <2>1, <2>2, FS_AddElement
<1>9. \A q \in Internal : t.ProposalStatus[q] \notin Ended =>
        t.Votes[q].in_favors + t.Votes[q].againsts = Cardinality(Counted(c, q))
  <2> SUFFICES ASSUME NEW q \in Internal, wt.ProposalStatus[q] \notin Ended
               PROVE  t.Votes[q].in_favors + t.Votes[q].againsts = Cardinality(Counted(c, q))
    BY Zenon, <1>2
  <2>1. /\ q \in ProposalIds /\ IsInternal(q)
        /\ wt.Votes[q].in_favors + wt.Votes[q].againsts = Cardinality(Counted(cast, q))
    BY Zenon DEF CastOK, Internal
  <2>2. CASE q = p
    <3>1. w = 1
      BY Zenon, <2>1, <2>2
    <3>2. t.Votes[p].in_favors + t.Votes[p].againsts = Cardinality(Counted(cast, p)) + 1
      BY Zenon, <1>1, <2>1, <2>2, <3>1
    <3>3. QED
      BY Zenon, <1>8, <2>2, <3>2
  <2>3. CASE q # p
    <3>1. Counted(c, q) = Counted(cast, q)
      BY Zenon, <1>5, <2>1, <2>3 DEF Counted
    <3>2. QED
      BY Zenon, <1>1, <2>1, <2>3, <3>1
  <2>4. QED
    BY Zenon, <2>2, <2>3
<1>10. QED
  BY Zenon, <1>5, <1>7, <1>9 DEF CastOK, c

\* Besides, only the data of proposals that are to be removed changes.
Cleans(s, t) ==
  /\ KeepsOrder(s, t)
  /\ \A q \in ProposalIds \ s.ProposalsToRemove :
       t.Votes[q] = s.Votes[q] /\ t.Voters[q] = s.Voters[q]

LEMMA CleansNothing ==
  ASSUME NEW s \in Store
  PROVE  Cleans(s, s)
BY Zenon DEF Cleans, KeepsOrder

LEMMA RemoveCleans ==
  ASSUME NEW s \in Store, NEW p \in s.ProposalsToRemove, NEW w, NEW t \in remove_one(s, p, w)
  PROVE  Cleans(s, t)
<1> DEFINE none == [in_favors |-> 0, againsts |-> 0]
           votes == [s.Votes EXCEPT ![p] = none]
           entries == [s.Proposals EXCEPT ![p] = None]
           rm == s.ProposalsToRemove \ {p}
           left == [s.Voters EXCEPT ![p] = {}]
<1>1. /\ p \in ProposalIds /\ s.ProposalsToRemove \subseteq ProposalIds
      /\ s.Votes \in [ProposalIds -> Tally] /\ s.Voters \in [ProposalIds -> SUBSET Voters]
      /\ s.Proposals \in [ProposalIds -> Nat \cup {None}]
  BY Zenon, StoreTypes
<1>2. PICK victims \in SUBSET s.Voters[p] :
        \/ t = [s EXCEPT !.Voters[p] = {}, !.Proposals[p] = None, !.Votes[p] = none,
                         !.ProposalsToRemove = @ \ {p}]
        \/ t = [s EXCEPT !.Voters[p] = @ \ victims]
  BY DEF remove_one
<1>3. CASE t = [s EXCEPT !.Voters[p] = {}, !.Proposals[p] = None, !.Votes[p] = none,
                         !.ProposalsToRemove = @ \ {p}]
  <2>1. t = [s EXCEPT !.Voters = left, !.Proposals = entries, !.Votes = votes,
                      !.ProposalsToRemove = rm]
    BY <1>3 DEF Store
  <2>2. votes \in [ProposalIds -> Tally]
    BY <1>1 DEF Tally
  <2>3. /\ left \in [ProposalIds -> SUBSET Voters]
        /\ entries \in [ProposalIds -> Nat \cup {None}]
        /\ rm \in SUBSET ProposalIds /\ rm \subseteq s.ProposalsToRemove
    BY <1>1
  <2>4. \A q \in ProposalIds \ s.ProposalsToRemove :
          votes[q] = s.Votes[q] /\ left[q] = s.Voters[q] /\ entries[q] = s.Proposals[q]
    BY <1>1
  <2> HIDE DEF votes, entries, rm, left
  <2>5. t \in Store
    BY Zenon, <2>1, <2>2, <2>3 DEF Store
  <2>6. /\ t.Voters = left /\ t.Votes = votes /\ t.Proposals = entries
        /\ t.ProposalStatus = s.ProposalStatus /\ t.ExternalRef = s.ExternalRef
        /\ t.ActiveInternalProposal = s.ActiveInternalProposal
        /\ t.InternalProposalQueue = s.InternalProposalQueue
        /\ t.Head = s.Head /\ t.Tail = s.Tail /\ t.root = s.root
        /\ t.ProposalsToRemove = rm
    BY <2>1 DEF Store
  <2>7. QED
    BY Zenon, <2>3, <2>4, <2>5, <2>6 DEF Cleans, KeepsOrder
<1>4. CASE t = [s EXCEPT !.Voters[p] = @ \ victims]
  <2> DEFINE fewer == [s.Voters EXCEPT ![p] = s.Voters[p] \ victims]
  <2>1. t = [s EXCEPT !.Voters = fewer]
    BY <1>4 DEF Store
  <2>2. fewer \in [ProposalIds -> SUBSET Voters]
    BY <1>1
  <2>3. \A q \in ProposalIds \ s.ProposalsToRemove : fewer[q] = s.Voters[q]
    BY <1>1
  <2> HIDE DEF fewer
  <2>4. t \in Store
    BY Zenon, <2>1, <2>2 DEF Store
  <2>5. /\ t.Voters = fewer /\ t.Votes = s.Votes /\ t.Proposals = s.Proposals
        /\ t.ProposalStatus = s.ProposalStatus /\ t.ExternalRef = s.ExternalRef
        /\ t.ActiveInternalProposal = s.ActiveInternalProposal
        /\ t.InternalProposalQueue = s.InternalProposalQueue
        /\ t.Head = s.Head /\ t.Tail = s.Tail /\ t.root = s.root
        /\ t.ProposalsToRemove = s.ProposalsToRemove
    BY <2>1 DEF Store
  <2>6. QED
    BY Zenon, <2>3, <2>4, <2>5 DEF Cleans, KeepsOrder
<1>5. QED
  BY Zenon, <1>2, <1>3, <1>4

LEMMA CompletedCleans ==
  ASSUME NEW s \in Store, NEW w, NEW t \in cleanup_completed(s, w)
  PROVE  Cleans(s, t)
<1>1. t = s \/ \E p \in s.ProposalsToRemove : t \in remove_one(s, p, w - 1)
  BY Zenon DEF cleanup_completed
<1>2. QED
  BY Zenon, <1>1, RemoveCleans, CleansNothing

\* One block passes.
LEMMA TickFields ==
  ASSUME NEW s \in Store, NEW t,
         t = [s EXCEPT !.Proposals = [p \in ProposalIds |-> Tick(s.Proposals[p])]]
  PROVE  Cleans(s, t) /\ t.Votes = s.Votes
<1> DEFINE entries == [p \in ProposalIds |-> Tick(s.Proposals[p])]
<1>1. s.Proposals \in [ProposalIds -> Nat \cup {None}]
  BY Zenon, StoreTypes
<1>2. \A p \in ProposalIds :
        /\ Tick(s.Proposals[p]) \in Nat \cup {None}
        /\ s.Proposals[p] # None => Tick(s.Proposals[p]) # None
  BY <1>1, WatchtowerAssumption DEF Tick
<1>3. /\ entries \in [ProposalIds -> Nat \cup {None}]
      /\ \A p \in ProposalIds : s.Proposals[p] # None => entries[p] # None
  BY Zenon, <1>2
<1> HIDE DEF entries
<1>4. t = [s EXCEPT !.Proposals = entries]
  BY DEF entries
<1>5. t \in Store
  BY Zenon, <1>3, <1>4 DEF Store
<1>6. /\ t.Voters = s.Voters /\ t.Votes = s.Votes /\ t.Proposals = entries
      /\ t.ProposalStatus = s.ProposalStatus /\ t.ExternalRef = s.ExternalRef
      /\ t.ActiveInternalProposal = s.ActiveInternalProposal
      /\ t.InternalProposalQueue = s.InternalProposalQueue
      /\ t.Head = s.Head /\ t.Tail = s.Tail /\ t.root = s.root
      /\ t.ProposalsToRemove = s.ProposalsToRemove
  BY <1>4 DEF Store
<1>7. QED
  BY Zenon, <1>3, <1>5, <1>6 DEF Cleans, KeepsOrder

LEMMA SettingFields ==
  ASSUME NEW s \in Store, NEW setting \in Settings, NEW t,
         t = [s EXCEPT ![setting.field] = setting.value]
  PROVE  Cleans(s, t)
<1>1. \/ setting.field = "MinVotingPeriod" /\ setting.value \in Nat
      \/ setting.field = "AdminAccount" /\ setting.value \in Voters
  BY WatchtowerAssumption
<1>2. CASE setting.field = "MinVotingPeriod" /\ setting.value \in Nat
  <2>1. t = [s EXCEPT !.MinVotingPeriod = setting.value]
    BY Zenon, <1>2
  <2>2. t \in Store
    BY Zenon, <1>2, <2>1 DEF Store
  <2>3. QED
    BY Zenon, <2>1, <2>2 DEF Cleans, KeepsOrder, Store
<1>3. CASE setting.field = "AdminAccount" /\ setting.value \in Voters
  <2>1. t = [s EXCEPT !.AdminAccount = setting.value]
    BY Zenon, <1>3
  <2>2. t \in Store
    BY Zenon, <1>3, <2>1 DEF Store
  <2>3. QED
    BY Zenon, <2>1, <2>2 DEF Cleans, KeepsOrder, Store
<1>4. QED
  BY Zenon, <1>1, <1>2, <1>3

CleanKept(s, t) ==
  /\ StoreInv(t) /\ t.ProposalStatus = s.ProposalStatus
  /\ \A q, st : StartedBy(q, t, st) = StartedBy(q, s, st)
  /\ \A acc, st : OrderOK(s, acc, st) => OrderOK(t, acc, st)
  /\ \A c : CastOK(s, c) => CastOK(t, c)

LEMMA CleansKeeps ==
  ASSUME NEW s, StoreInv(s), NEW t, Cleans(s, t)
  PROVE  CleanKept(s, t)
<1>1. KeepsOrder(s, t) /\ StatusOK(s) /\ t.ProposalStatus = s.ProposalStatus
  BY Zenon DEF Cleans, KeepsOrder, StoreInv
<1>2. \A q \in ProposalIds : t.ProposalStatus[q] \notin Ended =>
        /\ s.ProposalStatus[q] \notin Ended
        /\ t.Votes[q] = s.Votes[q] /\ t.Voters[q] = s.Voters[q]
  BY Zenon, <1>1 DEF Cleans, StatusOK
<1>3. ASSUME NEW c, CastOK(s, c)
      PROVE  CastOK(t, c)
  <2>1. Internal \subseteq ProposalIds
    BY Zenon DEF Internal
  <2>2. QED
    BY Zenon, <1>2, <1>3, <2>1 DEF CastOK
<1>4. \A q, st : StartedBy(q, t, st) = StartedBy(q, s, st)
  BY Zenon, <1>1 DEF KeepsOrder, StartedBy
<1>5. StoreInv(t) /\ \A acc, st : OrderOK(s, acc, st) => OrderOK(t, acc, st)
  BY Zenon, <1>1, KeepsOrderKeeps
<1>6. QED
  BY Zenon, <1>1, <1>3, <1>4, <1>5 DEF CleanKept

-----------------------------------------------------------------------------
(* What a decision takes *)

LEMMA MulCeil ==
  ASSUME NEW x \in Nat, NEW v \in Nat, (x + 99) \div 100 <= v
  PROVE  100 * v >= x
OBVIOUS

\* The votes v are enough for the proposal p of s to pass.
Earned(s, v, p, total) ==
  \/ total > 0 /\ 100 * v.in_favors >= Request[p].threshold * total
  \/ ~ IsInternal(p) /\ s.Proposals[p] = 0 /\ v.in_favors > v.againsts

\* From s to t nothing that ended changes, and what passes has earned it.
Decides(s, t, total) ==
  \A q \in ProposalIds :
    /\ s.ProposalStatus[q] \in Ended => t.ProposalStatus[q] = s.ProposalStatus[q]
    /\ s.ProposalStatus[q] # "passed" /\ t.ProposalStatus[q] = "passed" =>
         Earned(s, t.Votes[q], q, total)

LEMMA SameDecides ==
  ASSUME NEW s, NEW t, t.ProposalStatus = s.ProposalStatus, NEW total
  PROVE  Decides(s, t, total)
BY Zenon DEF Decides

LEMMA EndDecides ==
  ASSUME NEW s0, NEW s, s.ProposalStatus = s0.ProposalStatus, NEW p \in ProposalIds,
         s.ProposalStatus[p] = "Active", NEW result \in Ended, NEW t,
         OnlyEnds(s, t, p, result), t.Votes = s.Votes, NEW total,
         result = "passed" => Earned(s0, s.Votes[p], p, total)
  PROVE  Decides(s0, t, total)
<1> SUFFICES ASSUME NEW q \in ProposalIds
             PROVE  /\ s0.ProposalStatus[q] \in Ended => t.ProposalStatus[q] = s0.ProposalStatus[q]
                    /\ s0.ProposalStatus[q] # "passed" /\ t.ProposalStatus[q] = "passed" =>
                         Earned(s0, t.Votes[q], q, total)
  BY Zenon DEF Decides
<1>1. CASE q = p
  <2>1. s0.ProposalStatus[q] \notin Ended /\ t.ProposalStatus[q] = result
    BY <1>1 DEF Ended, OnlyEnds
  <2>2. QED
    BY Zenon, <1>1, <2>1
<1>2. CASE q # p
  <2>1. \/ t.ProposalStatus[q] = s0.ProposalStatus[q]
        \/ s0.ProposalStatus[q] = "Queued" /\ t.ProposalStatus[q] = "Active"
    BY Zenon, <1>2 DEF OnlyEnds
  <2>2. QED
    BY <2>1 DEF Ended
<1>3. QED
  BY Zenon, <1>1, <1>2

\* finalise_voting, for a proposal that is active in s.
EndKept(s, t, p, result) ==
  /\ StoreInv(t) /\ OnlyEnds(s, t, p, result) /\ t.Votes = s.Votes
  /\ \A acc, st : OrderOK(s, acc, st) => OrderOK(t, acc, StartedBy(s, t, st))
  /\ \A c : CastOK(s, c) => CastOK(t, c)

LEMMA FinaliseKeeps ==
  ASSUME NEW s, StoreInv(s), NEW p \in ProposalIds, s.ProposalStatus[p] = "Active",
         NEW result \in Ended, NEW t, t = finalise_voting(s, p, result).s
  PROVE  EndKept(s, t, p, result)
<1>1. s \in Store /\ StatusOK(s) /\ RingOK(s)
  BY Zenon DEF StoreInv
<1>2. can_dequeue(s) => s.Proposals[front(s)] # None
  <2> SUFFICES ASSUME can_dequeue(s)
               PROVE  s.Proposals[front(s)] # None
    OBVIOUS
  <2>1. s.Head \in Places(s)
    BY <1>1, RingTypes DEF RingOK, Places, can_dequeue, is_empty, len
  <2>2. s.ProposalStatus[front(s)] = "Queued" /\ front(s) \in ProposalIds
    BY Zenon, <1>1, <2>1, PlaceTypes DEF RingOK, front, Place
  <2>3. QED
    BY Zenon, <1>1, <2>2 DEF StatusOK
<1>3. EndsVote(s, t, p, result)
  BY Zenon, <1>1, <1>2, FinaliseEnds
<1>4. /\ StoreInv(t) /\ OnlyEnds(s, t, p, result)
      /\ \A acc, st : OrderOK(s, acc, st) => OrderOK(t, acc, StartedBy(s, t, st))
  BY Zenon, <1>3, EndKeeps
<1>5. t.Votes = s.Votes /\ t.Voters = s.Voters
  BY Zenon, <1>3 DEF EndsVote, Untouched
<1>6. \A q \in ProposalIds : t.ProposalStatus[q] \notin Ended => s.ProposalStatus[q] \notin Ended
  BY <1>4 DEF OnlyEnds, Ended
<1>7. \A c : CastOK(s, c) => CastOK(t, c)
  BY Zenon, <1>5, <1>6, CastKept
<1>8. QED
  BY Zenon, <1>4, <1>5, <1>7 DEF EndKept

LEMMA ExpiryResult ==
  ASSUME NEW s \in Store, NEW p \in ProposalIds, NEW total
  PROVE  /\ get_vote_result_on_expiry(s, p) \in Ended
         /\ get_vote_result_on_expiry(s, p) = "passed" /\ s.Proposals[p] = 0 =>
              Earned(s, s.Votes[p], p, total)
         /\ IsInternal(p) => get_vote_result_on_expiry(s, p) = "Expired"
BY DEF get_vote_result_on_expiry, Ended, Earned

LEMMA ThresholdResult ==
  ASSUME NEW s \in Store, NEW p \in ProposalIds, NodesType, threshold_achieved(s, p) # None, NEW s0
  PROVE  /\ threshold_achieved(s, p) \in Ended
         /\ threshold_achieved(s, p) = "passed" =>
              Earned(s0, s.Votes[p], p, nodes.TotalRegisteredNodes)
<1> DEFINE total == nodes.TotalRegisteredNodes
           v == s.Votes[p].in_favors
           x == Request[p].threshold * total
<1>1. total \in Nat /\ v \in Nat
  BY StoreTypes DEF NodesType, Tally
<1>2. x \in Nat
  BY <1>1, WatchtowerAssumption
<1>3. threshold_achieved(s, p) \in {"passed", "rejected"}
  BY DEF threshold_achieved
<1>4. threshold_achieved(s, p) = "passed" => total # 0 /\ v >= (x + 99) \div 100
  BY WatchtowerAssumption DEF threshold_achieved, mul_ceil, get_authorized_watchtowers_count
<1> HIDE DEF x
<1>5. v >= (x + 99) \div 100 => 100 * v >= x
  BY <1>1, <1>2, MulCeil
<1>6. total # 0 => total > 0
  BY <1>1
<1>7. QED
  BY Zenon, <1>3, <1>4, <1>5, <1>6 DEF Earned, x, Ended

-----------------------------------------------------------------------------
(* The steps *)

\* The step keeps the invariant, and what it decides is sound.
Keeps == WatchtowerInv' /\ Decides(wt, wt', nodes.TotalRegisteredNodes)

LEMMA CommitStarts ==
  ASSUME NEW t, Commit(t)
  PROVE  wt' = t /\ started' = StartedBy(wt, wt', started)
BY Zenon DEF Commit, Started, StartedBy

LEMMA AddStep ==
  ASSUME WatchtowerInv, NEW p \in ProposalIds, add_proposal(p)
  PROVE  Keeps
<1>1. StoreInv(wt) /\ wt \in Store /\ StatusOK(wt)
  BY Zenon DEF WatchtowerInv, StoreInv
<1>2. to_proposal(p) \in Nat
  BY <1>1, WatchtowerAssumption DEF to_proposal, Store
<1>3. /\ insert_proposal(p, to_proposal(p)).ok
      /\ Commit(insert_proposal(p, to_proposal(p)).s)
  BY Zenon DEF add_proposal
<1>4. wt' = insert_proposal(p, to_proposal(p)).s /\ started' = StartedBy(wt, wt', started)
  BY Zenon, <1>3, CommitStarts
<1>5. wt.ProposalStatus[p] = "Unknown"
  BY Zenon, <1>1 DEF add_proposal, is_new, StatusOK
<1>6. Inserts(wt, wt', p)
  BY Zenon, <1>1, <1>2, <1>3, <1>4, InsertFields
<1>7. /\ accepted' = IF IsInternal(p) THEN Append(accepted, p) ELSE accepted
      /\ nodes' = nodes /\ pool' = pool /\ cast' = cast
  BY DEF add_proposal
<1>8. OrderOK(wt, accepted, started) /\ CastOK(wt, cast) /\ NodesType /\ PoolType
  BY Zenon DEF WatchtowerInv
<1>9. StoreInv(wt') /\ OrderOK(wt', accepted', started')
  <2>1. CASE ~ IsInternal(p)
    <3>1. accepted' = accepted
      BY <1>7, <2>1
    <3>2. QED
      BY Zenon, <1>1, <1>4, <1>5, <1>6, <1>8, <2>1, <3>1, InsertExternalKeeps
  <2>2. CASE IsInternal(p)
    <3>1. accepted' = Append(accepted, p)
      BY <1>7, <2>2
    <3>2. CASE wt.ActiveInternalProposal = None
      BY Zenon, <1>1, <1>4, <1>5, <1>6, <1>8, <2>2, <3>1, <3>2, InsertActiveKeeps
    <3>3. CASE wt.ActiveInternalProposal # None
      BY Zenon, <1>1, <1>4, <1>5, <1>6, <1>8, <2>2, <3>1, <3>3, InsertQueuedKeeps
    <3>4. QED
      BY Zenon, <3>2, <3>3
  <2>3. QED
    BY Zenon, <2>1, <2>2
<1>10. /\ wt'.ProposalStatus[p] \in {"Active", "Queued"}
       /\ \A q \in ProposalIds : q # p => wt'.ProposalStatus[q] = wt.ProposalStatus[q]
  <2>1. NewStatus(wt, wt', p)
    BY Zenon, <1>1, <1>5, <1>6, InsertStatus
  <2>2. QED
    BY Zenon, <2>1 DEF NewStatus
<1>11. CastOK(wt', cast')
  <2>1. wt.ProposalStatus[p] \notin Ended
    BY <1>5 DEF Ended
  <2>2. wt'.Votes = wt.Votes /\ wt'.Voters = wt.Voters
    BY Zenon, <1>6 DEF Inserts
  <2>3. \A q \in ProposalIds : wt'.ProposalStatus[q] \notin Ended => wt.ProposalStatus[q] \notin Ended
    BY Zenon, <1>10, <2>1
  <2>4. CastOK(wt', cast)
    BY Zenon, <1>8, <2>2, <2>3, CastKept
  <2>5. QED
    BY Zenon, <1>7, <2>4
<1>12. Decides(wt, wt', nodes.TotalRegisteredNodes)
  BY <1>5, <1>10 DEF Decides, Ended
<1>13. NodesType' /\ PoolType'
  BY <1>7, <1>8 DEF NodesType, PoolType
<1>14. QED
  BY Zenon, <1>9, <1>11, <1>12, <1>13 DEF Keeps, WatchtowerInv

\* The end of a vote by a call.
LEMMA ExpiryStep ==
  ASSUME WatchtowerInv, NEW p \in ProposalIds, wt.ProposalStatus[p] = "Active",
         proposal_expired(wt, p), Commit(finalise_expired_voting(wt, p).s)
  PROVE  /\ StoreInv(wt') /\ OrderOK(wt', accepted, started') /\ CastOK(wt', cast)
         /\ Decides(wt, wt', nodes.TotalRegisteredNodes)
<1> DEFINE result == get_vote_result_on_expiry(wt, p)
           total == nodes.TotalRegisteredNodes
<1>1. /\ StoreInv(wt) /\ wt \in Store
      /\ OrderOK(wt, accepted, started) /\ CastOK(wt, cast)
  BY Zenon DEF WatchtowerInv, StoreInv
<1>2. result \in Ended /\ (result = "passed" => Earned(wt, wt.Votes[p], p, total))
  BY Zenon, <1>1, ExpiryResult DEF proposal_expired
<1>3. wt' = finalise_voting(wt, p, result).s /\ started' = StartedBy(wt, wt', started)
  BY Zenon, CommitStarts DEF finalise_expired_voting
<1> HIDE DEF result
<1>a. EndKept(wt, wt', p, result)
  BY Zenon, <1>1, <1>2, <1>3, FinaliseKeeps
<1>4. /\ StoreInv(wt') /\ OnlyEnds(wt, wt', p, result) /\ wt'.Votes = wt.Votes
      /\ OrderOK(wt', accepted, StartedBy(wt, wt', started)) /\ CastOK(wt', cast)
  BY Zenon, <1>1, <1>a DEF EndKept
<1>5. Decides(wt, wt', total)
  BY Zenon, <1>2, <1>4, EndDecides
<1>6. QED
  BY Zenon, <1>3, <1>4, <1>5

\* A vote that counts.
LEMMA CountStep ==
  ASSUME WatchtowerInv, NEW p \in ProposalIds, NEW voter \in Voters, NEW in_favor,
         wt.ProposalStatus[p] = "Active", may_vote(p, voter),
         Commit(settle_vote(count_vote(p, voter, in_favor, vote_weight(p, voter)), p).s),
         cast' = [cast EXCEPT ![p][voter] = @ + 1]
  PROVE  /\ StoreInv(wt') /\ OrderOK(wt', accepted, started') /\ CastOK(wt', cast')
         /\ Decides(wt, wt', nodes.TotalRegisteredNodes)
<1> DEFINE w == vote_weight(p, voter)
           s == count_vote(p, voter, in_favor, w)
           result == threshold_achieved(s, p)
           total == nodes.TotalRegisteredNodes
<1>1. /\ StoreInv(wt) /\ wt \in Store /\ NodesType
      /\ OrderOK(wt, accepted, started) /\ CastOK(wt, cast)
  BY Zenon DEF WatchtowerInv, StoreInv
<1>2. w \in Nat /\ (IsInternal(p) => w = 1) /\ voter \notin wt.Voters[p]
  <2>1. w > 0 /\ voter \notin wt.Voters[p]
    BY Zenon DEF may_vote
  <2>2. CASE IsInternal(p)
    BY <2>1, <2>2 DEF vote_weight
  <2>3. CASE ~ IsInternal(p) /\ ~ is_watchtower_owner(nodes, voter)
    BY <2>1, <2>3 DEF vote_weight
  <2>4. CASE ~ IsInternal(p) /\ is_watchtower_owner(nodes, voter)
    <3>1. w = nodes.OwnedNodesCount[voter]
      BY <2>4 DEF vote_weight, get_watchtower_voting_weight
    <3>2. voter \in Owners
      BY <1>1, <2>4 DEF is_watchtower_owner, NodesType
    <3>3. QED
      BY <1>1, <2>1, <2>4, <3>1, <3>2 DEF NodesType
  <2>5. QED
    BY Zenon, <2>1, <2>2, <2>3, <2>4
<1> HIDE DEF w
<1>a. CountsTo(wt, s, p, voter, w)
  BY Zenon, <1>1, <1>2, CountFields
<1>3. KeepsOrder(wt, s)
  BY Zenon, <1>a DEF CountsTo
<1>4. wt.ProposalStatus[p] \notin Ended
  BY DEF Ended
<1>5. CastOK(s, cast')
  BY Zenon, <1>1, <1>2, <1>4, CountKeeps
<1>6. wt' = settle_vote(s, p).s /\ started' = StartedBy(wt, wt', started)
  BY Zenon, CommitStarts DEF w
<1> HIDE DEF s
<1>7. /\ StoreInv(s) /\ OrderOK(s, accepted, started)
      /\ s \in Store /\ s.ProposalStatus = wt.ProposalStatus
      /\ s.ActiveInternalProposal = wt.ActiveInternalProposal
  BY Zenon, <1>1, <1>3, KeepsOrderKeeps DEF KeepsOrder
<1>8. \A t : StartedBy(wt, t, started) = StartedBy(s, t, started)
  BY Zenon, <1>7 DEF StartedBy
<1>9. CASE result = None
  <2>1. wt' = s
    BY <1>6, <1>9 DEF settle_vote
  <2>2. started' = started
    BY <1>6, <1>7, <2>1 DEF StartedBy
  <2>3. Decides(wt, wt', total)
    BY Zenon, <1>7, <2>1, SameDecides
  <2>4. QED
    BY Zenon, <1>5, <1>7, <2>1, <2>2, <2>3
<1>10. CASE result # None
  <2>1. result \in Ended /\ (result = "passed" => Earned(wt, s.Votes[p], p, total))
    BY Zenon, <1>1, <1>7, <1>10, ThresholdResult
  <2>2. wt' = finalise_voting(s, p, result).s
    BY Zenon, <1>6, <1>10 DEF settle_vote
  <2>3. s.ProposalStatus[p] = "Active"
    BY Zenon, <1>7
  <2> HIDE DEF result
  <2>a. EndKept(s, wt', p, result)
    BY Zenon, <1>7, <2>1, <2>2, <2>3, FinaliseKeeps
  <2>4. /\ StoreInv(wt') /\ OnlyEnds(s, wt', p, result) /\ wt'.Votes = s.Votes
        /\ OrderOK(wt', accepted, StartedBy(s, wt', started)) /\ CastOK(wt', cast')
    BY Zenon, <1>5, <1>7, <2>a DEF EndKept
  <2>5. Decides(wt, wt', total)
    BY Zenon, <1>7, <2>1, <2>3, <2>4, EndDecides
  <2>6. QED
    BY Zenon, <1>6, <1>8, <2>4, <2>5
<1>11. QED
  BY Zenon, <1>9, <1>10

LEMMA VoteStep ==
  ASSUME WatchtowerInv, NEW p \in ProposalIds, NEW voter \in Voters, NEW in_favor,
         process_vote(p, voter, in_favor), nodes' = nodes, accepted' = accepted, PoolType'
  PROVE  Keeps
<1>1. wt.ProposalStatus[p] = "Active"
  BY Zenon DEF process_vote
<1>2. NodesType'
  BY DEF WatchtowerInv, NodesType
<1>3. /\ StoreInv(wt') /\ OrderOK(wt', accepted, started') /\ CastOK(wt', cast')
      /\ Decides(wt, wt', nodes.TotalRegisteredNodes)
  <2>1. CASE proposal_expired(wt, p)
    <3>1. Commit(finalise_expired_voting(wt, p).s) /\ cast' = cast
      BY Zenon, <2>1 DEF process_vote
    <3>2. QED
      BY Zenon, <1>1, <2>1, <3>1, ExpiryStep
  <2>2. CASE ~ proposal_expired(wt, p)
    <3>1. /\ may_vote(p, voter)
          /\ Commit(settle_vote(count_vote(p, voter, in_favor, vote_weight(p, voter)), p).s)
          /\ cast' = [cast EXCEPT ![p][voter] = @ + 1]
      BY Zenon, <2>2 DEF process_vote
    <3>2. QED
      BY Zenon, <1>1, <3>1, CountStep
  <2>3. QED
    BY Zenon, <2>1, <2>2
<1>4. QED
  BY Zenon, <1>2, <1>3 DEF Keeps, WatchtowerInv

LEMMA FinaliseStep ==
  ASSUME WatchtowerInv, NEW p \in ProposalIds, finalise_proposal(p)
  PROVE  Keeps
<1>1. /\ wt.ProposalStatus[p] = "Active" /\ proposal_expired(wt, p)
      /\ Commit(finalise_expired_voting(wt, p).s)
  BY Zenon DEF finalise_proposal, may_finalise
<1>2. nodes' = nodes /\ pool' = pool /\ cast' = cast /\ accepted' = accepted
  BY DEF finalise_proposal
<1>3. NodesType' /\ PoolType'
  BY <1>2 DEF WatchtowerInv, NodesType, PoolType
<1>4. QED
  BY Zenon, <1>1, <1>2, <1>3, ExpiryStep DEF Keeps, WatchtowerInv

\* A step that changes neither the proposals nor the histories.
LEMMA OtherStep ==
  ASSUME WatchtowerInv, NodesType', PoolType', Cleans(wt, wt'),
         started' = started, accepted' = accepted, cast' = cast
  PROVE  Keeps
<1>1. StoreInv(wt) /\ OrderOK(wt, accepted, started) /\ CastOK(wt, cast)
  BY Zenon DEF WatchtowerInv
<1>2. /\ StoreInv(wt') /\ wt'.ProposalStatus = wt.ProposalStatus
      /\ OrderOK(wt', accepted, started) /\ CastOK(wt', cast)
  BY Zenon, <1>1, CleansKeeps DEF CleanKept
<1>3. Decides(wt, wt', nodes.TotalRegisteredNodes)
  BY Zenon, <1>2, SameDecides
<1>4. QED
  BY Zenon, <1>2, <1>3 DEF Keeps, WatchtowerInv

LEMMA SettingStep ==
  ASSUME WatchtowerInv, NEW s \in Settings, set_admin_config(s.field, s.value)
  PROVE  Keeps
<1>1. /\ wt' = [wt EXCEPT ![s.field] = s.value]
      /\ nodes' = nodes /\ pool' = pool
      /\ started' = started /\ accepted' = accepted /\ cast' = cast
  BY DEF set_admin_config, history
<1>2. NodesType' /\ PoolType'
  BY <1>1 DEF WatchtowerInv, NodesType, PoolType
<1>3. Cleans(wt, wt')
  BY Zenon, <1>1, SettingFields DEF WatchtowerInv, StoreInv
<1>4. QED
  BY Zenon, <1>1, <1>2, <1>3, OtherStep

LEMMA NodesStep ==
  ASSUME WatchtowerInv, NEW new, ChangeNodes(new), NodesType'
  PROVE  Keeps
<1>1. /\ wt' = wt /\ pool' = pool
      /\ started' = started /\ accepted' = accepted /\ cast' = cast
  BY DEF ChangeNodes, history
<1>2. PoolType'
  BY <1>1 DEF WatchtowerInv, PoolType
<1>3. Cleans(wt, wt')
  BY Zenon, <1>1, CleansNothing DEF WatchtowerInv, StoreInv
<1>4. QED
  BY Zenon, <1>1, <1>2, <1>3, OtherStep

LEMMA RegisterStep ==
  ASSUME WatchtowerInv, NEW r \in Registrations, register_node(r[1], r[2])
  PROVE  Keeps
<1>1. /\ ChangeNodes(do_register_node(nodes, r[1], r[2], KeyOf[r[1]]))
      /\ nodes' = do_register_node(nodes, r[1], r[2], KeyOf[r[1]])
  BY Zenon DEF register_node, ChangeNodes
<1>2. r[1] \in Nodes /\ r[2] \in Owners /\ NodesType
  BY Zenon, WatchtowerAssumption DEF WatchtowerInv
<1>3. /\ nodes'.OwnedNodes = nodes.OwnedNodes \cup {<<r[2], r[1]>>}
      /\ nodes'.OwnedNodesCount = [nodes.OwnedNodesCount EXCEPT ![r[2]] = @ + 1]
      /\ nodes'.TotalRegisteredNodes = nodes.TotalRegisteredNodes + 1
  BY <1>1 DEF do_register_node
<1>4. NodesType'
  BY <1>2, <1>3 DEF NodesType
<1>5. QED
  BY Zenon, <1>1, <1>4, NodesStep

LEMMA DeregisterStep ==
  ASSUME WatchtowerInv, NEW owner, NEW node, deregister_nodes(owner, <<node>>)
  PROVE  Keeps
<1>1. /\ ChangeNodes(do_deregister_nodes(nodes, owner, <<node>>))
      /\ nodes' = do_deregister_nodes(nodes, owner, <<node>>)
  BY Zenon DEF deregister_nodes, ChangeNodes
<1>2. NodesType
  BY Zenon DEF WatchtowerInv
<1>3. /\ nodes'.OwnedNodes \subseteq nodes.OwnedNodes
      /\ nodes'.OwnedNodesCount =
           [nodes.OwnedNodesCount EXCEPT ![owner] = SatSub(@, Len(<<node>>))]
      /\ nodes'.TotalRegisteredNodes = SatSub(nodes.TotalRegisteredNodes, Len(<<node>>))
  BY Zenon, <1>1 DEF do_deregister_nodes
<1>4. \A n \in Nat : SatSub(n, Len(<<node>>)) \in Nat
  BY DEF SatSub
<1>5. NodesType'
  <2>1. nodes.OwnedNodesCount \in [Owners -> Nat] /\ nodes.TotalRegisteredNodes \in Nat
        /\ nodes.OwnedNodes \subseteq Owners \X Nodes
    BY Zenon, <1>2 DEF NodesType
  <2>2. owner \in Owners => SatSub(nodes.OwnedNodesCount[owner], Len(<<node>>)) \in Nat
    BY Zenon, <1>4, <2>1
  <2>3. nodes'.OwnedNodesCount \in [Owners -> Nat]
    BY Zenon, <1>3, <2>1, <2>2, ExceptType
  <2>4. nodes'.TotalRegisteredNodes \in Nat
    BY Zenon, <1>3, <1>4, <2>1
  <2>5. nodes'.OwnedNodes \subseteq Owners \X Nodes
    BY Zenon, <1>3, <2>1
  <2>6. QED
    BY Zenon, <2>3, <2>4, <2>5 DEF NodesType
<1>6. QED
  BY Zenon, <1>1, <1>5, NodesStep

LEMMA WorkerStep ==
  ASSUME WatchtowerInv, NEW w \in Workers, offchain_worker(w), UNCHANGED <<changes, history>>
  PROVE  Keeps
<1>1. /\ wt' = wt /\ nodes' = nodes
      /\ started' = started /\ accepted' = accepted /\ cast' = cast
  BY DEF offchain_worker, history
<1>2. NodesType' /\ wt \in Store /\ PoolType
  BY Zenon, <1>1 DEF WatchtowerInv, NodesType, StoreInv
<1>3. wt.root \in ProposalIds /\ w \in Nodes
  BY <1>2, StoreTypes, WatchtowerAssumption DEF offchain_worker
<1>4. PoolType'
  <2>1. \/ pool' = pool
        \/ \E in_favor : pool' = pool \cup
             {[watchtower |-> w, proposal |-> wt.root, in_favor |-> in_favor,
               key |-> get_node_signing_key(nodes, w)]}
    BY Zenon DEF offchain_worker, process_pending_validation, submit_vote
  <2>2. QED
    BY <1>2, <1>3, <2>1 DEF PoolType
<1>5. Cleans(wt, wt')
  BY Zenon, <1>1, <1>2, CleansNothing
<1>6. QED
  BY Zenon, <1>1, <1>2, <1>4, <1>5, OtherStep

LEMMA LoseStep ==
  ASSUME WatchtowerInv, NEW tx, Lose(tx), UNCHANGED <<changes, history>>
  PROVE  Keeps
<1>1. /\ wt' = wt /\ nodes' = nodes /\ pool' = pool \ {tx}
      /\ started' = started /\ accepted' = accepted /\ cast' = cast
  BY DEF Lose, history
<1>2. NodesType' /\ PoolType' /\ wt \in Store
  BY Zenon, <1>1 DEF WatchtowerInv, NodesType, PoolType, StoreInv
<1>3. Cleans(wt, wt')
  BY Zenon, <1>1, <1>2, CleansNothing
<1>4. QED
  BY Zenon, <1>1, <1>2, <1>3, OtherStep

\* on_idle: nothing, or the end of the active proposal; then the cleaning and
\* the next block.
LEMMA IdleStep ==
  ASSUME WatchtowerInv, NEW w, on_idle(w)
  PROVE  Keeps
<1> DEFINE p == wt.ActiveInternalProposal
           e == finalise_expired_voting(wt, p).s
<1>1. /\ StoreInv(wt) /\ wt \in Store /\ StatusOK(wt)
      /\ OrderOK(wt, accepted, started) /\ CastOK(wt, cast)
  BY Zenon DEF WatchtowerInv, StoreInv
<1>2. nodes' = nodes /\ pool' = pool /\ cast' = cast /\ accepted' = accepted
  BY DEF on_idle
<1>3. NodesType' /\ PoolType'
  BY <1>2 DEF WatchtowerInv, NodesType, PoolType
<1>4. PICK t \in cleanup_proposals(wt, w) :
        /\ wt' = [t EXCEPT !.Proposals = [q \in ProposalIds |-> Tick(t.Proposals[q])]]
        /\ started' = StartedBy(wt, t, started)
  BY Zenon DEF on_idle, Started, StartedBy
<1>5. ASSUME NEW s, StoreInv(s), OrderOK(s, accepted, StartedBy(wt, s, started)), CastOK(s, cast),
             Cleans(s, t),
             \A q \in ProposalIds :
               /\ wt.ProposalStatus[q] \in Ended => s.ProposalStatus[q] = wt.ProposalStatus[q]
               /\ s.ProposalStatus[q] = "passed" => wt.ProposalStatus[q] = "passed"
      PROVE  Keeps
  <2>a. CleanKept(s, t)
    BY Zenon, <1>5, CleansKeeps
  <2>1. /\ StoreInv(t) /\ t.ProposalStatus = s.ProposalStatus
        /\ StartedBy(wt, t, started) = StartedBy(wt, s, started)
        /\ CastOK(t, cast)
    BY Zenon, <1>5, <2>a DEF CleanKept
  <2>2. OrderOK(t, accepted, StartedBy(wt, s, started))
    BY Zenon, <1>5, <2>a DEF CleanKept
  <2>3. Cleans(t, wt')
    BY Zenon, <1>4, <2>1, TickFields DEF StoreInv
  <2>b. CleanKept(t, wt')
    BY Zenon, <2>1, <2>3, CleansKeeps
  <2>4. /\ StoreInv(wt') /\ wt'.ProposalStatus = t.ProposalStatus
        /\ OrderOK(wt', accepted, StartedBy(wt, s, started)) /\ CastOK(wt', cast)
    BY Zenon, <2>1, <2>2, <2>b DEF CleanKept
  <2>5. Decides(wt, wt', nodes.TotalRegisteredNodes)
    BY Zenon, <1>5, <2>1, <2>4 DEF Decides
  <2>6. QED
    BY Zenon, <1>2, <1>3, <1>4, <2>1, <2>4, <2>5 DEF Keeps, WatchtowerInv
<1>6. \/ Cleans(wt, t)
      \/ /\ active_proposal_expiry_status(wt) = "expired"
         /\ \E v : t \in cleanup_completed(e, v)
  <2>1. \/ t = wt
        \/ \E v : t \in cleanup_completed(wt, v)
        \/ /\ active_proposal_expiry_status(wt) = "expired"
           /\ \E v : t \in cleanup_completed(e, v)
    BY Zenon, <1>4 DEF cleanup_proposals
  <2>2. QED
    BY Zenon, <1>1, <2>1, CleansNothing, CompletedCleans
<1>7. CASE Cleans(wt, t)
  <2>1. StartedBy(wt, wt, started) = started
    BY DEF StartedBy
  <2>2. QED
    BY Zenon, <1>1, <1>5, <1>7, <2>1
<1>8. CASE /\ active_proposal_expiry_status(wt) = "expired"
           /\ \E v : t \in cleanup_completed(e, v)
  <2>1. p # None
    BY <1>8 DEF active_proposal_expiry_status
  <2>2. p \in ProposalIds /\ IsInternal(p) /\ wt.ProposalStatus[p] = "Active"
    BY Zenon, <1>1, <2>1, StoreTypes DEF StatusOK
  <2>3. e = finalise_voting(wt, p, "Expired").s
    BY Zenon, <1>1, <2>2, ExpiryResult DEF finalise_expired_voting
  <2>4. "Expired" \in Ended
    BY DEF Ended
  <2>a. EndKept(wt, e, p, "Expired")
    BY Zenon, <1>1, <2>2, <2>3, <2>4, FinaliseKeeps
  <2>5. /\ StoreInv(e) /\ OnlyEnds(wt, e, p, "Expired")
        /\ OrderOK(e, accepted, StartedBy(wt, e, started)) /\ CastOK(e, cast)
    BY Zenon, <1>1, <2>a DEF EndKept
  <2>6. Cleans(e, t)
    BY Zenon, <1>8, <2>5, CompletedCleans DEF StoreInv
  <2>7. \A q \in ProposalIds :
          /\ wt.ProposalStatus[q] \in Ended => e.ProposalStatus[q] = wt.ProposalStatus[q]
          /\ e.ProposalStatus[q] = "passed" => wt.ProposalStatus[q] = "passed"
    BY Zenon, <2>2, <2>5 DEF OnlyEnds, Ended
  <2>8. QED
    BY Zenon, <1>5, <2>5, <2>6, <2>7
<1>9. QED
  BY Zenon, <1>6, <1>7, <1>8

LEMMA CallsStep ==
  ASSUME WatchtowerInv, Calls
  PROVE  Keeps
<1>1. ASSUME NEW p \in ProposalIds, submit_external_proposal(Root, p)
      PROVE  Keeps
  BY Zenon, <1>1, AddStep DEF submit_external_proposal
<1>2. ASSUME NEW p \in ProposalIds, NEW who, NEW c, c.proposal = p,
             signed_submit_external_proposal(who, SignedBy(who, c), c)
      PROVE  Keeps
  BY Zenon, <1>2, AddStep DEF signed_submit_external_proposal, submit_external_proposal
<1>3. ASSUME NEW p \in ProposalIds, submit_proposal(p)
      PROVE  Keeps
  BY Zenon, <1>3, AddStep DEF submit_proposal
<1>4. ASSUME NEW b \in Ballots, NEW c, c.proposal = b[2],
             signed_vote(Relayer, SignedBy(b[1], c), c)
      PROVE  Keeps
  <2>1. vote(b[1], b[2], c.in_favor)
    <3>1. PICK voter : /\ voter = SignedBy(b[1], c).signer
                       /\ vote(voter, c.proposal, c.in_favor)
      BY Zenon, <1>4 DEF signed_vote, signed_for
    <3>2. SignedBy(b[1], c).signer = b[1]
      BY DEF SignedBy, Sign
    <3>3. QED
      BY Zenon, <1>4, <3>1, <3>2
  <2>2. /\ process_vote(b[2], b[1], c.in_favor)
        /\ nodes' = nodes /\ pool' = pool /\ accepted' = accepted
    BY <2>1 DEF vote
  <2>3. PoolType'
    BY <2>2 DEF WatchtowerInv, PoolType
  <2>4. QED
    BY Zenon, <2>2, <2>3, VoteStep, WatchtowerAssumption
<1>5. ASSUME NEW tx \in pool, unsigned_vote(tx)
      PROVE  Keeps
  <2>1. /\ process_vote(tx.proposal, tx.watchtower, tx.in_favor)
        /\ nodes' = nodes /\ pool' = pool \ {tx} /\ accepted' = accepted
    BY <1>5 DEF unsigned_vote
  <2>2. PoolType' /\ tx.proposal \in ProposalIds /\ tx.watchtower \in Nodes
    BY <2>1 DEF WatchtowerInv, PoolType
  <2>3. tx.watchtower \in Voters
    BY <2>2, WatchtowerAssumption
  <2>4. QED
    BY Zenon, <2>1, <2>2, <2>3, VoteStep
<1>6. ASSUME NEW p \in ProposalIds, finalise_proposal(p)
      PROVE  Keeps
  BY Zenon, <1>6, FinaliseStep
<1>7. ASSUME NEW p \in ProposalIds, NEW who \in Proposers, NEW block \in SignedAt,
             LET c == [fn |-> "signed_submit_external_proposal", proposal |-> p,
                       block_number |-> block]
             IN  Arrives(p) /\ signed_submit_external_proposal(who, SignedBy(who, c), c)
      PROVE  Keeps
  <2> DEFINE c == [fn |-> "signed_submit_external_proposal", proposal |-> p, block_number |-> block]
  <2>1. c.proposal = p
    OBVIOUS
  <2>2. signed_submit_external_proposal(who, SignedBy(who, c), c)
    BY Zenon, <1>7
  <2> HIDE DEF c
  <2>3. QED
    BY Zenon, <1>2, <2>1, <2>2
<1>8. ASSUME NEW b \in Ballots, NEW block \in SignedAt,
             LET c == [fn |-> "signed_vote", proposal |-> b[2], in_favor |-> b[3],
                       block_number |-> block]
             IN  signed_vote(Relayer, SignedBy(b[1], c), c)
      PROVE  Keeps
  <2> DEFINE c == [fn |-> "signed_vote", proposal |-> b[2], in_favor |-> b[3], block_number |-> block]
  <2>1. c.proposal = b[2]
    OBVIOUS
  <2>2. signed_vote(Relayer, SignedBy(b[1], c), c)
    BY Zenon, <1>8
  <2> HIDE DEF c
  <2>3. QED
    BY Zenon, <1>4, <2>1, <2>2
<1>9. QED
  BY Zenon, <1>1, <1>3, <1>5, <1>6, <1>7, <1>8, SettingStep, RegisterStep, DeregisterStep DEF Calls

LEMMA InitInv ==
  ASSUME Init
  PROVE  WatchtowerInv
<1>1. wt \in Store
  BY Zenon, WatchtowerAssumption DEF Init, Store, Statuses, Tally, NoVotes
<1>2. /\ wt.ProposalStatus = [p \in ProposalIds |-> "Unknown"]
      /\ wt.Votes = [p \in ProposalIds |-> NoVotes]
      /\ wt.InternalProposalQueue = [i \in 0 .. cap - 1 |-> None]
      /\ wt.ActiveInternalProposal = None /\ wt.Head = 0 /\ wt.Tail = 0
      /\ wt.ProposalsToRemove = {} /\ wt.root = None
  BY DEF Init
<1>3. /\ nodes = InitialNodes /\ pool = {} /\ accepted = << >> /\ started = << >>
      /\ cast = [p \in ProposalIds |-> [v \in Voters |-> 0]]
  BY DEF Init
<1>4. Places(wt) = {}
  BY <1>2 DEF Places
<1>5. StatusOK(wt)
  BY Zenon, <1>2, WatchtowerAssumption DEF StatusOK
<1>6. RingOK(wt)
  <2>1. wt.Head <= wt.Tail
    BY <1>2
  <2>2. \A p \in ProposalIds : wt.ProposalStatus[p] # "Queued"
    BY <1>2
  <2>3. QED
    BY Zenon, <1>2, <1>4, <2>1, <2>2 DEF RingOK
<1>7. RootOK(wt)
  BY Zenon, <1>2 DEF RootOK, RootOf
<1>8. NodesType /\ PoolType
  BY <1>3, WatchtowerAssumption DEF NodesType, PoolType
<1>9. OrderOK(wt, accepted, started)
  <2>1. << >> \in Seq(ProposalIds) /\ Len(<< >>) = 0
    OBVIOUS
  <2>2. QED
    BY <1>2, <1>3, <1>4, <2>1 DEF OrderOK
<1>10. CastOK(wt, cast)
  <2>1. cast \in [ProposalIds -> [Voters -> {0, 1}]]
    BY <1>3
  <2>2. \A p \in ProposalIds : Counted(cast, p) = {}
    BY <1>3 DEF Counted
  <2>3. \A p \in ProposalIds : wt.Votes[p].in_favors + wt.Votes[p].againsts = 0
    BY <1>2 DEF NoVotes
  <2>4. \A p \in ProposalIds, v \in Voters : cast[p][v] # 1
    BY <1>3
  <2>5. QED
    BY Zenon, <2>1, <2>2, <2>3, <2>4, FS_EmptySet DEF CastOK, Internal
<1>11. QED
  BY Zenon, <1>1, <1>5, <1>6, <1>7, <1>8, <1>9, <1>10 DEF WatchtowerInv, StoreInv

LEMMA StepKeeps ==
  ASSUME WatchtowerInv, [Next]_vars
  PROVE  Keeps
<1>1. CASE Calls
  BY Zenon, <1>1, CallsStep
<1>2. CASE Offchain
  BY Zenon, <1>2, WorkerStep, LoseStep DEF Offchain
<1>3. CASE \E w \in Weights : on_idle(w)
  BY Zenon, <1>3, IdleStep
<1>4. CASE UNCHANGED vars
  <2>1. /\ wt' = wt /\ nodes' = nodes /\ pool' = pool
        /\ started' = started /\ accepted' = accepted /\ cast' = cast
    BY <1>4 DEF vars
  <2>2. NodesType' /\ PoolType' /\ wt \in Store
    BY <2>1 DEF WatchtowerInv, NodesType, PoolType, StoreInv
  <2>3. Cleans(wt, wt')
    BY Zenon, <2>1, <2>2, CleansNothing
  <2>4. QED
    BY Zenon, <2>1, <2>2, <2>3, OtherStep
<1>5. QED
  BY Zenon, <1>1, <1>2, <1>3, <1>4 DEF Next

\* The invariant holds in every reachable state.
THEOREM InvariantHolds == Spec => []WatchtowerInv
<1>1. Init => WatchtowerInv
  BY Zenon, InitInv
<1>2. WatchtowerInv /\ [Next]_vars => WatchtowerInv'
  BY Zenon, StepKeeps DEF Keeps
<1>3. QED
  BY <1>1, <1>2, PTL DEF Spec

-----------------------------------------------------------------------------
(* The properties *)

\* Decisions, for every number of watchtowers, proposals and changes of the
\* register: a proposal passes only with the votes that threshold_achieved or
\* get_vote_result_on_expiry asks for, and keeps its status for good.
THEOREM DecisionsCorrect == Spec => DecisionsAreSound
<1> DEFINE Passes(p) ==
             wt.ProposalStatus[p] # "passed" /\ wt'.ProposalStatus[p] = "passed" =>
               \/ /\ nodes.TotalRegisteredNodes > 0
                  /\ 100 * wt'.Votes[p].in_favors >=
                       Request[p].threshold * nodes.TotalRegisteredNodes
               \/ /\ ~ IsInternal(p)
                  /\ wt.Proposals[p] = 0
                  /\ wt'.Votes[p].in_favors > wt'.Votes[p].againsts
           Stays(p) == wt.ProposalStatus[p] \in Ended => wt'.ProposalStatus[p] = wt.ProposalStatus[p]
<1>1. WatchtowerInv /\ [Next]_vars => [\A p \in ProposalIds : Passes(p)]_vars
  BY Zenon, StepKeeps DEF Keeps, Decides, Earned
<1>2. WatchtowerInv /\ [Next]_vars => [\A p \in ProposalIds : Stays(p)]_vars
  BY Zenon, StepKeeps DEF Keeps, Decides
<1>3. QED
  BY <1>1, <1>2, InvariantHolds, PTL DEF Spec, DecisionsAreSound, PassedByEnoughNodes, OutcomesAreFinal

\* Votes: process_vote counts a voter once per proposal, however often the vote
\* is signed, relayed or sent, and the tally of an open internal proposal is the
\* number of its voters.
THEOREM VotesCorrect == Spec => []VotesCountOnce
<1>1. WatchtowerInv => VotesCountOnce
  <2> SUFFICES ASSUME WatchtowerInv
               PROVE  VotesCountOnce
    OBVIOUS
  <2>1. CastOK(wt, cast)
    BY Zenon DEF WatchtowerInv
  <2>2. \A p \in ProposalIds, v \in Voters : cast[p][v] <= 1
    <3> SUFFICES ASSUME NEW p \in ProposalIds, NEW v \in Voters
                 PROVE  cast[p][v] <= 1
      OBVIOUS
    <3>1. cast[p][v] \in {0, 1}
      BY <2>1 DEF CastOK
    <3>2. QED
      BY <3>1
  <2>3. "Active" \notin Ended
    BY DEF Ended
  <2>4. \A p \in Internal : wt.ProposalStatus[p] = "Active" =>
          wt.Votes[p].in_favors + wt.Votes[p].againsts = Cardinality({v \in Voters : cast[p][v] = 1})
    BY Zenon, <2>1, <2>3 DEF CastOK, Counted
  <2>5. QED
    BY Zenon, <2>2, <2>4 DEF VotesCountOnce
<1>2. QED
  BY <1>1, InvariantHolds, PTL

\* The order: the ring of queue.rs holds what was accepted and not yet started,
\* whatever its capacity and however often Head and Tail went round it, and the
\* root of pallet-summary-watchtower is that of the active proposal.
THEOREM OrderCorrect == Spec => []ActiveProposalIsNext
<1>1. WatchtowerInv => ActiveProposalIsNext
  <2> SUFFICES ASSUME WatchtowerInv
               PROVE  ActiveProposalIsNext
    OBVIOUS
  <2> DEFINE n == len(wt)
             slot(i) == wt.InternalProposalQueue[(wt.Head + i - 1) % cap]
  <2>1. /\ wt \in Store /\ StatusOK(wt) /\ RingOK(wt) /\ RootOK(wt)
        /\ OrderOK(wt, accepted, started)
    BY Zenon DEF WatchtowerInv, StoreInv
  <2>2. wt.Head \in Nat /\ wt.Tail \in Nat /\ n \in Nat /\ n = wt.Tail - wt.Head
    BY <2>1, RingTypes DEF RingOK, len
  <2> HIDE DEF n
  <2>3. ASSUME NEW i \in 1 .. n
        PROVE  /\ wt.Head + i - 1 \in Places(wt) /\ slot(i) = Place(wt, wt.Head + i - 1)
               /\ slot(i) \in ProposalIds /\ slot(i) = accepted[Len(started) + i]
    <3>1. wt.Head + i - 1 \in Places(wt)
      BY <2>2 DEF Places
    <3>2. slot(i) = Place(wt, wt.Head + i - 1)
      BY Zenon DEF Place
    <3>3. slot(i) \in ProposalIds
      BY Zenon, <2>1, <3>1, <3>2, PlaceTypes
    <3>4. Place(wt, wt.Head + i - 1) = accepted[Len(started) + ((wt.Head + i - 1) - wt.Head) + 1]
      BY Zenon, <2>1, <3>1 DEF OrderOK
    <3>5. Len(started) \in Nat
      BY <2>1 DEF OrderOK
    <3>6. Len(started) + ((wt.Head + i - 1) - wt.Head) + 1 = Len(started) + i
      BY <2>2, <3>5
    <3>7. QED
      BY Zenon, <3>1, <3>2, <3>3, <3>4, <3>6
  <2>4. Queued = [i \in 1 .. n |-> slot(i)]
    BY Zenon DEF Queued, n
  <2> HIDE DEF slot
  <2>5. /\ Queued \in Seq(ProposalIds) /\ Len(Queued) = n /\ DOMAIN Queued = 1 .. n
        /\ \A i \in 1 .. n : Queued[i] = slot(i)
    BY <2>2, <2>3, <2>4
  <2>6. accepted = started \o Queued
    <3>1. /\ started \in Seq(ProposalIds) /\ accepted \in Seq(ProposalIds)
          /\ Len(accepted) = Len(started) + n
          /\ \A i \in 1 .. Len(started) : accepted[i] = started[i]
      BY Zenon, <2>1, <2>2 DEF OrderOK
    <3>2. /\ started \o Queued \in Seq(ProposalIds)
          /\ Len(started \o Queued) = Len(started) + n
          /\ \A i \in 1 .. Len(started) + n : (started \o Queued)[i] =
                IF i <= Len(started) THEN started[i] ELSE Queued[i - Len(started)]
      BY Zenon, <2>5, <3>1, ConcatProperties
    <3>3. ASSUME NEW i \in 1 .. Len(accepted)
          PROVE  accepted[i] = (started \o Queued)[i]
      <4>1. Len(started) \in Nat
        BY <3>1
      <4>2. CASE i <= Len(started)
        BY <3>1, <3>2, <4>1, <4>2
      <4>3. CASE i > Len(started)
        <5>1. i - Len(started) \in 1 .. n /\ Len(started) + (i - Len(started)) = i
          BY <2>2, <3>1, <4>1, <4>3
        <5>2. accepted[i] = Queued[i - Len(started)]
          BY Zenon, <2>3, <2>5, <5>1
        <5>3. QED
          BY <3>1, <3>2, <4>1, <4>3, <5>2
      <4>4. i <= Len(started) \/ i > Len(started)
        BY <3>1, <4>1
      <4>5. QED
        BY Zenon, <4>2, <4>3, <4>4
    <3>4. QED
      BY Zenon, <3>1, <3>2, <3>3, SeqEqual
  <2>7. Range(Queued) = {p \in Internal : wt.ProposalStatus[p] = "Queued"}
    <3>1. ASSUME NEW i \in 1 .. n
          PROVE  slot(i) \in Internal /\ wt.ProposalStatus[slot(i)] = "Queued"
      BY Zenon, <2>1, <2>3, <3>1 DEF RingOK, StatusOK, Internal
    <3>2. ASSUME NEW p \in Internal, wt.ProposalStatus[p] = "Queued"
          PROVE  \E i \in 1 .. n : slot(i) = p
      <4>1. PICK k \in Places(wt) : Place(wt, k) = p
        BY Zenon, <2>1, <3>2 DEF RingOK, Internal
      <4>2. k - wt.Head + 1 \in 1 .. n /\ wt.Head + (k - wt.Head + 1) - 1 = k
        BY <2>2 DEF Places
      <4>3. QED
        BY Zenon, <2>3, <4>1, <4>2
    <3>3. Range(Queued) = {slot(i) : i \in 1 .. n}
      BY Zenon, <2>5 DEF Range
    <3>4. QED
      BY Zenon, <3>1, <3>2, <3>3
  <2>8. Cardinality({i \in 0 .. cap - 1 : wt.InternalProposalQueue[i] # None}) = n
    <3> DEFINE S == {i \in 0 .. cap - 1 : wt.InternalProposalQueue[i] # None}
               f == [k \in Places(wt) |-> k % cap]
    <3>1. ASSUME NEW k \in Places(wt)
          PROVE  k % cap \in S
      BY Zenon, <2>1, PlaceTypes DEF RingOK, Place
    <3>2. ASSUME NEW i \in S
          PROVE  \E k \in Places(wt) : i = k % cap
      BY Zenon, <2>1 DEF RingOK
    <3>3. ASSUME NEW j \in Places(wt), NEW k \in Places(wt), j % cap = k % cap
          PROVE  j = k
      BY Zenon, <2>1, <3>3 DEF RingOK, Place
    <3> HIDE DEF S
    <3>4. f \in [Places(wt) -> S]
      BY Zenon, <3>1
    <3>5. f \in Bijection(Places(wt), S)
      BY Zenon, <3>2, <3>3, <3>4 DEF Bijection, Injection, Surjection, IsInjective
    <3>6. IsFiniteSet(Places(wt)) /\ Cardinality(Places(wt)) = n
      <4>1. wt.Head \in Int /\ wt.Tail - 1 \in Int
        BY <2>2
      <4>2. /\ IsFiniteSet(wt.Head .. wt.Tail - 1)
            /\ Cardinality(wt.Head .. wt.Tail - 1) =
                 IF wt.Head > wt.Tail - 1 THEN 0 ELSE (wt.Tail - 1) - wt.Head + 1
        BY Zenon, <4>1, FS_Interval
      <4>3. (IF wt.Head > wt.Tail - 1 THEN 0 ELSE (wt.Tail - 1) - wt.Head + 1) = n
        BY <2>2
      <4>4. QED
        BY Zenon, <4>2, <4>3 DEF Places
    <3>7. Cardinality(S) = n
      BY Zenon, <3>5, <3>6, FS_Bijection DEF ExistsBijection
    <3>8. QED
      BY Zenon, <3>7 DEF S
  <2>9. QueueKeepsTheOrder
    BY Zenon, <2>6, <2>7, <2>8 DEF QueueKeepsTheOrder, n
  <2>10. RootIsTheOneVotedOn
    BY Zenon, <2>1 DEF RootIsTheOneVotedOn, RootOK, RootOf
  <2>11. QED
    BY Zenon, <2>9, <2>10 DEF ActiveProposalIsNext
<1>2. QED
  BY <1>1, InvariantHolds, PTL
=============================================================================
