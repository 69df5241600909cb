---------------------------- MODULE BridgeSystem ----------------------------
(***************************************************************************)
(* The bridge as a whole: the authors' event handlers, the bridge pallet   *)
(* that counts their votes (external, modelled by what the handlers, the   *)
(* runtime's configuration and the prediction markets see of it), the lifts*)
(* it hands to the prediction markets, and what users, relayers and the    *)
(* root do with the tokens meanwhile.                                      *)
(***************************************************************************)
EXTENDS SignedCalls, EthereumEvents, Sequences, SequencesExt

CONSTANTS
  Quorum,            \* votes that decide
  LegacyProcessed,   \* the events the older ethereum-events pallet processed
  Filters,           \* the sets of events the authors may be asked to find
  MaxHeight,         \* bound: Ethereum blocks
  FirstHeight,       \* bound: Ethereum blocks before there is a range
  Rechecks,          \* bound: transactions that are asked for again
  Signatures,        \* the proofs and calls that exist, <<proof, call>>
  Withdrawals,       \* bound: <<who, token, amount>> of unsigned withdrawals
  Registrations,     \* bound: <<token, asset, metadata>>
  Updates,           \* bound: <<asset, update>>
  Configs,           \* bound: the settings of set_config_option
  Registry,          \* the registry at the start
  MaxCalls           \* bound: calls of users, relayers and the root

VARIABLES
  store,     \* the storage of the prediction markets, the registry, the tokens
  calls,     \* bound: calls made
  credits,   \* history: the events that were credited, in order
  acted,     \* history: the signatures that took effect, in order
  touched    \* history: the assets updated while some of them existed

vars == <<height, bridge, handler, pool, store, calls, credits, acted, touched>>
history == <<credits, acted, touched>>

NoneActive == [a \in Authors |-> None]

Init ==
  /\ height = 0
  /\ \E f \in Filters :
       bridge = [active |-> None, votes |-> NoneActive, submitted |-> NoneActive,
                 processed |-> {}, signatures |-> f, queued |-> {}]
  /\ handler = [a \in Authors |-> Idle]
  /\ pool = {}
  /\ store = [reg |-> Registry,
              free |-> [x \in AssetIds |-> [h \in Holders |-> 0]],
              tokens |-> [t \in TokenAddresses |-> [h \in Holders |-> 0]],
              MarketAdmin |-> None, VaultAccount |-> None,
              UserNonces |-> NoNonces.UserNonces,
              MarketNonces |-> NoNonces.MarketNonces,
              RouterNonces |-> NoNonces.RouterNonces]
  /\ calls = 0
  /\ credits = << >> /\ acted = << >> /\ touched = {}

-----------------------------------------------------------------------------
(* Ethereum and the bridge pallet.                                         *)

NewEthereumBlock ==
  /\ height < IF bridge.active = None THEN FirstHeight ELSE MaxHeight
  /\ height' = height + 1
  /\ UNCHANGED <<bridge, handler, pool, store, calls, history>>

EventId(e) == <<e.kind, e.tx>>

\* ProcessedEventCustodian: both pallets that ever processed events count.
processed_event_exists(processed, e) ==
  EventId(e) \in processed \cup LegacyProcessed

\* The runtime tells the token manager, which takes plain lifts, and the
\* prediction markets.
on_incoming_event_processed(s, e) ==
  IF e.kind = "Lifted"
  THEN [ok |-> TRUE, s |-> deposit_tokens(s, e.token, e.receiver, e.amount)]
  ELSE process_lift(s, e)

\* One event of an accepted partition: what is processed is never processed
\* again, also when its handler fails.
ProcessEvent(r, e) ==
  IF processed_event_exists(r.processed, e) THEN r
  ELSE LET done == on_incoming_event_processed(r.s, e)
       IN  [s |-> done.s, processed |-> r.processed \cup {EventId(e)},
            credits |-> IF done.ok THEN Append(r.credits, e) ELSE r.credits]

InOrder(events) == SetToSortSeq(events, LAMBDA d, e : d.tx < e.tx)

ProcessPartition(partition) ==
  FoldLeft(ProcessEvent, [s |-> store, processed |-> bridge.processed, credits |-> credits],
           InOrder(partition.events))

NextActive(partition) ==
  IF partition.is_last
  THEN [start |-> partition.start + RangeLength, partition |-> 0,
        additional |-> bridge.queued]
  ELSE [bridge.active EXCEPT !.partition = @ + 1]

\* A vote for the latest block is counted; a quorum of them sets the first
\* range, at a block that a quorum has seen.
CountLatest(v) ==
  /\ v.kind = "latest" /\ bridge.active = None /\ bridge.submitted[v.author] = None
  /\ LET submitted == [bridge.submitted EXCEPT ![v.author] = v.block]
         seen(b)   == {a \in Authors : submitted[a] # None /\ submitted[a] >= b}
     IN  IF Cardinality({a \in Authors : submitted[a] # None}) < Quorum
         THEN bridge' = [bridge EXCEPT !.submitted = submitted]
         ELSE \E b \in Range(submitted) \ {None} :
                /\ Cardinality(seen(b)) >= Quorum
                /\ bridge' = [bridge EXCEPT !.submitted = NoneActive,
                                !.active = [start |-> b, partition |-> 0,
                                            additional |-> {}]]
  /\ UNCHANGED <<store, history>>

\* A vote for the partition that is due is counted; a quorum of equal votes
\* processes the partition and moves on.
CountEvents(v) ==
  /\ v.kind = "events" /\ bridge.active # None /\ bridge.votes[v.author] = None
  /\ v.partition.start = bridge.active.start
  /\ v.partition.id = bridge.active.partition
  /\ LET votes == [bridge.votes EXCEPT ![v.author] = v.partition]
     IN  IF Cardinality({a \in Authors : votes[a] = v.partition}) < Quorum
         THEN /\ bridge' = [bridge EXCEPT !.votes = votes]
              /\ UNCHANGED <<store, history>>
         ELSE \E r \in {ProcessPartition(v.partition)} :
                /\ store' = r.s /\ credits' = r.credits
                /\ bridge' = [bridge EXCEPT !.votes = NoneActive,
                                !.processed = r.processed,
                                !.active = NextActive(v.partition),
                                !.queued = IF v.partition.is_last THEN {} ELSE @]
                /\ UNCHANGED <<acted, touched>>

Count(a) ==
  \E v \in {w \in pool : w.author = a} :
    /\ CountLatest(v) \/ CountEvents(v)
    /\ pool' = pool \ {v}
    /\ UNCHANGED <<height, handler, calls>>

DropVote(v) ==
  /\ pool' = pool \ {v}
  /\ UNCHANGED <<height, bridge, handler, store, calls, history>>

\* The pool may drop a vote, and drops those that are invalid by now.
Drop == \E v \in pool : DropVote(v)

IsStale(v) ==
  IF v.kind = "latest" THEN bridge.active # None \/ bridge.submitted[v.author] # None
  ELSE \/ bridge.active = None \/ bridge.votes[v.author] # None
       \/ v.partition.start # bridge.active.start
       \/ v.partition.id # bridge.active.partition

DropStale(a) == \E v \in {w \in pool : w.author = a /\ IsStale(w)} : DropVote(v)

\* Somebody asks for a transaction to be looked at again.
Recheck(tx) ==
  /\ bridge.active # None /\ tx \notin bridge.queued /\ calls < MaxCalls
  /\ \E l \in Chain : l.tx = tx /\ l.block < bridge.active.start
  /\ bridge' = [bridge EXCEPT !.queued = @ \cup {tx}]
  /\ calls' = calls + 1
  /\ UNCHANGED <<height, handler, pool, store, history>>

Handle(a) ==
  /\ \/ query_runtime(a)
     \/ submit_latest_ethereum_block(a)
     \/ process_events(a)
     \/ execute_event_processing(a)
     \/ FailedRound(a)
  /\ UNCHANGED <<store, calls, history>>

-----------------------------------------------------------------------------
(* Users, relayers and the root.                                           *)

\* bound: the handlers read nothing that a call changes, so calls are made only
\* between two partitions, while every handler rests; signatures are submitted
\* once something was lifted.
Quiet ==
  /\ pool = {} /\ bridge.votes = NoneActive /\ bridge.submitted = NoneActive
  /\ \A a \in Authors : handler[a] = Idle

Call(s) ==
  /\ calls < MaxCalls /\ Quiet
  /\ calls' = calls + 1
  /\ store' = s
  /\ UNCHANGED <<height, bridge, handler, pool, credits>>

withdraw_tokens(who, token, amount) ==
  /\ can_withdraw_tokens(store, token, who, amount)
  /\ Call(do_withdraw_tokens(store, token, who, amount))
  /\ UNCHANGED <<acted, touched>>

\* The signer or the relayer submits a signature, as often as they like.
Submit(sender, proof, call) ==
  \E who \in DispatchedAs(store, sender, proof, call) :
    /\ authorised(store, who, proof, call)
    /\ can_run(store, who, call)
    /\ Call(run(store, who, call))
    /\ acted' = Append(acted, <<proof, call>>)
    /\ UNCHANGED touched

Register(token, asset, meta) ==
  /\ can_register_eth_asset(store.reg, token, asset)
  /\ Call([store EXCEPT !.reg = register_eth_asset(@, token, asset, meta)])
  /\ UNCHANGED <<acted, touched>>

Update(asset, u) ==
  /\ can_update_eth_asset(store.reg, asset, u)
  /\ Call([store EXCEPT !.reg = update_eth_asset(@, asset, u)])
  /\ touched' = IF Supply(store, asset) > 0 THEN touched \cup {asset} ELSE touched
  /\ UNCHANGED acted

Configure(config) ==
  /\ Call(set_config_option(store, config))
  /\ UNCHANGED <<acted, touched>>

Calls ==
  \/ \E w \in Withdrawals : withdraw_tokens(w[1], w[2], w[3])
  \/ credits # << >> /\ \E s \in Signatures : \E sender \in {s[1].signer, s[1].relayer} :
       Submit(sender, s[1], s[2])
  \/ \E r \in Registrations : Register(r[1], r[2], r[3])
  \/ \E u \in Updates : Update(u[1], u[2])
  \/ \E c \in Configs : Configure(c)
  \/ \E tx \in Rechecks : Recheck(tx)

Next ==
  \/ NewEthereumBlock
  \/ \E a \in Authors : Handle(a) \/ Count(a)
  \/ Drop
  \/ Calls

Spec == Init /\ [][Next]_vars

\* Ethereum goes on, an author's node goes round its loop, Ethereum answers it
\* again and again, a vote that is sent again and again gets into a block, and
\* the pool forgets the votes that can no longer count.
FairSpec ==
  /\ Spec
  /\ WF_vars(NewEthereumBlock)
  /\ \A a \in Authors :
       /\ WF_vars(query_runtime(a) /\ UNCHANGED <<store, calls, history>>)
       /\ SF_vars(submit_latest_ethereum_block(a) /\ UNCHANGED <<store, calls, history>>)
       /\ SF_vars(process_events(a) /\ UNCHANGED <<store, calls, history>>)
       /\ SF_vars(execute_event_processing(a) /\ UNCHANGED <<store, calls, history>>)
       /\ SF_vars(Count(a)) /\ WF_vars(DropStale(a))

-----------------------------------------------------------------------------
(* Properties.                                                             *)

VotesFor(start, id) ==
  {v.partition : v \in {w \in pool : w.kind = "events"
                          /\ w.partition.start = start /\ w.partition.id = id}}
  \cup {bridge.votes[a] : a \in {b \in Authors : bridge.votes[b] # None}}

\* The authors' nodes work at different times and from what the runtime told
\* them at different blocks; still all votes that can count for the partition
\* that is due are equal (ethereum_events_handler.rs waits for finality and
\* reads the range before the rest).
AuthorsAgree ==
  bridge.active # None =>
    Cardinality(VotesFor(bridge.active.start, bridge.active.partition)) <= 1

\* A transaction on Ethereum is credited once, as the event that says most of
\* it, and only if it is on the final chain: not again when it is looked at
\* again, and not as a plain transfer when it is a lift that is not looked for.
LiftsCountOnce ==
  /\ \A i, j \in DOMAIN credits : credits[i].tx = credits[j].tx => i = j
  /\ \A i \in DOMAIN credits :
       /\ credits[i] \in {parse_log(l) : l \in Chain}
       /\ EventId(credits[i]) \notin LegacyProcessed
       /\ credits[i].kind \in Secondary =>
            ~ \E l \in Chain : l.tx = credits[i].tx /\ l.kind \notin Secondary

Lifted(token) ==
  MapThenSumSet(LAMBDA i : IF credits[i].token = token THEN credits[i].amount ELSE 0,
                DOMAIN credits)

\* The tokens in the token manager and those the markets' balances can be
\* turned into never exceed what was lifted, whatever is lost to rounding, for
\* every token whose asset kept its address and decimals while it existed
\* (process_lift, do_withdraw_tokens and adjust_fractional_places).
TokensAreBacked ==
  \A t \in TokenAddresses :
    LET asset == asset_id(store.reg, t)
        meta  == metadata(store.reg, asset)
    IN  asset = None \/ asset \in touched \/ AddressesOf(store.reg, asset) # {t}
        \/ Supply(store, asset) * 10 ^ meta.decimals
             + InTokenManager(store, t) * 10 ^ DECIMALS <= Lifted(t) * 10 ^ DECIMALS

Counter(proof, call) ==
  <<proof.signer, proof.signature.payload.nonce>> \o
  CASE call.fn \in UserCalls   -> <<"user">>
    [] call.fn \in MarketCalls -> <<"market", call.market>>
    [] call.fn \in RouterCalls -> <<"router", call.market>>

\* Of the signatures a user gives for one value of a counter, at most one ever
\* takes effect, and only once, however often and in whatever order they are
\* submitted, by the relayer or by the user (the signed_* extrinsics).
SignaturesActOnce ==
  \A i, j \in DOMAIN acted :
    Counter(acted[i][1], acted[i][2]) = Counter(acted[j][1], acted[j][2]) => i = j

\* The events that are looked for, of the active range or later and final
\* within the bound.
Waiting ==
  bridge.active = None \/
  \E e \in identify_events(Chain, bridge.signatures).events :
    /\ e.block >= bridge.active.start
    /\ EndBlock(e.block) + ETH_FINALITY <= MaxHeight
    /\ ~ processed_event_exists(bridge.processed, e)

\* A first range is agreed on, and from then on every event that is looked for
\* is processed in the end, although rounds fail, votes get lost and a vote may
\* be for a range that is over.
EventsAreProcessed == <>[] ~ Waiting

\* Every token on the chain was lifted, once.
LiftsAreBacked == LiftsCountOnce /\ TokensAreBacked
=============================================================================
