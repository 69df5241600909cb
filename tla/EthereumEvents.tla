--------------------------- MODULE EthereumEvents ---------------------------
(***************************************************************************)
(* The handler of Ethereum events that every author's node runs            *)
(* (node/tnf-service/src/ethereum_events_handler.rs): it asks the runtime  *)
(* for the active range of Ethereum blocks, waits until the range is final,*)
(* collects the bridge events of the range and votes for the partition the *)
(* runtime is waiting for.                                                 *)
(*                                                                         *)
(* An Ethereum log is a record [tx, kind, token, receiver, amount, block,  *)
(* address, intact]: the contract that emitted it, and whether its topics  *)
(* and data are those of its kind.  `Chain` holds the logs of the final    *)
(* chain, `Orphans` those of blocks that are reorganised away before they  *)
(* are final.  A transaction is a number, which stands for the order the   *)
(* partitions keep.                                                        *)
(***************************************************************************)
EXTENDS EthAssetRegistry, FiniteSetsExt

CONSTANTS
  Authors,         \* the authors, one node each
  Chain,           \* the logs of the final chain
  Orphans,         \* logs seen only in blocks that are not final
  Secondary,       \* the kinds of event that are not primary
  ETH_FINALITY,    \* blocks on top of a final block
  RangeLength,     \* blocks in a range
  PartitionSize,   \* events in a partition
  MaxVotes         \* bound: votes of an author that wait in the pool

ASSUME EventsAssumption ==
  /\ ETH_FINALITY \in Nat /\ RangeLength \in Nat \ {0}
  /\ PartitionSize \in Nat \ {0}

VARIABLES
  height,      \* the latest Ethereum block
  bridge,      \* the storage of the bridge pallet, see BridgeSystem
  handler,     \* [Authors -> what the node's handler holds]
  pool         \* the votes submitted and not yet in a block

\* The runtime's filter for the events it asks the authors to find.
EthBridgeTnfRuntimeEventsFilter == {"AvtLowerClaimed", "Lifted", "LiftedToPredictionMarket"}

EndBlock(start) == start + RangeLength - 1

\* What a node may be told of the logs of some blocks: a block that is not
\* final may still show logs that will be gone.
LogsSeen(from, to) ==
  LET final == to + ETH_FINALITY <= height
      here(logs) == {l \in logs : l.block \in from .. to /\ l.block <= height}
  IN  {here(Chain)} \cup IF final THEN {} ELSE {here(Chain \cup Orphans)}

is_eth_block_finalised(block) == height >= block + ETH_FINALITY

identify_primary_bridge_events(logs) == {l \in logs : l.kind \notin Secondary}

identify_secondary_bridge_events(logs) == {l \in logs : l.kind \in Secondary}

\* The events with a parser.
EventRegistry ==
  {"AddedValidator", "Lifted", "AvtGrowthLifted", "NftCancelListing", "NftEndBatchListing",
   "NftMint", "NftTransferTo", "AvtLowerClaimed", "Erc20DirectTransfer",
   "LiftedToPredictionMarket"}

get_event_info(kind) == kind \in EventRegistry

parse_event_data(l) == get_event_info(l.kind) /\ l.intact

\* A direct transfer names no token: it is the contract that emitted the log.
parse_log(l) ==
  [tx |-> l.tx, kind |-> l.kind, receiver |-> l.receiver, amount |-> l.amount,
   block |-> l.block,
   token |-> IF l.kind = "Erc20DirectTransfer" /\ l.token = Zero THEN l.address ELSE l.token]

\* Mutant of Entries: every log is an entry, also next to a primary one of the
\* same transaction.
Entries_All(primary, secondary) == primary \cup secondary

\* One log for each transaction, a primary one if there is one, whether or not
\* it is looked for.
Entries(primary, secondary) ==
  LET entry(tx) == LET first == {l \in primary : l.tx = tx}
                   IN  CHOOSE l \in (IF first # {} THEN first
                                     ELSE {l \in secondary : l.tx = tx}) : TRUE
  IN  {entry(tx) : tx \in {l.tx : l \in primary \cup secondary}}

\* The events looked for; one log that cannot be parsed fails the whole search.
identify_events(logs, signatures) ==
  LET entries == Entries(identify_primary_bridge_events(logs),
                         IF signatures \cap Secondary = {} THEN {}
                         ELSE identify_secondary_bridge_events(logs))
  IN  [ok |-> \A l \in entries : parse_event_data(l),
       events |-> {parse_log(l) : l \in {k \in entries : k.kind \in signatures}}]

\* The blocks of the transactions the runtime asks for, looked at as a whole.
identify_additional_events(txs, signatures) ==
  LET blocks == {l.block : l \in {k \in Chain : k.tx \in txs /\ k.block <= height}}
      found(b) == identify_events({l \in Chain : l.block = b}, signatures)
  IN  [ok |-> \A b \in blocks : found(b).ok, events |-> UNION {found(b).events : b \in blocks}]

\* create_partitions (sp_avn_common, external): the events in order, cut into
\* partitions; a range without events has one empty partition.
create_partitions(start, events) ==
  LET rank(e) == Cardinality({d \in events : d.tx < e.tx})
      last    == IF events = {} THEN 0 ELSE (Cardinality(events) - 1) \div PartitionSize
  IN  [id \in 0 .. last |->
         [start |-> start, id |-> id, is_last |-> id = last,
          events |-> {e \in events : rank(e) \div PartitionSize = id}]]

\* EthEventHandlerApi of the runtime.
query_active_block_range ==
  IF bridge.active = None THEN None
  ELSE [start |-> bridge.active.start, partition |-> bridge.active.partition]

query_has_author_casted_vote(a) == bridge.votes[a] # None \/ bridge.submitted[a] # None

additional_transactions ==
  IF bridge.active = None THEN {} ELSE bridge.active.additional

MaySubmit(a) == Cardinality({v \in pool : v.author = a}) < MaxVotes

Idle == [step |-> "idle"]

Hold(a, h) == handler' = [handler EXCEPT ![a] = h]

\* The first question of a round: which range is active.
query_runtime(a) ==
  /\ handler[a] = Idle
  /\ Hold(a, [step |-> "queried", range |-> query_active_block_range])
  /\ UNCHANGED <<height, bridge, pool>>

\* Mutant of submit_latest_ethereum_block: the test is the wrong way round.
submit_latest_ethereum_block_Inverted(a) ==
  /\ handler[a].step = "queried" /\ handler[a].range = None /\ MaySubmit(a)
  /\ pool' = IF ~query_has_author_casted_vote(a) THEN pool
             ELSE pool \cup {[kind |-> "latest", author |-> a, block |-> height]}
  /\ Hold(a, Idle)
  /\ UNCHANGED <<height, bridge>>

\* No range: the node tells which block it saw last, unless it did.
submit_latest_ethereum_block(a) ==
  /\ handler[a].step = "queried" /\ handler[a].range = None /\ MaySubmit(a)
  /\ pool' = IF query_has_author_casted_vote(a) THEN pool
             ELSE pool \cup {[kind |-> "latest", author |-> a, block |-> height]}
  /\ Hold(a, Idle)
  /\ UNCHANGED <<height, bridge>>

\* Mutant of process_events: the range is read before it is final.
process_events_Early(a) ==
  /\ handler[a].step = "queried" /\ handler[a].range # None
  /\ Hold(a, IF query_has_author_casted_vote(a) THEN Idle
             ELSE [step |-> "reading", range |-> handler[a].range,
                   additional |-> additional_transactions])
  /\ UNCHANGED <<height, bridge, pool>>

\* A range is active: once it is final, the rest of what the runtime knows is
\* read, at a block that may be later than the one the range was read at.
process_events(a) ==
  /\ handler[a].step = "queried" /\ handler[a].range # None
  /\ Hold(a, IF ~ is_eth_block_finalised(EndBlock(handler[a].range.start))
                \/ query_has_author_casted_vote(a)
             THEN Idle
             ELSE [step |-> "reading", range |-> handler[a].range,
                   additional |-> additional_transactions])
  /\ UNCHANGED <<height, bridge, pool>>

Voted(a, parts, id) ==
  IF id \in DOMAIN parts
  THEN pool \cup {[kind |-> "events", author |-> a, partition |-> parts[id]]}
  ELSE pool

EventsFound(a, logs) ==
  LET additional == identify_additional_events(handler[a].additional, bridge.signatures)
      due        == identify_events(logs, bridge.signatures)
  IN  [ok |-> additional.ok /\ due.ok, events |-> additional.events \cup due.events]

\* The events are collected and the partition is voted for, if there is one.
execute_event_processing(a) ==
  /\ handler[a].step = "reading" /\ MaySubmit(a)
  /\ \E logs \in LogsSeen(handler[a].range.start, EndBlock(handler[a].range.start)) :
       /\ EventsFound(a, logs).ok
       /\ pool' = Voted(a, create_partitions(handler[a].range.start,
                                             EventsFound(a, logs).events),
                        handler[a].range.partition)
  /\ Hold(a, Idle)
  /\ UNCHANGED <<height, bridge>>

\* Ethereum or the runtime does not answer, or a log cannot be parsed: the round
\* ends with an error.
FailedRound(a) ==
  /\ handler[a] # Idle
  /\ Hold(a, Idle)
  /\ UNCHANGED <<height, bridge, pool>>
=============================================================================
