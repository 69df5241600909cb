---------------------------- MODULE RootService ----------------------------
(***************************************************************************)
(* How a node computes the root of a range of blocks: the /roothash and    *)
(* /latest_finalised_block endpoints of tnf-service, its extrinsic_utils,  *)
(* and the summary_calculation RPC with its cache.                         *)
(*                                                                         *)
(* Until a block is final a node may follow either of two forks; `node` is *)
(* the function from a node to                                             *)
(*   [finalised, view, cache, job]                                         *)
(* with the number of its last final block, the fork it sees at every      *)
(* number, its cached roots, and the request it is working on.             *)
(***************************************************************************)
EXTENDS Integers, Sequences, FiniteSets, SequencesExt

CONSTANTS
  Nodes,                \* the nodes
  Blocks,               \* the blocks of each fork, fork -> number -> extrinsics
  Ranges,               \* bound: the ranges asked for, <<from, to>>
  MAX_SCHEDULE_PERIOD,  \* the longest range the RPC takes
  NoJob                 \* no request in progress

VARIABLES node, answers  \* answers: history of <<range, root>>

-----------------------------------------------------------------------------
(* The Merkle trees of merkle_tree_utils.rs.  The hash of a leaf is the    *)
(* set with the leaf, the hash of a pair of nodes the set of the two       *)
(* hashes: the pair is sorted before it is hashed, so the order does not   *)
(* count, and keccak is taken to have no collisions.                       *)

LeafHash(leaf) == {leaf}

\* keccak_256 of the sorted pair.
sort_and_concatenate_pair(left, right) == {left, right}

LeafHashes(leaves) == [i \in DOMAIN leaves |-> LeafHash(leaves[i])]

\* The nodes of the next level; the last of an odd number goes up as it is.
process_nodes_in_pairs(nodes) ==
  [i \in 1 .. (Len(nodes) + 1) \div 2 |->
     IF 2 * i <= Len(nodes)
     THEN sort_and_concatenate_pair(nodes[2 * i - 1], nodes[2 * i])
     ELSE nodes[2 * i - 1]]

RECURSIVE process_level(_)
process_level(nodes) ==
  LET up == process_nodes_in_pairs(nodes)
  IN  IF Len(up) > 1 THEN process_level(up) ELSE up

\* The root of at least one leaf.
generate_tree_root(leaves) == process_level(LeafHashes(leaves))[1]

\* The path through one level: the sibling of the branch's node, if it has one,
\* and the branch goes on with their parent.
process_nodes_in_pairs_for_path(branch, nodes, path) ==
  FoldLeft(LAMBDA r, i :
             LET left == nodes[2 * i - 1] right == nodes[2 * i]
             IN  IF r.node \in {left, right}
                 THEN [node |-> sort_and_concatenate_pair(left, right),
                       path |-> Append(r.path, IF r.node = left THEN right ELSE left)]
                 ELSE r,
           [node |-> branch, path |-> path], [i \in 1 .. Len(nodes) \div 2 |-> i])

RECURSIVE process_level_for_path(_, _, _)
process_level_for_path(branch, nodes, path) ==
  LET r  == process_nodes_in_pairs_for_path(branch, nodes, path)
      up == process_nodes_in_pairs(nodes)
  IN  IF Len(up) > 1 THEN process_level_for_path(r.node, up, r.path) ELSE r.path

generate_merkle_path(leaf, leaves) ==
  process_level_for_path(LeafHash(leaf), LeafHashes(leaves), << >>)

\* What a verifier computes from a leaf and its path.
RootFromPath(leaf, path) ==
  FoldLeft(LAMBDA hash, sibling : sort_and_concatenate_pair(hash, sibling),
           LeafHash(leaf), path)

-----------------------------------------------------------------------------
(* Roots of ranges of blocks. *)

LastBlock == Len(Blocks["main"])

EmptyRoot == {}

RootOf(leaves) == IF leaves = << >> THEN EmptyRoot ELSE generate_tree_root(leaves)

\* The root of the range on the chain that becomes final.
FinalLeaves(range) ==
  FlattenSeq([i \in 1 .. range[2] - range[1] + 1 |-> Blocks["main"][range[1] + i - 1]])

FinalRoot(range) == RootOf(FinalLeaves(range))

RootInit ==
  /\ node = [n \in Nodes |->
               [finalised |-> 0, view |-> [b \in 1 .. LastBlock |-> "main"],
                cache |-> [r \in Ranges |-> {}], job |-> NoJob]]
  /\ answers = {}

get_latest_finalised_block(n) == node[n].finalised

\* The consensus (external): a block becomes final, and the node's best chain
\* changes among the forks above it.
Finalise(n) ==
  /\ node[n].finalised < LastBlock
  /\ node' = [node EXCEPT ![n].finalised = @ + 1,
                          ![n].view[node[n].finalised + 1] = "main"]
  /\ UNCHANGED answers

Reorganise(n) ==
  \E b \in node[n].finalised + 1 .. LastBlock :
    /\ node' = [node EXCEPT ![n].view[b] = IF @ = "main" THEN "fork" ELSE "main"]
    /\ UNCHANGED answers

Begin(n, via, range) ==
  node' = [node EXCEPT ![n].job =
             [via |-> via, range |-> range, next |-> range[1], leaves |-> << >>,
              block |-> << >>, step |-> "read"]]

Answer(n, range, root, cache) ==
  /\ answers' = answers \cup {<<range, root>>}
  /\ node' = [node EXCEPT ![n].job = NoJob, ![n].cache = cache]

get_cached_summary(n, range) == node[n].cache[range]

set_cached_summary(n, range, root) == [node[n].cache EXCEPT ![range] = {root}]

\* Mutant of may_calculate: the end of the range may be one past the last
\* final block.
may_calculate_Next(n, from, to) ==
  /\ from <= to /\ to - from <= MAX_SCHEDULE_PERIOD
  /\ to <= node[n].finalised + 1

may_calculate(n, from, to) ==
  /\ from <= to /\ to - from <= MAX_SCHEDULE_PERIOD
  /\ to <= node[n].finalised

\* The RPC: only final ranges, from the cache if it has the root.
get_summary_calculation(n, range) ==
  /\ node[n].job = NoJob
  /\ may_calculate(n, range[1], range[2])
  /\ IF get_cached_summary(n, range) # {}
     THEN \E root \in get_cached_summary(n, range) :
            Answer(n, range, root, node[n].cache)
     ELSE Begin(n, "rpc", range) /\ UNCHANGED answers

\* The watchtower of the node: it asks for the last final block first and for
\* the root only of a range that is final.
roothash(n, range) ==
  /\ node[n].job = NoJob
  /\ range[2] <= get_latest_finalised_block(n)
  /\ Begin(n, "service", range)
  /\ UNCHANGED answers

\* get_signed_block: the block the node sees at the number is fetched; only
\* then is it checked that the number is final, and an error ends the request.
FetchBlock(n) ==
  /\ node[n].job # NoJob /\ node[n].job.step = "read"
  /\ LET b == node[n].job.next
     IN  node' = [node EXCEPT ![n].job.block = Blocks[node[n].view[b]][b],
                              ![n].job.step = "check"]
  /\ UNCHANGED answers

\* The extrinsics of the block are added; after the last block the root is
\* computed, and the RPC caches it.
process_extrinsics_in_block(n) ==
  /\ node[n].job # NoJob /\ node[n].job.step = "check"
  /\ LET job    == node[n].job
         leaves == job.leaves \o job.block
     IN  IF get_latest_finalised_block(n) < job.next
         THEN node' = [node EXCEPT ![n].job = NoJob] /\ UNCHANGED answers
         ELSE IF job.next < job.range[2]
         THEN /\ node' = [node EXCEPT ![n].job.leaves = leaves, ![n].job.step = "read",
                                      ![n].job.next = @ + 1]
              /\ UNCHANGED answers
         ELSE Answer(n, job.range, RootOf(leaves),
                     IF job.via = "rpc" THEN set_cached_summary(n, job.range, RootOf(leaves))
                     ELSE node[n].cache)

\* A cached root is older than CACHE_TTL_MS.
Expire(n) ==
  \E r \in Ranges :
    /\ node[n].cache[r] # {}
    /\ node' = [node EXCEPT ![n].cache[r] = {}]
    /\ UNCHANGED answers

RootNext(n) ==
  \/ Finalise(n) \/ Reorganise(n) \/ Expire(n)
  \/ FetchBlock(n) \/ process_extrinsics_in_block(n)
  \/ \E r \in Ranges : get_summary_calculation(n, r) \/ roothash(n, r)
=============================================================================
