---------------------------- MODULE NodeManager ----------------------------
(***************************************************************************)
(* pallet-node-manager: registered nodes report heartbeats, a reward       *)
(* period ends every so many blocks, and the oldest unpaid period is paid  *)
(* out of the reward pot in batches.                                       *)
(*                                                                         *)
(* On-chain state is changed by the hooks and calls of lib.rs; off-chain   *)
(* workers (offchain.rs) run on machines, read the state of one block and  *)
(* send unsigned transactions, which wait in `pool`, may be lost, and are  *)
(* checked again when a later block includes them.                         *)
(***************************************************************************)
EXTENDS NodeRegistry, SignedLifetime, FixedPoint, SequencesExt

CONSTANTS
  HashOrder,   \* the nodes in the order of their storage keys
  Authors,     \* machines of block authors
  Machines,    \* machines that run a node
  LocalKeys,   \* the signing keys in the keystore of a machine
  CliNode,     \* the node id given on the command line of a machine, or None
  None,        \* no value
  Registrations,          \* the registrations the registrar makes
  Removals,               \* the lists of nodes the registrar removes
  Settings,               \* the settings root makes
  Genesis,                \* the genesis configuration
  PotBalances,            \* initial balances of the reward pot
  BLOCK_INCLUSION_PERIOD, \* offchain.rs: blocks a transaction is given
  MaxBlock,               \* bound: the last block number
  WorkerBlocks,           \* bound: blocks on which the machines of nodes run
  ChangeBlocks,           \* bound: blocks with registrations, removals, settings
  MaxChanges,             \* bound: how many of them there are
  MaxPool                 \* bound: heartbeats waiting in the pool

ASSUME NodeManagerConstants ==
  /\ HashOrder \in [1..Cardinality(Nodes) -> Nodes]
  /\ IsInjective(HashOrder)
  /\ Genesis.reward_period > Genesis.heartbeat_period
  /\ Genesis.heartbeat_period > 0

VARIABLES
  now,      \* the block number
  nodes,    \* NodeRegistry, OwnedNodes, OwnedNodesCount, TotalRegisteredNodes
  config,   \* MaxBatchSize, HeartbeatPeriod, RewardAmount, RewardEnabled, ...
  period,   \* RewardPeriod
  uptime,   \* NodeUptime: for each period, the heartbeats of its nodes
  total,    \* TotalUptime
  pot,      \* RewardPot: the snapshot of a finished period
  oldest,   \* OldestUnpaidRewardPeriodIndex
  pointer,  \* LastPaidPointer
  balance,  \* the balance of the reward pot account
  nodeId,   \* machine: the node id in the local database
  cli,      \* machine: the node id of the command line, not yet taken over
  sent,     \* machine: (period, count) -> block of the last submission
  pool,     \* transactions sent and not yet included
  changes,  \* bound: registrations, removals and settings made
  beats,    \* history: heartbeats accepted, by period and node
  settled,  \* history: what became of the reward of a node, by period
  paid,     \* history: the amount paid, by period and node
  reward    \* history: reward amount and threshold when a period ended

chain == <<nodes, config, period, uptime, total, pot, oldest, pointer, balance>>
local == <<nodeId, cli, sent>>
past  == <<beats, settled, paid, reward>>
vars  == <<now, chain, local, pool, changes, past>>

\* The periods a run of MaxBlock blocks can reach.
Periods == 0..MaxBlock

---------------------------------------------------------------------------
(* Arithmetic.                                                             *)

\* Perbill * u32, the share given in percent: the nearest integer, and the
\* lower one of two that are as near.
PercentOf(share, n) ==
  LET q == (share * n) \div 100
      r == (share * n) % 100
  IN  IF 2 * r > 100 THEN q + 1 ELSE q

calculate_uptime_threshold(c, length) ==
  PercentOf(c.MinUptimeThreshold, length \div c.HeartbeatPeriod)

calculate_node_uptime(actual, threshold) ==
  IF actual >= threshold THEN threshold ELSE actual

calculate_reward(up, total_uptime, total_reward) ==
  bmul_bdiv(total_reward, up, total_uptime)

---------------------------------------------------------------------------
(* Genesis and the block.                                                  *)

\* get_default_threshold, in percent.
DefaultThreshold == 33

RewardPotInfo(total_reward, uptime_threshold) ==
  [total_reward |-> total_reward, uptime_threshold |-> uptime_threshold]

UptimeInfo(count, last_reported) == [count |-> count, last_reported |-> last_reported]

\* Behind it the iteration over a period goes on.
PaymentPointer(p, node) == [index |-> p, node |-> node]

\* The state of genesis, but for the register and three settings, after the
\* upgrade of the storage.
InitWith(register, version, registrar, enabled, threshold) ==
  /\ now = 0
  /\ nodes = on_runtime_upgrade(register, version, 4)
  /\ config = [MaxBatchSize |-> Genesis.max_batch_size,
               HeartbeatPeriod |-> Genesis.heartbeat_period,
               RewardAmount |-> Genesis.reward_amount,
               NodeRegistrar |-> registrar,
               RewardEnabled |-> enabled,
               MinUptimeThreshold |-> threshold]
  /\ period = [current |-> 0, first |-> 0, length |-> Genesis.reward_period,
               uptime_threshold |->
                 calculate_uptime_threshold(config, Genesis.reward_period)]
  /\ uptime = [p \in Periods |-> << >>]
  /\ total = [p \in Periods |-> 0]
  /\ pot = [p \in Periods |-> None]
  /\ oldest = 0
  /\ pointer = None
  /\ balance \in PotBalances
  /\ nodeId = [m \in Machines |-> None]
  /\ cli = CliNode
  /\ sent = [m \in Machines |-> << >>]
  /\ pool = {}
  /\ changes = 0
  /\ beats = [p \in Periods |-> [n \in Nodes |-> 0]]
  /\ settled = [p \in Periods |-> [n \in Nodes |-> "open"]]
  /\ paid = [p \in Periods |-> [n \in Nodes |-> 0]]
  /\ reward = [p \in Periods |-> None]

Init == InitWith(NoNodes, 4, None, FALSE, DefaultThreshold)

should_update(n) == SatSub(n, period.first) >= period.length

\* A new block: on_initialize ends the reward period when its length has
\* passed, and takes a snapshot of what is to be paid for it.  Submissions of
\* an earlier period, which no worker looks up again, are forgotten here.
on_initialize ==
  /\ now < MaxBlock
  /\ now' = now + 1
  /\ IF config.RewardEnabled /\ should_update(now')
     THEN /\ period' = [period EXCEPT
                !.current = @ + 1, !.first = now',
                !.uptime_threshold =
                  calculate_uptime_threshold(config, period.length)]
          /\ pot' = [pot EXCEPT ![period.current] =
                RewardPotInfo(config.RewardAmount, period.uptime_threshold)]
          /\ reward' = [reward EXCEPT ![period.current] =
                [amount |-> config.RewardAmount,
                 threshold |-> period.uptime_threshold]]
     ELSE UNCHANGED <<period, pot, reward>>
  /\ pool' = {IF tx.call = "heartbeat" THEN [tx EXCEPT !.fresh = FALSE] ELSE tx
                : tx \in pool}
  /\ sent' = [m \in Machines |->
        [k \in {k \in DOMAIN sent[m] : k[1] = period'.current} |-> sent[m][k]]]
  /\ UNCHANGED <<nodes, config, uptime, total, oldest, pointer, balance,
                 nodeId, cli, changes, beats, settled, paid>>

---------------------------------------------------------------------------
(* Calls of the registrar and of root.                                     *)

Change ==
  /\ changes < MaxChanges
  /\ now \in ChangeBlocks
  /\ changes' = changes + 1

register_node(sender, node, owner, signing_key) ==
  /\ Change
  /\ sender = config.NodeRegistrar
  /\ can_register(nodes, node)
  /\ nodes' = do_register_node(nodes, node, owner, signing_key)
  /\ UNCHANGED <<now, config, period, uptime, total, pot, oldest, pointer,
                 balance, local, pool, past>>

NodeManagerSignatureIsValid(proof, c) == verify_signature(proof, NodeManagerParam(proof, c))

\* The registrar's signature, submitted by the registrar or by proxy.
signed_register_node(sender, proof, c) ==
  LET who == DispatchedAs(sender, proof, NodeManagerSignatureIsValid(proof, c))
  IN  /\ signed_for(who, proof, encode_signed_register_node_params(proof.relayer, c), now)
      /\ register_node(who, c.node, c.owner, c.key)

deregister_nodes(sender, owner, list) ==
  /\ Change
  /\ sender = config.NodeRegistrar
  /\ can_deregister(nodes, owner, list)
  /\ nodes' = do_deregister_nodes(nodes, owner, list)
  /\ UNCHANGED <<now, config, period, uptime, total, pot, oldest, pointer,
                 balance, local, pool, past>>

signed_deregister_nodes(sender, proof, c) ==
  LET who == DispatchedAs(sender, proof, NodeManagerSignatureIsValid(proof, c))
  IN  /\ signed_for(who, proof, encode_signed_deregister_node_params(proof.relayer, c), now)
      /\ deregister_nodes(who, c.owner, c.list)

\* Whether root may make a setting.
setting_is_valid(field, value) ==
  CASE field = "RewardPeriod"       -> value > config.HeartbeatPeriod
    [] field = "MaxBatchSize"       -> value > 0
    [] field = "HeartbeatPeriod"    -> value > 0 /\ value < period.length
    [] field = "RewardAmount"       -> value > 0
    [] field \in {"RewardEnabled", "NodeRegistrar"} -> TRUE
    [] field = "MinUptimeThreshold" -> value > 0

set_admin_config(field, value) ==
  /\ Change
  /\ setting_is_valid(field, value)
  /\ IF field = "RewardPeriod"
     THEN /\ period' = [period EXCEPT !.length = value]
          /\ UNCHANGED config
     ELSE /\ config' = [config EXCEPT ![field] = value]
          /\ UNCHANGED period
  /\ UNCHANGED <<now, nodes, uptime, total, pot, oldest, pointer, balance,
                 local, pool, past>>
---------------------------------------------------------------------------
(* Heartbeats.                                                             *)

\* Mutant of validate_heartbeats: a heartbeat has to wait one block more.
validate_heartbeats_Late(node, index, count) ==
  /\ node \in Registered(nodes)
  /\ period.current = index
  /\ IF node \in DOMAIN uptime[index]
     THEN /\ uptime[index][node].count < period.uptime_threshold
          /\ now > uptime[index][node].last_reported + config.HeartbeatPeriod + 1
          /\ count = uptime[index][node].count
     ELSE count = 0

validate_heartbeats(node, index, count) ==
  /\ node \in Registered(nodes)
  /\ period.current = index
  /\ IF node \in DOMAIN uptime[index]
     THEN /\ uptime[index][node].count < period.uptime_threshold
          /\ now > uptime[index][node].last_reported + config.HeartbeatPeriod
          /\ count = uptime[index][node].count
     ELSE count = 0

\* Signed with the key the register holds for the node now.
offchain_signature_is_valid(tx) == tx.key = nodes.NodeRegistry[tx.node].signing_key

\* Run again when a block includes the transaction.  That of a payment carries
\* the signature of the author that sent it.
validate_unsigned(tx) ==
  /\ config.RewardEnabled
  /\ tx.call = "heartbeat" =>
       /\ validate_heartbeats(tx.node, tx.index, tx.count)
       /\ offchain_signature_is_valid(tx)

\* The block that includes a heartbeat is later than the one whose state the
\* worker read; the call checks validate_heartbeats once more.
offchain_submit_heartbeat(tx) ==
  /\ tx.call = "heartbeat"
  /\ ~ tx.fresh
  /\ validate_unsigned(tx)
  /\ LET p    == period.current
         seen == DOMAIN uptime[p] \cup {tx.node}
         more == UptimeInfo(IF tx.node \in DOMAIN uptime[p]
                            THEN uptime[p][tx.node].count + 1 ELSE 1, now)
     IN  /\ uptime' = [uptime EXCEPT ![p] =
               [n \in seen |-> IF n = tx.node THEN more ELSE uptime[p][n]]]
         /\ total' = [total EXCEPT ![p] = @ + 1]
         /\ beats' = [beats EXCEPT ![p][tx.node] = @ + 1]
  /\ pool' = pool \ {tx}
  /\ UNCHANGED <<now, nodes, config, period, pot, oldest, pointer, balance,
                 local, changes, settled, paid, reward>>

---------------------------------------------------------------------------
(* Payment of the oldest unpaid period.                                    *)

\* NodeUptime::iter_prefix: in the order of the storage keys.
Entries(p) == SelectSeq(HashOrder, LAMBDA n : n \in DOMAIN uptime[p])

Position(node) == CHOOSE i \in DOMAIN HashOrder : HashOrder[i] = node

\* Mutant of get_iterator_from_last_paid: the first node after the pointer
\* is passed over.
get_iterator_from_last_paid_Skip(p, last) ==
  SelectSeq(HashOrder, LAMBDA n :
    n \in DOMAIN uptime[p] /\ Position(n) > Position(last) + 1)

\* iter_prefix_from the key of the last node paid.
get_iterator_from_last_paid(p, last) ==
  SelectSeq(HashOrder, LAMBDA n :
    n \in DOMAIN uptime[p] /\ Position(n) > Position(last))

\* What pay_reward takes from the pot: a node that is no longer registered is
\* passed over.
pay_reward(node, amount) == IF node \in Registered(nodes) THEN amount ELSE 0

\* The period is closed: its total and its pot are removed.
complete_reward_payout(p) ==
  /\ oldest' = p + 1
  /\ pointer' = None
  /\ total' = [total EXCEPT ![p] = 0]
  /\ pot' = [pot EXCEPT ![p] = None]

\* `balance` is counted without the existential deposit.
reward_pot_balance == balance

\* A new payout starts only if the pot can pay all of it.
reward_pot_suffices(total_reward) == reward_pot_balance >= total_reward

remove_paid_nodes(p, nodes_paid) ==
  uptime' = [uptime EXCEPT ![p] = [n \in DOMAIN @ \ nodes_paid |-> @[n]]]

update_last_paid_pointer(p, batch) ==
  pointer' = IF batch = << >> THEN pointer ELSE PaymentPointer(p, Last(batch))

\* Mutant of reward_pot: the settings of today, not those of the period.
reward_pot_Today(p) ==
  [total_reward |-> config.RewardAmount,
   uptime_threshold |-> calculate_uptime_threshold(config, period.length)]

\* RewardPot of the period, or what the settings of today give.
reward_pot(p) ==
  IF pot[p] # None THEN pot[p]
  ELSE RewardPotInfo(config.RewardAmount, calculate_uptime_threshold(config, period.length))

\* Both of total and uptime are empty: nobody reported in the period.
NobodyReported(p) == total[p] = 0 /\ DOMAIN uptime[p] = {}

pay_empty_period(p) ==
  /\ NobodyReported(p)
  /\ complete_reward_payout(p)
  /\ UNCHANGED <<uptime, balance, settled, paid>>

\* What is left to pay of a period, and the next MaxBatchSize nodes of it.
Unpaid(p) ==
  IF pointer = None THEN Entries(p)
  ELSE get_iterator_from_last_paid(p, pointer.node)

Batch(p) == SubSeq(Unpaid(p), 1, Min({config.MaxBatchSize, Len(Unpaid(p))}))

\* The reward of each node of a batch, or Err.
Shares(p, batch) ==
  [n \in ToSet(batch) |->
     calculate_reward(
       calculate_node_uptime(uptime[p][n].count, reward_pot(p).uptime_threshold),
       total[p], reward_pot(p).total_reward)]

\* A `?` returns when a share cannot be computed or the pot cannot pay it; the
\* call is then rolled back, so that it pays the whole batch or nothing.
pay_batch(p) ==
  /\ total[p] > 0
  /\ DOMAIN uptime[p] # {}
  /\ IF pointer = None THEN reward_pot_suffices(reward_pot(p).total_reward)
     ELSE pointer.index = p /\ pointer.node \notin DOMAIN uptime[p]
  /\ \E batch \in {Batch(p)} : \E share \in {Shares(p, batch)} :
       /\ \A n \in DOMAIN share : share[n] # Err
       /\ balance' = balance -
            MapThenSumSet(LAMBDA n : pay_reward(n, share[n]), DOMAIN share)
       /\ balance' >= 0
       /\ settled' = [settled EXCEPT ![p] =
             [n \in Nodes |->
                CASE n \notin DOMAIN share      -> @[n]
                  [] @[n] # "open"              -> "twice"
                  [] n \notin Registered(nodes) -> "skipped"
                  [] OTHER                      -> "paid"]]
       /\ paid' = [paid EXCEPT ![p] =
             [n \in Nodes |->
                @[n] + IF n \in DOMAIN share THEN pay_reward(n, share[n]) ELSE 0]]
       /\ remove_paid_nodes(p, DOMAIN share)
       /\ IF Len(Unpaid(p)) > Len(batch)
          THEN /\ update_last_paid_pointer(p, batch)
               /\ UNCHANGED <<oldest, total, pot>>
          ELSE complete_reward_payout(p)

offchain_pay_nodes(tx) ==
  /\ tx.call = "pay"
  /\ validate_unsigned(tx)
  /\ tx.index = oldest /\ oldest < period.current
  /\ pool' = pool \ {tx}
  /\ UNCHANGED <<now, nodes, config, period, local, changes, beats, reward>>
  /\ pay_empty_period(tx.index) \/ pay_batch(tx.index)
===========================================================================
