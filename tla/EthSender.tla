----------------------------- MODULE EthSender -----------------------------
(***************************************************************************)
(* How a node talks to Ethereum: /eth/send, /eth/view and /eth/query of    *)
(* tnf-service, the nonce it keeps (web3_utils.rs), the keystore it signs  *)
(* from (keystore_utils.rs), restarts of the node, and Ethereum as the node*)
(* sees it (external).                                                     *)
(*                                                                         *)
(* A transaction is a request of the node's off-chain workers, sent from an*)
(* address with a nonce.  Of an address, `pending` holds the transactions  *)
(* that wait, nonce -> request, and `mined` the sequence of those in a     *)
(* block: its length is the account's transaction count.                   *)
(***************************************************************************)
EXTENDS Integers, Sequences, FiniteSets, TLAPS

CONSTANTS
  Requests,      \* the transactions the node is asked to send
  Keystores,     \* what the keystore may hold when the node starts
  Addresses,     \* the Ethereum addresses of the keys
  Urls,          \* the Ethereum nodes it may be started with
  ValidUrls,     \* those of them that are URLs
  NoNonce,       \* the nonce is not known yet
  NoBlock,       \* a transaction that is in no block
  WordSize,      \* values of an unsigned word, 2^64 in the code
  MaxSent,       \* bound: transactions Ethereum accepts from the node
  MaxHeight,     \* bound: Ethereum blocks
  MaxRestarts    \* bound: restarts of the node

VARIABLES
  service,   \* [url, keystore, web3, nonce] of the running node, or Down
  lock,      \* what holds web3_data_mutex
  eth,       \* [height, account: address -> [pending, mined]]
  replied,   \* history: the transactions whose hash was returned since the start
  told,      \* history: the last answer to a query
  restarts   \* bound: restarts so far

\* A node has one key for Ethereum; an unknown nonce and no block are no numbers.
ASSUME SenderAssumption ==
  /\ \A keystore \in Keystores :
       /\ {f.public : f \in {g \in keystore : g.type = "ethk"}} \subseteq Addresses
       /\ \A f, g \in keystore : f.type = "ethk" /\ g.type = "ethk" => f.public = g.public
  /\ NoNonce \notin Nat
  /\ NoBlock \notin Nat
  /\ \A url \in Urls : url # "none"

senderVars == <<service, lock, eth, replied, told, restarts>>

Free == [by |-> "free"]
Down == [url |-> "none"]

Started(url, keystore) ==
  [url |-> url, keystore |-> keystore, web3 |-> FALSE, nonce |-> NoNonce]

SenderInit ==
  /\ \E url \in Urls, keystore \in Keystores : service = Started(url, keystore)
  /\ lock = Free
  /\ eth = [height |-> 0,
            account |-> [a \in Addresses |-> [pending |-> << >>, mined |-> << >>]]]
  /\ replied = {} /\ told = NoBlock /\ restarts = 0

\* A node without a connection to make goes down: tnf-service is an essential
\* task.
setup_web3_connection(url) == url \in ValidUrls

initialise_web3 ==
  /\ service # Down /\ ~ service.web3 /\ lock = Free
  /\ service' = IF setup_web3_connection(service.url)
                THEN [service EXCEPT !.web3 = TRUE] ELSE Down
  /\ UNCHANGED <<lock, eth, replied, told, restarts>>

get_web3_instance == service # Down /\ service.web3

-----------------------------------------------------------------------------
(* keystore_utils.rs: a file is [type, public, readable].                  *)

raw_public_keys(type, keystore) == {f.public : f \in {g \in keystore : g.type = type}}

\* The first file of the directory, in whatever order it is listed.
get_eth_address_bytes_from_keystore(keystore) == raw_public_keys("ethk", keystore)

key_phrase_by_type(address, type, keystore) ==
  {f \in keystore : f.type = type /\ f.public = address}

get_priv_key(keystore, address) ==
  \E f \in key_phrase_by_type(address, "ethk", keystore) : f.readable

-----------------------------------------------------------------------------
(* Sending.                                                                *)

mined(a) == eth.account[a].mined
pending(a) == eth.account[a].pending

get_nonce_from_ethereum(a) == Len(mined(a))

get_nonce(a, force) ==
  IF force \/ service.nonce = NoNonce THEN get_nonce_from_ethereum(a) ELSE service.nonce

\* Ethereum's answers to a raw transaction (external): refused when its nonce
\* was mined; when its nonce waits, it is refused or takes the other's place.
Answers(a, n) ==
  CASE n < Len(mined(a)) -> {"nonce too low"}
    [] n \in DOMAIN pending(a) -> {"underpriced", "accepted"}
    [] OTHER -> {"accepted"}

error_due_to_low_nonce(answer) == answer = "nonce too low"

InBound ==
  \A a \in Addresses : Len(mined(a)) + Cardinality(DOMAIN pending(a)) < MaxSent

send_raw_transaction(a, n, request) ==
  eth' = [eth EXCEPT !.account[a].pending =
            [k \in DOMAIN @ \cup {n} |-> IF k = n THEN request ELSE @[k]]]

\* Mutant of NonceAfter: a failed attempt uses up its nonce too.
NonceAfter_Always(n, accepted) == n + 1

\* increment_nonce, which only an attempt that succeeded reaches.
NonceAfter(n, accepted) == IF accepted THEN n + 1 ELSE n

Ends(n, accepted) ==
  /\ lock' = Free
  /\ service' = [service EXCEPT !.nonce = NonceAfter(n, accepted)]

\* build_raw_transaction reads the nonce and estimates the gas before anything
\* is sent; either question may fail, the first before the nonce is known.
build_raw_transaction(a, n) ==
  /\ lock' = Free
  /\ service' \in {service, [service EXCEPT !.nonce = NonceAfter(n, FALSE)]}
  /\ UNCHANGED <<eth, replied>>

\* send_tx: the nonce goes up only after an answer that the transaction was
\* accepted; when the answer gets lost the request fails although the
\* transaction may wait.
send_tx(a, request, n, again) ==
  \/ build_raw_transaction(a, n)
  \/ /\ "accepted" \in Answers(a, n) /\ InBound
     /\ send_raw_transaction(a, n, request)
     /\ \/ /\ Ends(n, TRUE)
           /\ replied' = replied \cup {[address |-> a, nonce |-> n, request |-> request]}
        \/ Ends(n, FALSE) /\ UNCHANGED replied
  \/ \E answer \in Answers(a, n) \ {"accepted"} :
       /\ IF error_due_to_low_nonce(answer) /\ again
          THEN /\ lock' = [by |-> "send", request |-> request, address |-> a]
               /\ service' = [service EXCEPT !.nonce = n]
          ELSE Ends(n, FALSE)
       /\ UNCHANGED <<eth, replied>>

\* The lock is only tried: a request that finds it taken fails at once.
send_main(request) ==
  /\ get_web3_instance /\ lock = Free
  /\ \E a \in get_eth_address_bytes_from_keystore(service.keystore) :
       /\ get_priv_key(service.keystore, a)
       /\ send_tx(a, request, get_nonce(a, FALSE), TRUE)
  /\ UNCHANGED <<told, restarts>>

\* The attempt that is told its nonce is too low makes one more, with the nonce
\* that Ethereum counts.
resend ==
  /\ lock.by = "send"
  /\ send_tx(lock.address, lock.request, get_nonce(lock.address, TRUE), FALSE)
  /\ UNCHANGED <<told, restarts>>

-----------------------------------------------------------------------------
(* Views and queries.                                                      *)

\* /eth/view: the lock is held while Ethereum works.
view_main ==
  /\ get_web3_instance /\ lock = Free
  /\ lock' = [by |-> "view"]
  /\ UNCHANGED <<service, eth, replied, told, restarts>>

view_answered ==
  /\ lock.by = "view" /\ lock' = Free
  /\ UNCHANGED <<service, eth, replied, told, restarts>>

get_current_block_number == eth.height

\* The block of a transaction, for its receipt and its call data.
BlockOf(tx) ==
  IF tx.nonce < Len(mined(tx.address)) /\ mined(tx.address)[tx.nonce + 1].request = tx.request
  THEN mined(tx.address)[tx.nonce + 1].block ELSE NoBlock

\* num_confirmations, a difference of two unsigned words.
to_eth_query_response(current, block) ==
  (current - IF block = NoBlock THEN 0 ELSE block) % WordSize

\* A transaction that is not in a block yet has call data and no receipt.
get_call_data(tx, current) == to_eth_query_response(current, BlockOf(tx))

get_tx_receipt(tx, current) ==
  IF BlockOf(tx) = NoBlock THEN NoBlock ELSE to_eth_query_response(current, BlockOf(tx))

\* /eth/query asks for the latest block first and for the transaction then.
tx_query_main(tx, type) ==
  /\ get_web3_instance /\ lock = Free
  /\ lock' = [by |-> "query", tx |-> tx, type |-> type, current |-> get_current_block_number]
  /\ told' = NoBlock
  /\ UNCHANGED <<service, eth, replied, restarts>>

query_answered ==
  /\ lock.by = "query"
  /\ \/ told' = [block |-> BlockOf(lock.tx),
                 confirmations |-> IF lock.type = "CallData"
                                   THEN get_call_data(lock.tx, lock.current)
                                   ELSE get_tx_receipt(lock.tx, lock.current)]
     \/ UNCHANGED told  \* Ethereum does not answer
  /\ lock' = Free
  /\ UNCHANGED <<service, eth, replied, restarts>>

-----------------------------------------------------------------------------
\* Ethereum makes a block, with or without the transaction that is next.
NewBlock ==
  /\ eth.height < MaxHeight
  /\ \/ eth' = [eth EXCEPT !.height = @ + 1]
     \/ \E a \in Addresses :
          LET n == Len(mined(a))
          IN  /\ n \in DOMAIN pending(a)
              /\ eth' = [eth EXCEPT !.height = @ + 1,
                   !.account[a] =
                     [pending |-> [k \in DOMAIN @.pending \ {n} |-> @.pending[k]],
                      mined |-> Append(@.mined, [request |-> @.pending[n],
                                                 block |-> eth.height + 1])]]
  /\ UNCHANGED <<service, lock, replied, told, restarts>>

\* The node stops and starts again, perhaps with another keystore or Ethereum
\* node; what it sent may still wait, the nonce is forgotten.
Restart ==
  /\ restarts < MaxRestarts
  /\ restarts' = restarts + 1
  /\ \E url \in Urls, keystore \in Keystores : service' = Started(url, keystore)
  /\ lock' = Free /\ replied' = {} /\ told' = NoBlock
  /\ UNCHANGED eth

SenderNext ==
  \/ initialise_web3
  \/ \E r \in Requests : send_main(r)
  \/ resend
  \/ view_main \/ view_answered
  \/ \E tx \in replied, type \in {"CallData", "TransactionReceipt"} : tx_query_main(tx, type)
  \/ query_answered
  \/ NewBlock \/ Restart

-----------------------------------------------------------------------------
\* The transactions that wait have the nonces that come next, without a gap:
\* none of them waits for a transaction the node never sent.
NoncesHaveNoGaps ==
  \A a \in Addresses : \A k \in DOMAIN pending(a) :
    \A j \in Len(mined(a)) .. k : j \in DOMAIN pending(a)

\* A transaction whose hash was returned to the caller is waiting or mined: no
\* later one of the same node takes its place, until the node restarts.
ReturnedHashesStay ==
  \A x \in replied :
    \/ BlockOf(x) # NoBlock
    \/ x.nonce \in DOMAIN pending(x.address) /\ pending(x.address)[x.nonce] = x.request

\* What the node has sent neither waits in vain nor gets lost, until the node
\* restarts.
SentTransactionsStay == NoncesHaveNoGaps /\ ReturnedHashesStay

\* A receipt never counts more blocks on top of the transaction than there are
\* by now.
ConfirmationsAreReal ==
  told # NoBlock /\ told.block # NoBlock => told.confirmations <= eth.height - told.block

-----------------------------------------------------------------------------
(* Proofs *)

Mined == [request : Requests, block : Nat]
Waiting == UNION {[D -> Requests] : D \in SUBSET Nat}
Account == [pending : Waiting, mined : Seq(Mined)]

EthType == eth \in [height : Nat, account : [Addresses -> Account]]

\* The nonce is only known once there is a connection.
ServiceType ==
  service # Down =>
    /\ service \in [url : Urls, keystore : Keystores, web3 : BOOLEAN, nonce : Nat \cup {NoNonce}]
    /\ ~ service.web3 => service.nonce = NoNonce

Keys == get_eth_address_bytes_from_keystore(service.keystore)

\* The nonce is known.
Counts == service # Down /\ service.nonce # NoNonce

\* Up to the nonce that is kept, all nonces wait or are mined.
Backlog ==
  Counts => \A a \in Keys : \A j \in Nat :
              Len(mined(a)) <= j /\ j < service.nonce => j \in DOMAIN pending(a)

\* What was returned has a nonce below the one that is kept.
Replies ==
  \A x \in replied :
    /\ Counts
    /\ x \in [address : Keys, nonce : Nat, request : Requests]
    /\ x.nonce < service.nonce

\* A second attempt is made only when Ethereum is ahead of the nonce.
Retry ==
  lock.by = "send" =>
    /\ Counts
    /\ lock.address \in Keys
    /\ lock.request \in Requests
    /\ service.nonce < Len(mined(lock.address))

SenderInv ==
  EthType /\ ServiceType /\ Backlog /\ Replies /\ Retry /\ SentTransactionsStay

-----------------------------------------------------------------------------
(* Ethereum's accounts *)

\* One key, and it is an address.
LEMMA OneKey ==
  ASSUME ServiceType, service # Down
  PROVE  /\ \A a \in Keys : a \in Addresses
         /\ \A a, b \in Keys : a = b
<1>1. service.keystore \in Keystores
  BY DEF ServiceType
<1>2. QED
  BY <1>1, SenderAssumption DEF Keys, get_eth_address_bytes_from_keystore, raw_public_keys

LEMMA WaitingType ==
  ASSUME NEW D \in SUBSET Nat, NEW f \in [D -> Requests]
  PROVE  f \in Waiting
BY Zenon DEF Waiting

\* What an address has: transactions that wait and transactions that are mined.
LEMMA AccountTypes ==
  ASSUME EthType, NEW a \in Addresses
  PROVE  /\ mined(a) \in Seq(Mined) /\ Len(mined(a)) \in Nat
         /\ DOMAIN pending(a) \subseteq Nat
         /\ \A k \in DOMAIN pending(a) : pending(a)[k] \in Requests
<1>1. eth.account[a] \in Account
  BY DEF EthType
<1>2. mined(a) \in Seq(Mined)
  BY <1>1 DEF Account, mined
<1>3. PICK D \in SUBSET Nat : pending(a) \in [D -> Requests]
  BY <1>1 DEF Account, Waiting, pending
<1>4. QED
  BY <1>2, <1>3

\* A transaction that is accepted waits, and nothing else changes.
LEMMA SendEffect ==
  ASSUME EthType, NEW a \in Addresses, NEW n \in Nat, NEW r \in Requests,
         send_raw_transaction(a, n, r)
  PROVE  /\ EthType'
         /\ \A b \in Addresses : mined(b)' = mined(b)
         /\ \A b \in Addresses : b # a => pending(b)' = pending(b)
         /\ DOMAIN (pending(a)') = DOMAIN pending(a) \cup {n}
         /\ (pending(a)')[n] = r
         /\ \A k \in DOMAIN pending(a) : k # n => (pending(a)')[k] = pending(a)[k]
<1> DEFINE p == [k \in DOMAIN pending(a) \cup {n} |-> IF k = n THEN r ELSE pending(a)[k]]
<1>1. eth' = [eth EXCEPT !.account[a].pending = p]
  BY DEF send_raw_transaction, pending
<1>2. p \in Waiting
  <2>1. p \in [DOMAIN pending(a) \cup {n} -> Requests] /\ DOMAIN pending(a) \cup {n} \subseteq Nat
    BY AccountTypes
  <2>2. QED
    BY Zenon, <2>1, WaitingType
<1> HIDE DEF p
<1>3. eth.account \in [Addresses -> Account] /\ eth.account[a] \in Account
  BY DEF EthType
<1>4. /\ eth'.height = eth.height
      /\ eth'.account = [eth.account EXCEPT ![a].pending = p]
      /\ eth' = [height |-> eth'.height, account |-> eth'.account]
  BY <1>1 DEF EthType
<1>5. /\ eth'.account[a].pending = p
      /\ eth'.account[a].mined = eth.account[a].mined
      /\ \A b \in Addresses : b # a => eth'.account[b] = eth.account[b]
  BY <1>3, <1>4 DEF Account
<1>6. eth'.account \in [Addresses -> Account]
  BY <1>2, <1>3, <1>4 DEF Account
<1>7. EthType'
  BY <1>4, <1>6 DEF EthType
<1>8. QED
  BY <1>5, <1>7 DEF mined, pending, p

\* A transaction that is mined leaves those that wait.
LEMMA MineEffect ==
  ASSUME EthType, NewBlock
  PROVE  /\ EthType'
         /\ \/ \A b \in Addresses : mined(b)' = mined(b) /\ pending(b)' = pending(b)
            \/ \E a \in Addresses :
                 /\ Len(mined(a)) \in DOMAIN pending(a)
                 /\ \A b \in Addresses : b # a => mined(b)' = mined(b) /\ pending(b)' = pending(b)
                 /\ DOMAIN (pending(a)') = DOMAIN pending(a) \ {Len(mined(a))}
                 /\ \A k \in DOMAIN (pending(a)') : (pending(a)')[k] = pending(a)[k]
                 /\ mined(a)' = Append(mined(a), [request |-> pending(a)[Len(mined(a))],
                                                  block |-> eth.height + 1])
<1>1. eth.height \in Nat /\ eth.account \in [Addresses -> Account]
  BY DEF EthType
<1>2. CASE eth' = [eth EXCEPT !.height = @ + 1]
  BY <1>1, <1>2 DEF EthType, mined, pending
<1>3. CASE eth' # [eth EXCEPT !.height = @ + 1]
  <2>1. PICK a \in Addresses :
          /\ Len(mined(a)) \in DOMAIN pending(a)
          /\ eth' = [eth EXCEPT !.height = @ + 1,
                       !.account[a] =
                         [pending |-> [k \in DOMAIN @.pending \ {Len(mined(a))} |-> @.pending[k]],
                          mined |-> Append(@.mined, [request |-> @.pending[Len(mined(a))],
                                                     block |-> eth.height + 1])]]
    BY <1>3 DEF NewBlock
  <2> DEFINE p == [k \in DOMAIN pending(a) \ {Len(mined(a))} |-> pending(a)[k]]
             q == Append(mined(a), [request |-> pending(a)[Len(mined(a))],
                                    block |-> eth.height + 1])
  <2>2. eth' = [eth EXCEPT !.height = @ + 1, !.account[a] = [pending |-> p, mined |-> q]]
    BY <2>1 DEF mined, pending
  <2>3. p \in Waiting
    <3>1. /\ p \in [DOMAIN pending(a) \ {Len(mined(a))} -> Requests]
          /\ DOMAIN pending(a) \ {Len(mined(a))} \in SUBSET Nat
      BY AccountTypes
    <3>2. QED
      BY Zenon, <3>1, WaitingType
  <2>4. q \in Seq(Mined)
    <3>1. pending(a)[Len(mined(a))] \in Requests /\ mined(a) \in Seq(Mined)
      BY <2>1, AccountTypes
    <3>2. [request |-> pending(a)[Len(mined(a))], block |-> eth.height + 1] \in Mined
      BY <1>1, <3>1 DEF Mined
    <3>3. QED
      BY <3>1, <3>2
  <2> HIDE DEF p, q
  <2>5. /\ eth'.height = eth.height + 1
        /\ eth'.account = [eth.account EXCEPT ![a] = [pending |-> p, mined |-> q]]
        /\ eth' = [height |-> eth'.height, account |-> eth'.account]
    BY <2>2 DEF EthType
  <2>6. EthType'
    <3>1. [pending |-> p, mined |-> q] \in Account
      BY <2>3, <2>4 DEF Account
    <3>2. eth'.account \in [Addresses -> Account] /\ eth'.height \in Nat
      BY <1>1, <2>5, <3>1
    <3>3. QED
      BY <2>5, <3>2 DEF EthType
  <2>7. /\ mined(a)' = q /\ pending(a)' = p
        /\ \A b \in Addresses : b # a => mined(b)' = mined(b) /\ pending(b)' = pending(b)
    BY <1>1, <2>5 DEF mined, pending
  <2>8. /\ DOMAIN p = DOMAIN pending(a) \ {Len(mined(a))}
        /\ \A k \in DOMAIN p : p[k] = pending(a)[k]
    BY DEF p
  <2>9. QED
    BY <2>1, <2>6, <2>7, <2>8 DEF q
<1>4. QED
  BY Zenon, <1>2, <1>3

-----------------------------------------------------------------------------
(* The invariant *)

\* The transactions that were returned stay: waiting or mined.
Stays(x) ==
  \/ BlockOf(x) # NoBlock
  \/ x.nonce \in DOMAIN pending(x.address) /\ pending(x.address)[x.nonce] = x.request

\* Neither a new transaction nor one that is mined makes a returned one go.
LEMMA SendStays ==
  ASSUME EthType, NEW a \in Addresses, NEW n \in Nat, NEW r \in Requests,
         send_raw_transaction(a, n, r),
         NEW x \in [address : Addresses, nonce : Nat, request : Requests], Stays(x),
         x.address = a => x.nonce # n
  PROVE  Stays(x)'
<1>1. BlockOf(x)' = BlockOf(x)
  BY SendEffect DEF BlockOf
<1>2. CASE BlockOf(x) # NoBlock
  BY <1>1, <1>2 DEF Stays
<1>3. CASE BlockOf(x) = NoBlock
  <2>1. x.nonce \in DOMAIN pending(x.address) /\ pending(x.address)[x.nonce] = x.request
    BY <1>3 DEF Stays
  <2>2. CASE x.address = a
    <3>1. /\ DOMAIN (pending(a)') = DOMAIN pending(a) \cup {n}
          /\ \A k \in DOMAIN pending(a) : k # n => (pending(a)')[k] = pending(a)[k]
      BY Zenon, SendEffect
    <3>2. x.nonce \in DOMAIN (pending(a)') /\ (pending(a)')[x.nonce] = x.request
      BY <2>1, <2>2, <3>1
    <3>3. QED
      BY Zenon, <2>2, <3>2 DEF Stays
  <2>3. CASE x.address # a
    <3>1. pending(x.address)' = pending(x.address)
      BY <2>3, SendEffect
    <3>2. QED
      BY Zenon, <2>1, <3>1 DEF Stays
  <2>4. QED
    BY Zenon, <2>2, <2>3
<1>4. QED
  BY <1>2, <1>3

LEMMA MineStays ==
  ASSUME EthType, NewBlock,
         NEW x \in [address : Addresses, nonce : Nat, request : Requests], Stays(x)
  PROVE  Stays(x)'
<1>1. CASE \A b \in Addresses : mined(b)' = mined(b) /\ pending(b)' = pending(b)
  BY <1>1 DEF Stays, BlockOf
<1>2. CASE ~ \A b \in Addresses : mined(b)' = mined(b) /\ pending(b)' = pending(b)
  <2>1. PICK a \in Addresses :
          /\ Len(mined(a)) \in DOMAIN pending(a)
          /\ \A b \in Addresses : b # a => mined(b)' = mined(b) /\ pending(b)' = pending(b)
          /\ DOMAIN (pending(a)') = DOMAIN pending(a) \ {Len(mined(a))}
          /\ \A k \in DOMAIN (pending(a)') : (pending(a)')[k] = pending(a)[k]
          /\ mined(a)' = Append(mined(a), [request |-> pending(a)[Len(mined(a))],
                                           block |-> eth.height + 1])
    BY Zenon, <1>2, MineEffect
  <2>2. CASE x.address # a
    BY <2>1, <2>2 DEF Stays, BlockOf
  <2>3. CASE x.address = a
    <3> DEFINE last == [request |-> pending(a)[Len(mined(a))], block |-> eth.height + 1]
    <3>1. mined(a) \in Seq(Mined) /\ Len(mined(a)) \in Nat /\ eth.height \in Nat
      BY AccountTypes DEF EthType
    <3>2. /\ Len(mined(a)') = Len(mined(a)) + 1
          /\ (mined(a)')[Len(mined(a)) + 1] = last
          /\ \A i \in 1 .. Len(mined(a)) : (mined(a)')[i] = mined(a)[i]
      BY <2>1, <3>1
    <3>3. last.block # NoBlock /\ last.request = pending(a)[Len(mined(a))]
      BY <3>1, SenderAssumption
    <3> HIDE DEF last
    <3>4. CASE x.nonce < Len(mined(a))
      <4>1. (mined(a)')[x.nonce + 1] = mined(a)[x.nonce + 1]
        BY <3>1, <3>2, <3>4
      <4>2. x.nonce < Len(mined(a)')
        BY <3>1, <3>2, <3>4
      <4>3. CASE BlockOf(x) # NoBlock
        BY <2>3, <3>4, <4>1, <4>2, <4>3 DEF Stays, BlockOf
      <4>4. CASE x.nonce \in DOMAIN pending(a) /\ pending(a)[x.nonce] = x.request
        BY <2>1, <2>3, <3>1, <3>4, <4>4 DEF Stays
      <4>5. QED
        BY <2>3, <4>3, <4>4 DEF Stays
    <3>5. CASE x.nonce = Len(mined(a))
      <4>1. BlockOf(x) = NoBlock
        BY <2>3, <3>1, <3>5 DEF BlockOf
      <4>2. pending(a)[x.nonce] = x.request
        BY <2>3, <4>1 DEF Stays
      <4>3. BlockOf(x)' # NoBlock
        BY <2>3, <3>1, <3>2, <3>3, <3>5, <4>2 DEF BlockOf
      <4>4. QED
        BY Zenon, <4>3 DEF Stays
    <3>6. CASE x.nonce > Len(mined(a))
      <4>1. BlockOf(x) = NoBlock
        BY <2>3, <3>1, <3>6 DEF BlockOf
      <4>2. x.nonce \in DOMAIN pending(a) /\ pending(a)[x.nonce] = x.request
        BY <2>3, <4>1 DEF Stays
      <4>3. x.nonce \in DOMAIN (pending(a)') /\ (pending(a)')[x.nonce] = x.request
        BY <2>1, <3>1, <3>6, <4>2
      <4>4. QED
        BY Zenon, <2>3, <4>3 DEF Stays
    <3>7. QED
      BY <3>1, <3>4, <3>5, <3>6
  <2>4. QED
    BY Zenon, <2>2, <2>3
<1>3. QED
  BY Zenon, <1>1, <1>2

\* send_tx, with a nonce that leaves no gap and was not used for a transaction
\* that was returned.
LEMMA SendTxKeeps ==
  ASSUME SenderInv, service # Down, service.web3, NEW a \in Keys, NEW r \in Requests, NEW n \in Nat,
         NEW again \in BOOLEAN,
         \A j \in Nat : Len(mined(a)) <= j /\ j < n => j \in DOMAIN pending(a),
         \A x \in replied : x.nonce < n,
         send_tx(a, r, n, again)
  PROVE  SenderInv'
<1>1. /\ a \in Addresses /\ \A b \in Keys : b = a
      /\ Len(mined(a)) \in Nat
  BY OneKey, AccountTypes DEF SenderInv
<1>2. \A x \in replied :
        /\ x \in [address : Addresses, nonce : Nat, request : Requests]
        /\ x.address = a /\ Stays(x)
  BY <1>1 DEF SenderInv, Replies, SentTransactionsStay, ReturnedHashesStay, Stays
<1>3. /\ service \in [url : Urls, keystore : Keystores, web3 : BOOLEAN, nonce : Nat \cup {NoNonce}]
      /\ EthType
  BY DEF SenderInv, ServiceType
\* The nonce that is kept afterwards.
<1>4. ASSUME NEW k \in Nat, service' = [service EXCEPT !.nonce = k]
      PROVE  /\ ServiceType' /\ Counts' /\ service'.nonce = k /\ Keys' = Keys
  <2>1. /\ service' \in [url : Urls, keystore : Keystores, web3 : BOOLEAN, nonce : Nat \cup {NoNonce}]
        /\ service'.nonce = k /\ service'.keystore = service.keystore
        /\ service'.url = service.url /\ service'.web3
    BY <1>3, <1>4
  <2>2. service' # Down
    <3>1. service'.url # "none"
      BY <2>1, SenderAssumption
    <3>2. QED
      BY <3>1 DEF Down
  <2>3. k # NoNonce
    BY SenderAssumption
  <2>4. QED
    BY <2>1, <2>2, <2>3 DEF ServiceType, Counts, Keys
\* Nothing was sent, and the nonce is kept or becomes n.
<1>5. ASSUME UNCHANGED <<eth, replied>>, lock' = Free,
             service' = service \/ service' = [service EXCEPT !.nonce = n]
      PROVE  SenderInv'
  <2>1. EthType' /\ SentTransactionsStay'
    BY <1>5 DEF SenderInv, EthType, SentTransactionsStay, NoncesHaveNoGaps, ReturnedHashesStay,
                BlockOf, mined, pending
  <2>2. Retry'
    BY <1>5 DEF Retry, Free
  <2>3. CASE service' = service
    BY <1>5, <2>1, <2>2, <2>3 DEF SenderInv, ServiceType, Backlog, Replies, Counts, Keys,
                                  mined, pending
  <2>4. CASE service' = [service EXCEPT !.nonce = n]
    <3>1. ServiceType' /\ Counts' /\ service'.nonce = n /\ Keys' = Keys
      BY Zenon, <1>4, <2>4
    <3>2. Backlog'
      BY <1>1, <1>5, <3>1 DEF Backlog, mined, pending
    <3>3. Replies'
      BY <1>5, <3>1 DEF SenderInv, Replies
    <3>4. QED
      BY Zenon, <2>1, <2>2, <3>1, <3>2, <3>3 DEF SenderInv
  <2>5. QED
    BY Zenon, <1>5, <2>3, <2>4
\* The transaction was accepted.
<1>6. ASSUME NEW k \in {n, n + 1}, send_raw_transaction(a, n, r), lock' = Free,
             service' = [service EXCEPT !.nonce = k],
             \A x \in replied' : \/ x \in replied
                                 \/ k = n + 1 /\ x = [address |-> a, nonce |-> n, request |-> r]
      PROVE  SenderInv'
  <2> k \in Nat
    OBVIOUS
  <2>1. ServiceType' /\ Counts' /\ service'.nonce = k /\ Keys' = Keys
    BY Zenon, <1>4, <1>6
  <2>2. /\ EthType'
        /\ \A b \in Addresses : mined(b)' = mined(b)
        /\ \A b \in Addresses : b # a => pending(b)' = pending(b)
        /\ DOMAIN (pending(a)') = DOMAIN pending(a) \cup {n}
        /\ (pending(a)')[n] = r
    BY Zenon, <1>1, <1>3, <1>6, SendEffect
  <2>3. Backlog'
    <3> SUFFICES ASSUME NEW j \in Nat, Len(mined(a)') <= j, j < k
                 PROVE  j \in DOMAIN (pending(a)')
      BY <1>1, <2>1 DEF Backlog
    <3>1. Len(mined(a)) <= j /\ (j < n \/ j = n)
      BY <1>1, <1>6, <2>2
    <3>2. QED
      BY <2>2, <3>1
  <2>4. Replies'
    <3> SUFFICES ASSUME NEW x \in replied'
                 PROVE  x \in [address : Keys, nonce : Nat, request : Requests] /\ x.nonce < k
      BY Zenon, <2>1 DEF Replies
    <3>1. CASE x \in replied
      <4>1. x \in [address : Keys, nonce : Nat, request : Requests] /\ x.nonce < n
        BY Zenon, <3>1 DEF SenderInv, Replies
      <4>2. QED
        BY <1>6, <4>1
    <3>2. CASE k = n + 1 /\ x = [address |-> a, nonce |-> n, request |-> r]
      BY <3>2
    <3>3. QED
      BY Zenon, <1>6, <3>1, <3>2
  <2>5. Retry'
    BY <1>6 DEF Retry, Free
  <2>6. NoncesHaveNoGaps'
    <3> SUFFICES ASSUME NEW b \in Addresses, NEW i \in DOMAIN (pending(b)'),
                        NEW j \in Len(mined(b)') .. i
                 PROVE  j \in DOMAIN (pending(b)')
      BY DEF NoncesHaveNoGaps
    <3>1. \A c \in Addresses : \A l \in DOMAIN pending(c) :
            \A h \in Len(mined(c)) .. l : h \in DOMAIN pending(c)
      BY DEF SenderInv, SentTransactionsStay, NoncesHaveNoGaps
    <3>2. mined(b)' = mined(b)
      BY Zenon, <2>2
    <3>3. CASE b # a
      <4>1. pending(b)' = pending(b)
        BY Zenon, <2>2, <3>3
      <4>2. QED
        BY <3>1, <3>2, <4>1
    <3>4. CASE b = a /\ i \in DOMAIN pending(a)
      BY <2>2, <3>1, <3>2, <3>4
    <3>5. CASE b = a /\ i = n
      <4>1. j \in Nat /\ Len(mined(a)) <= j /\ (j < n \/ j = n)
        BY <1>1, <3>2, <3>5
      <4>2. QED
        BY <2>2, <3>5, <4>1
    <3>6. QED
      BY <2>2, <3>3, <3>4, <3>5
  <2>7. ReturnedHashesStay'
    <3> SUFFICES ASSUME NEW x \in replied'
                 PROVE  Stays(x)'
      BY Zenon DEF ReturnedHashesStay, Stays
    <3>1. CASE x \in replied
      <4>1. x.nonce # n
        BY <1>2, <3>1
      <4>2. QED
        BY Zenon, <1>1, <1>2, <1>3, <1>6, <3>1, <4>1, SendStays
    <3>2. CASE k = n + 1 /\ x = [address |-> a, nonce |-> n, request |-> r]
      <4>1. x.address = a /\ x.nonce = n /\ x.request = r
        BY <3>2
      <4>2. QED
        BY <2>2, <4>1 DEF Stays
    <3>3. QED
      BY Zenon, <1>6, <3>1, <3>2
  <2>8. QED
    BY Zenon, <2>1, <2>2, <2>3, <2>4, <2>5, <2>6, <2>7 DEF SenderInv, SentTransactionsStay
\* Ethereum has counted further than the node: it tries again.
<1>7. ASSUME UNCHANGED <<eth, replied>>, n < Len(mined(a)),
             lock' = [by |-> "send", request |-> r, address |-> a],
             service' = [service EXCEPT !.nonce = n]
      PROVE  SenderInv'
  <2>1. ServiceType' /\ Counts' /\ service'.nonce = n /\ Keys' = Keys
    BY Zenon, <1>4, <1>7
  <2>2. EthType' /\ SentTransactionsStay'
    BY <1>7 DEF SenderInv, EthType, SentTransactionsStay, NoncesHaveNoGaps, ReturnedHashesStay,
                BlockOf, mined, pending
  <2>3. Backlog'
    BY <1>1, <1>7, <2>1 DEF Backlog, mined, pending
  <2>4. Replies'
    BY <1>7, <2>1 DEF SenderInv, Replies
  <2>5. Retry'
    <3>1. lock'.address = a /\ lock'.request = r
      BY <1>7
    <3>2. QED
      BY <1>7, <2>1, <3>1 DEF Retry, mined
  <2>6. QED
    BY Zenon, <2>1, <2>2, <2>3, <2>4, <2>5 DEF SenderInv
<1>8. CASE build_raw_transaction(a, n)
  <2>1. service' = service \/ service' = [service EXCEPT !.nonce = n]
    BY <1>8 DEF build_raw_transaction, NonceAfter
  <2>2. QED
    BY Zenon, <1>5, <1>8, <2>1 DEF build_raw_transaction
<1>9. CASE /\ send_raw_transaction(a, n, r)
           /\ Ends(n, TRUE)
           /\ replied' = replied \cup {[address |-> a, nonce |-> n, request |-> r]}
  <2>1. lock' = Free /\ service' = [service EXCEPT !.nonce = n + 1]
    BY <1>9 DEF Ends, NonceAfter
  <2>2. QED
    BY Zenon, <1>6, <1>9, <2>1, n + 1 \in {n, n + 1}
<1>10. CASE send_raw_transaction(a, n, r) /\ Ends(n, FALSE) /\ UNCHANGED replied
  <2>1. lock' = Free /\ service' = [service EXCEPT !.nonce = n]
    BY <1>10 DEF Ends, NonceAfter
  <2>2. QED
    BY Zenon, <1>6, <1>10, <2>1, n \in {n, n + 1}
<1>11. CASE \E answer \in Answers(a, n) \ {"accepted"} :
              /\ IF error_due_to_low_nonce(answer) /\ again
                 THEN /\ lock' = [by |-> "send", request |-> r, address |-> a]
                      /\ service' = [service EXCEPT !.nonce = n]
                 ELSE Ends(n, FALSE)
              /\ UNCHANGED <<eth, replied>>
  <2>1. PICK answer \in Answers(a, n) \ {"accepted"} :
              /\ IF error_due_to_low_nonce(answer) /\ again
                 THEN /\ lock' = [by |-> "send", request |-> r, address |-> a]
                      /\ service' = [service EXCEPT !.nonce = n]
                 ELSE Ends(n, FALSE)
              /\ UNCHANGED <<eth, replied>>
    BY Zenon, <1>11
  <2>2. CASE error_due_to_low_nonce(answer) /\ again
    <3>1. n < Len(mined(a))
      BY <2>1, <2>2 DEF error_due_to_low_nonce, Answers
    <3>2. QED
      BY Zenon, <1>7, <2>1, <2>2, <3>1
  <2>3. CASE ~ (error_due_to_low_nonce(answer) /\ again)
    <3>1. lock' = Free /\ service' = [service EXCEPT !.nonce = n]
      BY <2>1, <2>3 DEF Ends, NonceAfter
    <3>2. QED
      BY Zenon, <1>5, <2>1, <3>1
  <2>4. QED
    BY Zenon, <2>2, <2>3
<1>12. QED
  BY Zenon, <1>8, <1>9, <1>10, <1>11 DEF send_tx

LEMMA SenderInitial == SenderInit => SenderInv
<1> SUFFICES ASSUME SenderInit PROVE SenderInv
  OBVIOUS
<1>1. PICK url \in Urls, keystore \in Keystores : service = Started(url, keystore)
  BY Zenon DEF SenderInit
<1>2. ServiceType /\ ~ Counts
  BY <1>1 DEF ServiceType, Counts, Started
<1>3. EthType
  <2>1. << >> \in [{} -> Requests]
    OBVIOUS
  <2>2. << >> \in Waiting
    BY Zenon, <2>1, WaitingType
  <2>3. << >> \in Seq(Mined)
    OBVIOUS
  <2>4. QED
    BY <2>2, <2>3 DEF SenderInit, EthType, Account
<1>4. SentTransactionsStay
  BY DEF SenderInit, SentTransactionsStay, NoncesHaveNoGaps, ReturnedHashesStay, pending
<1>5. QED
  BY <1>2, <1>3, <1>4 DEF SenderInit, SenderInv, Backlog, Replies, Retry, Free

\* Ethereum mines one after the other, so no gap opens.
LEMMA MiningKeeps ==
  ASSUME SenderInv, NewBlock
  PROVE  SenderInv'
<1>1. EthType /\ UNCHANGED <<service, lock, replied>>
  BY Zenon DEF SenderInv, NewBlock
<1>2. EthType'
  BY Zenon, <1>1, MineEffect
<1>3. /\ ServiceType' /\ Keys' = Keys /\ (Counts' <=> Counts)
  BY <1>1 DEF SenderInv, ServiceType, Keys, Counts
<1>4. \A a \in Addresses :
        /\ Len(mined(a)) \in Nat /\ Len(mined(a)') \in Nat
        /\ Len(mined(a)) <= Len(mined(a)')
        /\ DOMAIN (pending(a)') \subseteq DOMAIN pending(a)
        /\ \A j \in DOMAIN pending(a) : Len(mined(a)') <= j => j \in DOMAIN (pending(a)')
  <2> SUFFICES ASSUME NEW a \in Addresses
               PROVE  /\ Len(mined(a)) \in Nat /\ Len(mined(a)') \in Nat
                      /\ Len(mined(a)) <= Len(mined(a)')
                      /\ DOMAIN (pending(a)') \subseteq DOMAIN pending(a)
                      /\ \A j \in DOMAIN pending(a) :
                           Len(mined(a)') <= j => j \in DOMAIN (pending(a)')
    OBVIOUS
  <2>1. mined(a) \in Seq(Mined) /\ Len(mined(a)) \in Nat /\ DOMAIN pending(a) \subseteq Nat
    BY Zenon, <1>1, AccountTypes
  <2>2. CASE mined(a)' = mined(a) /\ pending(a)' = pending(a)
    BY <2>1, <2>2
  <2>3. CASE /\ DOMAIN (pending(a)') = DOMAIN pending(a) \ {Len(mined(a))}
             /\ mined(a)' = Append(mined(a), [request |-> pending(a)[Len(mined(a))],
                                              block |-> eth.height + 1])
    <3>1. Len(mined(a)') = Len(mined(a)) + 1
      BY <2>1, <2>3
    <3>2. QED
      BY <2>1, <2>3, <3>1
  <2>4. QED
    BY Zenon, <1>1, <2>2, <2>3, MineEffect
<1>5. Backlog'
  <2> SUFFICES ASSUME Counts, NEW a \in Keys, NEW j \in Nat,
                      Len(mined(a)') <= j, j < service.nonce
               PROVE  j \in DOMAIN (pending(a)')
    BY <1>1, <1>3 DEF Backlog
  <2>1. a \in Addresses
    BY Zenon, OneKey DEF SenderInv, Counts
  <2>2. Len(mined(a)) <= j
    BY <1>4, <2>1
  <2>3. j \in DOMAIN pending(a)
    BY Zenon, <2>2 DEF SenderInv, Backlog
  <2>4. QED
    BY Zenon, <1>4, <2>1, <2>3
<1>6. Replies'
  BY <1>1, <1>3 DEF SenderInv, Replies
<1>7. Retry'
  <2> SUFFICES ASSUME lock.by = "send"
               PROVE  Retry'
    BY <1>1 DEF Retry
  <2>1. PICK a \in Keys :
          Counts /\ a = lock.address /\ lock.request \in Requests /\ service.nonce < Len(mined(a))
    BY Zenon DEF SenderInv, Retry
  <2>2. a \in Addresses /\ service.nonce \in Nat
    BY <2>1, OneKey DEF SenderInv, Counts, ServiceType
  <2>3. service.nonce < Len(mined(a)')
    BY <1>4, <2>1, <2>2
  <2>4. QED
    BY <1>1, <1>3, <2>1, <2>3 DEF Retry, mined
<1>8. NoncesHaveNoGaps'
  <2> SUFFICES ASSUME NEW a \in Addresses, NEW k \in DOMAIN (pending(a)'),
                      NEW j \in Len(mined(a)') .. k
               PROVE  j \in DOMAIN (pending(a)')
    BY DEF NoncesHaveNoGaps
  <2>1. k \in DOMAIN pending(a) /\ DOMAIN pending(a) \subseteq Nat
    BY Zenon, <1>1, <1>4, AccountTypes
  <2>2. j \in Len(mined(a)) .. k
    BY <1>4, <2>1
  <2>3. j \in DOMAIN pending(a)
    BY Zenon, <2>1, <2>2 DEF SenderInv, SentTransactionsStay, NoncesHaveNoGaps
  <2>4. QED
    BY <1>4, <2>1, <2>3
<1>9. ReturnedHashesStay'
  <2> SUFFICES ASSUME NEW x \in replied
               PROVE  Stays(x)'
    BY <1>1 DEF ReturnedHashesStay, Stays
  <2>1. Counts /\ x \in [address : Keys, nonce : Nat, request : Requests]
    BY Zenon DEF SenderInv, Replies
  <2>2. x.address \in Keys /\ \A a \in Keys : a \in Addresses
    BY <2>1, OneKey DEF SenderInv, Counts
  <2>3. x \in [address : Addresses, nonce : Nat, request : Requests]
    BY <2>1, <2>2
  <2>4. Stays(x)
    BY Zenon DEF SenderInv, SentTransactionsStay, ReturnedHashesStay, Stays
  <2>5. QED
    BY Zenon, <1>1, <2>3, <2>4, MineStays
<1>10. QED
  BY Zenon, <1>2, <1>3, <1>5, <1>6, <1>7, <1>8, <1>9 DEF SenderInv, SentTransactionsStay

\* The nonce that is kept, or the count of Ethereum when none is kept or the
\* node asks for it again, leaves no gap and was not used.
LEMMA SendMainKeeps ==
  ASSUME SenderInv, NEW r \in Requests, send_main(r)
  PROVE  SenderInv'
<1>1. PICK a \in Keys : send_tx(a, r, get_nonce(a, FALSE), TRUE)
  BY Zenon DEF send_main, Keys
<1>2. service # Down /\ service.web3
  BY Zenon DEF send_main, get_web3_instance
<1>3. a \in Addresses /\ Len(mined(a)) \in Nat
  BY OneKey, AccountTypes, <1>2 DEF SenderInv
<1>4. CASE service.nonce = NoNonce
  <2>1. get_nonce(a, FALSE) = Len(mined(a))
    BY <1>4 DEF get_nonce, get_nonce_from_ethereum
  <2>2. \A x \in replied : x.nonce < Len(mined(a))
    BY <1>4 DEF SenderInv, Replies, Counts
  <2>3. \A j \in Nat : Len(mined(a)) <= j /\ j < Len(mined(a)) => j \in DOMAIN pending(a)
    BY <1>3
  <2>4. QED
    BY <1>1, <1>2, <1>3, <2>1, <2>2, <2>3, SendTxKeeps
<1>5. CASE service.nonce # NoNonce
  <2>1. get_nonce(a, FALSE) = service.nonce /\ service.nonce \in Nat /\ Counts
    BY <1>2, <1>5 DEF get_nonce, SenderInv, ServiceType, Counts
  <2>2. \A x \in replied : x.nonce < service.nonce
    BY DEF SenderInv, Replies
  <2>3. \A j \in Nat : Len(mined(a)) <= j /\ j < service.nonce => j \in DOMAIN pending(a)
    BY <2>1 DEF SenderInv, Backlog
  <2>4. QED
    BY <1>1, <1>2, <2>1, <2>2, <2>3, SendTxKeeps
<1>6. QED
  BY Zenon, <1>4, <1>5

LEMMA ResendKeeps ==
  ASSUME SenderInv, resend
  PROVE  SenderInv'
<1>1. PICK a \in Keys :
        a = lock.address /\ lock.request \in Requests /\ Counts /\ service.nonce < Len(mined(a))
  BY Zenon DEF SenderInv, Retry, resend
<1>2. a \in Addresses /\ Len(mined(a)) \in Nat /\ service.nonce \in Nat
  BY <1>1, OneKey, AccountTypes DEF SenderInv, Counts, ServiceType
<1>3. send_tx(a, lock.request, Len(mined(a)), FALSE)
  BY <1>1 DEF resend, get_nonce, get_nonce_from_ethereum
<1>4. \A x \in replied : x.nonce < Len(mined(a))
  <2>1. \A x \in replied : x.nonce \in Nat /\ x.nonce < service.nonce
    BY DEF SenderInv, Replies
  <2>2. QED
    BY <1>1, <1>2, <2>1
<1>5. \A j \in Nat : Len(mined(a)) <= j /\ j < Len(mined(a)) => j \in DOMAIN pending(a)
  BY <1>2
<1>6. service # Down /\ service.web3
  BY <1>1 DEF SenderInv, ServiceType, Counts
<1>7. QED
  BY <1>1, <1>2, <1>3, <1>4, <1>5, <1>6, SendTxKeeps

\* Whatever leaves Ethereum and the node's nonce alone and sets no retry up.
LEMMA QuietKeeps ==
  ASSUME SenderInv, UNCHANGED <<service, eth, replied>>, lock' = lock \/ lock'.by # "send"
  PROVE  SenderInv'
<1>1. EthType' /\ ServiceType' /\ Backlog' /\ Replies'
  BY DEF SenderInv, EthType, ServiceType, Backlog, Replies, Counts, Keys, mined, pending
<1>2. SentTransactionsStay'
  BY DEF SenderInv, SentTransactionsStay, NoncesHaveNoGaps, ReturnedHashesStay, BlockOf,
         mined, pending
<1>3. Retry'
  BY DEF SenderInv, Retry, Counts, Keys, mined
<1>4. QED
  BY Zenon, <1>1, <1>2, <1>3 DEF SenderInv

\* initialise_web3 makes a connection or takes the node down, which has sent
\* nothing yet; a restart forgets what was sent.
LEMMA StartKeeps ==
  ASSUME SenderInv, initialise_web3 \/ Restart
  PROVE  SenderInv'
<1>1. UNCHANGED eth /\ lock' = Free
  BY DEF initialise_web3, Restart
<1>2. EthType' /\ NoncesHaveNoGaps' /\ Retry'
  BY <1>1 DEF SenderInv, EthType, SentTransactionsStay, NoncesHaveNoGaps, mined, pending, Retry, Free
<1>3. CASE Restart
  <2>1. PICK url \in Urls, keystore \in Keystores : service' = Started(url, keystore)
    BY Zenon, <1>3 DEF Restart
  <2>2. ServiceType' /\ ~ Counts'
    BY <2>1 DEF ServiceType, Counts, Started
  <2>3. replied' = {}
    BY Zenon, <1>3 DEF Restart
  <2>4. QED
    BY <1>2, <2>2, <2>3 DEF SenderInv, Backlog, Replies, SentTransactionsStay, ReturnedHashesStay
<1>4. CASE initialise_web3
  <2>1. UNCHANGED replied /\ service # Down
    BY Zenon, <1>4 DEF initialise_web3
  <2>2. ReturnedHashesStay'
    BY <1>1, <2>1 DEF SenderInv, SentTransactionsStay, ReturnedHashesStay, BlockOf, mined, pending
  <2>3. CASE service' = [service EXCEPT !.web3 = TRUE]
    <3>1. /\ service' \in [url : Urls, keystore : Keystores, web3 : BOOLEAN,
                           nonce : Nat \cup {NoNonce}]
          /\ service'.nonce = service.nonce /\ service'.keystore = service.keystore
          /\ service'.url \in Urls /\ service'.web3
      BY <2>1, <2>3 DEF SenderInv, ServiceType
    <3>2. service' # Down
      <4>1. service'.url # "none"
        BY <3>1, SenderAssumption
      <4>2. QED
        BY <4>1 DEF Down
    <3>3. ServiceType' /\ Keys' = Keys /\ (Counts' <=> Counts)
      BY <2>1, <3>1, <3>2 DEF ServiceType, Keys, Counts
    <3>4. Backlog' /\ Replies'
      BY <1>1, <2>1, <3>1, <3>3 DEF SenderInv, Backlog, Replies, mined, pending
    <3>5. QED
      BY Zenon, <1>2, <2>2, <3>3, <3>4 DEF SenderInv, SentTransactionsStay
  <2>4. CASE service' = Down
    <3>1. replied = {}
      BY <1>4 DEF initialise_web3, SenderInv, ServiceType, Replies, Counts
    <3>2. QED
      BY <1>2, <2>1, <2>2, <2>4, <3>1
         DEF SenderInv, SentTransactionsStay, ServiceType, Backlog, Replies, Counts
  <2>5. QED
    BY <1>4, <2>3, <2>4 DEF initialise_web3
<1>5. QED
  BY Zenon, <1>3, <1>4

LEMMA SenderStep ==
  ASSUME SenderInv, [SenderNext]_senderVars
  PROVE  SenderInv'
<1>1. CASE initialise_web3 \/ Restart
  BY Zenon, <1>1, StartKeeps
<1>2. CASE \E r \in Requests : send_main(r)
  BY Zenon, <1>2, SendMainKeeps
<1>3. CASE resend
  BY Zenon, <1>3, ResendKeeps
<1>4. CASE view_main \/ view_answered \/ query_answered
  <2>1. UNCHANGED <<service, eth, replied>> /\ lock'.by # "send"
    BY <1>4 DEF view_main, view_answered, query_answered, Free
  <2>2. QED
    BY Zenon, <2>1, QuietKeeps
<1>5. CASE \E tx \in replied, type \in {"CallData", "TransactionReceipt"} : tx_query_main(tx, type)
  <2>1. UNCHANGED <<service, eth, replied>> /\ lock'.by # "send"
    BY <1>5 DEF tx_query_main
  <2>2. QED
    BY Zenon, <2>1, QuietKeeps
<1>6. CASE NewBlock
  BY Zenon, <1>6, MiningKeeps
<1>7. CASE UNCHANGED senderVars
  BY Zenon, <1>7, QuietKeeps DEF senderVars
<1>8. QED
  BY Zenon, <1>1, <1>2, <1>3, <1>4, <1>5, <1>6, <1>7 DEF SenderNext

(* send_tx, with a key of its own: whatever answers get lost, whatever is    *)
(* refused and tried again, the node leaves no gap in its nonces and does    *)
(* not replace a transaction whose hash it has returned.                     *)
THEOREM SenderCorrect == SenderInit /\ [][SenderNext]_senderVars => []SentTransactionsStay
<1>1. SenderInv => SentTransactionsStay
  BY Zenon DEF SenderInv
<1>2. QED
  BY <1>1, SenderInitial, SenderStep, PTL
=============================================================================
