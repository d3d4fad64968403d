# gs++ in TLA+

gs++ (cpp_slp_graph_search) follows a bitcoind node, decides which of its
transactions are valid under the Simple Ledger Protocol (SLP), keeps the valid
ones in two graphs (confirmed and mempool) and answers, over gRPC, "give me this
transaction with all its ancestors". A small Node.js gateway offers the same over
HTTP, and Node.js servers take part in the differential fuzzing of the SLP parser.
This directory models the programs, checks the models with TLC and proves, with TLAPS,
the safety properties that were checked.

All source paths are relative to the repository; `gs++.cpp` is
`server/gs++.cpp`. `PROJECT.json` maps every definition to its lines.

## 1. Inventory

| component | state | operations | hard about it |
|---|---|---|---|
| `slp_validator` | `transaction_map`, `valid` | `add_tx`, `remove_tx`, `has`, `validate` | verdicts are taken once, in arrival order, and never revised |
| transaction, SLP parser | none | `hydrate`, `output_slp_amount`, `mint_baton_outpoint`, ... | off-by-one between outputs and amounts; limits that nobody checks again |
| `txgraph` (two: `g`, `mg`) | `tokens`, `txid_to_token`, `lookup_mtx` | `insert_token_data`, `clear`, `build_exclusion_set`, `graph_search__ptr` | readers and a writer, `clear` under a shared lock, edges set only at insertion |
| sync handlers | all of the above, `processing_mutex` | `process_block`, `process_mempool`, `process_tx` | each skips what the validator has; readers see the middle of a handler |
| `main()` and the block cache | height, hash, cache files | cache loop, RPC loop, start of the mempool | crashes, retries that step back, trusted files |
| ZMQ listener | `startup_mempool_transactions`, flags | `rawtx`, `rawblock` | runs against `main()`, lost messages, listings that overtake notifications |
| `util::topological_sort` | none | | repeated transactions, absent parents |
| gRPC handlers | none of their own | `GraphSearch`, `TrustedValidation`, `OutputOracle`, `SlpTokenInfo`, `Status`, UTXO queries | several lock sessions per request; some take no lock |
| `bch`, `utxodb`, `slpdb` | UTXO maps, token UTXOs, rollback queues | `process_block`, `process_mempool_tx`, `rollback`, queries | used with `services.utxosync` only; every block applied twice; children before their parents; lost blocks; restarts from a cache that keeps SLP transactions only, or nothing |
| REST gateway (`rest/index.js`) | requests in flight | four routes, a callback each | byte orders, what JavaScript takes for a number, malformed requests, an exception in a callback ends the process |
| differential fuzzing (`fuzz/`) | none | two C++ programs, two Node.js servers, `report.js` | two notations of every value, a server that is down |

How they interact. `main()` reads cache files and hands their blocks to
`process_block` as trusted; then it reads blocks over RPC, hands them over
untrusted and writes the accepted transactions to cache files; then it starts the
listener thread, lists the mempool and calls `process_mempool`. From then on the
listener calls `process_tx` for each `rawtx` and, for each `rawblock`,
`process_block` and `process_mempool`. The handlers share `processing_mutex`;
most gRPC threads do not take it and synchronise with the graphs by `lookup_mtx` only.
The gateway is a client of `GraphSearch` and of the UTXO queries. The fuzzing programs
link the parser and ask a server over HTTP for another parser's opinion.

What makes the parts correct:

* validator: accepts only what the SLP rules allow, accepts all of it that comes
  in order, creates no units, does not throw;
* graphs: what a reader finds is valid, edges lead to true parents, a search
  returns all of the ancestry but what was excluded, and nothing else;
* handlers: verdicts are final, the confirmed graph only grows, no transaction is
  in both graphs;
* server: cache files are safe to trust, a quiet server knows what its node knows,
  the start ends, the height and the hash of Status belong together;
* UTXO set: what the blocks it was given leave unspent, whatever is applied twice, undone, lost or reread;
* gateway: each client is told about the coins it asked for, as they were at one
  moment since it asked, and every request ends;
* fuzzing: an abort means that the parsers disagree, and a pass that they do not.

## 2. Modules

| module | models | extends |
|---|---|---|
| `SlpTx` | `transaction`, `slp_transaction` after `hydrate()`: the universe of transactions is the constant function `Tx`; `output_slp_amount`, `slp_outputs`, `mint_baton_outpoint` | |
| `SlpRules` | what the SLP rules call valid: `SlpValid`, the least set closed under `Justified`, with no arrival order | `SlpTx` |
| `SlpValidator` | `slp_validator.cpp` | `SlpRules` |
| `TxGraph` | a `txgraph` as a value and `insert_token_data` | `SlpTx` |
| `SlpSync` | the three handlers of `gs++.cpp`, one transaction or one token at a time | `SlpValidator`, `TxGraph` |
| `TopoOrder`, `TopoSort` | what `topological_sort` promises, and its code: the two loops and the recursive calls | |
| `GsServer` | `main()`, listener, cache, with bitcoind, ZMQ and the disk as environment | `SlpSync`, `TopoOrder` |
| `SlpQueries` | the gRPC handlers `OutputOracle` and `SlpTokenInfo` | `SlpValidator` |
| `GraphSearch` | the gRPC handler `GraphSearch` on both `txgraph`s with their locks, and the thread that inserts and clears | `TxGraph` |
| `Slpdb` | `slpdb` as a value, `add_transaction` and the removal of spent outputs | `SlpTx` |
| `Bch` | `bch` and `utxodb`: `process_block`, `process_mempool_tx`, `rollback`, the queries, and the calls the handlers and `main()` make when `utxosync` is on | `Slpdb`, `SlpRules`, `TopoOrder` |
| `SlpParser` | `slp_transaction::hydrate` | |
| `Differential` | the fuzzing programs, the Node.js servers and `report.js` | `SlpParser` |
| `RestService` | abstract: what the gateway promises its clients | |
| `RestGateway` | `rest/index.js`, with gs++'s answers as environment | |
| `SlpValidatorProofs` (with `SlpQueries`), `GsServerProofs` (with `SlpSync`), `GraphSearchProofs`, `BchProofs`, `TopoSortProofs`, `RestGatewayProofs`, `DifferentialProofs` | the theorems about the module each is named after | that module (and the proofs of the modules it rests on) |
| `FoldTheorems` | what the proofs need about folds: induction with a set, existence of the folded function, intermediate results, sums over finite sets | |
| `MC*` | the instances TLC runs | |

**Transactions.** A txid is a hash of the bytes, so one txid means one transaction
everywhere: `Tx` is a constant. What the parser and the Bitcoin consensus rules
guarantee of it are named `ASSUME`s of `SlpTx`, evaluated by TLC on every universe.

**Amounts.** The code sums 64-bit amounts in 128 bits, so sums do not overflow. The
model writes a sum as a set of units (`OutputUnits`, `InputUnits`) and compares
cardinalities. The rule for SEND in `Justified` is stated on its own: there is an
injection of the units sent into the units spent.

**Validator.** `add_tx` stores the transaction before it validates it, so the
checks take both containers as parameters. Two parts of the code never do
anything and are left out with a comment at the place: the recursion of
`check_outputs_valid` stops at its look-up in `valid`, since it is only called on
valid transactions, and the loop of `check_mint` stops in its first round for the
same reason. The exception "mint rare condition" is `MintThrows`.

**Handlers.** `job` is the call that holds `processing_mutex`: what is left of the
block, the accepted transactions, and those not yet inserted. `valid_txs` is a
hash map by token in the code, so the tokens are inserted in any order.
`trusted` and `early` are history variables: what was made valid without
validation, and what was judged while some of its kin was missing.

**Server.** `mpc` and `lpc` are the program counters of `main()` and of the listener.
An exception that nobody catches, a `return` from `main()` and a crash are `Die`:
memory and the listener's queue are gone, the cache files stay. Opening a cache
file empties it and writing it is another step. `startup_mempool_transactions` is
read and written without a lock: when the two threads meet, the pushed
transaction may be lost (`PushStartupTx`). A `best_block_height` is unsigned in the
code, so a negative height ends the RPC loop (`InRpcLoop`). Modelled with the
services graphsearch, graphsearch_rpc, zmq, zmqpub, cache and grpc on, and utxosync off.
`missed`, `processed` and `reread` are history.

A hash is the block it is of and the order of its bytes (`Hash`): the listener and the cache loop set it from the
hydrated block (`Digest`), the RPC loop overwrites that with the text of `get_block_hash`, whose bytes come in the other
order (`Written`, `gs++.cpp:1088`), and `Status` turns round whatever is there. What a transaction holds that its announcement may not
survive are the constants `OddScript` (outputs whose script is neither P2PKH nor P2SH) and `OddTicker` (a
GENESIS whose ticker is not UTF-8), and `ReadsPastEnd`. A missing genesis and a ticker that is not UTF-8 are exceptions (`CanPublish`);
the assertion in `to_cashaddr` is compiled in or not, and a read past the end of `outputs` may do anything, so that
both outcomes are possible (`MayAbort`, `PublishThrows`).

**Sort.** `calls` is the C++ call stack: for each call of `topological_sort_internal` that has not returned,
its transaction and the inputs its loop has not looked at. A step is one round of the loop over the list
(`topological_sort`), one round of the loop over the inputs (`walk`, which may enter a call) or
the end of a call (`push_back`). `GsServer` and `Bch` take any of the orders that `TopoOrder` promises.

**GraphSearch.** A request is a chain of lock sessions: a `build_exclusion_set` on `g` per
excluded txid, `graph_search__ptr` on `mg`, and then either the same on `g`, or, if `mg` had
the transaction, a `build_exclusion_set` on `g` per parent that the result leaves open
(`Unaccounted`, `Overlap`), whose nodes are read when no lock is held (`ReadOverlap`).
Between two sessions the processing thread may insert or clear. `clear()` takes the lock
shared and empties `tokens` and then `txid_to_token`; a pointer into what was emptied is
freed memory, and reading it is the outcome `freed` (or NOT_IN_TOKENGRAPH, if the read
happens to work). A transaction is inserted whether or not its parents are in the graph (`Insertable`): the validator may have
rejected one of them, its notification may be lost, `mg` may have been cleared of it. `unlinked` keeps the pairs of a
child and a parent that was not there. `txdata` counts how often the reply has a transaction: the
loop that copies the mempool result is nested in a loop over the same result (`gs++.cpp:189`), so each comes as often as there
are results (`Leave`). `gone`, `unlinked`, `disturbed`, `via` and `known` are history. `g` is never cleared, so
its `txid_to_token` is the set of its nodes.

**SlpQueries.** The two handlers are functions of the validator's containers and are
checked in every state of `SlpValidator`. An exception is the answer `Thrown`.
`TrustedValidation` reports membership in `valid` and needs no operator.

**Parser.** A script is the list of its pushes; a chunk keeps its size, the number it reads
as and the text it stands for, which is all `hydrate` looks at.

**Differential.** A JavaScript value is tagged with its notation (number, decimal text,
hexadecimal text, bytes, null), so that a comparison of two notations differs, as in the
code. `hydrate` is the parser of the C++ side; the JavaScript parsers are libraries and
external: they throw or return *any* message that some script of the instance means, with
null or an empty value for what is absent. The initial state chooses input and message,
so that agreement and every kind of disagreement occur. `report.js` formats like the first
server does and prints.

**RestGateway.** Node runs one handler or callback at a time: each is an action, and
between the two the call is in flight (`called`, `served`). Texts are sequences of
characters and txids sequences of bytes, because the order and the case of digits is what
can go wrong; `bytesToHex`, `hexToBytes` and `parseInt` do what JavaScript does with
odd lengths and other characters. `ToNumber` is JavaScript's `Number`, which `isNaN` applies to an output number: white space, signs, a point,
an exponent, `0x`, `0o`, `0b`, `Infinity` and the empty text are read as there; the rounding of a number to a double is left out. The
text is passed on and becomes the uint32 of `pb/utxo.proto:18` in the serializer, which throws on numbers that are
negative, fractional or too large (`writeUint32Throws`), and Express answers 500. gs++ answers a call at one moment from
`utxos` (the queries of `Bch`), or the call fails. In the constructor of `bhash`, built
without assertions, capital letters give other bytes, and a text of another length
reads what is there, so that any output with the number asked for may be found; built with them, gs++ ends there, and the
call fails, which `Serve` allows for every call.
The classes in `rest/pb` are generated when the gateway is built; `Generated` is the set of
getters `Output` may have, and `fields` the one of this build.

**RestService.** The same service with coins named by txid, number and owner. A question is
`waiting`, its answer is decided from the coins of one moment (`Decide`) and told later
(`Tell`). `Service` in `RestGateway` is the refinement mapping; it reads requests and
responses back into questions and answers.

**Bch.** An output is fixed by its outpoint, so every map of outputs is a set of
outpoints: the keys of the maps by outpoint, the union of the entries of the maps
by scriptpubkey. The five maps of `utxodb`, the two rollback queues and `slpdb` are the
record `bch`; a call is one step, since callers hold `processing_mutex`. The calls are
those the rest of the program makes: `ConnectBlock` (a sorted block), `ConnectAgain`
(`main()` applies each block of the cache or RPC loop a second time after
`slpsync_bitcoind_process_block` has done it), `MissBlock` (a block that ZMQ loses or that arrives during the start and is
thrown away), `RelayTx` (whatever the node announces, also what was announced
before, whose parents never came, or what spends an output twice), `ListMempool` (the transactions of a listing that the validator accepts, token by token, in the order
of a hash map, with or without their parents), `Rollback` (public, and not called by the server) and `Restart`: the process
starts with nothing and reads the chain again, the first blocks from the cache, and the rest, the last cached block included, over RPC.
A cache file has the SLP-valid transactions of its block, or none, if its block was read twice (`emptied`; `CacheLosesOnlyReread` of
`GsServer` is about those). `chain` is the chain of the node, and what it may put there (`Minable`) is up to the
consensus rules; `Seen` is what came to this process with a block, `Told` also what came by the mempool, and the properties
compare `bch` with these. `chain`, `relayed`, `early`, `applied`, `half`, `undone`, `rollbacks`, `restarts`, `missed` and `unseen` are history: what
the node's chain and mempool have been, which outputs were spent in the mempool before their transaction came, which application a rollback undoes, and which
confirmed transactions came with no block. `current_block_height` and the queries' limit are left
out, and so is what the code stores when it reads past the end of `outputs` of a GENESIS or MINT with one output.

Some properties are conjunctions of named parts: `QueriesAreRight` (`BalanceCountsOnce`,
`NothingIsLost`, `SpentOnlyIfRelayed`), `QueriesAreTruthful` (`OracleIsTruthful`, `TokenInfoIsTruthful`,
`OracleAnswers`) and `ExclusionsAreHonoured` (with `ExclusionIsClosed`).

Operators commented as a *faulty variant* are not part of any specification: they
are the mutants each property is tested against (`PROJECT.json`, "mutants").

## 3. Runs

| run | instance | states | shows |
|---|---|---|---|
| `validator` | 14 transactions: three links of the baton chain, sends that split and combine, one that asks for too much, a mint without baton; NFT1 children and a send of one, a baton spent twice, a send mixing tokens, a non-SLP transaction; every order of `add_tx`, some trusted, some removed | 37 482 | soundness, completeness for what comes in order, no inflation, no exception, the token is known; the oracle and the token info tell the truth |
| `sync` | 5 transactions of two tokens, one of them invalid, blocks and listings of up to two, in any order and repeated, trusted or not, restarts | 279 537 | what readers see in the graphs at any moment |
| `server_restart` | genesis and send, 4 heights, two crashes, a failed request | 1 400 207 | the cache, edges, the height and hash of Status, and that `GsServer` implements `SlpSync` |
| `server_live` | a third transaction that moves no units, an output without an address, one lost notification, a failed request, fair threads | 298 401 | what the process may miss, which announcements end it; the start ends, every valid transaction becomes known or its absence is explained |
| `graphsearch` | an NFT1 group token of three transactions with a shared ancestor and the genesis of a child; inserted in any order and batches, one parent at most missing at its child's insertion; one reader, both graphs | 1 325 220 | replies are complete up to missing parents and minimal across the two graphs, with the exact number of copies, exclusions count, and freed memory is read only when `clear()` runs into a session |
| `bch` | 5 transactions of two tokens with a double spend and a non-SLP transaction, blocks applied once or twice, two rollbacks, a lost block, a mempool in any order, a restart with any cache files emptied | 204 812 | the UTXO set is that of the blocks given to `bch`, queries lose nothing and count nothing twice, `slpdb` keeps holdings and batons |
| `toposort` | every DAG of 4 transactions with up to two inputs each, every list of up to 4 | 918 009 | the sort returns a topological order of the list, each transaction once |
| `rest` | 2 connections, 10 requests (two outpoints at once, one with a hexadecimal number and one without number, a number past `Uint32`, a negative one, text that is no number, capital letters, an invalid address), 3 outputs, one txid the reverse of another, either build of `Output` | 48 000 | the gateway implements `RestService`; every request ends |
| `differential` | scripts of each kind at the parser's limits, both pairs, 3 attempts | 77 952 | an abort is a disagreement and the reverse; the program ends; what the parser accepts satisfies `Parsed` |
| `server_lookup` | genesis and send, no failures | violation | see findings |
| `graphsearch_clear` | one reader | violation | see findings |
| `rest_height` | one connection, `Output` as in `pb/utxo.proto` | violation | see findings |

**Bounds.** Three generations of transactions are enough for the validator, because a
verdict depends on parents and, for MINT, grandparents. Its 14 transactions form two
overlapping families, and the run holds one of them at a time (`MCNext`). (The MC modules
name each universe twice, since TLC evaluates the definition that a .cfg assigns at every
use and any other constant definition once.) For the server, a genesis
and one child are the smallest pair in which order matters; two blocks above
`StartHeight` let both be in one block, in two, or one confirmed and one not; two
crashes let a file be written by one process, damaged by the second and read by a
third. The queue of two holds a transaction and the block that overtakes it.
In `server_live` there is no crash of its own: the announcement of the third transaction
ends the process, so that every kind of restart has a cause in the code. One reader is
enough for `graphsearch`, because readers only share the lock with each other, which excludes
nobody; its requests have up to four exclusions and `max_exclusion_set_size` is 3, so that lists
below, at and above the limit occur (`Query`: they ask for the two transactions with ancestors of every kind, with all exclusions, and for the others without any). `MaxUnlinked` is 1: one parent that is missing when its child is inserted shows every way a reply can lack an ancestor. In `rest` a txid has two bytes and `Limit` is 1, so that a
txid and its reverse are both known and the limit cuts an answer; `Uint32` is 16 for 2^32, so that a number just past it occurs; two connections are what
it takes to mix up answers or to lose one request to another's exception. In `differential` 100
attempts are 3. In `bch` the rollback queues hold 2 applications instead of 10,
so that two rollbacks undo a block that was applied twice, or two blocks, or meet an
empty queue, and three applications overflow it. One lost block (`MaxMissed`) before or after the restart leaves out either the parents or the spenders of what comes later. One restart shows what the cache keeps; a second would start from the files of the first
(`server_restart` is about those). Rollbacks are looked at apart from lost blocks and restarts: nothing in the program undoes a block it was not given. Deadlock checking is off in the server and `bch` runs because
the environment's budgets and transactions run out, and in `toposort`, which ends; elsewhere it is on.

**Trust.** In `SlpValidator` and `SlpSync` a trusted transaction is an SLP-valid one.
That is discharged, not assumed: `CacheIsSound` shows that cache files, across
crashes and retries, hold nothing else, and the property `SyncSpec` of
`server_restart` shows that every step of the server is a step of `SlpSync`, trusted
blocks included.

**Fairness.** `server_live` assumes weak fairness of `RunJob` (the handler that holds
the mutex), `MainStep` and `ListenStep`: two threads the operating system schedules,
that never block on anything but the mutex, which a running handler releases, and
the socket, which only matters while it is not empty. Nothing is assumed of the
node, of failures, or of a supervisor that restarts the process. Requests fail a
bounded number of times; `retry_loop1` and `retry_loop2` could go on forever
otherwise. `rest` assumes, per connection, weak fairness of its next step: Node's event loop
runs what is due, and gRPC ends every call with an answer or an error. (The code sets no
deadline; a gs++ that accepts a call and never ends it would break the promise.) Clients
and blocks are not fair. `differential` assumes that the C++ program goes on, and nothing of the
server.

**Refinement.** `SyncSpec` in `server_restart`: `GsServer` implements `SlpSync`. `ImplementsService` in
`rest`: `RestGateway` implements `RestService`, under the mapping `Service`.

## 4. Findings

* **`SearchFindsValid`** (`server_lookup`). A transaction first seen in the mempool is
  inserted in `mg`. When a block arrives, `process_block` skips it because the
  validator has it, `process_mempool` clears `mg` and, if it is still unconfirmed,
  skips it for the same reason. It is valid and in neither graph: GraphSearch
  answers NOT_FOUND for it, which `txgraph.hpp:19` documents as "could be invalid slp
  token or we havent seen it yet". The state lasts until a restart.
* **`GuardedByLock`** (`graphsearch_clear`). `txgraph::clear` holds `lookup_mtx` shared,
  while `txgraph.hpp:29` requires the containers to be guarded by it.
* **`RequestsAreAnswered`** (`rest_height`). The callbacks of `/utxo` and `/address/utxos` call
  `v.getHeight()` on each output (`rest/index.js:105`, `:150`). `message Output` of `pb/utxo.proto` has no
  height, so its generated class has no such getter. The TypeError is thrown in a gRPC
  callback, where nobody catches it, and ends the gateway with every request in flight.
  `RequestsEnd` and `ImplementsService` show that this is the only way a request is lost.

The passing properties carry further facts as their exceptions, each found as a
counterexample to the property without it: a restart reads the last cached block
again and overwrites its file with the transactions that were new, that is with
few or none (`CacheLosesOnlyReread`, `ConfirmedEdgesComplete`); blocks notified while
the process starts are thrown away and the height lags (`CaughtUp`, `StatusIsConsistent`
is one-sided); until the listener has handled a block, a server that read blocks over RPC reports the bytes of its
block hash in the wrong order (`StatusIsConsistent`); a SEND of zero units of an unknown token is valid and its
announcement ends the process (`AnnouncementsSucceed`, `MovesNothing`), as may that of a transaction with an output that is neither
P2PKH nor P2SH, with a ticker that is not UTF-8 or with a missing output 1 (`Unpublishable`); a failed
mempool listing in the listener ends it as well (`RefreshMempoolFails`); a torn cache
file ends every start (`TornCacheFile`); an undone block leaves its outputs in `outpoint_map`
(`UtxoSetIsExact`); a GENESIS's baton stays in `slpdb` after it is spent (`BatonIsCurrent`); the outputs and the
spends of a lost block, and after a restart of what the cache files left out, are unknown to `utxodb` (`UtxoSetIsExact`), and `slpdb` knows
nothing of a valid transaction one of whose ancestors it was not given (`Rooted` in `HoldingsAreKept` and `BatonIsCurrent`); a double
spend in the mempool may make it turn down the confirmed one (`HoldingsAreKept`). Further:

* `process_block` skips rejected transactions as well as the "ones we've already added from
  mempool" (`gs++.cpp:789`): a listing taken before a block's notification is read judges a
  child without its parent, and no later block brings it back (`CaughtUp`, `EventuallyKnown`).
* An output whose transaction and spender came by the mempool is not marked as spent when
  the transaction alone is confirmed, although `mempool_spent_confirmed_outpoints` "contains the
  outpoints that have been spent" (`utxodb.hpp:39`); it is reported until the spender is
  confirmed (`SpentOnlyIfRelayed`). The same happens to an output whose spender came by the mempool before its
  own transaction did: its block takes the mark away (`bch.cpp:87`, `early`).
* The reply to a lookup in the mempool has each of its mempool transactions as often as it has different ones
  (`SearchIsMinimal`), and lacks the parents that were in no graph when their child was inserted (`SearchIsComplete`).
* Exclusions count for confirmed lookups only, and when there are `max_exclusion_set_size` of
  them or more only the first is handled (`SearchIsComplete`, `ExclusionsAreHonoured`). A lookup in
  the mempool crosses from one token to another, a confirmed one does not (`SearchIsMinimal`).
* The oracle calls output 0 the baton of a transaction without baton, and gives a SEND of an
  NFT1 child the token of its first input as group (`OracleIsTruthful`). `SlpTokenInfo` describes
  rejected children, too (`TokenInfoIsTruthful`).
* `/slp/graphsearch` takes a txid in the order of its bytes and in small letters only, unlike
  `/utxo`. `/utxo` takes a missing output number for 0 and `0x1` for 1, and answers a number that no uint32 holds
  with status 500 instead of "bad format" (`Malformed`, `Clear`, `Question`).
* `slp-parser.js/server.js` turns a null `documentHash` into "does not parse", since it reads the field
  it has just found to be null (`Misheard`); a program that gives up on its server counts the
  input as passed.

## 5. Proofs

The theorems hold for every value of the constants that satisfies the named `ASSUME`s:
universes of any size, any number of readers, blocks, failures, deaths, lost
notifications, exclusions and attempts. TLC evaluates the assumptions on every instance.
Besides those about transactions (`SlpTx`, section 2) they are:

* `ServerAssumption`: the node has mined the blocks before `StartHeight`
  (`StartHeight <= MaxBlocks + 1`); `ListAssumption`: there are finitely many transactions and
  `MaxTxs`, the bound on the lists handed to the handlers, is not smaller than their number.
  It bounds `SlpSync`, not the code: the refinement needs that `SlpSync` can begin a job as long as
  the longest block. The instances of `GsServer` satisfy it.
* `ContentAssumption`: scripts without address are those of outputs, odd tickers those of transactions.
* `QueryAssumption` of `GraphSearch`: clients ask for txids and exclude txids. `TxidAssumption`: txids are hashes, so there are finitely many.
* `BchAssumption` of `Bch`: OP_RETURN outputs are outputs, what comes by the mempool are
  transactions, the bounds are natural numbers, there is at most one restart, and txids are finitely many.
* `ScriptAssumption` of `Differential`: a script is a list of pushes.
* `GatewayAssumption` of `RestGateway`: what requests and outputs are made of. An address is what
  `cashaddrjs.decode` returns (its types are P2PKH and P2SH) or invalid; there are finitely many outputs, and one for an outpoint.
* `TopoAssumption` of `TopoSort`: transactions are numbered, so that "older" is a well-founded order.

**`SlpValidatorProofs`.**

* `ValidatorTypeCorrect`: `ValidatorTypeOK`, inductive as it stands.
* `ValidatorIsSound`: `ValidIsSound`. `valid \subseteq SlpValid` is inductive because
  `SlpValid` is closed under the rules (`SlpValidClosed`), the rules are monotone in
  the set of valid transactions (`JustifiedMono`), and each check of the code implies
  its rule (`ValidateJustified`). For SEND the code compares cardinalities and the
  rule asks for an injection: `CheckSendPays` and `SmallerInjects` bridge the two.
* `ValidatorIsGrounded` and from it `ValidatorKnowsTokens` (`TokenIsKnown`). `Grounded` says that a
  valid transaction that moves units has its GENESIS in `valid`, and the GENESIS of an NFT1 child its group.
  A SEND that moves units has an input with units of its token, whose token was known already.
* `RareConditionIsNeverMet`: `NoRareCondition`, for universes that are `OneChain`: no baton is
  spent by two transactions, and parents can be numbered before their children. That is
  what transactions which can all confirm in one chain satisfy; the fungible tokens of the
  `validator` run are such a universe. The run itself goes beyond it: it has a baton spent twice, too. In a
  chain every holder of a baton but the GENESIS has exactly one predecessor, the batons of
  a token are therefore a path that starts at the GENESIS, and two of them cannot
  be among the grandparents of one MINT as the code looks for them. The proof takes the
  holder with the least number; `SlpValidJustified` (the least fixed point is a fixed point) gives its
  predecessor.
* `InOrderVerdictsAreComplete`: `InOrderIsComplete`, as long as `NoRareCondition` holds; `OneChainIsComplete`
  discharges that for `OneChain`. The converse of soundness: `PaidSendPasses` turns
  the rule's injection back into the comparison of cardinalities.
* `NothingIsInflated`: `NoInflation`, as long as no two accepted transactions spend the same
  units (`UnitsSpentOnce`). The validator does not look for double spends; that is the node's
  part, and without it the property is false. In the `validator` run `UnitsSpentOnce` holds
  in every state. The argument counts: an accepted SEND takes at least as many units out
  of circulation as it brings in (`CountMoves`), GENESIS and MINT bring in what they create.

**`SlpQueries`, in `SlpValidatorProofs`.** `QueriesTellTheTruth`: `QueriesAreTruthful`, from `QueryInv`, which is
`ValidatorTypeOK`, `ValidIsSound`, `Grounded` and that a stored GENESIS other than an NFT1 child's is valid. `AmountCountsUnits`
relates the amount the oracle reads to the units of the rules.

**`SlpSync`, in `GsServerProofs`.** `SyncInvariant` proves the conjunction `SyncInv` of `SyncTypeOK`,
`ValidIsSound`, `GraphsAreValid`, `GraphsDisjoint`, `EdgesStayInside` and `TrustIsSound`.
None of the graph facts is inductive alone: `GraphsAreValid` needs that the
transactions waiting in `job.valid_txs` are valid, `GraphsDisjoint` that they are in
no graph yet, which in turn needs that `add_tx` returns true for new transactions
only and that everything in a graph is stored; soundness needs that a trusted job
holds SLP-valid transactions only (`TrustIsSound`). From it follow `SyncTypeCorrect`,
`GraphsHoldValidTxs`, `GraphsStayDisjoint`, `SearchesStayInside`, `SyncIsSound`, `SyncIsGrounded` and the
action properties `SyncVerdictsAreFinal` and `SyncGraphGrows`. `SyncStepKeepsInv` is stated for one
step, so that the server's proof can use it.

**`GsServer`, in `GsServerProofs`.** `ServerInvariant` proves `ServerInv`, the conjunction of `SyncInv` and ten parts:

* `ChainInv`: blocks are disjoint and hold nothing before its parents;
* `SetsInv`, `CacheInv`: types, `CacheIsSound`, and that no file is above the chain;
* `MainInv`: for each place of `main()`, how height, hash, chain and `best` compare. `StatusIsConsistent` is not inductive,
  because the retries step back and the cache loop counts up before it
  knows whether there is a file;
* `ProcessedInv`: what this process has read has no gaps;
* `ListenInv`, `ZmqInv`: where the listener is, and that the queue announces blocks in order and
  above its height;
* `JobInv`: the job of a thread is about the block or the message that thread works on;
* `ReachInv`: the confirmed graph, with the block in work, has come no further than the blocks read,
  and is short of every block still in the queue;
* `EdgeInv`: an edge is missing only if its parent's block was read again.

`ServerStepIsSyncStep` shows that every step of the server is a step of `SlpSync` or leaves its
variables alone: the step that begins a cache job needs `CacheIsSound`, so that refinement
and invariant are proved together. From this follow `ServerTypeCorrect`, `CacheStaysSound`,
`StatusStaysConsistent`, `ConfirmedGraphIsLinked`, the refinement `ServerImplementsSync` and, through it,
`ServerVerdictsAreFinal`; with `SyncIsGrounded`, `AnnouncementsAreSafe`.

On top of `ServerInv` come two more inductive invariants, about what the server lacks. `Ancestry` is a
recursive function over parents, for which nothing says that parents are well-founded: `AncestryIsDefined`
takes it as the least set with the transaction that has the parents of all its members.
`ReadInv` gives `CacheLosesOnlyWhatWasReread`, whatever fails, dies and is started again:

* `HoldInv`: a handler call runs only while a thread waits for it;
* `BlocksInv`: while `main()` reads blocks, the validator has nothing but what they hold, and all that is SLP-valid in
  them, but for the block at hand and for what was lost;
* `CachedInv`, `FetchedInv`: the block at hand is whole, taken as what is left of the list and what was accepted; the list
  has kin before their children (`SortedBlockInKinOrder`), so that what is judged has all its kin behind it
  (`KinAreBehind`) and is accepted (`JudgedValid`, from `ValidTxPasses`).

`ToldInv` gives `ServerCatchesUp`:

* `JudgedInv`: what was judged, in whatever order, is valid or explained;
* `HeightInv`, `AheadInv`: main() goes back one block per failed request, and blocks mined while the RPC loop runs are
  missed, so that when it ends every block was read or is missed (`LoopReadsAll`);
* `ConfirmedInv`, `PendingInv`: a confirmed transaction is known, in a block still to come, or lost; an unconfirmed one is
  known, announced, in the listener's hands or listed (`MessagesArrive`: a notification stays in the queue until
  it is handled or missed).

The theorem assumes `MaxFailures < StartHeight`. Each failed request takes `main()` back one block, and a negative height
ends the RPC loop, as it is compared with an unsigned one: with as many failures as there are blocks below the first
one of interest, the server would start with blocks unread. In `config.toml` `StartHeight` is 543375.

**`GraphSearchProofs`.** `SearchInvariant` proves `SearchInv`: types, `StoreInv` (the two graphs and
`gone` are disjoint, edges lead to parents of the token, and a parent that a node has no edge to is in `g`, for a node of `mg`, or was missing
when the node was inserted: `Accounted`) and for each request
`RequestInv`, the loop invariant of each kind of session: what was visited is closed up to
the stack (`ClosedBut`), and it is within every set the reply may not leave (`MinimalInv`). A parent
outside the mempool result that is in `g` is still to be handled or in the overlap set (`OverlapInv`), whatever was inserted
meanwhile. `TxdataInv` counts the copies. From it follow `SearchTypeCorrect`,
`SearchesAreComplete`, `SearchesAreMinimal`, `ExclusionsHold`, `NotFoundIsRight` and `OnlyClearDisturbs`.

**`BchProofs`.** `BchInvariant` proves `BchInv`, for every chain, every `rollback_depth` and any number
of rollbacks and lost blocks:

* `BchTypeOK` and `ChainOrdered`: blocks are disjoint, can be sorted, hold nothing before its
  parents and no double spend;
* `CallsArePlaced` and `QueuesMatch`: the calls that the rollback queues can undo are the last ones, each
  about a block at its place in the chain, and the queues hold what these calls added and took away. A
  second application of a block took away only what the block itself holds (`TakenBy`). Without
  these two a rollback could restore anything: `UtxoSetIsExact` is not inductive;
* `LivesApart`: lost blocks and restarts leave transactions unseen, and a rollback leaves half a block, never both in one behaviour;
* `UtxosAreExact`: `UtxoSetIsExact` with its missing half. Between the two rollbacks of a block applied
  twice the outputs of the block are gone and those it spends not yet back;
  and nothing that a block given to `bch` spends is in `outpoint_map`, outputs left there by a rollback included;
* `MempoolIsBounded`, `MempoolIsComplete`: the mempool maps hold nothing but relayed outputs and none that is
  confirmed, all of those that are unspent, and a mark on each output that a relayed transaction spends, unless the output was relayed itself, a block spends it or the mark came before the output (`early`).

The operations are folds: of `add_transaction` over the list of a block, of `process_mempool_tx`
over a listing, of two `process_block`s over the blocks a start reads. The library's induction theorems
take a predicate as parameter, so `FoldTheorems` proves induction with a *set* of numbers
(`NatSetInduction`), shows that the function by which a fold is defined exists (`FoldExists`) and gives
the intermediate results of a fold as a function (`FoldLeftRun`) over which such an induction runs. With
it `RelayAll` states the effect of a listing on the utxodb whatever its order, and `ReadAll` that a start leaves
the unspent outputs of the blocks it read; `BlocksInOrder` computes these from the chain and the number of
cached blocks (the last cached block comes twice, in part and in full) and what they miss. From the invariant follow
`BchTypeCorrect`, `UtxoSetExact` and `QueriesCorrect`.

`SlpdbInvariant` proves a second invariant on top of it, `SlpdbInv`: until a block is undone, `SlpdbGood`. From it follow `HoldingsKept` (`HoldingsAreKept`) and
`BatonCurrent` (`BatonIsCurrent`). What `slpdb` can be asked to know are the `Rooted` transactions, the valid ones that came with a block as
did all their valid ancestors of the token. A lost block or an emptied file takes a transaction with its descendants out of that set, and
what comes later never puts them back, since blocks hold no parents of earlier ones (`RootedGrows`). Its parts:

* `BatonFacts`, `NoneSpent`: a baton in `slpdb` is the one of a GENESIS or MINT and the only one of its token, that of a MINT is among the
  `utxos`, and no block spends a MINT's baton that is still named;
* `Accounted`: as long as blocks and mempool hold no double spend, `slpdb` knows the token of each rooted
  transaction and has its unspent units (`Kept`), and there is a `Line`.

`add_transaction` accepts a MINT only if it spends the baton that `slpdb` names at that moment, which a block may have
been overtaken by: a MINT from the mempool moves the baton on before the block with its parent is
applied, and a block that is applied twice meets batons that its own transactions have passed on. So that no valid
MINT is ever turned down cannot be read off the named batons. The `Line` says where each baton went: there is a
set of accepted GENESIS and MINT transactions, the rooted ones among them, and the baton of each is named, or was
passed on to another of the set, or was spent by a transaction that is no rooted MINT of the token. A rooted MINT that were turned
down would be the second spender of such a baton. (A baton may be passed on to a MINT that `slpdb` takes
and the rules do not; the set is therefore not the set of valid ones, and it is quantified.) The line is carried
along the list of a block by `FoldLeftRun`, along a listing, and through what a block takes away (`ApplyAccounted`).

**`TopoSortProofs`.** `TopoInvariant` proves `TopoInv`, the invariant of a depth-first walk that is usually argued by
induction over the recursion. With the call stack as a variable the induction is over steps:

* `CallsDescend`: a call is about an older transaction than its caller's, so no call is ever about a transaction that
  is being walked from;
* `MarksAreRight`: visited are the transactions on the stack and those being walked from, never both;
* `CallsAreThorough`: an input that a loop is past is on the stack, absent from the list, or what the next call is about;
* `StackInOrder`, `ListIsCovered`: what is on the stack comes once and after its listed parents; what is left of the
  list holds all that was not visited.

Without the first an input could be passed by, since it is visited, and yet be pushed after its child: this
is where it matters that transactions cannot spend each other in a circle. `SortKeepsPromise`: when both loops have ended, the result is one of the
`TopologicalOrders` of the list, for lists and transactions of any size, with repetitions and absent parents. `GsServer` and `Bch`
are defined, and proved about, in terms of these orders.

**`RestGatewayProofs`.** `GatewayImplementsService` proves that `GatewaySpec` implements `RestService`, under the
mapping `Service`, for any number of connections and a txid of any length. `GatewayInvariant` gives the invariant it needs, `GatewayInv`: at each place
of a request, the message in flight is the one of this request (`MessageFor`) and the response is of the kind asked for, with
outputs of the address asked about (`Fits`). Then:

* numbers: what is sent is a number that a uint32 holds, the same that the question is about, and a request with any other is refused;
* texts: `OutpointIsShown` (a txid in a request, its last byte first, through `hexToBytes`, `Reverse`, `bytesToHex` and
  the constructor of `bhash` is the txid it shows), `JsonIsShown` (the way back) and `PlainIsRead` (`/slp/graphsearch`, which
  does not reverse);
* scripts: `OwnerOfScript`. `addressToScriptpubkey` and `fromScript` agree: the script of an address is the only one
  with this address, for hashes of any length. Therefore the outputs with a script are the coins of an owner (`OwnedAreLocked`);
* sums: `MapThenSumSet` is a fold over a set in an order that nobody knows. `SumsAgree` of `FoldTheorems` shows that a sum
  does not depend on it, so that outputs and coins have the same total (`SameTotal`);
* answers: `DecideAll`. Whatever gs++ replies, out of `utxos` at that moment, is an answer that RestService allows, for
  each kind of question, unclear ones included;
* steps: `HandleIs` and `CallbackIs` say what handlers and callbacks do, and `RefineStep` maps `Accept` to `Ask`, a refused request
  to `Refuse`, `Serve` to `Decide`, a callback to `Tell` or, if it throws, to `End`, and `UtxosChange` to `Change`. Sending the message is a stutter.

**`DifferentialProofs`.** `HydrateReturns` says what `hydrate` may return, for every script. From it
follows `ParserKeepsItsPromise`. `VerdictsAreRight`: `GenesisAnswered`, `MintAnswered` and `SendAnswered` follow a message through
parser and server of either pair into the notation in which it is compared, `GenesisVerdict`,
`MintVerdict` and `SendVerdict` show that the checks fail exactly when the messages differ in
what the pair compares; `VerdictOnMessage` holds for every message `js` may stand for, which is
how `Disagree` is defined.

**Only model-checked.**

Every safety property that a passing run checks is stated by a theorem. With TLC stay the liveness
properties `StartupEnds`, `EventuallyKnown`, `ProgramEnds` and `RequestsEnd`, for which the prover has no rules of fairness, and
the three violations of section 4, which are about one instance each.

## 6. Not modelled

* The sums per token in the gRPC answers about balances, which join the outputs of `utxodb` with `validator.get`, and the limit of the
  UTXO queries.
* The rounding of large numbers to doubles in the gateway, and what `bch` stores of an output that is not there.
* The byte formats (`hydrate` of transactions and blocks, `serialize`, hashes) and the
  JSON of the RPC client: pure encodings.
* Chain reorganisations: the code does not detect them (`block.hpp` has a TODO), so
  there is no behaviour to model beyond wrong data.
* The unlocked reads of hash containers by `TrustedValidation` and `OutputOracle`. That is a
  data race; it is listed as a hazard. `SlpQueries` models the answers of reads that work.
* The Swagger pages below `server/proxy/web` are a vendored, minified bundle and the Go proxy is
  generated; neither has logic of this program.
* The command line client, decoders, C wrapper, `slp_script`, the crash fuzzers and the
  comparisons with Python and bitcoin RPC, and vendored libraries.

## 7. Plan

1. `Bch` with the cache files of `GsServer` over several lives; `BchAssumption` has at most one restart.
2. The sums per token and address of the gRPC answers, on top of `QueriesCorrect` and the validator's theorems.
