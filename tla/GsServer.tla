------------------------------ MODULE GsServer ------------------------------
(***************************************************************************)
(* The gs++ process: main() brings the memory of SlpSync up to date from   *)
(* the block cache, the RPC interface and the mempool of a bitcoind, while *)
(* a listener thread follows that node's ZMQ notifications.  The node, the *)
(* network and the disk are the environment: blocks are mined at any time, *)
(* requests fail, notifications get lost, the process dies at any step.    *)
(* Chain reorganisations are not modelled (the code does not detect them). *)
(***************************************************************************)
EXTENDS SlpSync, TopoOrder

CONSTANTS
    StartHeight,  \* utxo.block_height of the configuration
    MaxBlocks,    \* blocks the node mines
    MaxQueue,     \* notifications in flight
    MaxFailures,  \* RPC requests that fail
    MaxLost,      \* notifications that get lost
    MaxCrashes,   \* deaths of the process from outside
    OddScript,    \* outpoints whose script to_cashaddr has no address for
    OddTicker     \* GENESIS transactions whose ticker is not UTF-8

ASSUME ServerAssumption ==
    /\ StartHeight \in Nat \ {0}
    /\ {MaxBlocks, MaxQueue, MaxFailures, MaxLost, MaxCrashes} \subseteq Nat
    /\ StartHeight <= MaxBlocks + 1  \* the blocks before StartHeight are mined

ASSUME ContentAssumption == OddScript \subseteq Outpoint /\ OddTicker \subseteq Txid

\* Blocks and listings are finite, and none is longer than MaxTxs.
ASSUME ListAssumption ==
    /\ IsFiniteSet(Txid)
    /\ Cardinality(Txid) <= MaxTxs

VARIABLES
    \* the bitcoind node and its ZMQ socket
    chain,      \* chain[h]: the SLP transactions of the block at height h
    mempool,    \* SLP transactions the node holds unconfirmed
    zmq,        \* notifications on their way to the listener
    \* the disk
    cache,      \* cache[h]: the file of the block at height h
    \* main()
    mpc,        \* where main() is
    current_block_height,
    current_block_hash,   \* see Hash
    best,                 \* best_block_height as last read
    fetched,              \* result of get_mempool_transactions
    startup,              \* startup_mempool_transactions
    startup_processing_mempool,
    \* the ZMQ listener
    lpc,        \* where the listener is
    lmsg,       \* the message it works on
    \* budgets and history
    failures, lost, crashes,
    missed,     \* transactions this process was not told about
    processed,  \* heights whose block this process has processed
    reread      \* heights whose block some process read again and cached again

nodeVars  == <<chain, mempool, zmq>>
mainVars  == <<mpc, current_block_height, current_block_hash, best, fetched, startup,
               startup_processing_mempool>>
listenVars == <<lpc, lmsg>>
budgets   == <<failures, lost, crashes>>
history   == <<missed, processed, reread>>
serverVars == <<syncVars, nodeVars, cache, mainVars, listenVars, budgets, history>>

Height    == 0..(MaxBlocks + 1)
Message   == [topic : {"none", "rawtx", "rawblock"}, txs : SUBSET Txid, height : Height]
NoMessage == [topic |-> "none", txs |-> {}, height |-> 0]
File      == [state : {"absent", "torn", "whole"}, txs : Seq(Txid)]
\* The height of the block a hash is of, 0 if none, and the order of its bytes:
\* that of the digest, or last byte first, as hashes are written.
Hash      == [of : Nat, order : {"digest", "written"}]
Digest(h) == [of |-> h, order |-> "digest"]
Written(h) == [of |-> h, order |-> "written"]
NoHash    == Digest(0)
NoFile    == [state |-> "absent", txs |-> <<>>]
TornFile  == [state |-> "torn", txs |-> <<>>]

Block(h)  == IF h \in DOMAIN chain THEN chain[h] ELSE {}
Confirmed == UNION {chain[h] : h \in DOMAIN chain}

\* Faulty variant: the transactions in any order.
topological_sort_unsorted(S) == SetToSeqs(S)

\* util::topological_sort: some order of the transactions, without duplicates,
\* in which each follows the parents it has in the list (see TopoSort).
topological_sort(S) == TopologicalOrders(S, [t \in S |-> Parents(t)])

-----------------------------------------------------------------------------
(* The node. *)

Subscribed == lpc \notin {"off", "connect"}
Publish(msgs) ==
    /\ Len(zmq) + Len(msgs) <= MaxQueue
    /\ zmq' = IF Subscribed THEN zmq \o msgs ELSE zmq

RawTx(t) == [topic |-> "rawtx", txs |-> {t}, height |-> 0]

Broadcast(t) ==
    /\ t \notin mempool \cup Confirmed
    /\ Parents(t) \subseteq mempool \cup Confirmed
    /\ mempool' = mempool \cup {t}
    /\ Publish(<<RawTx(t)>>)
    /\ missed' = IF ~Subscribed /\ mpc \in {"append", "copy", "mempoolJob", "flag", "serving"}
                 THEN missed \cup {t} ELSE missed
    /\ UNCHANGED <<syncVars, chain, cache, mainVars, listenVars, budgets, processed, reread>>

\* A block takes any unconfirmed transactions, known to the node or not; the
\* node may announce them once more before it announces the block.
Mine(B, announce) ==
    /\ Len(chain) < MaxBlocks
    /\ B \cap Confirmed = {}
    /\ \A t \in B : Parents(t) \subseteq B \cup Confirmed
    /\ chain' = Append(chain, B)
    /\ mempool' = mempool \ B
    /\ LET rawblock == [topic |-> "rawblock", txs |-> B, height |-> Len(chain) + 1] IN
       IF announce
       THEN \E s \in topological_sort(B) :
                Publish(Append([i \in DOMAIN s |-> RawTx(s[i])], rawblock))
       ELSE Publish(<<rawblock>>)
    /\ missed' = IF Subscribed \/ mpc \in {"cache", "cacheJob", "info", "exited"}
                 THEN missed ELSE missed \cup B
    /\ UNCHANGED <<syncVars, cache, mainVars, listenVars, budgets, processed, reread>>

LoseMessage ==
    /\ zmq # <<>>
    /\ lost < MaxLost
    /\ lost' = lost + 1
    /\ missed' = missed \cup Head(zmq).txs
    /\ zmq' = Tail(zmq)
    /\ UNCHANGED <<syncVars, chain, mempool, cache, mainVars, listenVars, failures, crashes,
                   processed, reread>>

-----------------------------------------------------------------------------
(* The end of the process and its next start. *)

Die ==
    /\ Restart
    /\ mpc' = "exited"
    /\ current_block_height' = StartHeight
    /\ current_block_hash' = NoHash
    /\ best' = 0 /\ fetched' = {} /\ startup' = {}
    /\ startup_processing_mempool' = TRUE
    /\ lpc' = "off" /\ lmsg' = NoMessage
    /\ zmq' = <<>>
    /\ missed' = {} /\ processed' = {}
    /\ UNCHANGED <<chain, mempool, cache, reread>>

Crash ==
    /\ mpc # "exited"
    /\ crashes < MaxCrashes
    /\ crashes' = crashes + 1
    /\ Die
    /\ UNCHANGED <<failures, lost>>

Start ==
    /\ mpc = "exited"
    /\ mpc' = "cache"
    /\ UNCHANGED <<syncVars, nodeVars, cache, current_block_height, current_block_hash, best,
                   fetched, startup, startup_processing_mempool, listenVars, budgets, history>>

RpcFails ==
    /\ failures < MaxFailures
    /\ failures' = failures + 1
    /\ UNCHANGED <<lost, crashes>>

-----------------------------------------------------------------------------
(* main(): the cache loop. *)

\* Steps of main() leave the node, the listener and the history alone, unless
\* they say otherwise.
MainFrame == UNCHANGED <<nodeVars, listenVars, fetched, startup,
                         startup_processing_mempool, missed>>

ReadCacheFile ==
    /\ mpc = "cache"
    /\ LET file == cache[current_block_height] IN
       \/ /\ file.state = "absent"
          /\ mpc' = "info"
          /\ current_block_height' = current_block_height - 1
          /\ UNCHANGED <<syncVars, current_block_hash, processed>>
       \/ /\ file.state = "whole"
          /\ mpc' = "cacheJob"
          /\ current_block_hash' = Digest(current_block_height)
          /\ BeginBlock(file.txs, TRUE)
          /\ processed' = processed \cup {current_block_height}
          /\ UNCHANGED current_block_height
    /\ MainFrame /\ UNCHANGED <<cache, best, budgets, reread>>

\* A file that cannot be hydrated ends the program ("TODO Delete me").
TornCacheFile ==
    /\ mpc = "cache"
    /\ cache[current_block_height].state = "torn"
    /\ Die
    /\ UNCHANGED budgets

CacheBlockDone ==
    /\ mpc = "cacheJob"
    /\ EndJob
    /\ mpc' = "cache"
    /\ current_block_height' = current_block_height + 1
    /\ MainFrame /\ UNCHANGED <<cache, current_block_hash, best, budgets, processed, reread>>

-----------------------------------------------------------------------------
(* main(): the RPC loop. *)

GetBlockchainInfo ==
    /\ mpc = "info"
    /\ best' = Len(chain)
    /\ mpc' = IF current_block_height = Len(chain) THEN "spawn" ELSE "rpc"
    /\ MainFrame /\ UNCHANGED <<syncVars, cache, current_block_height, current_block_hash,
                                budgets, processed, reread>>

GetBlockchainInfoFails ==
    /\ mpc = "info"
    /\ RpcFails
    /\ Die

\* Faulty variant: one block too far.
InRpcLoop_one_more == current_block_height >= 0 /\ current_block_height <= best + 1

\* best_block_height is unsigned, so a negative height is above it.
InRpcLoop == current_block_height >= 0 /\ current_block_height <= best

\* A block is processed again if this process has processed it already.
GetRawBlock ==
    /\ mpc = "rpc"
    /\ InRpcLoop
    /\ mpc' = "rpcJob"
    /\ current_block_hash' = Digest(current_block_height)
    /\ \E s \in topological_sort(Block(current_block_height)) : BeginBlock(s, FALSE)
    /\ reread' = IF current_block_height \in processed
                 THEN reread \cup {current_block_height} ELSE reread
    /\ processed' = processed \cup {current_block_height}
    /\ MainFrame /\ UNCHANGED <<cache, current_block_height, best, budgets>>

\* get_block_hash, get_raw_block or hydrate failed: back one block, and again.
GetRawBlockFails ==
    /\ mpc = "rpc"
    /\ InRpcLoop
    /\ RpcFails
    /\ mpc' = "info"
    /\ current_block_height' = current_block_height - 1
    /\ MainFrame /\ UNCHANGED <<syncVars, cache, current_block_hash, best, processed, reread>>

\* The hash of the block is set once more, to what rpc.get_block_hash returned:
\* bhash takes the text's bytes as they come.  Then cache_slp_block opens the
\* file, which empties it, and writes it.
OpenCacheFile ==
    /\ mpc = "rpcJob"
    /\ JobDone
    /\ mpc' = "write"
    /\ current_block_hash' = Written(current_block_height)
    /\ cache' = [cache EXCEPT ![current_block_height] = TornFile]
    /\ MainFrame /\ UNCHANGED <<syncVars, current_block_height, best, budgets, processed,
                                reread>>

\* Faulty variants: the height is counted up before the file is named, or not
\* at all.
WriteCacheFile_late(h) ==
    /\ mpc = "write"
    /\ mpc' = "rpc"
    /\ cache' = [cache EXCEPT ![h] = [state |-> "whole", txs |-> job.valid_txs_list]]
    /\ EndJob
    /\ current_block_height' = h
    /\ MainFrame /\ UNCHANGED <<current_block_hash, best, budgets, processed, reread>>
WriteCacheFile_next_height == WriteCacheFile_late(current_block_height + 1)
WriteCacheFile_same_height == WriteCacheFile_late(current_block_height)

\* The file gets the transactions this call of process_block accepted.  (The
\* mutex is released before the file is written; nobody else takes it before
\* the listener is started.)
WriteCacheFile ==
    /\ mpc = "write"
    /\ mpc' = "rpc"
    /\ cache' = [cache EXCEPT ![current_block_height] =
                    [state |-> "whole", txs |-> job.valid_txs_list]]
    /\ EndJob
    /\ current_block_height' = current_block_height + 1
    /\ MainFrame /\ UNCHANGED <<current_block_hash, best, budgets, processed, reread>>

\* Faulty variant: the height stays one past the last block.
RpcLoopEnds_past ==
    /\ mpc = "rpc"
    /\ ~InRpcLoop
    /\ mpc' = "spawn"
    /\ MainFrame /\ UNCHANGED <<syncVars, cache, current_block_height, current_block_hash, best,
                                budgets, processed, reread>>

RpcLoopEnds ==
    /\ mpc = "rpc"
    /\ ~InRpcLoop
    /\ mpc' = "spawn"
    /\ current_block_height' = current_block_height - 1
    /\ MainFrame /\ UNCHANGED <<syncVars, cache, current_block_hash, best, budgets, processed,
                                reread>>

-----------------------------------------------------------------------------
(* main(): the listener is started, then the mempool is read and processed. *)

StartFrame == UNCHANGED <<cache, current_block_height, current_block_hash, best, nodeVars,
                          processed, reread>>

SpawnListener ==
    /\ mpc = "spawn"
    /\ mpc' = "mempool"
    /\ lpc' = "connect"
    /\ StartFrame /\ UNCHANGED <<syncVars, fetched, startup, startup_processing_mempool, lmsg,
                                 budgets, missed>>

GetMempool ==
    /\ mpc = "mempool"
    /\ mpc' = "append"
    /\ fetched' = mempool
    /\ StartFrame /\ UNCHANGED <<syncVars, startup, startup_processing_mempool, listenVars,
                                 budgets, missed>>

\* get_mempool_transactions threw: retry_loop1.
GetMempoolFails ==
    /\ mpc = "mempool"
    /\ RpcFails
    /\ StartFrame /\ UNCHANGED <<syncVars, mpc, fetched, startup, startup_processing_mempool,
                                 listenVars, missed>>

\* Faulty variant: the listing replaces what the listener has set aside.
AppendMempool_replaces ==
    /\ mpc = "append"
    /\ mpc' = "copy"
    /\ startup' = fetched
    /\ StartFrame /\ UNCHANGED <<syncVars, fetched, startup_processing_mempool, listenVars,
                                 budgets, missed>>

AppendMempool ==
    /\ mpc = "append"
    /\ mpc' = "copy"
    /\ startup' = startup \cup fetched
    /\ StartFrame /\ UNCHANGED <<syncVars, fetched, startup_processing_mempool, listenVars,
                                 budgets, missed>>

ProcessStartupMempool ==
    /\ mpc = "copy"
    /\ mpc' = "mempoolJob"
    /\ \E s \in topological_sort(startup) : BeginMempool(s)
    /\ StartFrame /\ UNCHANGED <<fetched, startup, startup_processing_mempool, listenVars,
                                 budgets, missed>>

StartupMempoolDone ==
    /\ mpc = "mempoolJob"
    /\ EndJob
    /\ mpc' = "flag"
    /\ StartFrame /\ UNCHANGED <<fetched, startup, startup_processing_mempool, listenVars,
                                 budgets, missed>>

\* startup_processing_mempool = false; the gRPC server starts.
Serve ==
    /\ mpc = "flag"
    /\ mpc' = "serving"
    /\ startup_processing_mempool' = FALSE
    /\ StartFrame /\ UNCHANGED <<syncVars, fetched, startup, listenVars, budgets, missed>>

-----------------------------------------------------------------------------
(* The listener. *)

ListenFrame == UNCHANGED <<chain, mempool, cache, mpc, best, fetched,
                           startup_processing_mempool, processed, reread>>

Connect ==
    /\ lpc = "connect"
    /\ lpc' = "recv"
    /\ ListenFrame /\ UNCHANGED <<syncVars, zmq, current_block_height, current_block_hash,
                                  startup, lmsg, budgets, missed>>

Receive(topic) ==
    /\ lpc = "recv"
    /\ zmq # <<>>
    /\ Head(zmq).topic = topic
    /\ zmq' = Tail(zmq)
    /\ lmsg' = Head(zmq)

\* While main() is starting up, transactions are set aside ...
ReceiveStartupTx ==
    /\ startup_processing_mempool
    /\ Receive("rawtx")
    /\ lpc' = "push"
    /\ ListenFrame /\ UNCHANGED <<syncVars, current_block_height, current_block_hash, startup,
                                  budgets, missed>>

\* ... in a vector that main() fills and copies without a lock: if the two
\* meet, the transaction may not survive; if main() is done, it comes too late.
PushStartupTx ==
    /\ lpc = "push"
    /\ lpc' = "recv"
    /\ \/ startup' = startup \cup lmsg.txs
       \/ mpc \in {"append", "copy"} /\ UNCHANGED startup
    /\ missed' = IF mpc \in {"mempool", "append", "copy"} /\ lmsg.txs \subseteq startup'
                 THEN missed ELSE missed \cup lmsg.txs
    /\ ListenFrame /\ UNCHANGED <<syncVars, zmq, current_block_height, current_block_hash, lmsg,
                                  budgets>>

\* ... and blocks are thrown away.
ReceiveStartupBlock ==
    /\ startup_processing_mempool
    /\ Receive("rawblock")
    /\ missed' = missed \cup Head(zmq).txs
    /\ ListenFrame /\ UNCHANGED <<syncVars, lpc, current_block_height, current_block_hash,
                                  startup, budgets>>

ReceiveTx ==
    /\ ~startup_processing_mempool
    /\ Receive("rawtx")
    /\ lpc' = "txJob"
    /\ \E t \in Head(zmq).txs : BeginTx(t)
    /\ ListenFrame /\ UNCHANGED <<current_block_height, current_block_hash, startup, budgets,
                                  missed>>

\* Faulty variant: the mutex is released before the handler is through.
TxDone_early ==
    /\ lpc = "txJob"
    /\ lpc' = "recv"
    /\ job' = NoJob
    /\ UNCHANGED <<validatorVars, g, mg>>
    /\ ListenFrame /\ UNCHANGED <<zmq, current_block_height, current_block_hash, startup, lmsg,
                                  budgets, missed>>

TxDone ==
    /\ lpc = "txJob"
    /\ lpc' = IF job.valid_txs_list # <<>> THEN "publish" ELSE "recv"
    /\ EndJob
    /\ ListenFrame /\ UNCHANGED <<zmq, current_block_height, current_block_hash, startup, lmsg,
                                  budgets, missed>>

\* transaction::slp_inputs
slp_inputs(t) == {o \in Inputs(t) : has(o.txid) /\ o \in slp_outputs(o.txid)}

\* The announcement looks up the token: validator.get throws if its genesis is
\* not stored, absl::get if that is no GENESIS; an NFT1 child names its group.
FindsToken(t) ==
    LET k == Tx[t].tokenid IN
    /\ has(k)
    /\ Tx[k].type = "genesis"
    /\ Tx[t].token_type = Nft1Child => has(Tx[k].inputs[1].txid)

\* json.dump() throws on text that is not UTF-8.
CanPublish(t) == FindsToken(t) /\ Tx[t].tokenid \notin OddTicker

\* to_cashaddr asserts that a script has an address, which a release build does
\* not check; what slp_outputs finds past the end is anybody's guess.
MayAbort(t) ==
    (slp_inputs(t) \cup slp_outputs(t)) \cap OddScript # {} \/ ReadsPastEnd(t)

PublishTx ==
    /\ lpc = "publish"
    /\ \A t \in lmsg.txs : CanPublish(t)
    /\ lpc' = "recv"
    /\ ListenFrame /\ UNCHANGED <<syncVars, zmq, current_block_height, current_block_hash,
                                  startup, lmsg, budgets, missed>>

\* The listener catches zmq::error_t only.
PublishThrows ==
    /\ lpc = "publish"
    /\ \E t \in lmsg.txs : ~CanPublish(t) \/ MayAbort(t)
    /\ Die
    /\ UNCHANGED budgets

ReceiveBlock ==
    /\ ~startup_processing_mempool
    /\ Receive("rawblock")
    /\ lpc' = "blockJob"
    /\ current_block_height' = current_block_height + 1
    /\ \E s \in topological_sort(Head(zmq).txs) : BeginBlock(s, FALSE)
    /\ ListenFrame /\ UNCHANGED <<current_block_hash, startup, budgets, missed>>

BlockDone ==
    /\ lpc = "blockJob"
    /\ EndJob
    /\ lpc' = "mempool"
    /\ ListenFrame /\ UNCHANGED <<zmq, current_block_height, current_block_hash, startup, lmsg,
                                  budgets, missed>>

RefreshMempool ==
    /\ lpc = "mempool"
    /\ lpc' = "mempoolJob"
    /\ \E s \in topological_sort(mempool) : BeginMempool(s)
    /\ ListenFrame /\ UNCHANGED <<zmq, current_block_height, current_block_hash, startup, lmsg,
                                  budgets, missed>>

\* get_mempool_transactions throws, and the listener catches zmq::error_t only.
RefreshMempoolFails ==
    /\ lpc = "mempool"
    /\ RpcFails
    /\ Die

RefreshMempoolDone ==
    /\ lpc = "mempoolJob"
    /\ EndJob
    /\ lpc' = "recv"
    /\ current_block_hash' = Digest(lmsg.height)
    /\ ListenFrame /\ UNCHANGED <<zmq, current_block_height, startup, lmsg, budgets, missed>>

-----------------------------------------------------------------------------
ServerInit ==
    /\ SyncInit
    /\ chain = [h \in 1..(StartHeight - 1) |-> {}]  \* SLP is younger than StartHeight
    /\ mempool = {} /\ zmq = <<>>
    /\ cache = [h \in Height |-> NoFile]
    /\ mpc = "exited"
    /\ current_block_height = StartHeight
    /\ current_block_hash = NoHash
    /\ best = 0 /\ fetched = {} /\ startup = {}
    /\ startup_processing_mempool = TRUE
    /\ lpc = "off" /\ lmsg = NoMessage
    /\ failures = 0 /\ lost = 0 /\ crashes = 0
    /\ missed = {} /\ processed = {} /\ reread = {}

RunJob ==
    /\ JobStep
    /\ UNCHANGED <<nodeVars, cache, mainVars, listenVars, budgets, history>>

MainStep ==
    \/ ReadCacheFile \/ TornCacheFile \/ CacheBlockDone
    \/ GetBlockchainInfo \/ GetRawBlock \/ OpenCacheFile \/ WriteCacheFile \/ RpcLoopEnds
    \/ SpawnListener \/ GetMempool \/ AppendMempool \/ ProcessStartupMempool
    \/ StartupMempoolDone \/ Serve

ListenStep ==
    \/ Connect \/ ReceiveStartupTx \/ PushStartupTx \/ ReceiveStartupBlock
    \/ ReceiveTx \/ TxDone \/ PublishTx \/ PublishThrows
    \/ ReceiveBlock \/ BlockDone \/ RefreshMempool \/ RefreshMempoolDone

Failure ==
    \/ GetBlockchainInfoFails \/ GetRawBlockFails \/ GetMempoolFails \/ RefreshMempoolFails
    \/ LoseMessage \/ Crash

ServerNext ==
    \/ \E t \in Txid : Broadcast(t)
    \/ \E B \in SUBSET Txid, announce \in BOOLEAN : Mine(B, announce)
    \/ Start
    \/ RunJob
    \/ MainStep
    \/ ListenStep
    \/ Failure

ServerSpec == ServerInit /\ [][ServerNext]_serverVars

-----------------------------------------------------------------------------
MainPc == {"exited", "cache", "cacheJob", "info", "rpc", "rpcJob", "write", "spawn",
           "mempool", "append", "copy", "mempoolJob", "flag", "serving"}
ListenPc == {"off", "connect", "recv", "push", "txJob", "publish", "blockJob", "mempool",
             "mempoolJob"}

ServerTypeOK ==
    /\ SyncTypeOK
    /\ chain \in Seq(SUBSET Txid) /\ mempool \subseteq Txid /\ zmq \in Seq(Message)
    /\ cache \in [Height -> File]
    /\ mpc \in MainPc /\ current_block_height \in Int /\ current_block_hash \in Hash
    /\ best \in Nat /\ fetched \subseteq Txid /\ startup \subseteq Txid
    /\ startup_processing_mempool \in BOOLEAN
    /\ lpc \in ListenPc /\ lmsg \in Message
    /\ failures \in Nat /\ lost \in Nat /\ crashes \in Nat
    /\ missed \subseteq Txid /\ processed \subseteq 0..Len(chain) /\ reread \subseteq Height

\* A transaction with everything it descends from.
Ancestry[t \in Txid] == {t} \cup UNION {Ancestry[p] : p \in Parents(t)}
RereadTxs == UNION {Block(h) : h \in reread}

\* main() hands the transactions of cache files to the validator as trusted.
\* Across any number of deaths, restarts and retries a file holds nothing but
\* SLP-valid transactions of the block at its height.
CacheIsSound ==
    \A h \in DOMAIN cache : ToSet(cache[h].txs) \subseteq SlpValid \cap Block(h)

\* A complete cache file lacks an SLP-valid transaction of its block only if a
\* block that holds this transaction, or something it descends from, was
\* processed a second time by one process (after a failed request, or because
\* the RPC loop resumes at the last cached block): the second time
\* process_block skips what the validator has, and the file is overwritten.
CacheLosesOnlyReread ==
    \A h \in DOMAIN cache :
        cache[h].state = "whole" =>
            \A t \in Block(h) \cap SlpValid :
                t \in ToSet(cache[h].txs) \/ Ancestry[t] \cap RereadTxs # {}

Quiet == mpc = "serving" /\ lpc = "recv" /\ zmq = <<>>

\* What may keep an SLP-valid transaction out: something in its ancestry was
\* not told to this process (lost notification, block thrown away during
\* startup, transaction set aside too late), was judged before its parents (a
\* mempool listing overtakes the notification of a block), or was lost by a
\* rewritten cache file.
Explained(t) == Ancestry[t] \cap (missed \cup early \cup RereadTxs) # {}

\* A server that has handled all its messages holds every SLP-valid
\* transaction of the chain and the mempool, but for the explained ones.
CaughtUp ==
    Quiet => \A t \in (Confirmed \cup mempool) \cap SlpValid : t \in valid \/ Explained(t)

\* Between two handlers a node of the confirmed graph is linked to every parent
\* of its token in the graph: no search stops short of an ancestor that is
\* there, although a node gets its edges only when it is inserted.  The one
\* exception is a parent that a rewritten cache file lost and that was read
\* again, after its child had come from the cache.
ConfirmedEdgesComplete ==
    MutexFree => \A t \in g.nodes : \A p \in Parents(t) \cap g.nodes :
                    Tx[p].tokenid = Tx[t].tokenid =>
                        <<t, p>> \in g.edges \/ p \in RereadTxs

\* Status reads the height and the hash one after the other, and the listener
\* counts the height up before it processes a block and sets the hash after that.
CountedAhead == IF lpc \in {"blockJob", "mempool", "mempoolJob"} THEN 1 ELSE 0

\* At any moment the Status reply claims no height the chain does not have, nor
\* one above the block whose hash it reports, but for the block being processed.
\* The hash comes out backwards, and names no block, only until the listener
\* has taken the server past the last block that main() read.
StatusIsConsistent ==
    mpc = "serving" =>
        /\ current_block_height <= Len(chain)
        /\ current_block_hash.of # 0 =>
              current_block_height <= current_block_hash.of + CountedAhead
        /\ current_block_hash.order = "written" => current_block_height <= best + CountedAhead

\* What a transaction may hold that its announcement does not survive.
Unpublishable(t) ==
    \/ (Inputs(t) \cup slp_outputs(t)) \cap OddScript # {}
    \/ Tx[t].tokenid \in OddTicker
    \/ ReadsPastEnd(t)

\* The announcement of a transaction that was accepted ends the process only for
\* what the transaction holds, or if it moves no units, as long as nothing came
\* from the cache: the genesis and the group that it looks up are stored.
AnnouncementsSucceed ==
    lpc = "publish" /\ trusted = {} =>
        \A t \in lmsg.txs :
            (CanPublish(t) /\ ~MayAbort(t)) \/ MovesNothing(t) \/ Unpublishable(t)

\* txgraph.hpp says of NOT_FOUND "could be invalid slp token or we havent seen
\* it yet": a transaction the validator holds valid is in one of the graphs.
SearchFindsValid == Quiet => valid \subseteq g.nodes \cup mg.nodes

-----------------------------------------------------------------------------
(* Both threads and the handler they call are scheduled; nothing is assumed *)
(* of the node, of failures or of whoever starts the process again.        *)

Fairness ==
    /\ WF_serverVars(RunJob)
    /\ WF_serverVars(MainStep)
    /\ WF_serverVars(ListenStep)

FairServerSpec == ServerSpec /\ Fairness

\* A started process gets to serve, or ends; it never hangs in a retry loop
\* once requests stop failing.
StartupEnds == mpc = "cache" ~> mpc \in {"serving", "exited"}

\* Every SLP-valid transaction the node holds while the process lives ends up
\* valid in its memory, unless the process ends or the omission is explained.
EventuallyKnown ==
    \A t \in SlpValid :
        (mpc # "exited" /\ t \in Confirmed \cup mempool)
            ~> (t \in valid \/ Explained(t) \/ mpc = "exited")
=============================================================================
