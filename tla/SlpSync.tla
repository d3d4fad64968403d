------------------------------ MODULE SlpSync ------------------------------
(***************************************************************************)
(* The memory gs++ serves from and the three handlers that fill it:        *)
(* slpsync_bitcoind_process_block, _process_mempool and _process_tx.  A    *)
(* handler holds processing_mutex while it judges its transactions one by  *)
(* one and then inserts the accepted ones into a graph, one token at a     *)
(* time; gRPC readers take no processing_mutex and see every state in      *)
(* between.                                                                *)
(***************************************************************************)
EXTENDS SlpValidator, TxGraph, SequencesExt

CONSTANT MaxTxs  \* transactions in a block or mempool listing, a bound

ASSUME MaxTxsAssumption == MaxTxs \in Nat

VARIABLES
    g,    \* txgraph of confirmed transactions
    mg,   \* txgraph of mempool transactions
    job   \* the handler that holds processing_mutex

syncVars == <<transaction_map, valid, trusted, early, g, mg, job>>

-----------------------------------------------------------------------------
(* A handler call: what is left of its block, the accepted transactions in *)
(* order (valid_txs_list) and those of them still to be inserted (the map  *)
(* valid_txs).                                                             *)

Kind == {"none", "block", "mempool", "tx"}
Job  == [kind : Kind, txs : Seq(Txid), trusted : BOOLEAN,
         valid_txs_list : Seq(Txid), valid_txs : SUBSET Txid]
NewJob(kind, txs, trust) ==
    [kind |-> kind, txs |-> txs, trusted |-> trust,
     valid_txs_list |-> <<>>, valid_txs |-> {}]
NoJob == NewJob("none", <<>>, FALSE)

MutexFree == job.kind = "none"

\* process_block, after topological_sort
BeginBlock(txs, trust) ==
    /\ MutexFree
    /\ job' = NewJob("block", txs, trust)
    /\ UNCHANGED <<validatorVars, g, mg>>

\* Faulty variant: the other graph is cleared.
BeginMempool_clears_g(txs) ==
    /\ MutexFree
    /\ job' = NewJob("mempool", txs, FALSE)
    /\ g' = EmptyGraph
    /\ UNCHANGED <<validatorVars, mg>>

\* process_mempool starts with mg.clear()
BeginMempool(txs) ==
    /\ MutexFree
    /\ job' = NewJob("mempool", txs, FALSE)
    /\ mg' = EmptyGraph
    /\ UNCHANGED <<validatorVars, g>>

\* process_tx
BeginTx(t) ==
    /\ MutexFree
    /\ job' = NewJob("tx", <<t>>, FALSE)
    /\ UNCHANGED <<validatorVars, g, mg>>

\* One round of the loop over the block: transactions the validator has are
\* skipped, the others are added.  When add_tx throws, no step is possible
\* but the end of the process (Restart).
JudgeTx ==
    /\ job.txs # <<>>
    /\ LET t == Head(job.txs) IN
       /\ has(t) \/ ~AddTxThrows(t, job.trusted)
       /\ IF has(t) THEN UNCHANGED validatorVars ELSE AddTx(t, job.trusted)
       /\ job' = IF AddTxResult(t)
                 THEN [job EXCEPT !.txs = Tail(@),
                                  !.valid_txs_list = Append(@, t),
                                  !.valid_txs = @ \cup {t}]
                 ELSE [job EXCEPT !.txs = Tail(@)]
    /\ UNCHANGED <<g, mg>>

\* insert_token_data for one token of valid_txs, a hash map: any order.
InsertToken(tokenid) ==
    LET txs == {t \in job.valid_txs : InTokenGraph(tokenid, t)} IN
    /\ job.txs = <<>>
    /\ txs # {}
    /\ job' = [job EXCEPT !.valid_txs = @ \ txs]
    /\ IF job.kind = "block"
       THEN g' = insert_token_data(g, tokenid, txs) /\ UNCHANGED mg
       ELSE mg' = insert_token_data(mg, tokenid, txs) /\ UNCHANGED g
    /\ UNCHANGED validatorVars

JobDone == job.kind # "none" /\ job.txs = <<>> /\ job.valid_txs = {}

\* The handler returns and releases processing_mutex.
EndJob ==
    /\ JobDone
    /\ job' = NoJob
    /\ UNCHANGED <<validatorVars, g, mg>>

JobStep == JudgeTx \/ \E k \in Txid : InsertToken(k)

\* The process ends, by a crash or an uncaught exception, and starts again:
\* nothing of this survives.
Restart ==
    /\ transaction_map' = {} /\ valid' = {} /\ trusted' = {} /\ early' = {}
    /\ g' = EmptyGraph /\ mg' = EmptyGraph /\ job' = NoJob

-----------------------------------------------------------------------------
(* Any sequence of calls.  Trusted blocks come from the block cache.        *)

TxList == BoundedSeq(Txid, MaxTxs)

SyncInit ==
    /\ ValidatorInit
    /\ g = EmptyGraph
    /\ mg = EmptyGraph
    /\ job = NoJob

SyncNext ==
    \/ \E txs \in TxList, trust \in BOOLEAN :
           /\ trust => ToSet(txs) \subseteq SlpValid
           /\ BeginBlock(txs, trust)
    \/ \E txs \in TxList : BeginMempool(txs)
    \/ \E t \in Txid : BeginTx(t)
    \/ JobStep
    \/ EndJob
    \/ Restart

SyncSpec == SyncInit /\ [][SyncNext]_syncVars

-----------------------------------------------------------------------------
SyncTypeOK ==
    /\ ValidatorTypeOK
    /\ g \in Graph /\ mg \in Graph
    /\ job \in Job

\* Whatever a reader finds in a graph, in the middle of any handler, is a
\* transaction the validator has accepted and still stores.
GraphsAreValid ==
    /\ g.nodes \cup mg.nodes \cup job.valid_txs \subseteq valid
    /\ valid \subseteq transaction_map

\* No transaction is both in the confirmed graph and in the mempool graph, nor
\* in a graph before its handler inserts it: the warning "already in set" of
\* insert_token_data is never logged, and GraphSearch, which merges the two
\* graphs, never meets a transaction twice.
GraphsDisjoint ==
    /\ g.nodes \cap mg.nodes = {}
    /\ job.valid_txs \cap (g.nodes \cup mg.nodes) = {}

\* A search that starts in a graph stays in it, among true ancestors of the
\* same token, even though mg is cleared and refilled around it.
EdgesOf(G) ==
    \A e \in G.edges :
        /\ e[1] \in G.nodes /\ e[2] \in G.nodes
        /\ e[2] \in Parents(e[1])
        /\ Tx[e[1]].tokenid = Tx[e[2]].tokenid
EdgesStayInside == EdgesOf(g) /\ EdgesOf(mg)

\* While the process lives a verdict is final, for better (nothing accepted is
\* withdrawn) and for worse (what was rejected because it came before its
\* parents stays rejected when a block brings it again).
VerdictsAreFinal ==
    [][ \/ Restart
        \/ \A t \in transaction_map :
              t \in transaction_map' /\ (t \in valid' <=> t \in valid) ]_syncVars

\* The confirmed graph only grows while the process lives, whatever happens to
\* the mempool.
ConfirmedGraphGrows ==
    [][ Restart \/ (g.nodes \subseteq g'.nodes /\ g.edges \subseteq g'.edges) ]_syncVars
=============================================================================
