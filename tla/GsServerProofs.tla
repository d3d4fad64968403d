--------------------------- MODULE GsServerProofs ---------------------------
(***************************************************************************)
(* Proofs about SlpSync and GsServer, for every universe of transactions   *)
(* and every number of blocks, failures and deaths.  First the handlers:   *)
(* what the graphs hold in every state of every handler.  Then the server  *)
(* around them: the block cache is sound, the height of the Status reply   *)
(* is not ahead, announcements succeed, the confirmed graph lacks no edge, *)
(* the server uses the handlers in no other way than SlpSync allows, and   *)
(* what a file or a server that is up to date lacks is explained.          *)
(***************************************************************************)
EXTENDS GsServer, SlpValidatorProofs

-----------------------------------------------------------------------------
(* SlpSync. *)

\* Only valid transactions are taken on trust, also by a handler that is not
\* through with its block.
TrustIsSound == job.trusted => ToSet(job.txs) \subseteq SlpValid

\* The inductive invariant.
SyncInv ==
    /\ SyncTypeOK
    /\ ValidIsSound
    /\ GraphsAreValid
    /\ GraphsDisjoint
    /\ EdgesStayInside
    /\ TrustIsSound

-----------------------------------------------------------------------------
(* The graph operators. *)

\* insert_token_data adds the transactions as nodes, and edges whose ends are
\* nodes, child and parent of one token; it takes nothing away.
LEMMA InsertTokenData ==
    ASSUME NEW G \in Graph, EdgesOf(G), NEW k \in Txid, NEW txs \in SUBSET Txid,
           \A t \in txs : InTokenGraph(k, t)
    PROVE  LET H == insert_token_data(G, k, txs) IN
           /\ H \in Graph
           /\ H.nodes = G.nodes \cup txs
           /\ G.edges \subseteq H.edges
           /\ EdgesOf(H)
<1>. DEFINE A == add_nodes(G, txs)
            New == {e \in Latest(G, txs) \X A.nodes :
                        e[2] \in Parents(e[1]) /\ InTokenGraph(k, e[2])}
            H == insert_token_data(G, k, txs)
<1>1. /\ G.nodes \in SUBSET Txid /\ G.edges \in SUBSET (Txid \X Txid)
      /\ G = [nodes |-> G.nodes, edges |-> G.edges]
  BY DEF Graph
<1>2. A = [nodes |-> G.nodes \cup txs, edges |-> G.edges]
  BY <1>1 DEF add_nodes
<1>3. A.nodes = G.nodes \cup txs /\ A.edges = G.edges
  BY <1>2
<1>4. H = [nodes |-> A.nodes, edges |-> A.edges \cup New]
  <2>1. H = [A EXCEPT !.edges = @ \cup New]
    BY DEF insert_token_data, add_inputs
  <2>. HIDE DEF New
  <2>. QED
    BY <1>2, <2>1
<1>5. H.nodes = G.nodes \cup txs /\ H.edges = G.edges \cup New
  BY <1>3, <1>4
<1>6. Latest(G, txs) \subseteq txs
  BY DEF Latest
<1>7. ASSUME NEW e \in New
      PROVE  /\ e \in Txid \X Txid
             /\ e[1] \in txs /\ e[2] \in H.nodes
             /\ e[2] \in Parents(e[1])
             /\ InTokenGraph(k, e[1]) /\ InTokenGraph(k, e[2])
  BY <1>1, <1>3, <1>5, <1>6
<1>8. H \in Graph
  <2>1. H.nodes \in SUBSET Txid /\ H.edges \in SUBSET (Txid \X Txid)
    BY <1>1, <1>5, <1>7
  <2>. QED
    BY <1>4, <1>5, <2>1 DEF Graph
<1>9. EdgesOf(H)
  <2>1. ASSUME NEW e \in G.edges
        PROVE  /\ e[1] \in H.nodes /\ e[2] \in H.nodes
               /\ e[2] \in Parents(e[1])
               /\ Tx[e[1]].tokenid = Tx[e[2]].tokenid
    BY <1>5 DEF EdgesOf
  <2>2. ASSUME NEW e \in New
        PROVE  /\ e[1] \in H.nodes /\ e[2] \in H.nodes
               /\ e[2] \in Parents(e[1])
               /\ Tx[e[1]].tokenid = Tx[e[2]].tokenid
    BY <1>5, <1>7 DEF InTokenGraph
  <2>. QED
    BY <1>5, <2>1, <2>2 DEF EdgesOf
<1>. QED
  BY <1>5, <1>8, <1>9

\* The empty graph.
LEMMA EmptyGraphFacts ==
    /\ EmptyGraph \in Graph
    /\ EmptyGraph.nodes = {}
    /\ EdgesOf(EmptyGraph)
  BY DEF EmptyGraph, Graph, EdgesOf

\* A fresh job.
LEMMA NewJobFacts ==
    ASSUME NEW kind \in Kind, NEW txs \in Seq(Txid), NEW trust \in BOOLEAN
    PROVE  /\ NewJob(kind, txs, trust) \in Job
           /\ NewJob(kind, txs, trust).valid_txs = {}
           /\ NewJob(kind, txs, trust).txs = txs
           /\ NewJob(kind, txs, trust).trusted = trust
  BY DEF NewJob, Job

-----------------------------------------------------------------------------
(* One lemma per action. *)

\* The start of a handler, or the end of the process, empties the job; the
\* graphs stay or are emptied.
LEMMA BeginKeepsInv ==
    ASSUME SyncInv, NEW kind \in Kind, NEW txs \in Seq(Txid), NEW trust \in BOOLEAN,
           trust => ToSet(txs) \subseteq SlpValid,
           job' = NewJob(kind, txs, trust),
           UNCHANGED <<validatorVars, g>>,
           mg' = mg \/ mg' = EmptyGraph
    PROVE  SyncInv'
<1>1. /\ job' \in Job /\ job'.valid_txs = {} /\ job'.txs = txs /\ job'.trusted = trust
  BY NewJobFacts
<1>2. ValidatorTypeOK' /\ ValidIsSound'
  BY DEF SyncInv, SyncTypeOK, ValidatorTypeOK, ValidIsSound, validatorVars
<1>3. mg' \in Graph /\ EdgesOf(mg') /\ mg'.nodes \subseteq mg.nodes
  BY EmptyGraphFacts DEF SyncInv, SyncTypeOK, EdgesStayInside
<1>4. SyncTypeOK'
  BY <1>1, <1>2, <1>3 DEF SyncInv, SyncTypeOK
<1>5. GraphsAreValid' /\ GraphsDisjoint'
  BY <1>1, <1>3 DEF SyncInv, GraphsAreValid, GraphsDisjoint, validatorVars
<1>6. EdgesStayInside'
  BY <1>3 DEF SyncInv, EdgesStayInside
<1>7. TrustIsSound'
  BY <1>1 DEF TrustIsSound
<1>. QED
  BY <1>2, <1>4, <1>5, <1>6, <1>7 DEF SyncInv

\* What one round of the loop over the block does to the verdicts.
LEMMA JudgeTxFacts ==
    ASSUME SyncInv, JudgeTx
    PROVE  LET t == Head(job.txs) IN
           /\ t \in Txid
           /\ job.trusted => t \in SlpValid
           /\ has(t) => UNCHANGED validatorVars
           /\ ~has(t) => AddTx(t, job.trusted)
           /\ transaction_map \subseteq transaction_map'
           /\ valid \subseteq valid'
           /\ valid' \subseteq valid \cup (transaction_map' \ transaction_map)
           /\ valid' \subseteq transaction_map'
<1>. DEFINE t == Head(job.txs)
<1>1. job.txs \in Seq(Txid) /\ job.txs # <<>> /\ job.trusted \in BOOLEAN
  BY DEF SyncInv, SyncTypeOK, Job, JudgeTx
<1>2. t \in Txid /\ 1 \in DOMAIN job.txs /\ t = job.txs[1]
  BY <1>1
<1>3. job.trusted => t \in SlpValid
  BY <1>2 DEF SyncInv, TrustIsSound, ToSet
<1>4. valid \subseteq transaction_map
  BY DEF SyncInv, GraphsAreValid
<1>5. CASE has(t)
  <2>1. UNCHANGED validatorVars
    BY <1>5 DEF JudgeTx
  <2>. QED
    BY <1>2, <1>3, <1>4, <1>5, <2>1 DEF validatorVars
<1>6. CASE ~has(t)
  <2>1. AddTx(t, job.trusted)
    BY <1>6 DEF JudgeTx
  <2>2. CASE Tx[t].type = "invalid"
    BY <1>2, <1>3, <1>4, <1>6, <2>1, <2>2 DEF AddTx, validatorVars
  <2>3. CASE Tx[t].type # "invalid"
    <3>1. /\ transaction_map' = transaction_map \cup {t}
          /\ valid' = valid \/ valid' = valid \cup {t}
      BY <2>1, <2>3 DEF AddTx
    <3>. QED
      BY <1>2, <1>3, <1>4, <1>6, <2>1, <3>1 DEF has
  <2>. QED
    BY <2>2, <2>3
<1>. QED
  BY <1>5, <1>6

\* JudgeTx: a transaction that is accepted is new, so it is in no graph.
LEMMA JudgeTxKeepsInv ==
    ASSUME SyncInv, JudgeTx
    PROVE  SyncInv'
<1>. DEFINE t == Head(job.txs)
<1>1. /\ job \in Job /\ job.txs \in Seq(Txid) /\ job.txs # <<>>
      /\ job.trusted \in BOOLEAN /\ job.valid_txs_list \in Seq(Txid)
      /\ job.valid_txs \in SUBSET Txid /\ g \in Graph /\ mg \in Graph
      /\ ValidatorTypeOK /\ ValidIsSound
  BY DEF SyncInv, SyncTypeOK, Job, JudgeTx
<1>2. /\ t \in Txid
      /\ Tail(job.txs) \in Seq(Txid)
      /\ Append(job.valid_txs_list, t) \in Seq(Txid)
  BY <1>1
<1>3. ValidatorTypeOK' /\ ValidIsSound'
  <2>1. CASE has(t)
    <3>1. UNCHANGED <<transaction_map, valid, trusted, early>>
      BY <2>1, JudgeTxFacts DEF validatorVars
    <3>. QED
      BY <1>1, <3>1 DEF ValidatorTypeOK, ValidIsSound
  <2>2. CASE ~has(t)
    <3>1. AddTx(t, job.trusted) /\ (job.trusted => t \in SlpValid)
      BY <2>2, JudgeTxFacts
    <3>. QED
      BY <1>1, <1>2, <3>1, AddTxTypes, AddTxSound
  <2>. QED
    BY <2>1, <2>2
<1>4. /\ job' \in Job
      /\ job'.txs = Tail(job.txs)
      /\ job'.trusted = job.trusted
      /\ job'.valid_txs = job.valid_txs \/
         (job'.valid_txs = job.valid_txs \cup {t} /\ ~has(t) /\ t \in valid')
  BY <1>1, <1>2 DEF Job, JudgeTx, AddTxResult
<1>5. UNCHANGED <<g, mg>>
  BY DEF JudgeTx
<1>6. SyncTypeOK'
  BY <1>1, <1>3, <1>4, <1>5 DEF SyncTypeOK
<1>7. GraphsAreValid'
  BY <1>4, <1>5, JudgeTxFacts DEF SyncInv, GraphsAreValid
<1>8. GraphsDisjoint'
  <2>1. ~has(t) => t \notin g.nodes \cup mg.nodes
    BY DEF SyncInv, GraphsAreValid, has
  <2>. QED
    BY <1>4, <1>5, <2>1 DEF SyncInv, GraphsDisjoint
<1>9. EdgesStayInside'
  BY <1>5 DEF SyncInv, EdgesStayInside
<1>10. TrustIsSound'
  <2>1. ToSet(Tail(job.txs)) \subseteq ToSet(job.txs)
    BY <1>1 DEF ToSet
  <2>. QED
    BY <1>4, <2>1 DEF SyncInv, TrustIsSound
<1>. QED
  BY <1>3, <1>6, <1>7, <1>8, <1>9, <1>10 DEF SyncInv

\* InsertToken: the inserted transactions leave the job as they enter a graph.
LEMMA InsertTokenKeepsInv ==
    ASSUME SyncInv, NEW k \in Txid, InsertToken(k)
    PROVE  SyncInv'
<1>. DEFINE txs == {t \in job.valid_txs : InTokenGraph(k, t)}
<1>1. /\ job \in Job /\ job.valid_txs \in SUBSET Txid /\ g \in Graph /\ mg \in Graph
      /\ EdgesOf(g) /\ EdgesOf(mg)
  BY DEF SyncInv, SyncTypeOK, Job, EdgesStayInside
<1>2. txs \in SUBSET Txid /\ txs \subseteq job.valid_txs /\ \A t \in txs : InTokenGraph(k, t)
  BY <1>1
<1>3. /\ job' = [job EXCEPT !.valid_txs = @ \ txs]
      /\ \/ g' = insert_token_data(g, k, txs) /\ mg' = mg
         \/ mg' = insert_token_data(mg, k, txs) /\ g' = g
      /\ UNCHANGED <<transaction_map, valid, trusted, early>>
  BY DEF InsertToken, validatorVars
<1>. HIDE DEF txs
<1>4. /\ job' \in Job /\ job'.valid_txs = job.valid_txs \ txs
      /\ job'.txs = job.txs /\ job'.trusted = job.trusted
  BY <1>1, <1>2, <1>3 DEF Job
<1>5. /\ g' \in Graph /\ mg' \in Graph /\ EdgesOf(g') /\ EdgesOf(mg')
      /\ \/ g'.nodes = g.nodes \cup txs /\ mg'.nodes = mg.nodes
         \/ mg'.nodes = mg.nodes \cup txs /\ g'.nodes = g.nodes
  BY <1>1, <1>2, <1>3, InsertTokenData
<1>6. SyncTypeOK' /\ ValidIsSound'
  BY <1>3, <1>4, <1>5 DEF SyncInv, SyncTypeOK, ValidatorTypeOK, ValidIsSound
<1>7. GraphsAreValid' /\ GraphsDisjoint'
  BY <1>2, <1>3, <1>4, <1>5 DEF SyncInv, GraphsAreValid, GraphsDisjoint
<1>8. EdgesStayInside'
  BY <1>5 DEF EdgesStayInside
<1>9. TrustIsSound'
  BY <1>4 DEF SyncInv, TrustIsSound
<1>. QED
  BY <1>6, <1>7, <1>8, <1>9 DEF SyncInv

-----------------------------------------------------------------------------
(* The theorems. *)

\* NoJob in the shape of the lemmas.
LEMMA NoJobFacts ==
    /\ NoJob \in Job /\ NoJob.valid_txs = {} /\ NoJob.txs = <<>> /\ NoJob.trusted = FALSE
<1>1. "none" \in Kind /\ <<>> \in Seq(Txid) /\ FALSE \in BOOLEAN
  BY DEF Kind
<1>. QED
  BY <1>1, NewJobFacts DEF NoJob

\* Empty memory satisfies the invariant.
LEMMA EmptyMemory ==
    ASSUME transaction_map = {}, valid = {}, trusted = {}, early = {},
           g = EmptyGraph, mg = EmptyGraph, job = NoJob
    PROVE  SyncInv
  BY EmptyGraphFacts, NoJobFacts
  DEF SyncInv, SyncTypeOK, ValidatorTypeOK, ValidIsSound, GraphsAreValid, GraphsDisjoint,
      EdgesStayInside, TrustIsSound

\* So it is after a restart.
LEMMA RestartKeepsInv ==
    ASSUME Restart
    PROVE  SyncInv'
  BY EmptyGraphFacts, NoJobFacts
  DEF Restart, SyncInv, SyncTypeOK, ValidatorTypeOK, ValidIsSound, GraphsAreValid,
      GraphsDisjoint, EdgesStayInside, TrustIsSound

\* The bounded listings are sequences.
LEMMA TxListIsSeq == TxList \subseteq Seq(Txid)
<1>1. SUFFICES ASSUME NEW m \in 0..MaxTxs, NEW s \in [1..m -> Txid]
               PROVE  s \in Seq(Txid)
  BY DEF TxList, BoundedSeq, SeqOf
<1>2. m \in Nat
  BY MaxTxsAssumption DEF MaxTxsAssumption
<1>. QED
  BY <1>2

\* Every step keeps the invariant.
LEMMA SyncStepKeepsInv ==
    ASSUME SyncInv, [SyncNext]_syncVars
    PROVE  SyncInv'
<1>1. SyncInv /\ [SyncNext]_syncVars
  OBVIOUS
<1>2. ASSUME NEW txs \in TxList, NEW trust \in BOOLEAN,
             trust => ToSet(txs) \subseteq SlpValid, BeginBlock(txs, trust)
      PROVE  SyncInv'
  <2>1. "block" \in Kind /\ txs \in Seq(Txid)
    BY TxListIsSeq DEF Kind
  <2>2. job' = NewJob("block", txs, trust) /\ UNCHANGED <<validatorVars, g>> /\ mg' = mg
    BY <1>2 DEF BeginBlock
  <2>. QED
    BY <1>1, <1>2, <2>1, <2>2, BeginKeepsInv
<1>3. ASSUME NEW txs \in TxList, BeginMempool(txs)
      PROVE  SyncInv'
  <2>1. "mempool" \in Kind /\ txs \in Seq(Txid) /\ FALSE \in BOOLEAN
    BY TxListIsSeq DEF Kind
  <2>2. /\ job' = NewJob("mempool", txs, FALSE)
        /\ UNCHANGED <<validatorVars, g>> /\ mg' = EmptyGraph
    BY <1>3 DEF BeginMempool
  <2>. QED
    BY <1>1, <2>1, <2>2, BeginKeepsInv
<1>4. ASSUME NEW t \in Txid, BeginTx(t)
      PROVE  SyncInv'
  <2>1. "tx" \in Kind /\ <<t>> \in Seq(Txid) /\ FALSE \in BOOLEAN
    BY DEF Kind
  <2>2. job' = NewJob("tx", <<t>>, FALSE) /\ UNCHANGED <<validatorVars, g>> /\ mg' = mg
    BY <1>4 DEF BeginTx
  <2>. QED
    BY <1>1, <2>1, <2>2, BeginKeepsInv
<1>5. CASE JudgeTx
  BY <1>1, <1>5, JudgeTxKeepsInv
<1>6. ASSUME NEW k \in Txid, InsertToken(k)
      PROVE  SyncInv'
  BY <1>1, <1>6, InsertTokenKeepsInv
<1>7. CASE EndJob
  <2>1. "none" \in Kind /\ <<>> \in Seq(Txid) /\ FALSE \in BOOLEAN
    BY DEF Kind
  <2>2. job' = NewJob("none", <<>>, FALSE) /\ UNCHANGED <<validatorVars, g>> /\ mg' = mg
    BY <1>7 DEF EndJob, NoJob
  <2>. QED
    BY <1>1, <2>1, <2>2, BeginKeepsInv
<1>8. CASE Restart
  BY <1>8, RestartKeepsInv
<1>9. CASE UNCHANGED syncVars
  BY <1>1, <1>9
  DEF syncVars, SyncInv, SyncTypeOK, ValidatorTypeOK, ValidIsSound, GraphsAreValid,
      GraphsDisjoint, EdgesStayInside, TrustIsSound
<1>. QED
  BY <1>1, <1>2, <1>3, <1>4, <1>5, <1>6, <1>7, <1>8, <1>9 DEF SyncNext, JobStep

\* SyncInv, and with it SyncTypeOK, GraphsAreValid, GraphsDisjoint, EdgesStayInside,
\* ValidIsSound and TrustIsSound, holds in every state of the three handlers.
THEOREM SyncInvariant == SyncSpec => []SyncInv
<1>1. SyncInit => SyncInv
  BY EmptyMemory DEF SyncInit, ValidatorInit
<1>2. SyncInv /\ [SyncNext]_syncVars => SyncInv'
  BY SyncStepKeepsInv
<1>. QED
  BY <1>1, <1>2, PTL DEF SyncSpec

\* SyncTypeOK: the graphs hold txids and pairs of them, the handler call has the
\* parts of a call.
THEOREM SyncTypeCorrect == SyncSpec => []SyncTypeOK
<1>1. SyncInv => SyncTypeOK
  BY DEF SyncInv
<1>. QED
  BY <1>1, SyncInvariant, PTL

\* GraphsAreValid: whatever a reader meets in a graph, in the middle of any
\* handler, was accepted by the validator and is still stored.
THEOREM GraphsHoldValidTxs == SyncSpec => []GraphsAreValid
<1>1. SyncInv => GraphsAreValid
  BY DEF SyncInv
<1>. QED
  BY <1>1, SyncInvariant, PTL

\* GraphsDisjoint: no transaction is in both graphs, nor in one of them before
\* its handler inserts it.
THEOREM GraphsStayDisjoint == SyncSpec => []GraphsDisjoint
<1>1. SyncInv => GraphsDisjoint
  BY DEF SyncInv
<1>. QED
  BY <1>1, SyncInvariant, PTL

\* EdgesStayInside: a search never leaves the graph it started in.
THEOREM SearchesStayInside == SyncSpec => []EdgesStayInside
<1>1. SyncInv => EdgesStayInside
  BY DEF SyncInv
<1>. QED
  BY <1>1, SyncInvariant, PTL

\* ValidIsSound: blocks, mempool listings, single transactions and trusted cache
\* files, in any order, make nothing valid that the SLP rules reject.
THEOREM SyncIsSound == SyncSpec => []ValidIsSound
<1>1. SyncInv => ValidIsSound
  BY DEF SyncInv
<1>. QED
  BY <1>1, SyncInvariant, PTL

\* Grounded: when nothing came from the cache, whatever the handlers make valid
\* stands on the GENESIS of its token and an NFT1 child on its group.
THEOREM SyncIsGrounded == SyncSpec => []Grounded
<1>1. SyncInit => Grounded
  BY DEF SyncInit, ValidatorInit, Grounded
<1>2. SyncInv /\ Grounded /\ [SyncNext]_syncVars => Grounded'
  <2>1. SUFFICES ASSUME SyncInv, Grounded, [SyncNext]_syncVars
                 PROVE  Grounded'
    OBVIOUS
  <2>2. CASE UNCHANGED validatorVars
    BY <2>1, <2>2 DEF validatorVars, Grounded
  <2>3. CASE JudgeTx
    <3>. DEFINE t == Head(job.txs)
    <3>1. /\ t \in Txid /\ (has(t) => UNCHANGED validatorVars)
          /\ (~has(t) => AddTx(t, job.trusted))
      BY <2>1, <2>3, JudgeTxFacts
    <3>2. ValidatorTypeOK /\ job.trusted \in BOOLEAN
      BY <2>1 DEF SyncInv, SyncTypeOK, Job
    <3>. HIDE DEF t
    <3>. QED
      BY <2>1, <2>2, <3>1, <3>2, AddTxGrounded
  <2>4. CASE Restart
    BY <2>4 DEF Restart, Grounded
  <2>5. CASE UNCHANGED syncVars
    BY <2>2, <2>5 DEF syncVars, validatorVars
  <2>. QED
    BY <2>1, <2>2, <2>3, <2>4, <2>5
    DEF SyncNext, BeginBlock, BeginMempool, BeginTx, JobStep, InsertToken, EndJob
<1>. QED
  BY <1>1, <1>2, SyncInvariant, PTL DEF SyncSpec

\* VerdictsAreFinal: no handler revises a verdict.
THEOREM SyncVerdictsAreFinal == SyncSpec => VerdictsAreFinal
<1>. DEFINE Kept == \/ Restart
                    \/ \A t \in transaction_map :
                          t \in transaction_map' /\ (t \in valid' <=> t \in valid)
<1>1. SyncInv /\ [SyncNext]_syncVars => [Kept]_syncVars
  <2>1. SUFFICES ASSUME SyncInv, SyncNext
                 PROVE  Kept
    OBVIOUS
  <2>2. CASE UNCHANGED validatorVars
    BY <2>2 DEF validatorVars
  <2>3. CASE JudgeTx
    BY <2>1, <2>3, JudgeTxFacts
  <2>. QED
    BY <2>1, <2>2, <2>3
    DEF SyncNext, BeginBlock, BeginMempool, BeginTx, JobStep, InsertToken, EndJob
<1>. QED
  BY <1>1, SyncInvariant, PTL DEF SyncSpec, VerdictsAreFinal

\* ConfirmedGraphGrows: no handler takes a node or an edge from g.
THEOREM SyncGraphGrows == SyncSpec => ConfirmedGraphGrows
<1>. DEFINE Grows == Restart \/ (g.nodes \subseteq g'.nodes /\ g.edges \subseteq g'.edges)
<1>1. SyncInv /\ [SyncNext]_syncVars => [Grows]_syncVars
  <2>1. SUFFICES ASSUME SyncInv, SyncNext
                 PROVE  Grows
    OBVIOUS
  <2>2. CASE g' = g
    BY <2>2
  <2>3. ASSUME NEW k \in Txid, InsertToken(k)
        PROVE  Grows
    <3>. DEFINE txs == {t \in job.valid_txs : InTokenGraph(k, t)}
    <3>1. /\ txs \in SUBSET Txid /\ g \in Graph /\ EdgesOf(g)
          /\ \A t \in txs : InTokenGraph(k, t)
      BY <2>1 DEF SyncInv, SyncTypeOK, Job, EdgesStayInside
    <3>2. g' = insert_token_data(g, k, txs) \/ g' = g
      BY <2>3 DEF InsertToken
    <3>. HIDE DEF txs
    <3>. QED
      BY <3>1, <3>2, InsertTokenData
  <2>. QED
    BY <2>1, <2>2, <2>3
    DEF SyncNext, BeginBlock, BeginMempool, BeginTx, JobStep, JudgeTx, EndJob
<1>. QED
  BY <1>1, SyncInvariant, PTL DEF SyncSpec, ConfirmedGraphGrows

-----------------------------------------------------------------------------
(* GsServer. *)

\* main() before it starts the listener, and from then on.
EarlyPc == {"exited", "cache", "cacheJob", "info", "rpc", "rpcJob", "write", "spawn"}
LatePc  == {"spawn", "mempool", "append", "copy", "mempoolJob", "flag", "serving"}

\* The listener while it deals with a block.
BlockPc == {"blockJob", "mempool", "mempoolJob"}

\* All the transactions a handler call is about.
JobTxs(j) == ToSet(j.txs) \cup ToSet(j.valid_txs_list) \cup j.valid_txs

\* The transactions in the confirmed graph or on their way there.
Reached == g.nodes \cup (IF job.kind = "block" THEN JobTxs(job) ELSE {})

\* A block holds no transaction of another block, and nothing before its parents.
ChainInv ==
    /\ chain \in Seq(SUBSET Txid)
    /\ Len(chain) \in (StartHeight - 1)..MaxBlocks
    /\ \A h \in DOMAIN chain : h < StartHeight => chain[h] = {}
    /\ \A i, j \in DOMAIN chain : i # j => chain[i] \cap chain[j] = {}
    /\ \A h \in DOMAIN chain : \A t \in chain[h] : \A p \in Parents(t) :
           \E i \in DOMAIN chain : i <= h /\ p \in chain[i]

SetsInv ==
    /\ mempool \subseteq Txid /\ fetched \subseteq Txid
    /\ startup \subseteq Txid /\ missed \subseteq Txid
    /\ reread \subseteq Height
    /\ failures \in Nat /\ lost \in Nat /\ crashes \in Nat

CacheInv ==
    /\ cache \in [Height -> File]
    /\ CacheIsSound
    /\ \A h \in Height : cache[h].state # "absent" => h <= Len(chain)
    /\ \A h \in Height : Len(cache[h].txs) <= Cardinality(Txid)

\* Where main() is, its height and its hash.
MainInv ==
    /\ mpc \in MainPc /\ current_block_height \in Int /\ current_block_hash \in Hash
    /\ best \in 0..Len(chain)
    /\ startup_processing_mempool \in BOOLEAN
    /\ startup_processing_mempool <=> mpc # "serving"
    /\ mpc \in EarlyPc => lpc = "off"
    /\ mpc = "exited" => current_block_height = StartHeight /\ current_block_hash.of = 0
    /\ mpc = "cache" =>
           /\ current_block_height \in 0..(Len(chain) + 1)
           /\ current_block_hash.of # 0 => current_block_height <= current_block_hash.of + 1
    /\ mpc = "cacheJob" => /\ current_block_height \in 0..Len(chain)
                           /\ current_block_hash.of = current_block_height
    /\ mpc = "info" =>
           /\ current_block_height <= Len(chain)
           /\ current_block_hash.of # 0 => current_block_height <= current_block_hash.of
    /\ mpc = "rpc" =>
           /\ current_block_height <= best + 1
           /\ current_block_hash.of # 0 => current_block_height <= current_block_hash.of + 1
    /\ mpc \in {"rpcJob", "write"} => /\ current_block_height \in 0..best
                                      /\ current_block_hash.of = current_block_height
    /\ mpc \in LatePc =>
           /\ current_block_height <= Len(chain)
           /\ current_block_hash.of # 0 =>
                  current_block_height <= current_block_hash.of + CountedAhead
           /\ current_block_hash.order = "written" =>
                  current_block_height <= best + CountedAhead

\* The blocks this process has read are those from StartHeight on, up to the
\* height it has reached.
ProcessedInv ==
    /\ processed \subseteq 0..Len(chain)
    /\ \A h \in processed : StartHeight..h \subseteq processed
    /\ mpc \in {"exited", "cache", "info", "rpc"} =>
           StartHeight..(current_block_height - 1) \subseteq processed
    /\ mpc \in {"cacheJob", "rpcJob", "write"} => current_block_height \in processed
    /\ mpc \in {"exited", "cache"} => \A h \in processed : h < current_block_height
    /\ mpc = "cacheJob" => \A h \in processed : h <= current_block_height

\* Where the listener is and the message it works on.
ListenInv ==
    /\ lpc \in ListenPc /\ lmsg \in Message
    /\ lpc \in {"off", "connect"} => zmq = <<>>
    /\ lpc \in {"txJob", "publish"} \cup BlockPc => mpc = "serving"
    /\ lpc \in {"txJob", "publish"} => \E t \in Txid : lmsg.txs = {t}
    /\ lpc \in BlockPc => lmsg.height \in DOMAIN chain /\ current_block_height <= lmsg.height

\* A queue of notifications q is in order, for a listener at height c of the
\* chain ch: blocks come with their transactions, by increasing height, and are
\* still ahead of c.
InOrder(q, c, ch) ==
    /\ q \in Seq(Message)
    /\ \A i \in DOMAIN q : q[i].topic = "rawtx" => \E t \in Txid : q[i].txs = {t}
    /\ \A i \in DOMAIN q : q[i].topic = "rawblock" =>
           /\ q[i].height \in DOMAIN ch /\ c < q[i].height
           /\ q[i].txs = ch[q[i].height]
    /\ \A i, j \in DOMAIN q :
           (i < j /\ q[i].topic = "rawblock" /\ q[j].topic = "rawblock") =>
               q[i].height < q[j].height
ZmqInv == InOrder(zmq, current_block_height, chain)

\* The handler call that runs, and on whose behalf.
JobInv ==
    /\ ToSet(job.valid_txs_list) \subseteq valid
    /\ Len(job.txs) + Len(job.valid_txs_list) <= Cardinality(Txid)
    /\ mpc \in {"cacheJob", "rpcJob", "write"} => JobTxs(job) \subseteq Block(current_block_height)
    /\ lpc = "txJob" => JobTxs(job) \subseteq lmsg.txs
    /\ lpc = "publish" => lmsg.txs \subseteq valid

\* How far the confirmed graph has come: no further than the blocks this process
\* has read, and short of every block it is still to be told of.
ReachInv ==
    /\ \A t \in Reached : \E h \in DOMAIN chain : t \in chain[h]
    /\ mpc \in EarlyPc => \A t \in Reached : \E h \in processed : t \in Block(h)
    /\ \A i \in DOMAIN zmq : zmq[i].topic = "rawblock" =>
           \A t \in Reached : \E h \in DOMAIN chain : h < zmq[i].height /\ t \in chain[h]

\* A node's parent that is not linked to it comes, or is to come, from a block
\* that was read again.
Linked(t, p) ==
    (p \in Parents(t) /\ Tx[p].tokenid = Tx[t].tokenid) =>
        <<t, p>> \in g.edges \/ p \in RereadTxs
Awaited(t, p) ==
    (p \in Parents(t) /\ Tx[p].tokenid = Tx[t].tokenid) => p \in RereadTxs
EdgeInv ==
    /\ \A t, p \in g.nodes : Linked(t, p)
    /\ job.kind = "block" =>
           \A t \in g.nodes : \A p \in ToSet(job.txs) \cup job.valid_txs : Awaited(t, p)

\* The inductive invariant.
ServerInv ==
    /\ SyncInv
    /\ ChainInv
    /\ SetsInv
    /\ CacheInv
    /\ MainInv
    /\ ProcessedInv
    /\ ListenInv
    /\ ZmqInv
    /\ JobInv
    /\ ReachInv
    /\ EdgeInv

-----------------------------------------------------------------------------
(* The operators. *)

\* topological_sort returns a list of transactions of its argument, which is no
\* longer than there are transactions.
LEMMA SortFacts ==
    ASSUME NEW S \in SUBSET Txid, NEW s \in topological_sort(S)
    PROVE  /\ s \in Seq(Txid)
           /\ ToSet(s) \subseteq S
           /\ Len(s) <= Cardinality(Txid)
           /\ \A i \in DOMAIN s : s[i] \in S
<1>. DEFINE n == Cardinality(S)
<1>1. IsFiniteSet(S) /\ n \in Nat /\ n <= Cardinality(Txid)
  BY ListAssumption, FS_Subset, FS_CardinalityType DEF ListAssumption
<1>2. s \in [1..n -> S]
  BY DEF topological_sort, TopologicalOrders, SetToSeqs
<1>. HIDE DEF n
<1>3. s \in Seq(S) /\ Len(s) = n /\ DOMAIN s = 1..n
  BY <1>1, <1>2
<1>4. \A i \in DOMAIN s : s[i] \in S
  BY <1>2
<1>5. s \in Seq(Txid)
  BY <1>1, <1>2
<1>. QED
  BY <1>1, <1>3, <1>4, <1>5 DEF ToSet

\* A list of transactions that is not too long is one of SlpSync's listings.
LEMMA ShortListFits ==
    ASSUME NEW s \in Seq(Txid), Len(s) <= Cardinality(Txid)
    PROVE  s \in TxList
<1>1. /\ Len(s) \in Nat /\ MaxTxs \in Nat
      /\ Cardinality(Txid) \in Nat /\ Cardinality(Txid) <= MaxTxs
      /\ s \in [1..Len(s) -> Txid]
  BY ListAssumption, MaxTxsAssumption, FS_CardinalityType
  DEF ListAssumption, MaxTxsAssumption
<1>2. Len(s) \in 0..MaxTxs
  BY <1>1
<1>. QED
  BY <1>1, <1>2 DEF TxList, BoundedSeq, SeqOf

\* What the rest of a sequence, and a sequence with one more element, hold.
LEMMA ToSetFacts ==
    ASSUME NEW S, NEW s \in Seq(S)
    PROVE  /\ ToSet(s) \subseteq S
           /\ \A x \in S : ToSet(Append(s, x)) = ToSet(s) \cup {x}
           /\ s # <<>> => /\ Head(s) \in ToSet(s)
                          /\ ToSet(Tail(s)) \subseteq ToSet(s)
           /\ s = <<>> <=> ToSet(s) = {}
<1>1. ToSet(s) \subseteq S
  BY DEF ToSet
<1>2. ASSUME NEW x \in S
      PROVE  ToSet(Append(s, x)) = ToSet(s) \cup {x}
  <2>. DEFINE a == Append(s, x)
  <2>1. /\ DOMAIN a = 1..(Len(s) + 1) /\ DOMAIN s = 1..Len(s) /\ Len(s) \in Nat
        /\ a[Len(s) + 1] = x
        /\ \A i \in 1..Len(s) : a[i] = s[i]
    OBVIOUS
  <2>. HIDE DEF a
  <2>2. ToSet(a) \subseteq ToSet(s) \cup {x}
    BY <2>1 DEF ToSet
  <2>3. x \in ToSet(a)
    BY <2>1 DEF ToSet
  <2>4. ToSet(s) \subseteq ToSet(a)
    BY <2>1 DEF ToSet
  <2>. QED
    BY <2>2, <2>3, <2>4 DEF a
<1>3. s # <<>> => /\ Head(s) \in ToSet(s)
                  /\ ToSet(Tail(s)) \subseteq ToSet(s)
  BY DEF ToSet
<1>4. s = <<>> <=> ToSet(s) = {}
  <2>1. ASSUME s # <<>> PROVE ToSet(s) # {}
    BY <1>3, <2>1
  <2>2. ToSet(<<>>) = {}
    BY DEF ToSet
  <2>. QED
    BY <2>1, <2>2
<1>. QED
  BY <1>1, <1>2, <1>3, <1>4

-----------------------------------------------------------------------------
(* The handler call. *)

\* A step of a handler adds no transaction to its call.
LEMMA JobStepFacts ==
    ASSUME SyncInv, JobStep
    PROVE  /\ SyncInv'
           /\ job'.kind = job.kind
           /\ JobTxs(job') \subseteq JobTxs(job)
           /\ ToSet(job'.txs) \cup job'.valid_txs \subseteq ToSet(job.txs) \cup job.valid_txs
           /\ Len(job'.txs) + Len(job'.valid_txs_list) <= Len(job.txs) + Len(job.valid_txs_list)
           /\ ToSet(job'.valid_txs_list) \subseteq ToSet(job.valid_txs_list) \cup valid'
           /\ valid \subseteq valid'
           /\ g'.nodes \subseteq g.nodes \cup (IF job.kind = "block" THEN job.valid_txs ELSE {})
<1>1. /\ job \in Job /\ job.txs \in Seq(Txid) /\ job.valid_txs_list \in Seq(Txid)
      /\ job.valid_txs \in SUBSET Txid
  BY DEF SyncInv, SyncTypeOK, Job
<1>2. CASE JudgeTx
  <2>. DEFINE t == Head(job.txs)
  <2>1. job.txs # <<>> /\ t \in Txid /\ valid \subseteq valid'
    BY <1>2, JudgeTxFacts DEF JudgeTx
  <2>2. /\ t \in ToSet(job.txs) /\ ToSet(Tail(job.txs)) \subseteq ToSet(job.txs)
        /\ ToSet(Append(job.valid_txs_list, t)) = ToSet(job.valid_txs_list) \cup {t}
    BY <1>1, <2>1, ToSetFacts
  <2>3. /\ Len(Tail(job.txs)) = Len(job.txs) - 1
        /\ Len(Append(job.valid_txs_list, t)) = Len(job.valid_txs_list) + 1
        /\ Len(job.txs) \in Nat /\ Len(job.valid_txs_list) \in Nat
    BY <1>1, <2>1
  <2>4. /\ job'.kind = job.kind
        /\ job'.txs = Tail(job.txs)
        /\ \/ /\ job'.valid_txs_list = job.valid_txs_list
              /\ job'.valid_txs = job.valid_txs
           \/ /\ job'.valid_txs_list = Append(job.valid_txs_list, t)
              /\ job'.valid_txs = job.valid_txs \cup {t}
              /\ t \in valid'
    BY <1>1, <1>2 DEF JudgeTx, AddTxResult, Job
  <2>5. g' = g
    BY <1>2 DEF JudgeTx
  <2>6. SyncInv'
    BY <1>2, JudgeTxKeepsInv
  <2>. HIDE DEF t
  <2>7. /\ ToSet(job'.txs) \subseteq ToSet(job.txs)
        /\ ToSet(job'.valid_txs_list) \subseteq ToSet(job.valid_txs_list) \cup {t}
        /\ job'.valid_txs \subseteq job.valid_txs \cup {t}
    BY <2>2, <2>4
  <2>8. ToSet(job'.valid_txs_list) \subseteq ToSet(job.valid_txs_list) \cup valid'
    BY <2>2, <2>4
  <2>9. Len(job'.txs) + Len(job'.valid_txs_list) <= Len(job.txs) + Len(job.valid_txs_list)
    <3>. DEFINE rest == Tail(job.txs)
                more == Append(job.valid_txs_list, t)
    <3>1. /\ Len(rest) = Len(job.txs) - 1 /\ Len(more) = Len(job.valid_txs_list) + 1
          /\ Len(job.txs) \in Nat /\ Len(job.valid_txs_list) \in Nat
          /\ job'.txs = rest
          /\ job'.valid_txs_list = job.valid_txs_list \/ job'.valid_txs_list = more
      BY <2>3, <2>4
    <3>. HIDE DEF rest, more
    <3>2. Len(job'.txs) = Len(job.txs) - 1
      BY <3>1, Zenon
    <3>3. \/ Len(job'.valid_txs_list) = Len(job.valid_txs_list)
          \/ Len(job'.valid_txs_list) = Len(job.valid_txs_list) + 1
      BY <3>1, Zenon
    <3>. DEFINE a == Len(job.txs)
                b == Len(job.valid_txs_list)
                c == Len(job'.txs)
                d == Len(job'.valid_txs_list)
    <3>4. a \in Nat /\ b \in Nat /\ c = a - 1 /\ (d = b \/ d = b + 1)
      BY <3>1, <3>2, <3>3
    <3>. HIDE DEF a, b, c, d
    <3>5. c + d <= a + b
      BY <3>4
    <3>. QED
      BY <3>5 DEF a, b, c, d
  <2>10. JobTxs(job') \subseteq JobTxs(job)
    BY <2>2, <2>7 DEF JobTxs
  <2>. QED
    BY <2>1, <2>2, <2>4, <2>5, <2>6, <2>7, <2>8, <2>9, <2>10
<1>3. ASSUME NEW k \in Txid, InsertToken(k)
      PROVE  /\ job'.kind = job.kind
             /\ job'.txs = job.txs
             /\ job'.valid_txs_list = job.valid_txs_list
             /\ job'.valid_txs \subseteq job.valid_txs
             /\ valid' = valid
             /\ g'.nodes \subseteq g.nodes \cup (IF job.kind = "block" THEN job.valid_txs ELSE {})
             /\ SyncInv'
  <2>. DEFINE txs == {t \in job.valid_txs : InTokenGraph(k, t)}
  <2>1. /\ job' = [job EXCEPT !.valid_txs = @ \ txs]
        /\ g' = g \/ (job.kind = "block" /\ g' = insert_token_data(g, k, txs))
        /\ valid' = valid
    BY <1>3 DEF InsertToken, validatorVars
  <2>2. g \in Graph /\ EdgesOf(g)
    BY DEF SyncInv, SyncTypeOK, EdgesStayInside
  <2>3. txs \in SUBSET Txid /\ txs \subseteq job.valid_txs /\ \A t \in txs : InTokenGraph(k, t)
    BY <1>1
  <2>4. SyncInv'
    BY <1>3, InsertTokenKeepsInv
  <2>. HIDE DEF txs
  <2>5. g'.nodes \subseteq g.nodes \cup (IF job.kind = "block" THEN job.valid_txs ELSE {})
    BY <2>1, <2>2, <2>3, InsertTokenData
  <2>. QED
    BY <1>1, <2>1, <2>4, <2>5 DEF Job
<1>4. CASE \E k \in Txid : InsertToken(k)
  <2>1. /\ Len(job.txs) \in Nat /\ Len(job.valid_txs_list) \in Nat
    BY <1>1
  <2>2. PICK k \in Txid : InsertToken(k)
    BY <1>4
  <2>3. /\ job'.kind = job.kind
        /\ job'.txs = job.txs
        /\ job'.valid_txs_list = job.valid_txs_list
        /\ job'.valid_txs \subseteq job.valid_txs
        /\ valid' = valid
        /\ g'.nodes \subseteq g.nodes \cup (IF job.kind = "block" THEN job.valid_txs ELSE {})
        /\ SyncInv'
    BY <1>3, <2>2
  <2>4. JobTxs(job') \subseteq JobTxs(job)
    BY <2>3 DEF JobTxs
  <2>. QED
    BY <2>1, <2>3, <2>4
<1>. QED
  BY <1>2, <1>4 DEF JobStep

\* A fresh call.
LEMMA NewJobTxs ==
    ASSUME NEW kind \in Kind, NEW txs \in Seq(Txid), NEW trust \in BOOLEAN,
           job' = NewJob(kind, txs, trust)
    PROVE  /\ job' \in Job
           /\ job'.kind = kind /\ job'.txs = txs /\ job'.valid_txs_list = <<>>
           /\ job'.valid_txs = {}
           /\ JobTxs(job') = ToSet(txs)
           /\ ToSet(job'.valid_txs_list) = {}
           /\ Len(job'.txs) + Len(job'.valid_txs_list) = Len(txs)
<1>1. /\ job'.kind = kind /\ job'.txs = txs /\ job'.valid_txs_list = <<>>
      /\ job'.valid_txs = {} /\ job' \in Job
  BY DEF NewJob, Job
<1>2. ToSet(<<>>) = {} /\ Len(<<>>) = 0 /\ Len(txs) \in Nat
  BY DEF ToSet
<1>. QED
  BY <1>1, <1>2 DEF JobTxs

-----------------------------------------------------------------------------
(* The server uses the handlers as SlpSync does. *)

\* A cache file that main() reads is one that is there.
LEMMA CacheFileFacts ==
    ASSUME ServerInv, mpc = "cache"
    PROVE  /\ current_block_height \in Height
           /\ cache[current_block_height] \in File
           /\ cache[current_block_height].txs \in Seq(Txid)
           /\ Len(cache[current_block_height].txs) <= Cardinality(Txid)
           /\ ToSet(cache[current_block_height].txs) \subseteq SlpValid
           /\ ToSet(cache[current_block_height].txs) \subseteq Block(current_block_height)
           /\ cache[current_block_height].state # "absent" => current_block_height <= Len(chain)
<1>1. current_block_height \in Height
  BY ServerAssumption DEF ServerInv, MainInv, ChainInv, Height, ServerAssumption
<1>2. cache[current_block_height] \in File
  BY <1>1 DEF ServerInv, CacheInv
<1>. QED
  BY <1>1, <1>2 DEF ServerInv, CacheInv, CacheIsSound, File

\* The block at a height, as main() gets it.
LEMMA BlockFacts ==
    ASSUME ChainInv, NEW h
    PROVE  /\ Block(h) \in SUBSET Txid
           /\ h \in DOMAIN chain => Block(h) = chain[h]
           /\ h \notin DOMAIN chain => Block(h) = {}
           /\ DOMAIN chain = 1..Len(chain) /\ Len(chain) \in Nat
  BY DEF ChainInv, Block

\* The message at the head of the socket.
LEMMA HeadFacts ==
    ASSUME ServerInv, zmq # <<>>
    PROVE  /\ 1 \in DOMAIN zmq /\ Head(zmq) = zmq[1]
           /\ Head(zmq) \in Message
           /\ Head(zmq).txs \in SUBSET Txid
           /\ Head(zmq).height \in Height
           /\ Tail(zmq) \in Seq(Message)
           /\ DOMAIN Tail(zmq) = 1..(Len(zmq) - 1) /\ Len(zmq) \in Nat /\ Len(zmq) >= 1
           /\ DOMAIN zmq = 1..Len(zmq)
           /\ \A i \in DOMAIN Tail(zmq) : Tail(zmq)[i] = zmq[i + 1] /\ i + 1 \in DOMAIN zmq
<1>1. zmq \in Seq(Message)
  BY DEF ServerInv, ZmqInv, InOrder
<1>2. Head(zmq) \in Message
  BY <1>1
<1>. QED
  BY <1>1, <1>2 DEF Message

\* Every step of the server is a step of SlpSync, or none that SlpSync sees.
LEMMA ServerStepIsSyncStep ==
    ASSUME ServerInv, [ServerNext]_serverVars
    PROVE  [SyncNext]_syncVars
<1>1. ASSUME NEW S \in SUBSET Txid, NEW s \in topological_sort(S)
      PROVE  s \in TxList
  BY <1>1, SortFacts, ShortListFits
<1>2. CASE ReadCacheFile
  <2>1. CASE UNCHANGED syncVars
    BY <2>1
  <2>2. CASE BeginBlock(cache[current_block_height].txs, TRUE)
    <3>1. /\ cache[current_block_height].txs \in TxList
          /\ ToSet(cache[current_block_height].txs) \subseteq SlpValid
      BY <1>2, CacheFileFacts, ShortListFits DEF ReadCacheFile
    <3>. QED
      BY <2>2, <3>1 DEF SyncNext
  <2>. QED
    BY <1>2, <2>1, <2>2 DEF ReadCacheFile
<1>3. CASE GetRawBlock
  <2>1. PICK s \in topological_sort(Block(current_block_height)) : BeginBlock(s, FALSE)
    BY <1>3 DEF GetRawBlock
  <2>2. s \in TxList
    BY <1>1, <2>1, BlockFacts DEF ServerInv
  <2>. QED
    BY <2>1, <2>2 DEF SyncNext
<1>4. CASE ProcessStartupMempool
  <2>1. PICK s \in topological_sort(startup) : BeginMempool(s)
    BY <1>4 DEF ProcessStartupMempool
  <2>2. s \in TxList
    BY <1>1, <2>1 DEF ServerInv, SetsInv
  <2>. QED
    BY <2>1, <2>2 DEF SyncNext
<1>5. CASE RefreshMempool
  <2>1. PICK s \in topological_sort(mempool) : BeginMempool(s)
    BY <1>5 DEF RefreshMempool
  <2>2. s \in TxList
    BY <1>1, <2>1 DEF ServerInv, SetsInv
  <2>. QED
    BY <2>1, <2>2 DEF SyncNext
<1>6. CASE ReceiveTx
  <2>1. PICK t \in Head(zmq).txs : BeginTx(t)
    BY <1>6 DEF ReceiveTx
  <2>2. t \in Txid
    BY <1>6, <2>1, HeadFacts DEF ReceiveTx, Receive
  <2>. QED
    BY <2>1, <2>2 DEF SyncNext
<1>7. CASE ReceiveBlock
  <2>1. PICK s \in topological_sort(Head(zmq).txs) : BeginBlock(s, FALSE)
    BY <1>7 DEF ReceiveBlock
  <2>2. s \in TxList
    BY <1>1, <1>7, <2>1, HeadFacts DEF ReceiveBlock, Receive
  <2>. QED
    BY <2>1, <2>2 DEF SyncNext
<1>8. CASE RunJob
  BY <1>8 DEF RunJob, SyncNext
<1>9. CASE CacheBlockDone \/ WriteCacheFile \/ StartupMempoolDone \/ TxDone \/ BlockDone
             \/ RefreshMempoolDone
  BY <1>9 DEF CacheBlockDone, WriteCacheFile, StartupMempoolDone, TxDone, BlockDone,
              RefreshMempoolDone, SyncNext
<1>10. CASE TornCacheFile \/ PublishThrows \/ GetBlockchainInfoFails \/ RefreshMempoolFails
              \/ Crash
  BY <1>10 DEF TornCacheFile, PublishThrows, GetBlockchainInfoFails, RefreshMempoolFails,
               Crash, Die, SyncNext
<1>11. CASE \/ GetBlockchainInfo \/ OpenCacheFile \/ RpcLoopEnds \/ SpawnListener \/ GetMempool
            \/ AppendMempool \/ Serve
  BY <1>11 DEF GetBlockchainInfo, OpenCacheFile, RpcLoopEnds, SpawnListener, GetMempool,
               AppendMempool, Serve
<1>12. CASE \/ Connect \/ ReceiveStartupTx \/ PushStartupTx \/ ReceiveStartupBlock \/ PublishTx
            \/ GetRawBlockFails \/ GetMempoolFails \/ LoseMessage \/ Start
  BY <1>12 DEF Connect, ReceiveStartupTx, PushStartupTx, ReceiveStartupBlock, PublishTx,
               GetRawBlockFails, GetMempoolFails, LoseMessage, Start
<1>13. ASSUME NEW t \in Txid, Broadcast(t)
       PROVE  [SyncNext]_syncVars
  BY <1>13 DEF Broadcast
<1>14. ASSUME NEW B \in SUBSET Txid, NEW announce \in BOOLEAN, Mine(B, announce)
       PROVE  [SyncNext]_syncVars
  BY <1>14 DEF Mine
<1>15. CASE UNCHANGED serverVars
  BY <1>15 DEF serverVars
<1>. QED
  BY <1>2, <1>3, <1>4, <1>5, <1>6, <1>7, <1>8, <1>9, <1>10, <1>11, <1>12, <1>13, <1>14,
     <1>15 DEF ServerNext, MainStep, ListenStep, Failure

-----------------------------------------------------------------------------
(* The chain grows; the cache follows it. *)

\* Mine appends a block of new transactions that comes after their parents; no
\* other step touches the chain.
LEMMA ChainMoves ==
    ASSUME ServerInv, [ServerNext]_serverVars
    PROVE  /\ ChainInv'
           /\ Len(chain) <= Len(chain')
           /\ \A h \in DOMAIN chain : h \in DOMAIN chain' /\ chain'[h] = chain[h]
           /\ \A h : Block(h) \subseteq Block(h)'
           /\ chain' = chain \/ \E B \in SUBSET Txid, announce \in BOOLEAN : Mine(B, announce)
<1>1. /\ chain \in Seq(SUBSET Txid) /\ Len(chain) \in Nat /\ DOMAIN chain = 1..Len(chain)
      /\ StartHeight \in Nat /\ MaxBlocks \in Nat
      /\ Len(chain) >= StartHeight - 1 /\ Len(chain) <= MaxBlocks
  BY ServerAssumption DEF ServerInv, ChainInv, ServerAssumption
<1>2. ASSUME NEW B \in SUBSET Txid, NEW announce \in BOOLEAN, Mine(B, announce)
      PROVE  /\ ChainInv'
             /\ Len(chain) <= Len(chain')
             /\ \A h \in DOMAIN chain : h \in DOMAIN chain' /\ chain'[h] = chain[h]
  <2>1. /\ chain' = Append(chain, B) /\ Len(chain) < MaxBlocks /\ B \cap Confirmed = {}
        /\ \A t \in B : Parents(t) \subseteq B \cup Confirmed
    BY <1>2 DEF Mine
  <2>2. /\ chain' \in Seq(SUBSET Txid) /\ Len(chain') = Len(chain) + 1
        /\ DOMAIN chain' = 1..(Len(chain) + 1)
        /\ chain'[Len(chain) + 1] = B
        /\ \A h \in DOMAIN chain : h \in DOMAIN chain' /\ chain'[h] = chain[h]
    BY <1>1, <2>1
  <2>3. \A h \in DOMAIN chain : B \cap chain[h] = {}
    BY <2>1 DEF Confirmed
  <2>4. \A t \in B : \A p \in Parents(t) : p \in B \/ \E i \in DOMAIN chain : p \in chain[i]
    BY <2>1 DEF Confirmed
  <2>5. \A h \in DOMAIN chain' : h < StartHeight => chain'[h] = {}
    BY <1>1, <2>2 DEF ServerInv, ChainInv
  <2>6. \A i, j \in DOMAIN chain' : i # j => chain'[i] \cap chain'[j] = {}
    <3>1. SUFFICES ASSUME NEW i \in DOMAIN chain', NEW j \in DOMAIN chain', i # j
                   PROVE  chain'[i] \cap chain'[j] = {}
      OBVIOUS
    <3>2. i \in DOMAIN chain \/ i = Len(chain) + 1
      BY <1>1, <2>2, <3>1
    <3>3. j \in DOMAIN chain \/ j = Len(chain) + 1
      BY <1>1, <2>2, <3>1
    <3>4. \A a, b \in DOMAIN chain : a # b => chain[a] \cap chain[b] = {}
      BY DEF ServerInv, ChainInv
    <3>. QED
      BY <2>2, <2>3, <3>1, <3>2, <3>3, <3>4
  <2>7. \A h \in DOMAIN chain' : \A t \in chain'[h] : \A p \in Parents(t) :
            \E i \in DOMAIN chain' : i <= h /\ p \in chain'[i]
    <3>1. SUFFICES ASSUME NEW h \in DOMAIN chain', NEW t \in chain'[h], NEW p \in Parents(t)
                   PROVE  \E i \in DOMAIN chain' : i <= h /\ p \in chain'[i]
      OBVIOUS
    <3>2. CASE h \in DOMAIN chain
      <4>1. t \in chain[h]
        BY <2>2, <3>1, <3>2
      <4>2. PICK i \in DOMAIN chain : i <= h /\ p \in chain[i]
        BY <3>1, <3>2, <4>1 DEF ServerInv, ChainInv
      <4>. QED
        BY <2>2, <4>2
    <3>3. CASE h = Len(chain) + 1
      <4>1. CASE p \in B
        BY <1>1, <2>2, <3>3, <4>1
      <4>2. CASE \E i \in DOMAIN chain : p \in chain[i]
        BY <1>1, <2>2, <3>3, <4>2
      <4>. QED
        BY <2>2, <2>4, <3>1, <3>3, <4>1, <4>2
    <3>. QED
      BY <1>1, <2>2, <3>1, <3>2, <3>3
  <2>8. Len(chain') \in (StartHeight - 1)..MaxBlocks /\ Len(chain) <= Len(chain')
    BY <1>1, <2>1, <2>2
  <2>. QED
    BY <2>2, <2>5, <2>6, <2>7, <2>8 DEF ChainInv
<1>3. chain' = chain \/ \E B \in SUBSET Txid, announce \in BOOLEAN : Mine(B, announce)
  <2>1. CASE Start \/ RunJob \/ UNCHANGED serverVars \/ \E t \in Txid : Broadcast(t)
    BY <2>1 DEF Start, RunJob, serverVars, nodeVars, Broadcast
  <2>2. CASE MainStep
    BY <2>2 DEF MainStep, MainFrame, StartFrame, nodeVars, ReadCacheFile, TornCacheFile, Die,
         CacheBlockDone, GetBlockchainInfo, GetRawBlock, OpenCacheFile, WriteCacheFile,
         RpcLoopEnds, SpawnListener, GetMempool, AppendMempool, ProcessStartupMempool,
         StartupMempoolDone, Serve
  <2>3. CASE ListenStep
    BY <2>3 DEF ListenStep, ListenFrame, Connect, ReceiveStartupTx, PushStartupTx, Die,
         ReceiveStartupBlock, ReceiveTx, TxDone, PublishTx, PublishThrows, ReceiveBlock,
         BlockDone, RefreshMempool, RefreshMempoolDone
  <2>4. CASE Failure
    BY <2>4 DEF Failure, GetBlockchainInfoFails, GetRawBlockFails, GetMempoolFails,
         RefreshMempoolFails, LoseMessage, Crash, Die, MainFrame, StartFrame, nodeVars
  <2>. QED
    BY <2>1, <2>2, <2>3, <2>4 DEF ServerNext
<1>4. chain' = chain => ChainInv'
  BY DEF ServerInv, ChainInv
<1>5. /\ ChainInv' /\ Len(chain) <= Len(chain')
      /\ \A h \in DOMAIN chain : h \in DOMAIN chain' /\ chain'[h] = chain[h]
  BY <1>1, <1>2, <1>3, <1>4
<1>6. \A h : Block(h) \subseteq Block(h)'
  BY <1>5 DEF Block
<1>. QED
  BY <1>3, <1>5, <1>6

\* Only main() writes files, and what it writes is sound.
LEMMA CacheKeepsInv ==
    ASSUME ServerInv, [ServerNext]_serverVars
    PROVE  CacheInv'
<1>1. cache' = cache \/ OpenCacheFile \/ WriteCacheFile
  <2>1. CASE Start \/ RunJob \/ UNCHANGED serverVars \/ \E t \in Txid : Broadcast(t)
    BY <2>1 DEF Start, RunJob, serverVars, Broadcast
  <2>2. CASE MainStep
    BY <2>2 DEF MainStep, StartFrame, ReadCacheFile, TornCacheFile, Die,
         CacheBlockDone, GetBlockchainInfo, GetRawBlock,
         RpcLoopEnds, SpawnListener, GetMempool, AppendMempool, ProcessStartupMempool,
         StartupMempoolDone, Serve
  <2>3. CASE ListenStep
    BY <2>3 DEF ListenStep, ListenFrame, Connect, ReceiveStartupTx, PushStartupTx, Die,
         ReceiveStartupBlock, ReceiveTx, TxDone, PublishTx, PublishThrows, ReceiveBlock,
         BlockDone, RefreshMempool, RefreshMempoolDone
  <2>4. CASE Failure
    BY <2>4 DEF Failure, GetBlockchainInfoFails, GetRawBlockFails, GetMempoolFails,
         RefreshMempoolFails, LoseMessage, Crash, Die, MainFrame, StartFrame
  <2>5. CASE \E B \in SUBSET Txid, announce \in BOOLEAN : Mine(B, announce)
    BY <2>5 DEF Mine
  <2>. QED
    BY <2>1, <2>2, <2>3, <2>4, <2>5 DEF ServerNext
<1>2. /\ cache \in [Height -> File] /\ DOMAIN cache = Height
      /\ \A h \in Height : ToSet(cache[h].txs) \subseteq SlpValid \cap Block(h)
      /\ \A h \in Height : cache[h].state # "absent" => h <= Len(chain)
      /\ \A h \in Height : Len(cache[h].txs) <= Cardinality(Txid)
  BY DEF ServerInv, CacheInv, CacheIsSound
<1>3. /\ \A h : Block(h) \subseteq Block(h)'
      /\ Len(chain) <= Len(chain') /\ Len(chain) \in Nat /\ Len(chain') \in Nat
  BY ChainMoves, BlockFacts, ServerAssumption DEF ServerInv, ChainInv, ServerAssumption
<1>4. ASSUME NEW file \in File,
             mpc \in {"rpcJob", "write"},
             cache' = [cache EXCEPT ![current_block_height] = file],
             ToSet(file.txs) \subseteq SlpValid \cap Block(current_block_height),
             Len(file.txs) <= Cardinality(Txid)
      PROVE  CacheInv'
  <2>1. cache' \in [Height -> File]
    BY <1>2, <1>4
  <2>2. ASSUME NEW h \in Height
        PROVE  /\ ToSet(cache'[h].txs) \subseteq SlpValid \cap Block(h)
               /\ cache'[h].state # "absent" => h <= Len(chain)
               /\ Len(cache'[h].txs) <= Cardinality(Txid)
    <3>1. CASE h = current_block_height
      <4>1. cache'[h] = file
        BY <1>2, <1>4, <3>1
      <4>2. h <= Len(chain)
        BY <1>3, <1>4, <3>1 DEF ServerInv, MainInv, Height
      <4>. QED
        BY <1>4, <3>1, <4>1, <4>2
    <3>2. CASE h # current_block_height
      <4>1. cache'[h] = cache[h]
        BY <1>2, <1>4, <3>2
      <4>. QED
        BY <1>2, <4>1
    <3>. QED
      BY <3>1, <3>2
  <2>3. \A h \in Height : cache'[h].state # "absent" => h <= Len(chain')
    BY <1>3, <2>2, ServerAssumption DEF Height, ServerAssumption
  <2>4. \A h \in Height : ToSet(cache'[h].txs) \subseteq SlpValid \cap Block(h)'
    BY <1>3, <2>2
  <2>5. DOMAIN cache' = Height
    BY <2>1
  <2>. QED
    BY <2>1, <2>2, <2>3, <2>4, <2>5 DEF CacheInv, CacheIsSound
<1>5. CASE cache' = cache
  <2>1. \A h \in Height : cache'[h].state # "absent" => h <= Len(chain')
    BY <1>2, <1>3, <1>5, ServerAssumption DEF Height, ServerAssumption
  <2>2. \A h \in Height : ToSet(cache'[h].txs) \subseteq SlpValid \cap Block(h)'
    BY <1>2, <1>3, <1>5
  <2>. QED
    BY <1>2, <1>5, <2>1, <2>2 DEF CacheInv, CacheIsSound
<1>6. CASE OpenCacheFile
  <2>1. TornFile \in File /\ TornFile.txs = <<>>
    BY DEF TornFile, File
  <2>2. ToSet(<<>>) = {} /\ Len(<<>>) <= Cardinality(Txid)
    BY ListAssumption, FS_CardinalityType DEF ToSet, ListAssumption
  <2>. QED
    BY <1>4, <1>6, <2>1, <2>2 DEF OpenCacheFile
<1>7. CASE WriteCacheFile
  <2>. DEFINE list == job.valid_txs_list
              file == [state |-> "whole", txs |-> list]
  <2>1. list \in Seq(Txid) /\ job.txs \in Seq(Txid)
    BY DEF ServerInv, SyncInv, SyncTypeOK, Job
  <2>2. Len(list) <= Cardinality(Txid)
    <3>. DEFINE a == Len(job.txs)
                b == Len(list)
                c == Cardinality(Txid)
    <3>1. a \in Nat /\ b \in Nat
      BY <2>1
    <3>2. c \in Nat
      BY ListAssumption, FS_CardinalityType DEF ListAssumption
    <3>3. a + b <= c
      BY DEF ServerInv, JobInv
    <3>. HIDE DEF a, b, c
    <3>4. b <= c
      BY <3>1, <3>2, <3>3
    <3>. QED
      BY <3>4 DEF b, c
  <2>3. mpc = "write" /\ cache' = [cache EXCEPT ![current_block_height] = file]
    BY <1>7 DEF WriteCacheFile
  <2>4. ToSet(list) \subseteq SlpValid \cap Block(current_block_height)
    BY <2>3 DEF ServerInv, JobInv, JobTxs, SyncInv, ValidIsSound
  <2>5. file \in File /\ file.txs = list
    BY <2>1 DEF File
  <2>. HIDE DEF list, file
  <2>. QED
    BY <1>4, <2>2, <2>3, <2>4, <2>5
<1>. QED
  BY <1>1, <1>5, <1>6, <1>7

-----------------------------------------------------------------------------
(* The control of main() and of the listener. *)

\* What the steps of the control have in common.
LEMMA LenFacts ==
    ASSUME ServerInv, [ServerNext]_serverVars
    PROVE  /\ Len(chain) \in Nat /\ Len(chain') \in Nat /\ Len(chain) <= Len(chain')
           /\ StartHeight \in Nat /\ StartHeight >= 1 /\ StartHeight <= Len(chain) + 1
           /\ MaxBlocks \in Nat /\ Len(chain) <= MaxBlocks /\ Len(chain') <= MaxBlocks
<1>1. ChainInv /\ ChainInv' /\ Len(chain) <= Len(chain')
  BY ChainMoves DEF ServerInv
<1>2. StartHeight \in Nat /\ StartHeight >= 1 /\ MaxBlocks \in Nat
  BY ServerAssumption DEF ServerAssumption
<1>3. Len(chain) \in (StartHeight - 1)..MaxBlocks /\ Len(chain') \in (StartHeight - 1)..MaxBlocks
  BY <1>1 DEF ChainInv
<1>. QED
  BY <1>1, <1>2, <1>3

\* main(): where it is, its height and its hash.
LEMMA MainKeepsInv ==
    ASSUME ServerInv, [ServerNext]_serverVars
    PROVE  MainInv'
<1>. DEFINE n == Len(chain)
            m == Len(chain')
<1>1. /\ n \in Nat /\ m \in Nat /\ n <= m
      /\ StartHeight \in Nat /\ StartHeight >= 1 /\ StartHeight <= n + 1
      /\ current_block_height \in Int /\ current_block_hash \in Hash /\ best \in 0..n
      /\ current_block_hash.of \in Nat
  BY LenFacts DEF ServerInv, MainInv, Hash
<1>h. \A h \in Nat : /\ Digest(h) \in Hash /\ Digest(h).of = h /\ Digest(h).order = "digest"
                    /\ Written(h) \in Hash /\ Written(h).of = h
  BY DEF Hash, Digest, Written
<1>2. MainInv /\ lpc \in ListenPc
  BY DEF ServerInv, ListenInv
<1>3. CASE UNCHANGED <<mainVars, listenVars>>
  BY <1>1, <1>2, <1>3 DEF MainInv, mainVars, listenVars, CountedAhead
<1>4. CASE Die
  <2>1. /\ mpc' = "exited" /\ current_block_height' = StartHeight /\ current_block_hash' = Digest(0)
        /\ best' = 0 /\ startup_processing_mempool' = TRUE /\ lpc' = "off"
    BY <1>4 DEF Die, NoHash
  <2>. QED
    BY <1>1, <1>h, <2>1 DEF MainInv, MainPc, EarlyPc, LatePc, BlockPc, CountedAhead
<1>5. CASE Start
  BY <1>1, <1>2, <1>h, <1>5, LenFacts
  DEF MainInv, Start, nodeVars, listenVars, MainPc, EarlyPc, LatePc, BlockPc, CountedAhead
<1>6. CASE ReadCacheFile
  <2>1. /\ current_block_height \in 0..(n + 1)
        /\ cache[current_block_height].state # "absent" => current_block_height <= n
    BY <1>2, <1>6, CacheFileFacts DEF ReadCacheFile, MainInv
  <2>2. /\ mpc = "cache" /\ best' = best /\ lpc' = lpc /\ chain' = chain
        /\ startup_processing_mempool' = startup_processing_mempool
        /\ \/ /\ mpc' = "info" /\ current_block_height' = current_block_height - 1
              /\ current_block_hash' = current_block_hash
           \/ /\ mpc' = "cacheJob" /\ current_block_height' = current_block_height
              /\ current_block_hash' = Digest(current_block_height)
              /\ cache[current_block_height].state # "absent"
    BY <1>6 DEF ReadCacheFile, MainFrame, nodeVars, listenVars
  <2>. QED
    BY <1>1, <1>2, <1>h, <2>1, <2>2 DEF MainInv, MainPc, EarlyPc, LatePc, BlockPc, CountedAhead
<1>7. CASE CacheBlockDone
  BY <1>1, <1>2, <1>h, <1>7
  DEF MainInv, CacheBlockDone, MainFrame, nodeVars, listenVars, MainPc, EarlyPc, LatePc, BlockPc, CountedAhead
<1>8. CASE GetBlockchainInfo
  BY <1>1, <1>2, <1>h, <1>8
  DEF MainInv, GetBlockchainInfo, MainFrame, nodeVars, listenVars, MainPc, EarlyPc, LatePc,
      BlockPc, CountedAhead
<1>9. CASE GetRawBlock
  BY <1>1, <1>2, <1>h, <1>9
  DEF MainInv, GetRawBlock, InRpcLoop, MainFrame, nodeVars, listenVars, MainPc, EarlyPc, LatePc,
      BlockPc, CountedAhead
<1>10. CASE GetRawBlockFails
  BY <1>1, <1>2, <1>h, <1>10
  DEF MainInv, GetRawBlockFails, InRpcLoop, MainFrame, nodeVars, listenVars, MainPc, EarlyPc,
      LatePc, BlockPc, CountedAhead
<1>11. CASE OpenCacheFile
  BY <1>1, <1>2, <1>h, <1>11
  DEF MainInv, OpenCacheFile, MainFrame, nodeVars, listenVars, MainPc, EarlyPc, LatePc, BlockPc, CountedAhead
<1>12. CASE WriteCacheFile
  BY <1>1, <1>2, <1>h, <1>12
  DEF MainInv, WriteCacheFile, MainFrame, nodeVars, listenVars, MainPc, EarlyPc, LatePc, BlockPc, CountedAhead
<1>13. CASE RpcLoopEnds
  BY <1>1, <1>2, <1>h, <1>13
  DEF MainInv, RpcLoopEnds, InRpcLoop, MainFrame, nodeVars, listenVars, MainPc, EarlyPc, LatePc,
      BlockPc, CountedAhead
<1>14. CASE SpawnListener
  BY <1>1, <1>2, <1>h, <1>14
  DEF MainInv, SpawnListener, StartFrame, nodeVars, MainPc, EarlyPc, LatePc, BlockPc, CountedAhead
<1>15. CASE GetMempool \/ AppendMempool \/ ProcessStartupMempool \/ StartupMempoolDone
              \/ GetMempoolFails
  BY <1>1, <1>2, <1>h, <1>15
  DEF MainInv, GetMempool, AppendMempool, ProcessStartupMempool, StartupMempoolDone,
      GetMempoolFails, StartFrame, nodeVars, listenVars, MainPc, EarlyPc, LatePc, BlockPc, CountedAhead
<1>16. CASE Serve
  BY <1>1, <1>2, <1>h, <1>16
  DEF MainInv, Serve, StartFrame, nodeVars, listenVars, MainPc, EarlyPc, LatePc, BlockPc, CountedAhead
<1>17. CASE Connect \/ ReceiveStartupTx \/ PushStartupTx \/ ReceiveStartupBlock
              \/ ReceiveTx \/ TxDone \/ PublishTx
  <2>1. /\ mpc' = mpc /\ current_block_height' = current_block_height /\ chain' = chain
        /\ current_block_hash' = current_block_hash /\ best' = best
        /\ startup_processing_mempool' = startup_processing_mempool
    BY <1>17
    DEF Connect, ReceiveStartupTx, PushStartupTx, ReceiveStartupBlock, ReceiveTx, TxDone,
        PublishTx, ListenFrame
  <2>2. lpc \notin {"off"} \cup BlockPc /\ lpc' \notin BlockPc
    BY <1>17
    DEF Connect, ReceiveStartupTx, PushStartupTx, ReceiveStartupBlock, ReceiveTx, TxDone,
        PublishTx, Receive, BlockPc, CountedAhead
  <2>. QED
    BY <1>1, <1>2, <1>h, <2>1, <2>2 DEF MainInv, CountedAhead, BlockPc
<1>18. CASE ReceiveBlock
  <2>1. /\ zmq # <<>> /\ Head(zmq).topic = "rawblock" /\ mpc = "serving" /\ lpc = "recv"
        /\ lpc' = "blockJob" /\ mpc' = mpc /\ best' = best /\ chain' = chain
        /\ startup_processing_mempool' = startup_processing_mempool
        /\ current_block_height' = current_block_height + 1
        /\ current_block_hash' = current_block_hash
    BY <1>2, <1>18 DEF ReceiveBlock, Receive, ListenFrame, MainInv
  <2>2. current_block_height + 1 <= n
    <3>1. Head(zmq).height \in DOMAIN chain /\ current_block_height < Head(zmq).height
      BY <2>1, HeadFacts DEF ServerInv, ZmqInv, InOrder
    <3>2. Head(zmq).height \in 1..n
      BY <3>1, BlockFacts DEF ServerInv
    <3>. QED
      BY <1>1, <3>1, <3>2
  <2>. QED
    BY <1>1, <1>2, <2>1, <2>2
    DEF MainInv, MainPc, EarlyPc, LatePc, BlockPc, CountedAhead
<1>19. CASE BlockDone \/ RefreshMempool
  <2>1. lpc \in BlockPc /\ lpc' \in BlockPc /\ mpc = "serving"
    BY <1>19 DEF BlockDone, RefreshMempool, BlockPc, ServerInv, ListenInv
  <2>. QED
    BY <1>1, <1>2, <1>h, <1>19, <2>1
    DEF MainInv, BlockDone, RefreshMempool, ListenFrame, EarlyPc, BlockPc, CountedAhead
<1>20. CASE RefreshMempoolDone
  <2>1. mpc = "serving" /\ current_block_height <= lmsg.height /\ lmsg.height \in DOMAIN chain
    BY <1>20 DEF RefreshMempoolDone, BlockPc, ServerInv, ListenInv
  <2>2. lmsg.height \in Nat
    BY <2>1, BlockFacts DEF ServerInv
  <2>. QED
    BY <1>1, <1>2, <1>h, <1>20, <2>1, <2>2
    DEF MainInv, RefreshMempoolDone, ListenFrame, EarlyPc, BlockPc, CountedAhead
<1>21. CASE RunJob \/ LoseMessage \/ UNCHANGED serverVars
  BY <1>3, <1>21 DEF RunJob, LoseMessage, serverVars
<1>22. ASSUME NEW t \in Txid, Broadcast(t)
       PROVE  MainInv'
  BY <1>3, <1>22 DEF Broadcast
<1>23. ASSUME NEW B \in SUBSET Txid, NEW announce \in BOOLEAN, Mine(B, announce)
       PROVE  MainInv'
  BY <1>3, <1>23 DEF Mine
<1>24. CASE TornCacheFile \/ PublishThrows \/ GetBlockchainInfoFails \/ RefreshMempoolFails
              \/ Crash
  BY <1>4, <1>24 DEF TornCacheFile, PublishThrows, GetBlockchainInfoFails,
                     RefreshMempoolFails, Crash
<1>. QED
  BY <1>5, <1>6, <1>7, <1>8, <1>9, <1>10, <1>11, <1>12, <1>13, <1>14, <1>15, <1>16, <1>17,
     <1>18, <1>19, <1>20, <1>21, <1>22, <1>23, <1>24
  DEF ServerNext, MainStep, ListenStep, Failure

-----------------------------------------------------------------------------
(* The notifications. *)

\* The rest of a queue.
LEMMA TailInOrder ==
    ASSUME NEW q, NEW c \in Int, NEW ch \in Seq(SUBSET Txid), InOrder(q, c, ch), q # <<>>
    PROVE  /\ InOrder(Tail(q), c, ch)
           /\ Head(q).topic = "rawblock" => InOrder(Tail(q), c + 1, ch)
<1>. DEFINE r == Tail(q)
<1>1. /\ q \in Seq(Message) /\ r \in Seq(Message) /\ 1 \in DOMAIN q /\ Head(q) = q[1]
      /\ Len(ch) \in Nat
  BY DEF InOrder
<1>2. \A i \in DOMAIN r : i \in Nat /\ i >= 1 /\ i + 1 \in DOMAIN q /\ r[i] = q[i + 1]
  BY <1>1
<1>. HIDE DEF r
<1>3. /\ \A i \in DOMAIN r : r[i].topic = "rawtx" => \E t \in Txid : r[i].txs = {t}
      /\ \A i \in DOMAIN r : r[i].topic = "rawblock" =>
             /\ r[i].height \in DOMAIN ch /\ c < r[i].height
             /\ r[i].txs = ch[r[i].height]
  BY <1>2 DEF InOrder
<1>4. \A i, j \in DOMAIN r :
           (i < j /\ r[i].topic = "rawblock" /\ r[j].topic = "rawblock") =>
               r[i].height < r[j].height
  <2>1. SUFFICES ASSUME NEW i \in DOMAIN r, NEW j \in DOMAIN r, i < j,
                        r[i].topic = "rawblock", r[j].topic = "rawblock"
                 PROVE  r[i].height < r[j].height
    OBVIOUS
  <2>2. /\ i + 1 \in DOMAIN q /\ r[i] = q[i + 1] /\ j + 1 \in DOMAIN q /\ r[j] = q[j + 1]
        /\ i + 1 < j + 1
    BY <1>2, <2>1
  <2>. QED
    BY <2>1, <2>2 DEF InOrder
<1>5. ASSUME Head(q).topic = "rawblock", NEW i \in DOMAIN r, r[i].topic = "rawblock"
      PROVE  c + 1 < r[i].height
  <2>1. /\ i + 1 \in DOMAIN q /\ r[i] = q[i + 1] /\ 1 < i + 1
    BY <1>2, <1>5
  <2>2. q[1].height < q[i + 1].height
    BY <1>1, <1>5, <2>1 DEF InOrder
  <2>3. c < q[1].height /\ q[1].height \in 1..Len(ch) /\ q[i + 1].height \in 1..Len(ch)
    BY <1>1, <1>5, <2>1 DEF InOrder
  <2>. QED
    BY <1>1, <2>1, <2>2, <2>3
<1>6. InOrder(r, c, ch)
  BY <1>1, <1>3, <1>4 DEF InOrder, r
<1>7. ASSUME Head(q).topic = "rawblock"
      PROVE  InOrder(r, c + 1, ch)
  <2>1. \A i \in DOMAIN r : r[i].topic = "rawblock" => c + 1 < r[i].height
    BY <1>5, <1>7
  <2>. QED
    BY <1>1, <1>3, <1>4, <2>1 DEF InOrder, r
<1>. QED
  BY <1>6, <1>7 DEF r

\* A longer chain.
LEMMA LongerChainInOrder ==
    ASSUME NEW q, NEW c \in Int, NEW ch, NEW ch2,
           InOrder(q, c, ch), \A h \in DOMAIN ch : h \in DOMAIN ch2 /\ ch2[h] = ch[h]
    PROVE  InOrder(q, c, ch2)
  BY DEF InOrder

\* More notifications at the end of a queue: only the last of them may be of a
\* block, and that block is above the others.
LEMMA LongerQueueInOrder ==
    ASSUME NEW q, NEW c \in Int, NEW ch \in Seq(SUBSET Txid), NEW msgs \in Seq(Message),
           InOrder(q, c, ch),
           \A i \in DOMAIN msgs : msgs[i].topic = "rawtx" => \E t \in Txid : msgs[i].txs = {t},
           \A i \in DOMAIN msgs : msgs[i].topic = "rawblock" =>
               /\ i = Len(msgs)
               /\ msgs[i].height \in DOMAIN ch /\ c < msgs[i].height
               /\ msgs[i].txs = ch[msgs[i].height]
               /\ \A j \in DOMAIN q : q[j].topic = "rawblock" => q[j].height < msgs[i].height
    PROVE  InOrder(q \o msgs, c, ch)
<1>. DEFINE r == q \o msgs
            n == Len(q)
            m == Len(msgs)
<1>1. q \in Seq(Message) /\ n \in Nat /\ m \in Nat /\ DOMAIN q = 1..n /\ DOMAIN msgs = 1..m
  BY DEF InOrder
<1>2. /\ r \in Seq(Message) /\ DOMAIN r = 1..(n + m)
      /\ \A i \in 1..n : r[i] = q[i]
      /\ \A i \in (n + 1)..(n + m) : r[i] = msgs[i - n]
  BY <1>1
<1>. HIDE DEF r, n
<1>3. ASSUME NEW i \in DOMAIN r
      PROVE  \/ i \in DOMAIN q /\ r[i] = q[i]
             \/ i > n /\ i - n \in DOMAIN msgs /\ r[i] = msgs[i - n]
  <2>1. i \in 1..n \/ i \in (n + 1)..(n + m)
    BY <1>1, <1>2, <1>3
  <2>. QED
    BY <1>1, <1>2, <2>1
<1>. HIDE DEF m
<1>4. \A i \in DOMAIN r : r[i].topic = "rawtx" => \E t \in Txid : r[i].txs = {t}
  BY <1>3 DEF InOrder
<1>5. \A i \in DOMAIN r : r[i].topic = "rawblock" =>
           /\ r[i].height \in DOMAIN ch /\ c < r[i].height
           /\ r[i].txs = ch[r[i].height]
  BY <1>3 DEF InOrder
<1>6. \A i, j \in DOMAIN r :
           (i < j /\ r[i].topic = "rawblock" /\ r[j].topic = "rawblock") =>
               r[i].height < r[j].height
  <2>1. SUFFICES ASSUME NEW i \in DOMAIN r, NEW j \in DOMAIN r, i < j,
                        r[i].topic = "rawblock", r[j].topic = "rawblock"
                 PROVE  r[i].height < r[j].height
    OBVIOUS
  <2>2. i \in Int /\ j \in Int
    BY <1>1, <1>2
  <2>3. CASE j \in DOMAIN q
    <3>1. i \in DOMAIN q /\ r[i] = q[i] /\ r[j] = q[j]
      BY <1>1, <1>2, <2>1, <2>3
    <3>. QED
      BY <2>1, <2>3, <3>1 DEF InOrder
  <2>4. CASE j > n /\ j - n \in DOMAIN msgs /\ r[j] = msgs[j - n]
    <3>1. j - n = m
      BY <2>1, <2>4 DEF m
    <3>2. CASE i \in DOMAIN q /\ r[i] = q[i]
      BY <2>1, <2>4, <3>2
    <3>3. CASE i - n \in DOMAIN msgs /\ r[i] = msgs[i - n]
      <4>1. i - n = m
        BY <2>1, <3>3 DEF m
      <4>. QED
        BY <1>1, <2>1, <2>2, <3>1, <4>1
    <3>. QED
      BY <1>3, <2>1, <3>2, <3>3
  <2>. QED
    BY <1>3, <2>1, <2>3, <2>4
<1>. QED
  BY <1>2, <1>4, <1>5, <1>6 DEF InOrder, r

\* What Broadcast and Mine publish.
LEMMA PublishedMessages ==
    ASSUME ServerInv
    PROVE  /\ \A t \in Txid : RawTx(t) \in Message /\ RawTx(t).topic = "rawtx" /\ RawTx(t).txs = {t}
           /\ \A B \in SUBSET Txid :
                  LET block == [topic |-> "rawblock", txs |-> B, height |-> Len(chain) + 1] IN
                  /\ block \in Message /\ block.topic = "rawblock" /\ block.txs = B
                  /\ block.height = Len(chain) + 1
<1>1. /\ Len(chain) \in Nat /\ MaxBlocks \in Nat /\ Len(chain) <= MaxBlocks
  BY ServerAssumption DEF ServerInv, ChainInv, ServerAssumption
<1>2. 0 \in Height /\ Len(chain) + 1 \in Height
  BY <1>1 DEF Height
<1>. QED
  BY <1>2 DEF RawTx, Message

\* Mine publishes the transactions of the block, or none of them, and then the block.
LEMMA MinedMessages ==
    ASSUME ServerInv, NEW B \in SUBSET Txid, NEW announce \in BOOLEAN, Mine(B, announce)
    PROVE  \E msgs \in Seq(Message) :
              /\ zmq' = IF Subscribed THEN zmq \o msgs ELSE zmq
              /\ \E i \in DOMAIN msgs : msgs[i].topic = "rawblock" /\ msgs[i].txs = B
              /\ \A i \in DOMAIN msgs :
                     msgs[i].topic = "rawtx" => \E t \in Txid : msgs[i].txs = {t}
              /\ \A i \in DOMAIN msgs : msgs[i].topic = "rawblock" =>
                     i = Len(msgs) /\ msgs[i].height = Len(chain) + 1 /\ msgs[i].txs = B
<1>. DEFINE block == [topic |-> "rawblock", txs |-> B, height |-> Len(chain) + 1]
<1>1. /\ block \in Message /\ block.topic = "rawblock" /\ block.txs = B
      /\ block.height = Len(chain) + 1
  BY PublishedMessages
<1>2. /\ announce => \E s \in topological_sort(B) :
                        Publish(Append([i \in DOMAIN s |-> RawTx(s[i])], block))
      /\ ~announce => Publish(<<block>>)
  BY DEF Mine
<1>. HIDE DEF block
<1>3. CASE announce
  <2>1. PICK s \in topological_sort(B) : Publish(Append([i \in DOMAIN s |-> RawTx(s[i])], block))
    BY <1>2, <1>3
  <2>. DEFINE txs == [i \in DOMAIN s |-> RawTx(s[i])]
              msgs == Append(txs, block)
  <2>2. /\ s \in Seq(Txid) /\ Len(s) \in Nat /\ DOMAIN s = 1..Len(s)
        /\ \A i \in DOMAIN s : s[i] \in Txid
    BY <2>1, SortFacts
  <2>3. /\ txs \in Seq(Message) /\ Len(txs) = Len(s)
        /\ \A i \in 1..Len(s) : txs[i] = RawTx(s[i])
    <3>1. txs \in [1..Len(s) -> Message]
      BY <2>2, PublishedMessages
    <3>. QED
      BY <2>2, <3>1
  <2>4. Publish(msgs)
    BY <2>1
  <2>. HIDE DEF txs
  <2>5. /\ msgs \in Seq(Message) /\ Len(msgs) = Len(s) + 1 /\ DOMAIN msgs = 1..(Len(s) + 1)
        /\ \A i \in 1..Len(s) : msgs[i] = txs[i]
        /\ msgs[Len(s) + 1] = block
    BY <1>1, <2>2, <2>3
  <2>. HIDE DEF msgs
  <2>6. zmq' = IF Subscribed THEN zmq \o msgs ELSE zmq
    BY <2>4 DEF Publish
  <2>7. ASSUME NEW i \in DOMAIN msgs
        PROVE  \/ \E t \in Txid : msgs[i] = RawTx(t)
               \/ msgs[i] = block /\ i = Len(msgs)
    <3>1. CASE i \in 1..Len(s)
      BY <2>2, <2>3, <2>5, <3>1
    <3>2. CASE i = Len(s) + 1
      BY <2>5, <3>2
    <3>. QED
      BY <2>2, <2>5, <2>7, <3>1, <3>2
  <2>8. \A i \in DOMAIN msgs : msgs[i].topic = "rawtx" => \E t \in Txid : msgs[i].txs = {t}
    BY <1>1, <2>7, PublishedMessages
  <2>9. \A i \in DOMAIN msgs : msgs[i].topic = "rawblock" =>
            i = Len(msgs) /\ msgs[i].height = Len(chain) + 1 /\ msgs[i].txs = B
    BY <1>1, <2>7, PublishedMessages
  <2>10. \E i \in DOMAIN msgs : msgs[i].topic = "rawblock" /\ msgs[i].txs = B
    BY <1>1, <2>2, <2>5
  <2>. QED
    BY <2>5, <2>6, <2>8, <2>9, <2>10
<1>4. CASE ~announce
  <2>. DEFINE msgs == <<block>>
  <2>1. /\ msgs \in Seq(Message) /\ Len(msgs) = 1 /\ DOMAIN msgs = {1} /\ msgs[1] = block
    BY <1>1
  <2>2. Publish(msgs)
    BY <1>2, <1>4
  <2>. HIDE DEF msgs
  <2>3. zmq' = IF Subscribed THEN zmq \o msgs ELSE zmq
    BY <2>2 DEF Publish
  <2>4. \A i \in DOMAIN msgs : i = Len(msgs) /\ msgs[i] = block
    BY <2>1
  <2>. QED
    BY <1>1, <2>1, <2>3, <2>4
<1>. QED
  BY <1>3, <1>4

\* The queue stays in order.
LEMMA ZmqKeepsInv ==
    ASSUME ServerInv, [ServerNext]_serverVars
    PROVE  ZmqInv'
<1>. DEFINE c == current_block_height
<1>1. /\ InOrder(zmq, c, chain) /\ c \in Int /\ chain \in Seq(SUBSET Txid)
      /\ Len(chain) \in Nat /\ DOMAIN chain = 1..Len(chain)
  BY DEF ServerInv, ZmqInv, MainInv, ChainInv
<1>3. lpc = "off" => zmq = <<>>
  BY DEF ServerInv, ListenInv
<1>4. InOrder(<<>>, current_block_height', chain')
  BY DEF InOrder
<1>5. CASE zmq' = zmq /\ c' = c /\ chain' = chain
  BY <1>1, <1>5 DEF ZmqInv
<1>6. CASE zmq' = Tail(zmq) /\ zmq # <<>> /\ c' = c /\ chain' = chain
  BY <1>1, <1>6, TailInOrder DEF ZmqInv
<1>7. CASE zmq' = zmq /\ lpc = "off"
  BY <1>3, <1>4, <1>7 DEF ZmqInv
<1>8. CASE Die
  BY <1>4, <1>8 DEF Die, ZmqInv
<1>9. CASE ReceiveBlock
  <2>1. /\ zmq' = Tail(zmq) /\ zmq # <<>> /\ c' = c + 1 /\ chain' = chain
        /\ Head(zmq).topic = "rawblock"
    BY <1>9 DEF ReceiveBlock, Receive, ListenFrame
  <2>. QED
    BY <1>1, <2>1, TailInOrder DEF ZmqInv
<1>10. ASSUME NEW t \in Txid, Broadcast(t)
       PROVE  ZmqInv'
  <2>. DEFINE msgs == <<RawTx(t)>>
  <2>1. c' = c /\ chain' = chain /\ Publish(msgs)
    BY <1>10 DEF Broadcast, mainVars
  <2>2. msgs \in Seq(Message) /\ DOMAIN msgs = {1} /\ msgs[1].txs = {t} /\ msgs[1].topic = "rawtx"
    BY PublishedMessages
  <2>. HIDE DEF msgs
  <2>3. InOrder(zmq \o msgs, c, chain)
    BY <1>1, <2>2, LongerQueueInOrder
  <2>4. zmq' = zmq \/ zmq' = zmq \o msgs
    BY <2>1 DEF Publish
  <2>. QED
    BY <1>1, <2>1, <2>3, <2>4 DEF ZmqInv
<1>11. ASSUME NEW B \in SUBSET Txid, NEW announce \in BOOLEAN, Mine(B, announce)
       PROVE  ZmqInv'
  <2>1. c' = c /\ chain' = Append(chain, B)
    BY <1>11 DEF Mine, mainVars
  <2>2. /\ chain' \in Seq(SUBSET Txid) /\ DOMAIN chain' = 1..(Len(chain) + 1)
        /\ chain'[Len(chain) + 1] = B
        /\ \A h \in DOMAIN chain : h \in DOMAIN chain' /\ chain'[h] = chain[h]
    BY <1>1, <2>1
  <2>3. InOrder(zmq, c, chain')
    BY <1>1, <2>2, LongerChainInOrder
  <2>4. PICK msgs \in Seq(Message) :
              /\ zmq' = zmq \/ zmq' = zmq \o msgs
              /\ \A i \in DOMAIN msgs :
                     msgs[i].topic = "rawtx" => \E t \in Txid : msgs[i].txs = {t}
              /\ \A i \in DOMAIN msgs : msgs[i].topic = "rawblock" =>
                     i = Len(msgs) /\ msgs[i].height = Len(chain) + 1 /\ msgs[i].txs = B
    BY <1>11, MinedMessages
  <2>5. CASE zmq' = zmq
    BY <2>1, <2>3, <2>5 DEF ZmqInv
  <2>6. CASE zmq' = zmq \o msgs /\ zmq' # zmq
    <3>1. c < Len(chain) + 1
      <4>1. lpc # "off"
        BY <1>11, <2>6 DEF Mine, Publish, Subscribed
      <4>2. mpc \in LatePc
        BY <4>1 DEF ServerInv, MainInv, MainPc, EarlyPc, LatePc
      <4>. QED
        BY <1>1, <4>2 DEF ServerInv, MainInv
    <3>2. \A j \in DOMAIN zmq : zmq[j].topic = "rawblock" => zmq[j].height < Len(chain) + 1
      BY <1>1 DEF InOrder
    <3>3. \A i \in DOMAIN msgs : msgs[i].topic = "rawblock" =>
               /\ i = Len(msgs)
               /\ msgs[i].height \in DOMAIN chain' /\ c < msgs[i].height
               /\ msgs[i].txs = chain'[msgs[i].height]
               /\ \A j \in DOMAIN zmq : zmq[j].topic = "rawblock" => zmq[j].height < msgs[i].height
      BY <1>1, <2>2, <2>4, <3>1, <3>2
    <3>4. InOrder(zmq \o msgs, c, chain')
      BY <1>1, <2>2, <2>3, <2>4, <3>3, LongerQueueInOrder
    <3>. QED
      BY <2>1, <2>6, <3>4 DEF ZmqInv
  <2>. QED
    BY <2>4, <2>5, <2>6
<1>12. CASE Start \/ RunJob \/ UNCHANGED serverVars
  BY <1>5, <1>12 DEF Start, RunJob, serverVars, nodeVars, mainVars
<1>13. CASE ReadCacheFile \/ CacheBlockDone \/ GetBlockchainInfo \/ GetRawBlock
              \/ OpenCacheFile \/ WriteCacheFile \/ RpcLoopEnds \/ GetRawBlockFails
  <2>1. lpc = "off"
    BY <1>13
    DEF ReadCacheFile, CacheBlockDone, GetBlockchainInfo, GetRawBlock, OpenCacheFile,
        WriteCacheFile, RpcLoopEnds, GetRawBlockFails, ServerInv, MainInv, EarlyPc
  <2>2. zmq' = zmq
    BY <1>13
    DEF ReadCacheFile, CacheBlockDone, GetBlockchainInfo, GetRawBlock, OpenCacheFile,
        WriteCacheFile, RpcLoopEnds, GetRawBlockFails, MainFrame, nodeVars
  <2>. QED
    BY <1>7, <2>1, <2>2
<1>14. CASE SpawnListener \/ GetMempool \/ AppendMempool \/ ProcessStartupMempool
              \/ StartupMempoolDone \/ Serve \/ GetMempoolFails
  BY <1>5, <1>14
  DEF SpawnListener, GetMempool, AppendMempool, ProcessStartupMempool, StartupMempoolDone,
      Serve, GetMempoolFails, StartFrame, nodeVars
<1>15. CASE Connect \/ PushStartupTx \/ TxDone \/ PublishTx \/ BlockDone \/ RefreshMempool
              \/ RefreshMempoolDone
  BY <1>5, <1>15
  DEF Connect, PushStartupTx, TxDone, PublishTx, BlockDone, RefreshMempool,
      RefreshMempoolDone, ListenFrame
<1>16. CASE ReceiveStartupTx \/ ReceiveStartupBlock \/ ReceiveTx \/ LoseMessage
  BY <1>6, <1>16
  DEF ReceiveStartupTx, ReceiveStartupBlock, ReceiveTx, LoseMessage, Receive, ListenFrame,
      mainVars
<1>17. CASE TornCacheFile \/ PublishThrows \/ GetBlockchainInfoFails \/ RefreshMempoolFails
              \/ Crash
  BY <1>8, <1>17 DEF TornCacheFile, PublishThrows, GetBlockchainInfoFails,
                     RefreshMempoolFails, Crash
<1>. QED
  BY <1>9, <1>10, <1>11, <1>12, <1>13, <1>14, <1>15, <1>16, <1>17
  DEF ServerNext, MainStep, ListenStep, Failure

\* Only the socket's end of a queue is new, and only Mine adds a block to it.
LEMMA QueueMoves ==
    ASSUME ServerInv, [ServerNext]_serverVars,
           NEW i \in DOMAIN zmq', zmq'[i].topic = "rawblock"
    PROVE  \/ \E j \in DOMAIN zmq : zmq'[i] = zmq[j]
           \/ zmq'[i].height = Len(chain) + 1
<1>. DEFINE Known == \E j \in DOMAIN zmq : zmq'[i] = zmq[j]
<1>1. zmq \in Seq(Message)
  BY DEF ServerInv, ZmqInv, InOrder
<1>2. CASE zmq' = zmq
  BY <1>2
<1>3. CASE zmq' = Tail(zmq) /\ zmq # <<>>
  BY <1>3, HeadFacts
<1>4. CASE zmq' = <<>>
  BY <1>4
<1>5. ASSUME NEW msgs \in Seq(Message), zmq' = zmq \o msgs
      PROVE  Known \/ \E j \in DOMAIN msgs : zmq'[i] = msgs[j]
  <2>. DEFINE n == Len(zmq)
              m == Len(msgs)
  <2>1. /\ n \in Nat /\ m \in Nat /\ DOMAIN zmq = 1..n /\ DOMAIN msgs = 1..m
        /\ DOMAIN zmq' = 1..(n + m)
        /\ \A k \in 1..n : zmq'[k] = zmq[k]
        /\ \A k \in (n + 1)..(n + m) : zmq'[k] = msgs[k - n]
    BY <1>1, <1>5
  <2>. HIDE DEF n, m
  <2>2. CASE i \in 1..n
    BY <2>1, <2>2
  <2>3. CASE i \in (n + 1)..(n + m)
    <3>1. i - n \in DOMAIN msgs
      BY <2>1, <2>3
    <3>. QED
      BY <2>1, <2>3, <3>1
  <2>. QED
    BY <2>1, <2>2, <2>3
<1>6. ASSUME NEW t \in Txid, Broadcast(t)
      PROVE  Known
  <2>. DEFINE msgs == <<RawTx(t)>>
  <2>1. msgs \in Seq(Message) /\ DOMAIN msgs = {1} /\ msgs[1].topic = "rawtx"
    BY PublishedMessages
  <2>2. zmq' = zmq \/ zmq' = zmq \o msgs
    BY <1>6 DEF Broadcast, Publish
  <2>. HIDE DEF msgs
  <2>. QED
    BY <1>2, <1>5, <2>1, <2>2
<1>7. ASSUME NEW B \in SUBSET Txid, NEW announce \in BOOLEAN, Mine(B, announce)
      PROVE  Known \/ zmq'[i].height = Len(chain) + 1
  <2>1. PICK msgs \in Seq(Message) :
              /\ zmq' = zmq \/ zmq' = zmq \o msgs
              /\ \A j \in DOMAIN msgs : msgs[j].topic = "rawblock" =>
                     msgs[j].height = Len(chain) + 1
    BY <1>7, MinedMessages
  <2>. QED
    BY <1>2, <1>5, <2>1
<1>8. \/ zmq' = zmq \/ (zmq' = Tail(zmq) /\ zmq # <<>>) \/ zmq' = <<>>
      \/ \E t \in Txid : Broadcast(t)
      \/ \E B \in SUBSET Txid, announce \in BOOLEAN : Mine(B, announce)
  <2>1. CASE Start \/ RunJob \/ UNCHANGED serverVars
    BY <2>1 DEF Start, RunJob, serverVars, nodeVars
  <2>2. CASE MainStep
    BY <2>2 DEF MainStep, MainFrame, StartFrame, nodeVars, ReadCacheFile, TornCacheFile, Die,
         CacheBlockDone, GetBlockchainInfo, GetRawBlock, OpenCacheFile, WriteCacheFile,
         RpcLoopEnds, SpawnListener, GetMempool, AppendMempool, ProcessStartupMempool,
         StartupMempoolDone, Serve
  <2>3. CASE ListenStep
    BY <2>3 DEF ListenStep, Connect, ReceiveStartupTx, PushStartupTx, Die, Receive,
         ReceiveStartupBlock, ReceiveTx, TxDone, PublishTx, PublishThrows, ReceiveBlock,
         BlockDone, RefreshMempool, RefreshMempoolDone
  <2>4. CASE Failure
    BY <2>4 DEF Failure, GetBlockchainInfoFails, GetRawBlockFails, GetMempoolFails,
         RefreshMempoolFails, LoseMessage, Crash, Die, MainFrame, StartFrame, nodeVars
  <2>. QED
    BY <2>1, <2>2, <2>3, <2>4 DEF ServerNext
<1>. QED
  BY <1>2, <1>3, <1>4, <1>6, <1>7, <1>8

-----------------------------------------------------------------------------
(* The listener, the sets and the blocks this process has read. *)

\* The listener's position and its message.
LEMMA ListenKeepsInv ==
    ASSUME ServerInv, [ServerNext]_serverVars
    PROVE  ListenInv'
<1>1. ListenInv /\ MainInv /\ (mpc \in EarlyPc => lpc = "off")
  BY DEF ServerInv, MainInv
<1>2. NoMessage \in Message
  BY ServerAssumption DEF NoMessage, Message, Height, ServerAssumption
<1>3. \A h \in DOMAIN chain : h \in DOMAIN chain'
  BY ChainMoves
<1>4. CASE UNCHANGED <<mainVars, listenVars, zmq>>
  BY <1>1, <1>3, <1>4 DEF ListenInv, mainVars, listenVars
<1>5. CASE Die
  <2>1. lpc' = "off" /\ lmsg' = NoMessage /\ zmq' = <<>>
    BY <1>5 DEF Die
  <2>. QED
    BY <1>2, <2>1 DEF ListenInv, ListenPc, BlockPc
<1>6. ASSUME NEW t \in Txid, Broadcast(t)
      PROVE  ListenInv'
  <2>1. UNCHANGED <<mainVars, listenVars>> /\ (lpc \in {"off", "connect"} => zmq' = zmq)
    BY <1>6 DEF Broadcast, Publish, Subscribed
  <2>. QED
    BY <1>1, <1>3, <2>1 DEF ListenInv, mainVars, listenVars
<1>7. ASSUME NEW B \in SUBSET Txid, NEW announce \in BOOLEAN, Mine(B, announce)
      PROVE  ListenInv'
  <2>1. UNCHANGED <<mainVars, listenVars>> /\ (lpc \in {"off", "connect"} => zmq' = zmq)
    BY <1>7 DEF Mine, Publish, Subscribed
  <2>. QED
    BY <1>1, <1>3, <2>1 DEF ListenInv, mainVars, listenVars
<1>8. CASE Start \/ ReadCacheFile \/ CacheBlockDone \/ GetBlockchainInfo \/ GetRawBlock
             \/ OpenCacheFile \/ WriteCacheFile \/ RpcLoopEnds \/ GetRawBlockFails
  <2>1. lpc = "off" /\ lpc' = lpc /\ lmsg' = lmsg /\ zmq' = zmq
    BY <1>1, <1>8
    DEF Start, ReadCacheFile, CacheBlockDone, GetBlockchainInfo, GetRawBlock, OpenCacheFile,
        WriteCacheFile, RpcLoopEnds, GetRawBlockFails, MainFrame, nodeVars, listenVars, EarlyPc
  <2>. QED
    BY <1>1, <2>1 DEF ListenInv, BlockPc
<1>9. CASE SpawnListener
  <2>1. lpc = "off" /\ lpc' = "connect" /\ lmsg' = lmsg /\ zmq' = zmq
    BY <1>1, <1>9 DEF SpawnListener, StartFrame, nodeVars, EarlyPc
  <2>. QED
    BY <1>1, <2>1 DEF ListenInv, ListenPc, BlockPc
<1>10. CASE GetMempool \/ AppendMempool \/ ProcessStartupMempool \/ StartupMempoolDone
              \/ Serve \/ GetMempoolFails
  <2>1. /\ lpc' = lpc /\ lmsg' = lmsg /\ zmq' = zmq /\ mpc # "serving" /\ chain' = chain
    BY <1>10
    DEF GetMempool, AppendMempool, ProcessStartupMempool, StartupMempoolDone, Serve,
        GetMempoolFails, StartFrame, nodeVars, listenVars
  <2>. QED
    BY <1>1, <2>1 DEF ListenInv
<1>11. CASE Connect
  BY <1>1, <1>11 DEF Connect, ListenInv, ListenFrame, ListenPc, BlockPc
<1>12. CASE ReceiveStartupTx \/ ReceiveStartupBlock \/ ReceiveTx
  <2>1. /\ zmq # <<>> /\ lmsg' = Head(zmq) /\ lpc = "recv" /\ mpc' = mpc
        /\ \/ lpc' = "push" \/ lpc' = "recv"
           \/ lpc' = "txJob" /\ ~startup_processing_mempool /\ Head(zmq).topic = "rawtx"
    BY <1>12 DEF ReceiveStartupTx, ReceiveStartupBlock, ReceiveTx, Receive, ListenFrame
  <2>2. Head(zmq) \in Message
    BY <2>1, HeadFacts
  <2>3. lpc' = "txJob" => mpc' = "serving" /\ \E t \in Txid : lmsg'.txs = {t}
    BY <1>1, <2>1, HeadFacts DEF MainInv, ServerInv, ZmqInv, InOrder
  <2>. QED
    BY <2>1, <2>2, <2>3 DEF ListenInv, ListenPc, BlockPc
<1>13. CASE ReceiveBlock
  <2>1. /\ zmq # <<>> /\ lmsg' = Head(zmq) /\ lpc' = "blockJob" /\ mpc' = mpc
        /\ ~startup_processing_mempool /\ Head(zmq).topic = "rawblock" /\ chain' = chain
        /\ current_block_height' = current_block_height + 1
    BY <1>13 DEF ReceiveBlock, Receive, ListenFrame
  <2>2. Head(zmq) \in Message /\ mpc' = "serving"
    BY <1>1, <2>1, HeadFacts DEF MainInv
  <2>3. Head(zmq).height \in DOMAIN chain /\ current_block_height < Head(zmq).height
    BY <2>1, HeadFacts DEF ServerInv, ZmqInv, InOrder
  <2>4. current_block_height \in Int /\ Head(zmq).height \in Int
    BY <1>1, <2>3, BlockFacts DEF MainInv, ServerInv
  <2>. QED
    BY <2>1, <2>2, <2>3, <2>4 DEF ListenInv, ListenPc, BlockPc
<1>14. CASE PushStartupTx
  <2>1. lpc' = "recv" /\ lmsg' = lmsg
    BY <1>14 DEF PushStartupTx, ListenFrame
  <2>. QED
    BY <1>1, <2>1 DEF ListenInv, ListenPc, BlockPc
<1>15. CASE TxDone \/ PublishTx
  <2>1. /\ lpc \in {"txJob", "publish"} /\ lpc' \in {"publish", "recv"}
        /\ lmsg' = lmsg /\ mpc' = mpc
    BY <1>15 DEF TxDone, PublishTx, ListenFrame
  <2>. QED
    BY <1>1, <2>1 DEF ListenInv, ListenPc, BlockPc
<1>16. CASE BlockDone \/ RefreshMempool
  <2>1. /\ lpc \in BlockPc /\ lpc' \in BlockPc /\ lpc' \notin {"txJob", "publish", "off", "connect"}
        /\ lpc' \in ListenPc
        /\ lmsg' = lmsg /\ mpc' = mpc /\ chain' = chain
        /\ current_block_height' = current_block_height
    BY <1>16 DEF BlockDone, RefreshMempool, ListenFrame, BlockPc, ListenPc
  <2>. QED
    BY <1>1, <2>1 DEF ListenInv
<1>17. CASE RefreshMempoolDone
  <2>1. lpc' = "recv" /\ lmsg' = lmsg
    BY <1>17 DEF RefreshMempoolDone
  <2>. QED
    BY <1>1, <2>1 DEF ListenInv, ListenPc, BlockPc
<1>18. CASE RunJob \/ UNCHANGED serverVars
  BY <1>4, <1>18 DEF RunJob, serverVars, nodeVars
<1>19. CASE LoseMessage
  <2>1. UNCHANGED <<mainVars, listenVars, chain>> /\ zmq # <<>>
    BY <1>19 DEF LoseMessage
  <2>. QED
    BY <1>1, <2>1 DEF ListenInv, mainVars, listenVars
<1>20. CASE TornCacheFile \/ PublishThrows \/ GetBlockchainInfoFails \/ RefreshMempoolFails
              \/ Crash
  BY <1>5, <1>20 DEF TornCacheFile, PublishThrows, GetBlockchainInfoFails,
                     RefreshMempoolFails, Crash
<1>. QED
  BY <1>6, <1>7, <1>8, <1>9, <1>10, <1>11, <1>12, <1>13, <1>14, <1>15, <1>16, <1>17, <1>18,
     <1>19, <1>20
  DEF ServerNext, MainStep, ListenStep, Failure

\* The sets of transactions and heights, and the budgets.
LEMMA SetsKeepInv ==
    ASSUME ServerInv, [ServerNext]_serverVars
    PROVE  SetsInv'
<1>1. SetsInv /\ (zmq # <<>> => Head(zmq).txs \in SUBSET Txid) /\ lmsg.txs \in SUBSET Txid
  BY HeadFacts DEF ServerInv, ListenInv, Message
<1>2. CASE UNCHANGED <<mempool, fetched, startup, missed, reread, budgets>>
  BY <1>1, <1>2 DEF SetsInv, budgets
<1>3. ASSUME Die, failures' \in Nat, lost' \in Nat, crashes' \in Nat
      PROVE  SetsInv'
  BY <1>1, <1>3 DEF SetsInv, Die
<1>4. ASSUME NEW t \in Txid, Broadcast(t)
      PROVE  SetsInv'
  BY <1>1, <1>4 DEF SetsInv, Broadcast, mainVars, budgets
<1>5. ASSUME NEW B \in SUBSET Txid, NEW announce \in BOOLEAN, Mine(B, announce)
      PROVE  SetsInv'
  <2>1. /\ mempool' = mempool \ B /\ (missed' = missed \/ missed' = missed \cup B)
        /\ UNCHANGED <<fetched, startup, reread, failures, lost, crashes>>
    BY <1>5 DEF Mine, mainVars, budgets
  <2>. QED
    BY <1>1, <2>1 DEF SetsInv
<1>6. CASE GetRawBlock
  <2>1. current_block_height \in Height
    BY <1>6, LenFacts DEF GetRawBlock, InRpcLoop, Height, ServerInv, MainInv
  <2>2. /\ reread' = reread \/ reread' = reread \cup {current_block_height}
        /\ UNCHANGED <<mempool, fetched, startup, missed, failures, lost, crashes>>
    BY <1>6 DEF GetRawBlock, MainFrame, nodeVars, budgets
  <2>. QED
    BY <1>1, <2>1, <2>2 DEF SetsInv
<1>7. CASE GetMempool
  BY <1>1, <1>7 DEF SetsInv, GetMempool, StartFrame, nodeVars, budgets
<1>8. CASE AppendMempool
  BY <1>1, <1>8 DEF SetsInv, AppendMempool, StartFrame, nodeVars, budgets
<1>9. CASE PushStartupTx
  <2>1. /\ startup' = startup \/ startup' = startup \cup lmsg.txs
        /\ missed' = missed \/ missed' = missed \cup lmsg.txs
        /\ UNCHANGED <<mempool, fetched, reread, failures, lost, crashes>>
    BY <1>9 DEF PushStartupTx, ListenFrame, budgets
  <2>. QED
    BY <1>1, <2>1 DEF SetsInv
<1>10. CASE ReceiveStartupBlock \/ LoseMessage
  <2>1. /\ zmq # <<>> /\ missed' = missed \cup Head(zmq).txs
        /\ UNCHANGED <<mempool, fetched, startup, reread, failures, crashes>>
        /\ lost' = lost \/ lost' = lost + 1
    BY <1>10 DEF ReceiveStartupBlock, LoseMessage, Receive, ListenFrame, budgets, mainVars
  <2>. QED
    BY <1>1, <2>1 DEF SetsInv
<1>11. CASE GetBlockchainInfoFails \/ RefreshMempoolFails
  <2>1. Die /\ failures' = failures + 1 /\ lost' = lost /\ crashes' = crashes
    BY <1>11 DEF GetBlockchainInfoFails, RefreshMempoolFails, RpcFails
  <2>. QED
    BY <1>1, <1>3, <2>1 DEF SetsInv
<1>12. CASE Crash \/ TornCacheFile \/ PublishThrows
  <2>1. /\ Die /\ failures' = failures /\ lost' = lost
        /\ crashes' = crashes \/ crashes' = crashes + 1
    BY <1>12 DEF Crash, TornCacheFile, PublishThrows, budgets
  <2>. QED
    BY <1>1, <1>3, <2>1 DEF SetsInv
<1>13. CASE GetRawBlockFails \/ GetMempoolFails
  <2>1. /\ UNCHANGED <<mempool, fetched, startup, missed, reread, lost, crashes>>
        /\ failures' = failures + 1
    BY <1>13 DEF GetRawBlockFails, GetMempoolFails, RpcFails, MainFrame, StartFrame, nodeVars
  <2>. QED
    BY <1>1, <2>1 DEF SetsInv
<1>14. CASE Start \/ RunJob \/ UNCHANGED serverVars
  BY <1>2, <1>14 DEF Start, RunJob, serverVars, nodeVars, mainVars, history
<1>15. CASE ReadCacheFile \/ CacheBlockDone \/ GetBlockchainInfo \/ OpenCacheFile
              \/ WriteCacheFile \/ RpcLoopEnds
  BY <1>2, <1>15
  DEF ReadCacheFile, CacheBlockDone, GetBlockchainInfo, OpenCacheFile, WriteCacheFile,
      RpcLoopEnds, MainFrame, nodeVars
<1>16. CASE SpawnListener \/ ProcessStartupMempool \/ StartupMempoolDone \/ Serve
  BY <1>2, <1>16
  DEF SpawnListener, ProcessStartupMempool, StartupMempoolDone, Serve, StartFrame, nodeVars
<1>17. CASE Connect \/ ReceiveStartupTx \/ ReceiveTx \/ TxDone \/ PublishTx \/ ReceiveBlock
              \/ BlockDone \/ RefreshMempool \/ RefreshMempoolDone
  BY <1>2, <1>17
  DEF Connect, ReceiveStartupTx, ReceiveTx, TxDone, PublishTx, ReceiveBlock, BlockDone,
      RefreshMempool, RefreshMempoolDone, ListenFrame
<1>. QED
  BY <1>4, <1>5, <1>6, <1>7, <1>8, <1>9, <1>10, <1>11, <1>12, <1>13, <1>14, <1>15, <1>16,
     <1>17
  DEF ServerNext, MainStep, ListenStep, Failure

\* What a step does to the blocks this process has read.
LEMMA ProcessedMoves ==
    ASSUME ServerInv, [ServerNext]_serverVars
    PROVE  \/ processed' = processed
           \/ Die
           \/ ReadCacheFile \/ GetRawBlock
<1>1. CASE Start \/ RunJob \/ UNCHANGED serverVars \/ \E t \in Txid : Broadcast(t)
  BY <1>1 DEF Start, RunJob, serverVars, history, Broadcast
<1>2. CASE MainStep
  BY <1>2 DEF MainStep, StartFrame, TornCacheFile, CacheBlockDone, GetBlockchainInfo,
       OpenCacheFile, WriteCacheFile, RpcLoopEnds, SpawnListener, GetMempool, AppendMempool,
       ProcessStartupMempool, StartupMempoolDone, Serve
<1>3. CASE ListenStep
  BY <1>3 DEF ListenStep, ListenFrame, Connect, ReceiveStartupTx, PushStartupTx,
       ReceiveStartupBlock, ReceiveTx, TxDone, PublishTx, PublishThrows, ReceiveBlock,
       BlockDone, RefreshMempool, RefreshMempoolDone
<1>4. CASE Failure
  BY <1>4 DEF Failure, GetBlockchainInfoFails, GetRawBlockFails, GetMempoolFails,
       RefreshMempoolFails, LoseMessage, Crash, StartFrame
<1>5. CASE \E B \in SUBSET Txid, announce \in BOOLEAN : Mine(B, announce)
  BY <1>5 DEF Mine
<1>. QED
  BY <1>1, <1>2, <1>3, <1>4, <1>5 DEF ServerNext

\* The blocks this process has read.
LEMMA ProcessedKeepsInv ==
    ASSUME ServerInv, [ServerNext]_serverVars
    PROVE  ProcessedInv'
<1>. DEFINE c == current_block_height
            n == Len(chain)
            m == Len(chain')
<1>1. /\ n \in Nat /\ m \in Nat /\ n <= m
      /\ StartHeight \in Nat /\ c \in Int /\ best \in 0..n
  BY LenFacts DEF ServerInv, MainInv
<1>2. /\ processed \subseteq 0..n
      /\ \A h \in processed : StartHeight..h \subseteq processed
  BY DEF ServerInv, ProcessedInv
<1>3. processed \subseteq 0..m
  BY <1>1, <1>2
<1>4. CASE processed' = processed /\ mpc' = mpc /\ c' = c
  BY <1>3, <1>4 DEF ServerInv, ProcessedInv
<1>5. CASE processed' = processed /\ mpc' \in LatePc
  BY <1>2, <1>3, <1>5 DEF ProcessedInv, LatePc
<1>6. CASE Die
  <2>1. processed' = {} /\ mpc' = "exited" /\ c' = StartHeight
    BY <1>6 DEF Die
  <2>2. StartHeight..(StartHeight - 1) = {}
    BY <1>1
  <2>. QED
    BY <2>1, <2>2 DEF ProcessedInv
<1>7. CASE ReadCacheFile
  <2>1. /\ mpc = "cache" /\ c \in 0..(n + 1) /\ chain' = chain
        /\ StartHeight..(c - 1) \subseteq processed /\ \A h \in processed : h < c
    BY <1>7 DEF ReadCacheFile, MainFrame, nodeVars, ServerInv, MainInv, ProcessedInv
  <2>2. CASE mpc' = "info" /\ c' = c - 1 /\ processed' = processed
    <3>1. StartHeight..((c - 1) - 1) \subseteq processed
      BY <1>1, <2>1
    <3>. QED
      BY <1>2, <1>3, <2>2, <3>1 DEF ProcessedInv
  <2>3. CASE mpc' = "cacheJob" /\ c' = c /\ processed' = processed \cup {c} /\ c <= n
    <3>1. processed' \subseteq 0..m
      BY <1>1, <1>3, <2>1, <2>3
    <3>2. \A h \in processed' : StartHeight..h \subseteq processed'
      <4>1. StartHeight..c \subseteq processed'
        BY <1>1, <2>1, <2>3
      <4>. QED
        BY <1>2, <2>3, <4>1
    <3>3. \A h \in processed' : h <= c
      BY <1>1, <1>2, <2>1, <2>3
    <3>. QED
      BY <2>3, <3>1, <3>2, <3>3 DEF ProcessedInv
  <2>. QED
    BY <1>7, <2>2, <2>3, CacheFileFacts DEF ReadCacheFile
<1>8. CASE GetRawBlock
  <2>1. /\ mpc = "rpc" /\ mpc' = "rpcJob" /\ c' = c /\ processed' = processed \cup {c}
        /\ c >= 0 /\ c <= best
        /\ StartHeight..(c - 1) \subseteq processed
    BY <1>8 DEF GetRawBlock, InRpcLoop, ServerInv, ProcessedInv
  <2>2. processed' \subseteq 0..m
    BY <1>1, <1>3, <2>1
  <2>3. \A h \in processed' : StartHeight..h \subseteq processed'
    <3>1. StartHeight..c \subseteq processed'
      BY <1>1, <2>1
    <3>. QED
      BY <1>2, <2>1, <3>1
  <2>. QED
    BY <2>1, <2>2, <2>3 DEF ProcessedInv
<1>9. CASE CacheBlockDone
  <2>1. /\ mpc = "cacheJob" /\ mpc' = "cache" /\ c' = c + 1 /\ processed' = processed
        /\ c \in processed /\ \A h \in processed : h <= c
    BY <1>9 DEF CacheBlockDone, ServerInv, ProcessedInv
  <2>2. StartHeight..((c + 1) - 1) \subseteq processed
    BY <1>1, <1>2, <2>1
  <2>3. \A h \in processed : h < c + 1
    BY <1>1, <1>2, <2>1
  <2>. QED
    BY <1>2, <1>3, <2>1, <2>2, <2>3 DEF ProcessedInv
<1>10. CASE GetBlockchainInfo
  <2>1. /\ mpc = "info" /\ mpc' \in {"spawn", "rpc"} /\ c' = c /\ processed' = processed
    BY <1>10 DEF GetBlockchainInfo
  <2>. QED
    BY <1>2, <1>3, <2>1 DEF ServerInv, ProcessedInv
<1>11. CASE GetRawBlockFails
  <2>1. /\ mpc = "rpc" /\ mpc' = "info" /\ c' = c - 1 /\ processed' = processed
        /\ StartHeight..(c - 1) \subseteq processed
    BY <1>11 DEF GetRawBlockFails, ServerInv, ProcessedInv
  <2>2. StartHeight..((c - 1) - 1) \subseteq processed
    BY <1>1, <2>1
  <2>. QED
    BY <1>2, <1>3, <2>1, <2>2 DEF ProcessedInv
<1>12. CASE OpenCacheFile
  <2>1. /\ mpc = "rpcJob" /\ mpc' = "write" /\ c' = c /\ processed' = processed
    BY <1>12 DEF OpenCacheFile
  <2>. QED
    BY <1>2, <1>3, <2>1 DEF ServerInv, ProcessedInv
<1>13. CASE WriteCacheFile
  <2>1. /\ mpc = "write" /\ mpc' = "rpc" /\ c' = c + 1 /\ processed' = processed
        /\ c \in processed
    BY <1>13 DEF WriteCacheFile, ServerInv, ProcessedInv
  <2>2. StartHeight..((c + 1) - 1) \subseteq processed
    BY <1>1, <1>2, <2>1
  <2>. QED
    BY <1>2, <1>3, <2>1, <2>2 DEF ProcessedInv
<1>14. CASE Start
  <2>1. /\ mpc = "exited" /\ mpc' = "cache" /\ c' = c /\ processed' = processed
    BY <1>14 DEF Start, history
  <2>. QED
    BY <1>2, <1>3, <2>1 DEF ServerInv, ProcessedInv
<1>15. CASE RpcLoopEnds \/ SpawnListener \/ GetMempool \/ AppendMempool
              \/ ProcessStartupMempool \/ StartupMempoolDone \/ Serve \/ GetMempoolFails
  <2>1. processed' = processed /\ mpc' \in LatePc
    BY <1>15
    DEF RpcLoopEnds, SpawnListener, GetMempool, AppendMempool, ProcessStartupMempool,
        StartupMempoolDone, Serve, GetMempoolFails, StartFrame, LatePc
  <2>. QED
    BY <1>5, <2>1
<1>16. CASE RunJob \/ LoseMessage \/ UNCHANGED serverVars
  BY <1>4, <1>16 DEF RunJob, LoseMessage, serverVars, mainVars, history
<1>17. ASSUME NEW t \in Txid, Broadcast(t)
       PROVE  ProcessedInv'
  BY <1>4, <1>17 DEF Broadcast, mainVars
<1>18. ASSUME NEW B \in SUBSET Txid, NEW announce \in BOOLEAN, Mine(B, announce)
       PROVE  ProcessedInv'
  BY <1>4, <1>18 DEF Mine, mainVars
<1>19. CASE ReceiveBlock
  <2>1. mpc' = mpc /\ processed' = processed /\ ~startup_processing_mempool
    BY <1>19 DEF ReceiveBlock, ListenFrame
  <2>2. mpc = "serving"
    BY <2>1 DEF ServerInv, MainInv
  <2>. QED
    BY <1>5, <2>1, <2>2 DEF LatePc
<1>20. CASE Connect \/ ReceiveStartupTx \/ PushStartupTx \/ ReceiveStartupBlock \/ ReceiveTx
              \/ TxDone \/ PublishTx \/ BlockDone \/ RefreshMempool \/ RefreshMempoolDone
  BY <1>4, <1>20
  DEF Connect, ReceiveStartupTx, PushStartupTx, ReceiveStartupBlock, ReceiveTx, TxDone,
      PublishTx, BlockDone, RefreshMempool, RefreshMempoolDone, ListenFrame
<1>21. CASE TornCacheFile \/ PublishThrows \/ GetBlockchainInfoFails \/ RefreshMempoolFails
              \/ Crash
  BY <1>6, <1>21 DEF TornCacheFile, PublishThrows, GetBlockchainInfoFails,
                     RefreshMempoolFails, Crash
<1>. QED
  BY <1>7, <1>8, <1>9, <1>10, <1>11, <1>12, <1>13, <1>14, <1>15, <1>16, <1>17, <1>18, <1>19,
     <1>20, <1>21
  DEF ServerNext, MainStep, ListenStep, Failure

-----------------------------------------------------------------------------
(* The handler call and on whose behalf it runs. *)

\* A step that leaves the call alone and starts nothing that is about one.
LEMMA IdleKeepsJobInv ==
    ASSUME ServerInv, [ServerNext]_serverVars, UNCHANGED <<job, valid>>,
           mpc' \in {"cacheJob", "rpcJob", "write"} =>
               /\ mpc \in {"cacheJob", "rpcJob", "write"}
               /\ current_block_height' = current_block_height,
           lpc' \in {"txJob", "publish"} => lpc' = lpc /\ lmsg' = lmsg
    PROVE  JobInv'
<1>1. \A h : Block(h) \subseteq Block(h)'
  BY ChainMoves
<1>. QED
  BY <1>1 DEF ServerInv, JobInv, JobTxs

\* A step that starts a call, or ends one.
LEMMA FreshJobInv ==
    ASSUME ServerInv, [ServerNext]_serverVars,
           NEW kind \in Kind, NEW txs \in Seq(Txid), NEW trust \in BOOLEAN,
           job' = NewJob(kind, txs, trust), Len(txs) <= Cardinality(Txid),
           mpc' \in {"cacheJob", "rpcJob", "write"} =>
               /\ ToSet(txs) \subseteq Block(current_block_height)
               /\ current_block_height' = current_block_height,
           lpc' = "txJob" => ToSet(txs) \subseteq lmsg'.txs,
           lpc' = "publish" => lmsg'.txs \subseteq valid'
    PROVE  JobInv'
<1>1. \A h : Block(h) \subseteq Block(h)'
  BY ChainMoves
<1>2. /\ JobTxs(job') = ToSet(txs) /\ ToSet(job'.valid_txs_list) = {}
      /\ Len(job'.txs) + Len(job'.valid_txs_list) = Len(txs)
  BY NewJobTxs
<1>. QED
  BY <1>1, <1>2 DEF JobInv

\* NoJob is a fresh call about nothing.
LEMMA NoJobIsFresh ==
    /\ "none" \in Kind /\ <<>> \in Seq(Txid) /\ FALSE \in BOOLEAN
    /\ NoJob = NewJob("none", <<>>, FALSE)
    /\ ToSet(<<>>) = {} /\ Len(<<>>) <= Cardinality(Txid)
<1>1. Cardinality(Txid) \in Nat
  BY ListAssumption, FS_CardinalityType DEF ListAssumption
<1>. QED
  BY <1>1 DEF Kind, NoJob, ToSet

\* main() works on the block at its height, the listener on the transaction of
\* its message, and both accept only what the validator has accepted.
LEMMA JobKeepsInv ==
    ASSUME ServerInv, [ServerNext]_serverVars
    PROVE  JobInv'
<1>1. /\ (mpc \in EarlyPc => lpc = "off")
      /\ lpc \in {"txJob", "publish"} \cup BlockPc => mpc = "serving"
      /\ startup_processing_mempool <=> mpc # "serving"
  BY DEF ServerInv, MainInv, ListenInv
<1>2. CASE Die
  <2>1. job' = NoJob /\ mpc' = "exited" /\ lpc' = "off"
    BY <1>2 DEF Die, Restart
  <2>. QED
    BY <2>1, NoJobIsFresh, FreshJobInv
<1>3. CASE RunJob
  <2>1. JobStep /\ UNCHANGED <<chain, mpc, current_block_height, lpc, lmsg>>
    BY <1>3 DEF RunJob, nodeVars, mainVars, listenVars
  <2>2. /\ JobTxs(job') \subseteq JobTxs(job)
        /\ ToSet(job'.valid_txs_list) \subseteq ToSet(job.valid_txs_list) \cup valid'
        /\ valid \subseteq valid'
    BY <2>1, JobStepFacts DEF ServerInv
  <2>3. Len(job'.txs) + Len(job'.valid_txs_list) <= Cardinality(Txid)
    <3>. DEFINE a == Len(job.txs) + Len(job.valid_txs_list)
                b == Len(job'.txs) + Len(job'.valid_txs_list)
                d == Cardinality(Txid)
    <3>1. b <= a
      BY <2>1, JobStepFacts DEF ServerInv
    <3>2. a <= d
      BY DEF ServerInv, JobInv
    <3>3. d \in Nat
      BY ListAssumption, FS_CardinalityType DEF ListAssumption
    <3>4. SyncInv /\ SyncInv'
      BY <2>1, JobStepFacts DEF ServerInv
    <3>5. a \in Nat
      BY <3>4 DEF SyncInv, SyncTypeOK, Job
    <3>6. b \in Nat
      BY <3>4 DEF SyncInv, SyncTypeOK, Job
    <3>. HIDE DEF a, b, d
    <3>7. b <= d
      BY <3>1, <3>2, <3>3, <3>5, <3>6
    <3>. QED
      BY <3>7 DEF b, d
  <2>4. Block(current_block_height)' = Block(current_block_height)
    BY <2>1 DEF Block
  <2>. QED
    BY <2>1, <2>2, <2>3, <2>4 DEF ServerInv, JobInv
<1>4. CASE ReadCacheFile
  <2>1. CASE UNCHANGED <<job, valid>> /\ mpc' = "info"
    BY <1>1, <1>4, <2>1, IdleKeepsJobInv DEF ReadCacheFile, MainFrame, listenVars, EarlyPc
  <2>2. CASE BeginBlock(cache[current_block_height].txs, TRUE)
             /\ current_block_height' = current_block_height
    <3>. DEFINE txs == cache[current_block_height].txs
    <3>1. /\ txs \in Seq(Txid) /\ Len(txs) <= Cardinality(Txid)
          /\ ToSet(txs) \subseteq Block(current_block_height)
      BY <1>4, CacheFileFacts DEF ReadCacheFile
    <3>2. job' = NewJob("block", txs, TRUE) /\ "block" \in Kind /\ TRUE \in BOOLEAN
      BY <2>2 DEF BeginBlock, Kind
    <3>3. lpc' = "off"
      BY <1>1, <1>4 DEF ReadCacheFile, MainFrame, listenVars, EarlyPc
    <3>. HIDE DEF txs
    <3>. QED
      BY <2>2, <3>1, <3>2, <3>3, FreshJobInv
  <2>. QED
    BY <1>4, <2>1, <2>2 DEF ReadCacheFile, syncVars
<1>5. CASE GetRawBlock
  <2>1. PICK s \in topological_sort(Block(current_block_height)) : BeginBlock(s, FALSE)
    BY <1>5 DEF GetRawBlock
  <2>2. /\ s \in Seq(Txid) /\ Len(s) <= Cardinality(Txid)
        /\ ToSet(s) \subseteq Block(current_block_height)
    BY <2>1, SortFacts, BlockFacts DEF ServerInv
  <2>3. job' = NewJob("block", s, FALSE) /\ "block" \in Kind /\ FALSE \in BOOLEAN
    BY <2>1 DEF BeginBlock, Kind
  <2>4. lpc' = "off" /\ current_block_height' = current_block_height
    BY <1>1, <1>5 DEF GetRawBlock, MainFrame, listenVars, EarlyPc
  <2>. QED
    BY <2>2, <2>3, <2>4, FreshJobInv
<1>6. CASE ProcessStartupMempool
  <2>1. PICK s \in topological_sort(startup) : BeginMempool(s)
    BY <1>6 DEF ProcessStartupMempool
  <2>2. s \in Seq(Txid) /\ Len(s) <= Cardinality(Txid)
    BY <2>1, SortFacts DEF ServerInv, SetsInv
  <2>3. job' = NewJob("mempool", s, FALSE) /\ "mempool" \in Kind /\ FALSE \in BOOLEAN
    BY <2>1 DEF BeginMempool, Kind
  <2>4. lpc' \notin {"txJob", "publish"} /\ mpc' = "mempoolJob"
    BY <1>1, <1>6 DEF ProcessStartupMempool, listenVars
  <2>. QED
    BY <2>2, <2>3, <2>4, FreshJobInv
<1>7. CASE RefreshMempool
  <2>1. PICK s \in topological_sort(mempool) : BeginMempool(s)
    BY <1>7 DEF RefreshMempool
  <2>2. s \in Seq(Txid) /\ Len(s) <= Cardinality(Txid)
    BY <2>1, SortFacts DEF ServerInv, SetsInv
  <2>3. job' = NewJob("mempool", s, FALSE) /\ "mempool" \in Kind /\ FALSE \in BOOLEAN
    BY <2>1 DEF BeginMempool, Kind
  <2>4. lpc' = "mempoolJob" /\ mpc' = "serving"
    BY <1>1, <1>7 DEF RefreshMempool, ListenFrame, BlockPc
  <2>. QED
    BY <2>2, <2>3, <2>4, FreshJobInv
<1>8. CASE ReceiveTx
  <2>1. PICK t \in Head(zmq).txs : BeginTx(t)
    BY <1>8 DEF ReceiveTx
  <2>2. lpc' = "txJob" /\ mpc' = "serving" /\ lmsg' = Head(zmq) /\ zmq # <<>>
    BY <1>1, <1>8 DEF ReceiveTx, Receive, ListenFrame
  <2>3. t \in Txid
    BY <2>1, <2>2, HeadFacts
  <2>4. <<t>> \in Seq(Txid) /\ ToSet(<<t>>) \subseteq lmsg'.txs
    BY <2>1, <2>2, <2>3 DEF ToSet
  <2>5. Len(<<t>>) <= Cardinality(Txid)
    <3>1. Cardinality(Txid) # 0 /\ Cardinality(Txid) \in Nat
      BY <2>3, ListAssumption, FS_CardinalityType, FS_EmptySet DEF ListAssumption
    <3>. QED
      BY <3>1
  <2>6. job' = NewJob("tx", <<t>>, FALSE) /\ "tx" \in Kind /\ FALSE \in BOOLEAN
    BY <2>1 DEF BeginTx, Kind
  <2>. QED
    BY <2>2, <2>4, <2>5, <2>6, FreshJobInv
<1>9. CASE ReceiveBlock
  <2>1. PICK s \in topological_sort(Head(zmq).txs) : BeginBlock(s, FALSE)
    BY <1>9 DEF ReceiveBlock
  <2>2. lpc' = "blockJob" /\ mpc' = "serving" /\ zmq # <<>>
    BY <1>1, <1>9 DEF ReceiveBlock, Receive, ListenFrame
  <2>3. s \in Seq(Txid) /\ Len(s) <= Cardinality(Txid)
    BY <2>1, <2>2, HeadFacts, SortFacts
  <2>4. job' = NewJob("block", s, FALSE) /\ "block" \in Kind /\ FALSE \in BOOLEAN
    BY <2>1 DEF BeginBlock, Kind
  <2>. QED
    BY <2>2, <2>3, <2>4, FreshJobInv
<1>10. CASE TxDone
  <2>1. /\ job' = NoJob /\ valid' = valid /\ lmsg' = lmsg /\ mpc' = "serving" /\ lpc = "txJob"
        /\ lpc' = "publish" => job.valid_txs_list # <<>>
        /\ lpc' # "txJob"
    BY <1>1, <1>10 DEF TxDone, EndJob, ListenFrame, validatorVars
  <2>2. /\ ToSet(job.valid_txs_list) \subseteq valid \cap lmsg.txs
        /\ \E t \in Txid : lmsg.txs = {t}
        /\ job.valid_txs_list \in Seq(Txid)
    BY <2>1 DEF ServerInv, JobInv, JobTxs, ListenInv, SyncInv, SyncTypeOK, Job
  <2>3. job.valid_txs_list # <<>> => ToSet(job.valid_txs_list) # {}
    BY <2>2, ToSetFacts
  <2>4. lpc' = "publish" => lmsg'.txs \subseteq valid'
    BY <2>1, <2>2, <2>3
  <2>. QED
    BY <2>1, <2>4, NoJobIsFresh, FreshJobInv
<1>11. CASE CacheBlockDone \/ WriteCacheFile \/ StartupMempoolDone \/ BlockDone
              \/ RefreshMempoolDone
  <2>1. /\ job' = NoJob
        /\ mpc' \notin {"cacheJob", "rpcJob", "write"}
        /\ lpc' \notin {"txJob", "publish"}
    BY <1>1, <1>11
    DEF CacheBlockDone, WriteCacheFile, StartupMempoolDone, BlockDone, RefreshMempoolDone,
        EndJob, MainFrame, StartFrame, ListenFrame, listenVars, EarlyPc, BlockPc
  <2>. QED
    BY <2>1, NoJobIsFresh, FreshJobInv
<1>12. CASE \/ GetBlockchainInfo \/ OpenCacheFile \/ RpcLoopEnds \/ GetRawBlockFails \/ Start
            \/ SpawnListener \/ GetMempool \/ AppendMempool \/ Serve \/ GetMempoolFails
  BY <1>1, <1>12, IdleKeepsJobInv
  DEF GetBlockchainInfo, OpenCacheFile, RpcLoopEnds, GetRawBlockFails, Start, SpawnListener,
      GetMempool, AppendMempool, Serve, GetMempoolFails, MainFrame, StartFrame, listenVars,
      syncVars
<1>13. CASE Connect \/ ReceiveStartupTx \/ PushStartupTx \/ ReceiveStartupBlock \/ PublishTx
  BY <1>13, IdleKeepsJobInv
  DEF Connect, ReceiveStartupTx, PushStartupTx, ReceiveStartupBlock, PublishTx, Receive,
      ListenFrame, syncVars
<1>14. CASE LoseMessage \/ UNCHANGED serverVars
  BY <1>14, IdleKeepsJobInv DEF LoseMessage, serverVars, mainVars, listenVars, syncVars
<1>15. ASSUME NEW t \in Txid, Broadcast(t)
       PROVE  JobInv'
  BY <1>15, IdleKeepsJobInv DEF Broadcast, mainVars, listenVars, syncVars
<1>16. ASSUME NEW B \in SUBSET Txid, NEW announce \in BOOLEAN, Mine(B, announce)
       PROVE  JobInv'
  BY <1>16, IdleKeepsJobInv DEF Mine, mainVars, listenVars, syncVars
<1>17. CASE TornCacheFile \/ PublishThrows \/ GetBlockchainInfoFails \/ RefreshMempoolFails
              \/ Crash
  BY <1>2, <1>17 DEF TornCacheFile, PublishThrows, GetBlockchainInfoFails,
                     RefreshMempoolFails, Crash
<1>. QED
  BY <1>3, <1>4, <1>5, <1>6, <1>7, <1>8, <1>9, <1>10, <1>11, <1>12, <1>13, <1>14, <1>15,
     <1>16, <1>17
  DEF ServerNext, MainStep, ListenStep, Failure

-----------------------------------------------------------------------------
(* The confirmed graph follows the chain. *)

\* A parent is in no later block than its child.
LEMMA ParentsComeFirst ==
    ASSUME ChainInv, NEW i \in DOMAIN chain, NEW h \in DOMAIN chain,
           NEW t \in chain[i], NEW p \in chain[h], p \in Parents(t)
    PROVE  h <= i
<1>1. PICK j \in DOMAIN chain : j <= i /\ p \in chain[j]
  BY DEF ChainInv
<1>2. j = h
  BY <1>1 DEF ChainInv
<1>. QED
  BY <1>1, <1>2

\* The steps that hand a block to process_block, with what they change.
MainBegins ==
    /\ ReadCacheFile \/ GetRawBlock
    /\ g' = g /\ job'.kind = "block" /\ job'.valid_txs = {}
    /\ ToSet(job'.txs) \subseteq Block(current_block_height)
    /\ JobTxs(job') = ToSet(job'.txs)
    /\ processed' = processed \cup {current_block_height}
    /\ chain' = chain /\ zmq' = <<>> /\ lpc = "off" /\ mpc \in {"cache", "rpc"}
ListenerBegins ==
    /\ ReceiveBlock
    /\ g' = g /\ job'.kind = "block" /\ job'.valid_txs = {}
    /\ ToSet(job'.txs) \subseteq Head(zmq).txs
    /\ JobTxs(job') = ToSet(job'.txs)
    /\ chain' = chain /\ zmq # <<>> /\ zmq' = Tail(zmq) /\ mpc' = "serving"
    /\ Head(zmq).topic = "rawblock"

\* Steps that leave the confirmed graph alone and give it nothing to wait for.
GraphRests ==
    \/ UNCHANGED <<g, job>>
    \/ (g' = g \/ g'.nodes = {}) /\ job'.kind # "block"

\* What a step can mean for the confirmed graph.
LEMMA GraphMoves ==
    ASSUME ServerInv, [ServerNext]_serverVars
    PROVE  GraphRests \/ RunJob \/ MainBegins \/ ListenerBegins
<1>1. ASSUME NEW txs \in Seq(Txid), NEW trust \in BOOLEAN, BeginBlock(txs, trust)
      PROVE  /\ g' = g /\ job'.kind = "block" /\ job'.valid_txs = {} /\ job'.txs = txs
             /\ JobTxs(job') = ToSet(txs)
  <2>1. job' = NewJob("block", txs, trust) /\ "block" \in Kind /\ g' = g
    BY <1>1 DEF BeginBlock, Kind
  <2>. QED
    BY <2>1, NewJobTxs
<1>2. /\ (mpc \in EarlyPc => lpc = "off") /\ (lpc = "off" => zmq = <<>>)
      /\ startup_processing_mempool <=> mpc # "serving"
  BY DEF ServerInv, MainInv, ListenInv
<1>3. ASSUME UNCHANGED <<g, job>> PROVE GraphRests
  BY <1>3 DEF GraphRests
<1>4. ASSUME NEW kind \in Kind \ {"block"}, NEW txs \in Seq(Txid), NEW trust \in BOOLEAN,
             g' = g, job' = NewJob(kind, txs, trust)
      PROVE  GraphRests
  BY <1>4, NewJobTxs DEF GraphRests
<1>5. ASSUME EndJob PROVE GraphRests
  <2>1. "none" \in Kind \ {"block"}
    BY DEF Kind
  <2>. QED
    BY <1>4, <1>5, <2>1, NoJobIsFresh DEF EndJob
<1>6. ASSUME Restart PROVE GraphRests
  <2>1. g'.nodes = {} /\ job' = NoJob
    BY <1>6, EmptyGraphFacts DEF Restart
  <2>. QED
    BY <2>1, NoJobIsFresh, NewJobTxs DEF GraphRests
<1>7. ASSUME NEW txs \in Seq(Txid), BeginMempool(txs)
      PROVE  GraphRests
  <2>1. "mempool" \in Kind \ {"block"} /\ FALSE \in BOOLEAN
    BY DEF Kind
  <2>2. g' = g /\ job' = NewJob("mempool", txs, FALSE)
    BY <1>7 DEF BeginMempool
  <2>. QED
    BY <1>4, <2>1, <2>2
<1>8. ASSUME NEW t \in Txid, BeginTx(t)
      PROVE  GraphRests
  <2>1. "tx" \in Kind \ {"block"} /\ FALSE \in BOOLEAN /\ <<t>> \in Seq(Txid)
    BY DEF Kind
  <2>2. g' = g /\ job' = NewJob("tx", <<t>>, FALSE)
    BY <1>8 DEF BeginTx
  <2>. QED
    BY <1>4, <2>1, <2>2
<1>9. CASE ReadCacheFile
  <2>1. CASE UNCHANGED syncVars
    BY <1>3, <2>1 DEF syncVars
  <2>2. CASE /\ BeginBlock(cache[current_block_height].txs, TRUE)
             /\ processed' = processed \cup {current_block_height}
    <3>. DEFINE txs == cache[current_block_height].txs
    <3>1. /\ txs \in Seq(Txid) /\ ToSet(txs) \subseteq Block(current_block_height)
          /\ TRUE \in BOOLEAN
      BY <1>9, CacheFileFacts DEF ReadCacheFile
    <3>2. chain' = chain /\ zmq' = <<>> /\ lpc = "off" /\ mpc = "cache"
      BY <1>2, <1>9 DEF ReadCacheFile, MainFrame, nodeVars, EarlyPc
    <3>3. BeginBlock(txs, TRUE)
      BY <2>2
    <3>. HIDE DEF txs
    <3>4. MainBegins
      BY <1>1, <1>9, <2>2, <3>1, <3>2, <3>3 DEF MainBegins
    <3>. QED
      BY <3>4
  <2>. QED
    BY <1>9, <2>1, <2>2 DEF ReadCacheFile
<1>10. CASE GetRawBlock
  <2>1. PICK s \in topological_sort(Block(current_block_height)) : BeginBlock(s, FALSE)
    BY <1>10 DEF GetRawBlock
  <2>2. s \in Seq(Txid) /\ ToSet(s) \subseteq Block(current_block_height) /\ FALSE \in BOOLEAN
    BY <2>1, SortFacts, BlockFacts DEF ServerInv
  <2>3. /\ chain' = chain /\ zmq' = <<>> /\ lpc = "off" /\ mpc = "rpc"
        /\ processed' = processed \cup {current_block_height}
    BY <1>2, <1>10 DEF GetRawBlock, MainFrame, nodeVars, EarlyPc
  <2>4. MainBegins
    BY <1>1, <1>10, <2>1, <2>2, <2>3 DEF MainBegins
  <2>. QED
    BY <2>4
<1>11. CASE ReceiveBlock
  <2>1. PICK s \in topological_sort(Head(zmq).txs) : BeginBlock(s, FALSE)
    BY <1>11 DEF ReceiveBlock
  <2>2. /\ chain' = chain /\ zmq # <<>> /\ zmq' = Tail(zmq) /\ mpc' = "serving"
        /\ Head(zmq).topic = "rawblock"
    BY <1>2, <1>11 DEF ReceiveBlock, Receive, ListenFrame
  <2>3. s \in Seq(Txid) /\ ToSet(s) \subseteq Head(zmq).txs /\ FALSE \in BOOLEAN
    BY <2>1, <2>2, HeadFacts, SortFacts
  <2>4. ListenerBegins
    BY <1>1, <1>11, <2>1, <2>2, <2>3 DEF ListenerBegins
  <2>. QED
    BY <2>4
<1>12. CASE ProcessStartupMempool
  BY <1>7, <1>12, SortFacts DEF ProcessStartupMempool, ServerInv, SetsInv
<1>13. CASE RefreshMempool
  BY <1>7, <1>13, SortFacts DEF RefreshMempool, ServerInv, SetsInv
<1>14. CASE ReceiveTx
  BY <1>8, <1>14, HeadFacts DEF ReceiveTx, Receive
<1>15. CASE CacheBlockDone \/ WriteCacheFile \/ StartupMempoolDone \/ TxDone \/ BlockDone
             \/ RefreshMempoolDone
  BY <1>5, <1>15 DEF CacheBlockDone, WriteCacheFile, StartupMempoolDone, TxDone, BlockDone,
                     RefreshMempoolDone
<1>16. CASE TornCacheFile \/ PublishThrows \/ GetBlockchainInfoFails \/ RefreshMempoolFails
              \/ Crash
  BY <1>6, <1>16 DEF TornCacheFile, PublishThrows, GetBlockchainInfoFails,
                     RefreshMempoolFails, Crash, Die
<1>17. CASE \/ GetBlockchainInfo \/ OpenCacheFile \/ RpcLoopEnds \/ SpawnListener \/ GetMempool
            \/ AppendMempool \/ Serve
  BY <1>3, <1>17 DEF GetBlockchainInfo, OpenCacheFile, RpcLoopEnds, SpawnListener, GetMempool,
                     AppendMempool, Serve, syncVars
<1>18. CASE \/ Connect \/ ReceiveStartupTx \/ PushStartupTx \/ ReceiveStartupBlock \/ PublishTx
            \/ GetRawBlockFails \/ GetMempoolFails \/ LoseMessage \/ Start
  BY <1>3, <1>18 DEF Connect, ReceiveStartupTx, PushStartupTx, ReceiveStartupBlock, PublishTx,
                     GetRawBlockFails, GetMempoolFails, LoseMessage, Start, syncVars
<1>19. CASE \/ UNCHANGED serverVars
            \/ \E t \in Txid : Broadcast(t)
            \/ \E B \in SUBSET Txid, announce \in BOOLEAN : Mine(B, announce)
  BY <1>3, <1>19 DEF serverVars, Broadcast, Mine, syncVars
<1>. QED
  BY <1>9, <1>10, <1>11, <1>12, <1>13, <1>14, <1>15, <1>16, <1>17, <1>18, <1>19
  DEF ServerNext, MainStep, ListenStep, Failure

\* Only the steps that hand over a block add to what is in the confirmed graph or
\* on its way there.
LEMMA BlockBegins ==
    ASSUME ServerInv, [ServerNext]_serverVars
    PROVE  Reached' \subseteq Reached \/ MainBegins \/ ListenerBegins
<1>1. ASSUME GraphRests PROVE Reached' \subseteq Reached
  BY <1>1 DEF GraphRests, Reached
<1>2. ASSUME RunJob PROVE Reached' \subseteq Reached
  <2>1. /\ job'.kind = job.kind /\ JobTxs(job') \subseteq JobTxs(job)
        /\ g'.nodes \subseteq g.nodes \cup (IF job.kind = "block" THEN job.valid_txs ELSE {})
        /\ job.valid_txs \subseteq JobTxs(job)
    BY <1>2, JobStepFacts DEF RunJob, ServerInv, JobTxs
  <2>. QED
    BY <2>1 DEF Reached
<1>. QED
  BY <1>1, <1>2, GraphMoves

\* The confirmed graph stays within the blocks that were read, and short of those
\* still to come.
LEMMA ReachKeepsInv ==
    ASSUME ServerInv, [ServerNext]_serverVars
    PROVE  ReachInv'
<1>1. /\ \A t \in Reached : \E h \in DOMAIN chain : t \in chain[h]
      /\ mpc \in EarlyPc => \A t \in Reached : \E h \in processed : t \in Block(h)
      /\ \A i \in DOMAIN zmq : zmq[i].topic = "rawblock" =>
             \A t \in Reached : \E h \in DOMAIN chain : h < zmq[i].height /\ t \in chain[h]
  BY DEF ServerInv, ReachInv
<1>2. /\ \A h \in DOMAIN chain : h \in DOMAIN chain' /\ chain'[h] = chain[h]
      /\ \A h : Block(h) \subseteq Block(h)'
  BY ChainMoves
<1>3. DOMAIN chain = 1..Len(chain) /\ Len(chain) \in Nat
  BY BlockFacts DEF ServerInv
<1>4. CASE Reached' \subseteq Reached /\ ~MainBegins /\ ~ListenerBegins
  <2>1. \A t \in Reached' : \E h \in DOMAIN chain' : t \in chain'[h]
    BY <1>1, <1>2, <1>4
  <2>2. mpc' \in EarlyPc => \A t \in Reached' : \E h \in processed' : t \in Block(h)'
    <3>1. CASE Die
      <4>1. Reached' = {}
        <5>1. g'.nodes = {} /\ job' = NoJob
          BY <3>1, EmptyGraphFacts DEF Die, Restart
        <5>2. job'.kind # "block"
          BY <5>1, NoJobIsFresh, NewJobTxs
        <5>. QED
          BY <5>1, <5>2 DEF Reached
      <4>. QED
        BY <4>1
    <3>2. CASE ~Die
      <4>1. mpc' \in EarlyPc => mpc \in EarlyPc
        <5>1. CASE MainStep
          BY <3>2, <5>1 DEF MainStep, ReadCacheFile, TornCacheFile, CacheBlockDone,
               GetBlockchainInfo, GetRawBlock, OpenCacheFile, WriteCacheFile, RpcLoopEnds,
               SpawnListener, GetMempool, AppendMempool, ProcessStartupMempool,
               StartupMempoolDone, Serve, EarlyPc
        <5>2. CASE ListenStep
          BY <3>2, <5>2 DEF ListenStep, ListenFrame, Connect, ReceiveStartupTx, PushStartupTx,
               ReceiveStartupBlock, ReceiveTx, TxDone, PublishTx, PublishThrows, ReceiveBlock,
               BlockDone, RefreshMempool, RefreshMempoolDone
        <5>3. CASE Failure
          <6>1. GetRawBlockFails => mpc \in EarlyPc
            BY DEF GetRawBlockFails, EarlyPc
          <6>2. GetMempoolFails \/ LoseMessage => mpc' = mpc
            BY DEF GetMempoolFails, LoseMessage, mainVars
          <6>3. ~GetBlockchainInfoFails /\ ~RefreshMempoolFails /\ ~Crash
            BY <3>2 DEF GetBlockchainInfoFails, RefreshMempoolFails, Crash
          <6>. QED
            BY <5>3, <6>1, <6>2, <6>3 DEF Failure
        <5>4. CASE Start \/ RunJob \/ UNCHANGED serverVars
          BY <5>4 DEF Start, RunJob, serverVars, mainVars, EarlyPc
        <5>5. ASSUME NEW t \in Txid, Broadcast(t) PROVE mpc' = mpc
          BY <5>5 DEF Broadcast, mainVars
        <5>6. ASSUME NEW B \in SUBSET Txid, NEW announce \in BOOLEAN, Mine(B, announce)
              PROVE  mpc' = mpc
          BY <5>6 DEF Mine, mainVars
        <5>. QED
          BY <5>1, <5>2, <5>3, <5>4, <5>5, <5>6 DEF ServerNext
      <4>2. processed \subseteq processed'
        BY <3>2, ProcessedMoves DEF ReadCacheFile, GetRawBlock
      <4>. QED
        BY <1>1, <1>2, <1>4, <4>1, <4>2
    <3>. QED
      BY <3>1, <3>2
  <2>3. ASSUME NEW i \in DOMAIN zmq', zmq'[i].topic = "rawblock", NEW t \in Reached'
        PROVE  \E h \in DOMAIN chain' : h < zmq'[i].height /\ t \in chain'[h]
    <3>1. CASE \E j \in DOMAIN zmq : zmq'[i] = zmq[j]
      <4>1. PICK j \in DOMAIN zmq : zmq'[i] = zmq[j]
        BY <3>1
      <4>2. PICK h \in DOMAIN chain : h < zmq[j].height /\ t \in chain[h]
        BY <1>1, <1>4, <2>3, <4>1
      <4>. QED
        BY <1>2, <4>1, <4>2
    <3>2. CASE zmq'[i].height = Len(chain) + 1
      <4>1. PICK h \in DOMAIN chain : t \in chain[h]
        BY <1>1, <1>4, <2>3
      <4>2. h < Len(chain) + 1
        BY <1>3
      <4>. QED
        BY <1>2, <3>2, <4>1, <4>2
    <3>. QED
      BY <2>3, <3>1, <3>2, QueueMoves
  <2>. QED
    BY <2>1, <2>2, <2>3 DEF ReachInv
<1>5. CASE MainBegins
  <2>1. /\ \A t \in Reached' : t \in Reached \/ t \in Block(current_block_height)
        /\ processed' = processed \cup {current_block_height}
        /\ chain' = chain /\ zmq' = <<>> /\ mpc \in EarlyPc
    BY <1>5 DEF MainBegins, Reached, EarlyPc
  <2>2. \A t \in Block(current_block_height) :
            current_block_height \in DOMAIN chain /\ t \in chain[current_block_height]
    BY DEF Block
  <2>3. \A t \in Reached' : \E h \in DOMAIN chain' : t \in chain'[h]
    BY <1>1, <2>1, <2>2
  <2>4. \A t \in Reached' : \E h \in processed' : t \in Block(h)'
    BY <1>1, <1>2, <2>1
  <2>5. DOMAIN zmq' = {}
    BY <2>1
  <2>. QED
    BY <2>3, <2>4, <2>5 DEF ReachInv
<1>6. CASE ListenerBegins
  <2>. DEFINE b == Head(zmq).height
  <2>1. /\ \A t \in Reached' : t \in Reached \/ t \in Head(zmq).txs
        /\ chain' = chain /\ zmq # <<>> /\ zmq' = Tail(zmq) /\ mpc' = "serving"
        /\ Head(zmq).topic = "rawblock"
    BY <1>6 DEF ListenerBegins, Reached
  <2>2. b \in DOMAIN chain /\ Head(zmq).txs = chain[b]
    BY <2>1, HeadFacts DEF ServerInv, ZmqInv, InOrder
  <2>3. \A t \in Reached' : \E h \in DOMAIN chain' : t \in chain'[h]
    BY <1>1, <2>1, <2>2
  <2>4. ASSUME NEW i \in DOMAIN zmq', zmq'[i].topic = "rawblock", NEW t \in Reached'
        PROVE  \E h \in DOMAIN chain' : h < zmq'[i].height /\ t \in chain'[h]
    <3>1. /\ 1 \in DOMAIN zmq /\ Head(zmq) = zmq[1] /\ i + 1 \in DOMAIN zmq /\ 1 < i + 1
          /\ zmq'[i] = zmq[i + 1]
      BY <2>1, <2>4, HeadFacts
    <3>2. b < zmq'[i].height
      BY <2>1, <2>4, <3>1 DEF ServerInv, ZmqInv, InOrder
    <3>3. CASE t \in Reached
      BY <1>1, <2>1, <2>4, <3>1, <3>3
    <3>4. CASE t \in Head(zmq).txs
      BY <2>1, <2>2, <3>2, <3>4
    <3>. QED
      BY <2>1, <2>4, <3>3, <3>4
  <2>5. mpc' \notin EarlyPc
    BY <2>1 DEF EarlyPc
  <2>. QED
    BY <2>3, <2>4, <2>5 DEF ReachInv
<1>. QED
  BY <1>4, <1>5, <1>6, BlockBegins

\* insert_token_data links a new node to all the parents of its token that the
\* graph has afterwards.
LEMMA NewNodesAreLinked ==
    ASSUME NEW G \in Graph, NEW k \in Txid, NEW txs \in SUBSET Txid, txs \cap G.nodes = {},
           \A x \in txs : InTokenGraph(k, x),
           NEW t \in txs, NEW p \in G.nodes \cup txs, p \in Parents(t),
           Tx[p].tokenid = Tx[t].tokenid
    PROVE  <<t, p>> \in insert_token_data(G, k, txs).edges
<1>. DEFINE A == add_nodes(G, txs)
            New == {e \in Latest(G, txs) \X A.nodes :
                        e[2] \in Parents(e[1]) /\ InTokenGraph(k, e[2])}
            H == insert_token_data(G, k, txs)
<1>1. /\ G.nodes \in SUBSET Txid /\ G = [nodes |-> G.nodes, edges |-> G.edges]
  BY DEF Graph
<1>2. A = [nodes |-> G.nodes \cup txs, edges |-> G.edges]
  BY <1>1 DEF add_nodes
<1>3. A.nodes = G.nodes \cup txs
  BY <1>2
<1>4. H.edges = A.edges \cup New
  <2>1. H = [A EXCEPT !.edges = @ \cup New]
    BY DEF insert_token_data, add_inputs
  <2>. HIDE DEF New
  <2>. QED
    BY <1>2, <2>1
<1>5. t \in Latest(G, txs) /\ InTokenGraph(k, p)
  BY DEF Latest, InTokenGraph
<1>6. <<t, p>> \in New
  BY <1>3, <1>5
<1>. QED
  BY <1>4, <1>6

\* A step of a handler leaves no link out.
LEMMA JobStepKeepsEdges ==
    ASSUME SyncInv, EdgeInv, JobStep, UNCHANGED <<chain, reread>>
    PROVE  EdgeInv'
<1>1. RereadTxs' = RereadTxs
  BY DEF RereadTxs, Block
<1>2. CASE JudgeTx
  <2>1. /\ g' = g /\ job'.kind = job.kind
        /\ ToSet(job'.txs) \cup job'.valid_txs \subseteq ToSet(job.txs) \cup job.valid_txs
    BY <1>2, JobStepFacts DEF JudgeTx
  <2>. QED
    BY <1>1, <2>1 DEF EdgeInv, Linked, Awaited
<1>3. ASSUME NEW k \in Txid, InsertToken(k)
      PROVE  EdgeInv'
  <2>. DEFINE txs == {t \in job.valid_txs : InTokenGraph(k, t)}
  <2>1. /\ job \in Job /\ job.valid_txs \in SUBSET Txid /\ g \in Graph /\ EdgesOf(g)
        /\ job.valid_txs \cap g.nodes = {} /\ g.nodes \in SUBSET Txid
    BY DEF SyncInv, SyncTypeOK, Job, EdgesStayInside, GraphsDisjoint, Graph
  <2>2. /\ txs \in SUBSET Txid /\ txs \cap g.nodes = {} /\ txs \subseteq job.valid_txs
        /\ \A t \in txs : InTokenGraph(k, t)
        /\ \A t \in job.valid_txs \ txs : Tx[t].tokenid # k
        /\ \A t \in txs : Tx[t].tokenid = k
    BY <2>1 DEF InTokenGraph
  <2>3. /\ job' = [job EXCEPT !.valid_txs = @ \ txs] /\ job.txs = <<>>
        /\ job.kind # "block" => g' = g
        /\ job.kind = "block" => g' = insert_token_data(g, k, txs)
    BY <1>3 DEF InsertToken
  <2>. HIDE DEF txs
  <2>4. job'.kind = job.kind /\ job'.valid_txs = job.valid_txs \ txs /\ job'.txs = <<>>
    BY <2>1, <2>3 DEF Job
  <2>5. CASE job.kind # "block"
    BY <1>1, <2>3, <2>4, <2>5 DEF EdgeInv, Linked
  <2>6. CASE job.kind = "block"
    <3>1. g'.nodes = g.nodes \cup txs /\ g.edges \subseteq g'.edges
      BY <2>1, <2>2, <2>3, <2>6, InsertTokenData
    <3>2. ASSUME NEW t \in g'.nodes, NEW p \in g'.nodes, p \in Parents(t),
                 Tx[p].tokenid = Tx[t].tokenid
          PROVE  <<t, p>> \in g'.edges \/ p \in RereadTxs
      <4>1. CASE t \in txs
        BY <2>1, <2>2, <2>3, <2>6, <3>1, <3>2, <4>1, NewNodesAreLinked
      <4>2. CASE t \in g.nodes /\ p \in g.nodes
        BY <3>1, <3>2, <4>2 DEF EdgeInv, Linked
      <4>3. CASE t \in g.nodes /\ p \in txs
        BY <2>2, <2>6, <3>2, <4>3 DEF EdgeInv, Awaited
      <4>. QED
        BY <3>1, <3>2, <4>1, <4>2, <4>3
    <3>3. ToSet(<<>>) = {}
      BY DEF ToSet
    <3>4. ASSUME NEW t \in g'.nodes, NEW p \in job'.valid_txs, p \in Parents(t),
                 Tx[p].tokenid = Tx[t].tokenid
          PROVE  p \in RereadTxs
      <4>1. CASE t \in txs
        BY <2>2, <2>4, <3>4, <4>1
      <4>2. CASE t \in g.nodes
        BY <2>4, <2>6, <3>4, <4>2 DEF EdgeInv, Awaited
      <4>. QED
        BY <3>1, <3>4, <4>1, <4>2
    <3>. QED
      BY <1>1, <2>4, <3>2, <3>3, <3>4 DEF EdgeInv, Linked, Awaited
  <2>. QED
    BY <2>5, <2>6
<1>. QED
  BY <1>2, <1>3 DEF JobStep

\* What was read again stays so.
LEMMA RereadGrows ==
    ASSUME ServerInv, [ServerNext]_serverVars
    PROVE  \A t : t \in RereadTxs => t \in RereadTxs'
<1>1. reread \subseteq reread'
  <2>1. CASE MainStep
    BY <2>1 DEF MainStep, ReadCacheFile, TornCacheFile, CacheBlockDone, GetBlockchainInfo,
         GetRawBlock, OpenCacheFile, WriteCacheFile, RpcLoopEnds, SpawnListener, GetMempool,
         AppendMempool, ProcessStartupMempool, StartupMempoolDone, Serve, StartFrame, Die
  <2>2. CASE ListenStep
    BY <2>2 DEF ListenStep, ListenFrame, Connect, ReceiveStartupTx, PushStartupTx,
         ReceiveStartupBlock, ReceiveTx, TxDone, PublishTx, PublishThrows, ReceiveBlock,
         BlockDone, RefreshMempool, RefreshMempoolDone, Die
  <2>3. CASE Failure
    BY <2>3 DEF Failure, GetBlockchainInfoFails, GetRawBlockFails, GetMempoolFails,
         RefreshMempoolFails, LoseMessage, Crash, StartFrame, Die
  <2>4. CASE Start \/ RunJob \/ UNCHANGED serverVars
    BY <2>4 DEF Start, RunJob, serverVars, history
  <2>5. ASSUME NEW t \in Txid, Broadcast(t) PROVE reread' = reread
    BY <2>5 DEF Broadcast
  <2>6. ASSUME NEW B \in SUBSET Txid, NEW announce \in BOOLEAN, Mine(B, announce)
        PROVE  reread' = reread
    BY <2>6 DEF Mine
  <2>. QED
    BY <2>1, <2>2, <2>3, <2>4, <2>5, <2>6 DEF ServerNext
<1>2. \A h : Block(h) \subseteq Block(h)'
  BY ChainMoves
<1>. QED
  BY <1>1, <1>2 DEF RereadTxs

\* The confirmed graph lacks no edge: a block is handed over before the blocks
\* above it, unless it is read a second time.
LEMMA EdgesKeepInv ==
    ASSUME ServerInv, [ServerNext]_serverVars
    PROVE  EdgeInv'
<1>1. ASSUME g' = g
      PROVE  \A t, p \in g'.nodes : Linked(t, p)'
  BY <1>1, RereadGrows DEF ServerInv, EdgeInv, Linked
<1>2. CASE GraphRests
  <2>1. CASE UNCHANGED <<g, job>>
    BY <1>1, <2>1, RereadGrows DEF ServerInv, EdgeInv, Awaited
  <2>2. CASE g' = g /\ job'.kind # "block"
    BY <1>1, <2>2 DEF EdgeInv
  <2>3. CASE g'.nodes = {} /\ job'.kind # "block"
    BY <2>3 DEF EdgeInv
  <2>. QED
    BY <1>2, <2>1, <2>2, <2>3 DEF GraphRests
<1>3. CASE RunJob
  <2>1. JobStep /\ UNCHANGED <<chain, reread>>
    BY <1>3 DEF RunJob, nodeVars, history
  <2>. QED
    BY <2>1, JobStepKeepsEdges DEF ServerInv
<1>4. CASE MainBegins
  <2>. DEFINE c == current_block_height
  <2>1. /\ g' = g /\ job'.valid_txs = {} /\ ToSet(job'.txs) \subseteq Block(c)
        /\ chain' = chain /\ mpc \in {"cache", "rpc"}
        /\ ReadCacheFile \/ GetRawBlock
    BY <1>4 DEF MainBegins
  <2>2. ASSUME NEW t \in g'.nodes, NEW p \in ToSet(job'.txs) \cup job'.valid_txs,
               p \in Parents(t)
        PROVE  p \in RereadTxs'
    <3>1. p \in Block(c) /\ c \in DOMAIN chain /\ p \in chain[c]
      BY <2>1, <2>2 DEF Block
    <3>2. PICK h \in processed : t \in Block(h)
      <4>1. t \in Reached /\ mpc \in EarlyPc
        BY <2>1, <2>2 DEF Reached, EarlyPc
      <4>. QED
        BY <4>1 DEF ServerInv, ReachInv
    <3>3. h \in DOMAIN chain /\ t \in chain[h]
      BY <3>2 DEF Block
    <3>4. c <= h
      BY <2>2, <3>1, <3>3, ParentsComeFirst DEF ServerInv
    <3>5. ~(c < StartHeight)
      BY <3>1 DEF ServerInv, ChainInv
    <3>6. c \in Int /\ h \in Int /\ StartHeight \in Int
      <4>1. DOMAIN chain = 1..Len(chain) /\ Len(chain) \in Nat
        BY BlockFacts DEF ServerInv
      <4>. QED
        BY <3>1, <3>3, <4>1, ServerAssumption DEF ServerAssumption
    <3>7. c \in processed
      <4>1. StartHeight..h \subseteq processed
        BY <3>2 DEF ServerInv, ProcessedInv
      <4>2. c \in StartHeight..h
        BY <3>4, <3>5, <3>6
      <4>. QED
        BY <4>1, <4>2
    <3>8. mpc # "cache"
      BY <3>2, <3>4, <3>6 DEF ServerInv, ProcessedInv
    <3>9. GetRawBlock
      BY <2>1, <3>8 DEF ReadCacheFile
    <3>10. c \in reread'
      BY <3>7, <3>9 DEF GetRawBlock
    <3>11. \A h0 : p \in Block(h0) => p \in Block(h0)'
      BY <2>1 DEF Block
    <3>12. \E h0 : h0 \in reread' /\ p \in Block(h0)
      BY <3>1, <3>10
    <3>. QED
      BY <3>11, <3>12 DEF RereadTxs
  <2>. QED
    BY <1>1, <2>1, <2>2 DEF EdgeInv, Awaited
<1>5. CASE ListenerBegins
  <2>. DEFINE b == Head(zmq).height
  <2>1. /\ g' = g /\ job'.valid_txs = {} /\ ToSet(job'.txs) \subseteq Head(zmq).txs
        /\ zmq # <<>> /\ Head(zmq).topic = "rawblock"
    BY <1>5 DEF ListenerBegins
  <2>2. 1 \in DOMAIN zmq /\ Head(zmq) = zmq[1]
    BY <2>1, HeadFacts
  <2>3. b \in DOMAIN chain /\ Head(zmq).txs = chain[b]
    BY <2>1, <2>2 DEF ServerInv, ZmqInv, InOrder
  <2>4. ASSUME NEW t \in g'.nodes, NEW p \in ToSet(job'.txs) \cup job'.valid_txs,
               p \in Parents(t)
        PROVE  FALSE
    <3>1. t \in Reached
      BY <2>1, <2>4 DEF Reached
    <3>2. PICK h \in DOMAIN chain : h < b /\ t \in chain[h]
      BY <2>1, <2>2, <3>1 DEF ServerInv, ReachInv
    <3>3. p \in chain[b]
      BY <2>1, <2>3, <2>4
    <3>4. b <= h
      BY <2>3, <2>4, <3>2, <3>3, ParentsComeFirst DEF ServerInv
    <3>5. b \in Int /\ h \in Int
      <4>1. DOMAIN chain = 1..Len(chain) /\ Len(chain) \in Nat
        BY BlockFacts DEF ServerInv
      <4>. QED
        BY <2>3, <3>2, <4>1
    <3>. QED
      BY <3>2, <3>4, <3>5
  <2>. QED
    BY <1>1, <2>1, <2>4 DEF EdgeInv, Awaited
<1>. QED
  BY <1>2, <1>3, <1>4, <1>5, GraphMoves

-----------------------------------------------------------------------------
(* The theorems. *)

\* A server that was never started.
LEMMA ServerInitInv ==
    ASSUME ServerInit
    PROVE  ServerInv
<1>1. /\ StartHeight \in Nat /\ StartHeight >= 1 /\ StartHeight <= MaxBlocks + 1
      /\ MaxBlocks \in Nat
  BY ServerAssumption DEF ServerAssumption
<1>2. /\ chain \in Seq(SUBSET Txid) /\ Len(chain) = StartHeight - 1
      /\ DOMAIN chain = 1..(StartHeight - 1)
      /\ \A h \in DOMAIN chain : chain[h] = {}
  <2>1. StartHeight - 1 \in Nat /\ chain = [h \in 1..(StartHeight - 1) |-> {}]
    BY <1>1 DEF ServerInit
  <2>. QED
    BY <2>1
<1>3. SyncInv
  BY EmptyMemory DEF ServerInit, SyncInit, ValidatorInit
<1>4. ChainInv
  <2>1. Len(chain) \in (StartHeight - 1)..MaxBlocks
    BY <1>1, <1>2
  <2>. QED
    BY <1>2, <2>1 DEF ChainInv
<1>5. SetsInv
  BY DEF ServerInit, SetsInv
<1>6. Cardinality(Txid) \in Nat /\ Len(<<>>) = 0
  BY ListAssumption, FS_CardinalityType DEF ListAssumption
<1>7. CacheInv
  <2>1. /\ NoFile \in File /\ NoFile.state = "absent" /\ NoFile.txs = <<>>
        /\ ToSet(NoFile.txs) = {}
    BY DEF NoFile, File, ToSet
  <2>2. cache \in [Height -> File] /\ \A h \in Height : cache[h] = NoFile
    BY <2>1 DEF ServerInit
  <2>. QED
    BY <1>6, <2>1, <2>2 DEF CacheInv, CacheIsSound
<1>8. MainInv
  BY <1>1, <1>2 DEF ServerInit, MainInv, MainPc, EarlyPc, LatePc, NoHash, Digest, Hash
<1>9. ProcessedInv
  BY <1>1, <1>2 DEF ServerInit, ProcessedInv
<1>10. ListenInv
  <2>1. NoMessage \in Message
    BY <1>1 DEF NoMessage, Message, Height
  <2>. QED
    BY <2>1 DEF ServerInit, ListenInv, ListenPc, BlockPc
<1>11. zmq = <<>> /\ DOMAIN zmq = {}
  BY DEF ServerInit
<1>12. ZmqInv
  BY <1>11 DEF ZmqInv, InOrder
<1>13. /\ job.kind = "none" /\ job.txs = <<>> /\ job.valid_txs_list = <<>> /\ job.valid_txs = {}
       /\ g.nodes = {} /\ mpc = "exited" /\ lpc = "off"
  BY EmptyGraphFacts DEF ServerInit, SyncInit, NoJob, NewJob
<1>14. ToSet(<<>>) = {}
  BY DEF ToSet
<1>15. JobInv
  <2>1. Len(<<>>) + Len(<<>>) <= Cardinality(Txid)
    BY <1>6
  <2>. QED
    BY <1>13, <1>14, <2>1 DEF JobInv
<1>16. Reached = {}
  BY <1>13 DEF Reached
<1>17. ReachInv /\ EdgeInv
  BY <1>11, <1>13, <1>16 DEF ReachInv, EdgeInv
<1>. QED
  BY <1>3, <1>4, <1>5, <1>7, <1>8, <1>9, <1>10, <1>12, <1>15, <1>17 DEF ServerInv

\* Every step of the node, of main(), of the listener and of their failures.
LEMMA ServerStepKeepsInv ==
    ASSUME ServerInv, [ServerNext]_serverVars
    PROVE  ServerInv'
<1>1. SyncInv'
  BY ServerStepIsSyncStep, SyncStepKeepsInv DEF ServerInv
<1>. QED
  BY <1>1, ChainMoves, SetsKeepInv, CacheKeepsInv, MainKeepsInv, ProcessedKeepsInv,
     ListenKeepsInv, ZmqKeepsInv, JobKeepsInv, ReachKeepsInv, EdgesKeepInv
  DEF ServerInv

\* ServerInv holds in every state of the server and its surroundings, across deaths,
\* restarts, failed requests and lost notifications.
THEOREM ServerInvariant == ServerSpec => []ServerInv
<1>1. ServerInit => ServerInv
  BY ServerInitInv
<1>2. ServerInv /\ [ServerNext]_serverVars => ServerInv'
  BY ServerStepKeepsInv
<1>. QED
  BY <1>1, <1>2, PTL DEF ServerSpec

\* ServerTypeOK: the state of the node, the disk, main() and the listener is what
\* the code keeps in it.
THEOREM ServerTypeCorrect == ServerSpec => []ServerTypeOK
<1>1. ServerInv => ServerTypeOK
  <2>1. SUFFICES ASSUME ServerInv PROVE ServerTypeOK
    OBVIOUS
  <2>2. best \in Nat
    BY <2>1, BlockFacts DEF ServerInv, MainInv
  <2>. QED
    BY <2>1, <2>2
    DEF ServerInv, SyncInv, ChainInv, SetsInv, CacheInv, MainInv, ProcessedInv, ListenInv,
        ZmqInv, InOrder, ServerTypeOK
<1>. QED
  BY <1>1, ServerInvariant, PTL

\* SyncSpec: whatever the node, the disk, main() and the listener do, the memory
\* changes as the three handlers called one after the other allow, with no more
\* taken on trust than valid transactions.
THEOREM ServerImplementsSync == ServerSpec => SyncSpec
<1>1. ServerInit => SyncInit
  BY DEF ServerInit
<1>2. ServerInv /\ [ServerNext]_serverVars => [SyncNext]_syncVars
  BY ServerStepIsSyncStep
<1>. QED
  BY <1>1, <1>2, ServerInvariant, PTL DEF ServerSpec, SyncSpec

\* CacheIsSound: across any number of deaths and retries a cache file holds nothing
\* but valid transactions of the block at its height, so that trusting it is right.
THEOREM CacheStaysSound == ServerSpec => []CacheIsSound
<1>1. ServerInv => CacheIsSound
  BY DEF ServerInv, CacheInv
<1>. QED
  BY <1>1, ServerInvariant, PTL

\* StatusIsConsistent: in every state the Status reply claims no height the chain
\* does not have, nor one above the block whose hash it reports, but for the block
\* being processed; and the hash is that of the digest once the listener has got
\* past the blocks that main() read.
THEOREM StatusStaysConsistent == ServerSpec => []StatusIsConsistent
<1>1. ServerInv => StatusIsConsistent
  BY DEF ServerInv, MainInv, StatusIsConsistent, LatePc
<1>. QED
  BY <1>1, ServerInvariant, PTL

\* ConfirmedEdgesComplete: between two handlers a node of the confirmed graph is
\* linked to every parent of its token in the graph, but for parents whose block
\* was read again.
THEOREM ConfirmedGraphIsLinked == ServerSpec => []ConfirmedEdgesComplete
<1>1. ServerInv => ConfirmedEdgesComplete
  BY DEF ServerInv, EdgeInv, Linked, ConfirmedEdgesComplete
<1>. QED
  BY <1>1, ServerInvariant, PTL

\* VerdictsAreFinal: no thread of the server revises a verdict while the process lives.
THEOREM ServerVerdictsAreFinal == ServerSpec => VerdictsAreFinal
  BY ServerImplementsSync, SyncVerdictsAreFinal

\* AnnouncementsSucceed: the announcement of a transaction that moves units finds
\* the genesis and the group it looks up, as long as nothing came from the cache;
\* what else may end the process is in the transaction itself.
THEOREM AnnouncementsAreSafe == ServerSpec => []AnnouncementsSucceed
<1>1. ServerInv /\ Grounded => AnnouncementsSucceed
  <2>1. SUFFICES ASSUME ServerInv, Grounded, lpc = "publish", trusted = {},
                        NEW t \in lmsg.txs, ~MovesNothing(t), ~Unpublishable(t)
                 PROVE  CanPublish(t) /\ ~MayAbort(t)
    BY DEF AnnouncementsSucceed
  <2>. DEFINE k == Tx[t].tokenid
  <2>2. t \in valid /\ valid \subseteq transaction_map
    BY <2>1 DEF ServerInv, JobInv, SyncInv, GraphsAreValid
  <2>3. k \in valid /\ Tx[k].type = "genesis" /\ Tx[k].token_type = Tx[t].token_type
    BY <2>1, <2>2 DEF Grounded, HasToken
  <2>4. Tx[t].token_type = Nft1Child => Tx[k].inputs[1].txid \in valid
    BY <2>1, <2>3 DEF Grounded, HasGroup, IsChildGenesis
  <2>5. FindsToken(t)
    BY <2>2, <2>3, <2>4 DEF FindsToken, has
  <2>6. slp_inputs(t) \subseteq Inputs(t)
    BY DEF slp_inputs
  <2>. QED
    BY <2>1, <2>5, <2>6 DEF CanPublish, MayAbort, Unpublishable
<1>. QED
  BY <1>1, ServerInvariant, ServerImplementsSync, SyncIsGrounded, PTL
-----------------------------------------------------------------------------
(* What a server that is up to date may lack. *)

\* A set of transactions that has their parents.
HasParents(C) == \A x \in C : Parents(x) \subseteq C
Below(t) == {u \in Txid : \A C \in SUBSET Txid : t \in C /\ HasParents(C) => u \in C}

\* The ancestry of a transaction is well defined: it has the transaction and the
\* ancestries of its parents.
LEMMA AncestryIsDefined ==
    Ancestry = [t \in Txid |-> {t} \cup UNION {Ancestry[p] : p \in Parents(t)}]
<1>. DEFINE f == [t \in Txid |-> Below(t)]
            Defines(h) == h = [t \in Txid |-> {t} \cup UNION {h[p] : p \in Parents(t)}]
<1>1. ASSUME NEW t \in Txid
      PROVE  /\ t \in Below(t) /\ Below(t) \in SUBSET Txid /\ Parents(t) \subseteq Txid
             /\ HasParents(Below(t))
  <2>1. \A u \in Txid : Parents(u) \subseteq Txid
    BY ParentsInUniverse
  <2>2. t \in Below(t) /\ Below(t) \in SUBSET Txid
    BY DEF Below
  <2>3. ASSUME NEW x \in Below(t), NEW y \in Parents(x) PROVE y \in Below(t)
    <3>1. x \in Txid /\ y \in Txid
      BY <2>1 DEF Below
    <3>2. ASSUME NEW C \in SUBSET Txid, t \in C, HasParents(C) PROVE y \in C
      <4>1. x \in C
        BY <3>2 DEF Below
      <4>. QED
        BY <3>2, <4>1 DEF HasParents
    <3>. QED
      BY <3>1, <3>2 DEF Below
  <2>. QED
    BY <2>1, <2>2, <2>3 DEF HasParents
<1>2. ASSUME NEW t \in Txid
      PROVE  Below(t) = {t} \cup UNION {Below(p) : p \in Parents(t)}
  <2>. DEFINE C == {t} \cup UNION {Below(p) : p \in Parents(t)}
  <2>1. C \in SUBSET Txid /\ t \in C
    BY <1>1
  <2>2. HasParents(C)
    <3>1. ASSUME NEW x \in C, NEW y \in Parents(x) PROVE y \in C
      <4>1. CASE x = t
        BY <1>1, <3>1, <4>1
      <4>2. ASSUME NEW p \in Parents(t), x \in Below(p) PROVE y \in C
        <5>1. p \in Txid
          BY <1>1
        <5>2. y \in Below(p)
          BY <1>1, <3>1, <4>2, <5>1 DEF HasParents
        <5>. QED
          BY <5>2
      <4>. QED
        BY <3>1, <4>1, <4>2
    <3>. QED
      BY <3>1 DEF HasParents
  <2>3. Below(t) \subseteq C
    <3>. HIDE DEF C
    <3>. QED
      BY <2>1, <2>2 DEF Below
  <2>4. ASSUME NEW p \in Parents(t) PROVE Below(p) \subseteq Below(t)
    <3>1. p \in Below(t)
      BY <1>1 DEF HasParents
    <3>. QED
      BY <1>1, <3>1 DEF Below
  <2>. QED
    BY <1>1, <2>3, <2>4
<1>3. \A t \in Txid : \A p \in Parents(t) : f[p] = Below(p)
  BY <1>1
<1>4. Defines(f)
  <2>1. ASSUME NEW t \in Txid PROVE Below(t) = {t} \cup UNION {f[p] : p \in Parents(t)}
    <3>1. {f[p] : p \in Parents(t)} = {Below(p) : p \in Parents(t)}
      BY <1>3
    <3>. QED
      BY <1>2, <3>1
  <2>. QED
    BY <2>1, Zenon
<1>5. Ancestry = CHOOSE h : Defines(h)
  BY DEF Ancestry
<1>6. Defines(Ancestry)
  <2>. HIDE DEF f, Defines
  <2>. QED
    BY <1>4, <1>5
<1>. QED
  BY <1>6

\* The transactions of the ancestry that matter to a verdict.
LEMMA AncestryFacts ==
    ASSUME NEW t \in Txid
    PROVE  /\ t \in Ancestry[t]
           /\ \A p \in Kin(t) : p \in Txid /\ Ancestry[p] \subseteq Ancestry[t]
<1>1. ASSUME NEW u \in Txid
      PROVE  u \in Ancestry[u] /\ \A p \in Parents(u) : p \in Txid /\ Ancestry[p] \subseteq Ancestry[u]
  <2>1. Parents(u) \subseteq Txid
    BY ParentsInUniverse
  <2>2. Ancestry[u] = {u} \cup UNION {Ancestry[p] : p \in Parents(u)}
    BY AncestryIsDefined
  <2>. QED
    BY <2>1, <2>2
<1>2. ASSUME NEW p \in Kin(t) PROVE p \in Txid /\ Ancestry[p] \subseteq Ancestry[t]
  <2>1. CASE p \in Parents(t)
    BY <1>1, <2>1
  <2>2. ASSUME NEW q \in Parents(t), p \in Parents(q)
        PROVE  p \in Txid /\ Ancestry[p] \subseteq Ancestry[t]
    BY <1>1, <2>2
  <2>. QED
    BY <2>1, <2>2 DEF Kin
<1>. QED
  BY <1>1, <1>2

\* A list in which a transaction has no kin after it and is not repeated.
InKinOrder(s) ==
    /\ \A i, j \in DOMAIN s : s[i] = s[j] => i = j
    /\ \A i, j \in DOMAIN s : s[j] \in Kin(s[i]) => j < i

\* topological_sort leaves nothing out and repeats nothing.
LEMMA SortIsExact ==
    ASSUME NEW S \in SUBSET Txid, NEW s \in topological_sort(S)
    PROVE  /\ ToSet(s) = S
           /\ \A t \in S : \E i \in DOMAIN s : s[i] = t
           /\ \A i, j \in DOMAIN s : s[i] = s[j] => i = j
           /\ \A i, j \in DOMAIN s : s[j] \in Parents(s[i]) => j < i
<1>. DEFINE n == Cardinality(S)
<1>1. IsFiniteSet(S) /\ n \in Nat
  BY ListAssumption, FS_Subset, FS_CardinalityType DEF ListAssumption
<1>2. /\ s \in [1..n -> S] /\ \A i, j \in 1..n : i # j => s[i] # s[j]
      /\ \A i, j \in DOMAIN s : s[j] \in [t \in S |-> Parents(t)][s[i]] => j < i
  BY DEF topological_sort, TopologicalOrders, SetToSeqs
<1>. HIDE DEF n
<1>3. s \in Injection(1..n, S)
  BY <1>2 DEF Injection, IsInjective
<1>4. IsFiniteSet(1..n) /\ Cardinality(1..n) = n
  <2>1. 1 \in Int /\ n \in Int
    BY <1>1
  <2>2. IsFiniteSet(1..n) /\ Cardinality(1..n) = IF 1 > n THEN 0 ELSE n - 1 + 1
    BY <2>1, FS_Interval, Zenon
  <2>. QED
    BY <1>1, <2>2
<1>5. s \in Surjection(1..n, S)
  BY <1>1, <1>3, <1>4, FS_Injection DEF n
<1>6. \A t \in S : \E i \in 1..n : s[i] = t
  BY <1>5 DEF Surjection
<1>7. DOMAIN s = 1..n /\ \A i \in 1..n : s[i] \in S
  BY <1>2
<1>8. \A i, j \in DOMAIN s : s[j] \in Parents(s[i]) => j < i
  BY <1>2, <1>7
<1>9. ToSet(s) = S
  BY <1>6, <1>7 DEF ToSet
<1>. QED
  BY <1>2, <1>6, <1>7, <1>8, <1>9

\* A sorted block is in kin order: a grandparent in the block is one of a parent
\* in the block.
LEMMA SortedBlockInKinOrder ==
    ASSUME ChainInv, NEW h, NEW s \in topological_sort(Block(h))
    PROVE  InKinOrder(s)
<1>1. /\ Block(h) \in SUBSET Txid
      /\ h \in DOMAIN chain => Block(h) = chain[h]
      /\ h \notin DOMAIN chain => Block(h) = {}
      /\ DOMAIN chain = 1..Len(chain) /\ Len(chain) \in Nat
  BY BlockFacts
<1>2. /\ \A t \in Block(h) : \E i \in DOMAIN s : s[i] = t
      /\ \A i, j \in DOMAIN s : s[i] = s[j] => i = j
      /\ \A i, j \in DOMAIN s : s[j] \in Parents(s[i]) => j < i
  BY <1>1, SortIsExact
<1>3. s \in Seq(Txid) /\ \A i \in DOMAIN s : s[i] \in Block(h)
  BY <1>1, SortFacts
<1>4. ASSUME NEW i \in DOMAIN s, NEW j \in DOMAIN s, NEW q \in Parents(s[i]), s[j] \in Parents(q)
      PROVE  j < i
  <2>1. h \in DOMAIN chain /\ s[i] \in chain[h] /\ s[j] \in chain[h]
    BY <1>1, <1>3
  <2>2. PICK k \in DOMAIN chain : k <= h /\ q \in chain[k]
    BY <2>1 DEF ChainInv
  <2>3. h <= k
    BY <1>4, <2>1, <2>2, ParentsComeFirst
  <2>4. q \in Block(h)
    BY <1>1, <2>1, <2>2, <2>3
  <2>5. PICK m \in DOMAIN s : s[m] = q
    BY <1>2, <2>4
  <2>6. m < i /\ j < m
    BY <1>2, <1>4, <2>5
  <2>7. i \in Nat /\ j \in Nat /\ m \in Nat
    BY <1>3
  <2>. QED
    BY <2>6, <2>7
<1>. QED
  BY <1>2, <1>4 DEF InKinOrder, Kin

\* A list holds its head and what its tail holds.
LEMMA TailSet ==
    ASSUME NEW s \in Seq(Txid), s # <<>>
    PROVE  ToSet(s) = {Head(s)} \cup ToSet(Tail(s))
<1>. DEFINE r == Tail(s)
            n == Len(s)
<1>1. /\ n \in Nat /\ n >= 1 /\ DOMAIN s = 1..n /\ Head(s) = s[1]
      /\ DOMAIN r = 1..(n - 1) /\ \A i \in 1..(n - 1) : r[i] = s[i + 1]
  OBVIOUS
<1>. HIDE DEF r, n
<1>2. ASSUME NEW i \in DOMAIN s PROVE s[i] = s[1] \/ s[i] \in ToSet(r)
  <2>1. CASE i = 1
    BY <2>1
  <2>2. CASE i # 1
    <3>1. i - 1 \in DOMAIN r /\ (i - 1) + 1 = i
      BY <1>1, <2>2
    <3>2. r[i - 1] = s[i]
      BY <1>1, <3>1
    <3>. QED
      BY <3>1, <3>2 DEF ToSet
  <2>. QED
    BY <2>1, <2>2
<1>3. \A i \in DOMAIN r : r[i] \in ToSet(s)
  <2>1. \A i \in DOMAIN r : i + 1 \in DOMAIN s /\ r[i] = s[i + 1]
    BY <1>1
  <2>. QED
    BY <2>1 DEF ToSet
<1>4. s[1] \in ToSet(s)
  BY <1>1 DEF ToSet
<1>5. ToSet(s) = {s[1]} \cup ToSet(r)
  BY <1>2, <1>3, <1>4 DEF ToSet
<1>. QED
  BY <1>1, <1>5 DEF r

\* The rest of a list in kin order is in kin order, and its head is the kin of
\* nothing that stays out of it.
LEMMA TailInKinOrder ==
    ASSUME NEW s \in Seq(Txid), s # <<>>, InKinOrder(s)
    PROVE  /\ InKinOrder(Tail(s))
           /\ Head(s) \notin ToSet(Tail(s))
           /\ ToSet(s) = {Head(s)} \cup ToSet(Tail(s))
           /\ Kin(Head(s)) \cap ToSet(s) = {}
<1>. DEFINE r == Tail(s)
            n == Len(s)
<1>1. /\ n \in Nat /\ n >= 1 /\ DOMAIN s = 1..n /\ Head(s) = s[1]
      /\ DOMAIN r = 1..(n - 1) /\ \A i \in 1..(n - 1) : r[i] = s[i + 1]
  OBVIOUS
<1>. HIDE DEF r, n
<1>2. InKinOrder(r)
  <2>1. \A i \in DOMAIN r : i + 1 \in DOMAIN s /\ r[i] = s[i + 1] /\ i \in Nat
    BY <1>1
  <2>2. ASSUME NEW i \in DOMAIN r, NEW j \in DOMAIN r, r[i] = r[j] PROVE i = j
    <3>1. i + 1 = j + 1
      BY <2>1, <2>2 DEF InKinOrder
    <3>. QED
      BY <2>1, <3>1
  <2>3. ASSUME NEW i \in DOMAIN r, NEW j \in DOMAIN r, r[j] \in Kin(r[i]) PROVE j < i
    <3>1. j + 1 < i + 1
      BY <2>1, <2>3 DEF InKinOrder
    <3>. QED
      BY <2>1, <3>1
  <2>. QED
    BY <2>2, <2>3 DEF InKinOrder
<1>3. ASSUME NEW i \in DOMAIN r, r[i] = s[1] PROVE FALSE
  <2>1. i + 1 \in DOMAIN s /\ 1 \in DOMAIN s /\ s[i + 1] = s[1] /\ i \in 1..(n - 1)
    BY <1>1, <1>3
  <2>2. i + 1 = 1
    BY <2>1 DEF InKinOrder
  <2>. QED
    BY <2>1, <2>2
<1>4. ASSUME NEW i \in DOMAIN s, s[i] \in Kin(s[1]) PROVE FALSE
  <2>1. i < 1
    BY <1>1, <1>4 DEF InKinOrder
  <2>. QED
    BY <1>1, <2>1
<1>5. ToSet(s) = {s[1]} \cup ToSet(r)
  BY <1>1, TailSet DEF r
<1>. QED
  BY <1>1, <1>2, <1>3, <1>4, <1>5 DEF ToSet, r

\* A rewritten cache file may have lost t, or something it descends from.
Lost(t) == Ancestry[t] \cap RereadTxs # {}

\* A handler call runs only while one of the threads waits for it.
HoldInv ==
    /\ job.kind = "none" => job.txs = <<>> /\ job.valid_txs = {}
    /\ job.kind # "none" => \/ mpc \in {"cacheJob", "rpcJob", "write", "mempoolJob"}
                            \/ lpc \in {"txJob", "blockJob", "mempoolJob"}

\* While main() reads blocks, the validator has only what they hold, and all that
\* is SLP-valid in them, except for what is lost and for the block at hand.
BlocksInv ==
    mpc \in EarlyPc =>
        /\ \A t \in transaction_map : \E h \in processed : t \in Block(h)
        /\ \A h \in processed : \A t \in Block(h) \cap SlpValid :
               \/ t \in valid \/ Lost(t)
               \/ mpc \in {"cacheJob", "rpcJob", "write"} /\ h = current_block_height

\* The block at hand comes from the cache: what is left of the file makes it whole.
CachedInv ==
    mpc = "cacheJob" =>
        /\ job.trusted
        /\ transaction_map \cap Block(current_block_height) \subseteq valid
        /\ \A t \in Block(current_block_height) \cap SlpValid :
               t \in valid \cup ToSet(job.txs) \/ Lost(t)

\* The block at hand comes from the node: what is left and what was accepted make
\* it whole, and what the validator has of it is read again.
FetchedInv ==
    mpc \in {"rpcJob", "write"} =>
        /\ InKinOrder(job.txs)
        /\ \A t \in ToSet(job.txs) : t \in transaction_map => t \in RereadTxs
        /\ \A t \in Block(current_block_height) \cap SlpValid :
               t \in ToSet(job.txs) \cup ToSet(job.valid_txs_list) \/ Lost(t)

\* What main() has read and written is complete but for what was lost.
ReadInv ==
    /\ HoldInv
    /\ BlocksInv
    /\ CachedInv
    /\ FetchedInv
    /\ CacheLosesOnlyReread

\* What is lost stays so.
LEMMA LostStays ==
    ASSUME ServerInv, [ServerNext]_serverVars
    PROVE  \A t : Lost(t) => Lost(t)'
  BY RereadGrows DEF Lost

\* A block that was read again is lost.
LEMMA RereadIsLost ==
    ASSUME NEW t \in Txid, t \in RereadTxs
    PROVE  Lost(t)
  BY AncestryFacts DEF Lost

\* A transaction is lost if one of its kin is.
LEMMA LostKin ==
    ASSUME NEW t \in Txid, NEW p \in Kin(t), Lost(p)
    PROVE  Lost(t)
  BY AncestryFacts DEF Lost

\* A step of a handler does nothing to the calls' frame.
LEMMA JobStepHolds ==
    ASSUME SyncInv, JobStep, HoldInv
    PROVE  job'.kind = job.kind /\ job.kind # "none"
<1>1. job'.kind = job.kind
  BY JobStepFacts
<1>2. CASE JudgeTx
  BY <1>1, <1>2 DEF JudgeTx, HoldInv
<1>3. ASSUME NEW k \in Txid, InsertToken(k) PROVE job.kind # "none"
  BY <1>3 DEF InsertToken, HoldInv
<1>. QED
  BY <1>1, <1>2, <1>3 DEF JobStep

\* The call is held by the thread it runs for.
LEMMA HoldKeepsInv ==
    ASSUME ServerInv, HoldInv, [ServerNext]_serverVars
    PROVE  HoldInv'
<1>1. /\ mpc \in EarlyPc => lpc = "off"
      /\ lpc \in {"txJob", "publish"} \cup BlockPc => mpc = "serving"
      /\ startup_processing_mempool <=> mpc # "serving"
  BY DEF ServerInv, MainInv, ListenInv
<1>2. ASSUME job' = NoJob PROVE HoldInv'
  BY <1>2 DEF NoJob, NewJob, HoldInv
<1>3. ASSUME EndJob PROVE HoldInv'
  BY <1>2, <1>3 DEF EndJob
<1>4. ASSUME Die PROVE HoldInv'
  BY <1>2, <1>4 DEF Die, Restart
<1>5. ASSUME NEW kind \in {"block", "mempool", "tx"}, NEW txs, NEW trust,
             job' = NewJob(kind, txs, trust),
             \/ mpc' \in {"cacheJob", "rpcJob", "write", "mempoolJob"}
             \/ lpc' \in {"txJob", "blockJob", "mempoolJob"}
      PROVE  HoldInv'
  BY <1>5 DEF NewJob, HoldInv
<1>6. ASSUME job' = job, mpc' = mpc, lpc' = lpc PROVE HoldInv'
  BY <1>6 DEF HoldInv
<1>7. ASSUME job' = job, job.kind = "none" PROVE HoldInv'
  BY <1>7 DEF HoldInv
<1>8. CASE RunJob
  <2>1. JobStep /\ UNCHANGED <<mpc, lpc>>
    BY <1>8 DEF RunJob, mainVars, listenVars
  <2>2. job'.kind = job.kind /\ job.kind # "none"
    BY <2>1, JobStepHolds DEF ServerInv
  <2>. QED
    BY <2>1, <2>2 DEF HoldInv
<1>9. CASE ReadCacheFile
  <2>1. CASE UNCHANGED syncVars /\ mpc = "cache"
    BY <1>1, <1>7, <2>1 DEF HoldInv, syncVars, EarlyPc
  <2>2. CASE BeginBlock(cache[current_block_height].txs, TRUE) /\ mpc' = "cacheJob"
    BY <1>5, <2>2 DEF BeginBlock
  <2>. QED
    BY <1>9, <2>1, <2>2 DEF ReadCacheFile
<1>10. CASE GetRawBlock
  BY <1>5, <1>10 DEF GetRawBlock, BeginBlock
<1>11. CASE ReceiveBlock
  BY <1>5, <1>11 DEF ReceiveBlock, BeginBlock
<1>12. CASE ProcessStartupMempool
  BY <1>5, <1>12 DEF ProcessStartupMempool, BeginMempool
<1>13. CASE RefreshMempool
  BY <1>5, <1>13 DEF RefreshMempool, BeginMempool
<1>14. CASE ReceiveTx
  BY <1>5, <1>14 DEF ReceiveTx, BeginTx
<1>15. CASE CacheBlockDone \/ WriteCacheFile \/ StartupMempoolDone \/ TxDone \/ BlockDone
             \/ RefreshMempoolDone
  BY <1>3, <1>15 DEF CacheBlockDone, WriteCacheFile, StartupMempoolDone, TxDone, BlockDone,
                     RefreshMempoolDone
<1>16. CASE TornCacheFile \/ PublishThrows \/ GetBlockchainInfoFails \/ RefreshMempoolFails
              \/ Crash
  BY <1>4, <1>16 DEF TornCacheFile, PublishThrows, GetBlockchainInfoFails,
                     RefreshMempoolFails, Crash
<1>17. CASE GetBlockchainInfo \/ RpcLoopEnds \/ SpawnListener \/ Start \/ GetRawBlockFails
  <2>1. mpc \in {"exited", "info", "rpc", "spawn"} /\ UNCHANGED syncVars
    BY <1>17 DEF GetBlockchainInfo, RpcLoopEnds, SpawnListener, Start, GetRawBlockFails
  <2>. QED
    BY <1>1, <1>7, <2>1 DEF HoldInv, syncVars, EarlyPc
<1>18. CASE OpenCacheFile
  BY <1>18 DEF OpenCacheFile, HoldInv, syncVars
<1>19. CASE GetMempool \/ AppendMempool \/ Serve
  <2>1. /\ mpc \in {"mempool", "append", "flag"} /\ UNCHANGED syncVars
    BY <1>19 DEF GetMempool, AppendMempool, Serve
  <2>2. lpc \notin {"txJob", "blockJob", "mempoolJob"}
    BY <1>1, <2>1 DEF BlockPc
  <2>. QED
    BY <1>7, <2>1, <2>2 DEF HoldInv, syncVars
<1>20. CASE Connect \/ ReceiveStartupTx \/ PushStartupTx \/ PublishTx
  <2>1. lpc \in {"connect", "recv", "push", "publish"} /\ UNCHANGED syncVars /\ mpc' = mpc
    BY <1>20 DEF Connect, ReceiveStartupTx, PushStartupTx, PublishTx, ListenFrame, Receive
  <2>. QED
    BY <2>1 DEF HoldInv, syncVars
<1>21. CASE ReceiveStartupBlock \/ GetMempoolFails \/ LoseMessage
  BY <1>6, <1>21 DEF ReceiveStartupBlock, GetMempoolFails, LoseMessage, syncVars, mainVars,
                     listenVars, ListenFrame
<1>22. CASE \/ UNCHANGED serverVars
            \/ \E t \in Txid : Broadcast(t)
            \/ \E B \in SUBSET Txid, announce \in BOOLEAN : Mine(B, announce)
  BY <1>6, <1>22 DEF serverVars, Broadcast, Mine, syncVars, mainVars, listenVars
<1>. QED
  BY <1>8, <1>9, <1>10, <1>11, <1>12, <1>13, <1>14, <1>15, <1>16, <1>17, <1>18, <1>19,
     <1>20, <1>21, <1>22
  DEF ServerNext, MainStep, ListenStep, Failure

-----------------------------------------------------------------------------
(* main() reads the blocks. *)

\* Steps of main() around a handler call while it reads blocks.
ReadIdle ==
    /\ mpc \in EarlyPc /\ mpc' \in EarlyPc
    /\ UNCHANGED <<syncVars, processed>>
    /\ \/ mpc' = mpc /\ current_block_height' = current_block_height
       \/ mpc = "rpcJob" /\ mpc' = "write" /\ current_block_height' = current_block_height
       \/ /\ mpc \notin {"cacheJob", "rpcJob", "write"}
          /\ mpc' \notin {"cacheJob", "rpcJob", "write"}

\* What a step can mean for main() while it reads blocks.
LEMMA ReadMoves ==
    ASSUME ServerInv, [ServerNext]_serverVars
    PROVE  \/ mpc' \notin EarlyPc \/ Die \/ ReadIdle \/ RunJob
           \/ ReadCacheFile /\ mpc' = "cacheJob"
           \/ GetRawBlock \/ CacheBlockDone \/ WriteCacheFile
<1>1. mpc \in EarlyPc => lpc = "off"
  BY DEF ServerInv, MainInv
<1>2. CASE ReadCacheFile
  BY <1>2 DEF ReadCacheFile, ReadIdle, EarlyPc
<1>3. CASE GetBlockchainInfo \/ RpcLoopEnds \/ Start \/ GetRawBlockFails
  <2>1. /\ mpc \in {"exited", "info", "rpc"} /\ mpc' \in {"cache", "info", "rpc", "spawn"}
        /\ UNCHANGED <<syncVars, processed>>
    BY <1>3 DEF GetBlockchainInfo, RpcLoopEnds, Start, GetRawBlockFails, history
  <2>. QED
    BY <2>1 DEF ReadIdle, EarlyPc
<1>4. CASE OpenCacheFile
  BY <1>4 DEF OpenCacheFile, ReadIdle, EarlyPc
<1>5. CASE \/ SpawnListener \/ GetMempool \/ AppendMempool \/ ProcessStartupMempool
           \/ StartupMempoolDone \/ Serve
  BY <1>5 DEF SpawnListener, GetMempool, AppendMempool, ProcessStartupMempool,
              StartupMempoolDone, Serve, EarlyPc
<1>6. CASE TornCacheFile \/ PublishThrows \/ GetBlockchainInfoFails \/ RefreshMempoolFails
             \/ Crash
  BY <1>6 DEF TornCacheFile, PublishThrows, GetBlockchainInfoFails, RefreshMempoolFails, Crash
<1>7. CASE \/ Connect \/ ReceiveStartupTx \/ PushStartupTx \/ ReceiveStartupBlock \/ ReceiveTx
           \/ TxDone \/ PublishTx \/ ReceiveBlock \/ BlockDone \/ RefreshMempool
           \/ RefreshMempoolDone
  <2>1. lpc # "off" /\ mpc' = mpc
    BY <1>7 DEF Connect, ReceiveStartupTx, PushStartupTx, ReceiveStartupBlock, ReceiveTx,
                TxDone, PublishTx, ReceiveBlock, BlockDone, RefreshMempool,
                RefreshMempoolDone, ListenFrame, Receive
  <2>. QED
    BY <1>1, <2>1
<1>8. CASE GetMempoolFails
  BY <1>8 DEF GetMempoolFails, EarlyPc
<1>9. CASE LoseMessage \/ UNCHANGED serverVars
             \/ (\E t \in Txid : Broadcast(t))
             \/ \E B \in SUBSET Txid, announce \in BOOLEAN : Mine(B, announce)
  BY <1>9 DEF LoseMessage, serverVars, Broadcast, Mine, ReadIdle, mainVars, history
<1>. QED
  BY <1>2, <1>3, <1>4, <1>5, <1>6, <1>7, <1>8, <1>9 DEF ServerNext, MainStep, ListenStep, Failure

\* A block that was read stays the block it was.
LEMMA ReadBlockStays ==
    ASSUME ServerInv, [ServerNext]_serverVars, NEW h \in 0..Len(chain)
    PROVE  Block(h)' = Block(h)
<1>1. /\ DOMAIN chain = 1..Len(chain) /\ Len(chain) \in Nat
      /\ \A i \in DOMAIN chain : i \in DOMAIN chain' /\ chain'[i] = chain[i]
  BY ChainMoves, BlockFacts DEF ServerInv
<1>2. CASE h = 0
  <2>1. ChainInv'
    BY ChainMoves
  <2>2. DOMAIN chain' = 1..Len(chain') /\ Len(chain') \in Nat
    BY <2>1 DEF ChainInv
  <2>. QED
    BY <1>1, <1>2, <2>2 DEF Block
<1>3. CASE h \in DOMAIN chain
  BY <1>1, <1>3 DEF Block
<1>. QED
  BY <1>1, <1>2, <1>3

\* One round of the loop in terms of the verdicts and of what is left.
LEMMA JudgeTxMoves ==
    ASSUME SyncInv, JudgeTx
    PROVE  /\ job.txs # <<>> /\ Head(job.txs) \in Txid
           /\ job'.txs = Tail(job.txs) /\ job'.trusted = job.trusted
           /\ transaction_map \subseteq transaction_map'
           /\ transaction_map' \subseteq transaction_map \cup {Head(job.txs)}
           /\ valid \subseteq valid'
           /\ job'.valid_txs_list = IF AddTxResult(Head(job.txs))
                                    THEN Append(job.valid_txs_list, Head(job.txs))
                                    ELSE job.valid_txs_list
<1>. DEFINE t == Head(job.txs)
<1>1. job \in Job
  BY DEF SyncInv, SyncTypeOK
<1>2. /\ t \in Txid /\ valid \subseteq valid' /\ transaction_map \subseteq transaction_map'
      /\ has(t) => UNCHANGED validatorVars
      /\ ~has(t) => AddTx(t, job.trusted)
  BY JudgeTxFacts
<1>3. transaction_map' \subseteq transaction_map \cup {t}
  BY <1>2 DEF AddTx, validatorVars
<1>4. /\ job.txs # <<>> /\ job'.txs = Tail(job.txs) /\ job'.trusted = job.trusted
      /\ job'.valid_txs_list = IF AddTxResult(t)
                               THEN Append(job.valid_txs_list, t)
                               ELSE job.valid_txs_list
  BY <1>1 DEF JudgeTx, Job
<1>. QED
  BY <1>2, <1>3, <1>4

\* The other steps of a handler call leave the verdicts alone.
LEMMA JudgeMoves ==
    ASSUME SyncInv, JobStep, ~JudgeTx
    PROVE  /\ UNCHANGED <<transaction_map, valid, early>> /\ job'.txs = job.txs
           /\ job'.valid_txs_list = job.valid_txs_list /\ job'.trusted = job.trusted
<1>1. job \in Job
  BY DEF SyncInv, SyncTypeOK
<1>2. ASSUME NEW k \in Txid, InsertToken(k)
      PROVE  /\ UNCHANGED <<transaction_map, valid, early>> /\ job'.txs = job.txs
             /\ job'.valid_txs_list = job.valid_txs_list /\ job'.trusted = job.trusted
  BY <1>1, <1>2 DEF InsertToken, validatorVars, Job
<1>. QED
  BY <1>2 DEF JobStep

\* An SLP-valid transaction that is judged is accepted, if its SLP-valid kin are.
LEMMA JudgedValid ==
    ASSUME SyncInv, JudgeTx, Head(job.txs) \in SlpValid, Head(job.txs) \notin transaction_map,
           \A p \in Kin(Head(job.txs)) : p \in SlpValid => p \in valid
    PROVE  Head(job.txs) \in valid' /\ AddTxResult(Head(job.txs))
<1>. DEFINE t == Head(job.txs)
<1>1. AddTx(t, job.trusted) /\ valid \subseteq transaction_map /\ ~AddTxThrows(t, job.trusted)
  BY JudgeTxFacts DEF has, SyncInv, GraphsAreValid, JudgeTx
<1>2. t \in Txid /\ Tx[t].type # "invalid" /\ SlpValid \subseteq Txid
  <2>1. SlpValid \subseteq Txid
    BY DEF SlpValid
  <2>. QED
    BY <2>1, SlpValidJustified DEF Justified
<1>. HIDE DEF t
<1>3. /\ transaction_map' = transaction_map \cup {t}
      /\ job.trusted \/ validate(t, transaction_map', valid) => t \in valid'
  BY <1>1, <1>2 DEF AddTx
<1>4. ASSUME ~job.trusted PROVE validate(t, transaction_map', valid)
  <2>1. t \in SlpValid /\ t \notin valid
    BY <1>1 DEF t
  <2>2. Tx[t].type = "mint" => ~MintThrows(t, transaction_map', valid)
    BY <1>1, <1>3, <1>4, <2>1 DEF AddTxThrows
  <2>3. \A p \in Kin(t) : p \in SlpValid => p \in transaction_map' /\ p \in valid
    BY <1>1, <1>3 DEF t
  <2>. QED
    BY <2>1, <2>2, <2>3, ValidTxPasses
<1>. QED
  BY <1>3, <1>4 DEF AddTxResult, has, t

\* What process_block judges of a block the node returned has all its kin behind
\* it, unless they are lost.
LEMMA KinAreBehind ==
    ASSUME ServerInv, ReadInv, mpc \in {"rpcJob", "write"}, JudgeTx, ~Lost(Head(job.txs)),
           NEW p \in Kin(Head(job.txs)), p \in SlpValid
    PROVE  p \in valid
<1>. DEFINE t == Head(job.txs)
            c == current_block_height
<1>1. /\ job.txs \in Seq(Txid) /\ job.txs # <<>> /\ t \in Txid /\ ToSet(job.txs) \subseteq Block(c)
      /\ ToSet(job.valid_txs_list) \subseteq valid
  BY JudgeTxMoves DEF ServerInv, SyncInv, SyncTypeOK, Job, JobInv, JobTxs
<1>2. /\ t \in Block(c) /\ Kin(t) \cap ToSet(job.txs) = {}
  BY <1>1, ToSetFacts, TailInKinOrder DEF ReadInv, FetchedInv
<1>3. ~Lost(p)
  BY <1>1, LostKin
<1>. HIDE DEF t
<1>4. /\ c \in DOMAIN chain /\ Block(c) = chain[c] /\ \A h \in DOMAIN chain : Block(h) = chain[h]
      /\ DOMAIN chain = 1..Len(chain) /\ Len(chain) \in Nat /\ c \in Int
  BY <1>2, BlockFacts DEF ServerInv
<1>5. PICK h \in DOMAIN chain : h <= c /\ p \in chain[h]
  <2>1. CASE p \in Parents(t)
    BY <1>2, <1>4, <2>1 DEF ServerInv, ChainInv
  <2>2. ASSUME NEW q \in Parents(t), p \in Parents(q)
        PROVE  \E h \in DOMAIN chain : h <= c /\ p \in chain[h]
    <3>1. PICK i \in DOMAIN chain : i <= c /\ q \in chain[i]
      BY <1>2, <1>4 DEF ServerInv, ChainInv
    <3>2. PICK h \in DOMAIN chain : h <= i /\ p \in chain[h]
      BY <2>2, <3>1 DEF ServerInv, ChainInv
    <3>. QED
      BY <1>4, <3>1, <3>2
  <2>. QED
    BY <2>1, <2>2 DEF Kin, t
<1>6. h \in processed
  <2>1. StartHeight \in Nat /\ StartHeight <= h
    BY <1>4, <1>5, ServerAssumption DEF ServerInv, ChainInv, ServerAssumption
  <2>2. StartHeight..c \subseteq processed
    BY DEF ServerInv, ProcessedInv
  <2>. QED
    BY <1>4, <1>5, <2>1, <2>2
<1>7. CASE h = c
  <2>1. p \in ToSet(job.txs) \cup ToSet(job.valid_txs_list)
    BY <1>3, <1>4, <1>5, <1>7 DEF ReadInv, FetchedInv
  <2>. QED
    BY <1>1, <1>2, <2>1 DEF t
<1>8. CASE h # c
  <2>1. mpc \in EarlyPc
    BY DEF EarlyPc
  <2>2. p \in Block(h)
    BY <1>4, <1>5
  <2>. QED
    BY <1>3, <1>6, <1>8, <2>1, <2>2 DEF ReadInv, BlocksInv
<1>. QED
  BY <1>7, <1>8

\* The verdict on a transaction of a block the node returned.
LEMMA FetchedTxIsJudged ==
    ASSUME ServerInv, ReadInv, mpc \in {"rpcJob", "write"}, JudgeTx, Head(job.txs) \in SlpValid
    PROVE  Lost(Head(job.txs)) \/ AddTxResult(Head(job.txs))
<1>. DEFINE t == Head(job.txs)
<1>1. job.txs \in Seq(Txid) /\ job.txs # <<>> /\ t \in Txid /\ t \in ToSet(job.txs)
  BY JudgeTxFacts, ToSetFacts DEF ServerInv, SyncInv, SyncTypeOK, Job, JudgeTx
<1>2. CASE t \in transaction_map
  <2>1. t \in RereadTxs
    BY <1>1, <1>2 DEF ReadInv, FetchedInv
  <2>. QED
    BY <1>1, <2>1, RereadIsLost
<1>3. CASE t \notin transaction_map /\ ~Lost(t)
  BY <1>3, KinAreBehind, JudgedValid DEF ServerInv
<1>. QED
  BY <1>2, <1>3

\* The block the node returned, as process_block goes through it.
LEMMA FetchedRuns ==
    ASSUME ServerInv, ReadInv, RunJob, [ServerNext]_serverVars
    PROVE  FetchedInv'
<1>. SUFFICES ASSUME mpc \in {"rpcJob", "write"} PROVE FetchedInv'
  BY DEF RunJob, mainVars, FetchedInv
<1>1. JobStep /\ UNCHANGED <<chain, mpc, current_block_height, reread>>
  BY DEF RunJob, mainVars, nodeVars, history
<1>. DEFINE c == current_block_height
<1>2. /\ job.txs \in Seq(Txid) /\ job.valid_txs_list \in Seq(Txid)
      /\ InKinOrder(job.txs)
      /\ \A u \in ToSet(job.txs) : u \in transaction_map => u \in RereadTxs
      /\ \A u \in Block(c) \cap SlpValid :
             u \in ToSet(job.txs) \cup ToSet(job.valid_txs_list) \/ Lost(u)
  BY DEF ServerInv, SyncInv, SyncTypeOK, Job, ReadInv, FetchedInv
<1>3. Block(c)' = Block(c) /\ RereadTxs' = RereadTxs /\ \A u : Lost(u) <=> Lost(u)'
  BY <1>1 DEF Block, RereadTxs, Lost
<1>4. CASE /\ UNCHANGED transaction_map /\ job'.txs = job.txs
           /\ job'.valid_txs_list = job.valid_txs_list
  BY <1>2, <1>3, <1>4 DEF FetchedInv
<1>5. CASE JudgeTx
  <2>. DEFINE t == Head(job.txs)
  <2>1. /\ job.txs # <<>> /\ t \in Txid
        /\ job'.txs = Tail(job.txs)
        /\ transaction_map' \subseteq transaction_map \cup {t}
        /\ job'.valid_txs_list = IF AddTxResult(t) THEN Append(job.valid_txs_list, t)
                                 ELSE job.valid_txs_list
    BY <1>5, JudgeTxMoves DEF ServerInv
  <2>2. /\ InKinOrder(Tail(job.txs)) /\ t \notin ToSet(Tail(job.txs))
        /\ ToSet(job.txs) = {t} \cup ToSet(Tail(job.txs))
    BY <1>2, <2>1, TailInKinOrder
  <2>3. t \in SlpValid => Lost(t) \/ AddTxResult(t)
    BY <1>5, FetchedTxIsJudged
  <2>4. ToSet(Append(job.valid_txs_list, t)) = ToSet(job.valid_txs_list) \cup {t}
    BY <1>2, <2>1, ToSetFacts
  <2>. HIDE DEF t
  <2>5. /\ ToSet(job.valid_txs_list) \subseteq ToSet(job'.valid_txs_list)
        /\ AddTxResult(t) => t \in ToSet(job'.valid_txs_list)
    BY <2>1, <2>4
  <2>6. ASSUME NEW u \in ToSet(job'.txs), u \in transaction_map' PROVE u \in RereadTxs
    BY <1>2, <2>1, <2>2, <2>6
  <2>7. ASSUME NEW u \in Block(c) \cap SlpValid
        PROVE  u \in ToSet(job'.txs) \cup ToSet(job'.valid_txs_list) \/ Lost(u)
    <3>1. CASE u = t
      BY <2>3, <2>5, <2>7, <3>1
    <3>2. CASE u # t
      BY <1>2, <2>1, <2>2, <2>5, <2>7, <3>2
    <3>. QED
      BY <3>1, <3>2
  <2>. QED
    BY <1>3, <2>1, <2>2, <2>6, <2>7 DEF FetchedInv
<1>. QED
  BY <1>1, <1>4, <1>5, JudgeMoves DEF ServerInv

\* The block the node returned stays whole, from the request to the file.
LEMMA FetchedKeepsInv ==
    ASSUME ServerInv, ReadInv, [ServerNext]_serverVars
    PROVE  FetchedInv'
<1>. DEFINE c == current_block_height
<1>1. CASE mpc' \notin {"rpcJob", "write"}
  BY <1>1 DEF FetchedInv
<1>2. CASE RunJob
  BY <1>2, FetchedRuns
<1>3. CASE GetRawBlock
  <2>1. PICK s \in topological_sort(Block(c)) : BeginBlock(s, FALSE)
    BY <1>3 DEF GetRawBlock
  <2>2. /\ mpc = "rpc" /\ chain' = chain /\ c' = c /\ transaction_map' = transaction_map
        /\ reread' = IF c \in processed THEN reread \cup {c} ELSE reread
        /\ job' = NewJob("block", s, FALSE)
    BY <1>3, <2>1 DEF GetRawBlock, MainFrame, nodeVars, BeginBlock, validatorVars
  <2>3. ChainInv /\ Block(c) \in SUBSET Txid
    BY BlockFacts DEF ServerInv
  <2>4. job'.txs = s /\ ToSet(s) = Block(c) /\ InKinOrder(s)
    BY <2>1, <2>2, <2>3, SortIsExact, SortedBlockInKinOrder DEF NewJob
  <2>5. ASSUME NEW u \in ToSet(s), u \in transaction_map PROVE u \in RereadTxs'
    <3>1. u \in Block(c)
      BY <2>4, <2>5
    <3>2. PICK h \in processed : u \in Block(h)
      BY <2>2, <2>5 DEF ReadInv, BlocksInv, EarlyPc
    <3>3. h = c
      BY <2>3, <3>1, <3>2, BlockFacts DEF ChainInv
    <3>4. c \in reread' /\ Block(c)' = Block(c)
      BY <2>2, <3>2, <3>3 DEF Block
    <3>. QED
      BY <2>2, <3>1, <3>4 DEF RereadTxs
  <2>6. Block(c)' = Block(c)
    BY <2>2 DEF Block
  <2>. QED
    BY <2>2, <2>4, <2>5, <2>6 DEF FetchedInv
<1>4. CASE ReadIdle /\ mpc' \in {"rpcJob", "write"}
  <2>1. /\ UNCHANGED <<job, transaction_map>> /\ c' = c /\ mpc \in {"rpcJob", "write"}
    BY <1>4 DEF ReadIdle, syncVars
  <2>2. c \in 0..Len(chain)
    BY <2>1 DEF ServerInv, ProcessedInv
  <2>3. Block(c)' = Block(c)
    <3>1. ASSUME NEW h \in 0..Len(chain) PROVE Block(h)' = Block(h)
      BY <3>1, ReadBlockStays
    <3>. QED
      BY <2>1, <2>2, <3>1 DEF Block
  <2>4. /\ \A u : u \in RereadTxs => u \in RereadTxs'
        /\ \A u : Lost(u) => Lost(u)'
    BY RereadGrows, LostStays
  <2>. QED
    BY <2>1, <2>3, <2>4 DEF ReadInv, FetchedInv
<1>5. CASE Die \/ CacheBlockDone \/ WriteCacheFile \/ (ReadCacheFile /\ mpc' = "cacheJob")
             \/ mpc' \notin EarlyPc
  BY <1>1, <1>5 DEF Die, CacheBlockDone, WriteCacheFile, EarlyPc
<1>. QED
  BY <1>1, <1>2, <1>3, <1>4, <1>5, ReadMoves

\* A block that comes from the cache stays whole.
LEMMA CachedKeepsInv ==
    ASSUME ServerInv, ReadInv, [ServerNext]_serverVars
    PROVE  CachedInv'
<1>. DEFINE c == current_block_height
<1>1. CASE mpc' # "cacheJob"
  BY <1>1 DEF CachedInv
<1>2. CASE RunJob /\ mpc = "cacheJob"
  <2>1. JobStep /\ UNCHANGED <<chain, mpc, current_block_height, reread>>
    BY <1>2 DEF RunJob, mainVars, nodeVars, history
  <2>2. Block(c)' = Block(c) /\ \A u : Lost(u) <=> Lost(u)'
    BY <2>1 DEF Block, RereadTxs, Lost
  <2>3. /\ job.txs \in Seq(Txid) /\ job.trusted
        /\ transaction_map \cap Block(c) \subseteq valid
        /\ \A u \in Block(c) \cap SlpValid : u \in valid \cup ToSet(job.txs) \/ Lost(u)
        /\ ToSet(job.txs) \subseteq Block(c)
    BY <1>2 DEF ServerInv, SyncInv, SyncTypeOK, Job, ReadInv, CachedInv, JobInv, JobTxs
  <2>4. CASE UNCHANGED <<transaction_map, valid>> /\ job'.txs = job.txs /\ job'.trusted = job.trusted
    BY <2>2, <2>3, <2>4 DEF CachedInv
  <2>5. CASE JudgeTx
    <3>. DEFINE t == Head(job.txs)
    <3>1. /\ job.txs # <<>> /\ t \in Txid /\ t \in SlpValid
          /\ has(t) => UNCHANGED validatorVars
          /\ ~has(t) => AddTx(t, job.trusted)
          /\ job'.txs = Tail(job.txs) /\ job'.trusted = job.trusted
          /\ valid \subseteq valid'
          /\ transaction_map' \subseteq transaction_map \cup {t}
      BY <2>3, <2>5, JudgeTxFacts, JudgeTxMoves DEF ServerInv
    <3>2. ToSet(job.txs) = {t} \cup ToSet(Tail(job.txs))
      BY <2>3, <3>1, TailSet
    <3>. HIDE DEF t
    <3>3. Tx[t].type # "invalid"
      BY <3>1, SlpValidJustified DEF Justified
    <3>4. t \in valid'
      <4>1. CASE has(t)
        BY <2>3, <3>1, <3>2, <4>1 DEF has
      <4>2. CASE ~has(t)
        BY <2>3, <3>1, <3>3, <4>2 DEF AddTx
      <4>. QED
        BY <4>1, <4>2
    <3>5. transaction_map' \cap Block(c) \subseteq valid'
      BY <2>3, <3>1, <3>4
    <3>6. \A u \in Block(c) \cap SlpValid : u \in valid' \cup ToSet(job'.txs) \/ Lost(u)
      BY <2>3, <3>1, <3>2, <3>4
    <3>. QED
      BY <2>2, <2>3, <3>1, <3>5, <3>6 DEF CachedInv
  <2>. QED
    BY <2>1, <2>4, <2>5, JudgeMoves DEF ServerInv
<1>3. CASE ReadCacheFile /\ mpc' = "cacheJob"
  <2>. DEFINE file == cache[c]
  <2>1. /\ mpc = "cache" /\ file.state = "whole" /\ c' = c /\ UNCHANGED <<chain, reread>>
        /\ UNCHANGED <<transaction_map, valid>> /\ job' = NewJob("block", file.txs, TRUE)
    BY <1>3 DEF ReadCacheFile, MainFrame, nodeVars, BeginBlock, validatorVars
  <2>2. c \in Height /\ DOMAIN cache = Height
    BY <2>1, CacheFileFacts DEF ServerInv, CacheInv
  <2>3. job'.txs = file.txs /\ job'.trusted
    BY <2>1 DEF NewJob
  <2>4. \A u \in Block(c) \cap SlpValid : u \in ToSet(file.txs) \/ Lost(u)
    BY <2>1, <2>2 DEF ReadInv, CacheLosesOnlyReread, Lost
  <2>5. transaction_map \cap Block(c) = {}
    <3>1. ASSUME NEW u \in transaction_map, u \in Block(c) PROVE FALSE
      <4>1. PICK h \in processed : u \in Block(h)
        BY <2>1, <3>1 DEF ReadInv, BlocksInv, EarlyPc
      <4>2. h < c
        BY <2>1, <4>1 DEF ServerInv, ProcessedInv
      <4>3. h = c
        BY <3>1, <4>1, BlockFacts DEF ServerInv, ChainInv
      <4>. QED
        BY <4>2, <4>3 DEF ServerInv, MainInv
    <3>. QED
      BY <3>1
  <2>6. Block(c)' = Block(c) /\ \A u : Lost(u) <=> Lost(u)'
    BY <2>1 DEF Block, RereadTxs, Lost
  <2>. QED
    BY <2>1, <2>3, <2>4, <2>5, <2>6 DEF CachedInv
<1>4. CASE ReadIdle /\ mpc' = "cacheJob"
  <2>1. UNCHANGED <<job, transaction_map, valid>> /\ c' = c /\ mpc = "cacheJob"
    BY <1>4 DEF ReadIdle, syncVars
  <2>2. c \in 0..Len(chain)
    BY <2>1 DEF ServerInv, ProcessedInv
  <2>3. Block(c)' = Block(c)
    <3>1. ASSUME NEW h \in 0..Len(chain) PROVE Block(h)' = Block(h)
      BY <3>1, ReadBlockStays
    <3>. QED
      BY <2>1, <2>2, <3>1 DEF Block
  <2>4. \A u : Lost(u) => Lost(u)'
    BY LostStays
  <2>. QED
    BY <2>1, <2>3, <2>4 DEF ReadInv, CachedInv
<1>5. CASE Die \/ CacheBlockDone \/ WriteCacheFile \/ GetRawBlock \/ mpc' \notin EarlyPc
             \/ (RunJob /\ mpc # "cacheJob")
  BY <1>1, <1>5 DEF Die, CacheBlockDone, WriteCacheFile, GetRawBlock, EarlyPc, RunJob, mainVars
<1>. QED
  BY <1>1, <1>2, <1>3, <1>4, <1>5, ReadMoves

\* What main() has of the blocks it has read.
LEMMA BlocksKeepInv ==
    ASSUME ServerInv, ReadInv, [ServerNext]_serverVars
    PROVE  BlocksInv'
<1>. DEFINE c == current_block_height
            At == mpc \in {"cacheJob", "rpcJob", "write"}
<1>1. /\ processed \subseteq 0..Len(chain) /\ \A h \in processed : Block(h)' = Block(h)
  <2>1. processed \subseteq 0..Len(chain)
    BY DEF ServerInv, ProcessedInv
  <2>. QED
    BY <2>1, ReadBlockStays
<1>2. \A u : Lost(u) => Lost(u)'
  BY LostStays
<1>3. CASE mpc' \notin EarlyPc
  BY <1>3 DEF BlocksInv
<1>4. CASE Die
  <2>1. transaction_map' = {} /\ processed' = {}
    BY <1>4 DEF Die, Restart
  <2>. QED
    BY <2>1 DEF BlocksInv
<1>5. ASSUME mpc \in EarlyPc
      PROVE  /\ \A t \in transaction_map : \E h \in processed : t \in Block(h)
             /\ \A h \in processed : \A t \in Block(h) \cap SlpValid :
                    t \in valid \/ Lost(t) \/ (At /\ h = c)
  BY <1>5 DEF ReadInv, BlocksInv
<1>6. CASE ReadIdle
  <2>1. /\ mpc \in EarlyPc /\ UNCHANGED <<transaction_map, valid, processed>>
        /\ At => At' /\ c' = c
    BY <1>6 DEF ReadIdle, syncVars
  <2>. QED
    BY <1>1, <1>2, <1>5, <2>1 DEF BlocksInv
<1>7. CASE RunJob /\ mpc \in EarlyPc
  <2>1. JobStep /\ UNCHANGED <<chain, mpc, current_block_height, reread, processed>>
    BY <1>7 DEF RunJob, mainVars, nodeVars, history
  <2>2. /\ transaction_map' \subseteq transaction_map \cup JobTxs(job)
        /\ valid \subseteq valid'
    <3>1. CASE ~JudgeTx
      BY <2>1, <3>1, JudgeMoves DEF ServerInv
    <3>2. CASE JudgeTx
      <4>1. /\ job.txs # <<>> /\ job.txs \in Seq(Txid) /\ valid \subseteq valid'
            /\ transaction_map' \subseteq transaction_map \cup {Head(job.txs)}
        BY <3>2, JudgeTxMoves DEF ServerInv, SyncInv, SyncTypeOK, Job
      <4>2. Head(job.txs) \in ToSet(job.txs)
        BY <4>1, ToSetFacts
      <4>. QED
        BY <4>1, <4>2 DEF JobTxs
    <3>. QED
      BY <3>1, <3>2
  <2>3. At
    <3>1. job.kind # "none"
      BY <2>1, JobStepHolds DEF ReadInv, ServerInv
    <3>2. lpc = "off"
      BY <1>7 DEF ServerInv, MainInv
    <3>. QED
      BY <1>7, <3>1, <3>2 DEF ReadInv, HoldInv, EarlyPc
  <2>4. JobTxs(job) \subseteq Block(c) /\ c \in processed
    BY <2>3 DEF ServerInv, JobInv, ProcessedInv
  <2>. QED
    BY <1>1, <1>2, <1>5, <1>7, <2>1, <2>2, <2>4 DEF BlocksInv
<1>8. CASE (ReadCacheFile /\ mpc' = "cacheJob") \/ GetRawBlock
  <2>1. /\ mpc \in {"cache", "rpc"} /\ mpc' \in {"cacheJob", "rpcJob"} /\ c' = c
        /\ processed' = processed \cup {c} /\ chain' = chain
        /\ UNCHANGED <<transaction_map, valid>>
    BY <1>8 DEF ReadCacheFile, GetRawBlock, MainFrame, nodeVars, BeginBlock, validatorVars
  <2>2. /\ \A t \in transaction_map : \E h \in processed : t \in Block(h)
        /\ \A h \in processed : \A t \in Block(h) \cap SlpValid : t \in valid \/ Lost(t)
    BY <1>5, <2>1 DEF EarlyPc
  <2>. QED
    BY <1>1, <1>2, <2>1, <2>2 DEF BlocksInv
<1>9. CASE CacheBlockDone
  <2>1. /\ mpc = "cacheJob" /\ mpc' = "cache" /\ job.txs = <<>> /\ processed' = processed
        /\ UNCHANGED <<transaction_map, valid>>
    BY <1>9 DEF CacheBlockDone, EndJob, JobDone, validatorVars
  <2>2. \A t \in Block(c) \cap SlpValid : t \in valid \/ Lost(t)
    BY <2>1, NoJobIsFresh DEF ReadInv, CachedInv
  <2>3. /\ \A t \in transaction_map : \E h \in processed : t \in Block(h)
        /\ \A h \in processed : \A t \in Block(h) \cap SlpValid : t \in valid \/ Lost(t)
    BY <1>5, <2>1, <2>2 DEF EarlyPc
  <2>. QED
    BY <1>1, <1>2, <2>1, <2>3 DEF BlocksInv
<1>10. CASE WriteCacheFile
  <2>1. /\ mpc = "write" /\ mpc' = "rpc" /\ job.txs = <<>> /\ processed' = processed
        /\ UNCHANGED <<transaction_map, valid>>
    BY <1>10 DEF WriteCacheFile, EndJob, JobDone, validatorVars
  <2>2. \A t \in Block(c) \cap SlpValid : t \in valid \/ Lost(t)
    BY <2>1, NoJobIsFresh DEF ReadInv, FetchedInv, ServerInv, JobInv
  <2>3. /\ \A t \in transaction_map : \E h \in processed : t \in Block(h)
        /\ \A h \in processed : \A t \in Block(h) \cap SlpValid : t \in valid \/ Lost(t)
    BY <1>5, <2>1, <2>2 DEF EarlyPc
  <2>. QED
    BY <1>1, <1>2, <2>1, <2>3 DEF BlocksInv
<1>11. CASE RunJob /\ mpc \notin EarlyPc
  BY <1>3, <1>11 DEF RunJob, mainVars
<1>. QED
  BY <1>3, <1>4, <1>6, <1>7, <1>8, <1>9, <1>10, <1>11, ReadMoves

\* What a step does to the files.
LEMMA FilesMove ==
    ASSUME [ServerNext]_serverVars
    PROVE  cache' = cache \/ OpenCacheFile \/ WriteCacheFile
<1>1. CASE MainStep
  BY <1>1 DEF MainStep, ReadCacheFile, TornCacheFile, CacheBlockDone, GetBlockchainInfo,
       GetRawBlock, RpcLoopEnds, SpawnListener, GetMempool, AppendMempool,
       ProcessStartupMempool, StartupMempoolDone, Serve, StartFrame, Die
<1>2. CASE ListenStep
  BY <1>2 DEF ListenStep, ListenFrame, Connect, ReceiveStartupTx, PushStartupTx,
       ReceiveStartupBlock, ReceiveTx, TxDone, PublishTx, PublishThrows, ReceiveBlock,
       BlockDone, RefreshMempool, RefreshMempoolDone, Die
<1>3. CASE Failure
  BY <1>3 DEF Failure, GetBlockchainInfoFails, GetRawBlockFails, GetMempoolFails,
       RefreshMempoolFails, LoseMessage, Crash, StartFrame, Die
<1>4. CASE Start \/ RunJob \/ UNCHANGED serverVars \/ (\E t \in Txid : Broadcast(t))
             \/ \E B \in SUBSET Txid, announce \in BOOLEAN : Mine(B, announce)
  BY <1>4 DEF Start, RunJob, serverVars, Broadcast, Mine
<1>. QED
  BY <1>1, <1>2, <1>3, <1>4 DEF ServerNext

\* A file that is written is complete but for what was lost, and stays so.
LEMMA FilesKeepInv ==
    ASSUME ServerInv, ReadInv, [ServerNext]_serverVars
    PROVE  CacheLosesOnlyReread'
<1>. DEFINE c == current_block_height
            Complete(h) == cache[h].state = "whole" =>
                               \A t \in Block(h) \cap SlpValid : t \in ToSet(cache[h].txs) \/ Lost(t)
<1>1. /\ cache \in [Height -> File]
      /\ \A h \in Height : cache[h].state # "absent" => h \in 0..Len(chain)
  <2>1. /\ cache \in [Height -> File]
        /\ \A h \in Height : cache[h].state # "absent" => h <= Len(chain)
        /\ Len(chain) \in Nat
    BY BlockFacts DEF ServerInv, CacheInv
  <2>2. \A h \in Height : h \in Nat
    BY ServerAssumption DEF Height, ServerAssumption
  <2>. QED
    BY <2>1, <2>2
<1>2. \A u : Lost(u) => Lost(u)'
  BY LostStays
<1>3. \A h \in Height : Complete(h)
  BY <1>1 DEF ReadInv, CacheLosesOnlyReread, Lost
<1>4. DOMAIN cache' = Height
  BY <1>1, FilesMove DEF OpenCacheFile, WriteCacheFile
<1>5. ASSUME NEW h \in Height, cache'[h] = cache[h], cache[h].state = "whole",
             NEW t \in Block(h)' \cap SlpValid
      PROVE  t \in ToSet(cache'[h].txs) \/ Lost(t)'
  <2>1. Block(h)' = Block(h)
    BY <1>1, <1>5, ReadBlockStays
  <2>. QED
    BY <1>2, <1>3, <1>5, <2>1
<1>6. ASSUME NEW h \in Height, cache'[h].state = "whole", cache'[h] # cache[h],
             NEW t \in Block(h)' \cap SlpValid
      PROVE  t \in ToSet(cache'[h].txs) \/ Lost(t)'
  <2>1. CASE OpenCacheFile
    BY <1>1, <1>6, <2>1 DEF OpenCacheFile, TornFile
  <2>2. CASE WriteCacheFile
    <3>1. /\ mpc = "write" /\ job.txs = <<>> /\ h = c /\ chain' = chain
          /\ cache'[h].txs = job.valid_txs_list
      BY <1>1, <1>6, <2>2 DEF WriteCacheFile, EndJob, JobDone, MainFrame, nodeVars
    <3>2. t \in Block(c)
      BY <1>6, <3>1 DEF Block
    <3>. QED
      BY <1>2, <1>6, <3>1, <3>2, NoJobIsFresh DEF ReadInv, FetchedInv
  <2>. QED
    BY <1>6, <2>1, <2>2, FilesMove
<1>. QED
  BY <1>4, <1>5, <1>6 DEF CacheLosesOnlyReread, Lost

\* ReadInv is inductive, on top of ServerInv.
LEMMA ReadStepKeepsInv ==
    ASSUME ServerInv, ReadInv, [ServerNext]_serverVars
    PROVE  ReadInv'
  BY HoldKeepsInv, BlocksKeepInv, CachedKeepsInv, FetchedKeepsInv, FilesKeepInv DEF ReadInv

\* Initially nothing was read and there are no files.
LEMMA ReadInitInv ==
    ASSUME ServerInit
    PROVE  ReadInv
<1>1. /\ job = NoJob /\ transaction_map = {} /\ processed = {} /\ mpc = "exited"
      /\ cache = [h \in Height |-> NoFile]
  BY DEF ServerInit, SyncInit, ValidatorInit
<1>2. job.kind = "none" /\ job.txs = <<>> /\ job.valid_txs = {}
  BY <1>1 DEF NoJob, NewJob
<1>3. CacheLosesOnlyReread
  BY <1>1 DEF CacheLosesOnlyReread, NoFile
<1>. QED
  BY <1>1, <1>2, <1>3 DEF ReadInv, HoldInv, BlocksInv, CachedInv, FetchedInv

\* cache_slp_block writes what one call of process_block accepted.  Whatever
\* fails, dies and is started again, a complete file lacks an SLP-valid
\* transaction of its block only if that transaction, or something it descends
\* from, is in a block that one process read twice.
THEOREM CacheLosesOnlyWhatWasReread == ServerSpec => []CacheLosesOnlyReread
<1>1. ServerInit => ReadInv
  BY ReadInitInv
<1>2. ServerInv /\ ReadInv /\ [ServerNext]_serverVars => ReadInv'
  BY ReadStepKeepsInv
<1>3. ReadInv => CacheLosesOnlyReread
  BY DEF ReadInv
<1>. QED
  BY <1>1, <1>2, <1>3, ServerInvariant, PTL DEF ServerSpec

-----------------------------------------------------------------------------
(* What the process was told of. *)

\* What was judged is valid, or its absence is explained.
JudgedInv == \A t \in transaction_map \cap SlpValid : t \in valid \/ Explained(t)

\* What a step can mean for the handler call and for the verdicts.
LEMMA JobMoves ==
    ASSUME ServerInv, HoldInv, [ServerNext]_serverVars
    PROVE  \/ Die \/ RunJob
           \/ UNCHANGED <<transaction_map, valid, early>> /\ (job' = job \/ job.txs = <<>>)
<1>1. ASSUME EndJob PROVE UNCHANGED <<transaction_map, valid, early>> /\ job.txs = <<>>
  BY <1>1 DEF EndJob, JobDone, validatorVars
<1>2. ASSUME NEW txs, NEW trust, BeginBlock(txs, trust)
      PROVE  UNCHANGED <<transaction_map, valid, early>> /\ job.txs = <<>>
  BY <1>2 DEF BeginBlock, MutexFree, validatorVars, HoldInv
<1>3. ASSUME NEW txs, BeginMempool(txs)
      PROVE  UNCHANGED <<transaction_map, valid, early>> /\ job.txs = <<>>
  BY <1>3 DEF BeginMempool, MutexFree, validatorVars, HoldInv
<1>4. ASSUME NEW t, BeginTx(t)
      PROVE  UNCHANGED <<transaction_map, valid, early>> /\ job.txs = <<>>
  BY <1>4 DEF BeginTx, MutexFree, validatorVars, HoldInv
<1>5. CASE ReadCacheFile
  BY <1>2, <1>5 DEF ReadCacheFile, syncVars
<1>6. CASE GetRawBlock \/ ReceiveBlock
  BY <1>2, <1>6 DEF GetRawBlock, ReceiveBlock
<1>7. CASE ProcessStartupMempool \/ RefreshMempool
  BY <1>3, <1>7 DEF ProcessStartupMempool, RefreshMempool
<1>8. CASE ReceiveTx
  BY <1>4, <1>8 DEF ReceiveTx
<1>9. CASE CacheBlockDone \/ WriteCacheFile \/ StartupMempoolDone \/ TxDone \/ BlockDone
             \/ RefreshMempoolDone
  BY <1>1, <1>9 DEF CacheBlockDone, WriteCacheFile, StartupMempoolDone, TxDone, BlockDone,
                    RefreshMempoolDone
<1>10. CASE TornCacheFile \/ PublishThrows \/ GetBlockchainInfoFails \/ RefreshMempoolFails
              \/ Crash
  BY <1>10 DEF TornCacheFile, PublishThrows, GetBlockchainInfoFails, RefreshMempoolFails, Crash
<1>11. CASE \/ GetBlockchainInfo \/ OpenCacheFile \/ RpcLoopEnds \/ SpawnListener \/ GetMempool
            \/ AppendMempool \/ Serve
  BY <1>11 DEF GetBlockchainInfo, OpenCacheFile, RpcLoopEnds, SpawnListener, GetMempool,
               AppendMempool, Serve, syncVars
<1>12. CASE \/ Connect \/ ReceiveStartupTx \/ PushStartupTx \/ ReceiveStartupBlock \/ PublishTx
            \/ GetRawBlockFails \/ GetMempoolFails \/ LoseMessage \/ Start
  BY <1>12 DEF Connect, ReceiveStartupTx, PushStartupTx, ReceiveStartupBlock, PublishTx,
               GetRawBlockFails, GetMempoolFails, LoseMessage, Start, syncVars
<1>13. CASE \/ UNCHANGED serverVars
            \/ \E t \in Txid : Broadcast(t)
            \/ \E B \in SUBSET Txid, announce \in BOOLEAN : Mine(B, announce)
  BY <1>13 DEF serverVars, Broadcast, Mine, syncVars
<1>. QED
  BY <1>5, <1>6, <1>7, <1>8, <1>9, <1>10, <1>11, <1>12, <1>13
  DEF ServerNext, MainStep, ListenStep, Failure

\* What a process was not told of stays so, while it lives.
LEMMA MissedGrows ==
    ASSUME [ServerNext]_serverVars
    PROVE  Die \/ missed \subseteq missed'
<1>1. CASE MainStep
  BY <1>1 DEF MainStep, ReadCacheFile, TornCacheFile, CacheBlockDone, GetBlockchainInfo,
       GetRawBlock, OpenCacheFile, WriteCacheFile, RpcLoopEnds, MainFrame, SpawnListener,
       GetMempool, AppendMempool, ProcessStartupMempool, StartupMempoolDone, Serve
<1>2. CASE ListenStep
  BY <1>2 DEF ListenStep, Connect, ReceiveStartupTx, PushStartupTx, ReceiveStartupBlock,
       ReceiveTx, TxDone, PublishTx, PublishThrows, ReceiveBlock, BlockDone, RefreshMempool,
       RefreshMempoolDone
<1>3. CASE Failure
  BY <1>3 DEF Failure, GetBlockchainInfoFails, GetRawBlockFails, GetMempoolFails,
       RefreshMempoolFails, LoseMessage, Crash, MainFrame
<1>4. CASE Start \/ RunJob \/ UNCHANGED serverVars
  BY <1>4 DEF Start, RunJob, serverVars, history
<1>5. ASSUME NEW t \in Txid, Broadcast(t) PROVE missed \subseteq missed'
  BY <1>5 DEF Broadcast
<1>6. ASSUME NEW B \in SUBSET Txid, NEW announce \in BOOLEAN, Mine(B, announce)
      PROVE  missed \subseteq missed'
  BY <1>6 DEF Mine
<1>. QED
  BY <1>1, <1>2, <1>3, <1>4, <1>5, <1>6 DEF ServerNext

\* A transaction is explained if one of its kin is.
LEMMA ExplainedKin ==
    ASSUME NEW t \in Txid, NEW p \in Kin(t), Explained(p)
    PROVE  Explained(t)
  BY AncestryFacts DEF Explained

\* Whatever is judged, in whatever order, is valid or explained.
LEMMA JudgedKeepsInv ==
    ASSUME ServerInv, HoldInv, JudgedInv, [ServerNext]_serverVars
    PROVE  JudgedInv'
<1>1. CASE Die
  BY <1>1 DEF Die, Restart, JudgedInv
<1>2. ASSUME ~Die, early \subseteq early' PROVE \A u : Explained(u) => Explained(u)'
  BY <1>2, MissedGrows, RereadGrows DEF Explained
<1>3. CASE ~Die /\ UNCHANGED <<transaction_map, valid, early>>
  BY <1>2, <1>3 DEF JudgedInv
<1>4. CASE ~Die /\ RunJob /\ JudgeTx
  <2>0. PICK t \in Txid : t = Head(job.txs)
    BY <1>4, JudgeTxMoves DEF ServerInv
  <2>1. /\ has(t) => UNCHANGED validatorVars
        /\ ~has(t) => AddTx(t, job.trusted)
        /\ valid \subseteq valid'
        /\ transaction_map' \subseteq transaction_map \cup {t}
    BY <1>4, <2>0, JudgeTxFacts, JudgeTxMoves DEF ServerInv
  <2>2. CASE has(t)
    BY <1>2, <1>4, <2>1, <2>2 DEF JudgedInv, validatorVars
  <2>3. CASE t \notin transaction_map
    <3>1. early \subseteq early'
      BY <2>1, <2>3 DEF AddTx, validatorVars, has
    <3>2. \A u : Explained(u) => Explained(u)'
      BY <1>2, <1>4, <3>1
    <3>3. ASSUME t \in SlpValid PROVE t \in valid' \/ Explained(t)'
      <4>1. Tx[t].type # "invalid"
        BY <3>3, SlpValidJustified DEF Justified
      <4>2. CASE Kin(t) \subseteq transaction_map /\ \A p \in Kin(t) : p \in SlpValid => p \in valid
        BY <1>4, <2>0, <2>3, <3>3, <4>2, JudgedValid DEF ServerInv
      <4>3. ASSUME ~(Kin(t) \subseteq transaction_map) PROVE Explained(t)'
        <5>1. t \in early'
          BY <2>1, <2>3, <4>1, <4>3 DEF AddTx, has
        <5>2. t \in Ancestry[t]
          BY <2>1, AncestryFacts
        <5>. QED
          BY <5>1, <5>2 DEF Explained
      <4>4. ASSUME NEW p \in Kin(t), p \in SlpValid, p \notin valid, Kin(t) \subseteq transaction_map
            PROVE  Explained(t)'
        <5>1. Explained(p)
          BY <4>4 DEF JudgedInv
        <5>2. Explained(t)
          BY <2>1, <5>1, ExplainedKin
        <5>. QED
          BY <3>2, <5>2
      <4>. QED
        BY <4>2, <4>3, <4>4
    <3>. QED
      BY <2>1, <3>2, <3>3 DEF JudgedInv
  <2>. QED
    BY <2>2, <2>3 DEF has
<1>5. CASE ~Die /\ RunJob /\ ~JudgeTx
  BY <1>3, <1>5, JudgeMoves DEF RunJob, ServerInv
<1>. QED
  BY <1>1, <1>3, <1>4, <1>5, JobMoves

\* The transactions that were judged, that are about to be, or that the process
\* was not told of.
Known == transaction_map \cup missed \cup ToSet(job.txs)

\* What is on its way: in blocks, in notifications, or in main()'s listing.
BlocksToCome == UNION {zmq[i].txs : i \in {k \in DOMAIN zmq : zmq[k].topic = "rawblock"}}
Announced == UNION {zmq[i].txs : i \in DOMAIN zmq}
Held      == IF lpc = "push" THEN lmsg.txs ELSE {}
TxsToCome == Announced \cup Held
Listed == IF mpc = "append" THEN fetched \cup startup
          ELSE IF mpc = "copy" THEN startup ELSE {}

\* main() while it reads blocks from the node, and once it has the mempool.
RpcPc     == {"rpc", "rpcJob", "write"}
PendingPc == {"append", "copy", "mempoolJob", "flag", "serving"}

\* A failed request takes main() back by one block, and no further.
HeightInv ==
    /\ failures <= MaxFailures
    /\ mpc \in {"exited", "cache", "cacheJob"} => current_block_height >= StartHeight
    /\ mpc \in {"info"} \cup RpcPc => current_block_height + failures >= StartHeight - 1
    /\ mpc = "info" => StartHeight..current_block_height \subseteq processed

\* The blocks the RPC loop does not go to, as they came after its last look.
AheadInv ==
    mpc \in RpcPc => \A h \in DOMAIN chain : h > best => chain[h] \subseteq missed

\* What is confirmed is known or announced, or was lost.
ConfirmedInv ==
    mpc \in LatePc => \A t \in Confirmed \cap SlpValid : t \in Known \cup BlocksToCome \/ Lost(t)

\* What the node holds unconfirmed is known, announced or listed.
PendingInv ==
    mpc \in PendingPc => mempool \cap SlpValid \subseteq Known \cup TxsToCome \cup Listed

\* Of what it should know the process knows, or is going to be told.
ToldInv ==
    /\ JudgedInv
    /\ HeightInv
    /\ AheadInv
    /\ ConfirmedInv
    /\ PendingInv

\* What is known stays so, while the process lives.
LEMMA KnownStays ==
    ASSUME ServerInv, HoldInv, [ServerNext]_serverVars, ~Die,
           NEW u \in Known, u \in SlpValid
    PROVE  u \in Known'
<1>1. missed \subseteq missed' /\ ToSet(<<>>) = {}
  BY MissedGrows, NoJobIsFresh
<1>2. CASE UNCHANGED <<transaction_map, valid, early>> /\ (job' = job \/ job.txs = <<>>)
  BY <1>1, <1>2 DEF Known
<1>3. CASE RunJob /\ ~JudgeTx
  BY <1>1, <1>3, JudgeMoves DEF Known, RunJob, ServerInv
<1>4. CASE RunJob /\ JudgeTx
  <2>1. /\ job.txs # <<>> /\ job.txs \in Seq(Txid) /\ job'.txs = Tail(job.txs)
        /\ transaction_map \subseteq transaction_map'
    BY <1>4, JudgeTxMoves DEF ServerInv, SyncInv, SyncTypeOK, Job
  <2>2. ToSet(job.txs) = {Head(job.txs)} \cup ToSet(job'.txs)
    BY <2>1, TailSet
  <2>3. ASSUME u = Head(job.txs) PROVE u \in transaction_map'
    <3>1. CASE has(u)
      BY <2>1, <3>1 DEF has
    <3>2. CASE ~has(u)
      <4>1. AddTx(u, job.trusted)
        BY <1>4, <2>3, <3>2, JudgeTxFacts DEF ServerInv
      <4>2. Tx[u].type # "invalid"
        BY SlpValidJustified DEF Justified
      <4>. QED
        BY <4>1, <4>2 DEF AddTx
    <3>. QED
      BY <3>1, <3>2
  <2>. QED
    BY <1>1, <2>1, <2>2, <2>3 DEF Known
<1>. QED
  BY <1>2, <1>3, <1>4, JobMoves

\* A notification stays in the socket until the process is told of what it says,
\* unless the notification gets lost.
LEMMA MessagesArrive ==
    ASSUME ServerInv, HoldInv, [ServerNext]_serverVars, ~Die, NEW i \in DOMAIN zmq
    PROVE  \/ \E j \in DOMAIN zmq' : zmq'[j] = zmq[i]
           \/ zmq[i].txs \subseteq Known'
           \/ zmq[i].topic = "rawtx" /\ lpc = "recv" /\ lpc' = "push" /\ lmsg' = zmq[i]
<1>. DEFINE Stays == \E j \in DOMAIN zmq' : zmq'[j] = zmq[i]
<1>1. zmq \in Seq(Message)
  BY DEF ServerInv, ZmqInv, InOrder
<1>2. CASE zmq' = zmq
  BY <1>2
<1>3. ASSUME NEW msgs \in Seq(Message), zmq' = zmq \o msgs PROVE Stays
  <2>. DEFINE n == Len(zmq)
              m == Len(msgs)
  <2>1. /\ n \in Nat /\ m \in Nat /\ DOMAIN zmq = 1..n /\ DOMAIN zmq' = 1..(n + m)
        /\ \A k \in 1..n : zmq'[k] = zmq[k]
    BY <1>1, <1>3
  <2>. HIDE DEF n, m
  <2>. QED
    BY <2>1
<1>4. ASSUME zmq # <<>>, zmq' = Tail(zmq) PROVE Stays \/ zmq[i] = Head(zmq)
  <2>. DEFINE r == Tail(zmq)
              n == Len(zmq)
  <2>1. /\ n \in Nat /\ n >= 1 /\ DOMAIN zmq = 1..n /\ Head(zmq) = zmq[1]
        /\ DOMAIN r = 1..(n - 1) /\ \A k \in 1..(n - 1) : r[k] = zmq[k + 1]
    BY <1>1, <1>4
  <2>2. zmq' = r
    BY <1>4
  <2>. HIDE DEF r, n
  <2>3. CASE i = 1
    BY <2>1, <2>3
  <2>4. CASE i # 1
    <3>1. i - 1 \in 1..(n - 1) /\ (i - 1) + 1 = i
      BY <2>1, <2>4
    <3>2. r[i - 1] = zmq[i]
      BY <2>1, <3>1
    <3>. QED
      BY <2>1, <2>2, <3>1, <3>2
  <2>. QED
    BY <2>3, <2>4
<1>5. ASSUME NEW t \in Txid, Broadcast(t) PROVE Stays
  <2>. DEFINE msgs == <<RawTx(t)>>
  <2>1. msgs \in Seq(Message)
    BY PublishedMessages
  <2>2. zmq' = zmq \/ zmq' = zmq \o msgs
    BY <1>5 DEF Broadcast, Publish
  <2>. HIDE DEF msgs
  <2>. QED
    BY <1>2, <1>3, <2>1, <2>2
<1>6. ASSUME NEW B \in SUBSET Txid, NEW announce \in BOOLEAN, Mine(B, announce) PROVE Stays
  <2>1. PICK msgs \in Seq(Message) : zmq' = zmq \/ zmq' = zmq \o msgs
    BY <1>6, MinedMessages
  <2>. QED
    BY <1>2, <1>3, <2>1
<1>7. CASE LoseMessage
  <2>1. zmq # <<>> /\ zmq' = Tail(zmq) /\ Head(zmq).txs \subseteq missed'
    BY <1>7 DEF LoseMessage
  <2>. QED
    BY <1>4, <2>1 DEF Known
<1>8. CASE ReceiveStartupTx
  BY <1>4, <1>8 DEF ReceiveStartupTx, Receive
<1>9. CASE ReceiveStartupBlock
  <2>1. zmq # <<>> /\ zmq' = Tail(zmq) /\ Head(zmq).txs \subseteq missed'
    BY <1>9 DEF ReceiveStartupBlock, Receive
  <2>. QED
    BY <1>4, <2>1 DEF Known
<1>10. CASE ReceiveTx
  <2>1. /\ zmq # <<>> /\ zmq' = Tail(zmq) /\ Head(zmq).topic = "rawtx"
        /\ \E t \in Head(zmq).txs : BeginTx(t)
    BY <1>10 DEF ReceiveTx, Receive
  <2>2. PICK t \in Txid : Head(zmq).txs = {t}
    BY <2>1, HeadFacts DEF ServerInv, ZmqInv, InOrder
  <2>3. job'.txs = <<t>>
    BY <2>1, <2>2 DEF BeginTx, NewJob
  <2>4. t \in ToSet(job'.txs)
    BY <2>3 DEF ToSet
  <2>. QED
    BY <1>4, <2>1, <2>2, <2>4 DEF Known
<1>11. CASE ReceiveBlock
  <2>1. zmq # <<>> /\ zmq' = Tail(zmq)
    BY <1>11 DEF ReceiveBlock, Receive
  <2>2. PICK s \in topological_sort(Head(zmq).txs) : BeginBlock(s, FALSE)
    BY <1>11 DEF ReceiveBlock
  <2>3. ToSet(s) = Head(zmq).txs
    BY <2>1, <2>2, HeadFacts, SortIsExact
  <2>4. job'.txs = s
    BY <2>2 DEF BeginBlock, NewJob
  <2>. QED
    BY <1>4, <2>1, <2>3, <2>4 DEF Known
<1>12. CASE Start \/ RunJob \/ UNCHANGED serverVars
  BY <1>2, <1>12 DEF Start, RunJob, serverVars, nodeVars
<1>13. CASE MainStep
  BY <1>2, <1>13 DEF MainStep, MainFrame, StartFrame, nodeVars, ReadCacheFile, TornCacheFile,
       CacheBlockDone, GetBlockchainInfo, GetRawBlock, OpenCacheFile, WriteCacheFile,
       RpcLoopEnds, SpawnListener, GetMempool, AppendMempool, ProcessStartupMempool,
       StartupMempoolDone, Serve
<1>14. CASE \/ Connect \/ PushStartupTx \/ TxDone \/ PublishTx \/ PublishThrows \/ BlockDone
            \/ RefreshMempool \/ RefreshMempoolDone
  BY <1>2, <1>14 DEF Connect, PushStartupTx, TxDone, PublishTx, PublishThrows, BlockDone,
                     RefreshMempool, RefreshMempoolDone
<1>15. CASE \/ GetBlockchainInfoFails \/ GetRawBlockFails \/ GetMempoolFails
            \/ RefreshMempoolFails \/ Crash
  BY <1>2, <1>15 DEF GetBlockchainInfoFails, GetRawBlockFails, GetMempoolFails,
                     RefreshMempoolFails, Crash, MainFrame, StartFrame, nodeVars
<1>. QED
  BY <1>5, <1>6, <1>7, <1>8, <1>9, <1>10, <1>11, <1>12, <1>13, <1>14, <1>15
  DEF ServerNext, ListenStep, Failure

\* main() does not fall back further than requests have failed.
LEMMA HeightKeepsInv ==
    ASSUME ServerInv, HeightInv, [ServerNext]_serverVars
    PROVE  HeightInv'
<1>. DEFINE c == current_block_height
            f == failures
<1>1. /\ c \in Int /\ f \in Nat /\ f <= MaxFailures /\ MaxFailures \in Nat /\ StartHeight \in Nat
      /\ mpc \in EarlyPc => lpc = "off"
  BY ServerAssumption DEF ServerInv, MainInv, SetsInv, HeightInv, ServerAssumption
<1>2. ASSUME RpcFails PROVE f' = f + 1 /\ f' <= MaxFailures
  BY <1>1, <1>2 DEF RpcFails
<1>3. ASSUME UNCHANGED <<mpc, current_block_height, failures, processed>> PROVE HeightInv'
  BY <1>3 DEF HeightInv
<1>4. ASSUME mpc' \in LatePc, f' <= MaxFailures PROVE HeightInv'
  BY <1>4 DEF HeightInv, LatePc, RpcPc
<1>5. ASSUME Die, f' <= MaxFailures PROVE HeightInv'
  BY <1>1, <1>5 DEF Die, HeightInv, RpcPc
<1>6. CASE TornCacheFile \/ PublishThrows \/ Crash
  BY <1>1, <1>5, <1>6 DEF TornCacheFile, PublishThrows, Crash, budgets
<1>7. CASE GetBlockchainInfoFails \/ RefreshMempoolFails
  BY <1>2, <1>5, <1>7 DEF GetBlockchainInfoFails, RefreshMempoolFails
<1>8. CASE ReadCacheFile
  <2>1. mpc = "cache" /\ f' = f /\ c >= StartHeight /\ StartHeight..(c - 1) \subseteq processed
    BY <1>8 DEF ReadCacheFile, budgets, HeightInv, ServerInv, ProcessedInv
  <2>2. CASE mpc' = "info" /\ c' = c - 1 /\ processed' = processed
    BY <1>1, <2>1, <2>2 DEF HeightInv, RpcPc
  <2>3. CASE mpc' = "cacheJob" /\ c' = c
    BY <1>1, <2>1, <2>3 DEF HeightInv, RpcPc
  <2>. QED
    BY <1>8, <2>2, <2>3 DEF ReadCacheFile
<1>9. CASE CacheBlockDone
  <2>1. mpc = "cacheJob" /\ mpc' = "cache" /\ c' = c + 1 /\ f' = f
    BY <1>9 DEF CacheBlockDone, budgets
  <2>. QED
    BY <1>1, <2>1 DEF HeightInv, RpcPc
<1>10. CASE GetBlockchainInfo
  <2>1. mpc = "info" /\ mpc' \in {"spawn", "rpc"} /\ c' = c /\ f' = f
    BY <1>10 DEF GetBlockchainInfo, budgets
  <2>. QED
    BY <1>1, <2>1 DEF HeightInv, RpcPc
<1>11. CASE GetRawBlock \/ OpenCacheFile
  <2>1. mpc \in RpcPc /\ mpc' \in RpcPc /\ c' = c /\ f' = f
    BY <1>11 DEF GetRawBlock, OpenCacheFile, budgets, RpcPc
  <2>. QED
    BY <1>1, <2>1 DEF HeightInv, RpcPc
<1>12. CASE WriteCacheFile
  <2>1. mpc = "write" /\ mpc' = "rpc" /\ c' = c + 1 /\ f' = f
    BY <1>12 DEF WriteCacheFile, budgets
  <2>. QED
    BY <1>1, <2>1 DEF HeightInv, RpcPc
<1>13. CASE GetRawBlockFails
  <2>1. /\ mpc = "rpc" /\ mpc' = "info" /\ c' = c - 1 /\ f' = f + 1 /\ f' <= MaxFailures
        /\ processed' = processed /\ StartHeight..(c - 1) \subseteq processed
    BY <1>2, <1>13 DEF GetRawBlockFails, ServerInv, ProcessedInv
  <2>. QED
    BY <1>1, <2>1 DEF HeightInv, RpcPc
<1>14. CASE Start
  BY <1>1, <1>14 DEF Start, HeightInv, RpcPc, budgets
<1>15. CASE GetMempoolFails
  <2>1. mpc' = "mempool" /\ f' <= MaxFailures
    BY <1>2, <1>15 DEF GetMempoolFails
  <2>. QED
    BY <1>4, <2>1 DEF LatePc
<1>16. CASE \/ RpcLoopEnds \/ SpawnListener \/ GetMempool \/ AppendMempool
            \/ ProcessStartupMempool \/ StartupMempoolDone \/ Serve
  <2>1. mpc' \in LatePc /\ f' = f
    BY <1>16 DEF RpcLoopEnds, SpawnListener, GetMempool, AppendMempool,
                 ProcessStartupMempool, StartupMempoolDone, Serve, LatePc, budgets
  <2>. QED
    BY <1>1, <1>4, <2>1
<1>17. CASE \/ Connect \/ ReceiveStartupTx \/ PushStartupTx \/ ReceiveStartupBlock \/ ReceiveTx
            \/ TxDone \/ PublishTx \/ ReceiveBlock \/ BlockDone \/ RefreshMempool
            \/ RefreshMempoolDone
  <2>1. lpc # "off" /\ mpc' = mpc /\ f' = f
    BY <1>17 DEF Connect, ReceiveStartupTx, PushStartupTx, ReceiveStartupBlock, ReceiveTx,
                 TxDone, PublishTx, ReceiveBlock, BlockDone, RefreshMempool,
                 RefreshMempoolDone, ListenFrame, Receive, budgets
  <2>2. mpc \notin EarlyPc
    BY <1>1, <2>1
  <2>. QED
    BY <1>1, <2>1, <2>2 DEF HeightInv, EarlyPc, RpcPc
<1>18. CASE LoseMessage \/ RunJob \/ UNCHANGED serverVars
             \/ (\E t \in Txid : Broadcast(t))
             \/ \E B \in SUBSET Txid, announce \in BOOLEAN : Mine(B, announce)
  <2>1. mpc' = mpc /\ c' = c /\ f' = f /\ processed' = processed
    BY <1>18 DEF LoseMessage, RunJob, serverVars, Broadcast, Mine, mainVars, history, budgets
  <2>. QED
    BY <1>3, <2>1
<1>. QED
  BY <1>6, <1>7, <1>8, <1>9, <1>10, <1>11, <1>12, <1>13, <1>14, <1>15, <1>16, <1>17, <1>18
  DEF ServerNext, MainStep, ListenStep, Failure

\* How main() gets to the RPC loop, from there on, and to the mempool.
LEMMA MainMoves ==
    ASSUME ServerInv, [ServerNext]_serverVars
    PROVE  /\ mpc' \in RpcPc => GetBlockchainInfo \/ (mpc \in RpcPc /\ best' = best)
           /\ mpc' \in LatePc => mpc \in LatePc \/ GetBlockchainInfo \/ RpcLoopEnds
           /\ mpc' \in PendingPc => mpc \in PendingPc \/ GetMempool
           /\ mpc' \in RpcPc \cup LatePc => ~Die
<1>1. CASE MainStep
  BY <1>1 DEF MainStep, RpcPc, LatePc, PendingPc, Die, ReadCacheFile, TornCacheFile,
       CacheBlockDone, GetBlockchainInfo, GetRawBlock, OpenCacheFile, WriteCacheFile,
       RpcLoopEnds, SpawnListener, GetMempool, AppendMempool, ProcessStartupMempool,
       StartupMempoolDone, Serve
<1>2. CASE ListenStep
  BY <1>2 DEF ListenStep, RpcPc, LatePc, PendingPc, Die, ListenFrame, Connect,
       ReceiveStartupTx, PushStartupTx, ReceiveStartupBlock, ReceiveTx, TxDone, PublishTx,
       PublishThrows, ReceiveBlock, BlockDone, RefreshMempool, RefreshMempoolDone
<1>3. CASE Failure
  BY <1>3 DEF Failure, RpcPc, LatePc, PendingPc, Die, GetBlockchainInfoFails,
       GetRawBlockFails, GetMempoolFails, RefreshMempoolFails, LoseMessage, Crash, mainVars
<1>4. CASE Start \/ RunJob \/ UNCHANGED serverVars \/ (\E t \in Txid : Broadcast(t))
             \/ \E B \in SUBSET Txid, announce \in BOOLEAN : Mine(B, announce)
  BY <1>4 DEF RpcPc, LatePc, PendingPc, Die, Start, RunJob, serverVars, Broadcast, Mine, mainVars
<1>. QED
  BY <1>1, <1>2, <1>3, <1>4 DEF ServerNext

\* Where a message that is published ends up.
LEMMA QueueEnd ==
    ASSUME NEW q \in Seq(Message), NEW msgs \in Seq(Message), NEW i \in DOMAIN msgs
    PROVE  Len(q) + i \in DOMAIN (q \o msgs) /\ (q \o msgs)[Len(q) + i] = msgs[i]
<1>. DEFINE n == Len(q)
            m == Len(msgs)
            r == q \o msgs
<1>1. /\ n \in Nat /\ m \in Nat /\ DOMAIN msgs = 1..m /\ DOMAIN r = 1..(n + m)
      /\ \A k \in (n + 1)..(n + m) : r[k] = msgs[k - n]
  OBVIOUS
<1>. HIDE DEF n, m, r
<1>2. i \in 1..m /\ n + i \in (n + 1)..(n + m) /\ (n + i) - n = i
  BY <1>1
<1>3. n + i \in DOMAIN r /\ r[n + i] = msgs[i]
  BY <1>1, <1>2
<1>. QED
  BY <1>3 DEF n, r

\* Blocks mined while the RPC loop runs are missed, as nobody listens yet.
LEMMA AheadKeepsInv ==
    ASSUME ServerInv, AheadInv, [ServerNext]_serverVars
    PROVE  AheadInv'
<1>. SUFFICES ASSUME mpc' \in RpcPc PROVE AheadInv'
  BY DEF AheadInv
<1>1. ~Die /\ missed \subseteq missed'
  BY MainMoves, MissedGrows
<1>2. DOMAIN chain = 1..Len(chain) /\ Len(chain) \in Nat
  BY BlockFacts DEF ServerInv
<1>3. CASE GetBlockchainInfo
  <2>1. best' = Len(chain) /\ chain' = chain
    BY <1>3 DEF GetBlockchainInfo, MainFrame, nodeVars
  <2>. QED
    BY <1>2, <2>1 DEF AheadInv
<1>4. CASE mpc \in RpcPc /\ best' = best /\ chain' = chain
  BY <1>1, <1>4 DEF AheadInv
<1>5. ASSUME NEW B \in SUBSET Txid, NEW announce \in BOOLEAN, Mine(B, announce),
             mpc \in RpcPc, best' = best
      PROVE  AheadInv'
  <2>1. lpc = "off"
    BY <1>5 DEF ServerInv, MainInv, RpcPc, EarlyPc
  <2>2. /\ chain' = Append(chain, B) /\ B \subseteq missed'
        /\ chain \in Seq(SUBSET Txid)
    BY <1>5, <2>1 DEF Mine, Subscribed, RpcPc, ServerInv, ChainInv
  <2>3. ASSUME NEW h \in DOMAIN chain' PROVE (h \in DOMAIN chain /\ chain'[h] = chain[h]) \/ chain'[h] = B
    BY <1>2, <2>2, <2>3
  <2>. QED
    BY <1>1, <1>5, <2>2, <2>3 DEF AheadInv
<1>. QED
  BY <1>3, <1>4, <1>5, MainMoves, ChainMoves

\* What is in a block main() has read is known, or was lost.
LEMMA ReadIsKnown ==
    ASSUME ServerInv, ReadInv, mpc \in {"info", "rpc"}, NEW h \in processed, h \in DOMAIN chain,
           NEW t \in chain[h], t \in SlpValid
    PROVE  t \in Known \/ Lost(t)
<1>1. t \in Block(h) /\ valid \subseteq transaction_map
  BY BlockFacts DEF ServerInv, SyncInv, GraphsAreValid
<1>2. t \in valid \/ Lost(t)
  BY <1>1 DEF ReadInv, BlocksInv, EarlyPc
<1>. QED
  BY <1>1, <1>2 DEF Known

\* When the RPC loop is over, every block was read or is missed.
LEMMA LoopReadsAll ==
    ASSUME ServerInv, ReadInv, HeightInv, AheadInv, MaxFailures < StartHeight,
           \/ GetBlockchainInfo /\ mpc' = "spawn"
           \/ RpcLoopEnds,
           NEW t \in Confirmed, t \in SlpValid
    PROVE  t \in Known \/ Lost(t)
<1>. DEFINE c == current_block_height
<1>1. PICK h \in DOMAIN chain : t \in chain[h]
  BY DEF Confirmed
<1>2. /\ DOMAIN chain = 1..Len(chain) /\ Len(chain) \in Nat /\ StartHeight \in Nat /\ c \in Int
      /\ h \in Nat /\ h <= Len(chain) /\ best \in Nat /\ failures \in Nat /\ MaxFailures \in Nat
      /\ failures <= MaxFailures
  BY <1>1, BlockFacts, ServerAssumption
  DEF ServerInv, MainInv, SetsInv, HeightInv, ServerAssumption
<1>3. StartHeight <= h
  BY <1>1, <1>2 DEF ServerInv, ChainInv
<1>4. CASE GetBlockchainInfo /\ mpc' = "spawn"
  <2>1. mpc = "info" /\ c = Len(chain)
    BY <1>4 DEF GetBlockchainInfo
  <2>2. StartHeight..c \subseteq processed
    BY <2>1 DEF HeightInv
  <2>3. h \in processed
    BY <1>2, <1>3, <2>1, <2>2
  <2>. QED
    BY <1>1, <2>1, <2>3, ReadIsKnown
<1>5. CASE RpcLoopEnds
  <2>1. mpc = "rpc" /\ ~InRpcLoop
    BY <1>5 DEF RpcLoopEnds
  <2>2. c + failures >= StartHeight - 1
    BY <2>1 DEF HeightInv, RpcPc
  <2>3. c > best
    BY <1>2, <2>1, <2>2 DEF InRpcLoop
  <2>4. CASE h > best
    BY <1>1, <2>1, <2>4 DEF AheadInv, RpcPc, Known
  <2>5. CASE h <= best
    <3>1. StartHeight..(c - 1) \subseteq processed
      BY <2>1 DEF ServerInv, ProcessedInv
    <3>2. h \in processed
      BY <1>2, <1>3, <2>3, <2>5, <3>1
    <3>. QED
      BY <1>1, <2>1, <3>2, ReadIsKnown
  <2>. QED
    BY <1>2, <2>4, <2>5
<1>. QED
  BY <1>4, <1>5

\* Every block is read, announced or missed.
LEMMA ConfirmedKeepsInv ==
    ASSUME ServerInv, ReadInv, ToldInv, MaxFailures < StartHeight, [ServerNext]_serverVars
    PROVE  ConfirmedInv'
<1>. SUFFICES ASSUME mpc' \in LatePc, NEW t \in Confirmed', t \in SlpValid
              PROVE  (t \in Known \cup BlocksToCome \/ Lost(t))'
  BY DEF ConfirmedInv
<1>1. ~Die /\ HoldInv
  BY MainMoves DEF ReadInv
<1>2. t \in Known => t \in Known'
  BY <1>1, KnownStays
<1>3. Lost(t) => Lost(t)'
  BY LostStays
<1>4. CASE GetBlockchainInfo \/ RpcLoopEnds
  <2>1. chain' = chain
    BY <1>4 DEF GetBlockchainInfo, RpcLoopEnds, MainFrame, nodeVars
  <2>2. t \in Confirmed
    BY <2>1 DEF Confirmed
  <2>3. GetBlockchainInfo => mpc' = "spawn"
    BY DEF GetBlockchainInfo, LatePc
  <2>4. t \in Known \/ Lost(t)
    BY <1>4, <2>2, <2>3, LoopReadsAll DEF ToldInv
  <2>. QED
    BY <1>2, <1>3, <2>4
<1>5. CASE mpc \in LatePc /\ t \in Confirmed
  <2>1. t \in Known \cup BlocksToCome \/ Lost(t)
    BY <1>5 DEF ToldInv, ConfirmedInv
  <2>2. ASSUME t \in BlocksToCome PROVE t \in Known' \cup BlocksToCome'
    <3>1. PICK i \in DOMAIN zmq : zmq[i].topic = "rawblock" /\ t \in zmq[i].txs
      BY <2>2 DEF BlocksToCome
    <3>2. \/ \E j \in DOMAIN zmq' : zmq'[j] = zmq[i]
          \/ zmq[i].txs \subseteq Known'
      BY <1>1, <3>1, MessagesArrive
    <3>. QED
      BY <3>1, <3>2 DEF BlocksToCome
  <2>. QED
    BY <1>2, <1>3, <2>1, <2>2
<1>6. CASE mpc \in LatePc /\ t \notin Confirmed
  <2>1. PICK B \in SUBSET Txid, announce \in BOOLEAN : Mine(B, announce)
    BY <1>6, ChainMoves DEF Confirmed
  <2>2. t \in B
    <3>1. chain' = Append(chain, B) /\ chain \in Seq(SUBSET Txid)
      BY <2>1 DEF Mine, ServerInv, ChainInv
    <3>2. PICK h \in DOMAIN chain' : t \in chain'[h]
      BY DEF Confirmed
    <3>3. (h \in DOMAIN chain /\ chain'[h] = chain[h]) \/ chain'[h] = B
      BY <3>1, <3>2
    <3>. QED
      BY <1>6, <3>2, <3>3 DEF Confirmed
  <2>3. CASE ~Subscribed
    <3>1. B \subseteq missed'
      BY <1>6, <2>1, <2>3 DEF Mine, LatePc
    <3>. QED
      BY <2>2, <3>1 DEF Known
  <2>4. CASE Subscribed
    <3>1. PICK msgs \in Seq(Message) :
              /\ zmq' = zmq \o msgs
              /\ \E i \in DOMAIN msgs : msgs[i].topic = "rawblock" /\ msgs[i].txs = B
      BY <2>1, <2>4, MinedMessages
    <3>2. PICK i \in DOMAIN msgs : msgs[i].topic = "rawblock" /\ msgs[i].txs = B
      BY <3>1
    <3>3. Len(zmq) + i \in DOMAIN zmq' /\ zmq'[Len(zmq) + i] = msgs[i]
      BY <3>1, <3>2, QueueEnd DEF ServerInv, ZmqInv, InOrder
    <3>. QED
      BY <2>2, <3>2, <3>3 DEF BlocksToCome
  <2>. QED
    BY <2>3, <2>4
<1>. QED
  BY <1>4, <1>5, <1>6, MainMoves

\* What a step does to the node's mempool, to the lists and to the transaction
\* the listener holds.
LEMMA ListsMove ==
    ASSUME ServerInv, [ServerNext]_serverVars, ~Die
    PROVE  /\ mempool' \subseteq mempool \/ \E t \in Txid : Broadcast(t)
           /\ mpc \in {"append", "copy"} =>
                  \/ AppendMempool \/ ProcessStartupMempool
                  \/ mpc' = mpc /\ fetched' = fetched /\ startup \subseteq startup'
           /\ lpc = "push" => PushStartupTx \/ (lpc' = lpc /\ lmsg' = lmsg)
<1>1. CASE MainStep
  BY <1>1 DEF MainStep, MainFrame, StartFrame, nodeVars, listenVars, ReadCacheFile,
       TornCacheFile, CacheBlockDone, GetBlockchainInfo, GetRawBlock, OpenCacheFile,
       WriteCacheFile, RpcLoopEnds, SpawnListener, GetMempool, AppendMempool,
       ProcessStartupMempool, StartupMempoolDone, Serve, ServerInv, MainInv, EarlyPc
<1>2. CASE ListenStep
  BY <1>2 DEF ListenStep, ListenFrame, Receive, Connect, ReceiveStartupTx, PushStartupTx,
       ReceiveStartupBlock, ReceiveTx, TxDone, PublishTx, PublishThrows, ReceiveBlock,
       BlockDone, RefreshMempool, RefreshMempoolDone
<1>3. CASE Failure
  BY <1>3 DEF Failure, MainFrame, StartFrame, nodeVars, mainVars, listenVars,
       GetBlockchainInfoFails, GetRawBlockFails, GetMempoolFails, RefreshMempoolFails,
       LoseMessage, Crash
<1>4. CASE Start \/ RunJob \/ UNCHANGED serverVars
  BY <1>4 DEF Start, RunJob, serverVars, nodeVars, mainVars, listenVars
<1>5. CASE \E t \in Txid : Broadcast(t)
  BY <1>5 DEF Broadcast, mainVars, listenVars
<1>6. CASE \E B \in SUBSET Txid, announce \in BOOLEAN : Mine(B, announce)
  BY <1>6 DEF Mine, mainVars, listenVars
<1>. QED
  BY <1>1, <1>2, <1>3, <1>4, <1>5, <1>6 DEF ServerNext

\* Every unconfirmed transaction is listed, announced or missed.
LEMMA PendingKeepsInv ==
    ASSUME ServerInv, HoldInv, PendingInv, [ServerNext]_serverVars
    PROVE  PendingInv'
<1>. SUFFICES ASSUME mpc' \in PendingPc, NEW t \in mempool', t \in SlpValid
              PROVE  t \in Known' \cup TxsToCome' \cup Listed'
  BY DEF PendingInv
<1>1. ~Die
  BY MainMoves DEF PendingPc, LatePc
<1>2. CASE GetMempool
  BY <1>2 DEF GetMempool, StartFrame, nodeVars, Listed
<1>3. CASE mpc \in PendingPc /\ t \in mempool
  <2>1. t \in Known \cup TxsToCome \cup Listed
    BY <1>3 DEF PendingInv
  <2>2. CASE t \in Known
    BY <1>1, <2>2, KnownStays
  <2>3. ASSUME NEW i \in DOMAIN zmq, t \in zmq[i].txs
        PROVE  t \in Known' \cup TxsToCome'
    <3>1. \/ \E j \in DOMAIN zmq' : zmq'[j] = zmq[i]
          \/ zmq[i].txs \subseteq Known'
          \/ zmq[i].topic = "rawtx" /\ lpc = "recv" /\ lpc' = "push" /\ lmsg' = zmq[i]
      BY <1>1, MessagesArrive
    <3>2. ASSUME NEW j \in DOMAIN zmq', zmq'[j] = zmq[i] PROVE t \in Announced'
      BY <2>3, <3>2 DEF Announced
    <3>3. ASSUME lpc' = "push", lmsg' = zmq[i] PROVE t \in Held'
      BY <2>3, <3>3 DEF Held
    <3>. QED
      BY <2>3, <3>1, <3>2, <3>3 DEF TxsToCome
  <2>4. CASE lpc = "push" /\ t \in lmsg.txs
    <3>1. CASE lpc' = lpc /\ lmsg' = lmsg
      <4>1. t \in Held'
        BY <2>4, <3>1 DEF Held
      <4>. QED
        BY <4>1 DEF TxsToCome
    <3>2. CASE PushStartupTx
      <4>1. /\ mpc' = mpc
            /\ missed' = IF mpc \in {"mempool", "append", "copy"} /\ lmsg.txs \subseteq startup'
                         THEN missed ELSE missed \cup lmsg.txs
        BY <3>2 DEF PushStartupTx, ListenFrame
      <4>2. CASE mpc \in {"append", "copy"} /\ lmsg.txs \subseteq startup'
        BY <2>4, <4>1, <4>2 DEF Listed
      <4>3. CASE ~(mpc \in {"append", "copy"} /\ lmsg.txs \subseteq startup')
        <5>1. t \in missed'
          BY <1>3, <2>4, <4>1, <4>3 DEF PendingPc
        <5>. QED
          BY <5>1 DEF Known
      <4>. QED
        BY <4>2, <4>3
    <3>. QED
      BY <1>1, <2>4, <3>1, <3>2, ListsMove
  <2>5. CASE t \in Listed
    <3>1. mpc \in {"append", "copy"}
      BY <2>5 DEF Listed
    <3>2. CASE AppendMempool
      BY <2>5, <3>2 DEF AppendMempool, Listed
    <3>3. CASE ProcessStartupMempool
      <4>1. mpc = "copy" /\ t \in startup
        BY <2>5, <3>3 DEF ProcessStartupMempool, Listed
      <4>2. PICK s \in topological_sort(startup) : BeginMempool(s)
        BY <3>3 DEF ProcessStartupMempool
      <4>3. ToSet(s) = startup
        BY <4>2, SortIsExact DEF ServerInv, SetsInv
      <4>4. job'.txs = s
        BY <4>2 DEF BeginMempool, NewJob
      <4>. QED
        BY <4>1, <4>3, <4>4 DEF Known
    <3>4. CASE mpc' = mpc /\ fetched' = fetched /\ startup \subseteq startup'
      BY <2>5, <3>4 DEF Listed
    <3>. QED
      BY <1>1, <3>1, <3>2, <3>3, <3>4, ListsMove
  <2>6. CASE t \in Announced
    BY <2>3, <2>6 DEF Announced
  <2>7. CASE t \in Held
    BY <2>4, <2>7 DEF Held
  <2>. QED
    BY <2>1, <2>2, <2>5, <2>6, <2>7 DEF TxsToCome
<1>4. CASE mpc \in PendingPc /\ t \notin mempool
  <2>1. PICK u \in Txid : Broadcast(u)
    BY <1>1, <1>4, ListsMove
  <2>2. t = u
    BY <1>4, <2>1 DEF Broadcast
  <2>3. CASE ~Subscribed
    <3>1. t \in missed'
      BY <1>4, <2>1, <2>2, <2>3 DEF Broadcast, PendingPc
    <3>. QED
      BY <3>1 DEF Known
  <2>4. CASE Subscribed
    <3>. DEFINE msgs == <<RawTx(t)>>
    <3>1. msgs \in Seq(Message) /\ 1 \in DOMAIN msgs /\ msgs[1].txs = {t} /\ t \in Txid
      BY <2>2, PublishedMessages
    <3>2. zmq' = zmq \o msgs
      BY <2>1, <2>2, <2>4 DEF Broadcast, Publish
    <3>. HIDE DEF msgs
    <3>3. Len(zmq) + 1 \in DOMAIN zmq' /\ zmq'[Len(zmq) + 1] = msgs[1]
      BY <3>1, <3>2, QueueEnd DEF ServerInv, ZmqInv, InOrder
    <3>. QED
      BY <3>1, <3>3 DEF TxsToCome, Announced
  <2>. QED
    BY <2>3, <2>4
<1>. QED
  BY <1>2, <1>3, <1>4, MainMoves

\* ToldInv is inductive, on top of ServerInv and ReadInv.
LEMMA ToldStepKeepsInv ==
    ASSUME ServerInv, ReadInv, ToldInv, MaxFailures < StartHeight, [ServerNext]_serverVars
    PROVE  ToldInv'
  BY JudgedKeepsInv, HeightKeepsInv, AheadKeepsInv, ConfirmedKeepsInv, PendingKeepsInv
  DEF ToldInv, ReadInv

\* Initially the process has not been started.
LEMMA ToldInitInv ==
    ASSUME ServerInit
    PROVE  ToldInv
<1>1. /\ transaction_map = {} /\ mpc = "exited" /\ failures = 0
      /\ current_block_height = StartHeight
  BY DEF ServerInit, SyncInit, ValidatorInit
<1>2. HeightInv
  BY <1>1, ServerAssumption DEF HeightInv, RpcPc, ServerAssumption
<1>. QED
  BY <1>1, <1>2
  DEF ToldInv, JudgedInv, AheadInv, ConfirmedInv, PendingInv, RpcPc, LatePc, PendingPc

\* With nothing left to handle, what is known was judged or missed.
LEMMA QuietIsCaughtUp ==
    ASSUME ReadInv, ToldInv
    PROVE  CaughtUp
<1>. SUFFICES ASSUME Quiet, NEW t \in (Confirmed \cup mempool) \cap SlpValid
              PROVE  t \in valid \/ Explained(t)
  BY DEF CaughtUp
<1>1. mpc = "serving" /\ lpc = "recv" /\ zmq = <<>> /\ ToSet(<<>>) = {}
  BY NoJobIsFresh DEF Quiet
<1>2. job.txs = <<>>
  BY <1>1 DEF ReadInv, HoldInv
<1>3. BlocksToCome = {} /\ TxsToCome = {} /\ Listed = {}
  BY <1>1 DEF BlocksToCome, TxsToCome, Announced, Held, Listed
<1>4. t \in transaction_map \cup missed \/ Lost(t)
  BY <1>1, <1>2, <1>3 DEF ToldInv, ConfirmedInv, PendingInv, Known, LatePc, PendingPc
<1>5. t \in Txid
  BY DEF SlpValid
<1>6. CASE t \in transaction_map
  BY <1>6 DEF ToldInv, JudgedInv
<1>7. CASE t \in missed
  BY <1>5, <1>7, AncestryFacts DEF Explained
<1>8. CASE Lost(t)
  BY <1>8 DEF Lost, Explained
<1>. QED
  BY <1>4, <1>6, <1>7, <1>8

\* A server that has handled all its notifications holds every SLP-valid
\* transaction of the chain and of the mempool, unless something in its ancestry
\* was not told to the process, was judged before its parents, or was lost by a
\* rewritten cache file.  Requests must not fail so often that the RPC loop, which
\* goes back one block each time, gets below height 0: a negative height ends it.
THEOREM ServerCatchesUp ==
    ASSUME MaxFailures < StartHeight
    PROVE  ServerSpec => []CaughtUp
<1>1. ServerInit => ReadInv /\ ToldInv
  BY ReadInitInv, ToldInitInv
<1>2. ServerInv /\ ReadInv /\ ToldInv /\ [ServerNext]_serverVars => ReadInv' /\ ToldInv'
  BY ReadStepKeepsInv, ToldStepKeepsInv
<1>3. ReadInv /\ ToldInv => CaughtUp
  BY QuietIsCaughtUp
<1>. QED
  BY <1>1, <1>2, <1>3, ServerInvariant, PTL DEF ServerSpec
=============================================================================
