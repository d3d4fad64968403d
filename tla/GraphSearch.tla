---------------------------- MODULE GraphSearch ----------------------------
(***************************************************************************)
(* GraphSearchServiceImpl::GraphSearch on its gRPC thread, against the     *)
(* thread that processes blocks and transactions: it inserts into the      *)
(* confirmed graph g or the mempool graph mg and clears mg.  lookup_mtx of *)
(* a graph is a shared mutex: insert_token_data takes it exclusively, the  *)
(* searches share it, and so does clear().                                 *)
(*                                                                         *)
(* A request is a chain of lock sessions: one on g per excluded txid, one  *)
(* on mg, then one on g, or one on g per parent the mempool result leaves  *)
(* open.  Everything may change between two sessions.  The stack of a      *)
(* depth-first loop is a set: nothing depends on the order.  Readers share *)
(* nothing with each other.                                                *)
(***************************************************************************)
EXTENDS TxGraph, FiniteSets

CONSTANTS
    Reader,       \* gRPC threads
    Query,        \* what clients ask for
    MaxExclude,   \* max_exclusion_set_size
    MaxUnlinked   \* bound on the parents that come too late

ASSUME QueryAssumption == Query \subseteq [txid : Txid, exclude_txids : SUBSET Txid]

ASSUME MaxExcludeAssumption == MaxExclude \in Nat \ {0} /\ MaxUnlinked \in Nat

\* Txids are 256-bit hashes; a request names one.
ASSUME TxidAssumption == IsFiniteSet(Txid) /\ Txid # {}

VARIABLES
    g,         \* tokens of the confirmed graph: the nodes and their inputs
    mg,        \* tokens of the mempool graph
    index,     \* domain of the mempool graph's txid_to_token
    writer,    \* "cleared" between the two lines of clear(), else "none"
    gone,      \* history: transactions that clear() has dropped
    unlinked,  \* history: <<t, p>> if t was inserted when no graph it could
               \* get to its parent p by had p
    req,       \* req[r]: the request r serves, see Request
    disturbed  \* history: readers inside mg while it was being cleared

graphVars  == <<g, mg, index, writer, gone, unlinked>>
searchVars == <<graphVars, req, disturbed>>

Pc == {"idle", "exclude", "excluding", "mempool", "searching_mg", "account",
       "overlapping", "confirmed", "searching_g", "ok", "not_found", "freed"}

Request ==
    [pc : Pc,
     lookup : Txid,               \* request->txid()
     asked : SUBSET Txid,         \* request->exclude_txids()
     todo : SUBSET Txid,          \* txids with a session still to come
     excluded : SUBSET Txid,      \* exclusion_set as the searches begin
     seen : SUBSET Txid,          \* the set the session under way adds to
     stack : SUBSET Txid,         \* nodes whose inputs are still to be looked at
     ret : SUBSET Txid,           \* what the search has found
     txdata : [Txid -> Nat],      \* reply->txdata: how often it has a transaction
     via : {"g", "mg"},           \* history: the graph the lookup was found in
     known : SUBSET Txid]         \* history: which of these the graphs had at first

Idle == [pc |-> "idle", lookup |-> CHOOSE t \in Txid : TRUE, asked |-> {}, todo |-> {},
         excluded |-> {}, seen |-> {}, stack |-> {}, ret |-> {},
         txdata |-> [t \in Txid |-> 0], via |-> "g", known |-> {}]

Inside(r)   == req[r].pc \in {"excluding", "searching_mg", "overlapping", "searching_g"}
InMempool(r) == req[r].pc = "searching_mg"
GraphOf(r)  == IF InMempool(r) THEN mg ELSE g

Step(r, q) == req' = [req EXCEPT ![r] = q] /\ UNCHANGED graphVars

-----------------------------------------------------------------------------
(* The processing thread. *)

TokenParents(t) == {p \in Parents(t) : Tx[p].tokenid = Tx[t].tokenid}
Link(txs, here) ==
    /\ unlinked' = unlinked \cup {e \in txs \X Txid : e[2] \in TokenParents(e[1]) \ (txs \cup here)}
    /\ Cardinality(unlinked') <= MaxUnlinked

\* A transaction is inserted once (validator.has), whatever became of its parents.
Insertable(k, txs) ==
    /\ txs # {}
    /\ \A t \in txs : InTokenGraph(k, t) /\ t \notin g.nodes \cup mg.nodes \cup gone

Insert(k, txs) ==
    /\ writer = "none"
    /\ Insertable(k, txs)
    /\ \A r \in Reader : ~(Inside(r) /\ ~InMempool(r))
    /\ g' = insert_token_data(g, k, txs)
    /\ Link(txs, g.nodes)
    /\ UNCHANGED <<mg, index, writer, gone, req, disturbed>>

InsertMempool(k, txs) ==
    /\ writer = "none"
    /\ Insertable(k, txs)
    /\ \A r \in Reader : ~InMempool(r)
    /\ mg' = insert_token_data(mg, k, txs)
    /\ index' = index \cup txs
    /\ Link(txs, mg.nodes \cup g.nodes)
    /\ UNCHANGED <<g, writer, gone, req, disturbed>>

\* Faulty variant: the confirmed graph is cleared as well.
ClearTokens_g_too ==
    /\ writer = "none"
    /\ writer' = "cleared"
    /\ gone' = gone \cup mg.nodes
    /\ mg' = EmptyGraph
    /\ g' = EmptyGraph
    /\ disturbed' = disturbed \cup {r \in Reader : InMempool(r)}
    /\ UNCHANGED <<index, unlinked, req>>

\* mg.clear() takes the lock shared: readers stay inside while tokens ...
ClearTokens ==
    /\ writer = "none"
    /\ writer' = "cleared"
    /\ gone' = gone \cup mg.nodes
    /\ mg' = EmptyGraph
    /\ disturbed' = disturbed \cup {r \in Reader : InMempool(r)}
    /\ UNCHANGED <<g, index, unlinked, req>>

\* Faulty variant: txid_to_token is left alone.
ClearIndex_forgotten ==
    /\ writer = "cleared"
    /\ writer' = "none"
    /\ UNCHANGED <<g, mg, index, gone, unlinked, req, disturbed>>

\* ... and txid_to_token are emptied.
ClearIndex ==
    /\ writer = "cleared"
    /\ writer' = "none"
    /\ index' = {}
    /\ UNCHANGED <<g, mg, gone, unlinked, req, disturbed>>

-----------------------------------------------------------------------------
(* The request.  A txid that is no 64 hex digits ends it at once, or is      *)
(* dropped from the exclusions, and is left out.                             *)

Begin(r, t, X) ==
    /\ req[r].pc = "idle"
    /\ disturbed' = disturbed \ {r}
    /\ Step(r, [Idle EXCEPT !.pc = "exclude", !.lookup = t, !.asked = X, !.todo = X,
                            !.known = (X \cup {t}) \cap (g.nodes \cup mg.nodes)])

\* What is left of the exclusions after one of them: the loop is left after the
\* first when the request has too many.  Faulty variant: always.
Remaining_one(q, x) == {}
Remaining(q, x) == IF Cardinality(q.asked) >= MaxExclude THEN {} ELSE q.todo \ {x}

\* Faulty variant: ancestors are not excluded.
Exclude_only(r, x) ==
    LET q == req[r] IN
    /\ q.pc = "exclude"
    /\ x \in q.todo
    /\ Step(r, [q EXCEPT !.todo = Remaining(q, x), !.seen = @ \cup (g.nodes \cap {x})])
    /\ UNCHANGED disturbed

\* g.build_exclusion_set, up to its loop; a txid that g does not have is skipped.
Exclude(r, x) ==
    LET q == [req[r] EXCEPT !.todo = Remaining(req[r], x)] IN
    /\ req[r].pc = "exclude"
    /\ x \in req[r].todo
    /\ Step(r, IF x \notin g.nodes THEN q
               ELSE [q EXCEPT !.pc = "excluding", !.seen = @ \cup {x}, !.stack = {x}])
    /\ UNCHANGED disturbed

ExclusionsDone(r) ==
    /\ req[r].pc = "exclude"
    /\ req[r].todo = {}
    /\ Step(r, [req[r] EXCEPT !.pc = "mempool", !.excluded = req[r].seen])
    /\ UNCHANGED disturbed

\* Faulty variant: a lookup the mempool graph does not have is not found.
SearchMempool_only(r) ==
    LET q == req[r] IN
    /\ q.pc = "mempool"
    /\ q.lookup \notin index
    /\ Step(r, [q EXCEPT !.pc = "not_found"])
    /\ UNCHANGED disturbed

\* mg.graph_search__ptr, up to its loop.  exclusion_set holds nodes of g, which
\* no node of mg is equal to.  A token_details that txid_to_token still points to
\* after tokens was emptied is freed: the count() on it may come out as 0.
SearchMempool(r) ==
    LET q == req[r] IN
    /\ q.pc = "mempool"
    /\ \/ /\ q.lookup \in mg.nodes
          /\ Step(r, [q EXCEPT !.pc = "searching_mg", !.via = "mg", !.seen = {q.lookup},
                               !.stack = {q.lookup}, !.ret = {q.lookup}])
       \/ /\ q.lookup \notin mg.nodes
          /\ Step(r, [q EXCEPT !.pc = "confirmed"])
       \/ /\ q.lookup \in index \ mg.nodes
          /\ Step(r, [q EXCEPT !.pc = "freed"])
    /\ disturbed' = IF writer = "cleared" THEN disturbed \cup {r} ELSE disturbed

\* g.graph_search__ptr, up to its loop: the node is returned even if excluded.
SearchConfirmed(r) ==
    LET q == req[r] IN
    /\ q.pc = "confirmed"
    /\ Step(r, IF q.lookup \notin g.nodes THEN [q EXCEPT !.pc = "not_found"]
               ELSE [q EXCEPT !.pc = "searching_g", !.seen = q.excluded \cup {q.lookup},
                              !.stack = {q.lookup}, !.ret = {q.lookup}])
    /\ UNCHANGED disturbed

\* g.build_exclusion_set for a parent that the mempool result leaves open.  The
\* graph_search__ptr before it adds to exclusion_set, which nothing reads any more.
Overlap(r, x) ==
    LET q == [req[r] EXCEPT !.todo = @ \ {x}] IN
    /\ req[r].pc = "account"
    /\ x \in req[r].todo
    /\ Step(r, IF x \notin g.nodes THEN q
               ELSE [q EXCEPT !.pc = "overlapping", !.seen = @ \cup {x}, !.stack = {x}])
    /\ UNCHANGED disturbed

\* A reply with n copies of the transactions in S more.
Add(txdata, S, n) == [t \in Txid |-> txdata[t] + (IF t \in S THEN n ELSE 0)]

\* The nodes of mempool_overlap_set are read when no lock is held.
ReadOverlap(r) ==
    LET q == req[r] IN
    /\ q.pc = "account"
    /\ q.todo = {}
    /\ Step(r, IF q.seen \subseteq g.nodes
               THEN [q EXCEPT !.pc = "ok", !.txdata = Add(@, q.seen, 1)]
               ELSE [q EXCEPT !.pc = "freed"])
    /\ UNCHANGED disturbed

-----------------------------------------------------------------------------
(* The loop of build_exclusion_set and graph_search__ptr. *)

\* n is popped and its inputs in new are marked, pushed and, in a search, returned.
Round(r, n, new) ==
    LET q == req[r] IN
    /\ n \in q.stack \cap GraphOf(r).nodes
    /\ Step(r, [q EXCEPT !.seen = @ \cup new,
                         !.stack = (@ \ {n}) \cup new,
                         !.ret = IF q.pc \in {"searching_g", "searching_mg"}
                                 THEN @ \cup new ELSE @])
    /\ UNCHANGED disturbed

\* Faulty variants: an input that was seen ends the round (break for continue);
\* inputs that were seen are followed; what is pushed is not marked as seen.
Visit_break(r, n) ==
    LET ins == InputsOf(GraphOf(r), n)
    IN  Inside(r) /\ Round(r, n, IF ins \cap req[r].seen = {} THEN ins ELSE {})
Visit_excluded_too(r, n) ==
    Inside(r) /\ Round(r, n, InputsOf(GraphOf(r), n))
Visit_unmarked(r, n) ==
    LET q == req[r]
        new == InputsOf(GraphOf(r), n) \ q.seen IN
    /\ Inside(r)
    /\ n \in q.stack \cap GraphOf(r).nodes
    /\ Step(r, [q EXCEPT !.stack = (@ \ {n}) \cup new, !.ret = @ \cup new])
    /\ UNCHANGED disturbed

Visit(r, n) == Inside(r) /\ Round(r, n, InputsOf(GraphOf(r), n) \ req[r].seen)

\* The node on the stack was freed by clear().
VisitFreed(r) ==
    /\ Inside(r)
    /\ ~(req[r].stack \subseteq GraphOf(r).nodes)
    /\ Step(r, [req[r] EXCEPT !.pc = "freed"])
    /\ UNCHANGED disturbed

\* unaccounted_mempool_txids
Unaccounted(q) == (UNION {Parents(t) : t \in q.ret}) \ q.ret

\* The loop is over and the lock released; what a search returns are copies.  For
\* each result of the mempool search all its results are added to the reply.
Leave(r) ==
    LET q == req[r] IN
    /\ Inside(r)
    /\ q.stack = {}
    /\ Step(r, CASE q.pc = "excluding"    -> [q EXCEPT !.pc = "exclude"]
                 [] q.pc = "searching_mg" -> [q EXCEPT !.pc = "account", !.seen = {},
                                                       !.todo = Unaccounted(q),
                                                       !.txdata = Add(@, q.ret,
                                                                      Cardinality(q.ret))]
                 [] q.pc = "overlapping"  -> [q EXCEPT !.pc = "account"]
                 [] q.pc = "searching_g"  -> [q EXCEPT !.pc = "ok",
                                                       !.txdata = Add(@, q.ret, 1)])
    /\ UNCHANGED disturbed

Reply(r) ==
    /\ req[r].pc \in {"ok", "not_found", "freed"}
    /\ Step(r, Idle)
    /\ UNCHANGED disturbed

-----------------------------------------------------------------------------
SearchInit ==
    /\ g = EmptyGraph
    /\ mg = EmptyGraph
    /\ index = {}
    /\ writer = "none"
    /\ gone = {} /\ unlinked = {}
    /\ req = [r \in Reader |-> Idle]
    /\ disturbed = {}

WriterStep ==
    \/ \E k \in Txid, txs \in SUBSET Txid : Insert(k, txs) \/ InsertMempool(k, txs)
    \/ ClearTokens
    \/ ClearIndex

ReaderStep(r) ==
    \/ \E query \in Query : Begin(r, query.txid, query.exclude_txids)
    \/ \E x \in Txid : Exclude(r, x) \/ Overlap(r, x) \/ Visit(r, x)
    \/ ExclusionsDone(r) \/ SearchMempool(r) \/ SearchConfirmed(r) \/ ReadOverlap(r)
    \/ VisitFreed(r) \/ Leave(r) \/ Reply(r)

SearchNext == WriterStep \/ \E r \in Reader : ReaderStep(r)

SearchSpec == SearchInit /\ [][SearchNext]_searchVars

-----------------------------------------------------------------------------
SearchTypeOK ==
    /\ g \in Graph /\ mg \in Graph
    /\ index \subseteq Txid /\ gone \subseteq Txid /\ unlinked \subseteq Txid \X Txid
    /\ writer \in {"none", "cleared"}
    /\ req \in [Reader -> Request]
    /\ disturbed \subseteq Reader
    /\ \A r \in Reader : Inside(r) => req[r].stack \subseteq req[r].seen

Answered(r)  == req[r].pc = "ok" /\ r \notin disturbed
Replied(q)   == {t \in Txid : q.txdata[t] > 0}

\* A reply no clear() ran into holds, whatever was inserted or cleared between
\* its sessions, the transaction and with each of its transactions the parents of
\* the same token.  A parent is missing only if the client excluded it (that
\* counts for confirmed lookups only), or if it was not there when its child was
\* inserted: neither inserted with it nor before it into g or, for a child in
\* the mempool, into what mg held then.
SearchIsComplete ==
    \A r \in Reader : LET q == req[r] IN
        Answered(r) =>
            /\ q.lookup \in Replied(q)
            /\ \A t \in Replied(q) : \A p \in TokenParents(t) \ Replied(q) :
                  (q.via = "g" /\ p \in q.excluded) \/ <<t, p>> \in unlinked

\* With each member S has its parents P(t), or X has them.
Closed(S, X, P(_)) == \A t \in S : P(t) \subseteq S \cup X

\* The reply holds nothing else: it is within every set of transactions that
\* has the lookup and, up to the excluded ones, the parents of its members; for
\* a mempool lookup these are the parents of every token and nothing is excluded.
\* A confirmed transaction is in it once, one of the mempool as many times as the
\* reply has different transactions of the mempool.
SearchIsMinimal ==
    \A r \in Reader : LET q == req[r] IN
        Answered(r) =>
            /\ \A S \in SUBSET Txid :
                  /\ q.lookup \in S
                  /\ IF q.via = "g" THEN Closed(S, q.excluded, TokenParents)
                                    ELSE Closed(S, {}, Parents)
                  => Replied(q) \subseteq S
            /\ \A t \in Replied(q) :
                  q.txdata[t] = IF t \in g.nodes THEN 1
                                ELSE Cardinality(Replied(q) \ g.nodes)

\* What the client excludes comes with all the ancestors it has in g, so that
\* reply and exclusions together leave no gap.
ExclusionIsClosed ==
    \A r \in Reader :
        \A t \in req[r].excluded : InputsOf(g, t) \subseteq req[r].excluded

\* Exclusions are closed, and below max_exclusion_set_size they all count: of
\* those that were in g when the request came, the reply to a confirmed lookup
\* has none but the lookup.
ExclusionsAreHonoured ==
    /\ ExclusionIsClosed
    /\ \A r \in Reader : LET q == req[r] IN
          Answered(r) /\ q.via = "g" /\ Cardinality(q.asked) < MaxExclude =>
              q.asked \cap q.known \cap g.nodes \cap Replied(q) \subseteq {q.lookup}

\* NOT_FOUND is not said of a transaction that was in one of the graphs when the
\* request came, unless the mempool graph has been cleared of it.
NotFoundIsUnknown ==
    \A r \in Reader :
        req[r].pc = "not_found" => req[r].lookup \notin req[r].known \ gone

\* Freed memory is read only by a reader that was inside the mempool graph while
\* it was being cleared; the nodes of g that GraphSearch reads without the lock
\* are still there.
ErrorsComeFromClear ==
    \A r \in Reader : req[r].pc = "freed" => r \in disturbed

\* "IMPORTANT: tokens and txid_to_token must be guarded with the lookup_mtx":
\* no reader is inside while the containers are being emptied.
GuardedByLock == writer = "cleared" => \A r \in Reader : ~InMempool(r)
=============================================================================
