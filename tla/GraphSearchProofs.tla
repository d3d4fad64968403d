------------------------- MODULE GraphSearchProofs -------------------------
(***************************************************************************)
(* Proofs about GraphSearch: what a reply holds, for every universe of     *)
(* transactions, every number of readers, every exclusion limit and every  *)
(* way the sessions of a request interleave with insertions and clear().   *)
(*                                                                         *)
(* The invariant of a request is written over the values C of g, M of mg   *)
(* and D of gone, so that the lemmas about it need no primes; d says that  *)
(* the reader is in disturbed.                                             *)
(***************************************************************************)
EXTENDS GraphSearch, FiniteSetTheorems, TLAPS

\* Every transaction a graph has or had.
Stored(C, M, D) == C.nodes \cup M.nodes \cup D

\* The inputs of a node are parents of the same token in the graph.
EdgesSound(G) ==
    /\ \A e \in G.edges : e[1] \in G.nodes /\ e[2] \in G.nodes
    /\ \A t \in G.nodes : InputsOf(G, t) \subseteq TokenParents(t)

\* The parents of its token that t has neither as inputs in G nor in here were
\* missing when it was inserted.
Accounted(G, here, t, U) ==
    \A p \in TokenParents(t) : p \in InputsOf(G, t) \/ p \in here \/ <<t, p>> \in U

\* What holds of the graphs whatever the readers do: a transaction is in one
\* place, and its parents are accounted for.
StoreInv(C, M, D, U) ==
    /\ C \in Graph /\ M \in Graph /\ D \in SUBSET Txid
    /\ EdgesSound(C) /\ EdgesSound(M)
    /\ C.nodes \cap (M.nodes \cup D) = {}
    /\ M.nodes \cap D = {}
    /\ \A t \in C.nodes : Accounted(C, {}, t, U)
    /\ \A t \in M.nodes : Accounted(M, C.nodes, t, U)

\* Up to the nodes of stack, X has the inputs of the nodes in S.
ClosedBut(G, S, stack, X) == \A t \in S \ stack : InputsOf(G, t) \subseteq X

\* build_exclusion_set: seen is within g and closed up to the stack, the
\* exclusion set is closed, and no exclusion g had is forgotten.
ExclusionInv(q, C, M, D) ==
    /\ q.known \subseteq Stored(C, M, D)
    /\ q.excluded \subseteq C.nodes
    /\ ClosedBut(C, q.excluded, {}, q.excluded)
    /\ q.pc \in {"exclude", "account"} => q.stack = {}
    /\ q.pc \in {"exclude", "excluding", "account", "overlapping"} =>
          q.seen \subseteq C.nodes /\ ClosedBut(C, q.seen, q.stack, q.seen)
    /\ Cardinality(q.asked) < MaxExclude =>
          q.asked \cap q.known \cap C.nodes \subseteq
              IF q.pc \in {"exclude", "excluding"} THEN q.todo \cup q.seen ELSE q.excluded

\* graph_search__ptr on g: what was returned was marked, is closed up to the
\* stack, and was not excluded.
ConfirmedInv(q, C) ==
    q.pc = "searching_g" =>
        /\ q.via = "g" /\ q.lookup \in q.ret
        /\ q.ret \subseteq C.nodes /\ q.stack \subseteq q.ret
        /\ q.seen = q.excluded \cup q.ret
        /\ q.ret \cap q.excluded \subseteq {q.lookup}
        /\ ClosedBut(C, q.ret, q.stack, q.seen)

\* graph_search__ptr on mg: what was returned is closed up to the stack, as
\* long as no clear() came between.
MempoolInv(q, d, M, D) ==
    q.pc = "searching_mg" =>
        /\ q.via = "mg" /\ q.lookup \in q.ret
        /\ q.stack \subseteq q.ret /\ q.seen = q.ret /\ q.ret \subseteq M.nodes \cup D
        /\ ~d => q.ret \subseteq M.nodes /\ ClosedBut(M, q.ret, q.stack, q.ret)

\* What becomes of the mempool result: a parent outside of it that was there when
\* its child was inserted is in g, and still to come or in mempool_overlap_set.
OverlapInv(q, d, C, M, D, U) ==
    q.pc \in {"account", "overlapping"} =>
        /\ q.via = "mg" /\ q.lookup \in q.ret
        /\ q.ret \subseteq M.nodes \cup D
        /\ ~d => \A t \in q.ret : \A p \in TokenParents(t) \ q.ret :
                    (p \in C.nodes /\ p \in q.todo \cup q.seen) \/ <<t, p>> \in U

\* The reply while it is put together: a transaction in g is there once, one that
\* came by the mempool as often as there are such.
TxdataInv(q, C, M, D) ==
    /\ q.pc \notin {"account", "overlapping", "ok", "freed"} =>
          \A t \in Txid : q.txdata[t] = 0
    /\ q.pc \in {"account", "overlapping"} =>
          \A t \in Txid : q.txdata[t] = IF t \in q.ret THEN Cardinality(q.ret) ELSE 0
    /\ q.pc = "ok" =>
          /\ Replied(q) \subseteq Stored(C, M, D)
          /\ \A t \in Replied(q) :
                q.txdata[t] = IF t \in C.nodes THEN 1 ELSE Cardinality(Replied(q) \ C.nodes)

\* The sets that a reply may not leave.
Admissible(q, S) ==
    /\ q.lookup \in S
    /\ \A t \in S : IF q.via = "g" THEN TokenParents(t) \subseteq S \cup q.excluded
                                   ELSE Parents(t) \subseteq S

MinimalInv(q) ==
    \A S \in SUBSET Txid : Admissible(q, S) =>
        /\ q.pc \in {"searching_g", "searching_mg", "account", "overlapping"} => q.ret \subseteq S
        /\ q.pc \in {"account", "overlapping"} => q.todo \cup q.seen \subseteq S
        /\ q.pc = "ok" => Replied(q) \subseteq S

CompleteReply(q, U) ==
    \A t \in Replied(q) : \A p \in TokenParents(t) \ Replied(q) :
        (q.via = "g" /\ p \in q.excluded) \/ <<t, p>> \in U

OutcomeInv(q, d, C, M, D, U) ==
    /\ q.pc \in {"exclude", "excluding", "mempool", "confirmed"} => q.via = "g"
    /\ q.pc = "confirmed" => q.lookup \notin q.known \ (C.nodes \cup D)
    /\ q.pc = "not_found" => q.lookup \notin q.known \ D
    /\ q.pc = "freed" => d
    /\ q.pc = "ok" =>
          /\ q.lookup \in Replied(q)
          /\ q.via = "g" => Replied(q) \cap q.excluded \subseteq {q.lookup}
          /\ ~d => CompleteReply(q, U)

RequestInv(q, d, C, M, D, U) ==
    /\ q.pc \in {"excluding", "searching_mg", "overlapping", "searching_g"} =>
          q.stack \subseteq q.seen
    /\ ExclusionInv(q, C, M, D)
    /\ ConfirmedInv(q, C)
    /\ MempoolInv(q, d, M, D)
    /\ OverlapInv(q, d, C, M, D, U)
    /\ TxdataInv(q, C, M, D)
    /\ MinimalInv(q)
    /\ OutcomeInv(q, d, C, M, D, U)

\* The inductive invariant; txid_to_token is out of step with tokens only inside
\* clear().
SearchInv ==
    /\ StoreInv(g, mg, gone, unlinked)
    /\ writer \in {"none", "cleared"}
    /\ writer = "none" => index = mg.nodes
    /\ writer = "cleared" => mg.nodes = {} /\ index \subseteq Txid
    /\ unlinked \subseteq Txid \X Txid
    /\ disturbed \subseteq Reader
    /\ req \in [Reader -> Request]
    /\ \A r \in Reader : RequestInv(req[r], r \in disturbed, g, mg, gone, unlinked)

-----------------------------------------------------------------------------
(* The graph. *)

\* Parents are transactions of the universe.
LEMMA ParentsAreTxids ==
    ASSUME NEW t \in Txid
    PROVE  Parents(t) \subseteq Txid /\ TokenParents(t) \subseteq Parents(t)
<1>1. Tx[t] \in Transaction
  BY TxAssumption
<1>2. Tx[t].inputs \in Seq(Outpoint)
  BY <1>1 DEF Transaction
<1>3. \A i \in DOMAIN Tx[t].inputs : Tx[t].inputs[i] \in Outpoint
  BY <1>2
<1>4. \A o \in Outpoint : o.txid \in Txid
  BY DEF Outpoint
<1>. QED
  BY <1>3, <1>4 DEF Parents, Inputs, TokenParents

\* insert_token_data of new transactions of one token: they get exactly their
\* parents of the token in the graph as inputs, and the inputs of the others stay.
LEMMA InsertExact ==
    ASSUME NEW G \in Graph, EdgesSound(G), NEW k \in Txid, NEW txs \in SUBSET Txid,
           \A t \in txs : InTokenGraph(k, t),
           txs \cap G.nodes = {}
    PROVE  LET H == insert_token_data(G, k, txs) IN
           /\ H \in Graph
           /\ H.nodes = G.nodes \cup txs
           /\ EdgesSound(H)
           /\ \A t \in G.nodes : InputsOf(H, t) = InputsOf(G, t)
           /\ \A t \in txs : InputsOf(H, t) = TokenParents(t) \cap H.nodes
<1>. DEFINE N == G.nodes \cup txs
            New == {e \in txs \X N : e[2] \in Parents(e[1]) /\ InTokenGraph(k, e[2])}
            H == insert_token_data(G, k, txs)
<1>1. /\ G.nodes \in SUBSET Txid /\ G.edges \in SUBSET (Txid \X Txid)
      /\ G = [nodes |-> G.nodes, edges |-> G.edges]
  BY DEF Graph
<1>2. add_nodes(G, txs) = [nodes |-> N, edges |-> G.edges]
  BY <1>1 DEF add_nodes
<1>3. Latest(G, txs) = txs
  BY DEF Latest
<1>4. H = [nodes |-> N, edges |-> G.edges \cup New]
  <2>. DEFINE A == add_nodes(G, txs)
  <2>1. A.nodes = N /\ A.edges = G.edges
    BY <1>2
  <2>2. H = [A EXCEPT !.edges = @ \cup New]
    BY <1>3, <2>1 DEF insert_token_data, add_inputs
  <2>. HIDE DEF New
  <2>3. H = [nodes |-> A.nodes, edges |-> A.edges \cup New]
    BY <1>2, <2>2
  <2>. QED
    BY <2>1, <2>3
<1>5. H.nodes = N /\ H.edges = G.edges \cup New
  BY <1>4
<1>6. H \in Graph
  <2>1. New \subseteq Txid \X Txid
    BY <1>1
  <2>2. N \in SUBSET Txid /\ G.edges \cup New \in SUBSET (Txid \X Txid)
    BY <1>1, <2>1
  <2>. HIDE DEF New, N
  <2>. QED
    BY <1>4, <2>2 DEF Graph
<1>7. \A t \in G.nodes : InputsOf(H, t) = InputsOf(G, t)
  <2>. SUFFICES ASSUME NEW t \in G.nodes PROVE InputsOf(H, t) = InputsOf(G, t)
    OBVIOUS
  <2>1. \A m : <<t, m>> \notin New
    OBVIOUS
  <2>2. \A m : <<t, m>> \in G.edges => m \in Txid
    BY <1>1
  <2>3. InputsOf(H, t) = {m \in N : <<t, m>> \in G.edges}
    BY <1>5, <2>1 DEF InputsOf
  <2>4. \A m \in txs : <<t, m>> \notin G.edges
    <3>. SUFFICES ASSUME NEW m \in txs, <<t, m>> \in G.edges PROVE FALSE
      OBVIOUS
    <3>1. <<t, m>>[2] \in G.nodes
      BY DEF EdgesSound
    <3>. QED
      BY <3>1
  <2>. QED
    BY <2>3, <2>4 DEF InputsOf
<1>8. \A t \in txs : InputsOf(H, t) = TokenParents(t) \cap N
  <2>. SUFFICES ASSUME NEW t \in txs PROVE InputsOf(H, t) = TokenParents(t) \cap N
    OBVIOUS
  <2>1. \A m : <<t, m>> \notin G.edges
    <3>. SUFFICES ASSUME NEW m, <<t, m>> \in G.edges PROVE FALSE
      OBVIOUS
    <3>1. <<t, m>>[1] \in G.nodes
      BY DEF EdgesSound
    <3>. QED
      BY <3>1
  <2>2. \A m \in N : <<t, m>> \in New <=> m \in Parents(t) /\ Tx[m].tokenid = k
    BY DEF InTokenGraph
  <2>3. Tx[t].tokenid = k
    BY DEF InTokenGraph
  <2>. HIDE DEF New
  <2>. QED
    BY <1>5, <2>1, <2>2, <2>3 DEF InputsOf, TokenParents
<1>9. EdgesSound(H)
  <2>1. \A e \in H.edges : e[1] \in N /\ e[2] \in N
    <3>1. \A e \in New : e[1] \in txs /\ e[2] \in N
      OBVIOUS
    <3>2. \A e \in G.edges : e[1] \in G.nodes /\ e[2] \in G.nodes
      BY DEF EdgesSound
    <3>. QED
      BY <1>5, <3>1, <3>2
  <2>2. \A t \in N : InputsOf(H, t) \subseteq TokenParents(t)
    BY <1>7, <1>8 DEF EdgesSound
  <2>. QED
    BY <1>5, <2>1, <2>2 DEF EdgesSound
<1>. QED
  BY <1>5, <1>6, <1>7, <1>8, <1>9

-----------------------------------------------------------------------------
(* What the processing thread does to a request between its steps. *)

\* Insertions of transactions that were never stored, and a clear() that moves
\* the nodes of mg to gone, keep the invariant of a request, provided that a
\* reader inside mg is noted as disturbed when mg changes.
LEMMA GraphsMove ==
    ASSUME NEW C, NEW M, NEW D, NEW U, StoreInv(C, M, D, U),
           NEW C2, NEW M2, NEW D2, NEW U2, StoreInv(C2, M2, D2, U2),
           C2.nodes \cap Stored(C, M, D) = C.nodes,
           M2.nodes \cap Stored(C, M, D) \subseteq M.nodes,
           M.nodes \subseteq M2.nodes \cup D2,
           D \subseteq D2, U \subseteq U2,
           \A t \in C.nodes : InputsOf(C2, t) = InputsOf(C, t),
           NEW q \in Request, NEW d \in BOOLEAN, NEW e \in BOOLEAN, d => e,
           q.pc = "searching_mg" /\ ~e => M2 = M,
           RequestInv(q, d, C, M, D, U)
    PROVE  RequestInv(q, e, C2, M2, D2, U2)
<1>1. C.nodes \subseteq C2.nodes
  OBVIOUS
<1>2. Stored(C, M, D) \subseteq Stored(C2, M2, D2)
  BY <1>1 DEF Stored
<1>3. \A t \in C.nodes : InputsOf(C2, t) = InputsOf(C, t)
  OBVIOUS
<1>4. ExclusionInv(q, C2, M2, D2)
  <2>1. ExclusionInv(q, C, M, D)
    BY DEF RequestInv
  <2>2. q.known \cap C2.nodes = q.known \cap C.nodes
    BY <2>1 DEF ExclusionInv
  <2>3. /\ q.known \subseteq Stored(C2, M2, D2)
        /\ q.excluded \subseteq C2.nodes
        /\ ClosedBut(C2, q.excluded, {}, q.excluded)
    BY <1>1, <1>2, <1>3, <2>1 DEF ExclusionInv, ClosedBut
  <2>4. q.pc \in {"exclude", "excluding", "account", "overlapping"} =>
          q.seen \subseteq C2.nodes /\ ClosedBut(C2, q.seen, q.stack, q.seen)
    BY <1>1, <1>3, <2>1 DEF ExclusionInv, ClosedBut
  <2>5. Cardinality(q.asked) < MaxExclude =>
          q.asked \cap q.known \cap C2.nodes \subseteq
              IF q.pc \in {"exclude", "excluding"} THEN q.todo \cup q.seen ELSE q.excluded
    <3>1. q.asked \cap q.known \cap C2.nodes = q.asked \cap q.known \cap C.nodes
      BY <2>2
    <3>. QED
      BY <2>1, <3>1 DEF ExclusionInv
  <2>6. q.pc \in {"exclude", "account"} => q.stack = {}
    BY <2>1 DEF ExclusionInv
  <2>. QED
    BY <2>3, <2>4, <2>5, <2>6 DEF ExclusionInv
<1>5. ConfirmedInv(q, C2)
  BY <1>1, <1>3 DEF RequestInv, ConfirmedInv, ClosedBut
<1>6. MempoolInv(q, e, M2, D2)
  BY DEF RequestInv, MempoolInv
<1>7. OverlapInv(q, e, C2, M2, D2, U2)
  BY <1>1 DEF RequestInv, OverlapInv
<1>8. OutcomeInv(q, e, C2, M2, D2, U2)
  <2>1. CompleteReply(q, U) => CompleteReply(q, U2)
    BY DEF CompleteReply
  <2>. QED
    BY <1>1, <2>1 DEF RequestInv, OutcomeInv
<1>9. TxdataInv(q, C2, M2, D2)
  <2>1. TxdataInv(q, C, M, D)
    BY DEF RequestInv
  <2>2. Replied(q) \subseteq Stored(C, M, D) =>
           /\ Replied(q) \subseteq Stored(C2, M2, D2)
           /\ \A t \in Replied(q) : t \in C2.nodes <=> t \in C.nodes
           /\ Replied(q) \ C2.nodes = Replied(q) \ C.nodes
    BY <1>2
  <2>. QED
    BY <2>1, <2>2 DEF TxdataInv
<1>. QED
  BY <1>4, <1>5, <1>6, <1>7, <1>8, <1>9 DEF RequestInv

-----------------------------------------------------------------------------
(* The steps of a request, the graphs standing still. *)

\* A reader between two requests.
LEMMA IdleFacts ==
    ASSUME NEW C, NEW M, NEW D, NEW U, NEW d \in BOOLEAN
    PROVE  Idle \in Request /\ RequestInv(Idle, d, C, M, D, U)
<1>1. (CHOOSE t \in Txid : TRUE) \in Txid
  BY TxidAssumption
<1>2. Idle \in Request
  BY <1>1 DEF Idle, Request, Pc
<1>3. /\ Idle.pc = "idle" /\ Idle.asked = {} /\ Idle.excluded = {} /\ Idle.known = {}
      /\ \A t \in Txid : Idle.txdata[t] = 0
  BY DEF Idle
<1>. HIDE DEF Idle
<1>. QED
  BY <1>2, <1>3 DEF RequestInv, ExclusionInv, ClosedBut, ConfirmedInv, MempoolInv,
     OverlapInv, TxdataInv, MinimalInv, OutcomeInv

\* A request comes; nothing is excluded yet.
LEMMA BeginFacts ==
    ASSUME NEW C, NEW M, NEW D, NEW U, StoreInv(C, M, D, U), NEW d \in BOOLEAN,
           NEW q2 \in Request,
           /\ q2.pc = "exclude" /\ q2.todo = q2.asked /\ q2.excluded = {}
           /\ q2.seen = {} /\ q2.stack = {} /\ q2.via = "g"
           /\ q2.known \subseteq C.nodes \cup M.nodes
           /\ \A t \in Txid : q2.txdata[t] = 0
    PROVE  RequestInv(q2, d, C, M, D, U)
<1>1. q2.known \subseteq Stored(C, M, D)
  BY DEF Stored
<1>2. ExclusionInv(q2, C, M, D)
  BY <1>1 DEF ExclusionInv, ClosedBut
<1>3. ConfirmedInv(q2, C) /\ MempoolInv(q2, d, M, D) /\ OverlapInv(q2, d, C, M, D, U)
  BY DEF ConfirmedInv, MempoolInv, OverlapInv
<1>4. TxdataInv(q2, C, M, D) /\ MinimalInv(q2) /\ OutcomeInv(q2, d, C, M, D, U)
  BY DEF TxdataInv, MinimalInv, OutcomeInv
<1>. QED
  BY <1>2, <1>3, <1>4 DEF RequestInv

\* The session of one exclusion begins, or is skipped.  Below the limit no other
\* exclusion is given up.
LEMMA ExcludeFacts ==
    ASSUME NEW C, NEW M, NEW D, NEW U, StoreInv(C, M, D, U), NEW d \in BOOLEAN,
           NEW q \in Request, RequestInv(q, d, C, M, D, U),
           q.pc = "exclude", NEW x \in q.todo,
           NEW q2 \in Request,
           /\ q2.todo = Remaining(q, x)
           /\ q2.lookup = q.lookup /\ q2.asked = q.asked /\ q2.txdata = q.txdata /\ q2.known = q.known
           /\ q2.excluded = q.excluded /\ q2.ret = q.ret /\ q2.via = q.via,
           x \notin C.nodes => q2.pc = "exclude" /\ q2.seen = q.seen /\ q2.stack = q.stack,
           x \in C.nodes => q2.pc = "excluding" /\ q2.seen = q.seen \cup {x} /\ q2.stack = {x}
    PROVE  RequestInv(q2, d, C, M, D, U)
<1>1. x \in Txid /\ q.todo \in SUBSET Txid /\ q.asked \in SUBSET Txid
  BY DEF Request
<1>2. Remaining(q, x) \in SUBSET Txid
  BY <1>1 DEF Remaining
<1>3. Cardinality(q.asked) < MaxExclude => Remaining(q, x) = q.todo \ {x}
  <2>1. IsFiniteSet(q.asked)
    BY <1>1, TxidAssumption, FS_Subset
  <2>2. Cardinality(q.asked) \in Nat
    BY <2>1, FS_CardinalityType
  <2>. QED
    BY <2>2, MaxExcludeAssumption DEF Remaining
<1>4. ExclusionInv(q, C, M, D) /\ OutcomeInv(q, d, C, M, D, U)
  BY DEF RequestInv
<1>5. /\ q2.seen \subseteq C.nodes
      /\ ClosedBut(C, q2.seen, q2.stack, q2.seen)
      /\ q2.stack \subseteq q2.seen
      /\ q2.pc \in {"exclude", "excluding"}
      /\ q2.pc = "exclude" => q2.stack = {}
  BY <1>4 DEF ExclusionInv, ClosedBut
<1>6. Cardinality(q.asked) < MaxExclude =>
          q2.asked \cap q2.known \cap C.nodes \subseteq q2.todo \cup q2.seen
  BY <1>3, <1>4 DEF ExclusionInv
<1>7. ExclusionInv(q2, C, M, D)
  BY <1>4, <1>5, <1>6 DEF ExclusionInv
<1>8. ConfirmedInv(q2, C) /\ MempoolInv(q2, d, M, D) /\ OverlapInv(q2, d, C, M, D, U)
  BY <1>5 DEF ConfirmedInv, MempoolInv, OverlapInv
<1>9. TxdataInv(q2, C, M, D) /\ MinimalInv(q2) /\ OutcomeInv(q2, d, C, M, D, U)
  BY <1>4, <1>5 DEF RequestInv, TxdataInv, MinimalInv, OutcomeInv
<1>. QED
  BY <1>5, <1>7, <1>8, <1>9 DEF RequestInv

\* All exclusions are through: the set that was built is closed.
LEMMA ExclusionsDoneFacts ==
    ASSUME NEW C, NEW M, NEW D, NEW U, StoreInv(C, M, D, U), NEW d \in BOOLEAN,
           NEW q \in Request, RequestInv(q, d, C, M, D, U),
           q.pc = "exclude", q.todo = {},
           NEW q2 \in Request,
           /\ q2.pc = "mempool" /\ q2.excluded = q.seen
           /\ q2.asked = q.asked /\ q2.txdata = q.txdata /\ q2.known = q.known /\ q2.via = q.via
    PROVE  RequestInv(q2, d, C, M, D, U)
<1>1. ExclusionInv(q, C, M, D) /\ OutcomeInv(q, d, C, M, D, U)
  BY DEF RequestInv
<1>2. ExclusionInv(q2, C, M, D)
  BY <1>1 DEF ExclusionInv, ClosedBut
<1>3. ConfirmedInv(q2, C) /\ MempoolInv(q2, d, M, D) /\ OverlapInv(q2, d, C, M, D, U)
  BY DEF ConfirmedInv, MempoolInv, OverlapInv
<1>4. TxdataInv(q2, C, M, D) /\ MinimalInv(q2) /\ OutcomeInv(q2, d, C, M, D, U)
  BY <1>1 DEF RequestInv, TxdataInv, MinimalInv, OutcomeInv
<1>. QED
  BY <1>2, <1>3, <1>4 DEF RequestInv

\* The lookup is in the mempool graph: its search begins.
LEMMA SearchMempoolFacts ==
    ASSUME NEW C, NEW M, NEW D, NEW U, StoreInv(C, M, D, U), NEW d \in BOOLEAN, NEW e \in BOOLEAN,
           NEW q \in Request, RequestInv(q, d, C, M, D, U),
           q.pc = "mempool", q.lookup \in M.nodes,
           NEW q2 \in Request,
           /\ q2.pc = "searching_mg" /\ q2.via = "mg" /\ q2.lookup = q.lookup
           /\ q2.seen = {q.lookup} /\ q2.stack = {q.lookup} /\ q2.ret = {q.lookup}
           /\ q2.asked = q.asked /\ q2.txdata = q.txdata /\ q2.known = q.known /\ q2.excluded = q.excluded
    PROVE  RequestInv(q2, e, C, M, D, U)
<1>1. ExclusionInv(q2, C, M, D)
  <2>1. ExclusionInv(q, C, M, D)
    BY DEF RequestInv
  <2>. QED
    BY <2>1 DEF ExclusionInv
<1>2. ConfirmedInv(q2, C) /\ MempoolInv(q2, e, M, D) /\ OverlapInv(q2, e, C, M, D, U)
  BY DEF ConfirmedInv, MempoolInv, OverlapInv, ClosedBut
<1>3. TxdataInv(q2, C, M, D) /\ MinimalInv(q2) /\ OutcomeInv(q2, e, C, M, D, U)
  BY DEF RequestInv, TxdataInv, MinimalInv, Admissible, OutcomeInv
<1>. QED
  BY <1>1, <1>2, <1>3 DEF RequestInv

\* The request goes on to the confirmed graph, ends with NOT_FOUND or reads
\* freed memory: what was built so far stays.
LEMMA MoveOnFacts ==
    ASSUME NEW C, NEW M, NEW D, NEW U, StoreInv(C, M, D, U), NEW d \in BOOLEAN, NEW e \in BOOLEAN,
           NEW q \in Request, RequestInv(q, d, C, M, D, U),
           q.pc \in {"mempool", "confirmed", "searching_mg"},
           NEW q2 \in Request,
           q2.pc \in {"confirmed", "not_found", "freed"},
           q2.pc = "confirmed" => q.pc = "mempool" /\ q.lookup \notin M.nodes,
           q2.pc = "not_found" => q.pc = "confirmed" /\ q.lookup \notin C.nodes,
           q2.pc = "freed" => e,
           /\ q2.via = q.via /\ q2.lookup = q.lookup
           /\ q2.asked = q.asked /\ q2.txdata = q.txdata /\ q2.known = q.known /\ q2.excluded = q.excluded
    PROVE  RequestInv(q2, e, C, M, D, U)
<1>1. ExclusionInv(q, C, M, D) /\ OutcomeInv(q, d, C, M, D, U)
  BY DEF RequestInv
<1>2. ExclusionInv(q2, C, M, D)
  BY <1>1 DEF ExclusionInv
<1>3. ConfirmedInv(q2, C) /\ MempoolInv(q2, e, M, D) /\ OverlapInv(q2, e, C, M, D, U)
  BY DEF ConfirmedInv, MempoolInv, OverlapInv
<1>4. TxdataInv(q2, C, M, D) /\ MinimalInv(q2)
  BY DEF RequestInv, TxdataInv, MinimalInv
<1>5. OutcomeInv(q2, e, C, M, D, U)
  <2>1. q.known \subseteq Stored(C, M, D)
    BY <1>1 DEF ExclusionInv
  <2>. QED
    BY <1>1, <2>1 DEF OutcomeInv, Stored
<1>. QED
  BY <1>2, <1>3, <1>4, <1>5 DEF RequestInv

\* The lookup is in the confirmed graph: its search begins with the exclusions
\* marked.
LEMMA SearchConfirmedFacts ==
    ASSUME NEW C, NEW M, NEW D, NEW U, StoreInv(C, M, D, U), NEW d \in BOOLEAN,
           NEW q \in Request, RequestInv(q, d, C, M, D, U),
           q.pc = "confirmed", q.lookup \in C.nodes,
           NEW q2 \in Request,
           /\ q2.pc = "searching_g" /\ q2.via = q.via /\ q2.lookup = q.lookup
           /\ q2.seen = q.excluded \cup {q.lookup}
           /\ q2.stack = {q.lookup} /\ q2.ret = {q.lookup}
           /\ q2.asked = q.asked /\ q2.txdata = q.txdata /\ q2.known = q.known /\ q2.excluded = q.excluded
    PROVE  RequestInv(q2, d, C, M, D, U)
<1>1. ExclusionInv(q, C, M, D) /\ OutcomeInv(q, d, C, M, D, U)
  BY DEF RequestInv
<1>2. ExclusionInv(q2, C, M, D)
  BY <1>1 DEF ExclusionInv
<1>3. ConfirmedInv(q2, C)
  BY <1>1 DEF ConfirmedInv, OutcomeInv, ClosedBut
<1>4. MempoolInv(q2, d, M, D) /\ OverlapInv(q2, d, C, M, D, U)
  BY DEF MempoolInv, OverlapInv
<1>5. TxdataInv(q2, C, M, D) /\ MinimalInv(q2) /\ OutcomeInv(q2, d, C, M, D, U)
  BY DEF RequestInv, TxdataInv, MinimalInv, Admissible, OutcomeInv
<1>. QED
  BY <1>2, <1>3, <1>4, <1>5 DEF RequestInv

\* The session of a parent that the mempool result leaves open: if g does not
\* have it, it was missing when its child was inserted.
LEMMA OverlapFacts ==
    ASSUME NEW C, NEW M, NEW D, NEW U, StoreInv(C, M, D, U), NEW d \in BOOLEAN,
           NEW q \in Request, RequestInv(q, d, C, M, D, U),
           q.pc = "account", NEW x \in q.todo,
           NEW q2 \in Request,
           /\ q2.todo = q.todo \ {x}
           /\ q2.lookup = q.lookup /\ q2.asked = q.asked /\ q2.txdata = q.txdata /\ q2.known = q.known
           /\ q2.excluded = q.excluded /\ q2.ret = q.ret /\ q2.via = q.via,
           x \notin C.nodes => q2.pc = "account" /\ q2.seen = q.seen /\ q2.stack = q.stack,
           x \in C.nodes => q2.pc = "overlapping" /\ q2.seen = q.seen \cup {x} /\ q2.stack = {x}
    PROVE  RequestInv(q2, d, C, M, D, U)
<1>1. /\ ExclusionInv(q, C, M, D) /\ OverlapInv(q, d, C, M, D, U)
      /\ MinimalInv(q)
  BY DEF RequestInv
<1>2. /\ q2.seen \subseteq C.nodes
      /\ ClosedBut(C, q2.seen, q2.stack, q2.seen)
      /\ q2.stack \subseteq q2.seen
      /\ q2.pc \in {"account", "overlapping"}
      /\ q2.pc = "account" => q2.stack = {}
  BY <1>1 DEF ExclusionInv, ClosedBut
<1>3. ExclusionInv(q2, C, M, D)
  BY <1>1, <1>2 DEF ExclusionInv
<1>4. ConfirmedInv(q2, C) /\ MempoolInv(q2, d, M, D) /\ OutcomeInv(q2, d, C, M, D, U)
  BY <1>2 DEF ConfirmedInv, MempoolInv, OutcomeInv
<1>5. OverlapInv(q2, d, C, M, D, U)
  BY <1>1, <1>2 DEF OverlapInv
<1>6. MinimalInv(q2)
  <2>1. \A S : Admissible(q2, S) => Admissible(q, S)
    BY DEF Admissible
  <2>2. q2.todo \cup q2.seen \subseteq q.todo \cup q.seen
    OBVIOUS
  <2>. QED
    BY <1>1, <1>2, <2>1, <2>2 DEF MinimalInv
<1>7. TxdataInv(q2, C, M, D)
  BY <1>2 DEF RequestInv, TxdataInv
<1>. QED
  BY <1>2, <1>3, <1>4, <1>5, <1>6, <1>7 DEF RequestInv

\* All open parents are through: the reply is complete, and no node in
\* mempool_overlap_set has left g.
LEMMA ReadOverlapFacts ==
    ASSUME NEW C, NEW M, NEW D, NEW U, StoreInv(C, M, D, U), NEW d \in BOOLEAN,
           NEW q \in Request, RequestInv(q, d, C, M, D, U),
           q.pc = "account", q.todo = {},
           NEW q2 \in Request,
           /\ q2.pc = "ok" /\ q2.txdata = Add(q.txdata, q.seen, 1)
           /\ q2.lookup = q.lookup /\ q2.asked = q.asked /\ q2.known = q.known
           /\ q2.excluded = q.excluded /\ q2.via = q.via
    PROVE  /\ q.seen \subseteq C.nodes
           /\ RequestInv(q2, d, C, M, D, U)
<1>1. /\ ExclusionInv(q, C, M, D) /\ OverlapInv(q, d, C, M, D, U)
      /\ TxdataInv(q, C, M, D) /\ MinimalInv(q)
  BY DEF RequestInv
<1>2. q.seen \subseteq C.nodes /\ \A t \in q.seen : InputsOf(C, t) \subseteq q.seen
  BY <1>1 DEF ExclusionInv, ClosedBut
<1>3. ExclusionInv(q2, C, M, D)
  BY <1>1 DEF ExclusionInv
<1>4. ConfirmedInv(q2, C) /\ MempoolInv(q2, d, M, D) /\ OverlapInv(q2, d, C, M, D, U)
  BY DEF ConfirmedInv, MempoolInv, OverlapInv
<1>5. /\ q.ret \subseteq M.nodes \cup D /\ q.ret \in SUBSET Txid /\ q.seen \in SUBSET Txid
      /\ q.ret \cap C.nodes = {} /\ q.lookup \in q.ret /\ q.via = "mg"
  BY <1>1 DEF OverlapInv, StoreInv, Request
<1>6. Cardinality(q.ret) \in Nat /\ Cardinality(q.ret) > 0
  <2>1. IsFiniteSet(q.ret)
    BY <1>5, TxidAssumption, FS_Subset
  <2>. QED
    BY <1>5, <2>1, FS_CardinalityType, FS_EmptySet
<1>7. \A t \in Txid : q2.txdata[t] = IF t \in q.ret THEN Cardinality(q.ret)
                                     ELSE IF t \in q.seen THEN 1 ELSE 0
  BY <1>1, <1>2, <1>5, <1>6 DEF TxdataInv, Add
<1>8. Replied(q2) = q.ret \cup q.seen
  BY <1>5, <1>6, <1>7 DEF Replied
<1>9. TxdataInv(q2, C, M, D)
  <2>1. Replied(q2) \subseteq Stored(C, M, D) /\ Replied(q2) \ C.nodes = q.ret
    BY <1>2, <1>5, <1>8 DEF Stored
  <2>. QED
    BY <1>2, <1>5, <1>7, <1>8, <2>1 DEF TxdataInv
<1>10. MinimalInv(q2)
  <2>1. \A S : Admissible(q2, S) => Admissible(q, S)
    BY DEF Admissible
  <2>. QED
    BY <1>1, <1>8, <2>1 DEF MinimalInv
<1>11. ~d => CompleteReply(q2, U)
  <2>. SUFFICES ASSUME ~d, NEW t \in q.ret \cup q.seen,
                       NEW p \in TokenParents(t), p \notin q.ret \cup q.seen
                PROVE  <<t, p>> \in U
    BY <1>8 DEF CompleteReply
  <2>1. CASE t \in q.ret
    BY <1>1, <2>1 DEF OverlapInv
  <2>2. CASE t \in q.seen
    BY <1>2, <2>2 DEF StoreInv, Accounted
  <2>. QED
    BY <2>1, <2>2
<1>12. OutcomeInv(q2, d, C, M, D, U)
  BY <1>5, <1>8, <1>11 DEF OutcomeInv
<1>13. RequestInv(q2, d, C, M, D, U)
  BY <1>3, <1>4, <1>9, <1>10, <1>12 DEF RequestInv
<1>. QED
  BY <1>2, <1>13

\* One round of a loop: the node that is popped has its inputs marked from now
\* on, and what is marked leaves no admissible set.
LEMMA VisitFacts ==
    ASSUME NEW C, NEW M, NEW D, NEW U, StoreInv(C, M, D, U), NEW d \in BOOLEAN,
           NEW q \in Request, RequestInv(q, d, C, M, D, U),
           q.pc \in {"excluding", "searching_mg", "overlapping", "searching_g"},
           NEW G, G = IF q.pc = "searching_mg" THEN M ELSE C,
           NEW n \in q.stack, n \in G.nodes,
           NEW new, new = InputsOf(G, n) \ q.seen,
           NEW q2 \in Request,
           /\ q2.pc = q.pc /\ q2.seen = q.seen \cup new /\ q2.stack = (q.stack \ {n}) \cup new
           /\ q2.ret = IF q.pc \in {"searching_g", "searching_mg"} THEN q.ret \cup new ELSE q.ret
           /\ q2.lookup = q.lookup /\ q2.asked = q.asked /\ q2.txdata = q.txdata /\ q2.known = q.known
           /\ q2.todo = q.todo /\ q2.excluded = q.excluded /\ q2.via = q.via
    PROVE  RequestInv(q2, d, C, M, D, U)
<1>1. /\ G \in Graph /\ n \in Txid /\ new \subseteq G.nodes /\ new \in SUBSET Txid
      /\ new \subseteq TokenParents(n) /\ new \subseteq Parents(n) /\ new \cap q.seen = {}
  <2>1. G \in Graph /\ EdgesSound(G) /\ G.nodes \subseteq Txid
    BY DEF StoreInv, Graph
  <2>2. InputsOf(G, n) \subseteq TokenParents(n) \cap G.nodes
    BY <2>1 DEF EdgesSound, InputsOf
  <2>. QED
    BY <2>1, <2>2 DEF TokenParents
<1>2. q.stack \subseteq q.seen /\ q2.stack \subseteq q2.seen
  BY DEF RequestInv
<1>3. \A S : Admissible(q2, S) <=> Admissible(q, S)
  BY DEF Admissible
<1>4. OutcomeInv(q2, d, C, M, D, U)
  <2>1. OutcomeInv(q, d, C, M, D, U)
    BY DEF RequestInv
  <2>. QED
    BY <2>1 DEF OutcomeInv
<1>t. TxdataInv(q2, C, M, D)
  BY DEF RequestInv, TxdataInv
<1>5. ASSUME NEW S, NEW X, ClosedBut(G, S, q.stack, X)
      PROVE  ClosedBut(G, S \cup new, q2.stack, X \cup InputsOf(G, n))
  <2>. SUFFICES ASSUME NEW t \in (S \cup new) \ q2.stack
                PROVE  InputsOf(G, t) \subseteq X \cup InputsOf(G, n)
    BY DEF ClosedBut
  <2>1. t = n \/ t \in S \ q.stack
    OBVIOUS
  <2>. QED
    BY <1>5, <2>1 DEF ClosedBut
<1>6. q.seen \cup InputsOf(G, n) = q2.seen
  OBVIOUS
<1>7. CASE q.pc \in {"excluding", "overlapping"}
  <2>. USE <1>7
  <2>1. ExclusionInv(q, C, M, D) /\ OverlapInv(q, d, C, M, D, U) /\ MinimalInv(q)
    BY DEF RequestInv
  <2>2. q2.seen \subseteq C.nodes /\ ClosedBut(C, q2.seen, q2.stack, q2.seen)
    <3>1. G = C
      OBVIOUS
    <3>2. q.seen \subseteq C.nodes /\ ClosedBut(C, q.seen, q.stack, q.seen)
      BY <2>1 DEF ExclusionInv
    <3>. QED
      BY <1>1, <1>5, <1>6, <3>1, <3>2
  <2>3. ExclusionInv(q2, C, M, D)
    BY <2>1, <2>2 DEF ExclusionInv
  <2>4. ConfirmedInv(q2, C) /\ MempoolInv(q2, d, M, D)
    BY DEF ConfirmedInv, MempoolInv
  <2>5. OverlapInv(q2, d, C, M, D, U)
    BY <2>1 DEF OverlapInv
  <2>6. MinimalInv(q2)
    <3>. SUFFICES ASSUME NEW S \in SUBSET Txid, Admissible(q, S), q.pc = "overlapping"
                  PROVE  q2.ret \subseteq S /\ q2.todo \cup q2.seen \subseteq S
      BY <1>3 DEF MinimalInv
    <3>1. q.ret \subseteq S /\ q.todo \cup q.seen \subseteq S
      BY <2>1 DEF MinimalInv
    <3>2. Parents(n) \subseteq S
      BY <1>2, <2>1, <3>1 DEF Admissible, OverlapInv
    <3>. QED
      BY <1>1, <3>1, <3>2
  <2>. QED
    BY <1>2, <1>4, <1>t, <2>3, <2>4, <2>5, <2>6 DEF RequestInv
<1>8. CASE q.pc = "searching_g"
  <2>. USE <1>8
  <2>1. ExclusionInv(q, C, M, D) /\ ConfirmedInv(q, C) /\ MinimalInv(q)
    BY DEF RequestInv
  <2>2. G = C /\ q2.ret = q.ret \cup new
    OBVIOUS
  <2>3. ExclusionInv(q2, C, M, D)
    BY <2>1 DEF ExclusionInv
  <2>4. ConfirmedInv(q2, C)
    <3>1. ClosedBut(C, q.ret, q.stack, q.seen)
      BY <2>1 DEF ConfirmedInv
    <3>2. ClosedBut(G, q.ret \cup new, q2.stack, q.seen \cup InputsOf(G, n))
      BY <1>5, <2>2, <3>1
    <3>. QED
      BY <1>1, <1>6, <2>1, <2>2, <3>2 DEF ConfirmedInv
  <2>5. MempoolInv(q2, d, M, D) /\ OverlapInv(q2, d, C, M, D, U)
    BY DEF MempoolInv, OverlapInv
  <2>6. MinimalInv(q2)
    <3>. SUFFICES ASSUME NEW S \in SUBSET Txid, Admissible(q, S)
                  PROVE  q2.ret \subseteq S
      BY <1>3 DEF MinimalInv
    <3>1. q.ret \subseteq S
      BY <2>1 DEF MinimalInv
    <3>2. TokenParents(n) \subseteq S \cup q.excluded
      BY <2>1, <3>1 DEF Admissible, ConfirmedInv
    <3>. QED
      BY <1>1, <2>1, <2>2, <3>1, <3>2 DEF ConfirmedInv
  <2>. QED
    BY <1>2, <1>4, <1>t, <2>3, <2>4, <2>5, <2>6 DEF RequestInv
<1>9. CASE q.pc = "searching_mg"
  <2>. USE <1>9
  <2>1. ExclusionInv(q, C, M, D) /\ MempoolInv(q, d, M, D) /\ MinimalInv(q)
    BY DEF RequestInv
  <2>2. G = M /\ q2.ret = q.ret \cup new
    OBVIOUS
  <2>3. ExclusionInv(q2, C, M, D)
    BY <2>1 DEF ExclusionInv
  <2>4. MempoolInv(q2, d, M, D)
    <3>1. q.seen = q.ret /\ q2.seen = q2.ret /\ (~d => ClosedBut(M, q.ret, q.stack, q.seen))
      BY <2>1, <2>2 DEF MempoolInv
    <3>2. ~d => ClosedBut(M, q2.ret, q2.stack, q2.ret)
      BY <1>5, <1>6, <2>2, <3>1
    <3>. QED
      BY <1>1, <2>1, <2>2, <3>1, <3>2 DEF MempoolInv
  <2>5. ConfirmedInv(q2, C) /\ OverlapInv(q2, d, C, M, D, U)
    BY DEF ConfirmedInv, OverlapInv
  <2>6. MinimalInv(q2)
    <3>. SUFFICES ASSUME NEW S \in SUBSET Txid, Admissible(q, S)
                  PROVE  q2.ret \subseteq S
      BY <1>3 DEF MinimalInv
    <3>1. q.ret \subseteq S
      BY <2>1 DEF MinimalInv
    <3>2. Parents(n) \subseteq S
      BY <2>1, <3>1 DEF Admissible, MempoolInv
    <3>. QED
      BY <1>1, <2>2, <3>1, <3>2
  <2>. QED
    BY <1>2, <1>4, <1>t, <2>3, <2>4, <2>5, <2>6 DEF RequestInv
<1>. QED
  BY <1>7, <1>8, <1>9

\* The end of a loop: what it marked is closed.
LEMMA LeaveFacts ==
    ASSUME NEW C, NEW M, NEW D, NEW U, StoreInv(C, M, D, U), NEW d \in BOOLEAN,
           NEW q \in Request, RequestInv(q, d, C, M, D, U), q.stack = {},
           NEW q2 \in Request,
           /\ q2.lookup = q.lookup /\ q2.asked = q.asked /\ q2.known = q.known
           /\ q2.excluded = q.excluded /\ q2.ret = q.ret /\ q2.via = q.via /\ q2.stack = {},
           \/ q.pc = "excluding" /\ q2.pc = "exclude" /\ q2.seen = q.seen /\ q2.todo = q.todo
              /\ q2.txdata = q.txdata
           \/ q.pc = "overlapping" /\ q2.pc = "account" /\ q2.seen = q.seen /\ q2.todo = q.todo
              /\ q2.txdata = q.txdata
           \/ q.pc = "searching_g" /\ q2.pc = "ok" /\ q2.txdata = Add(q.txdata, q.ret, 1)
           \/ q.pc = "searching_mg" /\ q2.pc = "account" /\ q2.seen = {}
              /\ q2.todo = Unaccounted(q) /\ q2.txdata = Add(q.txdata, q.ret, Cardinality(q.ret))
    PROVE  RequestInv(q2, d, C, M, D, U)
<1>1. /\ ExclusionInv(q, C, M, D) /\ OutcomeInv(q, d, C, M, D, U) /\ MinimalInv(q)
      /\ ConfirmedInv(q, C) /\ MempoolInv(q, d, M, D) /\ OverlapInv(q, d, C, M, D, U)
      /\ TxdataInv(q, C, M, D) /\ q.ret \in SUBSET Txid
  BY DEF RequestInv, Request
<1>2. \A S : Admissible(q2, S) => Admissible(q, S)
  BY DEF Admissible
<1>3. ExclusionInv(q2, C, M, D)
  BY <1>1 DEF ExclusionInv, ClosedBut
<1>4. ConfirmedInv(q2, C) /\ MempoolInv(q2, d, M, D)
  BY DEF ConfirmedInv, MempoolInv
<1>5. CASE q.pc \in {"excluding", "overlapping"}
  <2>1. OverlapInv(q2, d, C, M, D, U)
    BY <1>1, <1>5 DEF OverlapInv
  <2>2. MinimalInv(q2) /\ OutcomeInv(q2, d, C, M, D, U)
    BY <1>1, <1>2, <1>5 DEF MinimalInv, OutcomeInv
  <2>3. TxdataInv(q2, C, M, D)
    BY <1>1, <1>5 DEF TxdataInv
  <2>. QED
    BY <1>3, <1>4, <2>1, <2>2, <2>3 DEF RequestInv
<1>6. CASE q.pc = "searching_g"
  <2>1. \A t \in Txid : q2.txdata[t] = IF t \in q.ret THEN 1 ELSE 0
    BY <1>1, <1>6 DEF TxdataInv, Add
  <2>2. Replied(q2) = q.ret
    BY <1>1, <2>1 DEF Replied
  <2>3. q.ret \subseteq C.nodes
    BY <1>1, <1>6 DEF ConfirmedInv
  <2>4. TxdataInv(q2, C, M, D)
    BY <1>1, <1>6, <2>1, <2>2, <2>3 DEF TxdataInv, Stored
  <2>5. MinimalInv(q2)
    BY <1>1, <1>2, <1>6, <2>2 DEF MinimalInv
  <2>6. CompleteReply(q2, U)
    <3>. SUFFICES ASSUME NEW t \in q.ret, NEW p \in TokenParents(t) \ q.ret
                  PROVE  (q.via = "g" /\ p \in q.excluded) \/ <<t, p>> \in U
      BY <2>2 DEF CompleteReply
    <3>1. p \in InputsOf(C, t) \/ <<t, p>> \in U
      BY <2>3 DEF StoreInv, Accounted
    <3>2. InputsOf(C, t) \subseteq q.excluded \cup q.ret /\ q.via = "g"
      BY <1>1, <1>6 DEF ConfirmedInv, ClosedBut
    <3>. QED
      BY <3>1, <3>2
  <2>7. OutcomeInv(q2, d, C, M, D, U) /\ OverlapInv(q2, d, C, M, D, U)
    BY <1>1, <1>6, <2>2, <2>6 DEF OutcomeInv, ConfirmedInv, OverlapInv
  <2>. QED
    BY <1>3, <1>4, <1>6, <2>4, <2>5, <2>7 DEF RequestInv
<1>7. CASE q.pc = "searching_mg"
  <2>1. OverlapInv(q2, d, C, M, D, U)
    <3>. SUFFICES ASSUME ~d, NEW t \in q.ret, NEW p \in TokenParents(t) \ q.ret
                  PROVE  (p \in C.nodes /\ p \in Unaccounted(q)) \/ <<t, p>> \in U
      BY <1>1, <1>7 DEF OverlapInv, MempoolInv
    <3>1. t \in M.nodes /\ InputsOf(M, t) \subseteq q.ret
      BY <1>1, <1>7 DEF MempoolInv, ClosedBut
    <3>2. p \in C.nodes \/ <<t, p>> \in U
      BY <3>1 DEF StoreInv, Accounted
    <3>3. p \in Unaccounted(q)
      BY DEF Unaccounted, TokenParents
    <3>. QED
      BY <3>2, <3>3
  <2>2. MinimalInv(q2)
    <3>. SUFFICES ASSUME NEW S \in SUBSET Txid, Admissible(q, S)
                  PROVE  q.ret \subseteq S /\ Unaccounted(q) \subseteq S
      BY <1>2, <1>7 DEF MinimalInv
    <3>1. q.ret \subseteq S
      BY <1>1, <1>7 DEF MinimalInv
    <3>2. \A t \in q.ret : Parents(t) \subseteq S
      BY <1>1, <1>7, <3>1 DEF Admissible, MempoolInv
    <3>. QED
      BY <3>1, <3>2 DEF Unaccounted
  <2>3. OutcomeInv(q2, d, C, M, D, U)
    BY <1>7 DEF OutcomeInv
  <2>4. TxdataInv(q2, C, M, D)
    <3>1. Cardinality(q.ret) \in Nat
      BY <1>1, TxidAssumption, FS_Subset, FS_CardinalityType
    <3>. QED
      BY <1>1, <1>7, <3>1 DEF TxdataInv, Add
  <2>. QED
    BY <1>3, <1>4, <1>7, <2>1, <2>2, <2>3, <2>4 DEF RequestInv
<1>. QED
  BY <1>5, <1>6, <1>7

-----------------------------------------------------------------------------
(* The invariant. *)

\* A step of one reader needs to be looked at for that reader only.
LEMMA ReaderFrame ==
    ASSUME SearchInv, NEW r \in Reader, NEW q2 \in Request, Step(r, q2),
           disturbed' \in SUBSET Reader,
           \A s \in Reader \ {r} : s \in disturbed' <=> s \in disturbed,
           RequestInv(q2, r \in disturbed', g, mg, gone, unlinked)
    PROVE  SearchInv'
<1>1. /\ g' = g /\ mg' = mg /\ gone' = gone /\ index' = index /\ writer' = writer
      /\ unlinked' = unlinked /\ req' = [req EXCEPT ![r] = q2]
  BY DEF Step, graphVars
<1>2. req \in [Reader -> Request]
  BY DEF SearchInv
<1>3. req' \in [Reader -> Request]
  BY <1>1, <1>2
<1>4. \A s \in Reader : RequestInv(req'[s], s \in disturbed', g, mg, gone, unlinked)
  <2>. SUFFICES ASSUME NEW s \in Reader
                PROVE  RequestInv(req'[s], s \in disturbed', g, mg, gone, unlinked)
    OBVIOUS
  <2>1. CASE s = r
    <3>1. req'[s] = q2
      BY <1>1, <1>2, <2>1
    <3>. QED
      BY <2>1, <3>1
  <2>2. CASE s # r
    <3>1. req'[s] = req[s]
      BY <1>1, <1>2, <2>2
    <3>2. (s \in disturbed') = (s \in disturbed)
      BY <2>2
    <3>3. RequestInv(req[s], s \in disturbed, g, mg, gone, unlinked)
      BY DEF SearchInv
    <3>. QED
      BY <3>1, <3>2, <3>3
  <2>. QED
    BY <2>1, <2>2
<1>. QED
  BY <1>1, <1>3, <1>4 DEF SearchInv

\* The steps of a reader keep the invariant.
LEMMA ReaderKeepsInv ==
    ASSUME SearchInv, NEW r \in Reader, ReaderStep(r)
    PROVE  SearchInv'
<1>. DEFINE q == req[r]
            d == r \in disturbed
<1>1. /\ StoreInv(g, mg, gone, unlinked) /\ q \in Request /\ disturbed \in SUBSET Reader
      /\ d \in BOOLEAN /\ RequestInv(q, d, g, mg, gone, unlinked)
  BY DEF SearchInv
<1>2. ASSUME NEW t \in Txid, NEW X \in SUBSET Txid, Begin(r, t, X)
      PROVE  SearchInv'
  <2>. DEFINE q2 == [Idle EXCEPT !.pc = "exclude", !.lookup = t, !.asked = X, !.todo = X,
                                 !.known = (X \cup {t}) \cap (g.nodes \cup mg.nodes)]
  <2>1. disturbed' = disturbed \ {r} /\ Step(r, q2)
    BY <1>2 DEF Begin
  <2>2. q2 \in Request /\ RequestInv(q2, r \in disturbed', g, mg, gone, unlinked)
    <3>. DEFINE K == (X \cup {t}) \cap (g.nodes \cup mg.nodes)
                e == r \in disturbed'
    <3>1. e \in BOOLEAN /\ K \in SUBSET Txid
      BY <1>1 DEF StoreInv, Graph
    <3>2. /\ Idle \in Request /\ Idle.excluded = {} /\ Idle.seen = {} /\ Idle.stack = {}
          /\ Idle.via = "g" /\ \A u \in Txid : Idle.txdata[u] = 0
      BY IdleFacts DEF Idle
    <3>3. q2 = [Idle EXCEPT !.pc = "exclude", !.lookup = t, !.asked = X, !.todo = X,
                            !.known = K] /\ K \subseteq g.nodes \cup mg.nodes
      OBVIOUS
    <3>. HIDE DEF q, d, q2, K, e
    <3>4. /\ q2 \in Request /\ q2.pc = "exclude" /\ q2.asked = X /\ q2.todo = X
          /\ q2.excluded = {} /\ q2.seen = {} /\ q2.stack = {} /\ q2.via = "g"
          /\ q2.known = K /\ q2.txdata = Idle.txdata
      BY <3>1, <3>2, <3>3 DEF Request, Pc
    <3>5. /\ q2.known \subseteq g.nodes \cup mg.nodes /\ q2.todo = q2.asked
          /\ \A u \in Txid : q2.txdata[u] = 0
      BY <3>2, <3>3, <3>4
    <3>6. RequestInv(q2, e, g, mg, gone, unlinked)
      BY <1>1, <3>1, <3>4, <3>5, BeginFacts
    <3>. QED
      BY <3>4, <3>6 DEF e
  <2>. HIDE DEF q2
  <2>. QED
    BY <1>1, <2>1, <2>2, ReaderFrame
<1>3. ASSUME NEW x \in Txid, Exclude(r, x)
      PROVE  SearchInv'
  <2>. DEFINE p == [q EXCEPT !.todo = Remaining(q, x)]
              q2 == IF x \notin g.nodes THEN p
                    ELSE [p EXCEPT !.pc = "excluding", !.seen = @ \cup {x}, !.stack = {x}]
  <2>1. q.pc = "exclude" /\ x \in q.todo /\ Step(r, q2) /\ disturbed' = disturbed
    BY <1>3 DEF Exclude
  <2>2. q2 \in Request /\ RequestInv(q2, d, g, mg, gone, unlinked)
    <3>1. q2 \in Request
      <4>1. Remaining(q, x) \in SUBSET Txid
        BY <1>1 DEF Remaining, Request
      <4>. QED
        BY <1>1, <2>1, <4>1 DEF Request, Pc
    <3>2. /\ q2.todo = Remaining(q, x)
          /\ q2.lookup = q.lookup /\ q2.asked = q.asked /\ q2.txdata = q.txdata /\ q2.known = q.known
          /\ q2.excluded = q.excluded /\ q2.ret = q.ret /\ q2.via = q.via
      BY <1>1, <2>1 DEF Request
    <3>3. x \notin g.nodes => q2.pc = "exclude" /\ q2.seen = q.seen /\ q2.stack = q.stack
      BY <1>1, <2>1 DEF Request
    <3>4. x \in g.nodes => q2.pc = "excluding" /\ q2.seen = q.seen \cup {x} /\ q2.stack = {x}
      BY <1>1, <2>1 DEF Request
    <3>. HIDE DEF p, q, q2, d
    <3>. QED
      BY <1>1, <2>1, <3>1, <3>2, <3>3, <3>4, ExcludeFacts
  <2>. HIDE DEF q2
  <2>. QED
    BY <1>1, <2>1, <2>2, ReaderFrame
<1>4. ASSUME NEW x \in Txid, Overlap(r, x)
      PROVE  SearchInv'
  <2>. DEFINE p == [q EXCEPT !.todo = @ \ {x}]
              q2 == IF x \notin g.nodes THEN p
                    ELSE [p EXCEPT !.pc = "overlapping", !.seen = @ \cup {x}, !.stack = {x}]
  <2>1. q.pc = "account" /\ x \in q.todo /\ Step(r, q2) /\ disturbed' = disturbed
    BY <1>4 DEF Overlap
  <2>2. q2 \in Request /\ RequestInv(q2, d, g, mg, gone, unlinked)
    <3>1. q2 \in Request
      BY <1>1 DEF Request, Pc
    <3>2. /\ q2.todo = q.todo \ {x}
          /\ q2.lookup = q.lookup /\ q2.asked = q.asked /\ q2.txdata = q.txdata /\ q2.known = q.known
          /\ q2.excluded = q.excluded /\ q2.ret = q.ret /\ q2.via = q.via
      BY <1>1, <2>1 DEF Request
    <3>3. x \notin g.nodes => q2.pc = "account" /\ q2.seen = q.seen /\ q2.stack = q.stack
      BY <1>1, <2>1 DEF Request
    <3>4. x \in g.nodes => q2.pc = "overlapping" /\ q2.seen = q.seen \cup {x} /\ q2.stack = {x}
      BY <1>1, <2>1 DEF Request
    <3>. HIDE DEF p, q, q2, d
    <3>. QED
      BY <1>1, <2>1, <3>1, <3>2, <3>3, <3>4, OverlapFacts
  <2>. HIDE DEF q2
  <2>. QED
    BY <1>1, <2>1, <2>2, ReaderFrame
<1>5. ASSUME NEW n \in Txid, Visit(r, n)
      PROVE  SearchInv'
  <2>. DEFINE G == GraphOf(r)
              new == InputsOf(G, n) \ q.seen
              q2 == [q EXCEPT !.seen = @ \cup new,
                              !.stack = (@ \ {n}) \cup new,
                              !.ret = IF q.pc \in {"searching_g", "searching_mg"}
                                      THEN @ \cup new ELSE @]
  <2>1. /\ q.pc \in {"excluding", "searching_mg", "overlapping", "searching_g"}
        /\ n \in q.stack \cap G.nodes /\ Step(r, q2) /\ disturbed' = disturbed
    BY <1>5 DEF Visit, Round, Inside
  <2>2. G = IF q.pc = "searching_mg" THEN mg ELSE g
    BY DEF GraphOf, InMempool
  <2>. HIDE DEF G
  <2>3. q2 \in Request /\ RequestInv(q2, d, g, mg, gone, unlinked)
    <3>. DEFINE sn == q.seen \cup new
                st == (q.stack \ {n}) \cup new
                rt == IF q.pc \in {"searching_g", "searching_mg"} THEN q.ret \cup new ELSE q.ret
    <3>1. new = InputsOf(G, n) \ q.seen /\ new \in SUBSET Txid
      BY <1>1, <2>2 DEF StoreInv, Graph, InputsOf
    <3>2. sn \in SUBSET Txid /\ st \in SUBSET Txid /\ rt \in SUBSET Txid
      BY <1>1, <3>1 DEF Request
    <3>3. q2 = [q EXCEPT !.seen = sn, !.stack = st, !.ret = rt]
      OBVIOUS
    <3>. HIDE DEF q, q2, new, d
    <3>4. /\ q2 \in Request /\ q2.pc = q.pc /\ q2.seen = sn /\ q2.stack = st /\ q2.ret = rt
          /\ q2.lookup = q.lookup /\ q2.asked = q.asked /\ q2.txdata = q.txdata /\ q2.known = q.known
          /\ q2.todo = q.todo /\ q2.excluded = q.excluded /\ q2.via = q.via
      <4>. HIDE DEF sn, st, rt
      <4>. QED
        BY <1>1, <3>2, <3>3 DEF Request
    <3>5. n \in q.stack /\ n \in G.nodes
      BY <2>1
    <3>6. RequestInv(q2, d, g, mg, gone, unlinked)
      BY <1>1, <2>1, <2>2, <3>1, <3>4, <3>5, VisitFacts, SMTT(60)
    <3>. QED
      BY <3>4, <3>6
  <2>. HIDE DEF q2
  <2>. QED
    BY <1>1, <2>1, <2>3, ReaderFrame
<1>6. CASE ExclusionsDone(r)
  <2>. DEFINE q2 == [q EXCEPT !.pc = "mempool", !.excluded = q.seen]
  <2>1. q.pc = "exclude" /\ q.todo = {} /\ Step(r, q2) /\ disturbed' = disturbed
    BY <1>6 DEF ExclusionsDone
  <2>2. q2 \in Request /\ RequestInv(q2, d, g, mg, gone, unlinked)
    <3>1. q2 \in Request
      BY <1>1 DEF Request, Pc
    <3>2. /\ q2.pc = "mempool" /\ q2.excluded = q.seen
          /\ q2.asked = q.asked /\ q2.txdata = q.txdata /\ q2.known = q.known /\ q2.via = q.via
      BY <1>1 DEF Request
    <3>. HIDE DEF q, q2, d
    <3>. QED
      BY <1>1, <2>1, <3>1, <3>2, ExclusionsDoneFacts
  <2>. HIDE DEF q2
  <2>. QED
    BY <1>1, <2>1, <2>2, ReaderFrame
<1>7. CASE SearchMempool(r)
  <2>. DEFINE e == r \in disturbed'
  <2>1. /\ q.pc = "mempool" /\ e \in BOOLEAN /\ disturbed' \in SUBSET Reader
        /\ \A s \in Reader \ {r} : s \in disturbed' <=> s \in disturbed
    BY <1>1, <1>7 DEF SearchMempool
  <2>2. CASE q.lookup \in mg.nodes /\
             Step(r, [q EXCEPT !.pc = "searching_mg", !.via = "mg", !.seen = {q.lookup},
                               !.stack = {q.lookup}, !.ret = {q.lookup}])
    <3>. DEFINE q2 == [q EXCEPT !.pc = "searching_mg", !.via = "mg", !.seen = {q.lookup},
                                !.stack = {q.lookup}, !.ret = {q.lookup}]
    <3>1. q2 \in Request /\ RequestInv(q2, e, g, mg, gone, unlinked)
      <4>1. q2 \in Request
        BY <1>1 DEF Request, Pc
      <4>2. /\ q2.pc = "searching_mg" /\ q2.via = "mg" /\ q2.lookup = q.lookup
            /\ q2.seen = {q.lookup} /\ q2.stack = {q.lookup} /\ q2.ret = {q.lookup}
            /\ q2.asked = q.asked /\ q2.txdata = q.txdata /\ q2.known = q.known /\ q2.excluded = q.excluded
        BY <1>1 DEF Request
      <4>. HIDE DEF q, q2, d, e
      <4>. QED
        BY <1>1, <2>1, <2>2, <4>1, <4>2, SearchMempoolFacts
    <3>2. Step(r, q2)
      BY <2>2
    <3>. HIDE DEF q2
    <3>. QED
      BY <2>1, <3>1, <3>2, ReaderFrame
  <2>3. CASE q.lookup \notin mg.nodes /\ Step(r, [q EXCEPT !.pc = "confirmed"])
    <3>. DEFINE q2 == [q EXCEPT !.pc = "confirmed"]
    <3>1. q2 \in Request /\ RequestInv(q2, e, g, mg, gone, unlinked)
      <4>1. q2 \in Request
        BY <1>1 DEF Request, Pc
      <4>2. /\ q2.pc = "confirmed" /\ q2.via = q.via /\ q2.lookup = q.lookup
            /\ q2.asked = q.asked /\ q2.txdata = q.txdata /\ q2.known = q.known /\ q2.excluded = q.excluded
        BY <1>1 DEF Request
      <4>. HIDE DEF q, q2, d, e
      <4>. QED
        BY <1>1, <2>1, <2>3, <4>1, <4>2, MoveOnFacts
    <3>2. Step(r, q2)
      BY <2>3
    <3>. HIDE DEF q2
    <3>. QED
      BY <2>1, <3>1, <3>2, ReaderFrame
  <2>4. CASE q.lookup \in index \ mg.nodes /\ Step(r, [q EXCEPT !.pc = "freed"])
    <3>. DEFINE q2 == [q EXCEPT !.pc = "freed"]
    <3>1. writer = "cleared"
      BY <2>4 DEF SearchInv
    <3>2. e
      BY <1>7, <3>1 DEF SearchMempool
    <3>3. q2 \in Request /\ RequestInv(q2, e, g, mg, gone, unlinked)
      <4>1. q2 \in Request
        BY <1>1 DEF Request, Pc
      <4>2. /\ q2.pc = "freed" /\ q2.via = q.via /\ q2.lookup = q.lookup
            /\ q2.asked = q.asked /\ q2.txdata = q.txdata /\ q2.known = q.known /\ q2.excluded = q.excluded
        BY <1>1 DEF Request
      <4>. HIDE DEF q, q2, d, e
      <4>. QED
        BY <1>1, <2>1, <3>2, <4>1, <4>2, MoveOnFacts
    <3>4. Step(r, q2)
      BY <2>4
    <3>. HIDE DEF q2
    <3>. QED
      BY <2>1, <3>3, <3>4, ReaderFrame
  <2>. QED
    BY <1>7, <2>2, <2>3, <2>4 DEF SearchMempool
<1>8. CASE SearchConfirmed(r)
  <2>1. q.pc = "confirmed" /\ disturbed' = disturbed
    BY <1>8 DEF SearchConfirmed
  <2>2. CASE q.lookup \notin g.nodes
    <3>. DEFINE q2 == [q EXCEPT !.pc = "not_found"]
    <3>1. q2 \in Request /\ RequestInv(q2, d, g, mg, gone, unlinked)
      <4>1. q2 \in Request
        BY <1>1 DEF Request, Pc
      <4>2. /\ q2.pc = "not_found" /\ q2.via = q.via /\ q2.lookup = q.lookup
            /\ q2.asked = q.asked /\ q2.txdata = q.txdata /\ q2.known = q.known /\ q2.excluded = q.excluded
        BY <1>1 DEF Request
      <4>. HIDE DEF q, q2, d
      <4>. QED
        BY <1>1, <2>1, <2>2, <4>1, <4>2, MoveOnFacts
    <3>2. Step(r, q2)
      BY <1>8, <2>2 DEF SearchConfirmed
    <3>. HIDE DEF q2
    <3>. QED
      BY <1>1, <2>1, <3>1, <3>2, ReaderFrame
  <2>3. CASE q.lookup \in g.nodes
    <3>. DEFINE q2 == [q EXCEPT !.pc = "searching_g", !.seen = q.excluded \cup {q.lookup},
                                !.stack = {q.lookup}, !.ret = {q.lookup}]
    <3>1. q2 \in Request /\ RequestInv(q2, d, g, mg, gone, unlinked)
      <4>1. q2 \in Request
        BY <1>1 DEF Request, Pc
      <4>2. /\ q2.pc = "searching_g" /\ q2.via = q.via /\ q2.lookup = q.lookup
            /\ q2.seen = q.excluded \cup {q.lookup}
            /\ q2.stack = {q.lookup} /\ q2.ret = {q.lookup}
            /\ q2.asked = q.asked /\ q2.txdata = q.txdata /\ q2.known = q.known /\ q2.excluded = q.excluded
        BY <1>1 DEF Request
      <4>. HIDE DEF q, q2, d
      <4>. QED
        BY <1>1, <2>1, <2>3, <4>1, <4>2, SearchConfirmedFacts
    <3>2. Step(r, q2)
      BY <1>8, <2>3 DEF SearchConfirmed
    <3>. HIDE DEF q2
    <3>. QED
      BY <1>1, <2>1, <3>1, <3>2, ReaderFrame
  <2>. QED
    BY <2>2, <2>3
<1>9. CASE ReadOverlap(r)
  <2>. DEFINE q2 == [q EXCEPT !.pc = "ok", !.txdata = Add(@, q.seen, 1)]
  <2>1. q.pc = "account" /\ q.todo = {} /\ disturbed' = disturbed
    BY <1>9 DEF ReadOverlap
  <2>2. q.seen \subseteq g.nodes /\ q2 \in Request /\ RequestInv(q2, d, g, mg, gone, unlinked)
    <3>. DEFINE a == Add(q.txdata, q.seen, 1)
    <3>0. a \in [Txid -> Nat] /\ q2 = [q EXCEPT !.pc = "ok", !.txdata = a]
      BY <1>1 DEF Request, Add
    <3>. HIDE DEF a
    <3>1. q2 \in Request
      BY <1>1, <3>0 DEF Request, Pc
    <3>2. /\ q2.pc = "ok" /\ q2.txdata = a
          /\ q2.lookup = q.lookup /\ q2.asked = q.asked /\ q2.known = q.known
          /\ q2.excluded = q.excluded /\ q2.via = q.via
      BY <1>1, <3>0 DEF Request
    <3>. HIDE DEF q, q2, d
    <3>. QED
      BY <1>1, <2>1, <3>1, <3>2, ReadOverlapFacts DEF a
  <2>3. Step(r, q2)
    BY <1>9, <2>2 DEF ReadOverlap
  <2>. HIDE DEF q2
  <2>. QED
    BY <1>1, <2>1, <2>2, <2>3, ReaderFrame
<1>10. CASE VisitFreed(r)
  <2>. DEFINE q2 == [q EXCEPT !.pc = "freed"]
  <2>1. /\ q.pc \in {"excluding", "searching_mg", "overlapping", "searching_g"}
        /\ ~(q.stack \subseteq GraphOf(r).nodes)
        /\ disturbed' = disturbed /\ Step(r, q2)
    BY <1>10 DEF VisitFreed, Inside
  <2>2. q.pc = "searching_mg"
    <3>. SUFFICES ASSUME q.pc # "searching_mg" PROVE FALSE
      OBVIOUS
    <3>1. GraphOf(r) = g
      BY DEF GraphOf, InMempool
    <3>2. q.stack \subseteq q.seen /\ ExclusionInv(q, g, mg, gone) /\ ConfirmedInv(q, g)
      BY <1>1, <2>1 DEF RequestInv
    <3>3. q.stack \subseteq g.nodes
      BY <2>1, <3>2 DEF ExclusionInv, ConfirmedInv
    <3>. QED
      BY <2>1, <3>1, <3>3
  <2>3. d
    <3>1. GraphOf(r) = mg
      BY <2>2 DEF GraphOf, InMempool
    <3>2. MempoolInv(q, d, mg, gone)
      BY <1>1 DEF RequestInv
    <3>. QED
      BY <2>1, <2>2, <3>1, <3>2 DEF MempoolInv
  <2>4. q2 \in Request /\ RequestInv(q2, d, g, mg, gone, unlinked)
    <3>1. q2 \in Request
      BY <1>1 DEF Request, Pc
    <3>2. /\ q2.pc = "freed" /\ q2.via = q.via /\ q2.lookup = q.lookup
          /\ q2.asked = q.asked /\ q2.txdata = q.txdata /\ q2.known = q.known /\ q2.excluded = q.excluded
      BY <1>1 DEF Request
    <3>. HIDE DEF q, q2, d
    <3>. QED
      BY <1>1, <2>2, <2>3, <3>1, <3>2, MoveOnFacts
  <2>. HIDE DEF q2
  <2>. QED
    BY <1>1, <2>1, <2>4, ReaderFrame
<1>11. CASE Leave(r)
  <2>1. /\ q.pc \in {"excluding", "searching_mg", "overlapping", "searching_g"}
        /\ q.stack = {} /\ disturbed' = disturbed
    BY <1>11 DEF Leave, Inside
  <2>2. Unaccounted(q) \in SUBSET Txid
    <3>1. q.ret \in SUBSET Txid
      BY <1>1 DEF Request
    <3>. QED
      BY <3>1, ParentsAreTxids DEF Unaccounted
  <2>3. \E q2 \in Request :
           /\ Step(r, q2)
           /\ q2.lookup = q.lookup /\ q2.asked = q.asked /\ q2.known = q.known
           /\ q2.excluded = q.excluded /\ q2.ret = q.ret /\ q2.via = q.via /\ q2.stack = {}
           /\ \/ q.pc = "excluding" /\ q2.pc = "exclude" /\ q2.seen = q.seen /\ q2.todo = q.todo
                 /\ q2.txdata = q.txdata
              \/ q.pc = "overlapping" /\ q2.pc = "account" /\ q2.seen = q.seen /\ q2.todo = q.todo
                 /\ q2.txdata = q.txdata
              \/ q.pc = "searching_g" /\ q2.pc = "ok" /\ q2.txdata = Add(q.txdata, q.ret, 1)
              \/ q.pc = "searching_mg" /\ q2.pc = "account" /\ q2.seen = {}
                 /\ q2.todo = Unaccounted(q)
                 /\ q2.txdata = Add(q.txdata, q.ret, Cardinality(q.ret))
    <3>1. CASE q.pc = "excluding"
      <4>. DEFINE q2 == [q EXCEPT !.pc = "exclude"]
      <4>1. Step(r, q2)
        BY <1>11, <3>1 DEF Leave
      <4>2. q2 \in Request
        BY <1>1 DEF Request, Pc
      <4>. WITNESS q2 \in Request
      <4>. QED
        BY <1>1, <2>1, <3>1, <4>1 DEF Request
    <3>2. CASE q.pc = "overlapping"
      <4>. DEFINE q2 == [q EXCEPT !.pc = "account"]
      <4>1. Step(r, q2)
        BY <1>11, <3>2 DEF Leave
      <4>2. q2 \in Request
        BY <1>1 DEF Request, Pc
      <4>. WITNESS q2 \in Request
      <4>. QED
        BY <1>1, <2>1, <3>2, <4>1 DEF Request
    <3>3. CASE q.pc = "searching_g"
      <4>. DEFINE a == Add(q.txdata, q.ret, 1)
                  q2 == [q EXCEPT !.pc = "ok", !.txdata = a]
      <4>1. Step(r, q2) /\ a = Add(q.txdata, q.ret, 1)
        BY <1>11, <3>3 DEF Leave
      <4>2. a \in [Txid -> Nat]
        BY <1>1 DEF Request, Add
      <4>. HIDE DEF a
      <4>3. q2 \in Request
        BY <1>1, <4>2 DEF Request, Pc
      <4>. WITNESS q2 \in Request
      <4>. QED
        BY <1>1, <2>1, <3>3, <4>1, <4>2 DEF Request
    <3>4. CASE q.pc = "searching_mg"
      <4>. DEFINE a == Add(q.txdata, q.ret, Cardinality(q.ret))
                  q2 == [q EXCEPT !.pc = "account", !.seen = {}, !.todo = Unaccounted(q),
                                  !.txdata = a]
      <4>1. Step(r, q2) /\ a = Add(q.txdata, q.ret, Cardinality(q.ret))
        BY <1>11, <3>4 DEF Leave
      <4>2. a \in [Txid -> Nat]
        <5>1. Cardinality(q.ret) \in Nat
          BY <1>1, TxidAssumption, FS_Subset, FS_CardinalityType DEF Request
        <5>. QED
          BY <1>1, <5>1 DEF Request, Add
      <4>. HIDE DEF a
      <4>3. q2 \in Request
        BY <1>1, <2>2, <4>2 DEF Request, Pc
      <4>. WITNESS q2 \in Request
      <4>. QED
        BY <1>1, <2>1, <3>4, <4>1, <4>2 DEF Request
    <3>. QED
      BY <2>1, <3>1, <3>2, <3>3, <3>4
  <2>4. PICK q2 \in Request : <2>3!(q2)
    BY <2>3
  <2>5. RequestInv(q2, d, g, mg, gone, unlinked)
    <3>. HIDE DEF q, d
    <3>. QED
      BY <1>1, <2>1, <2>4, LeaveFacts
  <2>. QED
    BY <1>1, <2>1, <2>4, <2>5, ReaderFrame
<1>12. CASE Reply(r)
  <2>1. Step(r, Idle) /\ disturbed' = disturbed
    BY <1>12 DEF Reply
  <2>2. Idle \in Request /\ RequestInv(Idle, d, g, mg, gone, unlinked)
    BY <1>1, IdleFacts
  <2>. QED
    BY <1>1, <2>1, <2>2, ReaderFrame
<1>. QED
  BY QueryAssumption, <1>2, <1>3, <1>4, <1>5, <1>6, <1>7, <1>8, <1>9, <1>10, <1>11, <1>12 DEF ReaderStep

\* The readers follow the graphs: GraphsMove for all of them.
LEMMA ReadersFollow ==
    ASSUME SearchInv, StoreInv(g', mg', gone', unlinked'), req' = req,
           g'.nodes \cap Stored(g, mg, gone) = g.nodes,
           mg'.nodes \cap Stored(g, mg, gone) \subseteq mg.nodes,
           mg.nodes \subseteq mg'.nodes \cup gone',
           gone \subseteq gone', unlinked \subseteq unlinked',
           \A t \in g.nodes : InputsOf(g', t) = InputsOf(g, t),
           \A r \in Reader :
              /\ r \in disturbed => r \in disturbed'
              /\ req[r].pc = "searching_mg" /\ r \notin disturbed' => mg' = mg
    PROVE  \A r \in Reader : RequestInv(req'[r], r \in disturbed', g', mg', gone', unlinked')
<1>. SUFFICES ASSUME NEW r \in Reader
              PROVE  RequestInv(req'[r], r \in disturbed', g', mg', gone', unlinked')
  OBVIOUS
<1>. DEFINE q == req[r]
            d == r \in disturbed
            e == r \in disturbed'
<1>1. /\ StoreInv(g, mg, gone, unlinked) /\ q \in Request /\ RequestInv(q, d, g, mg, gone, unlinked)
  BY DEF SearchInv
<1>2. /\ d \in BOOLEAN /\ e \in BOOLEAN /\ (d => e)
      /\ q.pc = "searching_mg" /\ ~e => mg' = mg
  OBVIOUS
<1>3. RequestInv(q, e, g', mg', gone', unlinked')
  <2>. HIDE DEF q, d, e
  <2>. QED
    BY <1>1, <1>2, GraphsMove
<1>. QED
  BY <1>3

\* An insertion into one of the graphs: the transactions were stored nowhere, and
\* what they are not linked to is noted.
LEMMA InsertableFacts ==
    ASSUME SearchInv, NEW k \in Txid, NEW txs \in SUBSET Txid, Insertable(k, txs),
           NEW G, G = g \/ G = mg, NEW here, Link(txs, G.nodes \cup here),
           here \cap G.nodes = {}, NEW H, H = insert_token_data(G, k, txs)
    PROVE  /\ H \in Graph /\ EdgesSound(H) /\ H.nodes = G.nodes \cup txs
           /\ \A t \in G.nodes : InputsOf(H, t) = InputsOf(G, t)
           /\ txs \cap Stored(g, mg, gone) = {}
           /\ unlinked \subseteq unlinked' /\ unlinked' \subseteq Txid \X Txid
           /\ \A t \in txs : Accounted(H, here, t, unlinked')
<1>1. StoreInv(g, mg, gone, unlinked) /\ unlinked \subseteq Txid \X Txid
  BY DEF SearchInv
<1>2. txs \cap Stored(g, mg, gone) = {} /\ \A t \in txs : InTokenGraph(k, t)
  BY DEF Insertable, Stored
<1>3. G \in Graph /\ EdgesSound(G) /\ txs \cap G.nodes = {}
  BY <1>1, <1>2 DEF StoreInv, Stored
<1>4. /\ H \in Graph /\ EdgesSound(H) /\ H.nodes = G.nodes \cup txs
      /\ \A t \in G.nodes : InputsOf(H, t) = InputsOf(G, t)
      /\ \A t \in txs : InputsOf(H, t) = TokenParents(t) \cap H.nodes
  BY <1>2, <1>3, InsertExact
<1>. DEFINE New == {e \in txs \X Txid : e[2] \in TokenParents(e[1]) \ (txs \cup (G.nodes \cup here))}
<1>5. unlinked' = unlinked \cup New /\ New \subseteq Txid \X Txid
  BY DEF Link
<1>6. ASSUME NEW t \in txs, NEW p \in TokenParents(t)
      PROVE  p \in InputsOf(H, t) \/ p \in here \/ <<t, p>> \in unlinked'
  <2>1. p \in Txid
    BY <1>6, ParentsAreTxids
  <2>2. p \notin txs \cup (G.nodes \cup here) => <<t, p>> \in New
    BY <1>6, <2>1
  <2>. HIDE DEF New
  <2>. QED
    BY <1>4, <1>5, <1>6, <2>2
<1>. QED
  BY <1>1, <1>2, <1>4, <1>5, <1>6 DEF Accounted

\* The steps of the processing thread keep the invariant.
LEMMA WriterKeepsInv ==
    ASSUME SearchInv, WriterStep
    PROVE  SearchInv'
<1>1. /\ StoreInv(g, mg, gone, unlinked) /\ writer \in {"none", "cleared"}
      /\ writer = "none" => index = mg.nodes
      /\ writer = "cleared" => mg.nodes = {}
      /\ unlinked \subseteq Txid \X Txid
      /\ disturbed \in SUBSET Reader /\ req \in [Reader -> Request]
  BY DEF SearchInv
<1>2. ASSUME NEW k \in Txid, NEW txs \in SUBSET Txid, Insert(k, txs)
      PROVE  SearchInv'
  <2>1. /\ g' = insert_token_data(g, k, txs) /\ Insertable(k, txs) /\ Link(txs, g.nodes)
        /\ mg' = mg /\ gone' = gone /\ index' = index /\ writer' = writer /\ req' = req
        /\ disturbed' = disturbed
    BY <1>2 DEF Insert
  <2>2. /\ g' \in Graph /\ EdgesSound(g') /\ g'.nodes = g.nodes \cup txs
        /\ \A t \in g.nodes : InputsOf(g', t) = InputsOf(g, t)
        /\ txs \cap Stored(g, mg, gone) = {}
        /\ unlinked \subseteq unlinked' /\ unlinked' \subseteq Txid \X Txid
        /\ \A t \in txs : Accounted(g', {}, t, unlinked')
    <3>. DEFINE H == insert_token_data(g, k, txs)
                none == {}
    <3>1. none = {} /\ none \cap g.nodes = {} /\ g.nodes \cup none = g.nodes
      OBVIOUS
    <3>. HIDE DEF none
    <3>0. Insertable(k, txs) /\ Link(txs, g.nodes \cup none) /\ none \cap g.nodes = {}
      BY <2>1, <3>1
    <3>2. g' = H
      BY <2>1
    <3>3. /\ H \in Graph /\ EdgesSound(H) /\ H.nodes = g.nodes \cup txs
          /\ \A t \in g.nodes : InputsOf(H, t) = InputsOf(g, t)
          /\ txs \cap Stored(g, mg, gone) = {}
          /\ unlinked \subseteq unlinked' /\ unlinked' \subseteq Txid \X Txid
          /\ \A t \in txs : Accounted(H, none, t, unlinked')
      BY <3>0, InsertableFacts
    <3>. HIDE DEF H
    <3>. QED
      BY <3>1, <3>2, <3>3
  <2>3. StoreInv(g', mg', gone', unlinked')
    <3>1. \A t \in g'.nodes : Accounted(g', {}, t, unlinked')
      BY <1>1, <2>2 DEF StoreInv, Accounted
    <3>2. \A t \in mg'.nodes : Accounted(mg', g'.nodes, t, unlinked')
      BY <1>1, <2>1, <2>2 DEF StoreInv, Accounted
    <3>. QED
      BY <1>1, <2>1, <2>2, <3>1, <3>2 DEF StoreInv, Stored
  <2>4. \A r \in Reader : RequestInv(req'[r], r \in disturbed', g', mg', gone', unlinked')
    <3>1. g'.nodes \cap Stored(g, mg, gone) = g.nodes
      BY <2>2 DEF Stored
    <3>. QED
      BY <2>1, <2>2, <2>3, <3>1, ReadersFollow
  <2>. QED
    BY <1>1, <2>1, <2>2, <2>3, <2>4 DEF SearchInv
<1>3. ASSUME NEW k \in Txid, NEW txs \in SUBSET Txid, InsertMempool(k, txs)
      PROVE  SearchInv'
  <2>1. /\ mg' = insert_token_data(mg, k, txs) /\ Insertable(k, txs)
        /\ Link(txs, mg.nodes \cup g.nodes)
        /\ index' = index \cup txs /\ writer = "none"
        /\ g' = g /\ gone' = gone /\ writer' = writer /\ req' = req /\ disturbed' = disturbed
        /\ \A r \in Reader : req[r].pc # "searching_mg"
    BY <1>3 DEF InsertMempool, InMempool
  <2>2. /\ mg' \in Graph /\ EdgesSound(mg') /\ mg'.nodes = mg.nodes \cup txs
        /\ \A t \in mg.nodes : InputsOf(mg', t) = InputsOf(mg, t)
        /\ txs \cap Stored(g, mg, gone) = {}
        /\ unlinked \subseteq unlinked' /\ unlinked' \subseteq Txid \X Txid
        /\ \A t \in txs : Accounted(mg', g.nodes, t, unlinked')
    <3>. DEFINE H == insert_token_data(mg, k, txs)
    <3>1. g.nodes \cap mg.nodes = {}
      BY <1>1 DEF StoreInv
    <3>2. mg' = H
      BY <2>1
    <3>3. /\ H \in Graph /\ EdgesSound(H) /\ H.nodes = mg.nodes \cup txs
          /\ \A t \in mg.nodes : InputsOf(H, t) = InputsOf(mg, t)
          /\ txs \cap Stored(g, mg, gone) = {}
          /\ unlinked \subseteq unlinked' /\ unlinked' \subseteq Txid \X Txid
          /\ \A t \in txs : Accounted(H, g.nodes, t, unlinked')
      BY <2>1, <3>1, InsertableFacts
    <3>. HIDE DEF H
    <3>. QED
      BY <3>2, <3>3
  <2>3. StoreInv(g', mg', gone', unlinked')
    <3>1. \A t \in g'.nodes : Accounted(g', {}, t, unlinked')
      BY <1>1, <2>1, <2>2 DEF StoreInv, Accounted
    <3>2. \A t \in mg'.nodes : Accounted(mg', g'.nodes, t, unlinked')
      BY <1>1, <2>1, <2>2 DEF StoreInv, Accounted
    <3>. QED
      BY <1>1, <2>1, <2>2, <3>1, <3>2 DEF StoreInv, Stored
  <2>4. \A r \in Reader : RequestInv(req'[r], r \in disturbed', g', mg', gone', unlinked')
    <3>1. /\ g'.nodes \cap Stored(g, mg, gone) = g.nodes
          /\ mg'.nodes \cap Stored(g, mg, gone) \subseteq mg.nodes
      BY <2>1, <2>2 DEF Stored
    <3>. QED
      BY <2>1, <2>2, <2>3, <3>1, ReadersFollow
  <2>. QED
    BY <1>1, <2>1, <2>2, <2>3, <2>4 DEF SearchInv
<1>4. CASE ClearTokens
  <2>1. /\ mg' = EmptyGraph /\ gone' = gone \cup mg.nodes /\ writer = "none"
        /\ writer' = "cleared" /\ g' = g /\ index' = index /\ req' = req
        /\ unlinked' = unlinked
        /\ disturbed' = disturbed \cup {r \in Reader : InMempool(r)}
    BY <1>4 DEF ClearTokens
  <2>2. mg' \in Graph /\ mg'.nodes = {} /\ EdgesSound(mg')
    BY <2>1 DEF EmptyGraph, Graph, EdgesSound
  <2>3. StoreInv(g', mg', gone', unlinked')
    <3>2. mg.nodes \in SUBSET Txid
      BY <1>1 DEF StoreInv, Graph
    <3>. QED
      BY <1>1, <2>1, <2>2, <3>2 DEF StoreInv
  <2>4. \A r \in Reader : RequestInv(req'[r], r \in disturbed', g', mg', gone', unlinked')
    <3>1. /\ g'.nodes \cap Stored(g, mg, gone) = g.nodes
          /\ mg'.nodes \cap Stored(g, mg, gone) \subseteq mg.nodes
          /\ mg.nodes \subseteq mg'.nodes \cup gone'
      BY <2>1, <2>2 DEF Stored
    <3>2. \A r \in Reader : /\ r \in disturbed => r \in disturbed'
                            /\ req[r].pc = "searching_mg" => r \in disturbed'
      BY <2>1 DEF InMempool
    <3>. QED
      BY <2>1, <2>3, <3>1, <3>2, ReadersFollow
  <2>5. index \subseteq Txid /\ disturbed' \in SUBSET Reader
    BY <1>1, <2>1 DEF StoreInv, Graph
  <2>. QED
    BY <1>1, <2>1, <2>2, <2>3, <2>4, <2>5 DEF SearchInv
<1>5. CASE ClearIndex
  <2>1. /\ writer = "cleared" /\ writer' = "none" /\ index' = {} /\ g' = g /\ mg' = mg
        /\ gone' = gone /\ unlinked' = unlinked /\ req' = req /\ disturbed' = disturbed
    BY <1>5 DEF ClearIndex
  <2>. QED
    BY <1>1, <2>1 DEF SearchInv
<1>. QED
  BY <1>2, <1>3, <1>4, <1>5 DEF WriterStep

\* GraphSearch starts and stays in the invariant.
THEOREM SearchInvariant == SearchSpec => []SearchInv
<1>1. SearchInit => SearchInv
  <2>. SUFFICES ASSUME SearchInit PROVE SearchInv
    OBVIOUS
  <2>1. EmptyGraph \in Graph /\ EmptyGraph.nodes = {} /\ EdgesSound(EmptyGraph)
    BY DEF EmptyGraph, Graph, EdgesSound
  <2>2. StoreInv(g, mg, gone, unlinked)
    BY <2>1 DEF SearchInit, StoreInv
  <2>3. \A r \in Reader : req[r] = Idle /\ req[r] \in Request
                          /\ RequestInv(req[r], r \in disturbed, g, mg, gone, unlinked)
    <3>. SUFFICES ASSUME NEW r \in Reader
                  PROVE  req[r] = Idle /\ req[r] \in Request
                         /\ RequestInv(req[r], r \in disturbed, g, mg, gone, unlinked)
      OBVIOUS
    <3>1. req[r] = Idle /\ (r \in disturbed) = FALSE
      BY DEF SearchInit
    <3>2. Idle \in Request /\ RequestInv(Idle, FALSE, g, mg, gone, unlinked)
      BY IdleFacts
    <3>. QED
      BY <3>1, <3>2
  <2>4. req \in [Reader -> Request]
    BY <2>3 DEF SearchInit
  <2>. QED
    BY <2>1, <2>2, <2>3, <2>4 DEF SearchInit, SearchInv
<1>2. SearchInv /\ [SearchNext]_searchVars => SearchInv'
  <2>. SUFFICES ASSUME SearchInv, [SearchNext]_searchVars PROVE SearchInv'
    OBVIOUS
  <2>1. CASE WriterStep
    BY <2>1, WriterKeepsInv
  <2>2. ASSUME NEW r \in Reader, ReaderStep(r) PROVE SearchInv'
    BY <2>2, ReaderKeepsInv
  <2>3. CASE UNCHANGED searchVars
    BY <2>3 DEF searchVars, graphVars, SearchInv
  <2>. QED
    BY <2>1, <2>2, <2>3 DEF SearchNext
<1>. QED
  BY <1>1, <1>2, PTL DEF SearchSpec

-----------------------------------------------------------------------------
(* What the invariant says of the replies. *)

\* Every state is well typed, and the loops push only what they have marked.
THEOREM SearchTypeCorrect == SearchSpec => []SearchTypeOK
<1>1. SearchInv => SearchTypeOK
  <2>. SUFFICES ASSUME SearchInv PROVE SearchTypeOK
    OBVIOUS
  <2>1. /\ g \in Graph /\ mg \in Graph /\ gone \subseteq Txid /\ disturbed \subseteq Reader
        /\ writer \in {"none", "cleared"} /\ req \in [Reader -> Request]
    BY DEF SearchInv, StoreInv
  <2>2. index \subseteq Txid /\ unlinked \subseteq Txid \X Txid
    BY <2>1 DEF SearchInv, Graph
  <2>3. \A r \in Reader : Inside(r) => req[r].stack \subseteq req[r].seen
    BY DEF SearchInv, RequestInv, Inside
  <2>. QED
    BY <2>1, <2>2, <2>3 DEF SearchTypeOK
<1>. QED
  BY <1>1, SearchInvariant, PTL

\* A reply that no clear() ran into has with each of its transactions the parents
\* of its token, but for the ones SearchIsComplete names.
THEOREM SearchesAreComplete == SearchSpec => []SearchIsComplete
<1>1. SearchInv => SearchIsComplete
  <2>. SUFFICES ASSUME SearchInv, NEW r \in Reader, Answered(r)
                PROVE  req[r].lookup \in Replied(req[r]) /\ CompleteReply(req[r], unlinked)
    BY DEF SearchIsComplete, CompleteReply
  <2>1. OutcomeInv(req[r], r \in disturbed, g, mg, gone, unlinked)
    BY DEF SearchInv, RequestInv
  <2>. QED
    BY <2>1 DEF OutcomeInv, Answered
<1>. QED
  BY <1>1, SearchInvariant, PTL

\* ... and nothing else: it is within every set that has the lookup and is closed
\* under parents, up to the exclusions.  What is confirmed comes once, what is of
\* the mempool as often as there are transactions of the mempool in the reply.
THEOREM SearchesAreMinimal == SearchSpec => []SearchIsMinimal
<1>1. SearchInv => SearchIsMinimal
  <2>. SUFFICES ASSUME SearchInv PROVE SearchIsMinimal
    OBVIOUS
  <2>1. ASSUME NEW r \in Reader, Answered(r), NEW S \in SUBSET Txid, req[r].lookup \in S,
               IF req[r].via = "g" THEN Closed(S, req[r].excluded, TokenParents)
                                   ELSE Closed(S, {}, Parents)
        PROVE  Replied(req[r]) \subseteq S
    <3>1. Admissible(req[r], S)
      BY <2>1 DEF Admissible, Closed
    <3>2. MinimalInv(req[r]) /\ req[r].pc = "ok"
      BY <2>1 DEF SearchInv, RequestInv, Answered
    <3>. QED
      BY <3>1, <3>2 DEF MinimalInv
  <2>2. ASSUME NEW r \in Reader, Answered(r), NEW t \in Replied(req[r])
        PROVE  req[r].txdata[t] = IF t \in g.nodes THEN 1
                                  ELSE Cardinality(Replied(req[r]) \ g.nodes)
    <3>1. TxdataInv(req[r], g, mg, gone) /\ req[r].pc = "ok"
      BY <2>2 DEF SearchInv, RequestInv, Answered
    <3>. QED
      BY <2>2, <3>1 DEF TxdataInv
  <2>. QED
    BY <2>1, <2>2 DEF SearchIsMinimal
<1>. QED
  BY <1>1, SearchInvariant, PTL

\* What the client excludes is closed under the ancestors g has, and below
\* max_exclusion_set_size every exclusion g had keeps its transaction out.
THEOREM ExclusionsHold == SearchSpec => []ExclusionsAreHonoured
<1>1. SearchInv => ExclusionsAreHonoured
  <2>. SUFFICES ASSUME SearchInv PROVE ExclusionsAreHonoured
    OBVIOUS
  <2>1. \A r \in Reader : ExclusionInv(req[r], g, mg, gone)
    BY DEF SearchInv, RequestInv
  <2>2. ExclusionIsClosed
    BY <2>1 DEF ExclusionIsClosed, ExclusionInv, ClosedBut
  <2>3. ASSUME NEW r \in Reader, Answered(r), req[r].via = "g",
               Cardinality(req[r].asked) < MaxExclude
        PROVE  req[r].asked \cap req[r].known \cap g.nodes \cap Replied(req[r])
                  \subseteq {req[r].lookup}
    <3>1. req[r].asked \cap req[r].known \cap g.nodes \subseteq req[r].excluded
      BY <2>1, <2>3 DEF ExclusionInv, Answered
    <3>2. OutcomeInv(req[r], r \in disturbed, g, mg, gone, unlinked)
      BY DEF SearchInv, RequestInv
    <3>3. Replied(req[r]) \cap req[r].excluded \subseteq {req[r].lookup}
      BY <2>3, <3>2 DEF OutcomeInv, Answered
    <3>. QED
      BY <3>1, <3>3
  <2>. QED
    BY <2>2, <2>3 DEF ExclusionsAreHonoured
<1>. QED
  BY <1>1, SearchInvariant, PTL

\* NOT_FOUND is not said of a transaction a graph had when the request came,
\* unless clear() has dropped it: between the two lookups of a request nothing
\* moves from the confirmed graph to the mempool graph or back.
THEOREM NotFoundIsRight == SearchSpec => []NotFoundIsUnknown
<1>1. SearchInv => NotFoundIsUnknown
  <2>1. ASSUME SearchInv, NEW r \in Reader
        PROVE  OutcomeInv(req[r], r \in disturbed, g, mg, gone, unlinked)
    BY <2>1 DEF SearchInv, RequestInv
  <2>. QED
    BY <2>1 DEF OutcomeInv, NotFoundIsUnknown
<1>. QED
  BY <1>1, SearchInvariant, PTL

\* Only a reader that was inside mg during clear() reads freed memory; the nodes
\* of g that are read without the lock are there.
THEOREM OnlyClearDisturbs == SearchSpec => []ErrorsComeFromClear
<1>1. SearchInv => ErrorsComeFromClear
  <2>1. ASSUME SearchInv, NEW r \in Reader
        PROVE  OutcomeInv(req[r], r \in disturbed, g, mg, gone, unlinked)
    BY <2>1 DEF SearchInv, RequestInv
  <2>. QED
    BY <2>1 DEF OutcomeInv, ErrorsComeFromClear
<1>. QED
  BY <1>1, SearchInvariant, PTL
=============================================================================
