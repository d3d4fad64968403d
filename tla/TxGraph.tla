------------------------------ MODULE TxGraph ------------------------------
(***************************************************************************)
(* gs::txgraph as a value.  The token a node belongs to is the token of    *)
(* its transaction, so the nodes of all token_details are one set; an edge *)
(* leads from a node to one in its inputs.                                 *)
(***************************************************************************)
EXTENDS SlpTx

Graph == [nodes : SUBSET Txid, edges : SUBSET (Txid \X Txid)]
EmptyGraph == [nodes |-> {}, edges |-> {}]

InTokenGraph(tokenid, t) == Tx[t].tokenid = tokenid

\* First pass of txgraph::insert_token_data: transactions already present are
\* left alone, the others (latest) become nodes without inputs.
Latest(G, txs) == txs \ G.nodes
add_nodes(G, txs) == [G EXCEPT !.nodes = @ \cup txs]

\* Faulty variant: parents that the graph does not have are linked as well.
add_inputs_unchecked(G, tokenid, latest) ==
    [G EXCEPT !.edges = @ \cup {e \in latest \X Txid : e[2] \in Parents(e[1])}]

\* Second pass: the new nodes get as inputs those of their parents that the
\* token's graph has by now.
add_inputs(G, tokenid, latest) ==
    [G EXCEPT !.edges = @ \cup {e \in latest \X G.nodes :
                                    /\ e[2] \in Parents(e[1])
                                    /\ InTokenGraph(tokenid, e[2])}]

\* Faulty variant: nodes are linked before all of them are there.
insert_token_data_one_pass(G, tokenid, txs) ==
    add_nodes(add_inputs(G, tokenid, Latest(G, txs)), txs)

insert_token_data(G, tokenid, txs) ==
    add_inputs(add_nodes(G, txs), tokenid, Latest(G, txs))

InputsOf(G, n) == {m \in G.nodes : <<n, m>> \in G.edges}
=============================================================================
