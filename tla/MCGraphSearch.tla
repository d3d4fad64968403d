--------------------------- MODULE MCGraphSearch ---------------------------
(***************************************************************************)
(* GraphSearch over an NFT1 group token whose third transaction has both   *)
(* others as parents, and the genesis of a child that spends the third.    *)
(***************************************************************************)
EXTENDS GraphSearch

In(t, v) == [txid |-> t, vout |-> v]
Slp(type, tt, k, ins, amounts, qty, baton) ==
    [type |-> type, token_type |-> tt, tokenid |-> k, inputs |-> ins, nout |-> 3,
     amounts |-> amounts, qty |-> qty, mint_baton_vout |-> baton]

DagTxid == {"g", "m", "s", "c"}
DagUniverse ==
    [g |-> Slp("genesis", 129, "g", <<>>, <<>>, 1, 2),
     m |-> Slp("mint", 129, "g", <<In("g", 2)>>, <<>>, 1, 0),
     s |-> Slp("send", 129, "g", <<In("g", 1), In("m", 1)>>, <<1>>, 0, 0),
     c |-> Slp("genesis", 65, "c", <<In("s", 1)>>, <<>>, 1, 0)]
DagTx == DagUniverse

\* The transactions with ancestors of every kind, with all exclusions; the others
\* with none.
DagQuery ==
    [txid : {"s", "c"}, exclude_txids : SUBSET DagTxid]
        \cup [txid : {"g", "m"}, exclude_txids : {{}}]
=============================================================================
