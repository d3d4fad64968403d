----------------------------- MODULE MCGsServer -----------------------------
(***************************************************************************)
(* GsServer with a genesis and a send, and with a third transaction.       *)
(***************************************************************************)
EXTENDS GsServer

In(t, v) == [txid |-> t, vout |-> v]
Slp(type, k, ins, amounts, qty, baton) ==
    [type |-> type, token_type |-> 1, tokenid |-> k, inputs |-> ins, nout |-> 3,
     amounts |-> amounts, qty |-> qty, mint_baton_vout |-> baton]

TwoTxid == {"g", "s"}
TwoUniverse ==
    [g |-> Slp("genesis", "g", <<>>, <<>>, 1, 2),
     s |-> Slp("send", "g", <<In("g", 1)>>, <<1>>, 0, 0)]
TwoTx == TwoUniverse

\* "z" moves no units: it is valid whatever it spends.  The baton of "g" goes to
\* a script without address.
ThreeTxid == {"g", "s", "z"}
ThreeUniverse ==
    [g |-> Slp("genesis", "g", <<>>, <<>>, 1, 2),
     s |-> Slp("send", "g", <<In("g", 1)>>, <<1>>, 0, 0),
     z |-> Slp("send", "g", <<>>, <<0>>, 0, 0)]
ThreeTx == ThreeUniverse
SomeScript == {In("g", 2)}
=============================================================================
