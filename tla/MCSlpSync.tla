----------------------------- MODULE MCSlpSync -----------------------------
(***************************************************************************)
(* SlpSync over a small universe: a token with a mint, a send that spends  *)
(* from both and one that asks for more than it spends, and a second       *)
(* token's genesis.                                                        *)
(***************************************************************************)
EXTENDS SlpSync

In(t, v) == [txid |-> t, vout |-> v]
Slp(type, k, ins, amounts, qty, baton) ==
    [type |-> type, token_type |-> 1, tokenid |-> k, inputs |-> ins, nout |-> 3,
     amounts |-> amounts, qty |-> qty, mint_baton_vout |-> baton]

SmallTxid == {"g", "m", "s", "o", "h"}
SmallUniverse ==
    [g |-> Slp("genesis", "g", <<>>, <<>>, 1, 2),
     m |-> Slp("mint", "g", <<In("g", 2)>>, <<>>, 1, 0),
     s |-> Slp("send", "g", <<In("g", 1), In("m", 1)>>, <<1>>, 0, 0),
     o |-> Slp("send", "g", <<In("s", 1)>>, <<2>>, 0, 0),
     h |-> Slp("genesis", "h", <<In("s", 2)>>, <<>>, 1, 0)]
SmallTx == SmallUniverse
=============================================================================
