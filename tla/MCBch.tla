------------------------------- MODULE MCBch -------------------------------
(***************************************************************************)
(* Bch over a token with a mint and sends, the genesis of another token    *)
(* that spends one of its outputs, and a transaction without SLP message   *)
(* that spends the same output.                                            *)
(***************************************************************************)
EXTENDS Bch

In(t, v) == [txid |-> t, vout |-> v]
Slp(type, k, ins, amounts, qty, baton) ==
    [type |-> type, token_type |-> 1, tokenid |-> k, inputs |-> ins, nout |-> 3,
     amounts |-> amounts, qty |-> qty, mint_baton_vout |-> baton]

UtxoTxid == {"g", "m", "s", "c", "n"}
UtxoUniverse ==
    [g |-> Slp("genesis", "g", <<>>, <<>>, 2, 2),
     m |-> Slp("mint", "g", <<In("g", 2)>>, <<>>, 1, 2),
     s |-> Slp("send", "g", <<In("g", 1), In("m", 1)>>, <<2, 1>>, 0, 0),
     c |-> Slp("genesis", "c", <<In("s", 1)>>, <<>>, 1, 0),
     n |-> Slp("invalid", "n", <<In("s", 1), In("m", 2)>>, <<>>, 0, 0)]
UtxoTx == UtxoUniverse

\* What comes by the mempool; the rest comes in blocks only.
UtxoRelayed == {"m", "s", "n"}

Spam == {[txid |-> "c", vout |-> 1]}
=============================================================================
