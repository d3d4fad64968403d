--------------------------- MODULE MCSlpValidator ---------------------------
(***************************************************************************)
(* A token with its sends and mints, and NFT1 children of it.              *)
(***************************************************************************)
EXTENDS SlpQueries

CONSTANTS
    Trustable,  \* the transactions handed in as trusted, a bound on the run
    Removable   \* the transactions removed, a bound on the run

In(t, v) == [txid |-> t, vout |-> v]
Genesis(t, tt, ins, qty, baton) ==
    [type |-> "genesis", token_type |-> tt, tokenid |-> t, inputs |-> ins,
     nout |-> 4, amounts |-> <<>>, qty |-> qty, mint_baton_vout |-> baton]
Mint(k, tt, ins, qty, baton) ==
    [type |-> "mint", token_type |-> tt, tokenid |-> k, inputs |-> ins,
     nout |-> 4, amounts |-> <<>>, qty |-> qty, mint_baton_vout |-> baton]
Send(k, tt, ins, amounts) ==
    [type |-> "send", token_type |-> tt, tokenid |-> k, inputs |-> ins,
     nout |-> 4, amounts |-> amounts, qty |-> 0, mint_baton_vout |-> 0]
NonSlp(t, ins) ==
    [type |-> "invalid", token_type |-> TokenType1, tokenid |-> t, inputs |-> ins,
     nout |-> 4, amounts |-> <<>>, qty |-> 0, mint_baton_vout |-> 0]

\* Three links of the baton chain, sends that combine and split, a send that
\* asks for more than it spends, a mint that spends outputs of its token which
\* are not the baton.
FungibleTxid == {"g", "m1", "m2", "m3", "s1", "s2", "over", "fake"}

\* NFT1 children of the group g, one whose group unit is the second input, a
\* send of one token that spends another one, a send of a child behind an input
\* that is not SLP, a baton spent twice, a transaction without SLP message.
NftTxid == {"g", "m1", "m2", "s1", "d", "c", "c2", "cs", "ct", "n"}

MCTxid == FungibleTxid \cup NftTxid
Universe ==
    [g    |-> Genesis("g", 129, <<>>, 2, 2),
     m1   |-> Mint("g", 129, <<In("g", 2)>>, 1, 2),
     m2   |-> Mint("g", 129, <<In("m1", 2)>>, 0, 2),
     m3   |-> Mint("g", 129, <<In("m2", 2)>>, 1, 0),
     d    |-> Mint("g", 129, <<In("n", 1), In("g", 2)>>, 1, 2),
     s1   |-> Send("g", 129, <<In("g", 1)>>, <<1, 1>>),
     s2   |-> Send("g", 129, <<In("s1", 2), In("m1", 1)>>, <<0, 2>>),
     over |-> Send("g", 129, <<In("s1", 1), In("m3", 1)>>, <<3>>),
     fake |-> Mint("g", 129, <<In("m1", 3), In("m2", 3)>>, 1, 2),
     c    |-> Genesis("c", 65, <<In("s1", 1)>>, 1, 0),
     c2   |-> Genesis("c2", 65, <<In("n", 2), In("m1", 1)>>, 1, 0),
     cs   |-> Send("c", 65, <<In("c", 1), In("d", 1)>>, <<1, 1>>),
     ct   |-> Send("c", 65, <<In("n", 3), In("c", 1)>>, <<1>>),
     n    |-> NonSlp("n", <<>>)]
MCTx == Universe

\* ValidatorSpec with trust and removal confined to two sets, and at any time
\* transactions of one of the two families only.
MCNext ==
    /\ \/ \E t \in Txid : AddTx(t, FALSE)
       \/ \E t \in Trustable \cap SlpValid : AddTx(t, TRUE)
       \/ \E t \in Removable : RemoveTx(t)
    /\ \/ transaction_map' \subseteq FungibleTxid
       \/ transaction_map' \subseteq NftTxid
MCSpec == ValidatorInit /\ [][MCNext]_validatorVars
=============================================================================
