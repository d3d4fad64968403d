--------------------------- MODULE MCRestGateway ---------------------------
(***************************************************************************)
(* RestGateway with txids of two bytes, one of them the reverse of         *)
(* another.                                                                *)
(***************************************************************************)
EXTENDS RestGateway

Alice == [type |-> "P2PKH", hash |-> <<7>>]
Bob   == [type |-> "P2SH", hash |-> <<7>>]
NoAddress == [type |-> "invalid", hash |-> <<>>]

\* The txids 1a2b and 2b1a, in the order of their bytes.
OneTwo == <<26, 43>>
TwoOne == <<43, 26>>

MCOutput ==
    {[prev_tx_id |-> OneTwo, prev_out_idx |-> 0, value |-> 1, scriptpubkey |-> <<118, 169, 1, 7, 136, 172>>],
     [prev_tx_id |-> TwoOne, prev_out_idx |-> 1, value |-> 2, scriptpubkey |-> <<118, 169, 1, 7, 136, 172>>],
     [prev_tx_id |-> TwoOne, prev_out_idx |-> 0, value |-> 4, scriptpubkey |-> <<169, 1, 7, 135>>]}
MCIndexed == {OneTwo}

Small == <<1, 10, 2, 11>>
Capital == <<1, 16, 2, 17>>

Hex(n) == <<0, X, n>>

\* What Number makes of 1e1, 15e-1, 50e-1, -0, +.5e1, 0b11, 0o17, 0x, e1, -Infinity
\* and of a blank.
ASSUME NumbersRead ==
    /\ ToNumber(<<1, 14, 1>>) = 10
    /\ ToNumber(<<1, 5, 14, Minus, 1>>) = NotNatural
    /\ ToNumber(<<5, 0, 20, Minus, 1>>) = 5
    /\ ToNumber(<<Minus, 0>>) = 0
    /\ ToNumber(<<Plus, Point, 5, 14, 1>>) = 5
    /\ ToNumber(<<0, 11, 1, 1>>) = 3
    /\ ToNumber(<<0, O, 1, 7>>) = 15
    /\ ToNumber(<<0, X>>) = NaN
    /\ ToNumber(<<14, 1>>) = NaN
    /\ ToNumber(<<Minus>> \o Infinity) = NotNatural
    /\ ToNumber(<<Blank>>) = 0

MCRequest ==
    {[route |-> "utxo", outpoints |-> <<<<Small, Hex(1)>>, <<Capital, <<>>>>>>],
     [route |-> "utxo", outpoints |-> <<<<Small, <<1, 6>>>>>>],
     [route |-> "utxo", outpoints |-> <<<<Small, <<0>>>>, <<Small, <<Minus, 1>>>>>>],
     [route |-> "utxo", outpoints |-> <<<<Small, <<1>>>>, <<Small, <<14, 1>>>>>>],
     [route |-> "utxo", outpoints |-> <<<<<<1, 22, 10>>, <<0>>>>>>],
     [route |-> "address/utxos", address |-> Alice],
     [route |-> "address/balance", address |-> Bob],
     [route |-> "address/balance", address |-> NoAddress],
     [route |-> "graphsearch", txid |-> Small],
     [route |-> "graphsearch", txid |-> Capital]}

\* message Output of pb/utxo.proto, and a class that knows the height as well.
Proto == {"prev_tx_id", "prev_out_idx", "value", "scriptpubkey"}
WithHeight == Proto \cup {"height"}
AnyBuild == {Proto, WithHeight}
ThisBuild == {Proto}
=============================================================================
