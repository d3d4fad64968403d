------------------------------- MODULE SlpTx -------------------------------
(***************************************************************************)
(* The transactions of the universe as gs++ sees them after hydrate(): a   *)
(* transaction is identified by its txid (a hash of its bytes), so the     *)
(* whole of it is the constant function Tx.  Of the SLP message the model  *)
(* keeps what the validator and the graphs look at.                        *)
(***************************************************************************)
EXTENDS Integers, Sequences, FiniteSets

CONSTANTS
    Txid,       \* transaction ids
    Tx,         \* Tx[t]: the parsed transaction with id t
    MaxAmount   \* the largest token amount (2^64-1 in the code)

SlpType   == {"genesis", "mint", "send", "invalid"}
TokenType1 == 1        \* fungible token
Nft1Child  == 65       \* 0x41
Nft1Group  == 129      \* 0x81
TokenType == {TokenType1, Nft1Child, Nft1Group}
Amount    == 0..MaxAmount

Outpoint == [txid : Txid, vout : Nat]

\* struct transaction, with struct slp_transaction and its variant flattened:
\* amounts belongs to SEND, qty and mint_baton_vout to GENESIS and MINT.
\* inputs holds the outpoints of transactions of the universe; nout is
\* outputs.size().
Transaction ==
    [type : SlpType, token_type : TokenType, tokenid : Txid,
     inputs : Seq(Outpoint), nout : Nat,
     amounts : Seq(Amount), qty : Amount, mint_baton_vout : Nat]

ASSUME MaxAmountAssumption == MaxAmount \in Nat

ASSUME TxAssumption == Tx \in [Txid -> Transaction]

\* transaction::hydrate names a token by the txid of its GENESIS.
OwnToken(t) == Tx[t].type = "genesis" => Tx[t].tokenid = t

ASSUME GenesisAssumption == \A t \in Txid : OwnToken(t)

\* What slp_transaction::hydrate lets through: a baton never sits on output 0
\* or 1, an NFT1 child has one unit and no baton and is never minted, a SEND
\* has 1 to 19 amounts.
Parsed(t) ==
    /\ Tx[t].mint_baton_vout # 1
    /\ Tx[t].token_type = Nft1Child =>
          /\ Tx[t].type # "mint"
          /\ Tx[t].type = "genesis" => Tx[t].mint_baton_vout = 0 /\ Tx[t].qty = 1
    /\ Tx[t].type = "send" => Len(Tx[t].amounts) \in 1..19

ASSUME ParserAssumption == \A t \in Txid : Parsed(t)

\* What the Bitcoin consensus rules guarantee of the transactions the node
\* relays: an input spends an output that exists, never the OP_RETURN output
\* 0 of an SLP transaction, and no outpoint twice.
Spendable(t) ==
    \A i, j \in DOMAIN Tx[t].inputs :
        LET o == Tx[t].inputs[i] IN
        /\ o.vout < Tx[o.txid].nout
        /\ Tx[o.txid].type # "invalid" => o.vout # 0
        /\ o = Tx[t].inputs[j] => i = j

ASSUME ConsensusAssumption == \A t \in Txid : Spendable(t)

Inputs(t)  == {Tx[t].inputs[i] : i \in DOMAIN Tx[t].inputs}
Parents(t) == {o.txid : o \in Inputs(t)}

SameToken(t, u) ==
    /\ Tx[t].tokenid = Tx[u].tokenid
    /\ Tx[t].token_type = Tx[u].token_type

\* Faulty variant: qty on every output.
output_slp_amount_any_vout(t, vout) ==
    CASE Tx[t].type = "send" /\ vout \in DOMAIN Tx[t].amounts -> Tx[t].amounts[vout]
      [] Tx[t].type \in {"mint", "genesis"}                   -> Tx[t].qty
      [] OTHER                                                -> 0

\* transaction::output_slp_amount: a SEND pays amounts[vout-1] (here the
\* sequences count from 1) to output vout, GENESIS and MINT pay qty to output 1.
output_slp_amount(t, vout) ==
    CASE Tx[t].type = "send" /\ vout \in DOMAIN Tx[t].amounts -> Tx[t].amounts[vout]
      [] Tx[t].type \in {"mint", "genesis"} /\ vout = 1       -> Tx[t].qty
      [] OTHER                                                -> 0

\* transaction::slp_outputs: the outputs with an amount, and the baton.  Of a
\* GENESIS or MINT output 1 is read even if there is none.
slp_outputs(t) ==
    {o \in [txid : {t}, vout : 1..(Tx[t].nout - 1)] :
        \/ Tx[t].type = "send" /\ o.vout <= Len(Tx[t].amounts)
        \/ Tx[t].type \in {"mint", "genesis"} /\ o.vout \in {1, Tx[t].mint_baton_vout}}
ReadsPastEnd(t) == Tx[t].type \in {"mint", "genesis"} /\ Tx[t].nout < 2

\* transaction::mint_baton_outpoint: output 0 stands for "no baton".
mint_baton_outpoint(t) ==
    IF Tx[t].type \in {"mint", "genesis"} /\ Tx[t].mint_baton_vout < Tx[t].nout
    THEN [txid |-> t, vout |-> Tx[t].mint_baton_vout]
    ELSE [txid |-> t, vout |-> 0]
=============================================================================
