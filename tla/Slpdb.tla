------------------------------- MODULE Slpdb -------------------------------
(***************************************************************************)
(* gs::slpdb as a value: the token outputs and batons that bch keeps.  An  *)
(* outpoint belongs to the token of its transaction, so the utxos of all   *)
(* tokens are one set, and so are their batons (at most one for a token).  *)
(* The amount of an output is its output_slp_amount, zero for a baton.     *)
(***************************************************************************)
EXTENDS SlpTx

\* outputs[1] of a GENESIS or MINT with a single output is out of range.
ASSUME OutputsAssumption ==
    \A t \in Txid : Tx[t].type \in {"genesis", "mint"} => Tx[t].nout >= 2

Slpdb == [tokens : SUBSET Txid, transactions : SUBSET Txid, utxos : SUBSET Outpoint,
          utxo_to_tokenid : SUBSET Outpoint, batons : SUBSET Outpoint]
EmptySlpdb == [tokens |-> {}, transactions |-> {}, utxos |-> {},
               utxo_to_tokenid |-> {}, batons |-> {}]

Out(t, v) == [txid |-> t, vout |-> v]

\* The baton a GENESIS or MINT creates, and the one that db has for token k.
NewBaton(t) ==
    {Out(t, v) : v \in {w \in {Tx[t].mint_baton_vout} : w # 0 /\ w < Tx[t].nout}}
BatonOf(db, k) == {o \in db.batons : Tx[o.txid].tokenid = k}

\* total_token_inputs: all inputs that are outputs of the token in db.
TokenInputUnits(db, t) ==
    {u \in (DOMAIN Tx[t].inputs) \X (1..MaxAmount) :
        LET o == Tx[t].inputs[u[1]] IN
        /\ o \in db.utxos
        /\ Tx[o.txid].tokenid = Tx[t].tokenid
        /\ u[2] <= output_slp_amount(o.txid, o.vout)}
TokenOutputUnits(t) ==
    {u \in (DOMAIN Tx[t].amounts) \X (1..MaxAmount) : u[2] <= Tx[t].amounts[u[1]]}

WithBaton(db, t) ==
    IF NewBaton(t) = {} THEN db.batons
    ELSE (db.batons \ BatonOf(db, Tx[t].tokenid)) \cup NewBaton(t)

\* Of a GENESIS the baton is not put in utxos.
AddGenesis(db, t) ==
    [tokens |-> db.tokens \cup {t},
     transactions |-> db.transactions \cup {t},
     utxos |-> db.utxos \cup {Out(t, 1)},
     utxo_to_tokenid |-> db.utxo_to_tokenid \cup {Out(t, 1)} \cup NewBaton(t),
     batons |-> WithBaton(db, t)]

AddMint(db, t) ==
    LET baton == BatonOf(db, Tx[t].tokenid) IN
    IF baton = {} \/ ~(baton \subseteq Inputs(t)) THEN db
    ELSE [tokens |-> db.tokens,
          transactions |-> db.transactions \cup {t},
          utxos |-> db.utxos \cup {Out(t, 1)} \cup NewBaton(t),
          utxo_to_tokenid |-> db.utxo_to_tokenid \cup {Out(t, 1)} \cup NewBaton(t),
          batons |-> WithBaton(db, t)]

\* The loop over the amounts stops at i < 1 + outputs.size(), two too many.
AddSend(db, t) ==
    LET outs == {Out(t, v) : v \in {w \in DOMAIN Tx[t].amounts : w - 1 < 1 + Tx[t].nout}} IN
    IF Cardinality(TokenOutputUnits(t)) > Cardinality(TokenInputUnits(db, t)) THEN db
    ELSE [db EXCEPT !.transactions = @ \cup {t},
                    !.utxos = @ \cup outs,
                    !.utxo_to_tokenid = @ \cup outs]

\* slpdb::add_transaction
add_transaction(db, t) ==
    CASE Tx[t].type = "genesis"                                -> AddGenesis(db, t)
      [] Tx[t].type = "mint" /\ Tx[t].tokenid \in db.tokens    -> AddMint(db, t)
      [] Tx[t].type = "send" /\ Tx[t].tokenid \in db.tokens    -> AddSend(db, t)
      [] OTHER                                                 -> db

\* Faulty variant: a spent baton stays.
remove_slp_utxos_baton_kept(db, spent) == [db EXCEPT !.utxos = @ \ spent]

\* "remove slp utxos" of bch::process_block: a baton goes only if it is in utxos.
remove_slp_utxos(db, spent) ==
    LET gone == spent \cap db.utxo_to_tokenid \cap db.utxos IN
    [db EXCEPT !.utxos = @ \ gone, !.batons = @ \ gone]
=============================================================================
