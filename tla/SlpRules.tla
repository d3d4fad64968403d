------------------------------ MODULE SlpRules ------------------------------
(***************************************************************************)
(* What validity means: the SLP rules as a closure, with no arrival order. *)
(* A sum of amounts is the number of token units it stands for: unit k of  *)
(* output or input i.                                                      *)
(***************************************************************************)
EXTENDS SlpTx, Functions

\* check_send's output_amount.
OutputUnits(t) ==
    {u \in (DOMAIN Tx[t].amounts) \X (1..MaxAmount) : u[2] <= Tx[t].amounts[u[1]]}

\* The units on the spent outputs of t's token, if V are the valid transactions.
SpentUnits(t, V) ==
    {u \in (DOMAIN Tx[t].inputs) \X (1..MaxAmount) :
        LET o == Tx[t].inputs[u[1]] IN
        /\ o.txid \in V
        /\ SameToken(t, o.txid)
        /\ u[2] <= output_slp_amount(o.txid, o.vout)}

\* The rules, for t among the valid transactions V.  SEND: every unit sent is
\* a unit spent, no two the same.  MINT: the baton of a valid GENESIS or MINT is
\* spent.  NFT1 child GENESIS: the first input holds a unit of a valid group.
Justified(t, V) ==
    CASE Tx[t].type = "send"    -> ExistsInjection(OutputUnits(t), SpentUnits(t, V))
      [] Tx[t].type = "mint"    ->
            \E p \in Parents(t) \cap V :
                /\ SameToken(t, p)
                /\ Tx[p].type \in {"mint", "genesis"}
                /\ mint_baton_outpoint(p) \in Inputs(t)
      [] Tx[t].type = "genesis" ->
            Tx[t].token_type = Nft1Child =>
                \E p \in V :
                    /\ Tx[p].token_type = Nft1Group
                    /\ Tx[t].inputs # <<>>
                    /\ p = Tx[t].inputs[1].txid
                    /\ output_slp_amount(p, Tx[t].inputs[1].vout) # 0
      [] OTHER                  -> FALSE

ClosedUnderRules(V) == \A t \in Txid \ V : ~Justified(t, V)
ClosedSets == {V \in SUBSET Txid : ClosedUnderRules(V)}

\* The least set closed under the rules: what no closed set lacks.
SlpValid == Txid \ UNION {Txid \ V : V \in ClosedSets}
=============================================================================
