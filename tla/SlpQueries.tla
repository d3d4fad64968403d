----------------------------- MODULE SlpQueries -----------------------------
(***************************************************************************)
(* The gRPC handlers OutputOracle and SlpTokenInfo, as functions of the    *)
(* validator's containers.  Without remove_tx, which the server never      *)
(* calls, both containers only grow and add_tx stores a transaction before *)
(* it makes it valid, so the separate reads of OutputOracle, which takes   *)
(* no lock, come out like reads at the time of the last one.  An exception *)
(* ends the request with an error.  The signature is left out: what is     *)
(* signed is the answer.                                                   *)
(***************************************************************************)
EXTENDS SlpValidator

Refused == [status |-> "not found"]
Thrown  == [status |-> "exception"]

\* validator.get and transaction_map.at throw; inputs[0] has to be there.
FirstInputStored(t) == Tx[t].inputs # <<>> /\ has(Tx[t].inputs[1].txid)
GroupOf(t) == Tx[Tx[t].inputs[1].txid].tokenid

\* Faulty variant: of a transaction that was not accepted, too.
OutputOracle_any(t, vout) ==
    IF ~has(t) THEN Refused
    ELSE [status |-> "OK", tokenid |-> Tx[t].tokenid, value |-> output_slp_amount(t, vout),
          is_baton |-> mint_baton_outpoint(t).vout = vout]

\* The tokens of a child have neither value nor baton in the answer; the group
\* is looked up by the first input, whatever the transaction is.
OutputOracle(t, vout) ==
    CASE t \notin valid -> Refused
      [] t \in valid /\ ~has(t) -> Thrown
      [] t \in valid /\ has(t) /\ Tx[t].token_type # Nft1Child ->
            [status |-> "OK", tokenid |-> Tx[t].tokenid, value |-> output_slp_amount(t, vout),
             is_baton |-> mint_baton_outpoint(t).vout = vout]
      [] t \in valid /\ has(t) /\ Tx[t].token_type = Nft1Child ->
            IF has(Tx[t].tokenid) /\ FirstInputStored(t)
            THEN [status |-> "OK", tokenid |-> Tx[t].tokenid, groupid |-> GroupOf(t)]
            ELSE Thrown

\* Faulty variant: the group of a child is not looked up.
SlpTokenInfo_no_group(k) ==
    IF ~has(k) THEN Refused ELSE IF Tx[k].type # "genesis" THEN Thrown
    ELSE [status |-> "OK", type |-> Tx[k].token_type, groupid |-> k]

\* On what is stored, valid or not; absl::get throws if it is no GENESIS.
SlpTokenInfo(k) ==
    CASE ~has(k) -> Refused
      [] has(k) /\ Tx[k].type # "genesis" -> Thrown
      [] has(k) /\ Tx[k].type = "genesis" ->
            IF Tx[k].token_type # Nft1Child THEN [status |-> "OK", type |-> Tx[k].token_type]
            ELSE IF FirstInputStored(k)
            THEN [status |-> "OK", type |-> Tx[k].token_type, groupid |-> GroupOf(k)]
            ELSE Thrown

-----------------------------------------------------------------------------
\* The units of its own token that t puts on output v, counted as the rules do.
UnitsOn(t, v) ==
    IF Tx[t].type = "send" THEN {u \in OutputUnits(t) : u[1] = v}
    ELSE {<<1, j>> : j \in 1..Tx[t].qty} \cap {<<v, j>> : j \in 1..MaxAmount}

\* The oracle signs nothing but facts, in whatever order transactions came: the
\* transaction is valid under the SLP rules, the units are those of the output,
\* and a baton is one that a MINT can spend.  Two exceptions: output 0 is called
\* the baton of a transaction without baton, and the group of an NFT1 child is
\* right for its GENESIS only (a SEND is given the token of its first input).
OracleIsTruthful ==
    \A t \in Txid : \A v \in 0..Tx[t].nout :
        LET a == OutputOracle(t, v) IN
        a.status = "OK" =>
            /\ t \in SlpValid
            /\ Tx[t].token_type # Nft1Child =>
                  /\ a.value = Cardinality(UnitsOn(t, v))
                  /\ a.is_baton /\ v # 0 => Tx[t].type # "send" /\ Tx[t].mint_baton_vout = v
            /\ Tx[t].token_type = Nft1Child /\ Tx[t].type = "genesis" =>
                  Tx[a.groupid].token_type = Nft1Group /\ a.groupid \in SlpValid

\* A child that SlpTokenInfo gives a group has burnt a unit of it, if the child is
\* valid; of any other GENESIS that is stored it never says what is not so.  (It
\* does not look at the verdict: a rejected child is described as well.)
TokenInfoIsTruthful ==
    \A k \in Txid :
        LET a == SlpTokenInfo(k) IN
        a.status = "OK" =>
            IF a.type # Nft1Child THEN k \in valid
            ELSE k \in valid =>
                \E p \in SlpValid : /\ p = Tx[k].inputs[1].txid
                                    /\ Tx[p].tokenid = a.groupid
                                    /\ Tx[p].token_type = Nft1Group

\* The oracle has an answer for every transaction it holds valid, unless one was
\* removed or trusted, or it is a SEND of an NFT1 child whose first input is no
\* stored transaction.
OracleAnswers ==
    trusted = {} /\ valid \subseteq transaction_map =>
        \A t \in valid :
            OutputOracle(t, 1).status = "OK"
            \/ (Tx[t].token_type = Nft1Child /\ Tx[t].type = "send" /\ ~FirstInputStored(t))
            \/ MovesNothing(t)

\* OutputOracle and SlpTokenInfo, asked about anything in any state of the
\* validator, tell the truth, and the oracle does answer.
QueriesAreTruthful ==
    /\ OracleIsTruthful
    /\ TokenInfoIsTruthful
    /\ OracleAnswers
=============================================================================
