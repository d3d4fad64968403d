---------------------------- MODULE SlpValidator ----------------------------
(***************************************************************************)
(* gs::slp_validator: decides, transaction by transaction and in whatever  *)
(* order they arrive, which SLP transactions are valid.  A verdict is      *)
(* taken once, from the verdicts already in memory, and never revised.     *)
(***************************************************************************)
EXTENDS SlpRules

VARIABLES
    transaction_map,  \* txids stored by add_tx, accepted or not
    valid,            \* txids judged valid
    trusted,          \* history: txids made valid by add_tx(tx, trusted = true)
    early             \* history: txids judged while some of their kin was missing

validatorVars == <<transaction_map, valid, trusted, early>>

-----------------------------------------------------------------------------
(* The checks.  Both containers are parameters, because add_tx validates    *)
(* after it has inserted the transaction.                                   *)

\* Faulty variants of InputUnits: any token counts; invalid inputs count.
InputUnits_any_token(t, map, ok) ==
    {u \in (DOMAIN Tx[t].inputs) \X (1..MaxAmount) :
        LET o == Tx[t].inputs[u[1]] IN
        /\ o.txid \in ok \cap map
        /\ u[2] <= output_slp_amount(o.txid, o.vout)}
InputUnits_invalid_too(t, map, ok) ==
    {u \in (DOMAIN Tx[t].inputs) \X (1..MaxAmount) :
        LET o == Tx[t].inputs[u[1]] IN
        /\ o.txid \in map
        /\ SameToken(t, o.txid)
        /\ u[2] <= output_slp_amount(o.txid, o.vout)}

\* check_send's input_amount: inputs that are valid, known and of the same
\* token.  check_outputs_valid is called for such inputs only, where it
\* answers true at its look-up in valid, whatever the set seen holds.
InputUnits(t, map, ok) ==
    {u \in (DOMAIN Tx[t].inputs) \X (1..MaxAmount) :
        LET o == Tx[t].inputs[u[1]] IN
        /\ o.txid \in ok
        /\ o.txid \in map
        /\ SameToken(t, o.txid)
        /\ u[2] <= output_slp_amount(o.txid, o.vout)}

\* Faulty variants: a comparison that is off by one, either way.
check_send_strict(t, map, ok) ==
    Cardinality(OutputUnits(t)) < Cardinality(InputUnits(t, map, ok))
check_send_lenient(t, map, ok) ==
    Cardinality(OutputUnits(t)) <= Cardinality(InputUnits(t, map, ok)) + 1

check_send(t, map, ok) ==
    Cardinality(OutputUnits(t)) <= Cardinality(InputUnits(t, map, ok))

\* Faulty variant: any output of a baton holder will do.
walk_mints_home_any_output(front, back, map, ok) ==
    {p \in Parents(back) \cap ok \cap map :
        SameToken(front, back) /\ SameToken(front, p) /\ Tx[p].type \in {"mint", "genesis"}}

\* check_mint's lambda: the valid baton holders whose baton back spends.
walk_mints_home(front, back, map, ok) ==
    {p \in Parents(back) :
        /\ SameToken(front, back)
        /\ p \in ok
        /\ p \in map
        /\ SameToken(front, p)
        /\ mint_baton_outpoint(p) \in Inputs(back)
        /\ Tx[p].type \in {"mint", "genesis"}}

\* The transactions check_mint compares once no baton came from a GENESIS.
MintAncestors(t, map, ok) ==
    UNION {walk_mints_home(t, front, map, ok) : front \in walk_mints_home(t, t, map, ok)}

FromGenesis(t, map, ok) ==
    \E p \in walk_mints_home(t, t, map, ok) : Tx[p].type = "genesis"

\* The exception "mint rare condition".
MintThrows(t, map, ok) ==
    /\ ~FromGenesis(t, map, ok)
    /\ \E p, q \in MintAncestors(t, map, ok) : p # q

\* The loop ends in its first round: walk_mints_home returns valid
\* transactions only, so has_valid(back) holds.
check_mint(t, map, ok) ==
    \/ FromGenesis(t, map, ok)
    \/ MintAncestors(t, map, ok) # {} /\ ~MintThrows(t, map, ok)

\* Faulty variants: nothing is asked of an NFT1 child; the burnt input is expected
\* to be of the child's own type.
check_genesis_unchecked(t, map, ok) == TRUE
check_genesis_own_type(t, map, ok) ==
    Tx[t].token_type = Nft1Child =>
        /\ Tx[t].inputs # <<>>
        /\ LET o == Tx[t].inputs[1] IN
           /\ o.txid \in ok \cap map
           /\ Tx[o.txid].token_type = Tx[t].token_type
           /\ output_slp_amount(o.txid, o.vout) >= 1

\* An NFT1 child is created by burning a unit of its group in the first input.
\* The trailing validate(txi) answers true, because txi is valid.
check_genesis(t, map, ok) ==
    Tx[t].token_type = Nft1Child =>
        /\ Tx[t].inputs # <<>>
        /\ LET o == Tx[t].inputs[1] IN
           /\ o.txid \in ok
           /\ o.txid \in map
           /\ Tx[o.txid].token_type = Nft1Group
           /\ output_slp_amount(o.txid, o.vout) >= 1

validate(t, map, ok) ==
    \/ t \in ok
    \/ Tx[t].type = "send"    /\ check_send(t, map, ok)
    \/ Tx[t].type = "mint"    /\ check_mint(t, map, ok)
    \/ Tx[t].type = "genesis" /\ check_genesis(t, map, ok)

-----------------------------------------------------------------------------
(* The operations. *)

\* Faulty variant: only accepted transactions are remembered.
has_if_valid(t) == t \in valid

has(t) == t \in transaction_map

\* SLP transactions whose presence the verdict on t depends on: its parents,
\* and for MINT the parents of those.
Kin(t) ==
    {p \in Parents(t) \cup UNION {Parents(q) : q \in Parents(t)} :
        Tx[p].type # "invalid"}

\* Faulty variant: a trusted transaction is stored and not made valid.
AddTx_trust_forgotten(t, trust) ==
    /\ transaction_map' = transaction_map \cup {t}
    /\ valid' = IF ~trust /\ validate(t, transaction_map', valid)
                THEN valid \cup {t} ELSE valid
    /\ trusted' = IF trust THEN trusted \cup {t} ELSE trusted
    /\ UNCHANGED early

\* add_tx leaves the validity containers like this; its result is AddTxResult.
\* A "mint rare condition" exception leaves the transaction in the map.
AddTx(t, trust) ==
    IF Tx[t].type = "invalid" THEN UNCHANGED validatorVars ELSE
    /\ transaction_map' = transaction_map \cup {t}
    /\ valid' = IF trust \/ validate(t, transaction_map', valid)
                THEN valid \cup {t} ELSE valid
    /\ trusted' = IF trust THEN trusted \cup {t} ELSE trusted
    /\ early' = IF has(t) \/ (Kin(t) \subseteq transaction_map /\ Kin(t) \cap early = {})
                THEN early ELSE early \cup {t}

\* Faulty variants: the verdict instead of "new and valid"; no verdict at all.
AddTxResult_if_valid(t) == t \in valid'
AddTxResult_always(t) == ~has(t)

AddTxResult(t) == ~has(t) /\ t \in valid'

AddTxThrows(t, trust) ==
    /\ Tx[t].type = "mint"
    /\ ~trust
    /\ t \notin valid
    /\ MintThrows(t, transaction_map \cup {t}, valid)

\* remove_tx forgets the transaction and keeps its verdict.
RemoveTx(t) ==
    /\ transaction_map' = transaction_map \ {t}
    /\ UNCHANGED <<valid, trusted, early>>

-----------------------------------------------------------------------------
(* The validator on its own, driven in any order.  What is handed in as    *)
(* trusted was judged valid by an earlier run of the program, which is     *)
(* what GsServer shows of the block cache.                                 *)

ValidatorInit ==
    /\ transaction_map = {}
    /\ valid = {}
    /\ trusted = {}
    /\ early = {}

ValidatorNext ==
    \E t \in Txid :
        \/ AddTx(t, FALSE)
        \/ t \in SlpValid /\ AddTx(t, TRUE)
        \/ RemoveTx(t)

ValidatorSpec == ValidatorInit /\ [][ValidatorNext]_validatorVars

ValidatorTypeOK ==
    /\ transaction_map \subseteq Txid
    /\ valid \subseteq Txid
    /\ trusted \subseteq valid
    /\ early \subseteq Txid

\* Whatever the arrival order, whatever is removed or trusted in between, a
\* transaction add_tx accepts is valid under the SLP rules.
ValidIsSound == valid \subseteq SlpValid

\* A transaction whose kin were stored before it, and were not themselves
\* judged too early, gets the verdict of the SLP rules: add_tx rejects no
\* valid transaction that it sees in order.
InOrderIsComplete ==
    trusted = {} => \A t \in transaction_map \ early : t \in SlpValid => t \in valid

\* check_mint's comment "so we should check this condition holds (i.e. both
\* have same txid)": its exception cannot be reached by transactions that
\* could confirm in one chain.
NoRareCondition == \A t \in Txid : ~AddTxThrows(t, FALSE)

\* A SEND of zero units needs no input, so it names whatever token it likes.
MovesNothing(t) == Tx[t].type = "send" /\ OutputUnits(t) = {}

\* The GENESIS of the token of a valid transaction is valid as well, unless the
\* transaction moves no units or something was taken on trust: callers look
\* the token up by validator.get(tokenid), which throws if it is not stored.
TokenIsKnown ==
    trusted = {} =>
        \A t \in valid : ~MovesNothing(t) =>
            Tx[t].tokenid \in valid /\ Tx[Tx[t].tokenid].type = "genesis"

\* The units of token k on outputs that no valid transaction of k has spent,
\* and the units its valid GENESIS and MINTs created.
OfToken(k) == {t \in valid : Tx[t].tokenid = k}
HeldUnits(k) ==
    {x \in OfToken(k) \X (1..20) \X (1..MaxAmount) :
        /\ x[3] <= output_slp_amount(x[1], x[2])
        /\ \A u \in OfToken(k) : [txid |-> x[1], vout |-> x[2]] \notin Inputs(u)}
MintedUnits(k) ==
    {x \in OfToken(k) \X (1..MaxAmount) : Tx[x[1]].type # "send" /\ x[2] <= Tx[x[1]].qty}

\* In a universe without double spends, and when nothing was taken on trust,
\* the accepted transactions never put more units of a token in circulation
\* than its accepted GENESIS and MINTs created, also while transactions
\* arrive out of order and some of them are missing.
NoInflation ==
    trusted = {} =>
        \A k \in Txid : Cardinality(HeldUnits(k)) <= Cardinality(MintedUnits(k))
=============================================================================
