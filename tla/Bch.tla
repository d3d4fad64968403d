-------------------------------- MODULE Bch --------------------------------
(***************************************************************************)
(* gs::bch with its utxodb and slpdb, the part of gs++ that is at work     *)
(* when services.utxosync is on.  An output is determined by its outpoint, *)
(* so each map of outputs is a set of outpoints: the keys of the maps by   *)
(* outpoint, the union of the entries of the maps by scriptpubkey.  All    *)
(* operations run under processing_mutex and are atomic.                   *)
(* utxodb.current_block_height, which nothing reads, is left out.          *)
(***************************************************************************)
EXTENDS Slpdb, SlpRules, TopoOrder

CONSTANTS
    OpReturn,      \* outpoints with an OP_RETURN script
    RollbackDepth, \* utxodb::rollback_depth, 10 in the code
    Relayable,     \* transactions that come by the mempool, a bound
    MaxRollbacks,  \* calls of rollback that undo something, a bound
    MaxMissed,     \* blocks that never arrive, a bound
    MaxRestarts    \* 0 or 1

ASSUME BchAssumption ==
    /\ OpReturn \subseteq Outpoint
    /\ Relayable \subseteq Txid
    /\ {RollbackDepth, MaxRollbacks, MaxMissed} \subseteq Nat
    /\ MaxRestarts \in {0, 1}
    /\ IsFiniteSet(Txid)

VARIABLES
    bch,        \* see BchState
    chain,      \* the blocks of the node's chain, without those undone
    relayed,    \* history: transactions processed from the mempool
    early,      \* history: outpoints spent in relayed before their transaction came
    applied,    \* history: the calls of process_block that rollback can undo
    half,       \* history: a block was undone that has been applied twice
    undone,     \* history: transactions of blocks ever undone
    rollbacks,  \* history: calls of rollback that undid something
    restarts,   \* history: restarts of the process
    missed,     \* history: blocks that never arrived
    unseen      \* history: transactions of the chain that came with no block

lifeVars == <<restarts, missed, unseen>>
bchVars == <<bch, chain, relayed, early, applied, half, undone, rollbacks, lifeVars>>

confirmed == UNION ToSet(chain)

\* What this process has been given, with a block and at all.
Seen == confirmed \ unseen
Told == Seen \cup relayed

BchState ==
    [outpoint_map : SUBSET Outpoint,
     scriptpubkey_to_output : SUBSET Outpoint,
     mempool_outpoint_map : SUBSET Outpoint,
     mempool_scriptpubkey_to_output : SUBSET Outpoint,
     mempool_spent_confirmed_outpoints : SUBSET Outpoint,
     last_block_removed : Seq(SUBSET Outpoint),
     last_block_added : Seq(SUBSET Outpoint),
     slpdb : Slpdb]

-----------------------------------------------------------------------------
(* The operations. *)

Stored(S)   == (UNION {slp_outputs(t) : t \in S}) \ OpReturn
SpentBy(S)  == UNION {Inputs(t) : t \in S}

\* Faulty variant: nothing is dropped.
push_unbounded(q, x) == Append(q, x)

\* last_block_added and last_block_removed are bounded.
push(q, x) == LET r == Append(q, x) IN IF Len(r) > RollbackDepth THEN Tail(r) ELSE r

\* Faulty variants: the mempool's copies are kept; the inputs come first.
process_block_mempool_kept(b, txs) ==
    LET S == ToSet(txs)
        outs == b.outpoint_map \cup Stored(S)
    IN  [b EXCEPT !.outpoint_map = outs \ SpentBy(S),
                  !.scriptpubkey_to_output = (@ \cup Stored(S)) \ SpentBy(S)]
process_block_inputs_first(b, txs) ==
    LET S == ToSet(txs)
        removed == SpentBy(S) \cap b.outpoint_map
    IN  [b EXCEPT !.outpoint_map = (@ \ SpentBy(S)) \cup Stored(S),
                  !.scriptpubkey_to_output = (@ \ SpentBy(S)) \cup Stored(S),
                  !.mempool_outpoint_map = @ \ Stored(S),
                  !.mempool_scriptpubkey_to_output = @ \ Stored(S),
                  !.last_block_removed = push(@, removed),
                  !.last_block_added = push(@, Stored(S)),
                  !.slpdb = FoldLeft(add_transaction, remove_slp_utxos(@, SpentBy(S)), txs)]

\* bch::process_block with save_rollback, on sorted transactions: all outputs
\* are added, then the slpdb gets its transactions, then all inputs are removed.
\* (An input in outpoint_map has an entry by its scriptpubkey: what a rollback
\* took from there is confirmed again before it is spent.)
process_block(b, txs) ==
    LET added   == Stored(ToSet(txs))
        inputs  == SpentBy(ToSet(txs))
        outs    == b.outpoint_map \cup added
        pending == b.mempool_outpoint_map \ added
        gone    == inputs \cap outs
    IN  [outpoint_map |-> outs \ inputs,
         scriptpubkey_to_output |-> (b.scriptpubkey_to_output \cup added) \ gone,
         mempool_outpoint_map |-> pending \ inputs,
         mempool_scriptpubkey_to_output |->
             (b.mempool_scriptpubkey_to_output \ added) \ (inputs \cap pending),
         mempool_spent_confirmed_outpoints |->
             (b.mempool_spent_confirmed_outpoints \ added) \ gone,
         last_block_removed |->
             push(b.last_block_removed, gone \cup (inputs \cap pending)),
         last_block_added |-> push(b.last_block_added, added),
         slpdb |-> remove_slp_utxos(FoldLeft(add_transaction, b.slpdb, txs), inputs)]

\* Faulty variants: all outputs of the spent transaction go; confirmed outputs
\* are not marked as spent.
process_mempool_tx_whole_entry(b, t) ==
    [b EXCEPT !.mempool_outpoint_map = @ \cup Stored({t}),
              !.mempool_scriptpubkey_to_output = (@ \cup Stored({t})) \ Stored(Parents(t)),
              !.mempool_spent_confirmed_outpoints = @ \cup (Inputs(t) \ b.mempool_outpoint_map)]
process_mempool_tx_unmarked(b, t) ==
    [b EXCEPT !.mempool_outpoint_map = @ \cup Stored({t}),
              !.mempool_scriptpubkey_to_output = (@ \cup Stored({t})) \ Inputs(t),
              !.slpdb = add_transaction(@, t)]

\* bch::process_mempool_tx.  An output that is spent here leaves the map by
\* scriptpubkey and stays in the map by outpoint.
process_mempool_tx(b, t) ==
    LET pending == b.mempool_outpoint_map \cup Stored({t}) IN
    [b EXCEPT !.mempool_outpoint_map = pending,
              !.mempool_scriptpubkey_to_output =
                  (@ \cup Stored({t})) \ (Inputs(t) \cap pending),
              !.mempool_spent_confirmed_outpoints = @ \cup (Inputs(t) \ pending),
              !.slpdb = add_transaction(@, t)]

\* Faulty variant: what the block added is taken away first.
rollback_added_first(b) ==
    IF b.last_block_removed = <<>> \/ b.last_block_added = <<>> THEN b
    ELSE [b EXCEPT !.outpoint_map = @ \cup Last(b.last_block_removed),
                   !.scriptpubkey_to_output =
                       (@ \ Last(b.last_block_added)) \cup Last(b.last_block_removed),
                   !.last_block_removed = Front(@),
                   !.last_block_added = Front(@)]

\* utxodb::rollback.  What the block added leaves the map by scriptpubkey and
\* stays in the map by outpoint; mempool and slpdb are not touched.
rollback(b) ==
    IF b.last_block_removed = <<>> \/ b.last_block_added = <<>> THEN b
    ELSE LET outs == b.outpoint_map \cup Last(b.last_block_removed) IN
         [b EXCEPT !.outpoint_map = outs,
                   !.scriptpubkey_to_output =
                       (@ \cup Last(b.last_block_removed)) \
                           (Last(b.last_block_added) \cap outs),
                   !.last_block_removed = Front(@),
                   !.last_block_added = Front(@)]

\* The queries, for all outpoints and all scriptpubkeys at once and without
\* the limit on the number of results.
get_outputs_by_outpoints ==
    {o \in bch.outpoint_map \cup bch.mempool_outpoint_map :
        o \in bch.outpoint_map => o \notin bch.mempool_spent_confirmed_outpoints}
get_outputs_by_scriptpubkey ==
    (bch.scriptpubkey_to_output \ bch.mempool_spent_confirmed_outpoints)
        \cup bch.mempool_scriptpubkey_to_output

-----------------------------------------------------------------------------
(* The calls. *)

Sorted(S) == TopologicalOrders(S, [t \in S |-> Parents(t)])
Conflict(t, u) == t # u /\ Inputs(t) \cap Inputs(u) # {}

\* What the consensus rules let the node put on its chain.
Minable(B) ==
    /\ B # {} /\ B \cap confirmed = {}
    /\ \A t \in B : Parents(t) \subseteq B \cup confirmed
    /\ \A t \in B, u \in B \cup confirmed : ~Conflict(t, u)
    /\ Sorted(B) # {}

\* A block of the node's chain; the transactions come sorted.
ConnectBlock(B) ==
    /\ ~half
    /\ Minable(B)
    /\ \E txs \in Sorted(B) : bch' = process_block(bch, txs)
    /\ chain' = Append(chain, B)
    /\ applied' = push(applied, [txs |-> B, again |-> FALSE])
    /\ UNCHANGED <<relayed, early, half, undone, rollbacks, lifeVars>>

\* A block that ZMQ loses, or that arrives while main() processes the mempool
\* at the start and is thrown away.  No rollback is looked at after it.
MissBlock(B) ==
    /\ missed < MaxMissed
    /\ undone = {}
    /\ Minable(B)
    /\ chain' = Append(chain, B)
    /\ missed' = missed + 1
    /\ unseen' = unseen \cup B
    /\ applied' = <<>>
    /\ UNCHANGED <<bch, relayed, early, half, undone, rollbacks, restarts>>

\* While main() starts up it applies each block from the cache or over RPC
\* twice: in slpsync_bitcoind_process_block and after it; and twice more when
\* the request for the next block fails.
ConnectAgain ==
    /\ ~half
    /\ applied # <<>> /\ relayed = {}
    /\ \E txs \in Sorted(Last(applied).txs) : bch' = process_block(bch, txs)
    /\ applied' = push(applied, [txs |-> Last(applied).txs, again |-> TRUE])
    /\ UNCHANGED <<chain, relayed, early, half, undone, rollbacks, lifeVars>>

\* What the node may still announce: it announces a transaction before the
\* blocks with the transaction and with what spends it.  Whether the process
\* was told of the parents plays no part, nor do double spends.
Announced == {t \in Relayable \ Seen : \A u \in Seen : t \notin Parents(u)}
Early(S) == {o \in SpentBy(S) : o.txid \notin Told \cup S}

\* slpsync_bitcoind_process_tx hands on whatever the node announces, also what
\* it has announced before.
RelayTx(t) ==
    /\ t \in Announced
    /\ bch' = process_mempool_tx(bch, t)
    /\ relayed' = relayed \cup {t}
    /\ early' = early \cup Early({t})
    /\ UNCHANGED <<chain, applied, half, undone, rollbacks, lifeVars>>

\* slpsync_bitcoind_process_mempool hands on what the validator accepts of a
\* listing, token by token, in the order of a hash map.  A parent that it does
\* not accept, or has already, is not handed on.
ByToken(txs) ==
    \A i, j, k \in DOMAIN txs :
        i < j /\ j < k /\ Tx[txs[i]].tokenid = Tx[txs[k]].tokenid
            => Tx[txs[j]].tokenid = Tx[txs[i]].tokenid
InTokenOrder(txs) ==
    \A i, j \in DOMAIN txs :
        txs[j] \in Parents(txs[i]) /\ Tx[txs[j]].tokenid = Tx[txs[i]].tokenid => j < i

ListMempool(S) ==
    /\ S # {} /\ S \subseteq Announced \cap SlpValid
    /\ \E txs \in {s \in SetToSeqs(S) : ByToken(s) /\ InTokenOrder(s)} :
           bch' = FoldLeft(process_mempool_tx, bch, txs)
    /\ relayed' = relayed \cup S
    /\ early' = early \cup Early(S)
    /\ UNCHANGED <<chain, applied, half, undone, rollbacks, lifeVars>>

\* A caller that undoes a block, one application at a time.
Rollback ==
    /\ restarts = 0 /\ unseen = {}
    /\ rollbacks < MaxRollbacks
    /\ rollbacks' = IF applied = <<>> THEN rollbacks ELSE rollbacks + 1
    /\ bch' = rollback(bch)
    /\ IF applied = <<>> THEN UNCHANGED <<chain, applied, half, undone>>
       ELSE LET call == Last(applied) IN
            /\ applied' = Front(applied)
            /\ half' = call.again
            /\ chain' = IF call.again THEN chain ELSE Front(chain)
            /\ undone' = undone \cup call.txs
    /\ UNCHANGED <<relayed, early, lifeVars>>

EmptyBch ==
    [outpoint_map |-> {}, scriptpubkey_to_output |-> {},
     mempool_outpoint_map |-> {}, mempool_scriptpubkey_to_output |-> {},
     mempool_spent_confirmed_outpoints |-> {},
     last_block_removed |-> <<>>, last_block_added |-> <<>>,
     slpdb |-> EmptySlpdb]

\* Faulty variant: blocks are read without the transactions that are no SLP.
Reread_slp_only(n) ==
    [h \in 1..Len(chain) |-> {t \in chain[h] : Tx[t].type # "invalid"}]

\* The blocks that the RPC loop reads, in full, after n blocks came from the
\* cache: from the last of these on, unless it is the node's best block.
Reread(n) == IF n < Len(chain) THEN SubSeq(chain, IF n = 0 THEN 1 ELSE n, Len(chain)) ELSE <<>>

\* main() applies every block it reads, sorted, twice.
ApplyTwice(b, B) ==
    LET txs == CHOOSE s \in Sorted(B) : TRUE IN process_block(process_block(b, txs), txs)

\* The process starts anew.  The cache of the first life holds the first n
\* blocks: a file has the transactions of the block that the validator accepted
\* when the block was read over RPC, or none if a failed request made main()
\* read the block again, when they were all known (GsServer).
Restart(n, emptied) ==
    LET cached == [h \in 1..n |-> IF h \in emptied THEN {} ELSE chain[h] \cap SlpValid]
        unread == IF n < Len(chain) THEN n - 1 ELSE n
    IN  /\ restarts < MaxRestarts
        /\ undone = {}
        /\ bch' = FoldLeft(ApplyTwice, EmptyBch, cached \o Reread(n))
        /\ unseen' = UNION {chain[h] \ cached[h] : h \in 1..unread}
        /\ restarts' = restarts + 1
        /\ relayed' = {} /\ early' = {}
        /\ applied' = <<>>
        /\ UNCHANGED <<chain, half, undone, rollbacks, missed>>

BchInit ==
    /\ bch = EmptyBch
    /\ chain = <<>> /\ relayed = {} /\ early = {} /\ applied = <<>>
    /\ half = FALSE /\ undone = {} /\ rollbacks = 0
    /\ restarts = 0 /\ missed = 0 /\ unseen = {}

BchNext ==
    \/ \E B \in SUBSET Txid : ConnectBlock(B) \/ MissBlock(B) \/ ListMempool(B)
    \/ ConnectAgain
    \/ \E t \in Txid : RelayTx(t)
    \/ Rollback
    \/ \E n \in 0..Len(chain) : \E emptied \in SUBSET (1..n) : Restart(n, emptied)

BchSpec == BchInit /\ [][BchNext]_bchVars

-----------------------------------------------------------------------------
BchTypeOK ==
    /\ bch \in BchState
    /\ chain \in Seq(SUBSET Txid) /\ relayed \subseteq Txid /\ undone \subseteq Txid
    /\ applied \in Seq([txs : SUBSET Txid, again : BOOLEAN])
    /\ half \in BOOLEAN /\ rollbacks \in Nat
    /\ restarts \in 0..MaxRestarts /\ missed \in Nat
    /\ unseen \subseteq confirmed /\ early \subseteq Outpoint
    /\ Len(bch.last_block_added) <= RollbackDepth
    /\ Len(bch.last_block_removed) = Len(bch.last_block_added)

Unspent(S) == Stored(S) \ SpentBy(S)

\* The confirmed outputs by scriptpubkey are those of the blocks given to bch
\* that these do not spend, although main() applies blocks twice, whatever the
\* mempool does, and after every complete rollback.  The map by outpoint agrees,
\* but for outputs of blocks that were undone.  So against the node's chain the
\* set is off by exactly the outputs and the spends of what came with no block:
\* a block that was lost, and after a restart what the cache files left out.
UtxoSetIsExact ==
    /\ ~half => bch.scriptpubkey_to_output = Unspent(Seen)
    /\ bch.scriptpubkey_to_output \subseteq bch.outpoint_map \/ half
    /\ bch.outpoint_map \ bch.scriptpubkey_to_output \subseteq Stored(undone)

\* get_balance_by_scriptpubkey adds up two sets: no output is in both.
BalanceCountsOnce ==
    (bch.scriptpubkey_to_output \ bch.mempool_spent_confirmed_outpoints)
        \cap bch.mempool_scriptpubkey_to_output = {}

\* No query omits an output of a transaction that the process was told of and
\* that none of these spends.
NothingIsLost ==
    ~half /\ undone = {} =>
        Unspent(Told) \subseteq get_outputs_by_outpoints \cap get_outputs_by_scriptpubkey

\* A query reports an output that a transaction it was told of spends only if
\* the transaction that holds the output came by the mempool, or came in a block
\* after the mempool brought the one that spends it: process_block then takes
\* the mark away.
SpentOnlyIfRelayed ==
    ~half /\ undone = {} =>
        (get_outputs_by_outpoints \cup get_outputs_by_scriptpubkey)
            \cap SpentBy(Told) \subseteq Stored(relayed) \cup early

\* What the queries and the balance report: everything that is unspent, once,
\* and nothing spent but what the mempool brought, or brought too early.
QueriesAreRight == BalanceCountsOnce /\ NothingIsLost /\ SpentOnlyIfRelayed

\* The valid parents of the same token, and the valid transactions that came
\* with a block, as did all their valid ancestors of the token.
Kin(t) == {p \in Parents(t) \cap SlpValid : SameToken(t, p)}
Rooted(C) == UNION {S \in SUBSET (C \cap SlpValid) : \A t \in S : Kin(t) \subseteq S}

\* The slpdb has every unspent output with units of a valid transaction whose
\* ancestors it was given, unless there was a double spend: neither blocks that
\* are applied twice nor transactions that are added from the mempool first,
\* nor blocks and cache files that are missing elsewhere, make it reject one.
HoldingsAreKept ==
    undone = {} /\ (\A t, u \in Told : ~Conflict(t, u)) =>
        \A t \in Rooted(Seen) : \A v \in 1..(Tx[t].nout - 1) :
            output_slp_amount(t, v) > 0 /\ Out(t, v) \notin SpentBy(Seen)
                => Out(t, v) \in bch.slpdb.utxos

\* Once everything relayed has come with a block, the slpdb knows the baton of
\* each token it has: the unspent one of a valid transaction whose ancestors it
\* was given.  One that a block spent is never named, unless it is the GENESIS's,
\* which is not in utxos and so never goes.
BatonIsCurrent ==
    undone = {} /\ relayed \subseteq Seen =>
        /\ \A o \in bch.slpdb.batons :
              o \in SpentBy(Seen) => Tx[o.txid].type = "genesis"
        /\ \A t \in Rooted(Seen) :
              Tx[t].type \in {"genesis", "mint"} =>
                  NewBaton(t) \ SpentBy(Seen) \subseteq bch.slpdb.batons
=============================================================================
