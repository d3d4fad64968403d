----------------------------- MODULE BchProofs -----------------------------
(***************************************************************************)
(* Proofs about Bch: gs::bch with its utxodb and its slpdb, for every set  *)
(* of transactions, every rollback_depth and any number of rollbacks and   *)
(* lost blocks.                                                            *)
(*                                                                         *)
(* The effect of each operation on the utxodb is first stated as a         *)
(* relation between bch before and after (Applies, Relays), which no       *)
(* longer speaks of the order of the transactions; for the operations that *)
(* are folds over a list of transactions or blocks this rests on the runs  *)
(* of FoldTheorems.  Then come the chain (ChainOrdered), the calls that    *)
(* the rollback queues can undo (Placed, Matches), and the invariant       *)
(* BchInv, kept by each action.  The invariant has to know the entries of  *)
(* the rollback queues: without QueuesMatch a rollback could restore       *)
(* anything, and without CallsArePlaced undo a block that is not the last. *)
(*                                                                         *)
(* The slpdb has an invariant of its own, SlpdbInv, in the second half.    *)
(* slpdb::add_transaction accepts a MINT only if it spends the baton that  *)
(* the slpdb names, so the invariant follows the batons from transaction   *)
(* to transaction (Line).  A block that is applied twice, or relayed       *)
(* before, puts an old baton back for a while and moves it on again.  What *)
(* the slpdb can follow is what it was given with all the valid ancestors  *)
(* of the token (Rooted); a lost block or an empty cache file takes        *)
(* descendants out of that set and harms no other token (RootedGrows).     *)
(***************************************************************************)
EXTENDS Bch, FoldTheorems, SequenceTheorems

-----------------------------------------------------------------------------
(* Outputs and inputs of sets of transactions. *)

\* A transaction is well-typed, and so are its inputs.
LEMMA TxType ==
    ASSUME NEW t \in Txid
    PROVE  /\ Tx[t] \in Transaction
           /\ Inputs(t) \subseteq Outpoint
           /\ Parents(t) \subseteq Txid
           /\ \A o \in Inputs(t) : o.txid \in Parents(t)
<1>1. Tx[t] \in Transaction
  BY TxAssumption
<1>2. Tx[t].inputs \in Seq(Outpoint)
  BY <1>1 DEF Transaction
<1>3. ASSUME NEW o \in Inputs(t) PROVE o \in Outpoint
  BY <1>2 DEF Inputs
<1>4. ASSUME NEW o \in Outpoint PROVE o.txid \in Txid
  BY DEF Outpoint
<1>. QED
  BY <1>1, <1>3, <1>4 DEF Parents

\* An outpoint names its transaction.
LEMMA OutOfTx ==
    ASSUME NEW t \in Txid, NEW v \in Nat
    PROVE  Out(t, v) \in Outpoint /\ Out(t, v).txid = t
BY DEF Out, Outpoint

\* An output belongs to the transaction that it names.
LEMMA StoredOf ==
    ASSUME NEW T \in SUBSET Txid
    PROVE  /\ Stored(T) \subseteq Outpoint
           /\ \A o : o \in Stored(T) <=> o \in Stored(Txid) /\ o.txid \in T
<1>1. ASSUME NEW t \in Txid, NEW o \in slp_outputs(t)
      PROVE  o \in Outpoint /\ o.txid = t
  <2>1. Tx[t].nout \in Nat
    BY TxType DEF Transaction
  <2>2. o \in [txid : {t}, vout : 1..(Tx[t].nout - 1)]
    BY DEF slp_outputs
  <2>. QED
    BY <2>1, <2>2 DEF Outpoint
<1>2. \A o : o \in Stored(T) <=> o \notin OpReturn /\ \E t \in T : o \in slp_outputs(t)
  BY DEF Stored
<1>3. \A o : o \in Stored(Txid) <=> o \notin OpReturn /\ \E t \in Txid : o \in slp_outputs(t)
  BY DEF Stored
<1>. QED
  BY <1>1, <1>2, <1>3

\* The outpoints that the transactions of a set spend.
LEMMA SpentByOf ==
    ASSUME NEW T \in SUBSET Txid
    PROVE  /\ SpentBy(T) \subseteq Outpoint
           /\ \A o : o \in SpentBy(T) <=> \E t \in T : o \in Inputs(t)
BY TxType DEF SpentBy

-----------------------------------------------------------------------------
(* The slpdb stays well-typed. *)

\* The baton of a GENESIS or MINT is an outpoint.
LEMMA NewBatonType ==
    ASSUME NEW t \in Txid
    PROVE  NewBaton(t) \subseteq Outpoint
BY TxType, OutOfTx DEF NewBaton, Transaction

\* slpdb::add_transaction keeps the slpdb well-typed.
LEMMA AddTransactionType ==
    ASSUME NEW db \in Slpdb, NEW t \in Txid
    PROVE  add_transaction(db, t) \in Slpdb
<1>1. /\ db.tokens \subseteq Txid /\ db.transactions \subseteq Txid
      /\ db.utxos \subseteq Outpoint /\ db.utxo_to_tokenid \subseteq Outpoint
      /\ db.batons \subseteq Outpoint
  BY DEF Slpdb
<1>2. WithBaton(db, t) \subseteq Outpoint
  BY <1>1, NewBatonType DEF WithBaton
<1>3. {Out(t, 1)} \subseteq Outpoint
  BY OutOfTx
<1>4. AddGenesis(db, t) \in Slpdb
  BY <1>1, <1>2, <1>3, NewBatonType DEF AddGenesis, Slpdb
<1>5. AddMint(db, t) \in Slpdb
  BY <1>1, <1>2, <1>3, NewBatonType DEF AddMint, Slpdb
<1>6. AddSend(db, t) \in Slpdb
  <2>. DEFINE outs == {Out(t, v) : v \in {w \in DOMAIN Tx[t].amounts : w - 1 < 1 + Tx[t].nout}}
  <2>1. Tx[t].amounts \in Seq(Amount)
    BY TxType DEF Transaction
  <2>2. outs \subseteq Outpoint
    BY <2>1, OutOfTx
  <2>3. AddSend(db, t) = IF Cardinality(TokenOutputUnits(t)) > Cardinality(TokenInputUnits(db, t))
                         THEN db
                         ELSE [db EXCEPT !.transactions = @ \cup {t},
                                         !.utxos = @ \cup outs,
                                         !.utxo_to_tokenid = @ \cup outs]
    BY DEF AddSend
  <2>. DEFINE more == [db EXCEPT !.transactions = @ \cup {t},
                                 !.utxos = @ \cup outs,
                                 !.utxo_to_tokenid = @ \cup outs]
  <2>4. more \in Slpdb
    <3>. HIDE DEF outs
    <3>. QED
      BY <1>1, <2>2 DEF Slpdb
  <2>5. AddSend(db, t) = db \/ AddSend(db, t) = more
    <3>. HIDE DEF outs
    <3>. QED
      BY <2>3
  <2>. HIDE DEF more
  <2>. QED
    BY <1>1, <2>4, <2>5
<1>. QED
  BY <1>4, <1>5, <1>6 DEF add_transaction

\* The slpdb after a list of transactions.
AddedAll(db, txs) == FoldLeft(add_transaction, db, txs)

\* The states of the slpdb between the transactions of a list.
AddsAlong(run, n, db, txs) ==
    /\ run \in [0..n -> Slpdb] /\ run[0] = db /\ run[n] = AddedAll(db, txs)
    /\ \A k \in 1..n : run[k] = add_transaction(run[k - 1], txs[k])

\* There are such states.
LEMMA AddRun ==
    ASSUME NEW n \in Nat, NEW txs \in [1..n -> Txid], NEW db \in Slpdb
    PROVE  \E run : AddsAlong(run, n, db, txs)
<1>. DEFINE step == [i \in 1..n |-> [v \in Slpdb |-> add_transaction(v, txs[i])]]
            Fold(f) == f = [s \in SUBSET (DOMAIN txs) |->
                               IF s = {} THEN db
                               ELSE add_transaction(f[s \ {Max(s)}], txs[Max(s)])]
            it == CHOOSE f : Fold(f)
<1>1. AddedAll(db, txs) = it[DOMAIN txs]
  BY DEF AddedAll, FoldLeft, MapThenFoldSet
<1>2. step \in [1..n -> [Slpdb -> Slpdb]]
  BY AddTransactionType
<1>3. \A i \in 1..n, v \in Slpdb : step[i][v] = add_transaction(v, txs[i])
  OBVIOUS
<1>. HIDE DEF step
<1>4. PICK f \in [SUBSET (1..n) -> Slpdb] : FoldsLeft(f, n, Slpdb, db, step)
  BY <1>2, FoldLeftExists, Zenon
<1>5. \A s \in SUBSET (1..n) : s # {} => Max(s) \in 1..n
  BY MaxIsMember
<1>6. Fold(f)
  BY <1>3, <1>4, <1>5 DEF FoldsLeft
<1>7. Fold(it)
  <2>. HIDE DEF Fold
  <2>. QED
    BY <1>6
<1>. HIDE DEF it
<1>8. FoldsLeft(it, n, Slpdb, db, step)
  BY <1>3, <1>5, <1>7 DEF FoldsLeft
<1>9. RunsTo(n, Slpdb, db, step, it[1..n])
  BY <1>2, <1>8, FoldLeftRun, Zenon
<1>10. PICK run \in [0..n -> Slpdb] : IsRun(run, n, db, step) /\ run[n] = it[1..n]
  BY <1>9 DEF RunsTo
<1>11. ASSUME NEW k \in 1..n PROVE run[k] = add_transaction(run[k - 1], txs[k])
  <2>1. k - 1 \in 0..n
    OBVIOUS
  <2>. QED
    BY <1>3, <1>10, <2>1 DEF IsRun
<1>. QED
  BY <1>1, <1>10, <1>11 DEF IsRun, AddsAlong

\* The transactions of a list are added one after the other.
LEMMA AddAll ==
    ASSUME NEW n \in Nat, NEW txs \in [1..n -> Txid], NEW db \in Slpdb
    PROVE  FoldLeft(add_transaction, db, txs) \in Slpdb
<1>1. PICK run : AddsAlong(run, n, db, txs)
  BY AddRun
<1>2. n \in 0..n
  OBVIOUS
<1>. QED
  BY <1>1, <1>2 DEF AddsAlong, AddedAll
-----------------------------------------------------------------------------
(* Sorted lists of transactions. *)

\* A list of a finite set has each of its elements.
LEMMA ListOf ==
    ASSUME NEW T \in SUBSET Txid, NEW txs \in SetToSeqs(T)
    PROVE  /\ Cardinality(T) \in Nat
           /\ txs \in [1..Cardinality(T) -> Txid]
           /\ \A i \in 1..Cardinality(T) : txs[i] \in T
           /\ ToSet(txs) = T
           /\ \A t \in T : \E i \in 1..Cardinality(T) : txs[i] = t
<1>. DEFINE n == Cardinality(T)
<1>1. IsFiniteSet(T) /\ n \in Nat
  BY BchAssumption, FS_Subset, FS_CardinalityType
<1>2. txs \in [1..n -> T] /\ \A i, j \in 1..n : i # j => txs[i] # txs[j]
  BY DEF SetToSeqs
<1>. HIDE DEF n
<1>3. txs \in Injection(1..n, T)
  BY <1>2 DEF Injection, IsInjective
<1>4. IsFiniteSet(1..n) /\ Cardinality(1..n) = n
  <2>1. 1 \in Int /\ n \in Int
    BY <1>1
  <2>2. IsFiniteSet(1..n) /\ Cardinality(1..n) = IF 1 > n THEN 0 ELSE n - 1 + 1
    BY <2>1, FS_Interval, Zenon
  <2>. QED
    BY <1>1, <2>2
<1>5. txs \in Surjection(1..n, T)
  BY <1>1, <1>3, <1>4, FS_Injection DEF n
<1>6. \A t \in T : \E i \in 1..n : txs[i] = t
  BY <1>5 DEF Surjection
<1>. QED
  BY <1>1, <1>2, <1>6 DEF n, ToSet

\* A sorted list has each transaction once, after those it spends from.
LEMMA SortedIsList ==
    ASSUME NEW T \in SUBSET Txid, NEW txs
    PROVE  txs \in Sorted(T) <=>
               /\ txs \in SetToSeqs(T)
               /\ \A i, j \in DOMAIN txs : txs[j] \in Parents(txs[i]) => j < i
<1>1. ASSUME txs \in SetToSeqs(T)
      PROVE  \A i \in DOMAIN txs : txs[i] \in T
  BY <1>1, ListOf
<1>. QED
  BY <1>1 DEF Sorted, TopologicalOrders

\* Without one of its transactions a sorted list is still sorted.
LEMMA SortedWithout ==
    ASSUME NEW T \in SUBSET Txid, NEW x \in T, Sorted(T) # {}
    PROVE  Sorted(T \ {x}) # {}
<1>. DEFINE n == Cardinality(T)
            m == Cardinality(T \ {x})
<1>1. PICK s : s \in Sorted(T)
  OBVIOUS
<1>2. /\ s \in SetToSeqs(T)
      /\ \A i, j \in DOMAIN s : s[j] \in Parents(s[i]) => j < i
  BY <1>1, SortedIsList
<1>3. /\ s \in [1..n -> T] /\ n \in Nat
      /\ \A i, j \in 1..n : i # j => s[i] # s[j]
  BY <1>2, ListOf DEF SetToSeqs
<1>4. PICK k \in 1..n : s[k] = x
  BY <1>2, ListOf
<1>5. m = n - 1
  <2>1. IsFiniteSet(T)
    BY BchAssumption, FS_Subset
  <2>. QED
    BY <2>1, FS_RemoveElement
<1>. HIDE DEF n, m
<1>. DEFINE r == [i \in 1..m |-> IF i < k THEN s[i] ELSE s[i + 1]]
            old == [i \in 1..m |-> IF i < k THEN i ELSE i + 1]
<1>6. ASSUME NEW i \in 1..m
      PROVE  old[i] \in 1..n /\ old[i] # k /\ r[i] = s[old[i]]
  BY <1>3, <1>5
<1>7. ASSUME NEW i \in 1..m, NEW j \in 1..m
      PROVE  (old[i] = old[j] => i = j) /\ (old[j] < old[i] => j < i)
  BY <1>3, <1>5
<1>8. r \in [1..m -> T \ {x}]
  <2>1. \A i \in 1..m : r[i] \in T \ {x}
    <3>. HIDE DEF r, old
    <3>. QED
      BY <1>3, <1>4, <1>6
  <2>. QED
    BY <2>1
<1>. HIDE DEF r, old
<1>9. \A i, j \in 1..m : i # j => r[i] # r[j]
  BY <1>3, <1>6, <1>7
<1>10. r \in SetToSeqs(T \ {x})
  BY <1>8, <1>9 DEF SetToSeqs, m
<1>11. \A i, j \in DOMAIN r : r[j] \in Parents(r[i]) => j < i
  <2>1. DOMAIN r = 1..m /\ DOMAIN s = 1..n
    BY <1>3, <1>8
  <2>. QED
    BY <1>2, <1>6, <1>7, <2>1
<1>12. T \ {x} \in SUBSET Txid
  OBVIOUS
<1>. QED
  BY <1>10, <1>11, <1>12, SortedIsList

\* What is left of a block that can be sorted can be sorted.
LEMMA SortedSubset ==
    ASSUME NEW T \in SUBSET Txid, NEW U \in SUBSET T, Sorted(T) # {}
    PROVE  Sorted(U) # {}
<1>. DEFINE P == {k \in Nat : \A A \in SUBSET T :
                     U \subseteq A /\ Cardinality(A \ U) = k /\ Sorted(A) # {} => Sorted(U) # {}}
<1>1. \A A \in SUBSET T : IsFiniteSet(A \ U) /\ Cardinality(A \ U) \in Nat
  BY BchAssumption, FS_Subset, FS_CardinalityType
<1>2. 0 \in P
  <2>1. ASSUME NEW A \in SUBSET T, U \subseteq A, Cardinality(A \ U) = 0
        PROVE  A = U
    <3>1. A \ U = {}
      BY <1>1, <2>1, FS_EmptySet
    <3>. QED
      BY <2>1, <3>1
  <2>. QED
    BY <2>1
<1>3. ASSUME NEW k \in Nat, k \in P PROVE k + 1 \in P
  <2>. SUFFICES ASSUME NEW A \in SUBSET T, U \subseteq A, Cardinality(A \ U) = k + 1,
                       Sorted(A) # {}
                PROVE  Sorted(U) # {}
    OBVIOUS
  <2>1. A \ U # {}
    BY FS_EmptySet
  <2>2. PICK x : x \in A \ U
    BY <2>1
  <2>3. Sorted(A \ {x}) # {}
    BY <2>2, SortedWithout
  <2>4. (A \ {x}) \ U = (A \ U) \ {x}
    OBVIOUS
  <2>5. Cardinality((A \ U) \ {x}) = k
    <3>. DEFINE rest == A \ U
    <3>1. IsFiniteSet(rest) /\ x \in rest /\ Cardinality(rest) = k + 1
      BY <1>1, <2>2
    <3>. HIDE DEF rest
    <3>2. Cardinality(rest \ {x}) = (k + 1) - 1
      BY <3>1, FS_RemoveElement
    <3>. QED
      BY <3>2 DEF rest
  <2>6. A \ {x} \in SUBSET T /\ U \subseteq A \ {x}
    BY <2>2
  <2>. QED
    BY <1>3, <2>3, <2>4, <2>5, <2>6
<1>4. \A k \in Nat : k \in P
  <2>. HIDE DEF P
  <2>. QED
    BY <1>2, <1>3, NatSetInduction
<1>. QED
  BY <1>1, <1>4
-----------------------------------------------------------------------------
(* The operations on bch, on sets of transactions. *)

\* What a bounded queue holds after a push.
Dropped(q) == IF Len(q) + 1 > RollbackDepth THEN 1 ELSE 0

\* A push on a rollback queue appends, and drops the front of a full queue.
LEMMA PushOf ==
    ASSUME NEW D, NEW q \in Seq(D), NEW x \in D
    PROVE  /\ push(q, x) \in Seq(D)
           /\ Len(push(q, x)) = Len(q) + 1 - Dropped(q)
           /\ \A i \in 1..(Len(q) + 1 - Dropped(q)) :
                 push(q, x)[i] = IF i + Dropped(q) = Len(q) + 1 THEN x ELSE q[i + Dropped(q)]
           /\ Len(q) <= RollbackDepth => Len(push(q, x)) <= RollbackDepth
<1>1. /\ Append(q, x) \in Seq(D) /\ Append(q, x) # <<>>
      /\ Len(Append(q, x)) = Len(q) + 1
      /\ \A i \in 1..Len(q) : Append(q, x)[i] = q[i]
      /\ Append(q, x)[Len(q) + 1] = x
  BY AppendProperties
<1>2. Len(q) \in Nat /\ RollbackDepth \in Nat
  BY LenProperties, BchAssumption
<1>. DEFINE r == Append(q, x)
            n == Len(q)
<1>. HIDE DEF r, n
<1>3. CASE n + 1 > RollbackDepth
  <2>1. push(q, x) = Tail(r) /\ Dropped(q) = 1
    BY <1>1, <1>3 DEF push, Dropped, r, n
  <2>2. Tail(r) \in Seq(D) /\ Len(Tail(r)) = Len(r) - 1 /\ \A i \in 1..Len(Tail(r)) : Tail(r)[i] = r[i + 1]
    BY <1>1, HeadTailProperties DEF r
  <2>3. Len(Tail(r)) = n
    BY <1>1, <1>2, <2>2 DEF r, n
  <2>4. \A i \in 1..n : Tail(r)[i] = IF i + 1 = n + 1 THEN x ELSE q[i + 1]
    BY <1>1, <1>2, <2>2, <2>3 DEF r, n
  <2>. QED
    BY <1>2, <2>1, <2>2, <2>3, <2>4 DEF n
<1>4. CASE ~(n + 1 > RollbackDepth)
  <2>1. push(q, x) = r /\ Dropped(q) = 0
    BY <1>1, <1>4 DEF push, Dropped, r, n
  <2>. QED
    BY <1>1, <1>2, <1>4, <2>1 DEF r, n
<1>. QED
  BY <1>3, <1>4

\* b2 is b after process_block on the transactions B.
Applies(b, b2, B) ==
    LET outs == b.outpoint_map \cup Stored(B)
        gone == SpentBy(B) \cap outs
        pending == b.mempool_outpoint_map \ Stored(B)
    IN  /\ b2.outpoint_map = outs \ SpentBy(B)
        /\ b2.scriptpubkey_to_output = (b.scriptpubkey_to_output \cup Stored(B)) \ gone
        /\ b2.mempool_outpoint_map = pending \ SpentBy(B)
        /\ b2.mempool_scriptpubkey_to_output =
              (b.mempool_scriptpubkey_to_output \ Stored(B)) \ (SpentBy(B) \cap pending)
        /\ b2.mempool_spent_confirmed_outpoints =
              (b.mempool_spent_confirmed_outpoints \ Stored(B)) \ gone
        /\ b2.last_block_removed = push(b.last_block_removed, gone \cup (SpentBy(B) \cap pending))
        /\ b2.last_block_added = push(b.last_block_added, Stored(B))

\* The queues have one length, within the bound.
QueuesBounded(b) ==
    /\ Len(b.last_block_added) <= RollbackDepth
    /\ Len(b.last_block_removed) = Len(b.last_block_added)

\* bch::process_block has on the utxodb the effect of Applies, keeps the types
\* and the bound of the rollback queues.
LEMMA ProcessBlock ==
    ASSUME NEW b \in BchState, NEW B \in SUBSET Txid, NEW txs \in Sorted(B)
    PROVE  /\ process_block(b, txs) \in BchState
           /\ Applies(b, process_block(b, txs), B)
           /\ QueuesBounded(b) => QueuesBounded(process_block(b, txs))
<1>1. ToSet(txs) = B /\ Cardinality(B) \in Nat /\ txs \in [1..Cardinality(B) -> Txid]
  BY SortedIsList, ListOf
<1>. DEFINE db == FoldLeft(add_transaction, b.slpdb, txs)
            b2 == process_block(b, txs)
            outs == b.outpoint_map \cup Stored(B)
            gone == SpentBy(B) \cap outs
            pending == b.mempool_outpoint_map \ Stored(B)
<1>2. /\ b.outpoint_map \subseteq Outpoint /\ b.scriptpubkey_to_output \subseteq Outpoint
      /\ b.mempool_outpoint_map \subseteq Outpoint
      /\ b.mempool_scriptpubkey_to_output \subseteq Outpoint
      /\ b.mempool_spent_confirmed_outpoints \subseteq Outpoint
      /\ b.last_block_removed \in Seq(SUBSET Outpoint)
      /\ b.last_block_added \in Seq(SUBSET Outpoint)
      /\ b.slpdb \in Slpdb
  BY DEF BchState
<1>3. Stored(B) \subseteq Outpoint /\ SpentBy(B) \subseteq Outpoint
  BY StoredOf, SpentByOf
<1>4. db \in Slpdb
  BY <1>1, <1>2, AddAll
<1>5. remove_slp_utxos(db, SpentBy(B)) \in Slpdb
  <2>. HIDE DEF db
  <2>. QED
    BY <1>4 DEF remove_slp_utxos, Slpdb
<1>6. /\ push(b.last_block_removed, gone \cup (SpentBy(B) \cap pending)) \in Seq(SUBSET Outpoint)
      /\ push(b.last_block_added, Stored(B)) \in Seq(SUBSET Outpoint)
      /\ Len(push(b.last_block_removed, gone \cup (SpentBy(B) \cap pending))) =
            Len(b.last_block_removed) + 1 - Dropped(b.last_block_removed)
      /\ Len(push(b.last_block_added, Stored(B))) =
            Len(b.last_block_added) + 1 - Dropped(b.last_block_added)
      /\ Len(b.last_block_added) <= RollbackDepth =>
            Len(push(b.last_block_added, Stored(B))) <= RollbackDepth
  <2>1. gone \cup (SpentBy(B) \cap pending) \in SUBSET Outpoint /\ Stored(B) \in SUBSET Outpoint
    BY <1>2, <1>3
  <2>. HIDE DEF gone, pending
  <2>. QED
    BY <1>2, <2>1, PushOf
<1>7. b2 = [outpoint_map |-> outs \ SpentBy(B),
            scriptpubkey_to_output |-> (b.scriptpubkey_to_output \cup Stored(B)) \ gone,
            mempool_outpoint_map |-> pending \ SpentBy(B),
            mempool_scriptpubkey_to_output |->
                (b.mempool_scriptpubkey_to_output \ Stored(B)) \ (SpentBy(B) \cap pending),
            mempool_spent_confirmed_outpoints |->
                (b.mempool_spent_confirmed_outpoints \ Stored(B)) \ gone,
            last_block_removed |->
                push(b.last_block_removed, gone \cup (SpentBy(B) \cap pending)),
            last_block_added |-> push(b.last_block_added, Stored(B)),
            slpdb |-> remove_slp_utxos(db, SpentBy(B))]
  BY <1>1 DEF process_block
<1>. HIDE DEF b2, db
<1>8. b2 \in BchState
  BY <1>2, <1>3, <1>5, <1>6, <1>7 DEF BchState
<1>9. Applies(b, b2, B)
  BY <1>7 DEF Applies
<1>10. QueuesBounded(b) => QueuesBounded(b2)
  <2>. HIDE DEF outs, gone, pending
  <2>1. /\ b2.last_block_removed = push(b.last_block_removed, gone \cup (SpentBy(B) \cap pending))
        /\ b2.last_block_added = push(b.last_block_added, Stored(B))
    BY <1>7
  <2>2. SUFFICES ASSUME QueuesBounded(b) PROVE QueuesBounded(b2)
    OBVIOUS
  <2>3. Dropped(b.last_block_removed) = Dropped(b.last_block_added)
    BY <2>2 DEF QueuesBounded, Dropped
  <2>4. Len(b2.last_block_removed) = Len(b2.last_block_added)
    BY <1>6, <2>1, <2>2, <2>3 DEF QueuesBounded
  <2>5. Len(b2.last_block_added) <= RollbackDepth
    BY <1>6, <2>1, <2>2 DEF QueuesBounded
  <2>. QED
    BY <2>4, <2>5 DEF QueuesBounded
<1>. QED
  BY <1>8, <1>9, <1>10 DEF b2

\* b2 is b after process_mempool_tx on the transactions T in some order: what is
\* in the maps, but for the outputs of T that T spends.
Relays(b, b2, T) ==
    /\ b2.outpoint_map = b.outpoint_map
    /\ b2.scriptpubkey_to_output = b.scriptpubkey_to_output
    /\ b2.last_block_removed = b.last_block_removed
    /\ b2.last_block_added = b.last_block_added
    /\ b2.mempool_outpoint_map = b.mempool_outpoint_map \cup Stored(T)
    /\ b2.mempool_scriptpubkey_to_output \subseteq b.mempool_scriptpubkey_to_output \cup Stored(T)
    /\ (b.mempool_scriptpubkey_to_output \cup Stored(T)) \ SpentBy(T)
          \subseteq b2.mempool_scriptpubkey_to_output
    /\ b.mempool_spent_confirmed_outpoints \subseteq b2.mempool_spent_confirmed_outpoints
    /\ b2.mempool_spent_confirmed_outpoints \subseteq
          b.mempool_spent_confirmed_outpoints \cup SpentBy(T)
    /\ SpentBy(T) \subseteq b2.mempool_spent_confirmed_outpoints \cup b2.mempool_outpoint_map

\* bch::process_mempool_tx has the effect of Relays for one transaction.
LEMMA ProcessMempoolTx ==
    ASSUME NEW b \in BchState, NEW t \in Txid
    PROVE  process_mempool_tx(b, t) \in BchState /\ Relays(b, process_mempool_tx(b, t), {t})
<1>. DEFINE pending == b.mempool_outpoint_map \cup Stored({t})
            b2 == process_mempool_tx(b, t)
<1>1. SpentBy({t}) = Inputs(t) /\ Inputs(t) \subseteq Outpoint
  BY TxType DEF SpentBy
<1>2. Stored({t}) \subseteq Outpoint
  BY StoredOf
<1>3. add_transaction(b.slpdb, t) \in Slpdb
  BY AddTransactionType DEF BchState
<1>4. /\ pending \in SUBSET Outpoint
      /\ (b.mempool_scriptpubkey_to_output \cup Stored({t})) \ (Inputs(t) \cap pending)
            \in SUBSET Outpoint
      /\ b.mempool_spent_confirmed_outpoints \cup (Inputs(t) \ pending) \in SUBSET Outpoint
  BY <1>1, <1>2 DEF BchState
<1>. DEFINE unspent == (b.mempool_scriptpubkey_to_output \cup Stored({t})) \ (Inputs(t) \cap pending)
            marked == b.mempool_spent_confirmed_outpoints \cup (Inputs(t) \ pending)
            db == add_transaction(b.slpdb, t)
            c1 == [b EXCEPT !.mempool_outpoint_map = pending]
            c2 == [c1 EXCEPT !.mempool_scriptpubkey_to_output = unspent]
            c3 == [c2 EXCEPT !.mempool_spent_confirmed_outpoints = marked]
            c4 == [c3 EXCEPT !.slpdb = db]
<1>5. b2 = c4 /\ b2 \in BchState
  <2>1. b2 = [b EXCEPT !.mempool_outpoint_map = pending,
                       !.mempool_scriptpubkey_to_output = unspent,
                       !.mempool_spent_confirmed_outpoints = marked,
                       !.slpdb = db]
    BY DEF process_mempool_tx
  <2>. HIDE DEF pending, unspent, marked, db, b2
  <2>2. b2 = c4
    BY <2>1 DEF BchState
  <2>3. c1 \in BchState
    BY <1>4 DEF BchState
  <2>. HIDE DEF c1
  <2>4. c2 \in BchState
    BY <1>4, <2>3 DEF BchState, unspent
  <2>. HIDE DEF c2
  <2>5. c3 \in BchState
    BY <1>4, <2>4 DEF BchState, marked
  <2>. HIDE DEF c3
  <2>6. c4 \in BchState
    BY <1>3, <2>5 DEF BchState, db
  <2>. QED
    BY <2>2, <2>6
<1>6. Relays(b, b2, {t})
  <2>1. /\ b2.outpoint_map = b.outpoint_map
        /\ b2.scriptpubkey_to_output = b.scriptpubkey_to_output
        /\ b2.last_block_removed = b.last_block_removed
        /\ b2.last_block_added = b.last_block_added
        /\ b2.mempool_outpoint_map = pending
        /\ b2.mempool_scriptpubkey_to_output = unspent
        /\ b2.mempool_spent_confirmed_outpoints = marked
    <3>. HIDE DEF pending, unspent, marked, db, b2
    <3>. QED
      BY <1>5 DEF BchState
  <2>. HIDE DEF b2
  <2>. QED
    BY <1>1, <2>1 DEF Relays
<1>. QED
  BY <1>5, <1>6 DEF b2
\* The states between the transactions of a listing.
RelaysAlong(run, n, b, txs) ==
    /\ run \in [0..n -> BchState] /\ run[0] = b /\ run[n] = FoldLeft(process_mempool_tx, b, txs)
    /\ \A k \in 1..n : run[k] = process_mempool_tx(run[k - 1], txs[k])

\* There are such states.
LEMMA RelayRun ==
    ASSUME NEW n \in Nat, NEW txs \in [1..n -> Txid], NEW b \in BchState
    PROVE  \E run : RelaysAlong(run, n, b, txs)
<1>. DEFINE step == [i \in 1..n |-> [v \in BchState |-> process_mempool_tx(v, txs[i])]]
            Fold(f) == f = [s \in SUBSET (DOMAIN txs) |->
                               IF s = {} THEN b
                               ELSE process_mempool_tx(f[s \ {Max(s)}], txs[Max(s)])]
            it == CHOOSE f : Fold(f)
<1>1. FoldLeft(process_mempool_tx, b, txs) = it[DOMAIN txs]
  BY DEF FoldLeft, MapThenFoldSet
<1>2. step \in [1..n -> [BchState -> BchState]]
  BY ProcessMempoolTx
<1>3. \A i \in 1..n, v \in BchState : step[i][v] = process_mempool_tx(v, txs[i])
  OBVIOUS
<1>. HIDE DEF step
<1>4. PICK f \in [SUBSET (1..n) -> BchState] : FoldsLeft(f, n, BchState, b, step)
  BY <1>2, FoldLeftExists, Zenon
<1>5. \A s \in SUBSET (1..n) : s # {} => Max(s) \in 1..n
  BY MaxIsMember
<1>6. Fold(f)
  BY <1>3, <1>4, <1>5 DEF FoldsLeft
<1>7. Fold(it)
  <2>. HIDE DEF Fold
  <2>. QED
    BY <1>6
<1>. HIDE DEF it
<1>8. FoldsLeft(it, n, BchState, b, step)
  BY <1>3, <1>5, <1>7 DEF FoldsLeft
<1>9. RunsTo(n, BchState, b, step, it[1..n])
  BY <1>2, <1>8, FoldLeftRun, Zenon
<1>10. PICK run \in [0..n -> BchState] : IsRun(run, n, b, step) /\ run[n] = it[1..n]
  BY <1>9 DEF RunsTo
<1>11. ASSUME NEW k \in 1..n PROVE run[k] = process_mempool_tx(run[k - 1], txs[k])
  <2>1. k - 1 \in 0..n
    OBVIOUS
  <2>. QED
    BY <1>3, <1>10, <2>1 DEF IsRun
<1>. QED
  BY <1>1, <1>10, <1>11 DEF IsRun, RelaysAlong

\* Relaying one set after the other relays both.
LEMMA RelaysTransitive ==
    ASSUME NEW b, NEW b1, NEW b2, NEW T \in SUBSET Txid, NEW U \in SUBSET Txid,
           Relays(b, b1, T), Relays(b1, b2, U)
    PROVE  Relays(b, b2, T \cup U)
<1>1. Stored(T \cup U) = Stored(T) \cup Stored(U)
  BY DEF Stored
<1>2. SpentBy(T \cup U) = SpentBy(T) \cup SpentBy(U)
  BY DEF SpentBy
<1>. QED
  BY <1>1, <1>2 DEF Relays

\* The transactions of a mempool listing, handed on one by one in any order, have
\* the effect of Relays for all of them.
LEMMA RelayAll ==
    ASSUME NEW b \in BchState, NEW T \in SUBSET Txid, NEW txs \in SetToSeqs(T)
    PROVE  /\ FoldLeft(process_mempool_tx, b, txs) \in BchState
           /\ Relays(b, FoldLeft(process_mempool_tx, b, txs), T)
<1>. DEFINE n == Cardinality(T)
<1>1. /\ n \in Nat /\ txs \in [1..n -> Txid] /\ \A i \in 1..n : txs[i] \in T
      /\ \A t \in T : \E i \in 1..n : txs[i] = t
  BY ListOf
<1>. HIDE DEF n
<1>2. PICK run \in [0..n -> BchState] :
          /\ run[0] = b /\ run[n] = FoldLeft(process_mempool_tx, b, txs)
          /\ \A k \in 1..n : run[k] = process_mempool_tx(run[k - 1], txs[k])
  <2>1. \E run : RelaysAlong(run, n, b, txs)
    BY <1>1, RelayRun
  <2>. QED
    BY <2>1 DEF RelaysAlong
<1>. DEFINE Done(k) == {txs[i] : i \in 1..k}
            P == {k \in Nat : k <= n => Relays(b, run[k], Done(k))}
<1>3. 0 \in P
  <2>1. Done(0) = {}
    OBVIOUS
  <2>2. Stored({}) = {} /\ SpentBy({}) = {}
    BY DEF Stored, SpentBy
  <2>. HIDE DEF Done
  <2>. QED
    BY <1>2, <2>1, <2>2 DEF Relays
<1>4. ASSUME NEW k \in Nat, k \in P PROVE k + 1 \in P
  <2>. SUFFICES ASSUME k + 1 <= n PROVE Relays(b, run[k + 1], Done(k + 1))
    OBVIOUS
  <2>1. k + 1 \in 1..n /\ k \in 0..n /\ (k + 1) - 1 = k
    BY <1>1
  <2>2. run[k] \in BchState /\ txs[k + 1] \in Txid
    BY <1>1, <1>2, <2>1
  <2>3. run[k + 1] = process_mempool_tx(run[k], txs[k + 1])
    BY <1>2, <2>1
  <2>4. Relays(run[k], run[k + 1], {txs[k + 1]})
    BY <2>2, <2>3, ProcessMempoolTx
  <2>5. Done(k) \in SUBSET Txid /\ {txs[k + 1]} \in SUBSET Txid
    BY <1>1, <2>1, <2>2
  <2>6. Done(k + 1) = Done(k) \cup {txs[k + 1]}
    OBVIOUS
  <2>7. Relays(b, run[k], Done(k))
    BY <1>4, <2>1
  <2>. HIDE DEF Done
  <2>. QED
    BY <2>4, <2>5, <2>6, <2>7, RelaysTransitive
<1>5. n \in P
  <2>. HIDE DEF P
  <2>. QED
    BY <1>1, <1>3, <1>4, NatSetInduction
<1>6. Done(n) = T
  BY <1>1
<1>7. n \in 0..n /\ n <= n
  BY <1>1
<1>8. Relays(b, run[n], T)
  BY <1>5, <1>6, <1>7
<1>. QED
  BY <1>2, <1>7, <1>8

\* The blocks that can be sorted.
Sortable == {B \in SUBSET Txid : Sorted(B) # {}}

\* main() applies a block that it reads twice.
LEMMA ApplyTwiceApplies ==
    ASSUME NEW b \in BchState, NEW B \in Sortable
    PROVE  /\ ApplyTwice(b, B) \in BchState
           /\ QueuesBounded(b) => QueuesBounded(ApplyTwice(b, B))
           /\ \E mid \in BchState : Applies(b, mid, B) /\ Applies(mid, ApplyTwice(b, B), B)
<1>. DEFINE txs == CHOOSE s \in Sorted(B) : TRUE
            mid == process_block(b, txs)
<1>1. B \in SUBSET Txid /\ txs \in Sorted(B)
  BY DEF Sortable
<1>2. ApplyTwice(b, B) = process_block(mid, txs)
  BY DEF ApplyTwice
<1>. HIDE DEF txs
<1>3. mid \in BchState /\ Applies(b, mid, B) /\ (QueuesBounded(b) => QueuesBounded(mid))
  BY <1>1, ProcessBlock
<1>. HIDE DEF mid
<1>4. /\ process_block(mid, txs) \in BchState /\ Applies(mid, process_block(mid, txs), B)
      /\ QueuesBounded(mid) => QueuesBounded(process_block(mid, txs))
  BY <1>1, <1>3, ProcessBlock
<1>. QED
  BY <1>2, <1>3, <1>4

\* The states between the blocks that main() reads.
AppliesAlong(run, n, b, blocks) ==
    /\ run \in [0..n -> BchState] /\ run[0] = b /\ run[n] = FoldLeft(ApplyTwice, b, blocks)
    /\ \A k \in 1..n : run[k] = ApplyTwice(run[k - 1], blocks[k])

\* There are such states.
LEMMA ApplyRun ==
    ASSUME NEW n \in Nat, NEW blocks \in [1..n -> Sortable], NEW b \in BchState
    PROVE  \E run : AppliesAlong(run, n, b, blocks)
<1>. DEFINE step == [i \in 1..n |-> [v \in BchState |-> ApplyTwice(v, blocks[i])]]
            Fold(f) == f = [s \in SUBSET (DOMAIN blocks) |->
                               IF s = {} THEN b
                               ELSE ApplyTwice(f[s \ {Max(s)}], blocks[Max(s)])]
            it == CHOOSE f : Fold(f)
<1>1. FoldLeft(ApplyTwice, b, blocks) = it[DOMAIN blocks]
  BY DEF FoldLeft, MapThenFoldSet
<1>2. step \in [1..n -> [BchState -> BchState]]
  BY ApplyTwiceApplies
<1>3. \A i \in 1..n, v \in BchState : step[i][v] = ApplyTwice(v, blocks[i])
  OBVIOUS
<1>. HIDE DEF step
<1>4. PICK f \in [SUBSET (1..n) -> BchState] : FoldsLeft(f, n, BchState, b, step)
  BY <1>2, FoldLeftExists, Zenon
<1>5. \A s \in SUBSET (1..n) : s # {} => Max(s) \in 1..n
  BY MaxIsMember
<1>6. Fold(f)
  BY <1>3, <1>4, <1>5 DEF FoldsLeft
<1>7. Fold(it)
  <2>. HIDE DEF Fold
  <2>. QED
    BY <1>6
<1>. HIDE DEF it
<1>8. FoldsLeft(it, n, BchState, b, step)
  BY <1>3, <1>5, <1>7 DEF FoldsLeft
<1>9. RunsTo(n, BchState, b, step, it[1..n])
  BY <1>2, <1>8, FoldLeftRun, Zenon
<1>10. PICK run \in [0..n -> BchState] : IsRun(run, n, b, step) /\ run[n] = it[1..n]
  BY <1>9 DEF RunsTo
<1>11. ASSUME NEW k \in 1..n PROVE run[k] = ApplyTwice(run[k - 1], blocks[k])
  <2>1. k - 1 \in 0..n
    OBVIOUS
  <2>. QED
    BY <1>3, <1>10, <2>1 DEF IsRun
<1>. QED
  BY <1>1, <1>10, <1>11 DEF IsRun, AppliesAlong
-----------------------------------------------------------------------------
(* Chains of blocks. *)

Closed(C) == \A t \in C : Parents(t) \subseteq C
NoConflicts(C) == \A t, u \in C : ~Conflict(t, u)
Union(ch) == UNION ToSet(ch)

\* Blocks are disjoint, neither empty nor beyond sorting, a transaction comes
\* after those it spends from, and no output is spent twice.
ChainOrdered(ch) ==
    /\ \A h \in 1..Len(ch) :
          /\ ch[h] # {} /\ Sorted(ch[h]) # {}
          /\ \A t \in ch[h] : \A p \in Parents(t) : \E g \in 1..h : p \in ch[g]
    /\ \A g, h \in 1..Len(ch) : g # h => ch[g] \cap ch[h] = {}
    /\ NoConflicts(Union(ch))

\* The transactions of a chain are those of its blocks.
LEMMA UnionOf ==
    ASSUME NEW ch \in Seq(SUBSET Txid)
    PROVE  /\ Union(ch) \in SUBSET Txid
           /\ \A t : t \in Union(ch) <=> \E h \in 1..Len(ch) : t \in ch[h]
<1>1. DOMAIN ch = 1..Len(ch) /\ \A h \in 1..Len(ch) : ch[h] \in SUBSET Txid
  BY LenProperties, ElementOfSeq
<1>. QED
  BY <1>1 DEF Union, ToSet

\* A chain has the parents of its transactions and spends no output twice.
LEMMA ChainIsClosed ==
    ASSUME NEW ch \in Seq(SUBSET Txid), ChainOrdered(ch)
    PROVE  Closed(Union(ch)) /\ NoConflicts(Union(ch))
<1>1. ASSUME NEW t \in Union(ch), NEW p \in Parents(t)
      PROVE  p \in Union(ch)
  <2>1. PICK h \in 1..Len(ch) : t \in ch[h]
    BY UnionOf
  <2>2. PICK g \in 1..h : p \in ch[g]
    BY <2>1 DEF ChainOrdered
  <2>3. g \in 1..Len(ch)
    BY LenProperties
  <2>. QED
    BY <2>2, <2>3, UnionOf
<1>. QED
  BY <1>1 DEF Closed, ChainOrdered

\* A block that the node accepts leaves the chain in order.
LEMMA ChainAppend ==
    ASSUME NEW ch \in Seq(SUBSET Txid), ChainOrdered(ch), NEW B \in SUBSET Txid,
           B # {}, Sorted(B) # {}, B \cap Union(ch) = {},
           \A t \in B : Parents(t) \subseteq B \cup Union(ch),
           \A t \in B, u \in B \cup Union(ch) : ~Conflict(t, u)
    PROVE  /\ Append(ch, B) \in Seq(SUBSET Txid)
           /\ Union(Append(ch, B)) = Union(ch) \cup B
           /\ ChainOrdered(Append(ch, B))
<1>. DEFINE n == Len(ch)
            ch2 == Append(ch, B)
<1>1. /\ ch2 \in Seq(SUBSET Txid) /\ Len(ch2) = n + 1 /\ n \in Nat
      /\ \A i \in 1..n : ch2[i] = ch[i]
      /\ ch2[n + 1] = B
  BY AppendProperties, LenProperties
<1>. HIDE DEF n, ch2
<1>2. \A t : t \in Union(ch2) <=> \E h \in 1..(n + 1) : t \in ch2[h]
  BY <1>1, UnionOf
<1>3. \A t : t \in Union(ch) <=> \E h \in 1..n : t \in ch[h]
  BY UnionOf DEF n
<1>4. Union(ch2) = Union(ch) \cup B
  <2>1. \A h \in 1..(n + 1) : h \in 1..n \/ h = n + 1
    BY <1>1
  <2>2. \A h \in 1..n : h \in 1..(n + 1)
    BY <1>1
  <2>3. n + 1 \in 1..(n + 1)
    BY <1>1
  <2>. QED
    BY <1>1, <1>2, <1>3, <2>1, <2>2, <2>3
<1>5. ASSUME NEW h \in 1..(n + 1)
      PROVE  /\ ch2[h] # {} /\ Sorted(ch2[h]) # {}
             /\ \A t \in ch2[h] : \A p \in Parents(t) : \E g \in 1..h : p \in ch2[g]
  <2>1. CASE h = n + 1
    <3>1. ASSUME NEW t \in B, NEW p \in Parents(t)
          PROVE  \E g \in 1..h : p \in ch2[g]
      <4>1. p \in Union(ch2)
        BY <1>4
      <4>. QED
        BY <1>2, <2>1, <4>1
    <3>. QED
      BY <1>1, <2>1, <3>1
  <2>2. CASE h # n + 1
    <3>1. h \in 1..n /\ ch2[h] = ch[h]
      BY <1>1, <2>2
    <3>2. \A g \in 1..h : ch2[g] = ch[g]
      BY <1>1, <3>1
    <3>. QED
      BY <3>1, <3>2 DEF ChainOrdered, n
  <2>. QED
    BY <2>1, <2>2
<1>6. ASSUME NEW g \in 1..(n + 1), NEW h \in 1..(n + 1), g # h
      PROVE  ch2[g] \cap ch2[h] = {}
  <2>1. \A i \in 1..n : ch[i] \subseteq Union(ch)
    BY <1>3
  <2>2. g \in 1..n \/ h \in 1..n
    BY <1>1, <1>6
  <2>3. CASE g \in 1..n /\ h \in 1..n
    BY <1>1, <1>6, <2>3 DEF ChainOrdered, n
  <2>4. CASE g \notin 1..n
    <3>1. g = n + 1 /\ h \in 1..n
      BY <1>1, <2>2, <2>4
    <3>. QED
      BY <1>1, <2>1, <3>1
  <2>5. CASE h \notin 1..n
    <3>1. h = n + 1 /\ g \in 1..n
      BY <1>1, <2>2, <2>5
    <3>. QED
      BY <1>1, <2>1, <3>1
  <2>. QED
    BY <2>3, <2>4, <2>5
<1>7. NoConflicts(Union(ch2))
  <2>1. \A t, u : Conflict(t, u) => Conflict(u, t)
    BY DEF Conflict
  <2>. QED
    BY <1>4, <2>1 DEF NoConflicts, ChainOrdered
<1>8. ChainOrdered(ch2)
  BY <1>1, <1>5, <1>6, <1>7 DEF ChainOrdered
<1>. QED
  BY <1>1, <1>4, <1>8 DEF ch2

\* A queue without its last element.
LEMMA FrontOf ==
    ASSUME NEW D, NEW q \in Seq(D), q # <<>>
    PROVE  /\ Front(q) \in Seq(D) /\ Len(Front(q)) = Len(q) - 1
           /\ \A i \in 1..(Len(q) - 1) : Front(q)[i] = q[i]
           /\ Last(q) \in D /\ Last(q) = q[Len(q)] /\ Len(q) \in Nat \ {0}
<1>. DEFINE n == Len(q)
            m == n - 1
<1>1. n \in Nat /\ n # 0 /\ \A i \in 1..n : q[i] \in D
  BY LenProperties, EmptySeq, ElementOfSeq
<1>. HIDE DEF n
<1>2. m \in Nat /\ \A i \in 1..m : q[i] \in D
  BY <1>1
<1>. HIDE DEF m
<1>3. /\ SubSeq(q, 1, m) \in Seq(D)
      /\ Len(SubSeq(q, 1, m)) = IF 1 <= m THEN m - 1 + 1 ELSE 0
      /\ \A i \in 1..(m - 1 + 1) : SubSeq(q, 1, m)[i] = q[1 + i - 1]
  <2>1. 1 \in Int /\ m \in Int /\ \A i \in 1..m : q[i] \in D
    BY <1>2
  <2>. QED
    BY <2>1, SubSeqProperties
<1>4. Len(SubSeq(q, 1, m)) = m /\ \A i \in 1..m : SubSeq(q, 1, m)[i] = q[i]
  BY <1>2, <1>3
<1>5. q[n] \in D /\ n \in Nat \ {0}
  BY <1>1
<1>. QED
  BY <1>3, <1>4, <1>5 DEF Front, Last, n, m

\* A chain that is in order is so without its last block.
LEMMA ChainFront ==
    ASSUME NEW ch \in Seq(SUBSET Txid), ch # <<>>, ChainOrdered(ch)
    PROVE  /\ Front(ch) \in Seq(SUBSET Txid) /\ Len(Front(ch)) = Len(ch) - 1
           /\ \A h \in 1..(Len(ch) - 1) : Front(ch)[h] = ch[h]
           /\ Union(ch) = Union(Front(ch)) \cup Last(ch)
           /\ Union(Front(ch)) \cap Last(ch) = {}
           /\ Last(ch) # {} /\ Last(ch) \in SUBSET Txid /\ Sorted(Last(ch)) # {}
           /\ ChainOrdered(Front(ch))
<1>. DEFINE n == Len(ch)
            fr == Front(ch)
            B == Last(ch)
<1>1. /\ n \in Nat /\ n # 0 /\ \A h \in 1..n : ch[h] \in SUBSET Txid
  BY LenProperties, EmptySeq, ElementOfSeq
<1>2. fr \in Seq(SUBSET Txid) /\ Len(fr) = n - 1 /\ \A h \in 1..(n - 1) : fr[h] = ch[h]
  BY FrontOf
<1>3. B = ch[n]
  BY DEF Last
<1>. HIDE DEF n, fr, B
<1>4. \A t : t \in Union(fr) <=> \E h \in 1..(n - 1) : t \in ch[h]
  BY <1>2, UnionOf
<1>5. \A t : t \in Union(ch) <=> \E h \in 1..n : t \in ch[h]
  BY UnionOf DEF n
<1>6. /\ \A h \in 1..n : h \in 1..(n - 1) \/ h = n
      /\ \A h \in 1..(n - 1) : h \in 1..n /\ h # n
      /\ n \in 1..n
  BY <1>1
<1>7. Union(ch) = Union(fr) \cup B
  BY <1>3, <1>4, <1>5, <1>6
<1>8. Union(fr) \cap B = {}
  BY <1>3, <1>4, <1>6 DEF ChainOrdered, n
<1>9. B # {} /\ B \in SUBSET Txid /\ Sorted(B) # {}
  BY <1>1, <1>3, <1>6 DEF ChainOrdered, n
<1>10. ASSUME NEW h \in 1..(n - 1)
      PROVE  /\ fr[h] # {} /\ Sorted(fr[h]) # {}
             /\ \A t \in fr[h] : \A p \in Parents(t) : \E g \in 1..h : p \in fr[g]
  <2>1. h \in 1..n /\ fr[h] = ch[h]
    BY <1>2, <1>6
  <2>2. \A g \in 1..h : g \in 1..(n - 1)
    BY <1>1
  <2>. QED
    BY <1>2, <2>1, <2>2 DEF ChainOrdered, n
<1>11. \A g, h \in 1..(n - 1) : g # h => fr[g] \cap fr[h] = {}
  BY <1>2, <1>6 DEF ChainOrdered, n
<1>12. NoConflicts(Union(fr))
  BY <1>7 DEF NoConflicts, ChainOrdered
<1>13. ChainOrdered(fr)
  BY <1>2, <1>10, <1>11, <1>12 DEF ChainOrdered
<1>. QED
  BY <1>2, <1>7, <1>8, <1>9, <1>13 DEF n, fr, B

\* What the sets of outputs and inputs have to do with each other, for a closed
\* set of transactions and what comes on top of it.
LEMMA OnTop ==
    ASSUME NEW C \in SUBSET Txid, NEW B \in SUBSET Txid, C \cap B = {},
           Closed(C), \A t \in B : Parents(t) \subseteq C \cup B, NoConflicts(C \cup B)
    PROVE  /\ SpentBy(C) \cap Stored(B) = {}
           /\ SpentBy(C) \cap SpentBy(B) = {}
           /\ Stored(C) \cap Stored(B) = {}
           /\ Stored(C \cup B) = Stored(C) \cup Stored(B)
           /\ SpentBy(C \cup B) = SpentBy(C) \cup SpentBy(B)
           /\ Stored(Txid) \cap SpentBy(B) \subseteq Stored(C) \cup Stored(B)
           /\ Stored(Txid) \cap SpentBy(C) \subseteq Stored(C)
           /\ Stored(C) \subseteq Stored(Txid) /\ Stored(B) \subseteq Stored(Txid)
<1>1. /\ \A o : o \in Stored(C) <=> o \in Stored(Txid) /\ o.txid \in C
      /\ \A o : o \in Stored(B) <=> o \in Stored(Txid) /\ o.txid \in B
  BY StoredOf
<1>2. /\ \A o : o \in SpentBy(C) <=> \E t \in C : o \in Inputs(t)
      /\ \A o : o \in SpentBy(B) <=> \E t \in B : o \in Inputs(t)
  BY SpentByOf
<1>3. /\ \A o \in SpentBy(C) : o.txid \in C
      /\ \A o \in SpentBy(B) : o.txid \in C \cup B
  BY <1>2, TxType DEF Closed
<1>4. SpentBy(C) \cap SpentBy(B) = {}
  <2>1. ASSUME NEW o \in SpentBy(C) \cap SpentBy(B) PROVE FALSE
    <3>1. PICK t \in C : o \in Inputs(t)
      BY <1>2, <2>1
    <3>2. PICK u \in B : o \in Inputs(u)
      BY <1>2, <2>1
    <3>. QED
      BY <3>1, <3>2 DEF NoConflicts, Conflict
  <2>. QED
    BY <2>1
<1>5. Stored(C \cup B) = Stored(C) \cup Stored(B) /\ SpentBy(C \cup B) = SpentBy(C) \cup SpentBy(B)
  BY DEF Stored, SpentBy
<1>. QED
  BY <1>1, <1>3, <1>4, <1>5
-----------------------------------------------------------------------------
(* The calls that rollback can undo. *)

Call == [txs : SUBSET Txid, again : BOOLEAN]

\* pos[i] is the block of the chain that call i applied: the last calls applied
\* the last blocks, each block first once and then any number of times again.
Placed(pos, ap, ch) ==
    /\ \A i \in 1..Len(ap) :
          /\ pos[i] \in 1..Len(ch) /\ ap[i].txs = ch[pos[i]]
          /\ \A j \in 1..(i - 1) :
                /\ pos[j] <= pos[i]
                /\ ~ap[i].again => pos[j] < pos[i]
          /\ i > 1 => pos[i - 1] >= IF ap[i].again THEN pos[i] ELSE pos[i] - 1
    /\ ap # <<>> => pos[Len(ap)] = Len(ch)

\* The outputs a call took away: those of earlier blocks only when the block was
\* applied for the first time.
TakenBy(call) == SpentBy(call.txs) \cap Stored(IF call.again THEN call.txs ELSE Txid)

\* added and removed are the queues of these calls.
Matches(ap, added, removed) ==
    /\ Len(added) = Len(ap) /\ Len(removed) = Len(ap)
    /\ \A i \in 1..Len(ap) : added[i] = Stored(ap[i].txs) /\ removed[i] = TakenBy(ap[i])

\* The calls keep their places when a block is applied, for the first time or again.
LEMMA PlacedPush ==
    ASSUME NEW ap \in Seq(Call), NEW ch \in Seq(SUBSET Txid), NEW pos, Placed(pos, ap, ch),
           NEW call \in Call, NEW ch2 \in Seq(SUBSET Txid),
           Len(ch2) = IF call.again THEN Len(ch) ELSE Len(ch) + 1,
           \A h \in 1..Len(ch) : ch2[h] = ch[h],
           ch2 # <<>>, ch2[Len(ch2)] = call.txs
    PROVE  \E pos2 : Placed(pos2, push(ap, call), ch2)
<1>. DEFINE n == Len(ap)
            d == Dropped(ap)
            ap2 == push(ap, call)
            p == Len(ch2)
            c == Len(ch)
            pos2 == [i \in 1..(n + 1 - d) |-> IF i + d = n + 1 THEN p ELSE pos[i + d]]
<1>1. n \in Nat /\ d \in {0, 1} /\ p \in Nat /\ p # 0 /\ c \in Nat
  BY LenProperties, EmptySeq DEF Dropped
<1>2. /\ ap2 \in Seq(Call) /\ Len(ap2) = n + 1 - d
      /\ \A i \in 1..(n + 1 - d) : ap2[i] = IF i + d = n + 1 THEN call ELSE ap[i + d]
  BY PushOf
<1>3. /\ \A i \in 1..n : /\ pos[i] \in 1..c /\ ap[i].txs = ch[pos[i]]
                         /\ \A j \in 1..(i - 1) : /\ pos[j] <= pos[i]
                                                  /\ ~ap[i].again => pos[j] < pos[i]
                         /\ i > 1 => pos[i - 1] >= IF ap[i].again THEN pos[i] ELSE pos[i] - 1
      /\ n # 0 => pos[n] = c
  BY <1>1, EmptySeq DEF Placed
<1>4. p = IF call.again THEN c ELSE c + 1
  OBVIOUS
<1>5. call.again \in BOOLEAN /\ c <= p /\ (~call.again => c < p)
  BY <1>1, <1>4 DEF Call
<1>6. \A h \in 1..c : ch2[h] = ch[h]
  OBVIOUS
<1>7. ch2[p] = call.txs
  OBVIOUS
<1>. HIDE DEF n, d, ap2, p, c
<1>8. \A i \in 1..(n + 1 - d) : pos2[i] = IF i + d = n + 1 THEN p ELSE pos[i + d]
  OBVIOUS
<1>. HIDE DEF pos2
<1>9. ASSUME NEW i \in 1..(n + 1 - d)
      PROVE  /\ pos2[i] \in 1..p /\ ap2[i].txs = ch2[pos2[i]]
             /\ \A j \in 1..(i - 1) : /\ pos2[j] <= pos2[i]
                                      /\ ~ap2[i].again => pos2[j] < pos2[i]
             /\ i > 1 => pos2[i - 1] >= IF ap2[i].again THEN pos2[i] ELSE pos2[i] - 1
  <2>1. \A j \in 1..(i - 1) : j \in 1..(n + 1 - d) /\ j + d \in 1..n /\ j + d # n + 1
                              /\ pos2[j] = pos[j + d]
    BY <1>1, <1>8
  <2>2. CASE i + d = n + 1
    <3>1. pos2[i] = p /\ ap2[i] = call
      BY <1>2, <1>8, <2>2
    <3>2. \A j \in 1..(i - 1) : pos2[j] \in 1..c
      BY <1>3, <2>1
    <3>3. ASSUME i > 1
          PROVE  pos2[i - 1] = c
      <4>1. i - 1 \in 1..(i - 1) /\ (i - 1) + d = n /\ n # 0
        BY <1>1, <2>2, <3>3
      <4>. QED
        BY <1>3, <2>1, <4>1
    <3>4. \A j \in 1..(i - 1) : pos2[j] <= p /\ (~call.again => pos2[j] < p)
      BY <1>1, <1>5, <3>2
    <3>5. i > 1 => pos2[i - 1] >= IF call.again THEN p ELSE p - 1
      BY <1>1, <1>4, <3>3
    <3>6. p \in 1..p
      BY <1>1
    <3>. QED
      BY <1>7, <3>1, <3>4, <3>5, <3>6
  <2>3. CASE i + d # n + 1
    <3>1. i + d \in 1..n /\ pos2[i] = pos[i + d] /\ ap2[i] = ap[i + d]
      <4>1. i + d \in 1..n
        BY <1>1, <2>3
      <4>2. pos2[i] = pos[i + d]
        BY <1>8, <2>3
      <4>3. ap2[i] = ap[i + d]
        BY <1>2, <2>3
      <4>. QED
        BY <4>1, <4>2, <4>3
    <3>2. pos[i + d] \in 1..c /\ ap[i + d].txs = ch[pos[i + d]]
      BY <1>3, <3>1
    <3>3. pos2[i] \in 1..p /\ ap2[i].txs = ch2[pos2[i]]
      BY <1>1, <1>5, <1>6, <3>1, <3>2
    <3>4. ASSUME NEW j \in 1..(i - 1)
          PROVE  pos2[j] <= pos2[i] /\ (~ap2[i].again => pos2[j] < pos2[i])
      <4>1. j + d \in 1..((i + d) - 1)
        BY <1>1
      <4>. QED
        BY <1>3, <2>1, <3>1, <4>1
    <3>5. ASSUME i > 1
          PROVE  pos2[i - 1] >= IF ap2[i].again THEN pos2[i] ELSE pos2[i] - 1
      <4>1. i - 1 \in 1..(i - 1) /\ (i - 1) + d = (i + d) - 1 /\ i + d > 1
        BY <1>1, <3>5
      <4>2. pos2[i - 1] = pos[(i + d) - 1]
        BY <2>1, <4>1
      <4>. QED
        BY <1>3, <3>1, <4>1, <4>2
    <3>. QED
      BY <3>3, <3>4, <3>5
  <2>. QED
    BY <2>2, <2>3
<1>10. ASSUME ap2 # <<>>
       PROVE  pos2[Len(ap2)] = p
  <2>1. Len(ap2) # 0
    BY <1>2, <1>10, EmptySeq
  <2>2. n + 1 - d \in 1..(n + 1 - d) /\ (n + 1 - d) + d = n + 1
    BY <1>1, <1>2, <2>1
  <2>. QED
    BY <1>2, <1>8, <2>2
<1>11. Placed(pos2, ap2, ch2)
  BY <1>2, <1>9, <1>10 DEF Placed, p
<1>. QED
  BY <1>11 DEF ap2

\* The calls keep their places when the last one is undone.
LEMMA PlacedFront ==
    ASSUME NEW ap \in Seq(Call), ap # <<>>, NEW ch \in Seq(SUBSET Txid), ch # <<>>,
           NEW pos, Placed(pos, ap, ch)
    PROVE  Placed(pos, Front(ap), IF Last(ap).again THEN ch ELSE Front(ch))
<1>. DEFINE n == Len(ap)
            c == Len(ch)
            fr == Front(ap)
            ch2 == IF Last(ap).again THEN ch ELSE Front(ch)
            c2 == IF Last(ap).again THEN c ELSE c - 1
<1>1. /\ fr \in Seq(Call) /\ Len(fr) = n - 1 /\ \A i \in 1..(n - 1) : fr[i] = ap[i]
      /\ Last(ap) = ap[n] /\ n \in Nat \ {0} /\ Last(ap) \in Call
  BY FrontOf
<1>2. /\ Front(ch) \in Seq(SUBSET Txid) /\ Len(Front(ch)) = c - 1
      /\ \A i \in 1..(c - 1) : Front(ch)[i] = ch[i]
      /\ c \in Nat \ {0}
  BY FrontOf
<1>3. Last(ap).again \in BOOLEAN
  BY <1>1 DEF Call
<1>4. Len(ch2) = c2 /\ c2 \in Nat /\ \A h \in 1..c2 : ch2[h] = ch[h]
  BY <1>2, <1>3
<1>5. /\ \A i \in 1..n : /\ pos[i] \in 1..c /\ ap[i].txs = ch[pos[i]]
                         /\ \A j \in 1..(i - 1) : /\ pos[j] <= pos[i]
                                                  /\ ~ap[i].again => pos[j] < pos[i]
                         /\ i > 1 => pos[i - 1] >= IF ap[i].again THEN pos[i] ELSE pos[i] - 1
      /\ pos[n] = c
  BY DEF Placed
<1>. HIDE DEF n, c, fr, ch2
<1>6. \A i \in 1..(n - 1) : i \in 1..n
  BY <1>1
<1>7. ASSUME NEW i \in 1..(n - 1) PROVE pos[i] \in 1..c2
  <2>1. pos[i] \in 1..c /\ (~Last(ap).again => pos[i] < c)
    BY <1>1, <1>5, <1>6
  <2>. QED
    BY <1>2, <1>3, <2>1
<1>8. ASSUME n - 1 # 0 PROVE pos[n - 1] = c2
  <2>1. n \in 1..n /\ n > 1 /\ n - 1 \in 1..(n - 1)
    BY <1>1, <1>8
  <2>2. pos[n - 1] >= IF ap[n].again THEN c ELSE c - 1
    BY <1>5, <2>1
  <2>3. pos[n - 1] \in 1..c2
    BY <1>7, <2>1
  <2>. QED
    BY <1>1, <1>2, <1>3, <2>2, <2>3
<1>9. fr # <<>> => n - 1 # 0
  BY <1>1, EmptySeq
<1>10. ASSUME NEW i \in 1..(n - 1)
       PROVE  /\ pos[i] \in 1..c2 /\ fr[i].txs = ch2[pos[i]]
              /\ \A j \in 1..(i - 1) : /\ pos[j] <= pos[i]
                                       /\ ~fr[i].again => pos[j] < pos[i]
              /\ i > 1 => pos[i - 1] >= IF fr[i].again THEN pos[i] ELSE pos[i] - 1
  <2>1. fr[i] = ap[i] /\ i \in 1..n /\ pos[i] \in 1..c2
    BY <1>1, <1>6, <1>7
  <2>2. ch2[pos[i]] = ch[pos[i]]
    BY <1>4, <2>1
  <2>. QED
    BY <1>5, <2>1, <2>2
<1>. HIDE DEF c2
<1>11. Placed(pos, fr, ch2)
  BY <1>1, <1>4, <1>8, <1>9, <1>10 DEF Placed
<1>. QED
  BY <1>11 DEF fr, ch2

\* The rollback queues match the calls after one more, also when the oldest drops out.
LEMMA MatchesPush ==
    ASSUME NEW ap \in Seq(Call), NEW added \in Seq(SUBSET Outpoint),
           NEW removed \in Seq(SUBSET Outpoint), Matches(ap, added, removed),
           NEW call \in Call
    PROVE  Matches(push(ap, call), push(added, Stored(call.txs)), push(removed, TakenBy(call)))
<1>. DEFINE n == Len(ap)
            d == Dropped(ap)
<1>1. Len(added) = n /\ Len(removed) = n /\ Dropped(added) = d /\ Dropped(removed) = d
  BY DEF Matches, Dropped
<1>2. Stored(call.txs) \in SUBSET Outpoint /\ TakenBy(call) \in SUBSET Outpoint
  <2>1. call.txs \in SUBSET Txid
    BY DEF Call
  <2>. QED
    BY <2>1, StoredOf, SpentByOf DEF TakenBy
<1>3. n \in Nat /\ d \in {0, 1}
  BY LenProperties DEF Dropped
<1>4. /\ Len(push(ap, call)) = n + 1 - d
      /\ \A i \in 1..(n + 1 - d) : push(ap, call)[i] = IF i + d = n + 1 THEN call ELSE ap[i + d]
  BY PushOf
<1>5. /\ Len(push(added, Stored(call.txs))) = n + 1 - d
      /\ \A i \in 1..(n + 1 - d) : push(added, Stored(call.txs))[i] =
            IF i + d = n + 1 THEN Stored(call.txs) ELSE added[i + d]
  <2>. DEFINE x == Stored(call.txs)
  <2>1. x \in SUBSET Outpoint
    BY <1>2
  <2>. HIDE DEF x
  <2>2. /\ Len(push(added, x)) = Len(added) + 1 - Dropped(added)
        /\ \A i \in 1..(Len(added) + 1 - Dropped(added)) : push(added, x)[i] =
              IF i + Dropped(added) = Len(added) + 1 THEN x ELSE added[i + Dropped(added)]
    BY <2>1, PushOf
  <2>. HIDE DEF n, d
  <2>. QED
    BY <1>1, <2>2 DEF x
<1>6. /\ Len(push(removed, TakenBy(call))) = n + 1 - d
      /\ \A i \in 1..(n + 1 - d) : push(removed, TakenBy(call))[i] =
            IF i + d = n + 1 THEN TakenBy(call) ELSE removed[i + d]
  <2>. DEFINE x == TakenBy(call)
  <2>1. x \in SUBSET Outpoint
    BY <1>2
  <2>. HIDE DEF x
  <2>2. /\ Len(push(removed, x)) = Len(removed) + 1 - Dropped(removed)
        /\ \A i \in 1..(Len(removed) + 1 - Dropped(removed)) : push(removed, x)[i] =
              IF i + Dropped(removed) = Len(removed) + 1 THEN x ELSE removed[i + Dropped(removed)]
    BY <2>1, PushOf
  <2>. HIDE DEF n, d
  <2>. QED
    BY <1>1, <2>2 DEF x
<1>7. \A i \in 1..n : added[i] = Stored(ap[i].txs) /\ removed[i] = TakenBy(ap[i])
  BY DEF Matches
<1>. HIDE DEF n, d
<1>8. \A i \in 1..(n + 1 - d) : i + d # n + 1 => i + d \in 1..n
  BY <1>3
<1>. QED
  BY <1>4, <1>5, <1>6, <1>7, <1>8 DEF Matches

\* The last entries of the queues are those of the last call.
LEMMA MatchesFront ==
    ASSUME NEW ap \in Seq(Call), NEW added \in Seq(SUBSET Outpoint),
           NEW removed \in Seq(SUBSET Outpoint), Matches(ap, added, removed), ap # <<>>
    PROVE  /\ added # <<>> /\ removed # <<>>
           /\ Last(added) = Stored(Last(ap).txs) /\ Last(removed) = TakenBy(Last(ap))
           /\ Matches(Front(ap), Front(added), Front(removed))
<1>. DEFINE n == Len(ap)
<1>1. Len(added) = n /\ Len(removed) = n
  BY DEF Matches
<1>2. /\ n \in Nat \ {0} /\ Last(ap) = ap[n]
      /\ Len(Front(ap)) = n - 1 /\ \A i \in 1..(n - 1) : Front(ap)[i] = ap[i]
  BY FrontOf
<1>3. added # <<>> /\ removed # <<>>
  BY <1>1, <1>2, EmptySeq
<1>4. /\ Last(added) = added[n] /\ Len(Front(added)) = n - 1
      /\ \A i \in 1..(n - 1) : Front(added)[i] = added[i]
  BY <1>1, <1>3, FrontOf
<1>5. /\ Last(removed) = removed[n] /\ Len(Front(removed)) = n - 1
      /\ \A i \in 1..(n - 1) : Front(removed)[i] = removed[i]
  BY <1>1, <1>3, FrontOf
<1>6. \A i \in 1..n : added[i] = Stored(ap[i].txs) /\ removed[i] = TakenBy(ap[i])
  BY DEF Matches
<1>. HIDE DEF n
<1>7. n \in 1..n /\ \A i \in 1..(n - 1) : i \in 1..n
  BY <1>2
<1>8. Matches(Front(ap), Front(added), Front(removed))
  BY <1>2, <1>4, <1>5, <1>6, <1>7 DEF Matches
<1>. QED
  BY <1>2, <1>3, <1>4, <1>5, <1>6, <1>7, <1>8
-----------------------------------------------------------------------------
(* The inductive invariant. *)

CallsArePlaced ==
    /\ \E pos : Placed(pos, applied, chain)
    /\ \A i \in 1..Len(applied) : applied[i].txs \cap unseen = {}

\* A lost block or a restart leaves transactions unseen, a rollback leaves half a
\* block: never both.
LivesApart ==
    /\ restarts # 0 \/ unseen # {} => undone = {}
    /\ undone = {} => ~half
    /\ half => chain # <<>>

QueuesMatch ==
    restarts = 0 /\ unseen = {} =>
        Matches(applied, bch.last_block_added, bch.last_block_removed)

\* In the middle of a rollback the outputs of the block are gone and those it
\* spends are not back.
UtxosAreExact ==
    /\ bch.scriptpubkey_to_output =
          IF half THEN Unspent(confirmed) \ Stored(Last(chain)) ELSE Unspent(Seen)
    /\ bch.scriptpubkey_to_output \subseteq bch.outpoint_map
    /\ bch.outpoint_map \ bch.scriptpubkey_to_output \subseteq Stored(undone)
    /\ bch.outpoint_map \cap SpentBy(IF half THEN confirmed \ Last(chain) ELSE Seen) = {}

MempoolIsBounded ==
    /\ bch.mempool_scriptpubkey_to_output \subseteq bch.mempool_outpoint_map
    /\ bch.mempool_outpoint_map \subseteq Stored(relayed)
    /\ bch.mempool_outpoint_map \cap Stored(Seen) = {}
    /\ bch.mempool_spent_confirmed_outpoints \subseteq SpentBy(relayed)

\* The mempool has what is relayed and neither seen in a block nor spent, and
\* marks what is spent, unless the output was relayed itself, a block spends it,
\* or the mark came before the output.
MempoolIsComplete ==
    undone = {} =>
        /\ \A o \in SpentBy(relayed) : o.txid \in Told \/ o \in early
        /\ Stored(relayed \ Seen) \ SpentBy(Told) \subseteq bch.mempool_scriptpubkey_to_output
        /\ SpentBy(relayed \ Seen) \subseteq
              bch.mempool_spent_confirmed_outpoints \cup Stored(relayed) \cup SpentBy(Seen) \cup early

BchInv ==
    /\ BchTypeOK
    /\ ChainOrdered(chain)
    /\ CallsArePlaced /\ LivesApart /\ QueuesMatch
    /\ UtxosAreExact /\ MempoolIsBounded /\ MempoolIsComplete

\* Stored and SpentBy distribute over unions and are monotonic.
LEMMA SetsOfUnion ==
    ASSUME NEW T, NEW U
    PROVE  /\ Stored(T \cup U) = Stored(T) \cup Stored(U)
           /\ SpentBy(T \cup U) = SpentBy(T) \cup SpentBy(U)
           /\ Stored({}) = {} /\ SpentBy({}) = {}
           /\ T \subseteq U => Stored(T) \subseteq Stored(U) /\ SpentBy(T) \subseteq SpentBy(U)
BY DEF Stored, SpentBy

\* A block that no transaction seen before it spends from, unless it is seen
\* again, keeps the unspent outputs exact.
LEMMA ApplyExact ==
    ASSUME NEW H, NEW B, NEW b, NEW b2, Applies(b, b2, B),
           b.scriptpubkey_to_output = Unspent(H),
           b.scriptpubkey_to_output \subseteq b.outpoint_map,
           b.outpoint_map \cap SpentBy(H) = {},
           SpentBy(H) \cap Stored(B) \subseteq SpentBy(B)
    PROVE  /\ b2.scriptpubkey_to_output = Unspent(H \cup B)
           /\ b2.scriptpubkey_to_output \subseteq b2.outpoint_map
           /\ b2.outpoint_map \ b2.scriptpubkey_to_output \subseteq
                 b.outpoint_map \ b.scriptpubkey_to_output
           /\ b2.outpoint_map \cap SpentBy(H \cup B) = {}
<1>1. Stored(H \cup B) = Stored(H) \cup Stored(B) /\ SpentBy(H \cup B) = SpentBy(H) \cup SpentBy(B)
  BY SetsOfUnion
<1>2. /\ b2.outpoint_map = (b.outpoint_map \cup Stored(B)) \ SpentBy(B)
      /\ b2.scriptpubkey_to_output = (b.scriptpubkey_to_output \cup Stored(B)) \
            (SpentBy(B) \cap (b.outpoint_map \cup Stored(B)))
  BY DEF Applies
<1>. QED
  BY <1>1, <1>2 DEF Unspent

\* A block takes what it confirms and what it spends out of the mempool.
LEMMA ApplyMempool ==
    ASSUME NEW B, NEW b, NEW b2, Applies(b, b2, B),
           b.mempool_scriptpubkey_to_output \subseteq b.mempool_outpoint_map
    PROVE  /\ b2.mempool_scriptpubkey_to_output =
                 (b.mempool_scriptpubkey_to_output \ Stored(B)) \ SpentBy(B)
           /\ b2.mempool_outpoint_map = (b.mempool_outpoint_map \ Stored(B)) \ SpentBy(B)
           /\ b2.mempool_spent_confirmed_outpoints \subseteq b.mempool_spent_confirmed_outpoints
           /\ b.mempool_spent_confirmed_outpoints \subseteq
                 b2.mempool_spent_confirmed_outpoints \cup Stored(B) \cup SpentBy(B)
BY DEF Applies

\* What no call has a push does not add.
LEMMA CallsOfPush ==
    ASSUME NEW ap \in Seq(Call), NEW call \in Call, NEW F,
           \A i \in 1..Len(ap) : ap[i].txs \cap F = {}, call.txs \cap F = {}
    PROVE  \A i \in 1..Len(push(ap, call)) : push(ap, call)[i].txs \cap F = {}
<1>. DEFINE n == Len(ap)
            d == Dropped(ap)
<1>1. /\ Len(push(ap, call)) = n + 1 - d
      /\ \A i \in 1..(n + 1 - d) : push(ap, call)[i] = IF i + d = n + 1 THEN call ELSE ap[i + d]
  BY PushOf
<1>2. n \in Nat /\ d \in {0, 1}
  BY LenProperties DEF Dropped
<1>3. \A i \in 1..n : ap[i].txs \cap F = {}
  OBVIOUS
<1>. HIDE DEF n, d
<1>4. \A i \in 1..(n + 1 - d) : i + d # n + 1 => i + d \in 1..n
  BY <1>2
<1>. QED
  BY <1>1, <1>3, <1>4

\* What the invariant says of the chain.
LEMMA ConfirmedFacts ==
    ASSUME BchInv
    PROVE  /\ confirmed = Union(chain) /\ confirmed \in SUBSET Txid
           /\ Closed(confirmed) /\ NoConflicts(confirmed)
           /\ Seen \subseteq confirmed
           /\ Stored(Seen) \subseteq Stored(confirmed)
           /\ SpentBy(Seen) \subseteq SpentBy(confirmed)
<1>1. confirmed = Union(chain)
  BY DEF confirmed, Union
<1>2. chain \in Seq(SUBSET Txid) /\ ChainOrdered(chain)
  BY DEF BchInv, BchTypeOK
<1>3. Seen \subseteq confirmed
  BY DEF Seen
<1>. QED
  BY <1>1, <1>2, <1>3, UnionOf, ChainIsClosed, SetsOfUnion
\* process_block on a new block keeps the invariant.
LEMMA ConnectBlockStep ==
    ASSUME BchInv, NEW B \in SUBSET Txid, ConnectBlock(B)
    PROVE  BchInv'
<1>. DEFINE C == confirmed
            F == unseen
            call == [txs |-> B, again |-> FALSE]
<1>1. /\ ~half /\ B # {} /\ B \cap C = {}
      /\ \A t \in B : Parents(t) \subseteq B \cup C
      /\ \A t \in B, u \in B \cup C : ~Conflict(t, u)
      /\ chain' = Append(chain, B)
      /\ applied' = push(applied, call)
      /\ relayed' = relayed /\ half' = half /\ undone' = undone
      /\ rollbacks' = rollbacks /\ restarts' = restarts /\ unseen' = F
      /\ early' = early /\ missed' = missed
  BY DEF ConnectBlock, Minable, lifeVars
<1>2. PICK txs \in Sorted(B) : bch' = process_block(bch, txs)
  BY DEF ConnectBlock
<1>3. /\ bch \in BchState /\ chain \in Seq(SUBSET Txid) /\ applied \in Seq(Call)
      /\ relayed \subseteq Txid /\ F \subseteq C /\ QueuesBounded(bch)
  BY DEF BchInv, BchTypeOK, Call, QueuesBounded
<1>4. bch' \in BchState /\ Applies(bch, bch', B) /\ QueuesBounded(bch')
  BY <1>2, <1>3, ProcessBlock
<1>5. /\ C = Union(chain) /\ C \in SUBSET Txid /\ Closed(C) /\ NoConflicts(C)
      /\ Seen \subseteq C /\ Stored(Seen) \subseteq Stored(C) /\ SpentBy(Seen) \subseteq SpentBy(C)
  BY ConfirmedFacts
<1>6. /\ Append(chain, B) \in Seq(SUBSET Txid)
      /\ Union(Append(chain, B)) = C \cup B
      /\ ChainOrdered(Append(chain, B))
  <2>1. Sorted(B) # {} /\ ChainOrdered(chain)
    BY <1>2 DEF BchInv
  <2>. HIDE DEF C
  <2>. QED
    BY <1>1, <1>3, <1>5, <2>1, ChainAppend
<1>7. confirmed' = C \cup B /\ Seen' = Seen \cup B
  <2>1. confirmed' = C \cup B
    BY <1>1, <1>6 DEF confirmed, Union
  <2>. QED
    BY <1>1, <1>3, <2>1 DEF Seen
<1>8. NoConflicts(C \cup B)
  <2>1. \A t, u : Conflict(t, u) => Conflict(u, t)
    BY DEF Conflict
  <2>. QED
    BY <1>1, <1>5, <2>1 DEF NoConflicts
<1>9. /\ SpentBy(C) \cap Stored(B) = {} /\ SpentBy(C) \cap SpentBy(B) = {}
      /\ Stored(C) \cap Stored(B) = {}
      /\ Stored(C \cup B) = Stored(C) \cup Stored(B)
      /\ SpentBy(C \cup B) = SpentBy(C) \cup SpentBy(B)
      /\ Stored(Txid) \cap SpentBy(B) \subseteq Stored(C) \cup Stored(B)
      /\ Stored(C) \subseteq Stored(Txid) /\ Stored(B) \subseteq Stored(Txid)
  <2>1. C \cap B = {} /\ \A t \in B : Parents(t) \subseteq C \cup B
    BY <1>1
  <2>. HIDE DEF C
  <2>. QED
    BY <1>5, <1>8, <2>1, OnTop
<1>10. /\ bch.scriptpubkey_to_output = Unspent(Seen)
       /\ bch.scriptpubkey_to_output \subseteq bch.outpoint_map
       /\ bch.outpoint_map \ bch.scriptpubkey_to_output \subseteq Stored(undone)
       /\ bch.outpoint_map \cap SpentBy(Seen) = {}
  BY <1>1 DEF BchInv, UtxosAreExact
<1>11. /\ bch.mempool_scriptpubkey_to_output \subseteq bch.mempool_outpoint_map
       /\ bch.mempool_outpoint_map \subseteq Stored(relayed)
       /\ bch.mempool_outpoint_map \cap Stored(Seen) = {}
       /\ bch.mempool_spent_confirmed_outpoints \subseteq SpentBy(relayed)
  BY DEF BchInv, MempoolIsBounded
<1>12. Stored(relayed) \subseteq Stored(Txid) /\ Stored(undone) \subseteq Stored(Txid)
  BY <1>3, SetsOfUnion DEF BchInv, BchTypeOK
<1>. HIDE DEF C, F
<1>13. BchTypeOK'
  <2>1. applied' \in Seq(Call)
    <3>1. call \in Call
      BY DEF Call
    <3>. QED
      BY <1>1, <1>3, <3>1, PushOf
  <2>2. unseen' \subseteq confirmed'
    BY <1>1, <1>3, <1>7
  <2>3. /\ undone' \subseteq Txid /\ relayed' \subseteq Txid /\ half' \in BOOLEAN /\ rollbacks' \in Nat
        /\ restarts' \in 0..MaxRestarts /\ missed' \in Nat /\ early' \subseteq Outpoint
    BY <1>1 DEF BchInv, BchTypeOK
  <2>4. chain' \in Seq(SUBSET Txid)
    BY <1>1, <1>6
  <2>. QED
    BY <1>4, <2>1, <2>2, <2>3, <2>4 DEF BchTypeOK, QueuesBounded, Call
<1>14. ChainOrdered(chain)'
  BY <1>1, <1>6
<1>15. CallsArePlaced'
  <2>1. call \in Call /\ ~call.again /\ call.txs = B
    BY DEF Call
  <2>2. /\ Len(Append(chain, B)) = Len(chain) + 1
        /\ \A h \in 1..Len(chain) : Append(chain, B)[h] = chain[h]
        /\ Append(chain, B) # <<>> /\ Append(chain, B)[Len(chain) + 1] = B
    BY <1>3, AppendProperties
  <2>3. PICK pos : Placed(pos, applied, chain)
    BY DEF BchInv, CallsArePlaced
  <2>. HIDE DEF call
  <2>4. \E pos2 : Placed(pos2, push(applied, call), Append(chain, B))
    <3>. DEFINE ch2 == Append(chain, B)
    <3>1. /\ ch2 \in Seq(SUBSET Txid) /\ ch2 # <<>> /\ ch2[Len(ch2)] = call.txs
          /\ Len(ch2) = IF call.again THEN Len(chain) ELSE Len(chain) + 1
          /\ \A h \in 1..Len(chain) : ch2[h] = chain[h]
      BY <1>6, <2>1, <2>2
    <3>. HIDE DEF ch2
    <3>2. \E pos2 : Placed(pos2, push(applied, call), ch2)
      BY <1>3, <2>1, <2>3, <3>1, PlacedPush
    <3>. QED
      BY <3>2 DEF ch2
  <2>5. \A i \in 1..Len(push(applied, call)) : push(applied, call)[i].txs \cap F = {}
    <3>1. \A i \in 1..Len(applied) : applied[i].txs \cap F = {}
      BY DEF BchInv, CallsArePlaced, F
    <3>2. call.txs \cap F = {}
      BY <1>1, <1>3, <2>1
    <3>. QED
      BY <1>3, <2>1, <3>1, <3>2, CallsOfPush
  <2>. QED
    BY <1>1, <2>4, <2>5 DEF CallsArePlaced
<1>16. LivesApart'
  <2>1. LivesApart
    BY DEF BchInv
  <2>. QED
    BY <1>1, <2>1 DEF LivesApart, F
<1>17. QueuesMatch'
  <2>. SUFFICES ASSUME restarts = 0, F = {}
                PROVE  Matches(applied, bch.last_block_added, bch.last_block_removed)'
    BY <1>1 DEF QueuesMatch
  <2>1. Matches(applied, bch.last_block_added, bch.last_block_removed)
    BY DEF BchInv, QueuesMatch, F
  <2>3. Seen = C
    BY DEF Seen, C, F
  <2>. DEFINE taken == (SpentBy(B) \cap (bch.outpoint_map \cup Stored(B)))
                           \cup (SpentBy(B) \cap (bch.mempool_outpoint_map \ Stored(B)))
  <2>4. bch.scriptpubkey_to_output = Stored(C) \ SpentBy(C)
    BY <1>10, <2>3 DEF Unspent
  <2>5. bch.outpoint_map \subseteq Stored(Txid) /\ bch.mempool_outpoint_map \subseteq Stored(Txid)
    BY <1>9, <1>10, <1>11, <1>12, <2>4
  <2>6. taken = SpentBy(B) \cap Stored(Txid)
    BY <1>9, <1>10, <2>4, <2>5
  <2>7. call \in Call /\ call.txs = B /\ ~call.again
    BY DEF Call
  <2>. HIDE DEF call
  <2>8. taken = TakenBy(call)
    BY <2>6, <2>7 DEF TakenBy
  <2>9. /\ bch'.last_block_added = push(bch.last_block_added, Stored(call.txs))
        /\ bch'.last_block_removed = push(bch.last_block_removed, taken)
    BY <1>4, <2>7 DEF Applies
  <2>10. bch.last_block_added \in Seq(SUBSET Outpoint) /\ bch.last_block_removed \in Seq(SUBSET Outpoint)
    BY <1>3 DEF BchState
  <2>11. Matches(push(applied, call), push(bch.last_block_added, Stored(call.txs)),
                push(bch.last_block_removed, TakenBy(call)))
    BY <1>3, <2>1, <2>7, <2>10, MatchesPush
  <2>. HIDE DEF taken
  <2>. QED
    BY <1>1, <2>8, <2>9, <2>11
<1>18. UtxosAreExact'
  <2>1. SpentBy(Seen) \cap Stored(B) \subseteq SpentBy(B)
    BY <1>5, <1>9
  <2>2. /\ bch'.scriptpubkey_to_output = Unspent(Seen \cup B)
        /\ bch'.scriptpubkey_to_output \subseteq bch'.outpoint_map
        /\ bch'.outpoint_map \ bch'.scriptpubkey_to_output \subseteq
              bch.outpoint_map \ bch.scriptpubkey_to_output
        /\ bch'.outpoint_map \cap SpentBy(Seen \cup B) = {}
    BY <1>4, <1>10, <2>1, ApplyExact
  <2>. QED
    BY <1>1, <1>7, <1>10, <2>2 DEF UtxosAreExact
<1>19. /\ bch'.mempool_scriptpubkey_to_output =
             (bch.mempool_scriptpubkey_to_output \ Stored(B)) \ SpentBy(B)
       /\ bch'.mempool_outpoint_map = (bch.mempool_outpoint_map \ Stored(B)) \ SpentBy(B)
       /\ bch'.mempool_spent_confirmed_outpoints \subseteq bch.mempool_spent_confirmed_outpoints
       /\ bch.mempool_spent_confirmed_outpoints \subseteq
             bch'.mempool_spent_confirmed_outpoints \cup Stored(B) \cup SpentBy(B)
  BY <1>4, <1>11, ApplyMempool
<1>20. MempoolIsBounded'
  <2>1. Stored(Seen \cup B) = Stored(Seen) \cup Stored(B)
    BY SetsOfUnion
  <2>. QED
    BY <1>1, <1>7, <1>9, <1>11, <1>19, <2>1 DEF MempoolIsBounded
<1>21. MempoolIsComplete'
  <2>. SUFFICES ASSUME undone = {}
                PROVE  /\ \A o \in SpentBy(relayed) : o.txid \in Told' \/ o \in early
                       /\ Stored(relayed \ (Seen \cup B)) \ SpentBy(Told')
                             \subseteq bch'.mempool_scriptpubkey_to_output
                       /\ SpentBy(relayed \ (Seen \cup B)) \subseteq
                             bch'.mempool_spent_confirmed_outpoints \cup Stored(relayed)
                                 \cup SpentBy(Seen \cup B) \cup early
    BY <1>1, <1>7 DEF MempoolIsComplete
  <2>1. /\ \A o \in SpentBy(relayed) : o.txid \in Told \/ o \in early
        /\ Stored(relayed \ Seen) \ SpentBy(Told) \subseteq bch.mempool_scriptpubkey_to_output
        /\ SpentBy(relayed \ Seen) \subseteq
              bch.mempool_spent_confirmed_outpoints \cup Stored(relayed) \cup SpentBy(Seen) \cup early
    BY DEF BchInv, MempoolIsComplete
  <2>2. Told' = Told \cup B /\ Told = Seen \cup relayed
    BY <1>1, <1>7 DEF Told
  <2>3. SpentBy(Told') = SpentBy(Told) \cup SpentBy(B) /\ SpentBy(Seen \cup B) = SpentBy(Seen) \cup SpentBy(B)
    BY <2>2, SetsOfUnion
  <2>. DEFINE T == relayed \ Seen
              U == relayed \ (Seen \cup B)
  <2>4. T \in SUBSET Txid /\ U \in SUBSET Txid /\ U \subseteq T /\ U \cap B = {} /\ U \subseteq relayed
    BY <1>3
  <2>. HIDE DEF T, U
  <2>5. /\ \A o : o \in Stored(U) <=> o \in Stored(Txid) /\ o.txid \in U
        /\ \A o : o \in Stored(B) <=> o \in Stored(Txid) /\ o.txid \in B
        /\ \A o : o \in Stored(relayed) <=> o \in Stored(Txid) /\ o.txid \in relayed
    BY <1>3, <2>4, StoredOf
  <2>6. /\ Stored(U) \subseteq Stored(T) /\ SpentBy(U) \subseteq SpentBy(T)
        /\ SpentBy(U) \subseteq SpentBy(relayed)
    BY <2>4, SetsOfUnion
  <2>7. Stored(U) \cap Stored(B) = {}
    BY <2>4, <2>5
  <2>8. Stored(U) \ SpentBy(Told') \subseteq bch'.mempool_scriptpubkey_to_output
    BY <1>19, <2>1, <2>3, <2>6, <2>7 DEF T
  <2>9. SpentBy(U) \cap Stored(B) \subseteq Stored(relayed) \cup early
    <3>1. ASSUME NEW o \in SpentBy(U), o \in Stored(B), o \notin early PROVE o \in Stored(relayed)
      <4>1. o.txid \in Told /\ o.txid \in B
        BY <2>1, <2>5, <2>6, <3>1
      <4>2. o.txid \in relayed
        BY <1>1, <1>5, <2>2, <4>1
      <4>. QED
        BY <2>5, <3>1, <4>2
    <3>. QED
      BY <3>1
  <2>10. SpentBy(U) \subseteq bch'.mempool_spent_confirmed_outpoints \cup Stored(relayed)
                                 \cup SpentBy(Seen \cup B) \cup early
    BY <1>19, <2>1, <2>3, <2>6, <2>9 DEF T
  <2>. QED
    BY <2>1, <2>2, <2>8, <2>10 DEF U
<1>. QED
  BY <1>13, <1>14, <1>15, <1>16, <1>17, <1>18, <1>20, <1>21 DEF BchInv
\* The block of the last call is the last of the chain.
LEMMA LastCall ==
    ASSUME BchInv, applied # <<>>
    PROVE  /\ chain # <<>> /\ Last(applied) \in Call /\ Last(applied).txs = Last(chain)
           /\ Last(applied).txs \cap unseen = {}
<1>1. applied \in Seq(Call) /\ chain \in Seq(SUBSET Txid)
  BY DEF BchInv, BchTypeOK, Call
<1>2. /\ Last(applied) \in Call /\ Last(applied) = applied[Len(applied)]
      /\ Len(applied) \in Nat \ {0}
  BY <1>1, FrontOf
<1>. DEFINE n == Len(applied)
<1>3. n \in 1..n
  BY <1>2
<1>4. PICK pos : Placed(pos, applied, chain)
  BY DEF BchInv, CallsArePlaced
<1>5. pos[n] \in 1..Len(chain) /\ applied[n].txs = chain[pos[n]] /\ pos[n] = Len(chain)
  BY <1>3, <1>4 DEF Placed
<1>6. chain # <<>>
  BY <1>1, <1>5, EmptySeq
<1>7. applied[n].txs \cap unseen = {}
  BY <1>3 DEF BchInv, CallsArePlaced
<1>. QED
  BY <1>2, <1>5, <1>6, <1>7 DEF Last

\* The last block and what is below it.
LEMMA BelowLast ==
    ASSUME BchInv, chain # <<>>
    PROVE  LET C == Union(Front(chain))
               B == Last(chain)
           IN  /\ C \in SUBSET Txid /\ B \in SUBSET Txid /\ B # {} /\ Sorted(B) # {}
               /\ confirmed = C \cup B /\ C \cap B = {} /\ confirmed \ B = C
               /\ SpentBy(C) \cap Stored(B) = {} /\ SpentBy(C) \cap SpentBy(B) = {}
               /\ Stored(C) \cap Stored(B) = {}
               /\ Stored(C \cup B) = Stored(C) \cup Stored(B)
               /\ SpentBy(C \cup B) = SpentBy(C) \cup SpentBy(B)
               /\ Stored(Txid) \cap SpentBy(B) \subseteq Stored(C) \cup Stored(B)
               /\ Stored(C) \subseteq Stored(Txid) /\ Stored(B) \subseteq Stored(Txid)
<1>. DEFINE C == Union(Front(chain))
            B == Last(chain)
<1>1. chain \in Seq(SUBSET Txid) /\ ChainOrdered(chain)
  BY DEF BchInv, BchTypeOK
<1>2. confirmed = Union(chain) /\ Closed(confirmed) /\ NoConflicts(confirmed)
  BY ConfirmedFacts
<1>3. /\ Front(chain) \in Seq(SUBSET Txid) /\ ChainOrdered(Front(chain))
      /\ Union(chain) = C \cup B /\ C \cap B = {} /\ B # {} /\ B \in SUBSET Txid /\ Sorted(B) # {}
  BY <1>1, ChainFront
<1>4. C \in SUBSET Txid /\ Closed(C)
  BY <1>3, UnionOf, ChainIsClosed
<1>. HIDE DEF C, B
<1>5. \A t \in B : Parents(t) \subseteq C \cup B
  BY <1>2, <1>3 DEF Closed
<1>6. NoConflicts(C \cup B)
  BY <1>2, <1>3
<1>7. confirmed = C \cup B /\ confirmed \ B = C
  BY <1>2, <1>3
<1>8. /\ SpentBy(C) \cap Stored(B) = {} /\ SpentBy(C) \cap SpentBy(B) = {}
      /\ Stored(C) \cap Stored(B) = {}
      /\ Stored(C \cup B) = Stored(C) \cup Stored(B)
      /\ SpentBy(C \cup B) = SpentBy(C) \cup SpentBy(B)
      /\ Stored(Txid) \cap SpentBy(B) \subseteq Stored(C) \cup Stored(B)
      /\ Stored(C) \subseteq Stored(Txid) /\ Stored(B) \subseteq Stored(Txid)
  BY <1>3, <1>4, <1>5, <1>6, OnTop
<1>. QED
  BY <1>3, <1>4, <1>7, <1>8 DEF C, B

\* process_block on the block applied last, as main() does at startup, keeps the
\* invariant.
LEMMA ConnectAgainStep ==
    ASSUME BchInv, ConnectAgain
    PROVE  BchInv'
<1>. DEFINE B == Last(chain)
            C == Union(Front(chain))
            call == [txs |-> Last(applied).txs, again |-> TRUE]
<1>1. /\ ~half /\ applied # <<>> /\ relayed = {}
      /\ applied' = push(applied, call)
      /\ chain' = chain /\ relayed' = relayed /\ half' = half /\ undone' = undone
      /\ rollbacks' = rollbacks /\ restarts' = restarts /\ unseen' = unseen
      /\ early' = early /\ missed' = missed
  BY DEF ConnectAgain, lifeVars
<1>2. chain # <<>> /\ Last(applied) \in Call /\ Last(applied).txs = B /\ B \cap unseen = {}
  BY <1>1, LastCall
<1>3. PICK txs \in Sorted(B) : bch' = process_block(bch, txs)
  BY <1>2 DEF ConnectAgain
<1>4. /\ bch \in BchState /\ chain \in Seq(SUBSET Txid) /\ applied \in Seq(Call)
      /\ QueuesBounded(bch)
  BY DEF BchInv, BchTypeOK, Call, QueuesBounded
<1>5. /\ C \in SUBSET Txid /\ B \in SUBSET Txid
      /\ confirmed = C \cup B /\ C \cap B = {}
      /\ SpentBy(C) \cap Stored(B) = {}
      /\ Stored(C \cup B) = Stored(C) \cup Stored(B)
      /\ SpentBy(C \cup B) = SpentBy(C) \cup SpentBy(B)
  BY <1>2, BelowLast
<1>6. bch' \in BchState /\ Applies(bch, bch', B) /\ QueuesBounded(bch')
  BY <1>3, <1>4, <1>5, ProcessBlock
<1>7. confirmed' = confirmed /\ Seen' = Seen
  BY <1>1 DEF confirmed, Seen
<1>8. call \in Call /\ call.again /\ call.txs = B
  BY <1>2, <1>5 DEF Call
<1>. HIDE DEF C, B, call
<1>9. /\ bch.scriptpubkey_to_output = Unspent(Seen)
      /\ bch.scriptpubkey_to_output \subseteq bch.outpoint_map
      /\ bch.outpoint_map \ bch.scriptpubkey_to_output \subseteq Stored(undone)
      /\ bch.outpoint_map \cap SpentBy(Seen) = {}
  BY <1>1 DEF BchInv, UtxosAreExact
<1>10. Stored(relayed) = {} /\ SpentBy(relayed) = {}
  BY <1>1, SetsOfUnion
<1>11. /\ bch.mempool_scriptpubkey_to_output \subseteq bch.mempool_outpoint_map
       /\ bch.mempool_outpoint_map = {}
       /\ bch.mempool_spent_confirmed_outpoints \subseteq SpentBy(relayed)
  BY <1>10 DEF BchInv, MempoolIsBounded
<1>12. B \subseteq Seen /\ SpentBy(B) \subseteq SpentBy(Seen)
  BY <1>2, <1>5, SetsOfUnion DEF Seen
<1>13. BchTypeOK'
  <2>1. applied' \in Seq(Call)
    BY <1>1, <1>4, <1>8, PushOf
  <2>2. /\ unseen' \subseteq confirmed' /\ chain' \in Seq(SUBSET Txid)
        /\ undone' \subseteq Txid /\ relayed' \subseteq Txid /\ half' \in BOOLEAN
        /\ rollbacks' \in Nat /\ restarts' \in 0..MaxRestarts
        /\ missed' \in Nat /\ early' \subseteq Outpoint
    BY <1>1, <1>7 DEF BchInv, BchTypeOK
  <2>. QED
    BY <1>6, <2>1, <2>2 DEF BchTypeOK, QueuesBounded, Call
<1>14. ChainOrdered(chain)'
  BY <1>1 DEF BchInv
<1>15. CallsArePlaced'
  <2>1. PICK pos : Placed(pos, applied, chain)
    BY DEF BchInv, CallsArePlaced
  <2>2. chain[Len(chain)] = call.txs
    BY <1>8 DEF B, Last
  <2>3. \E pos2 : Placed(pos2, push(applied, call), chain)
    BY <1>2, <1>4, <1>8, <2>1, <2>2, PlacedPush
  <2>4. \A i \in 1..Len(push(applied, call)) : push(applied, call)[i].txs \cap unseen = {}
    <3>1. \A i \in 1..Len(applied) : applied[i].txs \cap unseen = {}
      BY DEF BchInv, CallsArePlaced
    <3>. QED
      BY <1>2, <1>4, <1>8, <3>1, CallsOfPush
  <2>. QED
    BY <1>1, <2>3, <2>4 DEF CallsArePlaced
<1>16. LivesApart'
  <2>1. LivesApart
    BY DEF BchInv
  <2>. QED
    BY <1>1, <2>1 DEF LivesApart
<1>17. QueuesMatch'
  <2>. SUFFICES ASSUME restarts = 0, unseen = {}
                PROVE  Matches(applied, bch.last_block_added, bch.last_block_removed)'
    BY <1>1 DEF QueuesMatch
  <2>1. Matches(applied, bch.last_block_added, bch.last_block_removed)
    BY DEF BchInv, QueuesMatch
  <2>. DEFINE taken == (SpentBy(B) \cap (bch.outpoint_map \cup Stored(B)))
                           \cup (SpentBy(B) \cap (bch.mempool_outpoint_map \ Stored(B)))
  <2>2. taken = SpentBy(B) \cap Stored(B)
    BY <1>9, <1>11, <1>12
  <2>3. taken = TakenBy(call)
    BY <1>8, <2>2 DEF TakenBy
  <2>4. /\ bch'.last_block_added = push(bch.last_block_added, Stored(call.txs))
        /\ bch'.last_block_removed = push(bch.last_block_removed, taken)
    BY <1>6, <1>8 DEF Applies
  <2>5. bch.last_block_added \in Seq(SUBSET Outpoint) /\ bch.last_block_removed \in Seq(SUBSET Outpoint)
    BY <1>4 DEF BchState
  <2>6. Matches(push(applied, call), push(bch.last_block_added, Stored(call.txs)),
                push(bch.last_block_removed, TakenBy(call)))
    BY <1>4, <1>8, <2>1, <2>5, MatchesPush
  <2>. HIDE DEF taken
  <2>. QED
    BY <1>1, <2>3, <2>4, <2>6
<1>18. UtxosAreExact'
  <2>1. SpentBy(Seen) \subseteq SpentBy(C) \cup SpentBy(B)
    <3>1. Seen \subseteq C \cup B
      BY <1>5 DEF Seen
    <3>. QED
      BY <1>5, <3>1, SetsOfUnion
  <2>2. SpentBy(Seen) \cap Stored(B) \subseteq SpentBy(B)
    BY <1>5, <2>1
  <2>3. Seen \cup B = Seen
    BY <1>12
  <2>4. /\ bch'.scriptpubkey_to_output = Unspent(Seen \cup B)
        /\ bch'.scriptpubkey_to_output \subseteq bch'.outpoint_map
        /\ bch'.outpoint_map \ bch'.scriptpubkey_to_output \subseteq
              bch.outpoint_map \ bch.scriptpubkey_to_output
        /\ bch'.outpoint_map \cap SpentBy(Seen \cup B) = {}
    BY <1>6, <1>9, <2>2, ApplyExact
  <2>. QED
    BY <1>1, <1>7, <1>9, <2>3, <2>4 DEF UtxosAreExact
<1>19. /\ bch'.mempool_scriptpubkey_to_output = {} /\ bch'.mempool_outpoint_map = {}
       /\ bch'.mempool_spent_confirmed_outpoints = {}
  BY <1>6, <1>10, <1>11, ApplyMempool
<1>20. MempoolIsBounded'
  BY <1>19 DEF MempoolIsBounded
<1>21. MempoolIsComplete'
  <2>1. relayed' = {} /\ relayed' \ Seen' = {}
    BY <1>1
  <2>. QED
    BY <2>1, SetsOfUnion DEF MempoolIsComplete
<1>. QED
  BY <1>13, <1>14, <1>15, <1>16, <1>17, <1>18, <1>20, <1>21 DEF BchInv

\* One transaction or a listing from the mempool.
LEMMA RelayStep ==
    ASSUME BchInv, NEW T \in SUBSET Txid, T \cap Seen = {}, early' = early \cup Early(T),
           bch' \in BchState, Relays(bch, bch', T), relayed' = relayed \cup T,
           UNCHANGED <<chain, applied, half, undone, rollbacks, lifeVars>>
    PROVE  BchInv'
<1>1. /\ chain' = chain /\ applied' = applied /\ half' = half /\ undone' = undone
      /\ rollbacks' = rollbacks /\ restarts' = restarts /\ unseen' = unseen /\ missed' = missed
  BY DEF lifeVars
<1>2. confirmed' = confirmed /\ Seen' = Seen /\ Told' = Told \cup T
  BY <1>1 DEF confirmed, Seen, Told
<1>3. relayed \subseteq Txid /\ Seen \in SUBSET Txid
  BY ConfirmedFacts DEF BchInv, BchTypeOK
<1>4. /\ bch'.outpoint_map = bch.outpoint_map
      /\ bch'.scriptpubkey_to_output = bch.scriptpubkey_to_output
      /\ bch'.last_block_removed = bch.last_block_removed
      /\ bch'.last_block_added = bch.last_block_added
      /\ bch'.mempool_outpoint_map = bch.mempool_outpoint_map \cup Stored(T)
      /\ bch'.mempool_scriptpubkey_to_output \subseteq bch.mempool_scriptpubkey_to_output \cup Stored(T)
      /\ (bch.mempool_scriptpubkey_to_output \cup Stored(T)) \ SpentBy(T)
            \subseteq bch'.mempool_scriptpubkey_to_output
      /\ bch.mempool_spent_confirmed_outpoints \subseteq bch'.mempool_spent_confirmed_outpoints
      /\ bch'.mempool_spent_confirmed_outpoints \subseteq
            bch.mempool_spent_confirmed_outpoints \cup SpentBy(T)
      /\ SpentBy(T) \subseteq bch'.mempool_spent_confirmed_outpoints \cup bch'.mempool_outpoint_map
  BY DEF Relays
<1>5. /\ Stored(relayed \cup T) = Stored(relayed) \cup Stored(T)
      /\ SpentBy(relayed \cup T) = SpentBy(relayed) \cup SpentBy(T)
      /\ SpentBy(Told \cup T) = SpentBy(Told) \cup SpentBy(T)
  BY SetsOfUnion
<1>6. BchTypeOK'
  <2>1. relayed' \subseteq Txid /\ early' \subseteq Outpoint
    BY <1>3, SpentByOf DEF BchInv, BchTypeOK, Early
  <2>. QED
    BY <1>1, <1>2, <1>4, <2>1 DEF BchInv, BchTypeOK
<1>7. ChainOrdered(chain)' /\ CallsArePlaced' /\ LivesApart'
  BY <1>1 DEF BchInv, CallsArePlaced, LivesApart
<1>8. QueuesMatch'
  BY <1>1, <1>4 DEF BchInv, QueuesMatch
<1>9. UtxosAreExact'
  <2>1. UtxosAreExact
    BY DEF BchInv
  <2>2. CASE half
    BY <1>1, <1>2, <1>4, <2>1, <2>2 DEF UtxosAreExact
  <2>3. CASE ~half
    BY <1>1, <1>2, <1>4, <2>1, <2>3 DEF UtxosAreExact
  <2>. QED
    BY <2>2, <2>3
<1>10. MempoolIsBounded'
  <2>1. Stored(T) \cap Stored(Seen) = {}
    <3>1. /\ \A o : o \in Stored(T) => o.txid \in T
          /\ \A o : o \in Stored(Seen) => o.txid \in Seen
      BY <1>3, StoredOf
    <3>. QED
      BY <3>1
  <2>2. MempoolIsBounded
    BY DEF BchInv
  <2>. QED
    BY <1>2, <1>4, <1>5, <2>1, <2>2 DEF MempoolIsBounded
<1>11. MempoolIsComplete'
  <2>. DEFINE U == relayed \ Seen
              E == early \cup Early(T)
  <2>. SUFFICES ASSUME undone = {}
                PROVE  /\ \A o \in SpentBy(relayed \cup T) : o.txid \in Told \cup T \/ o \in E
                       /\ Stored((relayed \cup T) \ Seen) \ SpentBy(Told \cup T)
                             \subseteq bch'.mempool_scriptpubkey_to_output
                       /\ SpentBy((relayed \cup T) \ Seen) \subseteq
                             bch'.mempool_spent_confirmed_outpoints \cup Stored(relayed \cup T)
                                 \cup SpentBy(Seen) \cup E
    BY <1>1, <1>2 DEF MempoolIsComplete
  <2>1. /\ \A o \in SpentBy(relayed) : o.txid \in Told \/ o \in early
        /\ Stored(U) \ SpentBy(Told) \subseteq bch.mempool_scriptpubkey_to_output
        /\ SpentBy(U) \subseteq
              bch.mempool_spent_confirmed_outpoints \cup Stored(relayed) \cup SpentBy(Seen) \cup early
    BY DEF BchInv, MempoolIsComplete
  <2>2. (relayed \cup T) \ Seen = U \cup T
    OBVIOUS
  <2>3. \A o \in SpentBy(T) : o.txid \in Told \cup T \/ o \in E
    BY DEF Early
  <2>. HIDE DEF U, E
  <2>4. Stored(U \cup T) = Stored(U) \cup Stored(T) /\ SpentBy(U \cup T) = SpentBy(U) \cup SpentBy(T)
    BY SetsOfUnion
  <2>5. bch.mempool_outpoint_map \subseteq Stored(relayed) /\ early \subseteq E
    BY DEF BchInv, MempoolIsBounded, E
  <2>6. \A o \in SpentBy(relayed \cup T) : o.txid \in Told \cup T \/ o \in E
    BY <1>5, <2>1, <2>3, <2>5
  <2>7. Stored(U \cup T) \ SpentBy(Told \cup T) \subseteq bch'.mempool_scriptpubkey_to_output
    BY <1>4, <1>5, <2>1, <2>4
  <2>8. SpentBy(U \cup T) \subseteq bch'.mempool_spent_confirmed_outpoints
                                       \cup Stored(relayed \cup T) \cup SpentBy(Seen) \cup E
    BY <1>4, <1>5, <2>1, <2>4, <2>5
  <2>. QED
    BY <2>2, <2>6, <2>7, <2>8
<1>. QED
  BY <1>6, <1>7, <1>8, <1>9, <1>10, <1>11 DEF BchInv

\* process_mempool_tx on an announced transaction keeps the invariant.
LEMMA RelayTxStep ==
    ASSUME BchInv, NEW t \in Txid, RelayTx(t)
    PROVE  BchInv'
<1>1. /\ {t} \in SUBSET Txid /\ {t} \cap Seen = {}
      /\ relayed' = relayed \cup {t} /\ early' = early \cup Early({t})
      /\ UNCHANGED <<chain, applied, half, undone, rollbacks, lifeVars>>
  BY DEF RelayTx, Announced
<1>2. bch' \in BchState /\ Relays(bch, bch', {t})
  BY ProcessMempoolTx DEF RelayTx, BchInv, BchTypeOK
<1>. QED
  BY <1>1, <1>2, RelayStep

\* A mempool listing handed on token by token keeps the invariant.
LEMMA ListMempoolStep ==
    ASSUME BchInv, NEW T \in SUBSET Txid, ListMempool(T)
    PROVE  BchInv'
<1>1. /\ T \cap Seen = {}
      /\ relayed' = relayed \cup T /\ early' = early \cup Early(T)
      /\ UNCHANGED <<chain, applied, half, undone, rollbacks, lifeVars>>
  BY DEF ListMempool, Announced
<1>2. PICK txs \in SetToSeqs(T) : bch' = FoldLeft(process_mempool_tx, bch, txs)
  BY DEF ListMempool
<1>3. bch \in BchState
  BY DEF BchInv, BchTypeOK
<1>4. bch' \in BchState /\ Relays(bch, bch', T)
  BY <1>2, <1>3, RelayAll
<1>. QED
  BY <1>1, <1>4, RelayStep

\* A block that never arrives leaves bch as it is and its transactions unseen.
LEMMA MissBlockStep ==
    ASSUME BchInv, NEW B \in SUBSET Txid, MissBlock(B)
    PROVE  BchInv'
<1>1. /\ undone = {} /\ B # {} /\ B \cap confirmed = {} /\ Sorted(B) # {}
      /\ \A t \in B : Parents(t) \subseteq B \cup confirmed
      /\ \A t \in B, u \in B \cup confirmed : ~Conflict(t, u)
      /\ chain' = Append(chain, B) /\ missed' = missed + 1 /\ unseen' = unseen \cup B
      /\ applied' = <<>> /\ bch' = bch /\ relayed' = relayed /\ early' = early
      /\ half' = half /\ undone' = undone /\ rollbacks' = rollbacks /\ restarts' = restarts
  BY DEF MissBlock, Minable
<1>2. /\ chain \in Seq(SUBSET Txid) /\ ChainOrdered(chain) /\ unseen \subseteq confirmed
      /\ missed \in Nat /\ (undone = {} => ~half)
  BY DEF BchInv, BchTypeOK, LivesApart
<1>3. confirmed = Union(chain)
  BY ConfirmedFacts
<1>4. /\ chain' \in Seq(SUBSET Txid) /\ Union(chain') = confirmed \cup B
      /\ ChainOrdered(chain')
  BY <1>1, <1>2, <1>3, ChainAppend
<1>5. confirmed' = confirmed \cup B /\ Seen' = Seen /\ Told' = Told
  <2>1. confirmed' = confirmed \cup B
    BY <1>4 DEF confirmed, Union
  <2>2. Seen' = Seen
    BY <1>1, <1>2, <2>1 DEF Seen
  <2>. QED
    BY <1>1, <2>1, <2>2 DEF Told
<1>6. BchTypeOK'
  <2>1. missed' \in Nat /\ unseen' \subseteq confirmed' /\ applied' \in Seq([txs : SUBSET Txid, again : BOOLEAN])
    BY <1>1, <1>2, <1>5, EmptySeq
  <2>. QED
    BY <1>1, <1>4, <2>1 DEF BchInv, BchTypeOK
<1>7. CallsArePlaced'
  <2>1. Len(applied') = 0
    BY <1>1
  <2>2. Placed([i \in {} |-> i], applied', chain')
    BY <1>1, <2>1 DEF Placed
  <2>. QED
    BY <2>1, <2>2 DEF CallsArePlaced
<1>8. LivesApart' /\ QueuesMatch'
  BY <1>1, <1>2 DEF LivesApart, QueuesMatch
<1>9. UtxosAreExact' /\ MempoolIsBounded' /\ MempoolIsComplete'
  BY <1>1, <1>2, <1>5 DEF BchInv, UtxosAreExact, MempoolIsBounded, MempoolIsComplete
<1>. QED
  BY <1>4, <1>6, <1>7, <1>8, <1>9 DEF BchInv

\* utxodb::rollback, when the queues are not empty.
LEMMA RollbackOf ==
    ASSUME NEW b \in BchState, b.last_block_added # <<>>, b.last_block_removed # <<>>
    PROVE  LET b2 == rollback(b)
               added == Last(b.last_block_added)
               removed == Last(b.last_block_removed)
           IN  /\ b2 \in BchState
               /\ b2.outpoint_map = b.outpoint_map \cup removed
               /\ b2.scriptpubkey_to_output =
                     (b.scriptpubkey_to_output \cup removed) \ (added \cap (b.outpoint_map \cup removed))
               /\ b2.last_block_added = Front(b.last_block_added)
               /\ b2.last_block_removed = Front(b.last_block_removed)
               /\ b2.mempool_outpoint_map = b.mempool_outpoint_map
               /\ b2.mempool_scriptpubkey_to_output = b.mempool_scriptpubkey_to_output
               /\ b2.mempool_spent_confirmed_outpoints = b.mempool_spent_confirmed_outpoints
<1>. DEFINE b2 == rollback(b)
            added == Last(b.last_block_added)
            removed == Last(b.last_block_removed)
            outs == b.outpoint_map \cup removed
            scripts == (b.scriptpubkey_to_output \cup removed) \ (added \cap outs)
            fa == Front(b.last_block_added)
            fr == Front(b.last_block_removed)
            c1 == [b EXCEPT !.outpoint_map = outs]
            c2 == [c1 EXCEPT !.scriptpubkey_to_output = scripts]
            c3 == [c2 EXCEPT !.last_block_removed = fr]
            c4 == [c3 EXCEPT !.last_block_added = fa]
<1>1. /\ b.outpoint_map \subseteq Outpoint /\ b.scriptpubkey_to_output \subseteq Outpoint
      /\ b.last_block_removed \in Seq(SUBSET Outpoint)
      /\ b.last_block_added \in Seq(SUBSET Outpoint)
  BY DEF BchState
<1>2. added \in SUBSET Outpoint /\ fa \in Seq(SUBSET Outpoint)
  BY <1>1, FrontOf
<1>3. removed \in SUBSET Outpoint /\ fr \in Seq(SUBSET Outpoint)
  BY <1>1, FrontOf
<1>4. b2 = [b EXCEPT !.outpoint_map = outs, !.scriptpubkey_to_output = scripts,
                     !.last_block_removed = fr, !.last_block_added = fa]
  BY DEF rollback
<1>. HIDE DEF b2, added, removed, fa, fr
<1>5. outs \in SUBSET Outpoint /\ scripts \in SUBSET Outpoint
  BY <1>1, <1>2, <1>3
<1>. HIDE DEF outs, scripts
<1>6. b2 = c4
  BY <1>4 DEF BchState
<1>7. c1 \in BchState
  BY <1>5 DEF BchState
<1>8. c2 \in BchState
  <2>. HIDE DEF c1
  <2>. QED
    BY <1>5, <1>7 DEF BchState
<1>9. c3 \in BchState
  <2>. HIDE DEF c2
  <2>. QED
    BY <1>3, <1>8 DEF BchState
<1>10. c4 \in BchState
  <2>. HIDE DEF c3
  <2>. QED
    BY <1>2, <1>9 DEF BchState
<1>11. /\ c4.outpoint_map = outs /\ c4.scriptpubkey_to_output = scripts
       /\ c4.last_block_added = fa /\ c4.last_block_removed = fr
       /\ c4.mempool_outpoint_map = b.mempool_outpoint_map
       /\ c4.mempool_scriptpubkey_to_output = b.mempool_scriptpubkey_to_output
       /\ c4.mempool_spent_confirmed_outpoints = b.mempool_spent_confirmed_outpoints
  BY DEF BchState
<1>. QED
  BY <1>6, <1>10, <1>11 DEF b2, outs, scripts, fa, fr, added, removed

\* utxodb::rollback keeps the invariant, for a block applied once and for each half
\* of a block applied twice.
LEMMA RollbackStep ==
    ASSUME BchInv, Rollback
    PROVE  BchInv'
<1>1. /\ restarts = 0 /\ unseen = {} /\ bch' = rollback(bch)
      /\ rollbacks' = IF applied = <<>> THEN rollbacks ELSE rollbacks + 1
      /\ relayed' = relayed /\ restarts' = restarts /\ unseen' = unseen
      /\ early' = early /\ missed' = missed
  BY DEF Rollback, lifeVars
<1>2. /\ bch \in BchState /\ chain \in Seq(SUBSET Txid) /\ applied \in Seq(Call)
      /\ undone \subseteq Txid /\ rollbacks \in Nat /\ half \in BOOLEAN
      /\ QueuesBounded(bch)
  BY DEF BchInv, BchTypeOK, Call, QueuesBounded
<1>3. bch.last_block_added \in Seq(SUBSET Outpoint) /\ bch.last_block_removed \in Seq(SUBSET Outpoint)
  BY <1>2 DEF BchState
<1>4. unseen = {} /\ Matches(applied, bch.last_block_added, bch.last_block_removed)
  BY <1>1 DEF BchInv, QueuesMatch
<1>5. Seen = confirmed
  BY <1>4 DEF Seen
<1>6. CASE applied = <<>>
  <2>1. chain' = chain /\ applied' = applied /\ half' = half /\ undone' = undone
    BY <1>6 DEF Rollback
  <2>2. bch.last_block_added = <<>>
    <3>1. Len(bch.last_block_added) = 0
      BY <1>2, <1>4, <1>6, EmptySeq DEF Matches
    <3>. QED
      BY <1>3, <3>1, EmptySeq
  <2>3. bch' = bch
    BY <1>1, <2>2 DEF rollback
  <2>4. rollbacks' \in Nat
    BY <1>1, <1>2
  <2>. QED
    BY <1>1, <2>1, <2>3, <2>4 DEF BchInv, BchTypeOK, CallsArePlaced, LivesApart, QueuesMatch,
        UtxosAreExact, MempoolIsBounded, MempoolIsComplete, confirmed, Seen, Told
<1>7. CASE applied # <<>>
  <2>. DEFINE call == Last(applied)
              B == Last(chain)
              C == Union(Front(chain))
              R == TakenBy(call)
  <2>1. /\ applied' = Front(applied) /\ half' = call.again
        /\ chain' = IF call.again THEN chain ELSE Front(chain)
        /\ undone' = undone \cup call.txs
    BY <1>7 DEF Rollback
  <2>2. chain # <<>> /\ call \in Call /\ call.txs = B
    BY <1>7, LastCall
  <2>3. /\ C \in SUBSET Txid /\ B \in SUBSET Txid /\ B # {}
        /\ confirmed = C \cup B /\ C \cap B = {} /\ confirmed \ B = C
        /\ SpentBy(C) \cap Stored(B) = {} /\ SpentBy(C) \cap SpentBy(B) = {}
        /\ Stored(C) \cap Stored(B) = {}
        /\ Stored(C \cup B) = Stored(C) \cup Stored(B)
        /\ SpentBy(C \cup B) = SpentBy(C) \cup SpentBy(B)
        /\ Stored(Txid) \cap SpentBy(B) \subseteq Stored(C) \cup Stored(B)
        /\ Stored(C) \subseteq Stored(Txid) /\ Stored(B) \subseteq Stored(Txid)
    BY <2>2, BelowLast
  <2>4. /\ bch.last_block_added # <<>> /\ bch.last_block_removed # <<>>
        /\ Last(bch.last_block_added) = Stored(B) /\ Last(bch.last_block_removed) = R
        /\ Matches(Front(applied), Front(bch.last_block_added), Front(bch.last_block_removed))
    BY <1>2, <1>3, <1>4, <1>7, <2>2, MatchesFront
  <2>5. /\ bch' \in BchState
        /\ bch'.outpoint_map = bch.outpoint_map \cup R
        /\ bch'.scriptpubkey_to_output =
              (bch.scriptpubkey_to_output \cup R) \ (Stored(B) \cap (bch.outpoint_map \cup R))
        /\ bch'.last_block_added = Front(bch.last_block_added)
        /\ bch'.last_block_removed = Front(bch.last_block_removed)
        /\ bch'.mempool_outpoint_map = bch.mempool_outpoint_map
        /\ bch'.mempool_scriptpubkey_to_output = bch.mempool_scriptpubkey_to_output
        /\ bch'.mempool_spent_confirmed_outpoints = bch.mempool_spent_confirmed_outpoints
    <3>. HIDE DEF R, B
    <3>. QED
      BY <1>1, <1>2, <2>4, RollbackOf
  <2>6. call.again \in BOOLEAN
    BY <2>2 DEF Call
  <2>7. R = SpentBy(B) \cap Stored(IF call.again THEN B ELSE Txid)
    BY <2>2 DEF TakenBy
  <2>8. confirmed' = IF call.again THEN C \cup B ELSE C
    BY <2>1, <2>3, <2>6 DEF confirmed, Union
  <2>9. confirmed' \subseteq confirmed /\ Seen' = confirmed'
    BY <1>1, <1>4, <2>3, <2>6, <2>8 DEF Seen
  <2>10. Stored(confirmed') \subseteq Stored(confirmed)
    BY <2>9, SetsOfUnion
  <2>11. undone' # {} /\ undone' = undone \cup B /\ Stored(undone') = Stored(undone) \cup Stored(B)
    BY <2>1, <2>2, <2>3, SetsOfUnion
  <2>12. /\ bch.scriptpubkey_to_output \subseteq bch.outpoint_map
         /\ bch.outpoint_map \ bch.scriptpubkey_to_output \subseteq Stored(undone)
         /\ bch.outpoint_map \cap SpentBy(C) = {}
         /\ bch.scriptpubkey_to_output \ Stored(B) = (Stored(C) \ SpentBy(C)) \ SpentBy(B)
         /\ ~half => (Stored(B) \ SpentBy(B)) \subseteq bch.scriptpubkey_to_output
    <3>1. UtxosAreExact
      BY DEF BchInv
    <3>2. CASE half
      <4>1. /\ bch.scriptpubkey_to_output = Unspent(confirmed) \ Stored(B)
            /\ bch.outpoint_map \cap SpentBy(confirmed \ B) = {}
        BY <3>1, <3>2 DEF UtxosAreExact
      <4>. HIDE DEF B, C
      <4>2. Unspent(confirmed) = (Stored(C) \cup Stored(B)) \ (SpentBy(C) \cup SpentBy(B))
        BY <2>3 DEF Unspent
      <4>. QED
        BY <2>3, <3>1, <3>2, <4>1, <4>2 DEF UtxosAreExact
    <3>3. CASE ~half
      <4>1. /\ bch.scriptpubkey_to_output = Unspent(confirmed)
            /\ bch.outpoint_map \cap SpentBy(confirmed) = {}
        BY <1>5, <3>1, <3>3 DEF UtxosAreExact
      <4>. HIDE DEF B, C
      <4>2. Unspent(confirmed) = (Stored(C) \cup Stored(B)) \ (SpentBy(C) \cup SpentBy(B))
        BY <2>3 DEF Unspent
      <4>. QED
        BY <2>3, <3>1, <4>1, <4>2 DEF UtxosAreExact
    <3>. QED
      BY <3>2, <3>3
  <2>13. BchTypeOK'
    <3>1. applied' \in Seq(Call)
      BY <1>2, <1>7, <2>1, FrontOf
    <3>2. chain' \in Seq(SUBSET Txid)
      BY <1>2, <2>1, <2>2, <2>6, FrontOf
    <3>3. undone' \subseteq Txid
      BY <1>2, <2>3, <2>11
    <3>4. QueuesBounded(bch')
      <4>1. /\ Len(Front(bch.last_block_added)) = Len(bch.last_block_added) - 1
            /\ Len(bch.last_block_added) \in Nat
        BY <1>3, <2>4, FrontOf
      <4>2. Len(Front(bch.last_block_removed)) = Len(bch.last_block_removed) - 1
        BY <1>3, <2>4, FrontOf
      <4>3. RollbackDepth \in Nat
        BY BchAssumption
      <4>4. Len(bch'.last_block_added) = Len(bch'.last_block_removed)
        BY <1>2, <2>5, <4>1, <4>2 DEF QueuesBounded
      <4>5. Len(bch'.last_block_added) <= RollbackDepth
        BY <1>2, <2>5, <4>1, <4>3 DEF QueuesBounded
      <4>. QED
        BY <4>4, <4>5 DEF QueuesBounded
    <3>5. rollbacks' \in Nat /\ half' \in BOOLEAN
      BY <1>1, <1>2, <2>1, <2>6
    <3>6. /\ relayed' \subseteq Txid /\ restarts' \in 0..MaxRestarts /\ unseen' \subseteq confirmed'
          /\ missed' \in Nat /\ early' \subseteq Outpoint
      BY <1>1, <1>4 DEF BchInv, BchTypeOK
    <3>. QED
      BY <2>5, <3>1, <3>2, <3>3, <3>4, <3>5, <3>6 DEF BchTypeOK, QueuesBounded, Call
  <2>14. ChainOrdered(chain)'
    BY <1>2, <2>1, <2>2, <2>6, ChainFront DEF BchInv
  <2>15. CallsArePlaced'
    <3>1. PICK pos : Placed(pos, applied, chain)
      BY DEF BchInv, CallsArePlaced
    <3>2. Placed(pos, Front(applied), IF call.again THEN chain ELSE Front(chain))
      BY <1>2, <1>7, <2>2, <3>1, PlacedFront
    <3>3. \A i \in 1..Len(applied') : applied'[i].txs \cap unseen' = {}
      BY <1>1, <1>4
    <3>. QED
      BY <2>1, <3>2, <3>3 DEF CallsArePlaced
  <2>16. LivesApart'
    BY <1>1, <1>4, <2>1, <2>2, <2>11 DEF LivesApart
  <2>17. QueuesMatch'
    BY <2>1, <2>4, <2>5 DEF QueuesMatch
  <2>18. UtxosAreExact'
    <3>. HIDE DEF B, C, R
    <3>1. CASE call.again
      <4>1. half' /\ Last(chain') = B /\ confirmed' = C \cup B
        BY <2>1, <2>8, <3>1 DEF B
      <4>2. confirmed' \ Last(chain') = C
        BY <2>3, <4>1
      <4>3. Unspent(confirmed') = (Stored(C) \cup Stored(B)) \ (SpentBy(C) \cup SpentBy(B))
        BY <2>3, <4>1 DEF Unspent
      <4>4. R = SpentBy(B) \cap Stored(B)
        BY <2>7, <3>1
      <4>5. /\ bch'.scriptpubkey_to_output = Unspent(confirmed') \ Stored(B)
            /\ bch'.scriptpubkey_to_output \subseteq bch'.outpoint_map
            /\ bch'.outpoint_map \ bch'.scriptpubkey_to_output \subseteq Stored(undone')
            /\ bch'.outpoint_map \cap SpentBy(C) = {}
        BY <2>3, <2>5, <2>11, <2>12, <4>3, <4>4
      <4>. QED
        BY <4>1, <4>2, <4>5 DEF UtxosAreExact
    <3>2. CASE ~call.again
      <4>1. ~half' /\ confirmed' = C /\ Seen' = C
        BY <2>1, <2>8, <2>9, <3>2
      <4>2. R = SpentBy(B) \cap Stored(Txid)
        BY <2>7, <3>2
      <4>3. R \subseteq Stored(C) \cup Stored(B) /\ R \cap SpentBy(C) = {}
        BY <2>3, <4>2
      <4>4. SpentBy(B) \cap Stored(C) \subseteq R /\ SpentBy(B) \cap Stored(B) \subseteq R
        BY <2>3, <4>2
      <4>5. bch'.scriptpubkey_to_output = Stored(C) \ SpentBy(C)
        BY <2>3, <2>5, <2>12, <4>2, <4>3, <4>4
      <4>6. /\ bch'.scriptpubkey_to_output \subseteq bch'.outpoint_map
            /\ bch'.outpoint_map \ bch'.scriptpubkey_to_output \subseteq Stored(undone')
            /\ bch'.outpoint_map \cap SpentBy(C) = {}
        BY <2>3, <2>5, <2>11, <2>12, <4>3, <4>4, <4>5
      <4>. QED
        BY <4>1, <4>5, <4>6 DEF UtxosAreExact, Unspent
    <3>. QED
      BY <2>6, <3>1, <3>2
  <2>19. MempoolIsBounded'
    <3>1. MempoolIsBounded
      BY DEF BchInv
    <3>. HIDE DEF B, C, R
    <3>. QED
      BY <1>1, <1>5, <2>5, <2>9, <2>10, <3>1 DEF MempoolIsBounded
  <2>20. MempoolIsComplete'
    BY <2>11 DEF MempoolIsComplete
  <2>. QED
    BY <2>13, <2>14, <2>15, <2>16, <2>17, <2>18, <2>19, <2>20 DEF BchInv
<1>. QED
  BY <1>6, <1>7
-----------------------------------------------------------------------------
(* A restart. *)

\* b holds the unspent outputs of U and no mempool.
Fresh(b, U) ==
    /\ b.scriptpubkey_to_output = Unspent(U) /\ b.outpoint_map = Unspent(U)
    /\ b.mempool_outpoint_map = {} /\ b.mempool_scriptpubkey_to_output = {}
    /\ b.mempool_spent_confirmed_outpoints = {}
    /\ QueuesBounded(b)

\* A block that is applied after a start keeps the unspent outputs exact.
LEMMA ApplyFresh ==
    ASSUME NEW b, NEW b2, NEW U, NEW B, Applies(b, b2, B), Fresh(b, U), QueuesBounded(b2),
           SpentBy(U) \cap Stored(B) \subseteq SpentBy(B)
    PROVE  Fresh(b2, U \cup B)
<1>1. /\ b.scriptpubkey_to_output = Unspent(U) /\ b.outpoint_map = Unspent(U)
      /\ b.mempool_outpoint_map = {} /\ b.mempool_scriptpubkey_to_output = {}
      /\ b.mempool_spent_confirmed_outpoints = {}
  BY DEF Fresh
<1>2. b.outpoint_map \cap SpentBy(U) = {}
  BY <1>1 DEF Unspent
<1>3. /\ b2.scriptpubkey_to_output = Unspent(U \cup B)
      /\ b2.scriptpubkey_to_output \subseteq b2.outpoint_map
      /\ b2.outpoint_map \ b2.scriptpubkey_to_output \subseteq
            b.outpoint_map \ b.scriptpubkey_to_output
      /\ b2.outpoint_map \cap SpentBy(U \cup B) = {}
  <2>1. b.scriptpubkey_to_output \subseteq b.outpoint_map
    BY <1>1
  <2>2. b.scriptpubkey_to_output = Unspent(U)
    BY <1>1
  <2>. QED
    BY <1>2, <2>1, <2>2, ApplyExact
<1>4. /\ b2.mempool_outpoint_map = {} /\ b2.mempool_scriptpubkey_to_output = {}
      /\ b2.mempool_spent_confirmed_outpoints = {}
  BY <1>1, ApplyMempool
<1>. QED
  BY <1>1, <1>3, <1>4 DEF Fresh

\* So does a block that is applied twice.
LEMMA ApplyTwiceFresh ==
    ASSUME NEW b \in BchState, NEW U, NEW B \in Sortable, Fresh(b, U),
           SpentBy(U) \cap Stored(B) \subseteq SpentBy(B)
    PROVE  Fresh(ApplyTwice(b, B), U \cup B)
<1>. DEFINE txs == CHOOSE s \in Sorted(B) : TRUE
            mid == process_block(b, txs)
            b2 == process_block(mid, txs)
<1>1. B \in SUBSET Txid /\ txs \in Sorted(B)
  BY DEF Sortable
<1>2. ApplyTwice(b, B) = b2
  BY DEF ApplyTwice
<1>. HIDE DEF txs
<1>3. QueuesBounded(b)
  BY DEF Fresh
<1>4. mid \in BchState /\ Applies(b, mid, B) /\ QueuesBounded(mid)
  BY <1>1, <1>3, ProcessBlock
<1>. HIDE DEF mid
<1>5. b2 \in BchState /\ Applies(mid, b2, B) /\ QueuesBounded(b2)
  BY <1>1, <1>4, ProcessBlock
<1>. HIDE DEF b2
<1>6. Fresh(mid, U \cup B)
  BY <1>4, ApplyFresh
<1>7. SpentBy(U \cup B) \cap Stored(B) \subseteq SpentBy(B)
  <2>1. SpentBy(U \cup B) = SpentBy(U) \cup SpentBy(B)
    BY SetsOfUnion, Zenon
  <2>. QED
    BY <2>1
<1>8. Fresh(b2, (U \cup B) \cup B)
  BY <1>5, <1>6, <1>7, ApplyFresh
<1>9. (U \cup B) \cup B = U \cup B
  OBVIOUS
<1>. QED
  BY <1>2, <1>8, <1>9

\* The transactions of the first k blocks.
UpTo(blocks, k) == UNION {blocks[i] : i \in 1..k}

\* Reading blocks, each twice, from an empty utxodb yields the unspent outputs of
\* all of them, when no block spends from a later one that it is no part of.
LEMMA ReadAll ==
    ASSUME NEW n \in Nat, NEW blocks \in [1..n -> Sortable],
           \A k \in 1..n : SpentBy(UpTo(blocks, k - 1)) \cap Stored(blocks[k])
                               \subseteq SpentBy(blocks[k])
    PROVE  /\ FoldLeft(ApplyTwice, EmptyBch, blocks) \in BchState
           /\ Fresh(FoldLeft(ApplyTwice, EmptyBch, blocks), UpTo(blocks, n))
<1>1. EmptyBch \in BchState
  BY DEF EmptyBch, BchState, EmptySlpdb, Slpdb
<1>2. PICK run \in [0..n -> BchState] :
          /\ run[0] = EmptyBch /\ run[n] = FoldLeft(ApplyTwice, EmptyBch, blocks)
          /\ \A k \in 1..n : run[k] = ApplyTwice(run[k - 1], blocks[k])
  <2>1. \E run : AppliesAlong(run, n, EmptyBch, blocks)
    BY <1>1, ApplyRun
  <2>. QED
    BY <2>1 DEF AppliesAlong
<1>. DEFINE P == {k \in Nat : k <= n => Fresh(run[k], UpTo(blocks, k))}
<1>3. 0 \in P
  <2>1. UpTo(blocks, 0) = {}
    BY DEF UpTo
  <2>2. Unspent({}) = {}
    BY SetsOfUnion DEF Unspent
  <2>3. RollbackDepth \in Nat
    BY BchAssumption
  <2>4. Fresh(EmptyBch, {})
    BY <2>2, <2>3 DEF Fresh, EmptyBch, QueuesBounded
  <2>. QED
    BY <1>2, <2>1, <2>4
<1>4. ASSUME NEW k \in Nat, k \in P PROVE k + 1 \in P
  <2>. SUFFICES ASSUME k + 1 <= n PROVE Fresh(run[k + 1], UpTo(blocks, k + 1))
    OBVIOUS
  <2>1. k + 1 \in 1..n /\ k \in 0..n /\ (k + 1) - 1 = k /\ k <= n
    OBVIOUS
  <2>2. run[k] \in BchState /\ blocks[k + 1] \in Sortable
    BY <1>2, <2>1
  <2>3. run[k + 1] = ApplyTwice(run[k], blocks[k + 1])
    BY <1>2, <2>1
  <2>4. SpentBy(UpTo(blocks, k)) \cap Stored(blocks[k + 1]) \subseteq SpentBy(blocks[k + 1])
    BY <2>1
  <2>5. UpTo(blocks, k + 1) = UpTo(blocks, k) \cup blocks[k + 1]
    <3>1. 1..(k + 1) = (1..k) \cup {k + 1}
      OBVIOUS
    <3>. QED
      BY <3>1 DEF UpTo
  <2>6. Fresh(run[k], UpTo(blocks, k))
    BY <1>4, <2>1
  <2>. QED
    BY <2>2, <2>3, <2>4, <2>5, <2>6, ApplyTwiceFresh
<1>5. n \in P
  <2>. HIDE DEF P
  <2>. QED
    BY <1>3, <1>4, NatSetInduction
<1>6. n \in 0..n /\ n <= n
  OBVIOUS
<1>. QED
  BY <1>2, <1>5, <1>6

\* The blocks that a start with n cached blocks reads, when the files of E are empty.
Cached(n, E) == [h \in 1..n |-> IF h \in E THEN {} ELSE chain[h] \cap SlpValid]
Unread(n) == IF n < Len(chain) THEN n - 1 ELSE n
FirstReread(n) == IF n = 0 THEN 1 ELSE n

\* The cached blocks, then the chain from the last of them on.
LEMMA BlocksRead ==
    ASSUME BchInv, NEW n \in 0..Len(chain), NEW E
    PROVE  LET blocks == Cached(n, E) \o Reread(n)
               m == FirstReread(n)
           IN  /\ Len(blocks) \in Nat /\ blocks \in [1..Len(blocks) -> SUBSET Txid]
               /\ Len(blocks) = IF n < Len(chain) THEN n + (Len(chain) - m + 1) ELSE n
               /\ \A i \in 1..Len(blocks) :
                     blocks[i] = IF i <= n THEN Cached(n, E)[i] ELSE chain[m + (i - n) - 1]
<1>. DEFINE c == Len(chain)
            m == FirstReread(n)
            r == Reread(n)
            l == IF n < c THEN c - m + 1 ELSE 0
<1>1. chain \in Seq(SUBSET Txid) /\ c \in Nat /\ \A h \in 1..c : chain[h] \in SUBSET Txid
  BY LenProperties, ElementOfSeq DEF BchInv, BchTypeOK
<1>2. n \in Nat /\ n <= c /\ m \in Nat /\ m # 0
  BY <1>1 DEF FirstReread
<1>3. Cached(n, E) \in Seq(SUBSET Txid) /\ Len(Cached(n, E)) = n
  <2>1. \A i \in 1..n : (IF i \in E THEN {} ELSE chain[i] \cap SlpValid) \in SUBSET Txid
    BY <1>1, <1>2
  <2>2. Cached(n, E) \in [1..n -> SUBSET Txid]
    BY <2>1 DEF Cached
  <2>3. Cached(n, E) \in Seq(SUBSET Txid)
    BY <1>2, <2>2, SeqDef
  <2>4. Len(Cached(n, E)) \in Nat /\ DOMAIN Cached(n, E) = 1..Len(Cached(n, E)) /\ DOMAIN Cached(n, E) = 1..n
    BY <2>2, <2>3, LenProperties
  <2>. QED
    BY <1>2, <2>2, <2>3, <2>4
<1>4. r \in Seq(SUBSET Txid) /\ Len(r) = l /\ \A i \in 1..l : r[i] = chain[m + i - 1]
  <2>1. CASE n < c
    <3>1. r = SubSeq(chain, m, c)
      BY <2>1 DEF Reread, FirstReread
    <3>2. m \in Int /\ c \in Int /\ m <= c /\ \A i \in m..c : chain[i] \in SUBSET Txid
      BY <1>1, <1>2, <2>1 DEF FirstReread
    <3>. HIDE DEF m, c, r
    <3>3. /\ SubSeq(chain, m, c) \in Seq(SUBSET Txid)
          /\ Len(SubSeq(chain, m, c)) = IF m <= c THEN c - m + 1 ELSE 0
          /\ \A i \in 1..(c - m + 1) : SubSeq(chain, m, c)[i] = chain[m + i - 1]
      BY <3>2, SubSeqProperties
    <3>. QED
      BY <2>1, <3>1, <3>2, <3>3
  <2>2. CASE ~(n < c)
    <3>1. r = <<>> /\ l = 0
      BY <2>2 DEF Reread
    <3>. QED
      BY <3>1, EmptySeq
  <2>. QED
    BY <2>1, <2>2
<1>. HIDE DEF c, m, r
<1>5. l \in Nat
  <2>1. n < c => m <= c
    BY <1>1, <1>2 DEF m, FirstReread
  <2>. QED
    BY <1>1, <1>2, <2>1
<1>. DEFINE s == Cached(n, E)
<1>. HIDE DEF l, s
<1>6. /\ s \o r \in Seq(SUBSET Txid) /\ Len(s \o r) = n + l
      /\ \A i \in 1..(n + l) : (s \o r)[i] = IF i <= n THEN s[i] ELSE r[i - n]
  <2>1. s \in Seq(SUBSET Txid) /\ Len(s) = n
    BY <1>3 DEF s
  <2>2. /\ s \o r \in Seq(SUBSET Txid) /\ Len(s \o r) = Len(s) + Len(r)
        /\ \A i \in 1..(Len(s) + Len(r)) : (s \o r)[i] = IF i <= Len(s) THEN s[i] ELSE r[i - Len(s)]
    BY <1>4, <2>1, ConcatProperties
  <2>. QED
    BY <1>4, <2>1, <2>2
<1>7. s \o r \in [1..(n + l) -> SUBSET Txid] /\ n + l \in Nat
  BY <1>2, <1>5, <1>6, LenProperties
<1>8. ASSUME NEW i \in 1..(n + l)
      PROVE  (s \o r)[i] = IF i <= n THEN s[i] ELSE chain[m + (i - n) - 1]
  <2>1. CASE i <= n
    <3>1. i \in 1..n
      BY <1>2, <2>1
    <3>. QED
      BY <1>6, <2>1, <3>1
  <2>2. CASE ~(i <= n)
    <3>1. i - n \in 1..l
      BY <1>2, <1>5, <2>2
    <3>. QED
      BY <1>4, <1>6, <2>2, <3>1
  <2>. QED
    BY <2>1, <2>2
<1>9. n + l = IF n < c THEN n + (c - m + 1) ELSE n
  BY <1>2 DEF l
<1>. QED
  BY <1>6, <1>7, <1>8, <1>9 DEF s, r, c, m
\* The place in the chain of the i-th block read.
Source(n, i) == IF i <= n THEN i ELSE FirstReread(n) + (i - n) - 1

\* The chain is read in order, only the last cached block a second time.
ReadsInOrder(n, c, N) ==
    /\ N \in Nat
    /\ \A i \in 1..N : Source(n, i) \in 1..c
    /\ \A i, k \in 1..N : i < k /\ Source(n, k) <= Source(n, i) =>
           Source(n, i) = Source(n, k) /\ k > n
    /\ \A i \in 1..N : i > n => n < c /\ Source(n, i) > n - 1
    /\ \A h \in 1..c : h <= n => h \in 1..N
    /\ \A h \in 1..c : n < c /\ h > n - 1 => \E i \in 1..N : i > n /\ Source(n, i) = h

\* From the number of cached blocks and the height of the chain.
LEMMA SourceOrder ==
    ASSUME NEW n \in Nat, NEW c \in Nat, n <= c, NEW N,
           N = IF n < c THEN n + (c - FirstReread(n) + 1) ELSE n
    PROVE  ReadsInOrder(n, c, N)
<1>. DEFINE m == FirstReread(n)
<1>1. m \in Nat /\ m # 0 /\ n <= m /\ (n < c => m <= c) /\ (n # 0 => m = n) /\ (n = 0 => m = 1)
  BY DEF FirstReread
<1>. HIDE DEF m
<1>2. \A i : Source(n, i) = IF i <= n THEN i ELSE m + (i - n) - 1
  BY DEF Source, m
<1>3. N = IF n < c THEN n + (c - m + 1) ELSE n
  BY DEF m
<1>4. N \in Nat
  BY <1>1, <1>3
<1>5. ASSUME NEW i \in 1..N PROVE Source(n, i) \in 1..c
  BY <1>1, <1>2, <1>3, <1>4
<1>6. ASSUME NEW i \in 1..N, NEW k \in 1..N, i < k, Source(n, k) <= Source(n, i)
      PROVE  Source(n, i) = Source(n, k) /\ k > n
  BY <1>1, <1>2, <1>3, <1>4, <1>6
<1>7. ASSUME NEW i \in 1..N, i > n PROVE n < c /\ Source(n, i) > n - 1
  BY <1>1, <1>2, <1>3, <1>4, <1>7
<1>8. ASSUME NEW h \in 1..c, h <= n PROVE h \in 1..N
  BY <1>1, <1>3, <1>4, <1>8
<1>9. ASSUME NEW h \in 1..c, n < c, h > n - 1
      PROVE  \E i \in 1..N : i > n /\ Source(n, i) = h
  <2>. DEFINE i == n + (h - m + 1)
  <2>1. i \in 1..N /\ i > n
    BY <1>1, <1>3, <1>4, <1>9
  <2>2. Source(n, i) = h
    BY <1>1, <1>2, <1>9, <2>1
  <2>. QED
    BY <2>1, <2>2
<1>. QED
  BY <1>4, <1>5, <1>6, <1>7, <1>8, <1>9 DEF ReadsInOrder
\* What a start with n cached blocks never sees.
Missed(n, E) == UNION {chain[h] \ Cached(n, E)[h] : h \in 1..Unread(n)}

\* The blocks that a start reads can be sorted and come in the order of the chain,
\* and all they miss is what the cache left out of blocks not read again.
LEMMA BlocksInOrder ==
    ASSUME BchInv, NEW n \in 0..Len(chain), NEW E
    PROVE  LET blocks == Cached(n, E) \o Reread(n)
           IN  /\ Len(blocks) \in Nat /\ blocks \in [1..Len(blocks) -> Sortable]
               /\ \A k \in 1..Len(blocks) :
                     SpentBy(UpTo(blocks, k - 1)) \cap Stored(blocks[k]) \subseteq SpentBy(blocks[k])
               /\ UpTo(blocks, Len(blocks)) = confirmed \ Missed(n, E)
<1>. DEFINE c == Len(chain)
            blocks == Cached(n, E) \o Reread(n)
            N == Len(blocks)
<1>1. chain \in Seq(SUBSET Txid) /\ c \in Nat /\ \A h \in 1..c : chain[h] \in SUBSET Txid
  BY LenProperties, ElementOfSeq DEF BchInv, BchTypeOK
<1>2. /\ \A h \in 1..c : chain[h] # {} /\ Sorted(chain[h]) # {}
      /\ \A h \in 1..c : \A t \in chain[h] : \A p \in Parents(t) : \E g \in 1..h : p \in chain[g]
      /\ \A g, h \in 1..c : g # h => chain[g] \cap chain[h] = {}
  BY DEF BchInv, ChainOrdered
<1>3. \A t : t \in confirmed <=> \E h \in 1..c : t \in chain[h]
  BY <1>1, UnionOf, ConfirmedFacts
<1>4. n \in Nat /\ n <= c
  BY <1>1
<1>5. /\ N \in Nat /\ blocks \in [1..N -> SUBSET Txid]
      /\ N = IF n < c THEN n + (c - FirstReread(n) + 1) ELSE n
      /\ \A i \in 1..N : blocks[i] = IF i <= n THEN Cached(n, E)[i]
                                     ELSE chain[FirstReread(n) + (i - n) - 1]
  BY BlocksRead
<1>. HIDE DEF blocks, c, N
<1>6. /\ \A i \in 1..N : Source(n, i) \in 1..c
      /\ \A i, k \in 1..N : i < k /\ Source(n, k) <= Source(n, i) =>
             Source(n, i) = Source(n, k) /\ k > n
      /\ \A i \in 1..N : i > n => n < c /\ Source(n, i) > n - 1
      /\ \A h \in 1..c : h <= n => h \in 1..N
      /\ \A h \in 1..c : n < c /\ h > n - 1 => \E i \in 1..N : i > n /\ Source(n, i) = h
  <2>1. n \in Nat /\ c \in Nat /\ n <= c /\ N = IF n < c THEN n + (c - FirstReread(n) + 1) ELSE n
    BY <1>1, <1>4, <1>5
  <2>. QED
    <3>1. ReadsInOrder(n, c, N)
      BY <2>1, SourceOrder
    <3>. QED
      BY <3>1 DEF ReadsInOrder
<1>7. ASSUME NEW i \in 1..N
      PROVE  /\ blocks[i] \subseteq chain[Source(n, i)]
             /\ i > n => blocks[i] = chain[Source(n, i)]
             /\ i <= n => Source(n, i) = i /\ blocks[i] = Cached(n, E)[i]
  <2>1. CASE i <= n
    <3>1. Source(n, i) = i /\ blocks[i] = Cached(n, E)[i] /\ i \in 1..n /\ ~(i > n)
      BY <1>4, <1>5, <2>1 DEF Source
    <3>2. Cached(n, E)[i] \subseteq chain[i]
      BY <3>1 DEF Cached
    <3>. QED
      BY <3>1, <3>2
  <2>2. CASE ~(i <= n)
    BY <1>4, <1>5, <2>2 DEF Source
  <2>. QED
    BY <2>1, <2>2
<1>8. \A i \in 1..N : blocks[i] \in SUBSET Txid
  BY <1>5
<1>9. blocks \in [1..N -> Sortable]
  <2>1. ASSUME NEW i \in 1..N PROVE blocks[i] \in Sortable
    <3>1. Source(n, i) \in 1..c /\ blocks[i] \in SUBSET chain[Source(n, i)]
      BY <1>6, <1>7
    <3>2. chain[Source(n, i)] \in SUBSET Txid /\ Sorted(chain[Source(n, i)]) # {}
      BY <1>1, <1>2, <3>1
    <3>3. Sorted(blocks[i]) # {}
      BY <3>1, <3>2, SortedSubset, Zenon
    <3>. QED
      BY <1>8, <3>3 DEF Sortable
  <2>. QED
    BY <1>5, <2>1
<1>10. ASSUME NEW k \in 1..N, NEW o \in SpentBy(UpTo(blocks, k - 1)) \cap Stored(blocks[k])
       PROVE  o \in SpentBy(blocks[k])
  <2>1. PICK i \in 1..(k - 1) : \E t \in blocks[i] : o \in Inputs(t)
    BY DEF SpentBy, UpTo
  <2>2. PICK t \in blocks[i] : o \in Inputs(t)
    BY <2>1
  <2>3. i \in 1..N /\ i < k
    BY <1>5
  <2>4. o.txid \in blocks[k]
    BY <1>8, StoredOf
  <2>5. o.txid \in Parents(t)
    BY <2>2 DEF Parents
  <2>6. Source(n, i) \in 1..c /\ Source(n, k) \in 1..c
    BY <1>6, <2>3
  <2>7. t \in chain[Source(n, i)] /\ o.txid \in chain[Source(n, k)]
    BY <1>7, <2>2, <2>3, <2>4
  <2>8. PICK g \in 1..Source(n, i) : o.txid \in chain[g]
    BY <1>2, <2>5, <2>6, <2>7
  <2>9. g \in 1..c
    BY <1>1, <2>6
  <2>10. g = Source(n, k)
    BY <1>2, <2>6, <2>7, <2>8, <2>9
  <2>11. Source(n, k) <= Source(n, i)
    BY <2>6, <2>10
  <2>12. Source(n, i) = Source(n, k) /\ k > n
    BY <1>6, <2>3, <2>11
  <2>13. t \in blocks[k]
    BY <1>7, <2>7, <2>12
  <2>. QED
    BY <2>2, <2>13 DEF SpentBy
<1>11. ASSUME NEW t \in UpTo(blocks, N) PROVE t \in confirmed \ Missed(n, E)
  <2>1. PICK i \in 1..N : t \in blocks[i]
    BY DEF UpTo
  <2>2. Source(n, i) \in 1..c /\ t \in chain[Source(n, i)]
    BY <1>6, <1>7, <2>1
  <2>3. t \notin Missed(n, E)
    <3>1. CASE i <= n
      <4>1. i \in 1..c /\ t \in chain[i] /\ t \in Cached(n, E)[i]
        BY <1>7, <2>1, <2>2, <3>1
      <4>2. ASSUME NEW h \in 1..Unread(n), t \in chain[h] PROVE h = i
        <5>1. h \in 1..c
          BY <1>1, <1>4 DEF Unread
        <5>. QED
          BY <1>2, <4>1, <4>2, <5>1
      <4>. QED
        BY <4>1, <4>2 DEF Missed
    <3>2. CASE i > n
      <4>1. n < c /\ Source(n, i) > n - 1
        BY <1>6, <3>2
      <4>2. Unread(n) = n - 1
        BY <4>1 DEF Unread, c
      <4>3. ASSUME NEW h \in 1..(n - 1) PROVE t \notin chain[h]
        <5>1. h \in 1..c /\ h # Source(n, i)
          BY <1>1, <1>4, <2>2, <4>1
        <5>. QED
          BY <1>2, <2>2, <5>1
      <4>. QED
        BY <4>2, <4>3 DEF Missed
    <3>. QED
      BY <1>4, <1>5, <3>1, <3>2
  <2>. QED
    BY <1>3, <2>2, <2>3
<1>12. ASSUME NEW t \in confirmed \ Missed(n, E) PROVE t \in UpTo(blocks, N)
  <2>1. PICK h \in 1..c : t \in chain[h]
    BY <1>3
  <2>. SUFFICES \E i \in 1..N : t \in blocks[i]
    BY DEF UpTo
  <2>2. CASE h <= n /\ t \in Cached(n, E)[h]
    <3>1. h \in 1..N
      BY <1>6, <2>2
    <3>. QED
      BY <1>7, <2>1, <2>2, <3>1
  <2>3. CASE n < c /\ h > n - 1
    <3>1. PICK i \in 1..N : i > n /\ Source(n, i) = h
      BY <1>6, <2>3
    <3>. QED
      BY <1>7, <2>1, <3>1
  <2>4. ASSUME ~(h <= n /\ t \in Cached(n, E)[h]) PROVE n < c /\ h > n - 1
    <3>1. h \in 1..Unread(n) => t \in Cached(n, E)[h]
      BY <2>1 DEF Missed
    <3>2. Unread(n) = IF n < c THEN n - 1 ELSE n
      BY DEF Unread, c
    <3>. QED
      BY <1>1, <1>4, <2>4, <3>1, <3>2
  <2>. QED
    BY <2>2, <2>3, <2>4
<1>13. UpTo(blocks, N) = confirmed \ Missed(n, E)
  BY <1>11, <1>12
<1>14. \A k \in 1..N : SpentBy(UpTo(blocks, k - 1)) \cap Stored(blocks[k]) \subseteq SpentBy(blocks[k])
  BY <1>10
<1>. QED
  BY <1>5, <1>9, <1>13, <1>14 DEF N, blocks
\* A start of the process from any prefix of the cache establishes the invariant.
LEMMA RestartStep ==
    ASSUME BchInv, NEW n \in 0..Len(chain), NEW E, Restart(n, E)
    PROVE  BchInv'
<1>. DEFINE blocks == Cached(n, E) \o Reread(n)
            U == confirmed \ Missed(n, E)
<1>1. /\ restarts < MaxRestarts /\ undone = {} /\ restarts' = restarts + 1
      /\ chain' = chain /\ half' = half /\ undone' = undone /\ rollbacks' = rollbacks
      /\ relayed' = {} /\ early' = {} /\ applied' = <<>> /\ missed' = missed
  BY DEF Restart
<1>2. bch' = FoldLeft(ApplyTwice, EmptyBch, blocks) /\ unseen' = Missed(n, E)
  BY DEF Restart, Cached, Missed, Unread
<1>3. bch' \in BchState /\ Fresh(bch', U)
  <2>1. /\ Len(blocks) \in Nat /\ blocks \in [1..Len(blocks) -> Sortable]
        /\ \A k \in 1..Len(blocks) :
              SpentBy(UpTo(blocks, k - 1)) \cap Stored(blocks[k]) \subseteq SpentBy(blocks[k])
        /\ UpTo(blocks, Len(blocks)) = U
    BY BlocksInOrder
  <2>. HIDE DEF blocks, U
  <2>2. /\ FoldLeft(ApplyTwice, EmptyBch, blocks) \in BchState
        /\ Fresh(FoldLeft(ApplyTwice, EmptyBch, blocks), UpTo(blocks, Len(blocks)))
    BY <2>1, ReadAll
  <2>. QED
    BY <1>2, <2>1, <2>2
<1>. HIDE DEF blocks
<1>4. BchTypeOK /\ LivesApart /\ ChainOrdered(chain)
  BY DEF BchInv
<1>5. ~half /\ ~half' /\ undone' = {}
  BY <1>1, <1>4 DEF LivesApart
<1>6. restarts = 0 /\ restarts' = 1 /\ MaxRestarts = 1
  BY <1>1, <1>4, BchAssumption DEF BchTypeOK
<1>7. confirmed' = confirmed /\ Missed(n, E) \subseteq confirmed
  <2>1. \A t : t \in confirmed <=> \E h \in 1..Len(chain) : t \in chain[h]
    BY <1>4, UnionOf, ConfirmedFacts DEF BchTypeOK
  <2>2. Len(chain) \in Nat /\ chain \in Seq(SUBSET Txid)
    BY <1>4, LenProperties DEF BchTypeOK
  <2>3. ASSUME NEW h \in 1..Unread(n) PROVE h \in 1..Len(chain)
    BY <2>2 DEF Unread
  <2>. QED
    BY <1>1, <2>1, <2>3 DEF confirmed, Missed
<1>8. Seen' = U
  BY <1>2, <1>7 DEF Seen
<1>9. /\ bch'.scriptpubkey_to_output = Unspent(U) /\ bch'.outpoint_map = Unspent(U)
      /\ bch'.mempool_outpoint_map = {} /\ bch'.mempool_scriptpubkey_to_output = {}
      /\ bch'.mempool_spent_confirmed_outpoints = {}
      /\ QueuesBounded(bch')
  BY <1>3 DEF Fresh
<1>10. BchTypeOK'
  <2>1. applied' \in Seq(Call) /\ relayed' \subseteq Txid /\ undone' \subseteq Txid
    BY <1>1, <1>5, EmptySeq
  <2>2. half' \in BOOLEAN /\ rollbacks' \in Nat /\ chain' \in Seq(SUBSET Txid)
    BY <1>1, <1>4 DEF BchTypeOK
  <2>3. /\ restarts' \in 0..MaxRestarts /\ unseen' \subseteq confirmed'
        /\ missed' \in Nat /\ early' \subseteq Outpoint
    BY <1>1, <1>2, <1>4, <1>6, <1>7 DEF BchTypeOK
  <2>. QED
    BY <1>3, <1>9, <2>1, <2>2, <2>3 DEF BchTypeOK, QueuesBounded, Call
<1>11. ChainOrdered(chain)'
  BY <1>1, <1>4
<1>12. CallsArePlaced'
  <2>1. Len(applied') = 0
    BY <1>1
  <2>2. Placed([i \in {} |-> i], applied', chain')
    BY <2>1 DEF Placed
  <2>. QED
    BY <2>1, <2>2 DEF CallsArePlaced
<1>13. LivesApart' /\ QueuesMatch'
  BY <1>5, <1>6 DEF LivesApart, QueuesMatch
<1>14. UtxosAreExact'
  <2>. HIDE DEF U
  <2>. QED
    BY <1>5, <1>8, <1>9 DEF UtxosAreExact, Unspent
<1>15. MempoolIsBounded'
  BY <1>9 DEF MempoolIsBounded
<1>16. MempoolIsComplete'
  <2>1. relayed' = {} /\ relayed' \ Seen' = {}
    BY <1>1
  <2>2. Stored(relayed' \ Seen') = {} /\ SpentBy(relayed' \ Seen') = {} /\ SpentBy(relayed') = {}
    BY <2>1, SetsOfUnion
  <2>. QED
    BY <1>1, <2>2 DEF MempoolIsComplete
<1>. QED
  BY <1>10, <1>11, <1>12, <1>13, <1>14, <1>15, <1>16 DEF BchInv

-----------------------------------------------------------------------------
(* The invariant. *)

\* An empty bch satisfies the invariant.
LEMMA BchInitially ==
    ASSUME BchInit PROVE BchInv
<1>1. /\ bch = EmptyBch /\ chain = <<>> /\ relayed = {} /\ applied = <<>>
      /\ half = FALSE /\ undone = {} /\ rollbacks = 0 /\ restarts = 0 /\ unseen = {}
      /\ early = {} /\ missed = 0
  BY DEF BchInit
<1>2. RollbackDepth \in Nat /\ MaxRestarts \in Nat
  BY BchAssumption
<1>3. EmptyBch \in BchState
  BY DEF EmptyBch, BchState, EmptySlpdb, Slpdb
<1>4. /\ EmptyBch.scriptpubkey_to_output = {} /\ EmptyBch.outpoint_map = {}
      /\ EmptyBch.mempool_outpoint_map = {} /\ EmptyBch.mempool_scriptpubkey_to_output = {}
      /\ EmptyBch.mempool_spent_confirmed_outpoints = {}
      /\ EmptyBch.last_block_added = <<>> /\ EmptyBch.last_block_removed = <<>>
  BY DEF EmptyBch
<1>5. confirmed = {} /\ Union(chain) = {}
  <2>1. chain \in Seq(SUBSET Txid) /\ Len(chain) = 0
    BY <1>1, EmptySeq
  <2>2. \A t : t \in Union(chain) <=> \E h \in 1..Len(chain) : t \in chain[h]
    BY <2>1, UnionOf
  <2>3. 1..Len(chain) = {}
    BY <2>1
  <2>. QED
    BY <2>2, <2>3 DEF confirmed, Union
<1>6. Unspent({}) = {}
  BY SetsOfUnion DEF Unspent
<1>7. BchTypeOK
  <2>1. chain \in Seq(SUBSET Txid) /\ applied \in Seq([txs : SUBSET Txid, again : BOOLEAN])
    BY <1>1, EmptySeq
  <2>2. /\ relayed \subseteq Txid /\ undone \subseteq Txid /\ unseen \subseteq confirmed
        /\ rollbacks \in Nat /\ restarts \in 0..MaxRestarts
        /\ missed \in Nat /\ early \subseteq Outpoint
    BY <1>1, <1>2
  <2>3. half \in BOOLEAN
    BY <1>1
  <2>4. /\ Len(bch.last_block_added) <= RollbackDepth
        /\ Len(bch.last_block_removed) = Len(bch.last_block_added)
    BY <1>1, <1>2, <1>4
  <2>. QED
    BY <1>1, <1>3, <2>1, <2>2, <2>3, <2>4 DEF BchTypeOK
<1>8. ChainOrdered(chain)
  BY <1>1, <1>5 DEF ChainOrdered, NoConflicts
<1>9. CallsArePlaced
  <2>1. Len(applied) = 0
    BY <1>1
  <2>2. Placed([i \in {} |-> i], applied, chain)
    BY <1>1, <2>1 DEF Placed
  <2>. QED
    BY <2>1, <2>2 DEF CallsArePlaced
<1>10. LivesApart
  BY <1>1 DEF LivesApart
<1>11. QueuesMatch
  BY <1>1, <1>4 DEF QueuesMatch, Matches
<1>12. UtxosAreExact
  BY <1>1, <1>4, <1>5, <1>6 DEF UtxosAreExact, Seen
<1>13. MempoolIsBounded
  BY <1>1, <1>4 DEF MempoolIsBounded
<1>14. MempoolIsComplete
  <2>1. relayed = {} /\ relayed \ Seen = {}
    BY <1>1
  <2>2. Stored(relayed \ Seen) = {} /\ SpentBy(relayed \ Seen) = {} /\ SpentBy(relayed) = {}
    BY <2>1, SetsOfUnion
  <2>. QED
    BY <1>1, <2>2 DEF MempoolIsComplete
<1>. QED
  BY <1>7, <1>8, <1>9, <1>10, <1>11, <1>12, <1>13, <1>14 DEF BchInv

\* So does one that does not change.
LEMMA BchStuttering ==
    ASSUME BchInv, UNCHANGED bchVars PROVE BchInv'
<1>1. /\ bch' = bch /\ chain' = chain /\ relayed' = relayed /\ applied' = applied
      /\ half' = half /\ undone' = undone /\ rollbacks' = rollbacks
      /\ restarts' = restarts /\ unseen' = unseen /\ early' = early /\ missed' = missed
  BY DEF bchVars, lifeVars
<1>2. confirmed' = confirmed /\ Told' = Told /\ Seen' = Seen
  BY <1>1 DEF confirmed, Told, Seen
<1>3. BchTypeOK' /\ ChainOrdered(chain)' /\ LivesApart'
  BY <1>1, <1>2 DEF BchInv, BchTypeOK, LivesApart
<1>4. CallsArePlaced' /\ QueuesMatch'
  BY <1>1 DEF BchInv, CallsArePlaced, QueuesMatch
<1>5. UtxosAreExact'
  BY <1>1, <1>2 DEF BchInv, UtxosAreExact
<1>6. MempoolIsBounded' /\ MempoolIsComplete'
  BY <1>1, <1>2 DEF BchInv, MempoolIsBounded, MempoolIsComplete
<1>. QED
  BY <1>3, <1>4, <1>5, <1>6 DEF BchInv

\* The invariant of gs::bch: the chain is in order, the rollback queues hold
\* what the calls they can undo added and took away, the confirmed outputs are
\* exact, and the mempool is bounded by what was relayed and complete for what
\* came with no block.  Every call of process_block, process_mempool_tx and
\* rollback, every lost block and every start of the process keeps it.
THEOREM BchInvariant == BchSpec => []BchInv
<1>1. BchInit => BchInv
  BY BchInitially
<1>2. BchInv /\ [BchNext]_bchVars => BchInv'
  <2>. SUFFICES ASSUME BchInv, [BchNext]_bchVars PROVE BchInv'
    OBVIOUS
  <2>1. ASSUME NEW B \in SUBSET Txid, ConnectBlock(B) PROVE BchInv'
    BY <2>1, ConnectBlockStep
  <2>2. ASSUME NEW B \in SUBSET Txid, ListMempool(B) PROVE BchInv'
    BY <2>2, ListMempoolStep
  <2>3. CASE ConnectAgain
    BY <2>3, ConnectAgainStep
  <2>4. ASSUME NEW t \in Txid, RelayTx(t) PROVE BchInv'
    BY <2>4, RelayTxStep
  <2>5. CASE Rollback
    BY <2>5, RollbackStep
  <2>6. ASSUME NEW n \in 0..Len(chain), NEW E \in SUBSET (1..n), Restart(n, E) PROVE BchInv'
    BY <2>6, RestartStep
  <2>7. CASE UNCHANGED bchVars
    BY <2>7, BchStuttering
  <2>8. ASSUME NEW B \in SUBSET Txid, MissBlock(B) PROVE BchInv'
    BY <2>8, MissBlockStep
  <2>. QED
    BY <2>1, <2>2, <2>3, <2>4, <2>5, <2>6, <2>7, <2>8 DEF BchNext
<1>. QED
  BY <1>1, <1>2, PTL DEF BchSpec

\* bch, utxodb and slpdb keep well-typed containers, and the rollback queues
\* never hold more than rollback_depth blocks.
THEOREM BchTypeCorrect == BchSpec => []BchTypeOK
<1>1. BchInv => BchTypeOK
  BY DEF BchInv
<1>. QED
  BY <1>1, BchInvariant, PTL

\* The confirmed outputs of bch are those of the blocks it was given that these do
\* not spend, for any chain, any order of mempool and block calls, any lost blocks,
\* any number of rollbacks and a restart from any prefix of the block cache,
\* whichever of its files are empty.
THEOREM UtxoSetExact == BchSpec => []UtxoSetIsExact
<1>1. BchInv => UtxoSetIsExact
  BY DEF BchInv, UtxosAreExact, UtxoSetIsExact, Seen
<1>. QED
  BY <1>1, BchInvariant, PTL

\* What the balance adds up of the blocks and of the mempool has no output in common.
LEMMA Balance ==
    ASSUME BchInv PROVE BalanceCountsOnce
<1>1. bch.scriptpubkey_to_output \subseteq Stored(Seen)
  <2>1. CASE half
    <3>1. unseen = {}
      BY <2>1 DEF BchInv, LivesApart
    <3>2. Seen = confirmed
      BY <3>1 DEF Seen
    <3>. QED
      BY <2>1, <3>2 DEF BchInv, UtxosAreExact, Unspent
  <2>2. CASE ~half
    BY <2>2 DEF BchInv, UtxosAreExact, Unspent
  <2>. QED
    BY <2>1, <2>2
<1>2. /\ bch.mempool_scriptpubkey_to_output \subseteq bch.mempool_outpoint_map
      /\ bch.mempool_outpoint_map \cap Stored(Seen) = {}
  BY DEF BchInv, MempoolIsBounded
<1>. QED
  BY <1>1, <1>2 DEF BalanceCountsOnce

\* What the queries report, from the parts of the invariant about confirmed outputs
\* and the mempool.
LEMMA Queries ==
    ASSUME BchInv, ~half, undone = {}
    PROVE  NothingIsLost /\ SpentOnlyIfRelayed
<1>. DEFINE S == bch.scriptpubkey_to_output
            O == bch.outpoint_map
            M == bch.mempool_scriptpubkey_to_output
            P == bch.mempool_outpoint_map
            X == bch.mempool_spent_confirmed_outpoints
            L == relayed \ Seen
<1>1. S = Stored(Seen) \ SpentBy(Seen) /\ O = S
  <2>1. Stored(undone) = {}
    BY SetsOfUnion
  <2>. QED
    BY <2>1 DEF BchInv, UtxosAreExact, Unspent
<1>2. M \subseteq P /\ P \subseteq Stored(relayed) /\ X \subseteq SpentBy(relayed)
  BY DEF BchInv, MempoolIsBounded
<1>3. /\ Stored(L) \ SpentBy(Told) \subseteq M
      /\ SpentBy(L) \subseteq X \cup Stored(relayed) \cup SpentBy(Seen) \cup early
  BY DEF BchInv, MempoolIsComplete
<1>4. /\ Stored(Told) = Stored(Seen) \cup Stored(L)
      /\ SpentBy(Told) = SpentBy(Seen) \cup SpentBy(L)
      /\ SpentBy(relayed) \subseteq SpentBy(Told)
  <2>1. Told = Seen \cup L /\ relayed \subseteq Told
    BY DEF Told
  <2>. QED
    BY <2>1, SetsOfUnion
<1>5. /\ get_outputs_by_outpoints = {o \in O \cup P : o \in O => o \notin X}
      /\ get_outputs_by_scriptpubkey = (S \ X) \cup M
  BY DEF get_outputs_by_outpoints, get_outputs_by_scriptpubkey
<1>. HIDE DEF S, O, M, P, X, L
<1>6. Unspent(Told) \subseteq get_outputs_by_outpoints \cap get_outputs_by_scriptpubkey
  BY <1>1, <1>2, <1>3, <1>4, <1>5 DEF Unspent
<1>7. (get_outputs_by_outpoints \cup get_outputs_by_scriptpubkey) \cap SpentBy(Told)
          \subseteq Stored(relayed) \cup early
  BY <1>1, <1>2, <1>3, <1>4, <1>5
<1>. QED
  BY <1>6, <1>7 DEF NothingIsLost, SpentOnlyIfRelayed

\* get_outputs_by_outpoints and get_outputs_by_scriptpubkey omit nothing of what bch
\* was told of and that is unspent, report nothing spent unless the mempool brought
\* it or brought what spends it first, and get_balance_by_scriptpubkey adds up no
\* output twice, whatever the mempool brings and in whatever order.
THEOREM QueriesCorrect == BchSpec => []QueriesAreRight
<1>1. BchInv => QueriesAreRight
  BY Balance, Queries DEF QueriesAreRight, NothingIsLost, SpentOnlyIfRelayed
<1>. QED
  BY <1>1, BchInvariant, PTL
-----------------------------------------------------------------------------
(* The slpdb. *)

\* t mints or moves units, so its token has a GENESIS; t may pass on a baton.
Moves(t) ==
    \/ Tx[t].type \in {"genesis", "mint"}
    \/ Tx[t].type = "send" /\ OutputUnits(t) # {}
IsHolder(t) == Tx[t].type \in {"genesis", "mint"}

\* S has the valid parents, of the same token, of its valid transactions.
KinClosed(S) == \A t \in S \cap SlpValid : Kin(t) \subseteq S

\* A baton in db is the one of its transaction, and the only one of its token; the
\* baton of a MINT is among the utxos.
BatonFacts(db) ==
    /\ \A o \in db.batons :
          /\ o.txid \in Txid /\ IsHolder(o.txid) /\ o \in NewBaton(o.txid)
          /\ Tx[o.txid].type = "mint" => o \in db.utxos \cap db.utxo_to_tokenid
    /\ \A o, p \in db.batons : Tx[o.txid].tokenid = Tx[p.txid].tokenid => o = p

\* No MINT's baton in db is spent by C.
NoneSpent(db, C) == \A o \in db.batons : Tx[o.txid].type = "mint" => o \notin SpentBy(C)

\* db knows the tokens of S and has the units of S that C does not spend.
Kept(db, C, S) ==
    \A t \in S \cap SlpValid :
        /\ Moves(t) => Tx[t].tokenid \in db.tokens
        /\ \A v \in 1..(Tx[t].nout - 1) :
              output_slp_amount(t, v) > 0 => Out(t, v) \in db.utxos \cup SpentBy(C)

\* t is a valid MINT of the token k.
Mints(t, k) == t \in SlpValid /\ Tx[t].type = "mint" /\ Tx[t].tokenid = k

\* A are GENESIS and MINT transactions that db accepted, the valid ones of S among
\* them.  The baton of each is in db, or was passed on to another of them, or is
\* spent by a transaction of C that is not among the valid MINTs of its token in R.
Line(db, A, C, R, S) ==
    /\ \A p \in A :
          /\ IsHolder(p) /\ Out(p, 1) \in db.utxos \cup SpentBy(C)
          /\ \A o \in NewBaton(p) :
                \/ o \in db.batons
                \/ \E m \in A : o \in Inputs(m) /\ Tx[m].tokenid = Tx[p].tokenid
                \/ \E u \in C : o \in Inputs(u) /\ ~(u \in R /\ Mints(u, Tx[p].tokenid))
    /\ \A p \in S \cap SlpValid : IsHolder(p) => p \in A

\* The units and the batons of what C has with all its valid ancestors are accounted
\* for, by transactions of C and L.
Accounted(db, C, L) ==
    /\ Kept(db, C, Rooted(C))
    /\ \E A \in SUBSET (C \cup L) : Line(db, A, C, Rooted(C), Rooted(C))

\* The slpdb after the transactions C of blocks and those of L from the mempool.  A
\* double spend among them may make it reject what is valid and has its ancestors,
\* nothing else does.
SlpdbGood(db, C, L) ==
    /\ BatonFacts(db) /\ NoneSpent(db, C)
    /\ NoConflicts(C \cup L) => Accounted(db, C, L)

\* The slpdb is right until a block is undone.
SlpdbInv == undone = {} => SlpdbGood(bch.slpdb, Seen, relayed)

-----------------------------------------------------------------------------
(* The SLP rules. *)

\* The fields of a transaction that the rules look at.
LEMMA FieldTypes ==
    ASSUME NEW t \in Txid
    PROVE  /\ Tx[t].tokenid \in Txid /\ Tx[t].nout \in Nat /\ Tx[t].mint_baton_vout \in Nat
           /\ Tx[t].type \in SlpType
           /\ DOMAIN Tx[t].inputs = 1..Len(Tx[t].inputs) /\ Len(Tx[t].inputs) \in Nat
           /\ DOMAIN Tx[t].amounts = 1..Len(Tx[t].amounts) /\ Len(Tx[t].amounts) \in Nat
           /\ \A i \in DOMAIN Tx[t].inputs : Tx[t].inputs[i] \in Outpoint
           /\ \A v \in Nat : output_slp_amount(t, v) \in Amount
<1>1. /\ Tx[t].tokenid \in Txid /\ Tx[t].nout \in Nat /\ Tx[t].mint_baton_vout \in Nat
      /\ Tx[t].type \in SlpType /\ Tx[t].qty \in Amount
      /\ Tx[t].inputs \in Seq(Outpoint) /\ Tx[t].amounts \in Seq(Amount)
  BY TxType DEF Transaction
<1>2. /\ DOMAIN Tx[t].inputs = 1..Len(Tx[t].inputs) /\ Len(Tx[t].inputs) \in Nat
      /\ DOMAIN Tx[t].amounts = 1..Len(Tx[t].amounts) /\ Len(Tx[t].amounts) \in Nat
      /\ \A i \in DOMAIN Tx[t].inputs : Tx[t].inputs[i] \in Outpoint
      /\ \A i \in DOMAIN Tx[t].amounts : Tx[t].amounts[i] \in Amount
  BY <1>1
<1>3. 0 \in Amount
  BY MaxAmountAssumption DEF Amount
<1>. QED
  BY <1>1, <1>2, <1>3 DEF output_slp_amount

\* Enlarging the set of valid transactions takes no justification away.
LEMMA JustifiedMono ==
    ASSUME NEW t \in Txid, NEW V, NEW W, V \subseteq W, Justified(t, V)
    PROVE  Justified(t, W)
<1>1. CASE Tx[t].type = "send"
  <2>1. SpentUnits(t, V) \subseteq SpentUnits(t, W)
    BY DEF SpentUnits
  <2>2. ExistsInjection(OutputUnits(t), SpentUnits(t, V))
    BY <1>1 DEF Justified
  <2>3. ExistsInjection(OutputUnits(t), SpentUnits(t, W))
    BY <2>1, <2>2 DEF ExistsInjection, Injection
  <2>. QED
    BY <1>1, <2>3 DEF Justified
<1>2. CASE Tx[t].type # "send"
  BY <1>2 DEF Justified
<1>. QED
  BY <1>1, <1>2

\* SlpValid is part of every set of valid transactions that the rules add nothing
\* to, even if they are applied to it alone.
LEMMA SlpValidLeast ==
    ASSUME NEW W \in SUBSET SlpValid,
           \A t \in SlpValid \ W : ~Justified(t, W)
    PROVE  W = SlpValid
<1>1. SlpValid \subseteq Txid
  BY DEF SlpValid
<1>2. ASSUME NEW t \in Txid, Justified(t, W) PROVE t \in SlpValid
  <2>. SUFFICES ASSUME NEW V \in ClosedSets PROVE t \in V
    BY DEF SlpValid
  <2>1. W \subseteq V
    BY DEF SlpValid
  <2>2. Justified(t, V)
    BY <1>2, <2>1, JustifiedMono
  <2>. QED
    BY <2>2 DEF ClosedSets, ClosedUnderRules
<1>3. W \in ClosedSets
  BY <1>1, <1>2 DEF ClosedSets, ClosedUnderRules
<1>. QED
  BY <1>3 DEF SlpValid

\* What is valid is justified by what is valid, and holds an SLP message.
LEMMA SlpValidJustified ==
    ASSUME NEW t \in SlpValid
    PROVE  t \in Txid /\ Justified(t, SlpValid) /\ Tx[t].type \in {"genesis", "mint", "send"}
<1>. DEFINE W == {u \in SlpValid : Justified(u, SlpValid)}
<1>1. SlpValid \subseteq Txid
  BY DEF SlpValid
<1>2. ASSUME NEW u \in SlpValid \ W, Justified(u, W) PROVE FALSE
  <2>1. Justified(u, SlpValid)
    BY <1>1, <1>2, JustifiedMono
  <2>. QED
    BY <1>2, <2>1
<1>3. W = SlpValid
  <2>. HIDE DEF W
  <2>1. W \in SUBSET SlpValid
    BY DEF W
  <2>. QED
    BY <1>2, <2>1, SlpValidLeast
<1>4. Justified(t, SlpValid)
  BY <1>3
<1>. QED
  BY <1>1, <1>4 DEF Justified

\* A transaction with units on an output moves units.
LEMMA UnitsMove ==
    ASSUME NEW p \in Txid, NEW v \in Nat, output_slp_amount(p, v) > 0
    PROVE  Moves(p)
<1>1. CASE Tx[p].type = "send" /\ v \in DOMAIN Tx[p].amounts
  <2>. DEFINE x == Tx[p].amounts[v]
  <2>1. output_slp_amount(p, v) = x
    BY <1>1 DEF output_slp_amount
  <2>2. x \in 1..MaxAmount
    <3>1. output_slp_amount(p, v) \in Amount
      BY FieldTypes
    <3>2. x \in Amount /\ x > 0
      BY <2>1, <3>1
    <3>. QED
      BY <3>2, MaxAmountAssumption DEF Amount
  <2>3. <<v, x>> \in (DOMAIN Tx[p].amounts) \X (1..MaxAmount)
    BY <1>1, <2>2
  <2>4. <<v, x>>[2] <= Tx[p].amounts[<<v, x>>[1]]
    BY <2>2, MaxAmountAssumption
  <2>5. <<v, x>> \in OutputUnits(p)
    BY <2>3, <2>4 DEF OutputUnits
  <2>. QED
    BY <1>1, <2>5 DEF Moves
<1>2. CASE Tx[p].type \in {"mint", "genesis"}
  BY <1>2 DEF Moves
<1>3. CASE ~(Tx[p].type = "send" /\ v \in DOMAIN Tx[p].amounts) /\ Tx[p].type \notin {"mint", "genesis"}
  BY <1>3 DEF output_slp_amount
<1>. QED
  BY <1>1, <1>2, <1>3

\* A SEND that moves units spends a transaction of its token that holds units.
LEMMA SendHasSource ==
    ASSUME NEW t \in Txid, Tx[t].type = "send", OutputUnits(t) # {}, NEW V \in SUBSET Txid,
           Justified(t, V)
    PROVE  \E p \in Parents(t) \cap V : SameToken(t, p) /\ Moves(p)
<1>1. SpentUnits(t, V) # {}
  BY DEF Justified, ExistsInjection, Injection
<1>2. PICK u \in (DOMAIN Tx[t].inputs) \X (1..MaxAmount) :
          /\ Tx[t].inputs[u[1]].txid \in V
          /\ SameToken(t, Tx[t].inputs[u[1]].txid)
          /\ u[2] <= output_slp_amount(Tx[t].inputs[u[1]].txid, Tx[t].inputs[u[1]].vout)
  BY <1>1 DEF SpentUnits
<1>. DEFINE o == Tx[t].inputs[u[1]]
            p == o.txid
<1>3. u[1] \in DOMAIN Tx[t].inputs /\ u[2] \in 1..MaxAmount /\ o \in Outpoint
  BY FieldTypes
<1>4. p \in Parents(t) /\ p \in Txid /\ o.vout \in Nat
  BY <1>3 DEF Parents, Inputs, Outpoint
<1>5. output_slp_amount(p, o.vout) > 0
  <2>1. output_slp_amount(p, o.vout) \in Amount
    BY <1>4, FieldTypes
  <2>. HIDE DEF o, p
  <2>. QED
    BY <1>2, <1>3, <2>1, MaxAmountAssumption DEF Amount, o, p
<1>6. Moves(p)
  BY <1>4, <1>5, UnitsMove
<1>. QED
  BY <1>2, <1>4, <1>6

\* A set with the valid kin of its valid transactions has the GENESIS of each
\* that stands on one.
LEMMA TokenIsIn ==
    ASSUME NEW S \in SUBSET Txid, KinClosed(S), NEW t \in S \cap SlpValid, Moves(t)
    PROVE  Tx[t].tokenid \in S /\ Tx[Tx[t].tokenid].type = "genesis"
<1>. DEFINE Stands(u) == u \in S /\ Moves(u) => Tx[u].tokenid \in S /\ Tx[Tx[u].tokenid].type = "genesis"
            W == {u \in SlpValid : Stands(u)}
<1>1. ASSUME NEW u \in SlpValid \ W, Justified(u, W) PROVE FALSE
  <2>1. u \in Txid /\ u \in S /\ Moves(u) /\ ~Stands(u) /\ W \in SUBSET Txid
    BY <1>1, SlpValidJustified
  <2>2. ASSUME NEW p \in Parents(u) \cap W, SameToken(u, p), Moves(p) PROVE FALSE
    <3>1. p \in S
      BY <1>1, <2>1, <2>2 DEF KinClosed, Kin
    <3>. QED
      BY <2>1, <2>2, <3>1 DEF SameToken
  <2>. HIDE DEF W
  <2>3. CASE Tx[u].type = "genesis"
    BY <2>1, <2>3, GenesisAssumption DEF OwnToken
  <2>4. CASE Tx[u].type = "mint"
    BY <1>1, <2>2, <2>4 DEF Justified, Moves
  <2>5. CASE Tx[u].type = "send"
    <3>1. OutputUnits(u) # {}
      BY <2>1, <2>5 DEF Moves
    <3>. QED
      BY <1>1, <2>1, <2>2, <2>5, <3>1, SendHasSource
  <2>. QED
    BY <2>1, <2>3, <2>4, <2>5 DEF Moves
<1>2. W = SlpValid
  <2>1. W \in SUBSET SlpValid
    OBVIOUS
  <2>. HIDE DEF W
  <2>. QED
    BY <1>1, <2>1, SlpValidLeast
<1>. QED
  BY <1>2

\* A valid MINT spends the baton of a valid GENESIS or MINT of its token.
LEMMA MintHasSource ==
    ASSUME NEW t \in SlpValid, Tx[t].type = "mint"
    PROVE  \E p \in Kin(t) :
               /\ p \in SlpValid /\ IsHolder(p) /\ Tx[p].tokenid = Tx[t].tokenid
               /\ \E o \in Inputs(t) : NewBaton(p) = {o}
<1>1. t \in Txid /\ Justified(t, SlpValid)
  BY SlpValidJustified
<1>2. PICK p \in Parents(t) \cap SlpValid :
          /\ SameToken(t, p) /\ Tx[p].type \in {"mint", "genesis"}
          /\ mint_baton_outpoint(p) \in Inputs(t)
  BY <1>1 DEF Justified
<1>. DEFINE o == mint_baton_outpoint(p)
<1>3. PICK i \in DOMAIN Tx[t].inputs : o = Tx[t].inputs[i]
  BY <1>2 DEF Inputs
<1>4. o.txid = p
  BY DEF mint_baton_outpoint
<1>5. o.vout # 0
  <2>1. Spendable(t)
    BY <1>1, ConsensusAssumption
  <2>. HIDE DEF o
  <2>. QED
    BY <1>2, <1>3, <1>4, <2>1 DEF Spendable
<1>6. Tx[p].mint_baton_vout < Tx[p].nout /\ Tx[p].mint_baton_vout # 0 /\ o = Out(p, Tx[p].mint_baton_vout)
  BY <1>5 DEF mint_baton_outpoint, Out
<1>7. NewBaton(p) = {o}
  BY <1>6 DEF NewBaton
<1>. QED
  BY <1>2, <1>7 DEF SameToken, IsHolder, Kin

\* Rooted(C) is the largest part of C, of valid transactions, that has their kin.
LEMMA RootedOf ==
    ASSUME NEW C
    PROVE  /\ Rooted(C) \subseteq C \cap SlpValid /\ Rooted(C) \in SUBSET Txid
           /\ \A t \in Rooted(C) : Kin(t) \subseteq Rooted(C)
           /\ KinClosed(Rooted(C))
           /\ \A S \in SUBSET (C \cap SlpValid) :
                 (\A t \in S : Kin(t) \subseteq S) => S \subseteq Rooted(C)
<1>1. Rooted(C) \subseteq C \cap SlpValid
  BY DEF Rooted
<1>2. \A S \in SUBSET (C \cap SlpValid) : (\A t \in S : Kin(t) \subseteq S) => S \subseteq Rooted(C)
  BY DEF Rooted
<1>3. ASSUME NEW t \in Rooted(C) PROVE Kin(t) \subseteq Rooted(C)
  <2>1. PICK S \in SUBSET (C \cap SlpValid) : t \in S /\ \A u \in S : Kin(u) \subseteq S
    BY DEF Rooted
  <2>. QED
    BY <1>2, <2>1
<1>4. SlpValid \subseteq Txid
  BY DEF SlpValid
<1>. QED
  BY <1>1, <1>2, <1>3, <1>4 DEF KinClosed

\* What a block adds to C gives what was in C no ancestors that it did not have, if
\* nothing of C spends from the block, and the block is new or all of its valid
\* transactions are there.
NoNewAncestors(C, B) ==
    /\ \A u \in C \ B : Parents(u) \cap B = {}
    /\ B \cap C = {} \/ B \cap SlpValid \subseteq C

\* Then Rooted keeps what it had and takes nothing more from C.
LEMMA RootedGrows ==
    ASSUME NEW C, NEW B, NoNewAncestors(C, B)
    PROVE  Rooted(C) \subseteq Rooted(C \cup B) /\ Rooted(C \cup B) \cap C \subseteq Rooted(C)
<1>. DEFINE R0 == Rooted(C)
            R == Rooted(C \cup B)
<1>1. /\ R0 \subseteq C \cap SlpValid /\ \A t \in R0 : Kin(t) \subseteq R0
      /\ \A S \in SUBSET (C \cap SlpValid) : (\A t \in S : Kin(t) \subseteq S) => S \subseteq R0
  BY RootedOf
<1>2. /\ R \subseteq (C \cup B) \cap SlpValid /\ \A t \in R : Kin(t) \subseteq R
      /\ \A S \in SUBSET ((C \cup B) \cap SlpValid) : (\A t \in S : Kin(t) \subseteq S) => S \subseteq R
  BY RootedOf
<1>. HIDE DEF R0, R
<1>3. R0 \subseteq R
  BY <1>1, <1>2
<1>4. CASE B \cap SlpValid \subseteq C
  <2>1. R \in SUBSET (C \cap SlpValid)
    BY <1>2, <1>4
  <2>. QED
    BY <1>1, <1>2, <1>3, <2>1 DEF R0, R
<1>5. CASE B \cap C = {}
  <2>. DEFINE S == R \cap C
  <2>1. S \in SUBSET (C \cap SlpValid)
    BY <1>2
  <2>2. ASSUME NEW t \in S PROVE Kin(t) \subseteq S
    <3>1. Kin(t) \subseteq R /\ Kin(t) \cap B = {}
      BY <1>2, <1>5 DEF NoNewAncestors, Kin
    <3>. QED
      BY <1>2, <3>1
  <2>. HIDE DEF S
  <2>3. S \subseteq R0
    BY <1>1, <2>1, <2>2
  <2>. QED
    BY <1>3, <2>3 DEF S, R0, R
<1>. QED
  BY <1>4, <1>5 DEF NoNewAncestors

-----------------------------------------------------------------------------
(* The operations of the slpdb. *)

\* A transaction has one baton, at an output of its own.
LEMMA BatonIsOwn ==
    ASSUME NEW t \in Txid, NEW o \in NewBaton(t)
    PROVE  o \in Outpoint /\ o.txid = t /\ NewBaton(t) = {o}
BY FieldTypes, OutOfTx DEF NewBaton

\* add_transaction leaves db alone, or adds to its utxos; a GENESIS always comes in,
\* a MINT if it spends the baton of its token, a SEND if its units are there.
AddsGenesis(db, db2, t) ==
    /\ Tx[t].type = "genesis" /\ db2.tokens = db.tokens \cup {t}
    /\ Out(t, 1) \in db2.utxos /\ db2.batons = WithBaton(db, t)
AddsMint(db, db2, t) ==
    /\ Tx[t].type = "mint" /\ db2.tokens = db.tokens
    /\ BatonOf(db, Tx[t].tokenid) # {} /\ BatonOf(db, Tx[t].tokenid) \subseteq Inputs(t)
    /\ {Out(t, 1)} \cup NewBaton(t) \subseteq db2.utxos \cap db2.utxo_to_tokenid
    /\ db2.batons = WithBaton(db, t)
AddsSend(db, db2, t) ==
    /\ Tx[t].type = "send" /\ db2.tokens = db.tokens /\ db2.batons = db.batons
    /\ \A v \in DOMAIN Tx[t].amounts : v < Tx[t].nout => Out(t, v) \in db2.utxos
Rejects(db, db2, t) ==
    /\ db2 = db /\ Tx[t].type # "genesis"
    /\ Tx[t].tokenid \in db.tokens /\ Tx[t].type = "mint" =>
          BatonOf(db, Tx[t].tokenid) = {} \/ ~(BatonOf(db, Tx[t].tokenid) \subseteq Inputs(t))
    /\ Tx[t].tokenid \in db.tokens /\ Tx[t].type = "send" =>
          Cardinality(TokenOutputUnits(t)) > Cardinality(TokenInputUnits(db, t))

\* What slpdb::add_transaction does, case by case.
LEMMA AddTransactionCases ==
    ASSUME NEW db \in Slpdb, NEW t \in Txid, NEW db2, db2 = add_transaction(db, t)
    PROVE  /\ db.utxos \subseteq db2.utxos /\ db.utxo_to_tokenid \subseteq db2.utxo_to_tokenid
           /\ db.tokens \subseteq db2.tokens
           /\ \/ AddsGenesis(db, db2, t) \/ AddsMint(db, db2, t)
              \/ AddsSend(db, db2, t) \/ Rejects(db, db2, t)
<1>1. CASE Tx[t].type = "genesis"
  <2>1. db2 = AddGenesis(db, t)
    BY <1>1 DEF add_transaction
  <2>. QED
    BY <1>1, <2>1 DEF AddGenesis, AddsGenesis
<1>2. CASE Tx[t].type = "mint" /\ Tx[t].tokenid \in db.tokens
  <2>1. db2 = AddMint(db, t)
    BY <1>2 DEF add_transaction
  <2>. DEFINE baton == BatonOf(db, Tx[t].tokenid)
  <2>2. CASE baton = {} \/ ~(baton \subseteq Inputs(t))
    <3>1. db2 = db
      BY <2>1, <2>2 DEF AddMint
    <3>. QED
      BY <1>2, <2>2, <3>1 DEF Rejects
  <2>3. CASE ~(baton = {} \/ ~(baton \subseteq Inputs(t)))
    <3>1. db2 = [tokens |-> db.tokens,
                 transactions |-> db.transactions \cup {t},
                 utxos |-> db.utxos \cup {Out(t, 1)} \cup NewBaton(t),
                 utxo_to_tokenid |-> db.utxo_to_tokenid \cup {Out(t, 1)} \cup NewBaton(t),
                 batons |-> WithBaton(db, t)]
      BY <2>1, <2>3 DEF AddMint
    <3>. QED
      BY <1>2, <2>3, <3>1 DEF AddsMint
  <2>. QED
    BY <2>2, <2>3
<1>3. CASE Tx[t].type = "send" /\ Tx[t].tokenid \in db.tokens
  <2>1. db2 = AddSend(db, t)
    BY <1>3 DEF add_transaction
  <2>. DEFINE outs == {Out(t, v) : v \in {w \in DOMAIN Tx[t].amounts : w - 1 < 1 + Tx[t].nout}}
              poor == Cardinality(TokenOutputUnits(t)) > Cardinality(TokenInputUnits(db, t))
  <2>2. CASE poor
    <3>1. db2 = db
      BY <2>1, <2>2 DEF AddSend
    <3>. QED
      BY <1>3, <2>2, <3>1 DEF Rejects
  <2>3. CASE ~poor
    <3>1. db2 = [db EXCEPT !.transactions = @ \cup {t},
                           !.utxos = @ \cup outs,
                           !.utxo_to_tokenid = @ \cup outs]
      BY <2>1, <2>3 DEF AddSend
    <3>2. \A v \in DOMAIN Tx[t].amounts : v < Tx[t].nout => Out(t, v) \in outs
      BY FieldTypes
    <3>. HIDE DEF outs
    <3>3. /\ db2.utxos = db.utxos \cup outs /\ db2.utxo_to_tokenid = db.utxo_to_tokenid \cup outs
          /\ db2.tokens = db.tokens /\ db2.batons = db.batons
      BY <3>1 DEF Slpdb
    <3>. QED
      BY <1>3, <3>2, <3>3 DEF AddsSend
  <2>. QED
    BY <2>2, <2>3
<1>4. CASE /\ Tx[t].type # "genesis"
           /\ ~(Tx[t].type \in {"mint", "send"} /\ Tx[t].tokenid \in db.tokens)
  <2>1. db2 = db
    BY <1>4 DEF add_transaction
  <2>. QED
    BY <1>4, <2>1 DEF Rejects
<1>. QED
  BY <1>1, <1>2, <1>3, <1>4

\* A spent output leaves the utxos, and if it is a baton there, the batons.
LEMMA RemoveOf ==
    ASSUME NEW db \in Slpdb, NEW spent, NEW db2, db2 = remove_slp_utxos(db, spent)
    PROVE  LET gone == spent \cap db.utxo_to_tokenid \cap db.utxos
           IN  /\ db2 \in Slpdb
               /\ db2.utxos = db.utxos \ gone /\ db2.batons = db.batons \ gone
               /\ db2.tokens = db.tokens /\ db2.utxo_to_tokenid = db.utxo_to_tokenid
<1>. DEFINE gone == spent \cap db.utxo_to_tokenid \cap db.utxos
<1>1. db2 = [db EXCEPT !.utxos = @ \ gone, !.batons = @ \ gone]
  BY DEF remove_slp_utxos
<1>. HIDE DEF gone
<1>2. /\ db2.utxos = db.utxos \ gone /\ db2.batons = db.batons \ gone
      /\ db2.tokens = db.tokens /\ db2.utxo_to_tokenid = db.utxo_to_tokenid
      /\ db2 \in Slpdb
  BY <1>1 DEF Slpdb
<1>. QED
  BY <1>2 DEF gone

\* add_transaction names no baton but the one of its transaction, and keeps one for
\* each token.
LEMMA AddBatonFacts ==
    ASSUME NEW db \in Slpdb, NEW t \in Txid, NEW db2, db2 = add_transaction(db, t), BatonFacts(db)
    PROVE  BatonFacts(db2) /\ \A o \in db2.batons : o \in db.batons \/ o.txid = t
<1>1. /\ db.utxos \subseteq db2.utxos /\ db.utxo_to_tokenid \subseteq db2.utxo_to_tokenid
      /\ \/ AddsGenesis(db, db2, t) \/ AddsMint(db, db2, t)
         \/ AddsSend(db, db2, t) \/ Rejects(db, db2, t)
  BY AddTransactionCases
<1>2. CASE db2.batons = db.batons
  BY <1>1, <1>2 DEF BatonFacts
<1>3. CASE /\ db2.batons = WithBaton(db, t) /\ IsHolder(t) /\ NewBaton(t) # {}
           /\ Tx[t].type = "mint" => NewBaton(t) \subseteq db2.utxos \cap db2.utxo_to_tokenid
  <2>1. db2.batons = (db.batons \ BatonOf(db, Tx[t].tokenid)) \cup NewBaton(t)
    BY <1>3 DEF WithBaton
  <2>2. PICK b : NewBaton(t) = {b} /\ b.txid = t
    BY <1>3, BatonIsOwn
  <2>3. \A o \in db2.batons : o = b \/ (o \in db.batons /\ Tx[o.txid].tokenid # Tx[t].tokenid)
    BY <2>1, <2>2 DEF BatonOf
  <2>. QED
    BY <1>1, <1>3, <2>2, <2>3 DEF BatonFacts
<1>4. NewBaton(t) = {} => WithBaton(db, t) = db.batons
  BY DEF WithBaton
<1>. QED
  BY <1>1, <1>2, <1>3, <1>4 DEF AddsGenesis, AddsMint, AddsSend, Rejects, IsHolder

\* What is kept stays kept while the slpdb grows.
LEMMA KeptMono ==
    ASSUME NEW db, NEW db2, NEW C, NEW S, Kept(db, C, S),
           db.utxos \subseteq db2.utxos, db.tokens \subseteq db2.tokens
    PROVE  Kept(db2, C, S)
BY DEF Kept

\* The batons are handed on when a transaction is added that is new to S.
LEMMA AddLine ==
    ASSUME NEW db \in Slpdb, NEW t \in Txid, NEW db2, db2 = add_transaction(db, t), BatonFacts(db),
           NEW K \in SUBSET Txid, NoConflicts(K), t \in K,
           NEW C \in SUBSET K, NEW A \in SUBSET K, NEW S \in SUBSET Txid,
           NEW R, NEW S2, S2 \in {S, S \cup {t}},
           t \notin S, KinClosed(S), t \in S2 => t \in R /\ Kin(t) \subseteq S,
           Kept(db, C, S), Line(db, A, C, R, S)
    PROVE  \E A2 \in SUBSET (A \cup {t}) : Line(db2, A2, C, R, S2)
<1>. DEFINE k == Tx[t].tokenid
<1>1. /\ db.utxos \subseteq db2.utxos
      /\ \/ AddsGenesis(db, db2, t) \/ AddsMint(db, db2, t)
         \/ AddsSend(db, db2, t) \/ Rejects(db, db2, t)
  BY AddTransactionCases
<1>2. /\ \A p \in A : IsHolder(p) /\ Out(p, 1) \in db2.utxos \cup SpentBy(C)
      /\ \A p \in S \cap SlpValid : IsHolder(p) => p \in A
  BY <1>1 DEF Line
<1>3. ASSUME NEW p \in A, NEW o \in NewBaton(p)
      PROVE  \/ o \in db.batons
             \/ \E m \in A : o \in Inputs(m) /\ Tx[m].tokenid = Tx[p].tokenid
             \/ \E u \in C : o \in Inputs(u) /\ ~(u \in R /\ Mints(u, Tx[p].tokenid))
  BY <1>3 DEF Line
<1>4. WithBaton(db, t) = IF NewBaton(t) = {} THEN db.batons
                         ELSE (db.batons \ BatonOf(db, k)) \cup NewBaton(t)
  BY DEF WithBaton
<1>5. /\ \A o \in db.batons : o \notin WithBaton(db, t) => o \in BatonOf(db, k)
      /\ NewBaton(t) \subseteq WithBaton(db, t)
      /\ \A o \in BatonOf(db, k) : o \in db.batons /\ Tx[o.txid].tokenid = k
  BY <1>4 DEF BatonOf
<1>6. CASE AddsGenesis(db, db2, t)
  <2>. DEFINE A2 == {p \in A : Tx[p].tokenid # k} \cup {t}
  <2>1. k = t
    BY <1>6, GenesisAssumption DEF AddsGenesis, OwnToken
  <2>2. ASSUME NEW p \in A, Tx[p].tokenid # k, NEW o \in NewBaton(p)
        PROVE  \/ o \in db2.batons
               \/ \E m \in A2 : o \in Inputs(m) /\ Tx[m].tokenid = Tx[p].tokenid
               \/ \E u \in C : o \in Inputs(u) /\ ~(u \in R /\ Mints(u, Tx[p].tokenid))
    <3>1. o \in db.batons => o \in db2.batons
      <4>1. o.txid = p
        BY <2>2, BatonIsOwn
      <4>. QED
        BY <1>5, <1>6, <2>2, <4>1 DEF AddsGenesis
    <3>. QED
      BY <1>3, <2>2, <3>1
  <2>3. \A p \in A2 : IsHolder(p) /\ Out(p, 1) \in db2.utxos \cup SpentBy(C)
    BY <1>2, <1>6 DEF AddsGenesis, IsHolder
  <2>4. \A o \in NewBaton(t) : o \in db2.batons
    BY <1>5, <1>6 DEF AddsGenesis
  <2>5. ASSUME NEW p \in S2 \cap SlpValid, IsHolder(p) PROVE p \in A2
    <3>. SUFFICES ASSUME p # t PROVE p \in A /\ Tx[p].tokenid # k
      OBVIOUS
    <3>1. p \in S \cap SlpValid
      BY <2>5
    <3>2. Tx[p].tokenid \in S
      BY <2>5, <3>1, TokenIsIn DEF Moves, IsHolder
    <3>. QED
      BY <1>2, <2>1, <2>5, <3>1, <3>2
  <2>6. Line(db2, A2, C, R, S2)
    BY <2>2, <2>3, <2>4, <2>5 DEF Line
  <2>7. A2 \in SUBSET (A \cup {t})
    OBVIOUS
  <2>. QED
    BY <2>6, <2>7
<1>7. CASE AddsMint(db, db2, t)
  <2>. DEFINE A2 == A \cup {t}
  <2>1. ASSUME NEW p \in A, NEW o \in NewBaton(p)
        PROVE  \/ o \in db2.batons
               \/ \E m \in A2 : o \in Inputs(m) /\ Tx[m].tokenid = Tx[p].tokenid
               \/ \E u \in C : o \in Inputs(u) /\ ~(u \in R /\ Mints(u, Tx[p].tokenid))
    <3>1. o.txid = p
      BY BatonIsOwn
    <3>2. ASSUME o \in db.batons, o \notin db2.batons
          PROVE  o \in Inputs(t) /\ Tx[t].tokenid = Tx[p].tokenid
      BY <1>5, <1>7, <3>1, <3>2 DEF AddsMint
    <3>. QED
      BY <1>3, <3>2
  <2>2. \A p \in A2 : IsHolder(p) /\ Out(p, 1) \in db2.utxos \cup SpentBy(C)
    BY <1>2, <1>7 DEF AddsMint, IsHolder
  <2>3. \A o \in NewBaton(t) : o \in db2.batons
    BY <1>5, <1>7 DEF AddsMint
  <2>4. \A p \in S2 \cap SlpValid : IsHolder(p) => p \in A2
    BY <1>2
  <2>5. Line(db2, A2, C, R, S2)
    BY <2>1, <2>2, <2>3, <2>4 DEF Line
  <2>. QED
    BY <2>5
<1>8. CASE AddsSend(db, db2, t) \/ Rejects(db, db2, t)
  <2>1. db2.batons = db.batons
    BY <1>8 DEF AddsSend, Rejects
  <2>2. ASSUME t \in S2, t \in SlpValid, IsHolder(t) PROVE t \in A
    <3>1. Rejects(db, db2, t) /\ Tx[t].type = "mint"
      BY <1>8, <2>2 DEF AddsSend, Rejects, IsHolder
    <3>2. PICK p \in Kin(t) :
              /\ p \in SlpValid /\ IsHolder(p) /\ Tx[p].tokenid = k
              /\ \E o \in Inputs(t) : NewBaton(p) = {o}
      BY <2>2, <3>1, MintHasSource
    <3>3. PICK o \in Inputs(t) : NewBaton(p) = {o}
      BY <3>2
    <3>4. p \in S
      BY <2>2, <3>2
    <3>5. k \in db.tokens
      BY <3>2, <3>4 DEF Kept, Moves, IsHolder
    <3>6. p \in A
      BY <1>2, <3>2, <3>4
    <3>7. o \notin db.batons
      <4>. SUFFICES ASSUME o \in db.batons PROVE FALSE
        OBVIOUS
      <4>1. o.txid = p
        BY <3>3, <3>4, BatonIsOwn
      <4>2. BatonOf(db, k) = {o}
        BY <3>2, <4>1 DEF BatonOf, BatonFacts
      <4>. QED
        BY <3>1, <3>5, <4>2 DEF Rejects
    <3>8. \A u \in K : o \in Inputs(u) => u = t
      BY DEF NoConflicts, Conflict
    <3>. QED
      BY <1>3, <2>2, <3>1, <3>2, <3>3, <3>6, <3>7, <3>8 DEF Mints
  <2>3. Line(db2, A, C, R, S2)
    BY <1>2, <1>3, <2>1, <2>2 DEF Line
  <2>. QED
    BY <2>3
<1>. QED
  BY <1>1, <1>6, <1>7, <1>8

\* The sums of AddSend are finite.
LEMMA UnitsAreFinite ==
    ASSUME NEW db, NEW t \in Txid
    PROVE  IsFiniteSet(TokenInputUnits(db, t)) /\ IsFiniteSet(TokenOutputUnits(t))
<1>. DEFINE m == Len(Tx[t].inputs)
            n == Len(Tx[t].amounts)
<1>1. m \in Nat /\ n \in Nat /\ DOMAIN Tx[t].inputs = 1..m /\ DOMAIN Tx[t].amounts = 1..n
  BY FieldTypes
<1>. HIDE DEF m, n
<1>2. IsFiniteSet(1..m) /\ IsFiniteSet(1..n) /\ IsFiniteSet(1..MaxAmount)
  <2>1. 1 \in Int /\ m \in Int /\ n \in Int /\ MaxAmount \in Int
    BY <1>1, MaxAmountAssumption
  <2>. QED
    BY <2>1, FS_Interval, Zenon
<1>3. IsFiniteSet((1..m) \X (1..MaxAmount)) /\ IsFiniteSet((1..n) \X (1..MaxAmount))
  BY <1>2, FS_Product, Zenon
<1>4. /\ TokenInputUnits(db, t) \subseteq (1..m) \X (1..MaxAmount)
      /\ TokenOutputUnits(t) \subseteq (1..n) \X (1..MaxAmount)
  BY <1>1 DEF TokenInputUnits, TokenOutputUnits
<1>. QED
  BY <1>3, <1>4, FS_Subset

\* The units of a valid transaction come in, if the units it spends are there.
LEMMA AddKept ==
    ASSUME NEW db \in Slpdb, NEW t \in Txid, NEW db2, db2 = add_transaction(db, t),
           NEW C \in SUBSET Txid, NEW S \in SUBSET Txid, Kept(db, C, S),
           Kin(t) \subseteq S, Inputs(t) \cap SpentBy(C) = {},
           t \in SlpValid /\ IsHolder(t) => Out(t, 1) \in db2.utxos \cup SpentBy(C)
    PROVE  Kept(db2, C, S \cup {t})
<1>1. /\ db.utxos \subseteq db2.utxos /\ db.tokens \subseteq db2.tokens
      /\ \/ AddsGenesis(db, db2, t) \/ AddsMint(db, db2, t)
         \/ AddsSend(db, db2, t) \/ Rejects(db, db2, t)
  BY AddTransactionCases
<1>2. Kept(db2, C, S)
  BY <1>1, KeptMono
<1>. SUFFICES ASSUME t \in SlpValid
              PROVE  /\ Moves(t) => Tx[t].tokenid \in db2.tokens
                     /\ \A v \in 1..(Tx[t].nout - 1) :
                           output_slp_amount(t, v) > 0 => Out(t, v) \in db2.utxos \cup SpentBy(C)
  BY <1>2 DEF Kept
<1>3. Justified(t, SlpValid) /\ Tx[t].type \in {"genesis", "mint", "send"} /\ SlpValid \subseteq Txid
  BY SlpValidJustified
<1>4. \A p \in Kin(t) : Moves(p) => Tx[p].tokenid \in db.tokens
  BY DEF Kept, Kin
<1>5. CASE Tx[t].type = "genesis"
  <2>1. Tx[t].tokenid = t
    BY <1>5, GenesisAssumption DEF OwnToken
  <2>2. t \in db2.tokens
    BY <1>1, <1>5 DEF AddsGenesis, AddsMint, AddsSend, Rejects
  <2>3. \A v : output_slp_amount(t, v) > 0 => v = 1
    BY <1>5 DEF output_slp_amount
  <2>. QED
    BY <1>5, <2>1, <2>2, <2>3 DEF IsHolder
<1>6. CASE Tx[t].type = "mint"
  <2>1. Tx[t].tokenid \in db2.tokens
    BY <1>1, <1>4, <1>6, MintHasSource DEF Moves, IsHolder
  <2>2. \A v : output_slp_amount(t, v) > 0 => v = 1
    BY <1>6 DEF output_slp_amount
  <2>. QED
    BY <1>6, <2>1, <2>2 DEF IsHolder
<1>7. CASE Tx[t].type = "send"
  <2>1. ASSUME Moves(t) PROVE Tx[t].tokenid \in db.tokens
    <3>1. OutputUnits(t) # {}
      BY <1>7, <2>1 DEF Moves
    <3>2. PICK p \in Parents(t) \cap SlpValid : SameToken(t, p) /\ Moves(p)
      BY <1>3, <1>7, <3>1, SendHasSource
    <3>. QED
      BY <1>4, <3>2 DEF SameToken, Kin
  <2>2. ASSUME NEW v \in 1..(Tx[t].nout - 1), output_slp_amount(t, v) > 0
        PROVE  Out(t, v) \in db2.utxos
    <3>1. v \in Nat /\ v < Tx[t].nout
      BY FieldTypes
    <3>2. Moves(t) /\ v \in DOMAIN Tx[t].amounts
      BY <1>7, <2>2, <3>1, UnitsMove DEF output_slp_amount
    <3>3. SpentUnits(t, SlpValid) \subseteq TokenInputUnits(db, t)
      <4>. SUFFICES ASSUME NEW u \in SpentUnits(t, SlpValid) PROVE u \in TokenInputUnits(db, t)
        OBVIOUS
      <4>. DEFINE o == Tx[t].inputs[u[1]]
                  p == o.txid
      <4>1. /\ u \in (DOMAIN Tx[t].inputs) \X (1..MaxAmount)
            /\ p \in SlpValid /\ SameToken(t, p) /\ u[2] <= output_slp_amount(p, o.vout)
        BY DEF SpentUnits
      <4>2. u[1] \in DOMAIN Tx[t].inputs /\ u[2] \in 1..MaxAmount
        BY <4>1
      <4>3. o \in Outpoint /\ o \in Inputs(t) /\ p \in Parents(t)
        BY <4>2, FieldTypes DEF Inputs, Parents
      <4>4. o.vout < Tx[p].nout /\ o.vout # 0
        <5>1. Spendable(t) /\ Tx[p].type # "invalid"
          BY <4>1, SlpValidJustified, ConsensusAssumption
        <5>. QED
          BY <4>2, <5>1 DEF Spendable
      <4>5. p \in Txid /\ o.vout \in Nat /\ Tx[p].nout \in Nat /\ o = Out(p, o.vout)
        BY <4>3, FieldTypes DEF Outpoint, Out
      <4>6. output_slp_amount(p, o.vout) \in Amount
        BY <4>5, FieldTypes
      <4>. HIDE DEF o, p
      <4>7. output_slp_amount(p, o.vout) > 0 /\ o.vout \in 1..(Tx[p].nout - 1)
        BY <4>1, <4>2, <4>4, <4>5, <4>6, MaxAmountAssumption DEF Amount
      <4>8. o \in db.utxos
        BY <4>1, <4>3, <4>5, <4>7 DEF Kept, Kin
      <4>. QED
        BY <4>1, <4>8 DEF TokenInputUnits, SameToken, o, p
    <3>4. Cardinality(TokenOutputUnits(t)) <= Cardinality(TokenInputUnits(db, t))
      <4>1. TokenOutputUnits(t) = OutputUnits(t)
        BY DEF TokenOutputUnits, OutputUnits
      <4>2. ExistsInjection(OutputUnits(t), SpentUnits(t, SlpValid))
        BY <1>3, <1>7 DEF Justified
      <4>3. PICK f : f \in Injection(OutputUnits(t), TokenInputUnits(db, t))
        BY <3>3, <4>2 DEF ExistsInjection, Injection
      <4>4. IsFiniteSet(TokenInputUnits(db, t))
        BY UnitsAreFinite
      <4>. QED
        BY <4>1, <4>3, <4>4, FS_Injection
    <3>5. ~Rejects(db, db2, t)
      <4>1. Cardinality(TokenOutputUnits(t)) \in Nat /\ Cardinality(TokenInputUnits(db, t)) \in Nat
        BY UnitsAreFinite, FS_CardinalityType
      <4>. QED
        BY <1>7, <2>1, <3>2, <3>4, <4>1 DEF Rejects
    <3>6. AddsSend(db, db2, t)
      BY <1>1, <1>7, <3>5 DEF AddsGenesis, AddsMint
    <3>. QED
      BY <3>1, <3>2, <3>6 DEF AddsSend
  <2>. QED
    BY <1>1, <2>1, <2>2
<1>. QED
  BY <1>3, <1>5, <1>6, <1>7
-----------------------------------------------------------------------------
(* Blocks. *)

\* The slpdb after a block.
Applied(db, txs, B) == remove_slp_utxos(AddedAll(db, txs), SpentBy(B))

\* A block that no earlier transaction spends from keeps the batons in order and
\* names no spent baton of a MINT, whether or not it was applied before.
LEMMA ApplyBatons ==
    ASSUME NEW db \in Slpdb, NEW C \in SUBSET Txid, NEW B \in SUBSET Txid, NEW txs \in Sorted(B),
           \A u \in C \ B : Parents(u) \cap B = {}, BatonFacts(db), NoneSpent(db, C)
    PROVE  /\ Applied(db, txs, B) \in Slpdb
           /\ BatonFacts(Applied(db, txs, B)) /\ NoneSpent(Applied(db, txs, B), C \cup B)
<1>. DEFINE n == Cardinality(B)
<1>1. /\ n \in Nat /\ txs \in [1..n -> Txid] /\ \A i \in 1..n : txs[i] \in B
  BY SortedIsList, ListOf
<1>. HIDE DEF n
<1>2. PICK run \in [0..n -> Slpdb] :
          /\ run[0] = db /\ run[n] = AddedAll(db, txs)
          /\ \A k \in 1..n : run[k] = add_transaction(run[k - 1], txs[k])
  <2>1. n \in Nat /\ txs \in [1..n -> Txid] /\ db \in Slpdb
    BY <1>1
  <2>2. \E run : AddsAlong(run, n, db, txs)
    BY <2>1, AddRun
  <2>. QED
    BY <2>2 DEF AddsAlong
<1>. DEFINE Good(d) == BatonFacts(d) /\ \A o \in d.batons : o \in db.batons \/ o.txid \in B
            P == {k \in Nat : k <= n => Good(run[k])}
<1>3. 0 \in P
  BY <1>2
<1>4. ASSUME NEW k \in Nat, k \in P PROVE k + 1 \in P
  <2>. SUFFICES ASSUME k + 1 <= n PROVE Good(run[k + 1])
    OBVIOUS
  <2>1. k + 1 \in 1..n /\ k \in 0..n /\ (k + 1) - 1 = k /\ k <= n
    BY <1>1
  <2>2. run[k] \in Slpdb /\ txs[k + 1] \in Txid /\ txs[k + 1] \in B
    BY <1>1, <1>2, <2>1
  <2>3. run[k + 1] = add_transaction(run[k], txs[k + 1])
    BY <1>2, <2>1
  <2>4. Good(run[k])
    BY <1>4, <2>1
  <2>5. BatonFacts(run[k + 1]) /\ \A o \in run[k + 1].batons : o \in run[k].batons \/ o.txid = txs[k + 1]
    BY <2>2, <2>3, <2>4, AddBatonFacts
  <2>. QED
    BY <2>2, <2>4, <2>5
<1>5. Good(run[n])
  <2>1. n \in P
    <3>. HIDE DEF P
    <3>. QED
      BY <1>1, <1>3, <1>4, NatSetInduction
  <2>. QED
    BY <1>1, <2>1
<1>. DEFINE mid == run[n]
            db2 == Applied(db, txs, B)
            gone == SpentBy(B) \cap mid.utxo_to_tokenid \cap mid.utxos
<1>6. mid \in Slpdb /\ db2 = remove_slp_utxos(mid, SpentBy(B))
  BY <1>1, <1>2 DEF Applied
<1>. HIDE DEF db2
<1>7. /\ db2 \in Slpdb /\ db2.utxos = mid.utxos \ gone /\ db2.batons = mid.batons \ gone
      /\ db2.utxo_to_tokenid = mid.utxo_to_tokenid
  <2>. HIDE DEF mid
  <2>. QED
    BY <1>6, RemoveOf
<1>8. BatonFacts(db2)
  BY <1>5, <1>7 DEF BatonFacts
<1>9. ASSUME NEW o \in db2.batons, Tx[o.txid].type = "mint" PROVE o \notin SpentBy(C \cup B)
  <2>1. o \in mid.batons /\ o \notin SpentBy(B)
    BY <1>5, <1>7, <1>9 DEF BatonFacts
  <2>2. ASSUME NEW u \in C \ B, o \in Inputs(u) PROVE FALSE
    <3>1. o \in SpentBy(C) /\ o.txid \in Parents(u)
      BY <2>2 DEF SpentBy, Parents
    <3>. QED
      BY <1>5, <1>9, <2>1, <2>2, <3>1 DEF NoneSpent
  <2>. QED
    BY <2>1, <2>2 DEF SpentBy
<1>. QED
  BY <1>7, <1>8, <1>9 DEF db2, NoneSpent

\* A block keeps the account of units and batons, whether or not it was applied before
\* and whether or not all its parents are there.
LEMMA ApplyAccounted ==
    ASSUME NEW db \in Slpdb, NEW C \in SUBSET Txid, NEW B \in SUBSET Txid, NEW txs \in Sorted(B),
           NEW L \in SUBSET Txid, NoNewAncestors(C, B), BatonFacts(db),
           NoConflicts(C \cup B \cup L), Accounted(db, C, L)
    PROVE  Accounted(Applied(db, txs, B), C \cup B, L)
<1>. DEFINE n == Cardinality(B)
            K == C \cup B \cup L
            R0 == Rooted(C)
            R == Rooted(C \cup B)
<1>1. /\ n \in Nat /\ txs \in [1..n -> Txid] /\ \A i \in 1..n : txs[i] \in B
      /\ \A t \in B : \E i \in 1..n : txs[i] = t
      /\ \A i, j \in 1..n : i # j => txs[i] # txs[j]
      /\ \A i, j \in 1..n : txs[j] \in Parents(txs[i]) => j < i
  <2>1. txs \in SetToSeqs(B) /\ \A i, j \in DOMAIN txs : txs[j] \in Parents(txs[i]) => j < i
    BY SortedIsList
  <2>2. /\ n \in Nat /\ txs \in [1..n -> Txid] /\ \A i \in 1..n : txs[i] \in B
        /\ \A t \in B : \E i \in 1..n : txs[i] = t
    BY <2>1, ListOf
  <2>3. \A i, j \in 1..n : i # j => txs[i] # txs[j]
    BY <2>1 DEF SetToSeqs
  <2>4. DOMAIN txs = 1..n
    BY <2>2
  <2>. QED
    BY <2>1, <2>2, <2>3, <2>4
<1>. HIDE DEF n
<1>2. PICK run \in [0..n -> Slpdb] :
          /\ run[0] = db /\ run[n] = AddedAll(db, txs)
          /\ \A k \in 1..n : run[k] = add_transaction(run[k - 1], txs[k])
  <2>1. n \in Nat /\ txs \in [1..n -> Txid] /\ db \in Slpdb
    BY <1>1
  <2>2. \E run : AddsAlong(run, n, db, txs)
    BY <2>1, AddRun
  <2>. QED
    BY <2>2 DEF AddsAlong
<1>. DEFINE Done(k) == {txs[i] : i \in 1..k}
            Old(k) == ((C \ B) \cup Done(k)) \cap R
            Known(k) == R0 \cup (Done(k) \cap R)
            Good(k) == /\ BatonFacts(run[k]) /\ Kept(run[k], C, Known(k))
                       /\ \E A \in SUBSET K : Line(run[k], A, C, R, Old(k))
            P == {k \in Nat : k <= n => Good(k)}
<1>0. /\ R0 \subseteq C \cap SlpValid /\ R \subseteq (C \cup B) \cap SlpValid
      /\ R0 \subseteq R /\ R \cap C \subseteq R0 /\ R \in SUBSET Txid
      /\ \A t \in R : Kin(t) \subseteq R
  BY RootedOf, RootedGrows
<1>. HIDE DEF R0, R
<1>3. ASSUME NEW k \in 0..n, NEW t \in R, t \in Old(k) \/ (k + 1 <= n /\ t = txs[k + 1])
      PROVE  Kin(t) \subseteq Old(k)
  <2>. SUFFICES ASSUME NEW p \in Kin(t) PROVE p \in Old(k)
    OBVIOUS
  <2>1. p \in R /\ p \in C \cup B /\ p \in Parents(t)
    BY <1>0 DEF Kin
  <2>2. CASE t \in C \ B
    BY <2>1, <2>2 DEF NoNewAncestors
  <2>3. CASE t \notin C \ B
    <3>1. PICK i \in 1..n : t = txs[i] /\ i <= k + 1
      BY <1>1, <1>3, <2>3
    <3>2. ASSUME p \in B PROVE p \in Done(k)
      <4>1. PICK j \in 1..n : txs[j] = p
        BY <1>1, <3>2
      <4>2. j < i
        BY <1>1, <2>1, <3>1, <4>1
      <4>3. j \in 1..k
        BY <1>1, <3>1, <4>2
      <4>. QED
        BY <4>1, <4>3
    <3>. QED
      BY <2>1, <3>2
  <2>. QED
    BY <2>2, <2>3
<1>4. 0 \in P
  <2>1. Done(0) = {}
    OBVIOUS
  <2>2. Kept(db, C, R0) /\ \E A \in SUBSET (C \cup L) : Line(db, A, C, R0, R0)
    BY DEF Accounted, R0
  <2>3. PICK A \in SUBSET (C \cup L) : Line(db, A, C, R0, R0)
    BY <2>2
  <2>4. Known(0) = R0 /\ Old(0) = (C \ B) \cap R /\ Old(0) \subseteq R0
    BY <1>0, <2>1
  <2>. HIDE DEF Old, Done, Known
  <2>5. Line(db, A, C, R, Old(0))
    BY <1>0, <2>3, <2>4 DEF Line
  <2>6. A \in SUBSET K
    OBVIOUS
  <2>. HIDE DEF K
  <2>7. Good(0)
    BY <1>2, <2>2, <2>4, <2>5, <2>6
  <2>. QED
    BY <2>7
<1>5. ASSUME NEW k \in Nat, k \in P PROVE k + 1 \in P
  <2>. SUFFICES ASSUME k + 1 <= n PROVE Good(k + 1)
    <3>. HIDE DEF Good
    <3>. QED
      OBVIOUS
  <2>. DEFINE t == txs[k + 1]
  <2>1. k + 1 \in 1..n /\ k \in 0..n /\ (k + 1) - 1 = k /\ k <= n
    BY <1>1
  <2>2. run[k] \in Slpdb /\ t \in Txid /\ t \in B
    BY <1>1, <1>2, <2>1
  <2>3. run[k + 1] = add_transaction(run[k], t)
    BY <1>2, <2>1
  <2>4. Good(k)
    BY <1>5, <2>1
  <2>5. BatonFacts(run[k]) /\ Kept(run[k], C, Known(k))
    BY <2>4
  <2>6. PICK A \in SUBSET K : Line(run[k], A, C, R, Old(k))
    BY <2>4
  <2>7. Done(k + 1) = Done(k) \cup {t}
    OBVIOUS
  <2>8. t \notin Old(k)
    <3>1. \A i \in 1..k : i \in 1..n /\ i # k + 1
      BY <1>1
    <3>. QED
      BY <1>1, <2>1, <2>2, <3>1
  <2>9. KinClosed(Old(k)) /\ (t \in R => Kin(t) \subseteq Old(k))
    <3>1. Old(k) \subseteq R
      OBVIOUS
    <3>. QED
      BY <1>3, <2>1, <3>1 DEF KinClosed
  <2>10. Old(k) \in SUBSET Txid /\ Old(k) \subseteq Known(k) /\ Known(k) \in SUBSET Txid
    BY <1>0
  <2>11. /\ Old(k + 1) = IF t \in R THEN Old(k) \cup {t} ELSE Old(k)
         /\ Known(k + 1) = IF t \in R THEN Known(k) \cup {t} ELSE Known(k)
    BY <2>7
  <2>12. t \in R \cap C => t \in Known(k)
    BY <1>0
  <2>. HIDE DEF Done, Old, Known, t
  <2>13. BatonFacts(run[k + 1])
    BY <2>2, <2>3, <2>5, AddBatonFacts
  <2>14. Kept(run[k], C, Old(k))
    BY <2>5, <2>10 DEF Kept
  <2>15. PICK A2 \in SUBSET (A \cup {t}) : Line(run[k + 1], A2, C, R, Old(k + 1))
    <3>1. K \in SUBSET Txid /\ NoConflicts(K) /\ t \in K /\ C \in SUBSET K
      BY <2>2
    <3>. HIDE DEF K
    <3>2. /\ Old(k + 1) \in {Old(k), Old(k) \cup {t}}
          /\ t \in Old(k + 1) => t \in R /\ Kin(t) \subseteq Old(k)
      BY <2>8, <2>9, <2>11
    <3>. QED
      BY <2>2, <2>3, <2>5, <2>6, <2>8, <2>9, <2>10, <2>14, <3>1, <3>2, AddLine
  <2>16. Kept(run[k + 1], C, Known(k + 1))
    <3>1. run[k].utxos \subseteq run[k + 1].utxos /\ run[k].tokens \subseteq run[k + 1].tokens
      BY <2>2, <2>3, AddTransactionCases
    <3>2. CASE t \in C \/ t \notin R
      <4>1. Known(k + 1) = Known(k)
        BY <2>11, <2>12, <3>2
      <4>. QED
        BY <2>5, <3>1, <4>1, KeptMono
    <3>3. CASE t \notin C /\ t \in R
      <4>1. Inputs(t) \cap SpentBy(C) = {}
        BY <2>2, <3>3 DEF NoConflicts, Conflict, SpentBy
      <4>2. t \in SlpValid /\ IsHolder(t) => Out(t, 1) \in run[k + 1].utxos \cup SpentBy(C)
        BY <2>11, <2>15, <3>3 DEF Line
      <4>3. Kin(t) \subseteq Known(k) /\ Known(k + 1) = Known(k) \cup {t}
        BY <2>9, <2>10, <2>11, <3>3
      <4>4. Kept(run[k + 1], C, Known(k) \cup {t})
        BY <2>2, <2>3, <2>5, <2>10, <4>1, <4>2, <4>3, AddKept
      <4>. QED
        BY <4>3, <4>4
    <3>. QED
      BY <3>2, <3>3
  <2>17. A2 \in SUBSET K
    BY <2>2
  <2>. HIDE DEF K
  <2>. QED
    BY <2>13, <2>15, <2>16, <2>17
<1>6. Good(n)
  <2>1. n \in P
    <3>. HIDE DEF P
    <3>. QED
      BY <1>1, <1>4, <1>5, NatSetInduction
  <2>. HIDE DEF Good
  <2>. QED
    BY <1>1, <2>1
<1>7. Known(n) = R /\ Old(n) = R
  <2>1. Done(n) = B
    BY <1>1
  <2>. HIDE DEF Done
  <2>. QED
    BY <1>0, <2>1
<1>. DEFINE mid == run[n]
            db2 == Applied(db, txs, B)
            gone == SpentBy(B) \cap mid.utxo_to_tokenid \cap mid.utxos
<1>8. mid \in Slpdb /\ db2 = remove_slp_utxos(mid, SpentBy(B))
  BY <1>1, <1>2 DEF Applied
<1>9. Kept(mid, C, R) /\ \E A \in SUBSET K : Line(mid, A, C, R, R)
  <2>. HIDE DEF Done, Old, Known, K
  <2>. QED
    BY <1>6, <1>7
<1>. HIDE DEF db2, mid
<1>10. /\ db2.utxos = mid.utxos \ gone /\ db2.batons = mid.batons \ gone /\ db2.tokens = mid.tokens
  BY <1>8, RemoveOf
<1>11. SpentBy(C \cup B) = SpentBy(C) \cup SpentBy(B)
  BY SetsOfUnion
<1>12. Kept(db2, C \cup B, R)
  BY <1>9, <1>10, <1>11 DEF Kept
<1>13. PICK A \in SUBSET K : Line(mid, A, C, R, R)
  BY <1>9
<1>14. /\ \A p \in A : IsHolder(p) /\ Out(p, 1) \in db2.utxos \cup SpentBy(C \cup B)
       /\ \A p \in R \cap SlpValid : IsHolder(p) => p \in A
  BY <1>10, <1>11, <1>13 DEF Line
<1>15. ASSUME NEW p \in A, NEW o \in NewBaton(p)
       PROVE  \/ o \in db2.batons
              \/ \E m \in A : o \in Inputs(m) /\ Tx[m].tokenid = Tx[p].tokenid
              \/ \E u \in C \cup B : o \in Inputs(u) /\ ~(u \in R /\ Mints(u, Tx[p].tokenid))
  <2>1. \/ o \in mid.batons
        \/ \E m \in A : o \in Inputs(m) /\ Tx[m].tokenid = Tx[p].tokenid
        \/ \E u \in C : o \in Inputs(u) /\ ~(u \in R /\ Mints(u, Tx[p].tokenid))
    BY <1>13 DEF Line
  <2>2. ASSUME o \in mid.batons, o \notin db2.batons
        PROVE  \E u \in B : o \in Inputs(u)
    BY <1>10, <2>2 DEF SpentBy
  <2>3. ASSUME NEW u \in R, o \in Inputs(u), Mints(u, Tx[p].tokenid)
        PROVE  u \in A /\ Tx[u].tokenid = Tx[p].tokenid
    BY <1>14, <2>3 DEF Mints, IsHolder
  <2>. QED
    BY <2>1, <2>2, <2>3
<1>16. Line(db2, A, C \cup B, R, R)
  BY <1>14, <1>15 DEF Line
<1>17. A \in SUBSET ((C \cup B) \cup L)
  BY DEF K
<1>. QED
  BY <1>12, <1>16, <1>17 DEF db2, R, Accounted

\* process_block keeps the slpdb good.
LEMMA BlockGood ==
    ASSUME NEW b \in BchState, NEW C \in SUBSET Txid, NEW B \in SUBSET Txid, NEW txs \in Sorted(B),
           NEW L \in SUBSET Txid, NoNewAncestors(C, B), SlpdbGood(b.slpdb, C, L)
    PROVE  SlpdbGood(process_block(b, txs).slpdb, C \cup B, L)
<1>. DEFINE db == b.slpdb
            db2 == Applied(db, txs, B)
<1>1. ToSet(txs) = B
  BY SortedIsList, ListOf
<1>2. process_block(b, txs).slpdb = db2
  BY <1>1 DEF process_block, Applied, AddedAll
<1>3. db \in Slpdb /\ BatonFacts(db) /\ NoneSpent(db, C)
  BY DEF BchState, SlpdbGood
<1>4. BatonFacts(db2) /\ NoneSpent(db2, C \cup B)
  <2>. HIDE DEF db, db2
  <2>. QED
    BY <1>3, ApplyBatons DEF db2, NoNewAncestors
<1>5. ASSUME NoConflicts(C \cup B \cup L) PROVE Accounted(db2, C \cup B, L)
  <2>1. NoConflicts(C \cup L)
    BY <1>5 DEF NoConflicts
  <2>2. Accounted(db, C, L)
    BY <2>1 DEF SlpdbGood
  <2>. HIDE DEF db, db2
  <2>. QED
    BY <1>3, <1>5, <2>2, ApplyAccounted DEF db2
<1>. HIDE DEF db, db2
<1>. QED
  BY <1>2, <1>4, <1>5 DEF SlpdbGood

\* process_mempool_tx hands its transaction to the slpdb, and rollback keeps it out.
LEMMA SlpdbOf ==
    ASSUME NEW b \in BchState, NEW t \in Txid
    PROVE  /\ process_mempool_tx(b, t).slpdb = add_transaction(b.slpdb, t)
           /\ rollback(b).slpdb = b.slpdb
<1>1. process_mempool_tx(b, t).slpdb = add_transaction(b.slpdb, t)
  BY DEF process_mempool_tx, BchState
<1>2. rollback(b).slpdb = b.slpdb
  BY DEF rollback, BchState
<1>. QED
  BY <1>1, <1>2

\* process_mempool_tx keeps the slpdb good, when no confirmed transaction spends
\* from the new one.
LEMMA RelayGood ==
    ASSUME NEW b \in BchState, NEW t \in Txid, NEW C \in SUBSET Txid, NEW L \in SUBSET Txid,
           t \notin C, \A u \in C : t \notin Parents(u), SlpdbGood(b.slpdb, C, L)
    PROVE  SlpdbGood(process_mempool_tx(b, t).slpdb, C, L \cup {t})
<1>. DEFINE db == b.slpdb
            db2 == process_mempool_tx(b, t).slpdb
            K == C \cup (L \cup {t})
<1>1. db2 = add_transaction(db, t) /\ db \in Slpdb /\ BatonFacts(db) /\ NoneSpent(db, C)
  BY SlpdbOf DEF SlpdbGood, BchState
<1>2. NoConflicts(C \cup L) => Accounted(db, C, L)
  BY DEF SlpdbGood
<1>. HIDE DEF db, db2
<1>3. BatonFacts(db2) /\ \A o \in db2.batons : o \in db.batons \/ o.txid = t
  BY <1>1, AddBatonFacts
<1>4. NoneSpent(db2, C)
  <2>1. \A o : o.txid = t => o \notin SpentBy(C)
    BY DEF SpentBy, Parents
  <2>. QED
    BY <1>1, <1>3, <2>1 DEF NoneSpent
<1>5. ASSUME NoConflicts(K) PROVE Accounted(db2, C, L \cup {t})
  <2>1. NoConflicts(C \cup L)
    BY <1>5 DEF NoConflicts
  <2>. DEFINE R == Rooted(C)
  <2>2. Kept(db, C, R) /\ \E A \in SUBSET (C \cup L) : Line(db, A, C, R, R)
    BY <1>2, <2>1 DEF Accounted
  <2>8. R \in SUBSET Txid /\ t \notin R /\ KinClosed(R) /\ R \in {R, R \cup {t}}
    BY RootedOf
  <2>. HIDE DEF R
  <2>3. PICK A \in SUBSET (C \cup L) : Line(db, A, C, R, R)
    BY <2>2
  <2>4. db.utxos \subseteq db2.utxos /\ db.tokens \subseteq db2.tokens
    BY <1>1, AddTransactionCases
  <2>5. Kept(db2, C, R)
    BY <2>2, <2>4, KeptMono
  <2>6. PICK A2 \in SUBSET (A \cup {t}) : Line(db2, A2, C, R, R)
    <3>1. K \in SUBSET Txid /\ t \in K /\ C \in SUBSET K /\ A \in SUBSET K
      OBVIOUS
    <3>. HIDE DEF K
    <3>. QED
      BY <1>1, <1>5, <2>2, <2>3, <2>8, <3>1, AddLine
  <2>7. A2 \in SUBSET (C \cup (L \cup {t}))
    OBVIOUS
  <2>. QED
    BY <2>5, <2>6, <2>7 DEF Accounted, R
<1>. QED
  BY <1>3, <1>4, <1>5 DEF SlpdbGood, db2

\* A mempool listing keeps the slpdb good.
LEMMA ListGood ==
    ASSUME NEW b \in BchState, NEW T \in SUBSET Txid, NEW txs \in SetToSeqs(T),
           NEW C \in SUBSET Txid, NEW L \in SUBSET Txid, T \cap C = {},
           \A u \in C : Parents(u) \cap T = {}, SlpdbGood(b.slpdb, C, L),
           NEW b2, b2 = FoldLeft(process_mempool_tx, b, txs)
    PROVE  SlpdbGood(b2.slpdb, C, L \cup T)
<1>. DEFINE n == Cardinality(T)
<1>1. /\ n \in Nat /\ txs \in [1..n -> Txid] /\ \A i \in 1..n : txs[i] \in T
      /\ \A t \in T : \E i \in 1..n : txs[i] = t
  BY ListOf
<1>. HIDE DEF n
<1>2. PICK run \in [0..n -> BchState] :
          /\ run[0] = b /\ run[n] = b2
          /\ \A k \in 1..n : run[k] = process_mempool_tx(run[k - 1], txs[k])
  <2>1. n \in Nat /\ txs \in [1..n -> Txid] /\ b \in BchState
    BY <1>1
  <2>2. \E run : RelaysAlong(run, n, b, txs)
    BY <2>1, RelayRun
  <2>. QED
    BY <2>2 DEF RelaysAlong
<1>. DEFINE Done(k) == {txs[i] : i \in 1..k}
            P == {k \in Nat : k <= n => SlpdbGood(run[k].slpdb, C, L \cup Done(k))}
<1>3. 0 \in P
  <2>1. L \cup Done(0) = L
    OBVIOUS
  <2>. HIDE DEF Done
  <2>. QED
    BY <1>2, <2>1
<1>4. ASSUME NEW k \in Nat, k \in P PROVE k + 1 \in P
  <2>. SUFFICES ASSUME k + 1 <= n PROVE SlpdbGood(run[k + 1].slpdb, C, L \cup Done(k + 1))
    OBVIOUS
  <2>. DEFINE t == txs[k + 1]
  <2>1. k + 1 \in 1..n /\ k \in 0..n /\ (k + 1) - 1 = k
    BY <1>1
  <2>2. run[k] \in BchState /\ t \in Txid /\ t \in T
    BY <1>1, <1>2, <2>1
  <2>3. run[k + 1] = process_mempool_tx(run[k], t)
    BY <1>2, <2>1
  <2>4. L \cup Done(k) \in SUBSET Txid /\ L \cup Done(k + 1) = (L \cup Done(k)) \cup {t}
    BY <1>1, <2>1, <2>2
  <2>5. SlpdbGood(run[k].slpdb, C, L \cup Done(k))
    BY <1>4, <2>1
  <2>6. t \notin C /\ \A u \in C : t \notin Parents(u)
    BY <2>2
  <2>. HIDE DEF Done, t
  <2>. QED
    BY <2>2, <2>3, <2>4, <2>5, <2>6, RelayGood
<1>5. n \in P
  <2>. HIDE DEF P
  <2>. QED
    BY <1>1, <1>3, <1>4, NatSetInduction
<1>6. Done(n) = T /\ n <= n
  BY <1>1
<1>. HIDE DEF Done
<1>. QED
  BY <1>2, <1>5, <1>6
-----------------------------------------------------------------------------
(* A start of the process. *)

\* main() keeps the slpdb good when it applies a block twice.
LEMMA ApplyTwiceGood ==
    ASSUME NEW b \in BchState, NEW C \in SUBSET Txid, NEW B \in Sortable,
           NoNewAncestors(C, B), SlpdbGood(b.slpdb, C, {})
    PROVE  SlpdbGood(ApplyTwice(b, B).slpdb, C \cup B, {})
<1>. DEFINE txs == CHOOSE s \in Sorted(B) : TRUE
            mid == process_block(b, txs)
            D == C \cup B
<1>1. B \in SUBSET Txid /\ txs \in Sorted(B)
  BY DEF Sortable
<1>2. ApplyTwice(b, B) = process_block(mid, txs)
  BY DEF ApplyTwice
<1>. HIDE DEF txs
<1>3. mid \in BchState
  BY <1>1, ProcessBlock
<1>4. SlpdbGood(mid.slpdb, D, {})
  BY <1>1, BlockGood
<1>5. D \in SUBSET Txid /\ D \cup B = D /\ D \ B = C \ B /\ B \subseteq D
  BY <1>1
<1>. HIDE DEF mid, D
<1>6. NoNewAncestors(D, B)
  BY <1>5 DEF NoNewAncestors
<1>7. SlpdbGood(process_block(mid, txs).slpdb, D \cup B, {})
  BY <1>1, <1>3, <1>4, <1>5, <1>6, BlockGood
<1>. QED
  BY <1>2, <1>5, <1>7 DEF D

\* An empty slpdb is good.
LEMMA EmptyGood == SlpdbGood(EmptyBch.slpdb, {}, {})
<1>. DEFINE db == EmptyBch.slpdb
<1>1. db.batons = {}
  BY DEF EmptyBch, EmptySlpdb
<1>2. BatonFacts(db) /\ NoneSpent(db, {})
  BY <1>1 DEF BatonFacts, NoneSpent
<1>3. Rooted({}) = {}
  BY RootedOf
<1>4. Line(db, {}, {}, {}, {}) /\ Kept(db, {}, {})
  BY DEF Line, Kept
<1>. QED
  BY <1>2, <1>3, <1>4 DEF SlpdbGood, Accounted

\* Blocks that give what came before them no new ancestors give a good slpdb.
LEMMA ReadGood ==
    ASSUME NEW n \in Nat, NEW blocks \in [1..n -> Sortable],
           \A k \in 1..n : NoNewAncestors(UpTo(blocks, k - 1), blocks[k]),
           NEW b2, b2 = FoldLeft(ApplyTwice, EmptyBch, blocks)
    PROVE  SlpdbGood(b2.slpdb, UpTo(blocks, n), {})
<1>1. EmptyBch \in BchState
  BY DEF EmptyBch, BchState, EmptySlpdb, Slpdb
<1>2. PICK run \in [0..n -> BchState] :
          /\ run[0] = EmptyBch /\ run[n] = b2
          /\ \A k \in 1..n : run[k] = ApplyTwice(run[k - 1], blocks[k])
  <2>1. \E run : AppliesAlong(run, n, EmptyBch, blocks)
    BY <1>1, ApplyRun
  <2>. QED
    BY <2>1 DEF AppliesAlong
<1>. DEFINE P == {k \in Nat : k <= n => SlpdbGood(run[k].slpdb, UpTo(blocks, k), {})}
<1>3. 0 \in P
  <2>1. UpTo(blocks, 0) = {}
    BY DEF UpTo
  <2>. QED
    BY <1>2, <2>1, EmptyGood
<1>4. ASSUME NEW k \in Nat, k \in P PROVE k + 1 \in P
  <2>. SUFFICES ASSUME k + 1 <= n PROVE SlpdbGood(run[k + 1].slpdb, UpTo(blocks, k + 1), {})
    OBVIOUS
  <2>1. k + 1 \in 1..n /\ k \in 0..n /\ k + 1 \in 0..n /\ (k + 1) - 1 = k /\ k <= n
    OBVIOUS
  <2>2. run[k] \in BchState /\ blocks[k + 1] \in Sortable
    BY <1>2, <2>1
  <2>3. run[k + 1] = ApplyTwice(run[k], blocks[k + 1])
    BY <1>2, <2>1
  <2>4. UpTo(blocks, k + 1) = UpTo(blocks, k) \cup blocks[k + 1]
    <3>1. 1..(k + 1) = (1..k) \cup {k + 1}
      OBVIOUS
    <3>. QED
      BY <3>1 DEF UpTo
  <2>5. UpTo(blocks, k) \in SUBSET Txid
    <3>1. \A i \in 1..k : blocks[i] \in SUBSET Txid
      BY <2>1 DEF Sortable
    <3>. QED
      BY <3>1 DEF UpTo
  <2>6. SlpdbGood(run[k].slpdb, UpTo(blocks, k), {})
    BY <1>4, <2>1
  <2>7. NoNewAncestors(UpTo(blocks, k), blocks[k + 1])
    BY <2>1
  <2>. QED
    BY <2>2, <2>3, <2>4, <2>5, <2>6, <2>7, ApplyTwiceGood
<1>5. n \in P
  <2>. HIDE DEF P
  <2>. QED
    BY <1>3, <1>4, NatSetInduction
<1>. QED
  BY <1>2, <1>5

\* The blocks that a start reads give what came before them no new ancestors: the one
\* block that is read twice, from the cache and over RPC, has been there before with
\* all that is valid, or its file was empty.
LEMMA BlocksKin ==
    ASSUME BchInv, NEW n \in 0..Len(chain), NEW E
    PROVE  LET blocks == Cached(n, E) \o Reread(n)
           IN  \A k \in 1..Len(blocks) : NoNewAncestors(UpTo(blocks, k - 1), blocks[k])
<1>. DEFINE c == Len(chain)
            blocks == Cached(n, E) \o Reread(n)
            N == Len(blocks)
<1>1. chain \in Seq(SUBSET Txid) /\ c \in Nat /\ \A h \in 1..c : chain[h] \in SUBSET Txid
  BY LenProperties, ElementOfSeq DEF BchInv, BchTypeOK
<1>2. /\ \A h \in 1..c : \A t \in chain[h] : \A p \in Parents(t) : \E g \in 1..h : p \in chain[g]
      /\ \A g, h \in 1..c : g # h => chain[g] \cap chain[h] = {}
  BY DEF BchInv, ChainOrdered
<1>3. n \in Nat /\ n <= c
  BY <1>1
<1>4. /\ N \in Nat
      /\ N = IF n < c THEN n + (c - FirstReread(n) + 1) ELSE n
      /\ \A i \in 1..N : blocks[i] = IF i <= n THEN Cached(n, E)[i]
                                     ELSE chain[FirstReread(n) + (i - n) - 1]
  BY BlocksRead
<1>. HIDE DEF blocks, c, N
<1>5. /\ \A i \in 1..N : Source(n, i) \in 1..c
      /\ \A i, k \in 1..N : i < k /\ Source(n, k) <= Source(n, i) =>
             Source(n, i) = Source(n, k) /\ k > n
      /\ \A i \in 1..N : i > n => n < c /\ Source(n, i) > n - 1
      /\ \A h \in 1..c : h <= n => h \in 1..N
      /\ \A h \in 1..c : n < c /\ h > n - 1 => \E i \in 1..N : i > n /\ Source(n, i) = h
  <2>1. ReadsInOrder(n, c, N)
    BY <1>1, <1>3, <1>4, SourceOrder
  <2>. QED
    BY <2>1 DEF ReadsInOrder
<1>6. ASSUME NEW i \in 1..N
      PROVE  /\ blocks[i] \subseteq chain[Source(n, i)]
             /\ i > n => blocks[i] = chain[Source(n, i)]
             /\ i <= n => blocks[i] \in {{}, chain[Source(n, i)] \cap SlpValid}
  <2>1. CASE i <= n
    <3>1. Source(n, i) = i /\ blocks[i] = Cached(n, E)[i] /\ i \in 1..n /\ ~(i > n)
      BY <1>3, <1>4, <2>1 DEF Source
    <3>2. Cached(n, E)[i] \in {{}, chain[i] \cap SlpValid}
      BY <3>1 DEF Cached
    <3>. QED
      BY <3>1, <3>2
  <2>2. CASE ~(i <= n)
    BY <1>3, <1>4, <2>2 DEF Source
  <2>. QED
    BY <2>1, <2>2
<1>7. ASSUME NEW k \in 1..N, NEW t \in blocks[k] \cap UpTo(blocks, k - 1)
      PROVE  blocks[k] \cap SlpValid \subseteq UpTo(blocks, k - 1)
  <2>1. PICK i \in 1..(k - 1) : t \in blocks[i]
    BY DEF UpTo
  <2>2. i \in 1..N /\ i < k
    BY <1>4
  <2>3. Source(n, i) \in 1..c /\ Source(n, k) \in 1..c
    BY <1>5, <2>2
  <2>4. t \in chain[Source(n, i)] /\ t \in chain[Source(n, k)]
    BY <1>6, <1>7, <2>1, <2>2
  <2>5. Source(n, i) = Source(n, k)
    BY <1>2, <2>3, <2>4
  <2>6. blocks[i] \in {chain[Source(n, k)], chain[Source(n, k)] \cap SlpValid}
    <3>1. CASE i <= n
      BY <1>6, <2>1, <2>2, <2>5, <3>1
    <3>2. CASE i > n
      BY <1>6, <2>2, <2>5, <3>2
    <3>3. i <= n \/ i > n
      BY <1>3, <2>2
    <3>. QED
      BY <3>1, <3>2, <3>3
  <2>7. blocks[k] \subseteq chain[Source(n, k)]
    BY <1>6
  <2>. QED
    BY <2>1, <2>6, <2>7 DEF UpTo
<1>8. ASSUME NEW k \in 1..N, NEW u \in UpTo(blocks, k - 1) \ blocks[k], NEW p \in Parents(u) \cap blocks[k]
      PROVE  FALSE
  <2>1. PICK i \in 1..(k - 1) : u \in blocks[i]
    BY DEF UpTo
  <2>2. i \in 1..N /\ i < k
    BY <1>4
  <2>3. Source(n, i) \in 1..c /\ Source(n, k) \in 1..c
    BY <1>5, <2>2
  <2>4. u \in chain[Source(n, i)] /\ p \in chain[Source(n, k)]
    BY <1>6, <2>1, <2>2
  <2>5. PICK g \in 1..Source(n, i) : p \in chain[g]
    BY <1>2, <2>3, <2>4
  <2>6. g \in 1..c
    BY <1>1, <2>3
  <2>7. g = Source(n, k)
    BY <1>2, <2>3, <2>4, <2>5, <2>6
  <2>8. Source(n, k) <= Source(n, i)
    BY <2>3, <2>7
  <2>9. Source(n, i) = Source(n, k) /\ k > n
    BY <1>5, <2>2, <2>8
  <2>. QED
    BY <1>6, <2>4, <2>9
<1>. QED
  BY <1>7, <1>8 DEF N, blocks, NoNewAncestors
-----------------------------------------------------------------------------
(* The steps. *)

\* A block on top of a chain adds its transactions.
LEMMA UnionAppend ==
    ASSUME NEW ch \in Seq(SUBSET Txid), NEW B \in SUBSET Txid
    PROVE  Union(Append(ch, B)) = Union(ch) \cup B
<1>. DEFINE ch2 == Append(ch, B)
<1>1. /\ ch2 \in Seq(SUBSET Txid) /\ Len(ch2) = Len(ch) + 1 /\ Len(ch) \in Nat
      /\ \A h \in 1..(Len(ch) + 1) : ch2[h] = IF h <= Len(ch) THEN ch[h] ELSE B
  BY AppendProperties, LenProperties
<1>. HIDE DEF ch2
<1>2. /\ \A t : t \in Union(ch) <=> \E h \in 1..Len(ch) : t \in ch[h]
      /\ \A t : t \in Union(ch2) <=> \E h \in 1..Len(ch2) : t \in ch2[h]
  BY <1>1, UnionOf
<1>3. ASSUME NEW t PROVE t \in Union(ch2) <=> t \in Union(ch) \cup B
  <2>1. ASSUME NEW h \in 1..Len(ch2), t \in ch2[h] PROVE t \in Union(ch) \cup B
    BY <1>1, <1>2, <2>1
  <2>2. ASSUME NEW h \in 1..Len(ch), t \in ch[h] PROVE t \in Union(ch2)
    <3>1. h \in 1..Len(ch2) /\ ch2[h] = ch[h]
      BY <1>1
    <3>. QED
      BY <1>2, <2>2, <3>1
  <2>3. ASSUME t \in B PROVE t \in Union(ch2)
    <3>. DEFINE h == Len(ch) + 1
    <3>1. h \in 1..Len(ch2) /\ ch2[h] = B
      BY <1>1
    <3>. QED
      BY <1>2, <2>3, <3>1
  <2>. QED
    BY <1>2, <2>1, <2>2, <2>3
<1>. QED
  BY <1>3 DEF ch2

\* A new block keeps the invariant of the slpdb.
LEMMA ConnectBlockSlpdb ==
    ASSUME BchInv, SlpdbInv, NEW B \in SUBSET Txid, ConnectBlock(B) PROVE SlpdbInv'
<1>1. /\ B \cap confirmed = {} /\ \A t \in B : Parents(t) \subseteq B \cup confirmed
      /\ chain' = Append(chain, B)
      /\ relayed' = relayed /\ undone' = undone /\ unseen' = unseen
  BY DEF ConnectBlock, Minable, lifeVars
<1>2. PICK txs \in Sorted(B) : bch' = process_block(bch, txs)
  BY DEF ConnectBlock
<1>3. chain \in Seq(SUBSET Txid) /\ unseen \subseteq confirmed /\ bch \in BchState /\ relayed \in SUBSET Txid
  BY DEF BchInv, BchTypeOK
<1>4. Closed(confirmed)
  BY ConfirmedFacts
<1>5. confirmed' = confirmed \cup B
  BY <1>1, <1>3, UnionAppend DEF confirmed, Union
<1>6. Seen' = Seen \cup B
  BY <1>1, <1>3, <1>5 DEF Seen
<1>7. Seen \in SUBSET Txid
  BY ConfirmedFacts DEF Seen
<1>9. NoNewAncestors(Seen, B)
  BY <1>1, <1>4 DEF Seen, Closed, NoNewAncestors
<1>10. ASSUME undone = {} PROVE SlpdbGood(bch'.slpdb, Seen', relayed')
  <2>1. SlpdbGood(bch.slpdb, Seen, relayed)
    BY <1>10 DEF SlpdbInv
  <2>2. SlpdbGood(process_block(bch, txs).slpdb, Seen \cup B, relayed)
    BY <1>3, <1>7, <1>9, <2>1, BlockGood
  <2>. QED
    BY <1>1, <1>2, <1>6, <2>2
<1>. QED
  BY <1>1, <1>10 DEF SlpdbInv

\* So does the last block when it is applied again.
LEMMA ConnectAgainSlpdb ==
    ASSUME BchInv, SlpdbInv, ConnectAgain PROVE SlpdbInv'
<1>. DEFINE B == Last(applied).txs
            C == Union(Front(chain))
<1>1. /\ applied # <<>> /\ chain' = chain
      /\ relayed' = relayed /\ undone' = undone /\ unseen' = unseen
  BY DEF ConnectAgain, lifeVars
<1>2. PICK txs \in Sorted(B) : bch' = process_block(bch, txs)
  BY DEF ConnectAgain
<1>3. chain \in Seq(SUBSET Txid) /\ ChainOrdered(chain) /\ bch \in BchState /\ relayed \in SUBSET Txid
  BY DEF BchInv, BchTypeOK
<1>4. chain # <<>> /\ B = Last(chain) /\ B \cap unseen = {}
  BY <1>1, LastCall
<1>5. /\ Front(chain) \in Seq(SUBSET Txid) /\ ChainOrdered(Front(chain))
      /\ Union(chain) = C \cup B /\ C \cap B = {} /\ B \in SUBSET Txid
  BY <1>3, <1>4, ChainFront
<1>6. Closed(C) /\ confirmed = C \cup B
  BY <1>5, ChainIsClosed, ConfirmedFacts
<1>. HIDE DEF B, C
<1>7. Seen' = Seen /\ Seen \cup B = Seen
  BY <1>1, <1>4, <1>6 DEF Seen, confirmed
<1>8. Seen \in SUBSET Txid
  BY ConfirmedFacts DEF Seen
<1>9. NoNewAncestors(Seen, B)
  BY <1>5, <1>6, <1>7 DEF Seen, Closed, NoNewAncestors
<1>10. ASSUME undone = {} PROVE SlpdbGood(bch'.slpdb, Seen', relayed')
  <2>1. SlpdbGood(bch.slpdb, Seen, relayed)
    BY <1>10 DEF SlpdbInv
  <2>2. SlpdbGood(process_block(bch, txs).slpdb, Seen \cup B, relayed)
    BY <1>2, <1>3, <1>5, <1>8, <1>9, <2>1, BlockGood
  <2>. QED
    BY <1>1, <1>2, <1>7, <2>2
<1>. QED
  BY <1>1, <1>10 DEF SlpdbInv

\* A block that never arrives leaves the slpdb and what it was given as they are.
LEMMA MissBlockSlpdb ==
    ASSUME BchInv, SlpdbInv, NEW B \in SUBSET Txid, MissBlock(B) PROVE SlpdbInv'
<1>1. /\ B \cap confirmed = {} /\ chain' = Append(chain, B) /\ unseen' = unseen \cup B
      /\ bch' = bch /\ relayed' = relayed /\ undone' = undone
  BY DEF MissBlock, Minable
<1>2. chain \in Seq(SUBSET Txid) /\ unseen \subseteq confirmed
  BY DEF BchInv, BchTypeOK
<1>3. confirmed' = confirmed \cup B
  BY <1>1, <1>2, UnionAppend DEF confirmed, Union
<1>4. Seen' = Seen
  BY <1>1, <1>2, <1>3 DEF Seen
<1>. QED
  BY <1>1, <1>4 DEF SlpdbInv

\* So does an announced transaction.
LEMMA RelayTxSlpdb ==
    ASSUME BchInv, SlpdbInv, NEW t \in Txid, RelayTx(t) PROVE SlpdbInv'
<1>1. /\ t \notin Seen /\ \A u \in Seen : t \notin Parents(u)
      /\ bch' = process_mempool_tx(bch, t) /\ relayed' = relayed \cup {t}
      /\ chain' = chain /\ undone' = undone /\ unseen' = unseen
  BY DEF RelayTx, Announced, lifeVars
<1>2. bch \in BchState /\ relayed \in SUBSET Txid /\ Seen \in SUBSET Txid
  BY ConfirmedFacts DEF BchInv, BchTypeOK, Seen
<1>3. Seen' = Seen
  BY <1>1 DEF Seen, confirmed
<1>4. ASSUME undone = {} PROVE SlpdbGood(bch'.slpdb, Seen', relayed')
  BY <1>1, <1>2, <1>3, <1>4, RelayGood DEF SlpdbInv
<1>. QED
  BY <1>1, <1>4 DEF SlpdbInv

\* So does a mempool listing.
LEMMA ListMempoolSlpdb ==
    ASSUME BchInv, SlpdbInv, NEW T \in SUBSET Txid, ListMempool(T) PROVE SlpdbInv'
<1>1. /\ T \cap Seen = {} /\ \A u \in Seen : Parents(u) \cap T = {}
      /\ relayed' = relayed \cup T
      /\ chain' = chain /\ undone' = undone /\ unseen' = unseen
  BY DEF ListMempool, Announced, lifeVars
<1>2. PICK txs \in SetToSeqs(T) : bch' = FoldLeft(process_mempool_tx, bch, txs)
  BY DEF ListMempool
<1>3. bch \in BchState /\ relayed \in SUBSET Txid /\ Seen \in SUBSET Txid
  BY ConfirmedFacts DEF BchInv, BchTypeOK, Seen
<1>4. Seen' = Seen
  BY <1>1 DEF Seen, confirmed
<1>5. ASSUME undone = {} PROVE SlpdbGood(bch'.slpdb, Seen', relayed')
  <2>1. SlpdbGood(bch.slpdb, Seen, relayed)
    BY <1>5 DEF SlpdbInv
  <2>2. SlpdbGood(bch'.slpdb, Seen, relayed \cup T)
    BY <1>1, <1>2, <1>3, <2>1, ListGood
  <2>. QED
    BY <1>1, <1>4, <2>2
<1>. QED
  BY <1>1, <1>5 DEF SlpdbInv

\* A rollback leaves the slpdb alone, and undoes a block unless there is none.
LEMMA RollbackSlpdb ==
    ASSUME BchInv, SlpdbInv, Rollback PROVE SlpdbInv'
<1>1. bch' = rollback(bch) /\ relayed' = relayed /\ unseen' = unseen /\ bch \in BchState
  BY DEF Rollback, lifeVars, BchInv, BchTypeOK
<1>2. CASE applied = <<>>
  <2>1. chain' = chain /\ undone' = undone
    BY <1>2 DEF Rollback
  <2>2. bch'.slpdb = bch.slpdb
    BY <1>1 DEF rollback, BchState
  <2>3. Seen' = Seen
    BY <1>1, <2>1 DEF Seen, confirmed
  <2>. QED
    BY <1>1, <2>1, <2>2, <2>3 DEF SlpdbInv
<1>3. CASE applied # <<>>
  <2>1. undone' = undone \cup Last(applied).txs
    BY <1>3 DEF Rollback
  <2>2. Last(applied).txs # {}
    BY <1>3, LastCall, BelowLast
  <2>. QED
    BY <1>1, <2>1, <2>2 DEF SlpdbInv
<1>. QED
  BY <1>2, <1>3

\* A start of the process establishes it, from any prefix of the cache and whichever
\* of its files are empty.
LEMMA RestartSlpdb ==
    ASSUME BchInv, SlpdbInv, NEW n \in 0..Len(chain), NEW E, Restart(n, E) PROVE SlpdbInv'
<1>. DEFINE blocks == Cached(n, E) \o Reread(n)
            N == Len(blocks)
<1>1. chain' = chain /\ undone' = undone /\ relayed' = {}
  BY DEF Restart
<1>2. bch' = FoldLeft(ApplyTwice, EmptyBch, blocks) /\ unseen' = Missed(n, E)
  BY DEF Restart, Cached, Missed, Unread
<1>3. /\ N \in Nat /\ blocks \in [1..N -> Sortable]
      /\ UpTo(blocks, N) = confirmed \ Missed(n, E)
  BY BlocksInOrder
<1>4. \A k \in 1..N : NoNewAncestors(UpTo(blocks, k - 1), blocks[k])
  BY BlocksKin
<1>. HIDE DEF blocks, N
<1>5. SlpdbGood(bch'.slpdb, UpTo(blocks, N), {})
  BY <1>2, <1>3, <1>4, ReadGood
<1>6. Seen' = UpTo(blocks, N)
  BY <1>1, <1>2, <1>3 DEF Seen, confirmed
<1>. QED
  BY <1>1, <1>5, <1>6 DEF SlpdbInv

\* The invariant of the slpdb: every call of process_block, process_mempool_tx and
\* rollback keeps it, and a start from any prefix of the block cache establishes it,
\* whichever of the files are empty; lost blocks and lost parents do no harm.
THEOREM SlpdbInvariant == BchSpec => []SlpdbInv
<1>1. BchInit => SlpdbInv
  <2>. SUFFICES ASSUME BchInit PROVE SlpdbInv
    OBVIOUS
  <2>1. bch = EmptyBch /\ chain = <<>> /\ relayed = {} /\ unseen = {}
    BY DEF BchInit
  <2>2. Seen = {}
    BY <2>1 DEF Seen, confirmed, ToSet
  <2>. QED
    BY <2>1, <2>2, EmptyGood DEF SlpdbInv
<1>2. BchInv /\ SlpdbInv /\ [BchNext]_bchVars => SlpdbInv'
  <2>. SUFFICES ASSUME BchInv, SlpdbInv, [BchNext]_bchVars PROVE SlpdbInv'
    OBVIOUS
  <2>1. ASSUME NEW B \in SUBSET Txid, ConnectBlock(B) PROVE SlpdbInv'
    BY <2>1, ConnectBlockSlpdb
  <2>2. ASSUME NEW B \in SUBSET Txid, ListMempool(B) PROVE SlpdbInv'
    BY <2>2, ListMempoolSlpdb
  <2>3. CASE ConnectAgain
    BY <2>3, ConnectAgainSlpdb
  <2>4. ASSUME NEW t \in Txid, RelayTx(t) PROVE SlpdbInv'
    BY <2>4, RelayTxSlpdb
  <2>5. CASE Rollback
    BY <2>5, RollbackSlpdb
  <2>6. ASSUME NEW n \in 0..Len(chain), NEW E \in SUBSET (1..n), Restart(n, E) PROVE SlpdbInv'
    BY <2>6, RestartSlpdb
  <2>8. ASSUME NEW B \in SUBSET Txid, MissBlock(B) PROVE SlpdbInv'
    BY <2>8, MissBlockSlpdb
  <2>7. CASE UNCHANGED bchVars
    <3>1. /\ bch' = bch /\ chain' = chain /\ relayed' = relayed
          /\ undone' = undone /\ unseen' = unseen
      BY <2>7 DEF bchVars, lifeVars
    <3>2. Seen' = Seen
      BY <3>1 DEF Seen, confirmed
    <3>. QED
      BY <3>1, <3>2 DEF SlpdbInv
  <2>. QED
    BY <2>1, <2>2, <2>3, <2>4, <2>5, <2>6, <2>7, <2>8 DEF BchNext
<1>. QED
  BY <1>1, <1>2, BchInvariant, PTL DEF BchSpec

\* slpdb::add_transaction rejects no valid transaction of a block whose ancestors it
\* was given, and bch::process_block takes away no unspent output with units, unless
\* there was a double spend: blocks applied twice or lost, transactions relayed
\* before, and restarts from a cache with empty files included.
THEOREM HoldingsKept == BchSpec => []HoldingsAreKept
<1>1. BchInv /\ SlpdbInv => HoldingsAreKept
  <2>. SUFFICES ASSUME BchInv, SlpdbInv, undone = {}, \A t, u \in Told : ~Conflict(t, u)
                PROVE  \A t \in Rooted(Seen) : \A v \in 1..(Tx[t].nout - 1) :
                           output_slp_amount(t, v) > 0 /\ Out(t, v) \notin SpentBy(Seen)
                               => Out(t, v) \in bch.slpdb.utxos
    BY DEF HoldingsAreKept
  <2>1. NoConflicts(Seen \cup relayed)
    BY DEF NoConflicts, Told
  <2>2. Kept(bch.slpdb, Seen, Rooted(Seen))
    BY <2>1 DEF SlpdbInv, SlpdbGood, Accounted
  <2>3. Rooted(Seen) \subseteq SlpValid
    BY RootedOf
  <2>. QED
    BY <2>2, <2>3 DEF Kept
<1>. QED
  BY <1>1, BchInvariant, SlpdbInvariant, PTL

\* Once everything relayed has come with a block, the baton that the slpdb names for
\* a token is the unspent one of a valid transaction whose ancestors it was given; a
\* baton that a block spent is named only if it is the GENESIS's, which
\* process_block never takes away.
THEOREM BatonCurrent == BchSpec => []BatonIsCurrent
<1>1. BchInv /\ SlpdbInv => BatonIsCurrent
  <2>. DEFINE R == Rooted(Seen)
  <2>. SUFFICES ASSUME BchInv, SlpdbInv, undone = {}, relayed \subseteq Seen
                PROVE  /\ \A o \in bch.slpdb.batons :
                             o \in SpentBy(Seen) => Tx[o.txid].type = "genesis"
                       /\ \A t \in R :
                             Tx[t].type \in {"genesis", "mint"} =>
                                 NewBaton(t) \ SpentBy(Seen) \subseteq bch.slpdb.batons
    BY DEF BatonIsCurrent
  <2>1. SlpdbGood(bch.slpdb, Seen, relayed)
    BY DEF SlpdbInv
  <2>2. \A o \in bch.slpdb.batons : o \in SpentBy(Seen) => Tx[o.txid].type = "genesis"
    BY <2>1 DEF SlpdbGood, BatonFacts, NoneSpent, IsHolder
  <2>3. NoConflicts(Seen \cup relayed)
    BY ConfirmedFacts DEF NoConflicts, Seen
  <2>4. R \subseteq SlpValid
    BY RootedOf
  <2>5. PICK A \in SUBSET (Seen \cup relayed) : Line(bch.slpdb, A, Seen, R, R)
    BY <2>1, <2>3 DEF SlpdbGood, Accounted
  <2>6. ASSUME NEW t \in R, Tx[t].type \in {"genesis", "mint"},
               NEW o \in NewBaton(t), o \notin SpentBy(Seen)
        PROVE  o \in bch.slpdb.batons
    <3>1. \A u \in Seen : o \notin Inputs(u)
      BY <2>6 DEF SpentBy
    <3>2. t \in A /\ A \subseteq Seen
      BY <2>4, <2>5, <2>6 DEF Line, IsHolder
    <3>. QED
      BY <2>5, <2>6, <3>1, <3>2 DEF Line
  <2>. QED
    BY <2>2, <2>6
<1>. QED
  BY <1>1, BchInvariant, SlpdbInvariant, PTL
=============================================================================
