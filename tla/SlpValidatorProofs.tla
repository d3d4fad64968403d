------------------------- MODULE SlpValidatorProofs -------------------------
(***************************************************************************)
(* Proofs about SlpValidator, for every universe of transactions: verdicts *)
(* are sound in every arrival order and complete for what comes in order,  *)
(* the token of a valid transaction is known, no token is inflated, and    *)
(* check_mint's exception is out of reach of one chain.  The last part is  *)
(* about SlpQueries: what OutputOracle and SlpTokenInfo answer in every    *)
(* state of the validator.                                                 *)
(***************************************************************************)
EXTENDS SlpQueries, FiniteSetTheorems, FunctionTheorems, TLAPS

-----------------------------------------------------------------------------
(* Facts about the transactions. *)

\* What the assumptions say of one transaction.
LEMMA TxTypes ==
    ASSUME NEW t \in Txid
    PROVE  /\ Tx[t] \in Transaction
           /\ Tx[t].tokenid \in Txid
           /\ Tx[t].inputs \in Seq(Outpoint)
           /\ Tx[t].amounts \in Seq(Amount)
           /\ Tx[t].qty \in Amount
           /\ Tx[t].type \in SlpType
           /\ DOMAIN Tx[t].inputs = 1..Len(Tx[t].inputs)
           /\ Len(Tx[t].inputs) \in Nat
           /\ DOMAIN Tx[t].amounts = 1..Len(Tx[t].amounts)
           /\ Len(Tx[t].amounts) \in Nat
           /\ \A i \in DOMAIN Tx[t].inputs : Tx[t].inputs[i].txid \in Txid
<1>1. Tx[t] \in Transaction
  BY TxAssumption DEF TxAssumption
<1>2. /\ Tx[t].tokenid \in Txid
      /\ Tx[t].inputs \in Seq(Outpoint)
      /\ Tx[t].amounts \in Seq(Amount)
      /\ Tx[t].qty \in Amount
      /\ Tx[t].type \in SlpType
  BY <1>1 DEF Transaction
<1>3. /\ DOMAIN Tx[t].inputs = 1..Len(Tx[t].inputs)
      /\ Len(Tx[t].inputs) \in Nat
      /\ DOMAIN Tx[t].amounts = 1..Len(Tx[t].amounts)
      /\ Len(Tx[t].amounts) \in Nat
  BY <1>2
<1>4. \A i \in DOMAIN Tx[t].inputs : Tx[t].inputs[i] \in Outpoint
  BY <1>2, <1>3
<1>5. \A i \in DOMAIN Tx[t].inputs : Tx[t].inputs[i].txid \in Txid
  BY <1>4 DEF Outpoint
<1>. QED
  BY <1>1, <1>2, <1>3, <1>5

\* The inputs spend transactions of the universe.
LEMMA ParentsInUniverse ==
    ASSUME NEW t \in Txid
    PROVE  Parents(t) \subseteq Txid
  BY TxTypes DEF Parents, Inputs

\* The units of inputs and outputs can be counted.
LEMMA UnitsAreFinite ==
    ASSUME NEW t \in Txid, NEW map, NEW ok
    PROVE  IsFiniteSet(OutputUnits(t)) /\ IsFiniteSet(InputUnits(t, map, ok))
<1>0. /\ IsFiniteSet(DOMAIN Tx[t].amounts)
      /\ IsFiniteSet(DOMAIN Tx[t].inputs)
      /\ IsFiniteSet(1..MaxAmount)
  BY TxTypes, FS_Interval, MaxAmountAssumption DEF MaxAmountAssumption
<1>1. IsFiniteSet((DOMAIN Tx[t].amounts) \X (1..MaxAmount))
  BY <1>0, FS_Product, Zenon
<1>2. IsFiniteSet((DOMAIN Tx[t].inputs) \X (1..MaxAmount))
  BY <1>0, FS_Product, Zenon
<1>3. OutputUnits(t) \subseteq (DOMAIN Tx[t].amounts) \X (1..MaxAmount)
  BY DEF OutputUnits
<1>4. InputUnits(t, map, ok) \subseteq (DOMAIN Tx[t].inputs) \X (1..MaxAmount)
  BY DEF InputUnits
<1>. QED
  BY <1>1, <1>2, <1>3, <1>4, FS_Subset

\* A finite set injects into every finite set that is not smaller.
LEMMA SmallerInjects ==
    ASSUME NEW S, NEW T, IsFiniteSet(S), IsFiniteSet(T), Cardinality(S) <= Cardinality(T)
    PROVE  ExistsInjection(S, T)
<1>. DEFINE m == Cardinality(S)
            n == Cardinality(T)
<1>1. m \in Nat /\ n \in Nat /\ ExistsBijection(1..m, S) /\ ExistsBijection(1..n, T)
  BY FS_CardinalityType
<1>2. ExistsInjection(S, 1..m)
  BY <1>1, Fun_ExistsBijEquiv
<1>3. ExistsInjection(1..n, T)
  BY <1>1, Fun_ExistsBijEquiv
<1>4. [i \in 1..m |-> i] \in Injection(1..m, 1..n)
  <2>1. 1..m \subseteq 1..n
    BY <1>1
  <2>. HIDE DEF m, n
  <2>. QED
    BY <2>1 DEF Injection, IsInjective
<1>5. ExistsInjection(1..m, 1..n)
  BY <1>4 DEF ExistsInjection
<1>. QED
  BY <1>2, <1>3, <1>5, Fun_ExistsInjTransitive

\* A SEND whose sums pass check_send pays every unit it sends.
LEMMA CheckSendPays ==
    ASSUME NEW t \in Txid, NEW map, NEW ok, check_send(t, map, ok)
    PROVE  ExistsInjection(OutputUnits(t), SpentUnits(t, ok))
<1>1. ExistsInjection(OutputUnits(t), InputUnits(t, map, ok))
  BY UnitsAreFinite, SmallerInjects DEF check_send
<1>2. InputUnits(t, map, ok) \subseteq SpentUnits(t, ok)
  BY DEF InputUnits, SpentUnits
<1>. QED
  BY <1>1, <1>2 DEF ExistsInjection, Injection

-----------------------------------------------------------------------------
(* The SLP rules as a closure. *)

\* Enlarging the set of valid transactions never takes a justification away.
LEMMA JustifiedMono ==
    ASSUME NEW t \in Txid, NEW V, NEW W, V \subseteq W, Justified(t, V)
    PROVE  Justified(t, W)
<1>1. CASE Tx[t].type = "send"
  <2>1. ExistsInjection(OutputUnits(t), SpentUnits(t, V))
    BY <1>1 DEF Justified
  <2>2. SpentUnits(t, V) \subseteq SpentUnits(t, W)
    BY DEF SpentUnits
  <2>3. ExistsInjection(OutputUnits(t), SpentUnits(t, W))
    BY <2>1, <2>2 DEF ExistsInjection, Injection
  <2>. QED
    BY <1>1, <2>3 DEF Justified
<1>2. CASE Tx[t].type = "mint"
  BY <1>2 DEF Justified
<1>3. CASE Tx[t].type = "genesis"
  BY <1>3 DEF Justified
<1>4. Tx[t].type \in {"send", "mint", "genesis"}
  BY DEF Justified
<1>. QED
  BY <1>1, <1>2, <1>3, <1>4

\* SlpValid, the intersection of the closed sets, is closed itself.
LEMMA SlpValidClosed ==
    ASSUME NEW t \in Txid, Justified(t, SlpValid)
    PROVE  t \in SlpValid
<1>1. SUFFICES ASSUME NEW V \in ClosedSets
               PROVE  t \in V
  BY DEF SlpValid
<1>2. SlpValid \subseteq V
  BY <1>1 DEF SlpValid
<1>3. Justified(t, V)
  BY <1>1, <1>2, JustifiedMono DEF ClosedSets
<1>. QED
  BY <1>1, <1>3 DEF ClosedSets, ClosedUnderRules

\* What validate() accepts from the verdicts in memory is justified by them.
LEMMA ValidateJustified ==
    ASSUME NEW t \in Txid, NEW map \in SUBSET Txid, NEW ok \in SUBSET Txid,
           validate(t, map, ok), t \notin ok
    PROVE  Justified(t, ok)
<1>1. CASE Tx[t].type = "send" /\ check_send(t, map, ok)
  BY <1>1, CheckSendPays DEF Justified
<1>2. CASE Tx[t].type = "mint" /\ check_mint(t, map, ok)
  <2>1. PICK p : p \in walk_mints_home(t, t, map, ok)
    BY <1>2 DEF check_mint, FromGenesis, MintAncestors
  <2>. QED
    BY <1>2, <2>1 DEF walk_mints_home, Justified
<1>3. CASE Tx[t].type = "genesis" /\ check_genesis(t, map, ok)
  <2>1. CASE Tx[t].token_type # Nft1Child
    BY <1>3, <2>1 DEF Justified
  <2>2. CASE Tx[t].token_type = Nft1Child
    <3>1. /\ Tx[t].inputs # <<>>
          /\ Tx[t].inputs[1].txid \in ok
          /\ Tx[Tx[t].inputs[1].txid].token_type = Nft1Group
          /\ output_slp_amount(Tx[t].inputs[1].txid, Tx[t].inputs[1].vout) >= 1
      BY <1>3, <2>2 DEF check_genesis
    <3>. QED
      BY <1>3, <2>2, <3>1 DEF Justified
  <2>. QED
    BY <2>1, <2>2
<1>. QED
  BY <1>1, <1>2, <1>3 DEF validate

-----------------------------------------------------------------------------
(* The validator, for every call of add_tx and remove_tx. *)

\* add_tx keeps the types; the trusted transactions are valid ones.
LEMMA AddTxTypes ==
    ASSUME ValidatorTypeOK, NEW t \in Txid, NEW trust \in BOOLEAN, AddTx(t, trust)
    PROVE  ValidatorTypeOK'
<1>1. CASE Tx[t].type = "invalid"
  BY <1>1 DEF AddTx, ValidatorTypeOK, validatorVars
<1>2. CASE Tx[t].type # "invalid"
  BY <1>2 DEF AddTx, ValidatorTypeOK
<1>. QED
  BY <1>1, <1>2

\* add_tx keeps the verdicts sound if what it trusts is valid.
LEMMA AddTxSound ==
    ASSUME ValidatorTypeOK, ValidIsSound,
           NEW t \in Txid, NEW trust \in BOOLEAN, AddTx(t, trust),
           trust => t \in SlpValid
    PROVE  ValidIsSound'
<1>1. CASE Tx[t].type = "invalid"
  BY <1>1 DEF AddTx, ValidIsSound, validatorVars, SlpValid
<1>2. CASE Tx[t].type # "invalid"
  <2>1. transaction_map' \in SUBSET Txid
    BY <1>2 DEF AddTx, ValidatorTypeOK
  <2>2. ASSUME validate(t, transaction_map', valid), t \notin valid
        PROVE  t \in SlpValid
    <3>1. Justified(t, valid)
      BY <2>1, <2>2, ValidateJustified DEF ValidatorTypeOK
    <3>2. Justified(t, SlpValid)
      BY <3>1, JustifiedMono DEF ValidIsSound
    <3>. QED
      BY <3>2, SlpValidClosed
  <2>3. valid' \subseteq valid \cup {t}
    BY <1>2 DEF AddTx
  <2>4. ASSUME t \in valid', t \notin valid
        PROVE  t \in SlpValid
    BY <1>2, <2>2, <2>4 DEF AddTx
  <2>. QED
    BY <2>3, <2>4 DEF ValidIsSound
<1>. QED
  BY <1>1, <1>2

\* ValidatorTypeOK: the containers hold txids, trusted ones among the valid.
THEOREM ValidatorTypeCorrect == ValidatorSpec => []ValidatorTypeOK
<1>1. ValidatorInit => ValidatorTypeOK
  BY DEF ValidatorInit, ValidatorTypeOK
<1>2. ValidatorTypeOK /\ [ValidatorNext]_validatorVars => ValidatorTypeOK'
  <2>1. SUFFICES ASSUME ValidatorTypeOK, [ValidatorNext]_validatorVars
                 PROVE  ValidatorTypeOK'
    OBVIOUS
  <2>2. CASE UNCHANGED validatorVars
    BY <2>1, <2>2 DEF validatorVars, ValidatorTypeOK
  <2>3. ASSUME NEW t \in Txid, AddTx(t, FALSE) \/ AddTx(t, TRUE)
        PROVE  ValidatorTypeOK'
    BY <2>1, <2>3, AddTxTypes
  <2>4. ASSUME NEW t \in Txid, RemoveTx(t)
        PROVE  ValidatorTypeOK'
    BY <2>1, <2>4 DEF RemoveTx, ValidatorTypeOK
  <2>. QED
    BY <2>1, <2>2, <2>3, <2>4 DEF ValidatorNext
<1>. QED
  BY <1>1, <1>2, PTL DEF ValidatorSpec

\* ValidIsSound: in whatever order transactions are added, trusted and removed,
\* those the validator accepts are valid under the SLP rules.
THEOREM ValidatorIsSound == ValidatorSpec => []ValidIsSound
<1>1. ValidatorInit => ValidIsSound
  BY DEF ValidatorInit, ValidIsSound
<1>2. /\ ValidatorTypeOK
      /\ ValidIsSound
      /\ [ValidatorNext]_validatorVars
      => ValidIsSound'
  <2>1. SUFFICES ASSUME ValidatorTypeOK, ValidIsSound, [ValidatorNext]_validatorVars
                 PROVE  ValidIsSound'
    OBVIOUS
  <2>2. CASE UNCHANGED validatorVars
    BY <2>1, <2>2 DEF validatorVars, ValidIsSound
  <2>3. ASSUME NEW t \in Txid, AddTx(t, FALSE) \/ (t \in SlpValid /\ AddTx(t, TRUE))
        PROVE  ValidIsSound'
    BY <2>1, <2>3, AddTxSound
  <2>4. ASSUME NEW t \in Txid, RemoveTx(t)
        PROVE  ValidIsSound'
    BY <2>1, <2>4 DEF RemoveTx, ValidIsSound
  <2>. QED
    BY <2>1, <2>2, <2>3, <2>4 DEF ValidatorNext
<1>. QED
  BY <1>1, <1>2, ValidatorTypeCorrect, PTL DEF ValidatorSpec

-----------------------------------------------------------------------------
(* The token of what is accepted. *)

\* output_slp_amount returns an amount.
LEMMA AmountIsNat ==
    ASSUME NEW p \in Txid, NEW v \in Nat
    PROVE  output_slp_amount(p, v) \in Nat
<1>1. ASSUME v \in DOMAIN Tx[p].amounts
      PROVE  Tx[p].amounts[v] \in Amount
  BY <1>1, TxTypes
<1>2. Amount \subseteq Nat
  BY MaxAmountAssumption DEF MaxAmountAssumption, Amount
<1>3. Tx[p].qty \in Nat
  BY <1>2, TxTypes
<1>4. CASE Tx[p].type = "send" /\ v \in DOMAIN Tx[p].amounts
  BY <1>1, <1>2, <1>4 DEF output_slp_amount
<1>5. CASE Tx[p].type \in {"mint", "genesis"} /\ v = 1
  BY <1>3, <1>5 DEF output_slp_amount
<1>6. CASE /\ ~(Tx[p].type = "send" /\ v \in DOMAIN Tx[p].amounts)
           /\ ~(Tx[p].type \in {"mint", "genesis"} /\ v = 1)
  BY <1>6 DEF output_slp_amount
<1>. QED
  BY <1>4, <1>5, <1>6

\* A SEND that moves units spends a valid transaction of its token that
\* holds units.
LEMMA SendHasSource ==
    ASSUME NEW t \in Txid, NEW ok, OutputUnits(t) # {},
           ExistsInjection(OutputUnits(t), SpentUnits(t, ok))
    PROVE  \E p \in ok \cap Parents(t) :
              SameToken(t, p) /\ \E v \in Nat : output_slp_amount(p, v) >= 1 /\ MaxAmount >= 1
<1>1. SpentUnits(t, ok) # {}
  BY DEF ExistsInjection, Injection
<1>5. PICK u \in (DOMAIN Tx[t].inputs) \X (1..MaxAmount) :
         /\ Tx[t].inputs[u[1]].txid \in ok
         /\ SameToken(t, Tx[t].inputs[u[1]].txid)
         /\ u[2] <= output_slp_amount(Tx[t].inputs[u[1]].txid, Tx[t].inputs[u[1]].vout)
  BY <1>1 DEF SpentUnits
<1>. DEFINE o == Tx[t].inputs[u[1]]
<1>6. u[1] \in DOMAIN Tx[t].inputs /\ u[2] \in 1..MaxAmount
  BY <1>5
<1>7. o \in Outpoint
  BY <1>6, TxTypes
<1>8. o.txid \in Parents(t) /\ o.vout \in Nat /\ o.txid \in Txid
  BY <1>6, <1>7 DEF Parents, Inputs, Outpoint
<1>9. output_slp_amount(o.txid, o.vout) \in Nat
  BY <1>8, AmountIsNat
<1>10. output_slp_amount(o.txid, o.vout) >= 1 /\ MaxAmount >= 1
  BY <1>5, <1>6, <1>9, MaxAmountAssumption DEF MaxAmountAssumption
<1>. QED
  BY <1>5, <1>8, <1>10

\* A transaction with units on some output is not one that moves nothing.
LEMMA HolderMovesUnits ==
    ASSUME NEW p \in Txid, NEW v \in Nat, output_slp_amount(p, v) >= 1, MaxAmount >= 1
    PROVE  ~MovesNothing(p)
<1>1. SUFFICES ASSUME Tx[p].type = "send" PROVE OutputUnits(p) # {}
  BY DEF MovesNothing
<1>2. v \in DOMAIN Tx[p].amounts /\ Tx[p].amounts[v] >= 1
  BY <1>1 DEF output_slp_amount
<1>3. 1 \in 1..MaxAmount
  BY MaxAmountAssumption DEF MaxAmountAssumption
<1>4. <<v, 1>> \in OutputUnits(p)
  BY <1>2, <1>3 DEF OutputUnits
<1>. QED
  BY <1>4

\* What a valid transaction stands on, when nothing was taken on trust: the GENESIS
\* of its token, of the same type, if it moves units; a group, if it is the GENESIS
\* of an NFT1 child.
HasToken(t, V) ==
    /\ Tx[t].tokenid \in V
    /\ Tx[Tx[t].tokenid].type = "genesis"
    /\ Tx[Tx[t].tokenid].token_type = Tx[t].token_type
HasGroup(t, V) ==
    /\ Tx[t].inputs # <<>>
    /\ Tx[t].inputs[1].txid \in V
    /\ Tx[Tx[t].inputs[1].txid].token_type = Nft1Group
IsChildGenesis(t) == Tx[t].type = "genesis" /\ Tx[t].token_type = Nft1Child
Grounded ==
    trusted = {} =>
        \A t \in valid :
            /\ ~MovesNothing(t) => HasToken(t, valid)
            /\ IsChildGenesis(t) => HasGroup(t, valid)

\* A justified transaction takes its token from the one that justifies it.
LEMMA JustifiedHasToken ==
    ASSUME NEW V \in SUBSET Txid, NEW W, \A p \in V : ~MovesNothing(p) => HasToken(p, W),
           NEW t \in Txid, Justified(t, V), ~MovesNothing(t)
    PROVE  HasToken(t, W \cup {t})
<1>1. ASSUME NEW p \in V, SameToken(t, p), ~MovesNothing(p)
      PROVE  HasToken(t, W)
  BY <1>1 DEF HasToken, SameToken
<1>2. CASE Tx[t].type = "genesis"
  <2>1. Tx[t].tokenid = t
    BY <1>2, GenesisAssumption DEF GenesisAssumption, OwnToken
  <2>. QED
    BY <1>2, <2>1 DEF HasToken
<1>3. CASE Tx[t].type = "mint"
  <2>1. PICK p \in V : SameToken(t, p) /\ Tx[p].type \in {"mint", "genesis"}
    BY <1>3 DEF Justified
  <2>2. ~MovesNothing(p)
    BY <2>1 DEF MovesNothing
  <2>. QED
    BY <1>1, <2>1, <2>2 DEF HasToken
<1>4. CASE Tx[t].type = "send"
  <2>1. ExistsInjection(OutputUnits(t), SpentUnits(t, V)) /\ OutputUnits(t) # {}
    BY <1>4 DEF Justified, MovesNothing
  <2>2. PICK p \in V :
           SameToken(t, p) /\ \E v \in Nat : output_slp_amount(p, v) >= 1 /\ MaxAmount >= 1
    BY <2>1, SendHasSource
  <2>3. ~MovesNothing(p)
    BY <2>2, HolderMovesUnits
  <2>. QED
    BY <1>1, <2>2, <2>3 DEF HasToken
<1>. QED
  BY <1>2, <1>3, <1>4 DEF Justified

\* add_tx accepts nothing that does not stand on something accepted.
LEMMA AddTxGrounded ==
    ASSUME ValidatorTypeOK, Grounded, NEW t \in Txid, NEW trust \in BOOLEAN, AddTx(t, trust)
    PROVE  Grounded'
<1>1. SUFFICES ASSUME trusted' = {} PROVE Grounded'
  BY DEF Grounded
<1>2. CASE Tx[t].type = "invalid"
  BY <1>1, <1>2 DEF AddTx, validatorVars, Grounded
<1>3. CASE Tx[t].type # "invalid"
  <2>1. ~trust /\ trusted = {}
    BY <1>1, <1>3 DEF AddTx
  <2>2. transaction_map' \in SUBSET Txid
    BY <1>3 DEF AddTx, ValidatorTypeOK
  <2>3. CASE valid' = valid
    BY <1>1, <2>1, <2>3 DEF Grounded
  <2>4. CASE valid' # valid
    <3>1. t \notin valid /\ validate(t, transaction_map', valid) /\ valid' = valid \cup {t}
      BY <1>3, <2>1, <2>4 DEF AddTx
    <3>2. Justified(t, valid)
      BY <2>2, <3>1, ValidateJustified DEF ValidatorTypeOK
    <3>3. ~MovesNothing(t) => HasToken(t, valid')
      BY <2>1, <3>1, <3>2, JustifiedHasToken DEF Grounded, ValidatorTypeOK
    <3>4. IsChildGenesis(t) => HasGroup(t, valid')
      BY <3>1, <3>2 DEF Justified, IsChildGenesis, HasGroup
    <3>5. \A u \in valid : /\ ~MovesNothing(u) => HasToken(u, valid')
                           /\ IsChildGenesis(u) => HasGroup(u, valid')
      BY <2>1, <3>1 DEF Grounded, HasToken, HasGroup
    <3>. QED
      BY <3>1, <3>3, <3>4, <3>5 DEF Grounded
  <2>. QED
    BY <2>3, <2>4
<1>. QED
  BY <1>2, <1>3

\* Grounded: whatever is accepted, in any order, stands on a GENESIS and, as an NFT1
\* child, on a group that were accepted before.
THEOREM ValidatorIsGrounded == ValidatorSpec => []Grounded
<1>1. ValidatorInit => Grounded
  BY DEF ValidatorInit, Grounded
<1>2. ValidatorTypeOK /\ Grounded /\ [ValidatorNext]_validatorVars => Grounded'
  <2>1. SUFFICES ASSUME ValidatorTypeOK, Grounded, [ValidatorNext]_validatorVars
                 PROVE  Grounded'
    OBVIOUS
  <2>2. CASE UNCHANGED validatorVars
    BY <2>1, <2>2 DEF validatorVars, Grounded
  <2>3. ASSUME NEW t \in Txid, AddTx(t, FALSE) \/ AddTx(t, TRUE)
        PROVE  Grounded'
    BY <2>1, <2>3, AddTxGrounded
  <2>4. ASSUME NEW t \in Txid, RemoveTx(t)
        PROVE  Grounded'
    BY <2>1, <2>4 DEF RemoveTx, Grounded
  <2>. QED
    BY <2>1, <2>2, <2>3, <2>4 DEF ValidatorNext
<1>. QED
  BY <1>1, <1>2, ValidatorTypeCorrect, PTL DEF ValidatorSpec

\* TokenIsKnown: the GENESIS of whatever moves units and is accepted was
\* accepted before, in every arrival order.
THEOREM ValidatorKnowsTokens == ValidatorSpec => []TokenIsKnown
<1>1. Grounded => TokenIsKnown
  BY DEF Grounded, HasToken, TokenIsKnown
<1>. QED
  BY <1>1, ValidatorIsGrounded, PTL

-----------------------------------------------------------------------------
(* The batons of one chain. *)

\* SlpValid is a fixed point: what is valid is justified by what is valid.
LEMMA SlpValidJustified ==
    ASSUME NEW t \in SlpValid
    PROVE  t \in Txid /\ Justified(t, SlpValid)
<1>. DEFINE V == {u \in SlpValid : Justified(u, SlpValid)}
<1>1. SlpValid \subseteq Txid
  BY DEF SlpValid
<1>2. ASSUME NEW u \in Txid \ V, Justified(u, V)
      PROVE  FALSE
  <2>1. Justified(u, SlpValid)
    BY <1>2, JustifiedMono
  <2>2. u \in SlpValid
    BY <2>1, SlpValidClosed
  <2>. QED
    BY <1>2, <2>1, <2>2
<1>3. V \in ClosedSets
  BY <1>1, <1>2 DEF ClosedSets, ClosedUnderRules
<1>. HIDE DEF V
<1>4. t \in V
  BY <1>3 DEF SlpValid
<1>. QED
  BY <1>1, <1>4 DEF V

\* No baton is spent by two transactions, and the transactions can be numbered so
\* that parents come before their children: so it is in one chain.
Holder(t)     == Tx[t].type \in {"mint", "genesis"}
Spends(t, p)  == mint_baton_outpoint(p) \in Inputs(t)
BatonsSpentOnce == \A p, t, u \in Txid : Spends(t, p) /\ Spends(u, p) => t = u
Numbering(rank) ==
    /\ rank \in Injection(Txid, Nat)
    /\ \A t \in Txid : \A p \in Parents(t) : rank[p] < rank[t]
OneChain == BatonsSpentOnce /\ \E rank : Numbering(rank)

\* Of any transactions, one has the least number.
LEMMA LeastNumber ==
    ASSUME NEW rank \in [Txid -> Nat], NEW S \in SUBSET Txid, S # {}
    PROVE  \E t \in S : \A u \in S : rank[t] <= rank[u]
<1>. DEFINE N == {rank[t] : t \in S}
            Less == OpToRel(<, Nat)
<1>1. N \subseteq Nat /\ N # {}
  OBVIOUS
<1>2. IsWellFoundedOn(Less, Nat)
  BY NatLessThanWellFounded
<1>. HIDE DEF N, Less
<1>3. PICK n \in N : \A m \in N : <<m, n>> \notin Less
  BY <1>1, <1>2, WFMin
<1>4. \A m \in N : ~(m < n)
  BY <1>1, <1>3 DEF Less, OpToRel
<1>5. \A m \in N : n <= m
  BY <1>1, <1>4
<1>. QED
  BY <1>5 DEF N

\* A transaction that spends a baton is a child of its holder.
LEMMA SpenderIsChild ==
    ASSUME NEW t \in Txid, NEW p \in Txid, Spends(t, p)
    PROVE  p \in Parents(t)
<1>1. mint_baton_outpoint(p).txid = p
  BY DEF mint_baton_outpoint
<1>. QED
  BY <1>1 DEF Spends, Parents

\* What makes a MINT valid.
LEMMA MintHasSource ==
    ASSUME NEW t \in SlpValid, Tx[t].type = "mint"
    PROVE  \E p \in SlpValid : /\ SameToken(t, p) /\ Holder(p) /\ Spends(t, p)
                               /\ p \in Parents(t)
<1>1. Justified(t, SlpValid)
  BY SlpValidJustified
<1>. QED
  BY <1>1 DEF Justified, Holder, Spends

\* The GENESIS is the first of the holders of its token's baton.
LEMMA GenesisIsFirst ==
    ASSUME NEW rank, Numbering(rank), NEW q \in SlpValid, Holder(q)
    PROVE  q = Tx[q].tokenid \/ rank[Tx[q].tokenid] < rank[q]
<1>. DEFINE Bad == {x \in SlpValid : /\ Holder(x) /\ x # Tx[x].tokenid
                                     /\ ~(rank[Tx[x].tokenid] < rank[x])}
<1>1. rank \in [Txid -> Nat] /\ SlpValid \subseteq Txid
  BY DEF Numbering, Injection, SlpValid
<1>2. SUFFICES ASSUME Bad # {} PROVE FALSE
  OBVIOUS
<1>3. PICK x \in Bad : \A y \in Bad : rank[x] <= rank[y]
  BY <1>1, <1>2, LeastNumber
<1>. DEFINE k == Tx[x].tokenid
<1>4. /\ x \in SlpValid /\ x \in Txid /\ Holder(x) /\ x # k /\ ~(rank[k] < rank[x]) /\ k \in Txid
  BY <1>1, <1>3, TxTypes
<1>5. Tx[x].type = "mint"
  BY <1>4, GenesisAssumption DEF GenesisAssumption, OwnToken, Holder
<1>6. PICK p \in SlpValid : SameToken(x, p) /\ Holder(p) /\ p \in Parents(x)
  BY <1>4, <1>5, MintHasSource
<1>7. Tx[p].tokenid = k /\ p \in Txid
  BY <1>1, <1>6 DEF SameToken
<1>8. rank[p] < rank[x] /\ rank[p] \in Nat /\ rank[x] \in Nat /\ rank[k] \in Nat
  BY <1>1, <1>4, <1>6, <1>7 DEF Numbering
<1>9. p \notin Bad
  BY <1>3, <1>8
<1>10. p = k \/ rank[k] < rank[p]
  BY <1>6, <1>7, <1>9
<1>. QED
  BY <1>4, <1>8, <1>10

\* The holders of a token's baton form one line: the baton of an earlier one is
\* spent before a later one comes, or by it.
LEMMA BatonLine ==
    ASSUME BatonsSpentOnce, NEW rank, Numbering(rank),
           NEW t \in SlpValid, NEW q \in SlpValid, Holder(t), Holder(q), SameToken(t, q),
           rank[q] < rank[t]
    PROVE  \E u \in SlpValid : Spends(u, q) /\ rank[u] <= rank[t]
<1>. DEFINE Bad == {x \in SlpValid : /\ Holder(x)
                                     /\ \E y \in SlpValid :
                                           /\ Holder(y) /\ SameToken(x, y) /\ rank[y] < rank[x]
                                           /\ \A u \in SlpValid :
                                                 Spends(u, y) => ~(rank[u] <= rank[x])}
<1>1. /\ rank \in [Txid -> Nat] /\ SlpValid \subseteq Txid
      /\ \A x, y \in Txid : rank[x] = rank[y] => x = y
  BY DEF Numbering, Injection, IsInjective, SlpValid
<1>2. SUFFICES ASSUME Bad # {} PROVE FALSE
  OBVIOUS
<1>3. PICK x \in Bad : \A y \in Bad : rank[x] <= rank[y]
  BY <1>1, <1>2, LeastNumber
<1>4. x \in SlpValid /\ x \in Txid /\ Holder(x) /\ rank[x] \in Nat
  BY <1>1, <1>3
<1>5. PICK y \in SlpValid : /\ Holder(y) /\ SameToken(x, y) /\ rank[y] < rank[x]
                            /\ \A u \in SlpValid : Spends(u, y) => ~(rank[u] <= rank[x])
  BY <1>3
<1>6. y \in Txid /\ rank[y] \in Nat
  BY <1>1, <1>5
<1>7. ASSUME NEW a \in SlpValid, NEW b \in SlpValid, Holder(a), Holder(b), SameToken(a, b),
             rank[b] < rank[a], rank[a] < rank[x]
      PROVE  \E u \in SlpValid : Spends(u, b) /\ rank[u] <= rank[a]
  <2>1. rank[a] \in Nat /\ ~(rank[x] <= rank[a])
    BY <1>1, <1>4, <1>7
  <2>2. a \notin Bad
    BY <1>3, <2>1
  <2>. QED
    BY <1>7, <2>2
<1>. HIDE DEF Bad
<1>8. CASE Tx[x].type = "genesis"
  <2>1. Tx[x].tokenid = x /\ Tx[y].tokenid = x
    BY <1>4, <1>5, <1>8, GenesisAssumption DEF GenesisAssumption, OwnToken, SameToken
  <2>2. y = x \/ rank[x] < rank[y]
    BY <1>5, <2>1, GenesisIsFirst
  <2>. QED
    BY <1>4, <1>5, <1>6, <2>2
<1>9. CASE Tx[x].type = "mint"
  <2>1. PICK p \in SlpValid : SameToken(x, p) /\ Holder(p) /\ Spends(x, p) /\ p \in Parents(x)
    BY <1>4, <1>9, MintHasSource
  <2>2. p \in Txid /\ rank[p] \in Nat /\ rank[p] < rank[x]
    BY <1>1, <1>4, <2>1 DEF Numbering
  <2>3. SameToken(p, y) /\ SameToken(y, p)
    BY <1>5, <2>1 DEF SameToken
  <2>4. CASE y = p
    BY <1>4, <1>5, <2>1, <2>4
  <2>5. CASE rank[y] < rank[p]
    <3>1. PICK u \in SlpValid : Spends(u, y) /\ rank[u] <= rank[p]
      BY <1>5, <1>7, <2>1, <2>2, <2>3, <2>5
    <3>2. rank[u] \in Nat
      BY <1>1
    <3>. QED
      BY <1>4, <1>5, <2>2, <3>1, <3>2
  <2>6. CASE rank[p] < rank[y]
    <3>1. PICK u \in SlpValid : Spends(u, p) /\ rank[u] <= rank[y]
      BY <1>5, <1>7, <2>1, <2>3, <2>6
    <3>2. u = x
      BY <1>1, <1>4, <2>1, <2>2, <3>1 DEF BatonsSpentOnce
    <3>. QED
      BY <1>4, <1>5, <1>6, <3>1, <3>2
  <2>. QED
    BY <1>1, <1>6, <2>2, <2>4, <2>5, <2>6
<1>. QED
  BY <1>4, <1>8, <1>9 DEF Holder

\* No transaction spends two valid batons of one token.
LEMMA OneSource ==
    ASSUME BatonsSpentOnce, NEW rank, Numbering(rank), NEW t \in Txid,
           NEW p \in SlpValid, NEW q \in SlpValid, Holder(p), Holder(q), SameToken(p, q),
           Spends(t, p), Spends(t, q)
    PROVE  p = q
<1>1. /\ rank \in [Txid -> Nat] /\ SlpValid \subseteq Txid
      /\ \A x, y \in Txid : rank[x] = rank[y] => x = y
  BY DEF Numbering, Injection, IsInjective, SlpValid
<1>2. rank[p] \in Nat /\ rank[q] \in Nat /\ rank[t] \in Nat
  BY <1>1
<1>3. ASSUME NEW a \in SlpValid, NEW b \in SlpValid, Holder(a), Holder(b), SameToken(b, a),
             Spends(t, a), Spends(t, b), rank[a] < rank[b]
      PROVE  FALSE
  <2>1. PICK u \in SlpValid : Spends(u, a) /\ rank[u] <= rank[b]
    BY <1>3, BatonLine
  <2>2. u = t
    BY <1>1, <1>3, <2>1 DEF BatonsSpentOnce
  <2>3. rank[b] < rank[t] /\ rank[b] \in Nat
    BY <1>1, <1>3, SpenderIsChild DEF Numbering
  <2>. QED
    BY <1>2, <2>1, <2>2, <2>3
<1>4. SameToken(q, p)
  BY DEF SameToken
<1>5. ~(rank[p] < rank[q]) /\ ~(rank[q] < rank[p])
  BY <1>3, <1>4
<1>. QED
  BY <1>1, <1>2, <1>5

\* So check_mint never meets its rare condition.
LEMMA MintNeverThrows ==
    ASSUME OneChain, NEW t \in Txid, NEW map, NEW ok \in SUBSET SlpValid
    PROVE  ~MintThrows(t, map, ok)
<1>1. PICK rank : Numbering(rank)
  BY DEF OneChain
<1>2. BatonsSpentOnce /\ SlpValid \subseteq Txid
  BY DEF OneChain, SlpValid
<1>3. ASSUME NEW b \in Txid, NEW p \in walk_mints_home(t, b, map, ok),
             NEW q \in walk_mints_home(t, b, map, ok)
      PROVE  p = q
  <2>1. /\ p \in SlpValid /\ q \in SlpValid /\ Holder(p) /\ Holder(q) /\ SameToken(p, q)
        /\ Spends(b, p) /\ Spends(b, q)
    BY <1>3 DEF walk_mints_home, Holder, Spends, SameToken
  <2>. QED
    BY <1>1, <1>2, <2>1, OneSource
<1>4. ASSUME NEW p \in MintAncestors(t, map, ok), NEW q \in MintAncestors(t, map, ok)
      PROVE  p = q
  <2>1. PICK f1 \in walk_mints_home(t, t, map, ok) : p \in walk_mints_home(t, f1, map, ok)
    BY <1>4 DEF MintAncestors
  <2>2. PICK f2 \in walk_mints_home(t, t, map, ok) : q \in walk_mints_home(t, f2, map, ok)
    BY <1>4 DEF MintAncestors
  <2>3. f1 = f2
    BY <1>3
  <2>4. f1 \in Txid
    BY <1>2 DEF walk_mints_home
  <2>. QED
    BY <1>3, <2>1, <2>2, <2>3, <2>4
<1>. QED
  BY <1>4 DEF MintThrows

\* NoRareCondition: among transactions that can confirm in one chain, in whatever
\* order they are added, trusted and removed, add_tx never throws.
THEOREM RareConditionIsNeverMet ==
    ASSUME OneChain
    PROVE  ValidatorSpec => []NoRareCondition
<1>1. ValidIsSound => NoRareCondition
  BY MintNeverThrows DEF ValidIsSound, NoRareCondition, AddTxThrows
<1>. QED
  BY <1>1, ValidatorIsSound, PTL

-----------------------------------------------------------------------------
(* Verdicts on transactions that come in order. *)

\* check_send accepts a SEND whose units are spent, if the inputs that hold them
\* are stored and valid.
LEMMA PaidSendPasses ==
    ASSUME NEW t \in Txid, NEW map, NEW ok, NEW V,
           ExistsInjection(OutputUnits(t), SpentUnits(t, V)),
           SpentUnits(t, V) \subseteq InputUnits(t, map, ok)
    PROVE  check_send(t, map, ok)
<1>1. PICK f \in Injection(OutputUnits(t), SpentUnits(t, V)) : TRUE
  BY DEF ExistsInjection
<1>2. f \in Injection(OutputUnits(t), InputUnits(t, map, ok))
  BY <1>1 DEF Injection
<1>3. IsFiniteSet(InputUnits(t, map, ok))
  BY UnitsAreFinite
<1>. QED
  BY <1>2, <1>3, FS_Injection DEF check_send

\* A valid transaction passes if its valid kin are stored and held valid, unless
\* add_tx throws.
LEMMA ValidTxPasses ==
    ASSUME NEW t \in SlpValid, NEW map, NEW ok,
           \A p \in Kin(t) : p \in SlpValid => p \in map /\ p \in ok,
           Tx[t].type = "mint" => ~MintThrows(t, map, ok)
    PROVE  validate(t, map, ok)
<1>1. t \in Txid /\ Justified(t, SlpValid) /\ SlpValid \subseteq Txid
  BY SlpValidJustified DEF SlpValid
<1>2. ASSUME NEW p \in SlpValid, \/ p \in Parents(t)
                                 \/ \E q \in Parents(t) : p \in Parents(q)
      PROVE  p \in map /\ p \in ok
  <2>1. Tx[p].type # "invalid"
    BY SlpValidJustified DEF Justified
  <2>2. p \in Kin(t)
    BY <1>2, <2>1 DEF Kin
  <2>. QED
    BY <1>2, <2>2
<1>3. CASE Tx[t].type = "send"
  <2>1. ExistsInjection(OutputUnits(t), SpentUnits(t, SlpValid))
    BY <1>1, <1>3 DEF Justified
  <2>2. ASSUME NEW u \in SpentUnits(t, SlpValid)
        PROVE  u \in InputUnits(t, map, ok)
    <3>1. /\ u \in (DOMAIN Tx[t].inputs) \X (1..MaxAmount)
          /\ Tx[t].inputs[u[1]].txid \in SlpValid
          /\ SameToken(t, Tx[t].inputs[u[1]].txid)
          /\ u[2] <= output_slp_amount(Tx[t].inputs[u[1]].txid, Tx[t].inputs[u[1]].vout)
      BY <2>2 DEF SpentUnits
    <3>2. Tx[t].inputs[u[1]].txid \in Parents(t)
      BY <3>1 DEF Parents, Inputs
    <3>. QED
      BY <1>2, <3>1, <3>2 DEF InputUnits
  <2>. QED
    BY <1>1, <1>3, <2>1, <2>2, PaidSendPasses DEF validate
<1>4. CASE Tx[t].type = "mint"
  <2>1. PICK p \in SlpValid : SameToken(t, p) /\ Holder(p) /\ Spends(t, p) /\ p \in Parents(t)
    BY <1>4, MintHasSource
  <2>2. p \in walk_mints_home(t, t, map, ok)
    BY <1>2, <2>1 DEF walk_mints_home, SameToken, Holder, Spends
  <2>3. CASE Tx[p].type = "genesis"
    BY <1>4, <2>2, <2>3 DEF validate, check_mint, FromGenesis
  <2>4. CASE Tx[p].type = "mint"
    <3>1. PICK q \in SlpValid :
             SameToken(p, q) /\ Holder(q) /\ Spends(p, q) /\ q \in Parents(p)
      BY <2>1, <2>4, MintHasSource
    <3>2. q \in walk_mints_home(t, p, map, ok)
      BY <1>2, <2>1, <3>1 DEF walk_mints_home, SameToken, Holder, Spends
    <3>3. q \in MintAncestors(t, map, ok)
      BY <2>2, <3>2 DEF MintAncestors
    <3>. QED
      BY <1>4, <3>3 DEF validate, check_mint
  <2>. QED
    BY <2>1, <2>3, <2>4 DEF Holder
<1>5. CASE Tx[t].type = "genesis"
  <2>1. CASE Tx[t].token_type # Nft1Child
    BY <1>5, <2>1 DEF validate, check_genesis
  <2>2. CASE Tx[t].token_type = Nft1Child
    <3>. DEFINE o == Tx[t].inputs[1]
    <3>1. /\ Tx[t].inputs # <<>> /\ o.txid \in SlpValid
          /\ Tx[o.txid].token_type = Nft1Group
          /\ output_slp_amount(o.txid, o.vout) # 0
      BY <1>1, <1>5, <2>2 DEF Justified
    <3>2. 1 \in DOMAIN Tx[t].inputs /\ o \in Outpoint
      BY <1>1, <3>1, TxTypes
    <3>3. o.txid \in Parents(t) /\ o.vout \in Nat
      BY <3>2 DEF Parents, Inputs, Outpoint
    <3>4. output_slp_amount(o.txid, o.vout) \in Nat
      BY <1>1, <3>1, <3>3, AmountIsNat
    <3>5. output_slp_amount(o.txid, o.vout) >= 1
      BY <3>1, <3>4
    <3>6. o.txid \in map /\ o.txid \in ok
      BY <1>2, <3>1, <3>3
    <3>. QED
      BY <1>5, <3>1, <3>5, <3>6 DEF validate, check_genesis
  <2>. QED
    BY <2>1, <2>2
<1>. QED
  BY <1>1, <1>3, <1>4, <1>5 DEF Justified

\* InOrderIsComplete: as long as add_tx does not throw, a transaction whose kin was
\* stored before it gets the verdict of the SLP rules.
THEOREM InOrderVerdictsAreComplete ==
    ValidatorSpec /\ []NoRareCondition => []InOrderIsComplete
<1>1. ValidatorInit => InOrderIsComplete
  BY DEF ValidatorInit, InOrderIsComplete
<1>2. ASSUME InOrderIsComplete, NoRareCondition, NEW t \in Txid, NEW trust \in BOOLEAN,
             AddTx(t, trust)
      PROVE  InOrderIsComplete'
  <2>1. SUFFICES ASSUME trusted' = {}, NEW u \in transaction_map' \ early', u \in SlpValid
                 PROVE  u \in valid'
    BY DEF InOrderIsComplete
  <2>2. CASE Tx[t].type = "invalid"
    BY <1>2, <2>1, <2>2 DEF AddTx, validatorVars, InOrderIsComplete
  <2>3. CASE Tx[t].type # "invalid"
    <3>1. /\ trusted = {} /\ ~trust /\ transaction_map' = transaction_map \cup {t}
          /\ early \subseteq early' /\ valid \subseteq valid'
      BY <1>2, <2>1, <2>3 DEF AddTx
    <3>2. CASE u \in transaction_map
      BY <1>2, <2>1, <3>1, <3>2 DEF InOrderIsComplete
    <3>3. CASE u \notin transaction_map
      <4>1. u = t /\ ~has(t)
        BY <2>1, <3>1, <3>3 DEF has
      <4>2. Kin(t) \subseteq transaction_map /\ Kin(t) \cap early = {}
        BY <1>2, <2>1, <2>3, <4>1 DEF AddTx
      <4>3. \A p \in Kin(t) : p \in SlpValid => p \in transaction_map' /\ p \in valid
        BY <1>2, <3>1, <4>2 DEF InOrderIsComplete
      <4>4. CASE t \in valid
        BY <3>1, <4>1, <4>4
      <4>5. CASE t \notin valid
        <5>1. Tx[t].type = "mint" => ~MintThrows(t, transaction_map', valid)
          BY <1>2, <3>1, <4>5 DEF NoRareCondition, AddTxThrows
        <5>2. validate(t, transaction_map', valid)
          BY <2>1, <4>1, <4>3, <5>1, ValidTxPasses
        <5>. QED
          BY <1>2, <2>3, <4>1, <5>2 DEF AddTx
      <4>. QED
        BY <4>4, <4>5
    <3>. QED
      BY <3>2, <3>3
  <2>. QED
    BY <2>2, <2>3
<1>3. InOrderIsComplete /\ NoRareCondition /\ [ValidatorNext]_validatorVars
        => InOrderIsComplete'
  <2>1. SUFFICES ASSUME InOrderIsComplete, NoRareCondition, [ValidatorNext]_validatorVars
                 PROVE  InOrderIsComplete'
    OBVIOUS
  <2>2. CASE UNCHANGED validatorVars
    BY <2>1, <2>2 DEF validatorVars, InOrderIsComplete
  <2>3. ASSUME NEW t \in Txid, AddTx(t, FALSE) \/ AddTx(t, TRUE)
        PROVE  InOrderIsComplete'
    BY <1>2, <2>1, <2>3
  <2>4. ASSUME NEW t \in Txid, RemoveTx(t)
        PROVE  InOrderIsComplete'
    BY <2>1, <2>4 DEF RemoveTx, InOrderIsComplete
  <2>. QED
    BY <2>1, <2>2, <2>3, <2>4 DEF ValidatorNext
<1>. QED
  BY <1>1, <1>3, PTL DEF ValidatorSpec

\* So it is among transactions that can confirm in one chain.
THEOREM OneChainIsComplete ==
    ASSUME OneChain
    PROVE  ValidatorSpec => []InOrderIsComplete
  BY RareConditionIsNeverMet, InOrderVerdictsAreComplete, PTL

-----------------------------------------------------------------------------
(* Units in circulation. *)

\* No units are spent by two valid transactions.
UnitsSpentOnce ==
    \A t, u \in valid : \A o \in Inputs(t) \cap Inputs(u) :
        t # u => output_slp_amount(o.txid, o.vout) = 0

\* Counting what a change adds and takes away.
LEMMA CountMoves ==
    ASSUME NEW A, IsFiniteSet(A), NEW G, G \subseteq A, NEW N, IsFiniteSet(N),
           NEW B, B \subseteq (A \ G) \cup N
    PROVE  /\ IsFiniteSet(B) /\ IsFiniteSet(G)
           /\ Cardinality(A) \in Nat /\ Cardinality(B) \in Nat
           /\ Cardinality(G) \in Nat /\ Cardinality(N) \in Nat
           /\ Cardinality(B) + Cardinality(G) <= Cardinality(A) + Cardinality(N)
<1>. DEFINE R == A \ G
            U == R \cup N
<1>1. IsFiniteSet(G) /\ G = A \cap G
  BY FS_Subset
<1>2. IsFiniteSet(R) /\ Cardinality(R) = Cardinality(A) - Cardinality(G)
  BY <1>1, FS_Difference
<1>3. /\ IsFiniteSet(U) /\ IsFiniteSet(R \cap N)
      /\ Cardinality(U) = Cardinality(R) + Cardinality(N) - Cardinality(R \cap N)
  BY <1>2, FS_Union, FS_Intersection
<1>4. B \in SUBSET U
  OBVIOUS
<1>. HIDE DEF R, U
<1>5. IsFiniteSet(B) /\ Cardinality(B) <= Cardinality(U)
  BY <1>3, <1>4, FS_Subset
<1>6. /\ Cardinality(A) \in Nat /\ Cardinality(B) \in Nat /\ Cardinality(G) \in Nat
      /\ Cardinality(N) \in Nat /\ Cardinality(U) \in Nat /\ Cardinality(R) \in Nat
      /\ Cardinality(R \cap N) \in Nat
  BY <1>1, <1>2, <1>3, <1>5, FS_CardinalityType
<1>. DEFINE a == Cardinality(A)
            b == Cardinality(B)
            c == Cardinality(G)
            n == Cardinality(N)
            u == Cardinality(U)
            r == Cardinality(R)
            i == Cardinality(R \cap N)
<1>7. /\ a \in Nat /\ b \in Nat /\ c \in Nat /\ n \in Nat /\ u \in Nat /\ r \in Nat /\ i \in Nat
      /\ r = a - c /\ u = r + n - i /\ b <= u
  BY <1>2, <1>3, <1>5, <1>6
<1>. HIDE DEF a, b, c, n, u, r, i
<1>8. b + c <= a + n
  BY <1>7
<1>. QED
  BY <1>1, <1>5, <1>6, <1>8 DEF a, b, c, n

\* An amount is at most MaxAmount, and only outputs 1 to 19 hold units.
LEMMA AmountBounds ==
    ASSUME NEW p \in Txid, NEW v \in Nat
    PROVE  /\ output_slp_amount(p, v) \in 0..MaxAmount
           /\ output_slp_amount(p, v) # 0 => v \in 1..20
<1>1. MaxAmount \in Nat /\ Amount = 0..MaxAmount /\ Tx[p].qty \in Amount
  BY MaxAmountAssumption, TxTypes DEF MaxAmountAssumption, Amount
<1>2. CASE Tx[p].type = "send" /\ v \in DOMAIN Tx[p].amounts
  <2>1. output_slp_amount(p, v) = Tx[p].amounts[v] /\ Tx[p].amounts[v] \in Amount
    BY <1>2, TxTypes DEF output_slp_amount
  <2>. DEFINE n == Len(Tx[p].amounts)
  <2>2. v \in 1..n /\ n \in 1..19
    BY <1>2, TxTypes, ParserAssumption DEF ParserAssumption, Parsed
  <2>. HIDE DEF n
  <2>3. v \in 1..20
    BY <2>2
  <2>. QED
    BY <1>1, <2>1, <2>3
<1>3. CASE Tx[p].type \in {"mint", "genesis"} /\ v = 1
  <2>1. output_slp_amount(p, v) = Tx[p].qty
    BY <1>3 DEF output_slp_amount
  <2>. QED
    BY <1>1, <1>3, <2>1
<1>4. CASE /\ ~(Tx[p].type = "send" /\ v \in DOMAIN Tx[p].amounts)
           /\ ~(Tx[p].type \in {"mint", "genesis"} /\ v = 1)
  <2>1. output_slp_amount(p, v) = 0
    BY <1>4 DEF output_slp_amount
  <2>. QED
    BY <1>1, <2>1
<1>. QED
  BY <1>2, <1>3, <1>4

\* The units on the outputs of t, and those its inputs take away from k.
UnitsOf(t) == {x \in {t} \X (1..20) \X (1..MaxAmount) : x[3] <= output_slp_amount(t, x[2])}
SpentBy(t, k) == {x \in HeldUnits(k) : [txid |-> x[1], vout |-> x[2]] \in Inputs(t)}

\* A transaction has finitely many units, a SEND as many as it sends at most, and
\* the others as many as they create.
LEMMA UnitsOfFacts ==
    ASSUME NEW t \in Txid
    PROVE  /\ IsFiniteSet(UnitsOf(t))
           /\ Tx[t].type = "send" => Cardinality(UnitsOf(t)) <= Cardinality(OutputUnits(t))
<1>1. MaxAmount \in Nat /\ IsFiniteSet(1..MaxAmount)
  BY MaxAmountAssumption, FS_Interval DEF MaxAmountAssumption
<1>2. ASSUME NEW x \in UnitsOf(t)
      PROVE  /\ x = <<t, x[2], x[3]>> /\ x[2] \in 1..20 /\ x[3] \in 1..MaxAmount
             /\ x[3] <= output_slp_amount(t, x[2])
  BY <1>2 DEF UnitsOf
<1>. DEFINE f == [x \in UnitsOf(t) |-> <<x[2], x[3]>>]
            T == (1..20) \X (1..MaxAmount)
<1>3. \A x, y \in UnitsOf(t) : f[x] = f[y] => x = y
  <2>1. ASSUME NEW x \in UnitsOf(t), NEW y \in UnitsOf(t), f[x] = f[y]
        PROVE  x = y
    <3>1. x[2] = y[2] /\ x[3] = y[3]
      BY <2>1
    <3>. QED
      BY <1>2, <3>1
  <2>. QED
    BY <2>1
<1>4. IsFiniteSet(UnitsOf(t))
  <2>1. 1 \in Int /\ 20 \in Int
    OBVIOUS
  <2>2. IsFiniteSet(1..20)
    BY <2>1, FS_Interval
  <2>3. IsFiniteSet(T)
    BY <1>1, <2>2, FS_Product, Zenon
  <2>4. f \in [UnitsOf(t) -> T]
    BY <1>2
  <2>5. f \in Injection(UnitsOf(t), T)
    BY <1>3, <2>4 DEF Injection, IsInjective
  <2>. QED
    BY <2>3, <2>5, FS_Injection
<1>5. ASSUME Tx[t].type = "send"
      PROVE  Cardinality(UnitsOf(t)) <= Cardinality(OutputUnits(t))
  <2>1. ASSUME NEW x \in UnitsOf(t)
        PROVE  <<x[2], x[3]>> \in OutputUnits(t)
    <3>1. x[2] \in 1..20 /\ x[3] \in 1..MaxAmount /\ x[3] <= output_slp_amount(t, x[2])
      BY <1>2, <2>1
    <3>2. x[3] >= 1 /\ x[3] \in Int
      BY <1>1, <3>1
    <3>3. x[2] \in DOMAIN Tx[t].amounts /\ output_slp_amount(t, x[2]) = Tx[t].amounts[x[2]]
      BY <1>5, <3>1, <3>2 DEF output_slp_amount
    <3>. QED
      BY <3>1, <3>3 DEF OutputUnits
  <2>2. f \in Injection(UnitsOf(t), OutputUnits(t))
    BY <1>3, <2>1 DEF Injection, IsInjective
  <2>3. IsFiniteSet(OutputUnits(t))
    BY UnitsAreFinite
  <2>. QED
    BY <2>2, <2>3, FS_Injection
<1>. QED
  BY <1>4, <1>5

\* Finitely many valid transactions hold and create finitely many units.
LEMMA UnitsCanBeCounted ==
    ASSUME IsFiniteSet(valid), NEW k
    PROVE  IsFiniteSet(HeldUnits(k)) /\ IsFiniteSet(MintedUnits(k))
<1>1. 1 \in Int /\ 20 \in Int /\ MaxAmount \in Int
  BY MaxAmountAssumption DEF MaxAmountAssumption
<1>2. IsFiniteSet(1..MaxAmount) /\ IsFiniteSet(1..20)
  BY <1>1, FS_Interval
<1>3. OfToken(k) \in SUBSET valid
  BY DEF OfToken
<1>4. IsFiniteSet(OfToken(k))
  BY <1>3, FS_Subset
<1>5. IsFiniteSet(OfToken(k) \X (1..MaxAmount))
  BY <1>2, <1>4, FS_Product, Zenon
<1>6. IsFiniteSet((1..20) \X (1..MaxAmount))
  BY <1>2, FS_Product, Zenon
<1>7. IsFiniteSet(OfToken(k) \X ((1..20) \X (1..MaxAmount)))
  BY <1>4, <1>6, FS_Product, Zenon
<1>8. IsFiniteSet(MintedUnits(k))
  BY <1>5, FS_Subset DEF MintedUnits
<1>9. IsFiniteSet(HeldUnits(k))
  <2>. DEFINE f == [x \in HeldUnits(k) |-> <<x[1], <<x[2], x[3]>>>>]
              T == OfToken(k) \X ((1..20) \X (1..MaxAmount))
  <2>1. \A x \in HeldUnits(k) : /\ x = <<x[1], x[2], x[3]>> /\ x[1] \in OfToken(k)
                                /\ x[2] \in 1..20 /\ x[3] \in 1..MaxAmount
    BY DEF HeldUnits
  <2>2. f \in [HeldUnits(k) -> T]
    BY <2>1
  <2>3. ASSUME NEW x \in HeldUnits(k), NEW y \in HeldUnits(k), f[x] = f[y]
        PROVE  x = y
    <3>1. x[1] = y[1] /\ x[2] = y[2] /\ x[3] = y[3]
      BY <2>3
    <3>. QED
      BY <2>1, <3>1
  <2>4. f \in Injection(HeldUnits(k), T)
    BY <2>2, <2>3 DEF Injection, IsInjective
  <2>. QED
    BY <1>7, <2>4, FS_Injection
<1>. QED
  BY <1>8, <1>9

\* What t spends of its own token, it takes out of circulation.
LEMMA SpentUnitsLeave ==
    ASSUME ValidatorTypeOK, IsFiniteSet(valid), NEW t \in Txid, t \notin valid,
           valid' = valid \cup {t}, UnitsSpentOnce', NEW map
    PROVE  Cardinality(InputUnits(t, map, valid))
             <= Cardinality(SpentBy(t, Tx[t].tokenid))
<1>. DEFINE k == Tx[t].tokenid
            I == InputUnits(t, map, valid)
            o(u) == Tx[t].inputs[u[1]]
            f == [u \in I |-> <<o(u).txid, o(u).vout, u[2]>>]
<1>1. ASSUME NEW u \in I
      PROVE  /\ u[1] \in DOMAIN Tx[t].inputs /\ u[2] \in 1..MaxAmount /\ u = <<u[1], u[2]>>
             /\ o(u) \in Outpoint /\ o(u).txid \in valid /\ SameToken(t, o(u).txid)
             /\ u[2] <= output_slp_amount(o(u).txid, o(u).vout)
             /\ o(u) \in Inputs(t) /\ o(u) = [txid |-> o(u).txid, vout |-> o(u).vout]
             /\ o(u).txid \in Txid /\ o(u).vout \in Nat
  <2>1. /\ u \in (DOMAIN Tx[t].inputs) \X (1..MaxAmount) /\ o(u).txid \in valid
        /\ SameToken(t, o(u).txid) /\ u[2] <= output_slp_amount(o(u).txid, o(u).vout)
    BY <1>1 DEF InputUnits
  <2>2. u[1] \in DOMAIN Tx[t].inputs /\ u[2] \in 1..MaxAmount /\ u = <<u[1], u[2]>>
    BY <2>1
  <2>3. o(u) \in Outpoint /\ o(u) \in Inputs(t)
    BY <2>2, TxTypes DEF Inputs
  <2>. QED
    BY <2>1, <2>2, <2>3 DEF Outpoint
<1>2. ASSUME NEW u \in I
      PROVE  f[u] \in SpentBy(t, k)
  <2>. DEFINE p == o(u).txid
              v == o(u).vout
  <2>1. output_slp_amount(p, v) \in Nat
    BY <1>1, AmountIsNat
  <2>2. output_slp_amount(p, v) # 0
    <3>1. u[2] \in 1..MaxAmount /\ u[2] <= output_slp_amount(p, v)
      BY <1>1
    <3>. DEFINE a == output_slp_amount(p, v)
                j == u[2]
    <3>2. a \in Nat /\ j \in 1..MaxAmount /\ j <= a /\ MaxAmount \in Nat
      BY <2>1, <3>1, MaxAmountAssumption DEF MaxAmountAssumption
    <3>. HIDE DEF a, j
    <3>3. a # 0
      BY <3>2
    <3>. QED
      BY <3>3 DEF a
  <2>3. v \in 1..20 /\ p \in OfToken(k)
    BY <1>1, <2>2, AmountBounds DEF OfToken, SameToken
  <2>4. \A w \in OfToken(k) : o(u) \notin Inputs(w)
    BY <1>1, <2>2 DEF UnitsSpentOnce, OfToken
  <2>5. f[u] = <<p, v, u[2]>> /\ o(u) = [txid |-> p, vout |-> v] /\ o(u) \in Inputs(t)
        /\ u[2] \in 1..MaxAmount /\ u[2] <= output_slp_amount(p, v)
    BY <1>1
  <2>. HIDE DEF p, v, f
  <2>6. f[u] \in HeldUnits(k)
    BY <2>3, <2>4, <2>5 DEF HeldUnits
  <2>. QED
    BY <2>5, <2>6 DEF SpentBy
<1>3. ASSUME NEW u \in I, NEW w \in I, f[u] = f[w]
      PROVE  u = w
  <2>1. o(u).txid = o(w).txid /\ o(u).vout = o(w).vout /\ u[2] = w[2]
    BY <1>3
  <2>2. o(u) = o(w)
    BY <1>1, <2>1
  <2>3. u[1] = w[1]
    BY <1>1, <2>2, ConsensusAssumption DEF ConsensusAssumption, Spendable
  <2>. QED
    BY <1>1, <2>1, <2>3
<1>4. f \in Injection(I, SpentBy(t, k))
  BY <1>2, <1>3 DEF Injection, IsInjective
<1>5. IsFiniteSet(SpentBy(t, k))
  BY UnitsCanBeCounted, FS_Subset DEF SpentBy
<1>. HIDE DEF I, f
<1>6. Cardinality(I) <= Cardinality(SpentBy(t, k))
  BY <1>4, <1>5, FS_Injection
<1>. QED
  BY <1>6 DEF I

\* A transaction that validate() accepts leaves no more units in circulation than
\* were created.
LEMMA AcceptedTxKeepsUnits ==
    ASSUME ValidatorTypeOK, IsFiniteSet(valid), NEW t \in Txid, t \notin valid,
           valid' = valid \cup {t}, UnitsSpentOnce',
           NEW map, validate(t, map, valid),
           NEW k \in Txid, Cardinality(HeldUnits(k)) <= Cardinality(MintedUnits(k))
    PROVE  Cardinality(HeldUnits(k)') <= Cardinality(MintedUnits(k)')
<1>. DEFINE H == HeldUnits(k)
            M == MintedUnits(k)
            G == SpentBy(t, k)
            N == UnitsOf(t)
<1>1. IsFiniteSet(H) /\ IsFiniteSet(M) /\ IsFiniteSet(N) /\ G \subseteq H
  BY UnitsCanBeCounted, UnitsOfFacts DEF SpentBy
<1>2. CASE Tx[t].tokenid # k
  <2>1. OfToken(k)' = OfToken(k)
    BY <1>2 DEF OfToken
  <2>2. HeldUnits(k)' = HeldUnits(k) /\ MintedUnits(k)' = MintedUnits(k)
    BY <2>1 DEF HeldUnits, MintedUnits
  <2>. QED
    BY <2>2
<1>3. CASE Tx[t].tokenid = k
  <2>1. OfToken(k)' = OfToken(k) \cup {t} /\ t \notin OfToken(k)
    BY <1>3 DEF OfToken
  <2>2. HeldUnits(k)' \subseteq (H \ G) \cup N
    BY <2>1 DEF HeldUnits, SpentBy, UnitsOf
  <2>. DEFINE H2 == HeldUnits(k)'
              M2 == MintedUnits(k)'
  <2>. HIDE DEF H, M, G, N
  <2>3. /\ IsFiniteSet(G)
        /\ Cardinality(H) \in Nat /\ Cardinality(H2) \in Nat
        /\ Cardinality(G) \in Nat /\ Cardinality(N) \in Nat
        /\ Cardinality(H2) + Cardinality(G) <= Cardinality(H) + Cardinality(N)
    BY <1>1, <2>2, CountMoves
  <2>4. Cardinality(M) \in Nat /\ Cardinality(H) <= Cardinality(M)
    BY <1>1, FS_CardinalityType DEF H, M
  <2>5. CASE Tx[t].type = "send"
    <3>1. M2 = M
      BY <2>1, <2>5 DEF MintedUnits, M
    <3>. DEFINE I == InputUnits(t, map, valid)
                O == OutputUnits(t)
    <3>2. Cardinality(O) <= Cardinality(I)
      BY <2>5 DEF validate, check_send
    <3>3. Cardinality(I) <= Cardinality(G)
      BY <1>3, SpentUnitsLeave DEF G
    <3>4. Cardinality(N) <= Cardinality(O)
      BY <2>5, UnitsOfFacts DEF N
    <3>5. Cardinality(I) \in Nat /\ Cardinality(O) \in Nat
      BY UnitsAreFinite, FS_CardinalityType
    <3>. DEFINE ch == Cardinality(H)
                ch2 == Cardinality(H2)
                cg == Cardinality(G)
                cn == Cardinality(N)
                cm == Cardinality(M)
                ci == Cardinality(I)
                co == Cardinality(O)
    <3>6. /\ ch \in Nat /\ ch2 \in Nat /\ cg \in Nat /\ cn \in Nat /\ cm \in Nat /\ ci \in Nat
          /\ co \in Nat /\ ch2 + cg <= ch + cn /\ ch <= cm /\ co <= ci /\ ci <= cg /\ cn <= co
      BY <2>3, <2>4, <3>2, <3>3, <3>4, <3>5
    <3>. HIDE DEF ch, ch2, cg, cn, cm, ci, co
    <3>7. ch2 <= cm
      BY <3>6
    <3>8. Cardinality(H2) <= Cardinality(M2)
      BY <3>1, <3>7 DEF ch2, cm
    <3>. QED
      BY <3>8
  <2>6. CASE Tx[t].type # "send"
    <3>. DEFINE X == {x \in {t} \X (1..MaxAmount) : x[2] <= Tx[t].qty}
                f == [x \in N |-> <<t, x[3]>>]
    <3>1. M2 = M \cup X /\ M \cap X = {}
      BY <2>1, <2>6 DEF MintedUnits, M
    <3>2. IsFiniteSet({t}) /\ IsFiniteSet(1..MaxAmount)
      <4>1. 1 \in Int /\ MaxAmount \in Int
        BY MaxAmountAssumption DEF MaxAmountAssumption
      <4>2. IsFiniteSet(1..MaxAmount)
        BY <4>1, FS_Interval
      <4>3. IsFiniteSet({t})
        BY FS_Singleton, Zenon
      <4>. QED
        BY <4>2, <4>3
    <3>3. IsFiniteSet({t} \X (1..MaxAmount))
      BY <3>2, FS_Product, Zenon
    <3>4. IsFiniteSet(X)
      BY <3>3, FS_Subset
    <3>5. ASSUME NEW x \in N
          PROVE  /\ x = <<t, x[2], x[3]>> /\ x[2] = 1 /\ x[3] \in 1..MaxAmount
                 /\ x[3] <= Tx[t].qty
      <4>1. /\ x = <<t, x[2], x[3]>> /\ x[2] \in 1..20 /\ x[3] \in 1..MaxAmount
            /\ x[3] <= output_slp_amount(t, x[2])
        BY <3>5 DEF N, UnitsOf
      <4>2. x[3] >= 1 /\ x[3] \in Int
        BY <4>1, MaxAmountAssumption DEF MaxAmountAssumption
      <4>3. x[2] = 1 /\ output_slp_amount(t, x[2]) = Tx[t].qty
        BY <2>6, <4>1, <4>2 DEF output_slp_amount
      <4>. QED
        BY <4>1, <4>3
    <3>6. f \in Injection(N, X)
      <4>1. f \in [N -> X]
        BY <3>5
      <4>2. ASSUME NEW x \in N, NEW y \in N, f[x] = f[y]
            PROVE  x = y
        <5>1. x[3] = y[3]
          BY <4>2
        <5>. QED
          BY <3>5, <5>1
      <4>. QED
        BY <4>1, <4>2 DEF Injection, IsInjective
    <3>. HIDE DEF X, f
    <3>7. Cardinality(N) <= Cardinality(X)
      BY <3>4, <3>6, FS_Injection
    <3>8. Cardinality(M \cup X) = Cardinality(M) + Cardinality(X) - Cardinality(M \cap X)
      BY <1>1, <3>4, FS_Union
    <3>9. Cardinality(M \cap X) = 0 /\ Cardinality(X) \in Nat
      BY <3>1, <3>4, FS_EmptySet, FS_CardinalityType
    <3>. DEFINE ch == Cardinality(H)
                ch2 == Cardinality(H2)
                cg == Cardinality(G)
                cn == Cardinality(N)
                cm == Cardinality(M)
                cm2 == Cardinality(M2)
                cx == Cardinality(X)
    <3>10. /\ ch \in Nat /\ ch2 \in Nat /\ cg \in Nat /\ cn \in Nat /\ cm \in Nat /\ cx \in Nat
           /\ ch2 + cg <= ch + cn /\ ch <= cm /\ cn <= cx /\ cm2 = cm + cx - 0
      BY <2>3, <2>4, <3>1, <3>7, <3>8, <3>9
    <3>. HIDE DEF ch, ch2, cg, cn, cm, cm2, cx
    <3>11. ch2 <= cm2
      BY <3>10
    <3>12. Cardinality(H2) <= Cardinality(M2)
      BY <3>11 DEF ch2, cm2
    <3>. QED
      BY <3>12
  <2>. QED
    BY <2>5, <2>6
<1>. QED
  BY <1>2, <1>3

\* NoInflation: as long as no units are spent by two accepted transactions, there
\* are never more units of a token in circulation than were created, in whatever
\* order transactions come and whatever is missing.
THEOREM NothingIsInflated == ValidatorSpec /\ []UnitsSpentOnce => []NoInflation
<1>. DEFINE Inv == IsFiniteSet(valid) /\ NoInflation
<1>1. ValidatorInit => Inv
  <2>1. SUFFICES ASSUME ValidatorInit PROVE Inv
    OBVIOUS
  <2>2. IsFiniteSet(valid)
    BY <2>1, FS_EmptySet DEF ValidatorInit
  <2>3. ASSUME NEW k \in Txid
        PROVE  HeldUnits(k) = {} /\ MintedUnits(k) = {}
    BY <2>1 DEF ValidatorInit, HeldUnits, MintedUnits, OfToken
  <2>4. Cardinality({}) <= Cardinality({})
    BY FS_EmptySet
  <2>. QED
    BY <2>2, <2>3, <2>4 DEF NoInflation
<1>2. ASSUME UNCHANGED <<valid, trusted>>, Inv PROVE Inv'
  BY <1>2 DEF NoInflation, HeldUnits, MintedUnits, OfToken
<1>3. ASSUME ValidatorTypeOK, Inv, UnitsSpentOnce', NEW t \in Txid, NEW trust \in BOOLEAN,
             AddTx(t, trust)
      PROVE  Inv'
  <2>1. CASE Tx[t].type = "invalid"
    BY <1>2, <1>3, <2>1 DEF AddTx, validatorVars
  <2>2. CASE Tx[t].type # "invalid"
    <3>1. valid' = valid \/ valid' = valid \cup {t}
      BY <1>3, <2>2 DEF AddTx
    <3>2. IsFiniteSet(valid')
      BY <1>3, <3>1, FS_AddElement
    <3>3. ASSUME trusted' = {}, NEW k \in Txid
          PROVE  Cardinality(HeldUnits(k)') <= Cardinality(MintedUnits(k)')
      <4>1. ~trust /\ trusted = {}
        BY <1>3, <2>2, <3>3 DEF AddTx
      <4>2. Cardinality(HeldUnits(k)) <= Cardinality(MintedUnits(k))
        BY <1>3, <4>1 DEF NoInflation
      <4>3. CASE valid' = valid
        <5>1. HeldUnits(k)' = HeldUnits(k) /\ MintedUnits(k)' = MintedUnits(k)
          BY <4>3 DEF HeldUnits, MintedUnits, OfToken
        <5>. QED
          BY <4>2, <5>1
      <4>4. CASE valid' # valid
        <5>1. t \notin valid /\ validate(t, transaction_map', valid) /\ valid' = valid \cup {t}
          BY <1>3, <2>2, <4>1, <4>4 DEF AddTx
        <5>. QED
          BY <1>3, <4>2, <5>1, AcceptedTxKeepsUnits
      <4>. QED
        BY <4>3, <4>4
    <3>. QED
      BY <3>2, <3>3 DEF NoInflation
  <2>. QED
    BY <2>1, <2>2
<1>4. ValidatorTypeOK /\ Inv /\ UnitsSpentOnce' /\ [ValidatorNext]_validatorVars => Inv'
  <2>1. SUFFICES ASSUME ValidatorTypeOK, Inv, UnitsSpentOnce', [ValidatorNext]_validatorVars
                 PROVE  Inv'
    OBVIOUS
  <2>. HIDE DEF Inv
  <2>2. CASE UNCHANGED validatorVars
    BY <1>2, <2>1, <2>2 DEF validatorVars
  <2>3. ASSUME NEW t \in Txid, AddTx(t, FALSE) \/ AddTx(t, TRUE)
        PROVE  Inv'
    BY <1>3, <2>1, <2>3
  <2>4. ASSUME NEW t \in Txid, RemoveTx(t)
        PROVE  Inv'
    BY <1>2, <2>1, <2>4 DEF RemoveTx
  <2>. QED
    BY <2>1, <2>2, <2>3, <2>4 DEF ValidatorNext
<1>5. Inv => NoInflation
  OBVIOUS
<1>. HIDE DEF Inv
<1>. QED
  BY <1>1, <1>4, <1>5, ValidatorTypeCorrect, PTL DEF ValidatorSpec

-----------------------------------------------------------------------------
(* SlpQueries. *)

\* add_tx accepts the GENESIS of anything but an NFT1 child as soon as it is stored.
StoredGenesisIsValid ==
    \A t \in transaction_map :
        (Tx[t].type = "genesis" /\ Tx[t].token_type # Nft1Child) => t \in valid

\* The inductive invariant.
QueryInv ==
    /\ ValidatorTypeOK
    /\ ValidIsSound
    /\ Grounded
    /\ StoredGenesisIsValid

-----------------------------------------------------------------------------
(* Facts about valid transactions. *)

\* Whatever is valid and moves units has a valid GENESIS.
LEMMA ValidHasToken ==
    ASSUME NEW t \in SlpValid, ~MovesNothing(t)
    PROVE  HasToken(t, SlpValid)
<1>. DEFINE V == {u \in SlpValid : ~MovesNothing(u) => HasToken(u, SlpValid)}
<1>1. SlpValid \subseteq Txid
  BY DEF SlpValid
<1>2. ASSUME NEW u \in Txid \ V, Justified(u, V)
      PROVE  FALSE
  <2>1. Justified(u, SlpValid)
    BY <1>2, JustifiedMono
  <2>2. u \in SlpValid
    BY <2>1, SlpValidClosed
  <2>3. ~MovesNothing(u)
    BY <1>2, <2>2
  <2>4. HasToken(u, SlpValid \cup {u})
    BY <1>1, <1>2, <2>3, JustifiedHasToken
  <2>5. SlpValid \cup {u} = SlpValid
    BY <2>2
  <2>. QED
    BY <1>2, <2>2, <2>4, <2>5
<1>3. V \in ClosedSets
  BY <1>1, <1>2 DEF ClosedSets, ClosedUnderRules
<1>. HIDE DEF V
<1>4. t \in V
  BY <1>3 DEF SlpValid
<1>. QED
  BY <1>4 DEF V

\* A valid NFT1 child stands on a valid group, and so does that group's token.
LEMMA ValidChildHasGroup ==
    ASSUME NEW t \in SlpValid, IsChildGenesis(t)
    PROVE  LET p == Tx[t].inputs[1].txid IN
           /\ Tx[t].inputs # <<>> /\ p \in SlpValid /\ Tx[p].token_type = Nft1Group
           /\ Tx[p].tokenid \in SlpValid /\ Tx[Tx[p].tokenid].token_type = Nft1Group
<1>. DEFINE p == Tx[t].inputs[1].txid
            v == Tx[t].inputs[1].vout
<1>1. t \in Txid /\ Justified(t, SlpValid) /\ SlpValid \subseteq Txid
  BY SlpValidJustified DEF SlpValid
<1>2. /\ Tx[t].inputs # <<>> /\ p \in SlpValid /\ Tx[p].token_type = Nft1Group
      /\ output_slp_amount(p, v) # 0
  BY <1>1 DEF Justified, IsChildGenesis
<1>3. Tx[t].inputs[1] \in Outpoint
  BY <1>1, <1>2, TxTypes
<1>4. p \in Txid /\ v \in Nat
  BY <1>1, <1>2, <1>3 DEF Outpoint
<1>5. output_slp_amount(p, v) \in 0..MaxAmount /\ MaxAmount \in Nat
  BY <1>4, AmountBounds, MaxAmountAssumption DEF MaxAmountAssumption
<1>6. ~MovesNothing(p)
  <2>1. output_slp_amount(p, v) >= 1 /\ MaxAmount >= 1
    BY <1>2, <1>5
  <2>. QED
    BY <1>4, <2>1, HolderMovesUnits
<1>7. HasToken(p, SlpValid)
  BY <1>2, <1>6, ValidHasToken
<1>. QED
  BY <1>2, <1>7 DEF HasToken

\* The first n numbers, each with a label, are n things.
LEMMA LabelledCount ==
    ASSUME NEW n \in Nat, NEW a
    PROVE  Cardinality({<<a, j>> : j \in 1..n}) = n
<1>. DEFINE S == {<<a, j>> : j \in 1..n}
            f == [j \in 1..n |-> <<a, j>>]
<1>1. f \in Bijection(1..n, S)
  BY DEF Bijection, Injection, Surjection, IsInjective
<1>2. ExistsBijection(1..n, S)
  BY <1>1 DEF ExistsBijection
<1>. HIDE DEF S
<1>3. Cardinality(S) = n
  BY <1>2, FS_CountingElements
<1>. QED
  BY <1>3 DEF S

\* The amount of an output is the number of its units.
LEMMA AmountCountsUnits ==
    ASSUME NEW t \in SlpValid, NEW v \in Nat
    PROVE  output_slp_amount(t, v) = Cardinality(UnitsOn(t, v))
<1>1. t \in Txid /\ Tx[t].type \in {"send", "mint", "genesis"}
  BY SlpValidJustified DEF Justified
<1>2. MaxAmount \in Nat /\ Amount = 0..MaxAmount /\ Tx[t].qty \in Amount
  BY <1>1, TxTypes, MaxAmountAssumption DEF MaxAmountAssumption, Amount
<1>3. CASE Tx[t].type = "send"
  <2>1. UnitsOn(t, v) = {u \in OutputUnits(t) : u[1] = v}
    BY <1>3 DEF UnitsOn
  <2>2. CASE v \in DOMAIN Tx[t].amounts
    <3>. DEFINE n == Tx[t].amounts[v]
    <3>1. n \in 0..MaxAmount /\ output_slp_amount(t, v) = n
      BY <1>1, <1>2, <1>3, <2>2, TxTypes DEF output_slp_amount
    <3>2. {u \in OutputUnits(t) : u[1] = v} = {<<v, j>> : j \in 1..n}
      <4>1. ASSUME NEW u \in OutputUnits(t), u[1] = v
            PROVE  u \in {<<v, j>> : j \in 1..n}
        <5>1. u = <<v, u[2]>> /\ u[2] \in 1..MaxAmount /\ u[2] <= n
          BY <4>1 DEF OutputUnits
        <5>. HIDE DEF n
        <5>2. u[2] \in 1..n
          BY <1>2, <3>1, <5>1
        <5>. QED
          BY <5>1, <5>2
      <4>2. ASSUME NEW j \in 1..n
            PROVE  <<v, j>> \in OutputUnits(t)
        <5>1. j \in 1..MaxAmount /\ j <= n
          <6>. HIDE DEF n
          <6>. QED
            BY <1>2, <3>1, <4>2
        <5>. QED
          BY <2>2, <5>1 DEF OutputUnits
      <4>. HIDE DEF n
      <4>. QED
        BY <4>1, <4>2
    <3>. HIDE DEF n
    <3>3. n \in Nat
      BY <1>2, <3>1
    <3>4. UnitsOn(t, v) = {<<v, j>> : j \in 1..n}
      BY <2>1, <3>2
    <3>5. Cardinality({<<v, j>> : j \in 1..n}) = n
      BY <3>3, LabelledCount
    <3>. QED
      BY <3>1, <3>4, <3>5
  <2>3. CASE v \notin DOMAIN Tx[t].amounts
    <3>1. UnitsOn(t, v) = {}
      BY <2>1, <2>3 DEF OutputUnits
    <3>2. output_slp_amount(t, v) = 0
      BY <1>3, <2>3 DEF output_slp_amount
    <3>. QED
      BY <3>1, <3>2, FS_EmptySet
  <2>. QED
    BY <2>2, <2>3
<1>4. CASE Tx[t].type \in {"mint", "genesis"}
  <2>. DEFINE n == Tx[t].qty
  <2>1. UnitsOn(t, v) = {<<1, j>> : j \in 1..n} \cap {<<v, j>> : j \in 1..MaxAmount}
    BY <1>4 DEF UnitsOn
  <2>2. CASE v = 1
    <3>1. UnitsOn(t, v) = {<<1, j>> : j \in 1..n}
      BY <1>2, <2>1, <2>2
    <3>2. output_slp_amount(t, v) = n
      BY <1>4, <2>2 DEF output_slp_amount
    <3>3. n \in Nat
      BY <1>2
    <3>. QED
      BY <3>1, <3>2, <3>3, LabelledCount
  <2>3. CASE v # 1
    <3>1. UnitsOn(t, v) = {}
      BY <2>1, <2>3
    <3>2. output_slp_amount(t, v) = 0
      BY <1>4, <2>3 DEF output_slp_amount
    <3>. QED
      BY <3>1, <3>2, FS_EmptySet
  <2>. QED
    BY <2>2, <2>3
<1>. QED
  BY <1>1, <1>3, <1>4

-----------------------------------------------------------------------------
(* The answers. *)

\* OutputOracle by cases.
LEMMA OracleCases ==
    ASSUME NEW t \in Txid, NEW v
    PROVE  LET a == OutputOracle(t, v) IN
           /\ a.status = "OK" =>
                /\ t \in valid
                /\ Tx[t].token_type # Nft1Child =>
                     /\ a.value = output_slp_amount(t, v)
                     /\ a.is_baton <=> mint_baton_outpoint(t).vout = v
                /\ Tx[t].token_type = Nft1Child => a.groupid = GroupOf(t)
           /\ (/\ t \in valid /\ has(t)
               /\ Tx[t].token_type = Nft1Child => has(Tx[t].tokenid) /\ FirstInputStored(t))
              => a.status = "OK"
<1>1. Refused.status # "OK" /\ Thrown.status # "OK"
  BY DEF Refused, Thrown
<1>2. CASE t \notin valid
  BY <1>1, <1>2 DEF OutputOracle
<1>3. CASE t \in valid /\ ~has(t)
  BY <1>1, <1>3 DEF OutputOracle
<1>4. CASE t \in valid /\ has(t) /\ Tx[t].token_type # Nft1Child
  BY <1>4 DEF OutputOracle
<1>5. CASE t \in valid /\ has(t) /\ Tx[t].token_type = Nft1Child
  BY <1>1, <1>5 DEF OutputOracle
<1>. QED
  BY <1>2, <1>3, <1>4, <1>5

\* The oracle signs nothing but facts.
LEMMA OracleTellsTruth ==
    ASSUME QueryInv
    PROVE  OracleIsTruthful
<1>1. SUFFICES ASSUME NEW t \in Txid, NEW v \in 0..Tx[t].nout, OutputOracle(t, v).status = "OK"
               PROVE  LET a == OutputOracle(t, v) IN
                      /\ t \in SlpValid
                      /\ Tx[t].token_type # Nft1Child =>
                            /\ a.value = Cardinality(UnitsOn(t, v))
                            /\ a.is_baton /\ v # 0 =>
                                  Tx[t].type # "send" /\ Tx[t].mint_baton_vout = v
                      /\ Tx[t].token_type = Nft1Child /\ Tx[t].type = "genesis" =>
                            Tx[a.groupid].token_type = Nft1Group /\ a.groupid \in SlpValid
  BY DEF OracleIsTruthful
<1>. DEFINE a == OutputOracle(t, v)
<1>2. /\ t \in valid
      /\ Tx[t].token_type # Nft1Child =>
            /\ a.value = output_slp_amount(t, v)
            /\ a.is_baton <=> mint_baton_outpoint(t).vout = v
      /\ Tx[t].token_type = Nft1Child => a.groupid = GroupOf(t)
  BY <1>1, OracleCases
<1>. HIDE DEF a
<1>3. t \in SlpValid
  BY <1>2 DEF QueryInv, ValidIsSound
<1>4. v \in Nat
  BY <1>1, TxAssumption DEF TxAssumption, Transaction
<1>5. output_slp_amount(t, v) = Cardinality(UnitsOn(t, v))
  BY <1>3, <1>4, AmountCountsUnits
<1>6. ASSUME mint_baton_outpoint(t).vout = v, v # 0
      PROVE  Tx[t].type # "send" /\ Tx[t].mint_baton_vout = v
  BY <1>6 DEF mint_baton_outpoint
<1>7. ASSUME Tx[t].token_type = Nft1Child, Tx[t].type = "genesis"
      PROVE  Tx[a.groupid].token_type = Nft1Group /\ a.groupid \in SlpValid
  BY <1>2, <1>3, <1>7, ValidChildHasGroup DEF IsChildGenesis, GroupOf
<1>. QED
  BY <1>2, <1>3, <1>5, <1>6, <1>7 DEF a

\* SlpTokenInfo describes tokens as they are.
LEMMA TokenInfoTellsTruth ==
    ASSUME QueryInv
    PROVE  TokenInfoIsTruthful
<1>1. SUFFICES ASSUME NEW k \in Txid, SlpTokenInfo(k).status = "OK"
               PROVE  LET a == SlpTokenInfo(k) IN
                      IF a.type # Nft1Child THEN k \in valid
                      ELSE k \in valid =>
                          \E p \in SlpValid : /\ p = Tx[k].inputs[1].txid
                                              /\ Tx[p].tokenid = a.groupid
                                              /\ Tx[p].token_type = Nft1Group
  BY DEF TokenInfoIsTruthful
<1>. DEFINE a == SlpTokenInfo(k)
<1>2. Refused.status # "OK" /\ Thrown.status # "OK"
  BY DEF Refused, Thrown
<1>3. has(k) /\ Tx[k].type = "genesis"
  <2>1. ASSUME ~has(k) PROVE FALSE
    BY <1>1, <1>2, <2>1 DEF SlpTokenInfo
  <2>2. ASSUME has(k), Tx[k].type # "genesis" PROVE FALSE
    BY <1>1, <1>2, <2>2 DEF SlpTokenInfo
  <2>. QED
    BY <2>1, <2>2
<1>4. CASE Tx[k].token_type # Nft1Child
  <2>1. k \in valid
    BY <1>3, <1>4 DEF QueryInv, StoredGenesisIsValid, has
  <2>2. a.type # Nft1Child
    BY <1>3, <1>4 DEF SlpTokenInfo
  <2>. QED
    BY <2>1, <2>2
<1>5. CASE Tx[k].token_type = Nft1Child
  <2>1. a.type = Nft1Child /\ a.groupid = GroupOf(k)
    BY <1>1, <1>2, <1>3, <1>5 DEF SlpTokenInfo
  <2>. HIDE DEF a
  <2>2. ASSUME k \in valid
        PROVE  LET p == Tx[k].inputs[1].txid IN p \in SlpValid /\ Tx[p].token_type = Nft1Group
    BY <1>3, <1>5, <2>2, ValidChildHasGroup DEF QueryInv, ValidIsSound, IsChildGenesis
  <2>. QED
    BY <2>1, <2>2 DEF a, GroupOf
<1>. QED
  BY <1>4, <1>5

\* The oracle has an answer.
LEMMA OracleHasAnswer ==
    ASSUME QueryInv
    PROVE  OracleAnswers
<1>1. SUFFICES ASSUME trusted = {}, valid \subseteq transaction_map, NEW t \in valid,
                      ~(Tx[t].token_type = Nft1Child /\ Tx[t].type = "send"
                          /\ ~FirstInputStored(t)),
                      ~MovesNothing(t)
               PROVE  OutputOracle(t, 1).status = "OK"
  BY DEF OracleAnswers
<1>2. t \in Txid /\ t \in SlpValid /\ has(t)
  BY <1>1 DEF QueryInv, ValidatorTypeOK, ValidIsSound, has
<1>3. has(Tx[t].tokenid)
  BY <1>1 DEF QueryInv, Grounded, HasToken, has
<1>4. ASSUME Tx[t].token_type = Nft1Child PROVE FirstInputStored(t)
  <2>1. Tx[t].type # "mint"
    BY <1>2, <1>4, ParserAssumption DEF ParserAssumption, Parsed
  <2>2. Tx[t].type \in {"send", "mint", "genesis"}
    BY <1>2, SlpValidJustified DEF Justified
  <2>3. CASE Tx[t].type = "genesis"
    BY <1>1, <1>4, <2>3 DEF QueryInv, Grounded, IsChildGenesis, HasGroup, FirstInputStored, has
  <2>4. CASE Tx[t].type = "send"
    BY <1>1, <1>4, <2>4
  <2>. QED
    BY <2>1, <2>2, <2>3, <2>4
<1>. QED
  BY <1>1, <1>2, <1>3, <1>4, OracleCases

\* QueriesAreTruthful: in every state of the validator, OutputOracle and
\* SlpTokenInfo tell the truth about whatever they are asked, and the oracle does
\* answer.
THEOREM QueriesTellTheTruth == ValidatorSpec => []QueriesAreTruthful
<1>1. ValidatorInit => StoredGenesisIsValid
  BY DEF ValidatorInit, StoredGenesisIsValid
<1>2. ValidatorTypeOK /\ StoredGenesisIsValid /\ [ValidatorNext]_validatorVars
        => StoredGenesisIsValid'
  <2>1. SUFFICES ASSUME ValidatorTypeOK, StoredGenesisIsValid, [ValidatorNext]_validatorVars
                 PROVE  StoredGenesisIsValid'
    OBVIOUS
  <2>2. CASE UNCHANGED validatorVars
    BY <2>1, <2>2 DEF validatorVars, StoredGenesisIsValid
  <2>3. ASSUME NEW t \in Txid, NEW trust \in BOOLEAN, AddTx(t, trust)
        PROVE  StoredGenesisIsValid'
    <3>1. CASE Tx[t].type = "invalid"
      BY <2>2, <2>3, <3>1 DEF AddTx
    <3>2. CASE Tx[t].type # "invalid"
      <4>1. /\ transaction_map' = transaction_map \cup {t} /\ valid \subseteq valid'
            /\ validate(t, transaction_map', valid) => t \in valid'
        BY <2>3, <3>2 DEF AddTx
      <4>2. (Tx[t].type = "genesis" /\ Tx[t].token_type # Nft1Child)
              => validate(t, transaction_map', valid)
        BY DEF validate, check_genesis
      <4>. QED
        BY <2>1, <4>1, <4>2 DEF StoredGenesisIsValid
    <3>. QED
      BY <3>1, <3>2
  <2>4. ASSUME NEW t \in Txid, RemoveTx(t)
        PROVE  StoredGenesisIsValid'
    BY <2>1, <2>4 DEF RemoveTx, StoredGenesisIsValid
  <2>. QED
    BY <2>1, <2>2, <2>3, <2>4 DEF ValidatorNext
<1>3. /\ ValidatorTypeOK /\ ValidIsSound /\ Grounded /\ StoredGenesisIsValid
      => QueriesAreTruthful
  BY OracleTellsTruth, TokenInfoTellsTruth, OracleHasAnswer DEF QueryInv, QueriesAreTruthful
<1>. QED
  BY <1>1, <1>2, <1>3, ValidatorTypeCorrect, ValidatorIsSound, ValidatorIsGrounded, PTL
  DEF ValidatorSpec
=============================================================================
