--------------------------- MODULE TopoSortProofs ---------------------------
(***************************************************************************)
(* The proof that topological_sort keeps its promise, for lists and        *)
(* transactions of any size.                                               *)
(***************************************************************************)
EXTENDS TopoSort, FiniteSetTheorems, SequenceTheorems, TLAPS

\* What a transaction spends from, and the transactions of the list.
Spends(t) == ToSet(inputs[t])
Listed == ToSet(tx_list)
Walking == {calls[k].tx : k \in DOMAIN calls}

TopoTypeOK ==
    /\ inputs \in [Node -> Seq(Node)]
    /\ \A t \in Node : \A p \in Spends(t) : p < t
    /\ tx_list \in Seq(Node) /\ todo \in Seq(Node)
    /\ calls \in Seq([tx : Node, rest : Seq(Node)])
    /\ stack \in Seq(Node)
    /\ visited \in SUBSET Node

\* A call is about an input of its caller's transaction, so about an older one.
CallsDescend == \A j, k \in DOMAIN calls : j < k => calls[k].tx < calls[j].tx

\* Visited are the transactions that are done and those that are being walked
\* from, all of them in the list.
MarksAreRight ==
    /\ visited = ToSet(stack) \cup Walking
    /\ ToSet(stack) \cap Walking = {}
    /\ visited \subseteq Listed

\* An input that a call is past is done, or the next call is about it.
CallsAreThorough ==
    \A k \in DOMAIN calls :
        /\ ToSet(calls[k].rest) \subseteq Spends(calls[k].tx)
        /\ \A p \in Spends(calls[k].tx) \cap Listed :
               \/ p \in ToSet(stack)
               \/ p \in ToSet(calls[k].rest)
               \/ k < Len(calls) /\ p = calls[k + 1].tx

\* Each transaction once, after its parents that are in the list.
StackInOrder ==
    /\ \A i, j \in DOMAIN stack : stack[i] = stack[j] => i = j
    /\ \A i \in DOMAIN stack : \A p \in Spends(stack[i]) \cap Listed :
           \E j \in DOMAIN stack : j < i /\ stack[j] = p

\* No transaction of the list is forgotten.
ListIsCovered == Listed \subseteq visited \cup ToSet(todo)
             /\ ToSet(todo) \subseteq Listed

\* The inductive invariant.
TopoInv ==
    /\ TopoTypeOK
    /\ CallsDescend
    /\ MarksAreRight
    /\ CallsAreThorough
    /\ StackInOrder
    /\ ListIsCovered

-----------------------------------------------------------------------------
(* Sequences. *)

\* What is pushed comes last.
LEMMA Pushed ==
    ASSUME NEW S, NEW s \in Seq(S), NEW x \in S
    PROVE  /\ Append(s, x) \in Seq(S)
           /\ DOMAIN Append(s, x) = 1..(Len(s) + 1) /\ Len(Append(s, x)) = Len(s) + 1
           /\ \A i \in DOMAIN s : Append(s, x)[i] = s[i]
           /\ Append(s, x)[Len(s) + 1] = x
           /\ ToSet(Append(s, x)) = ToSet(s) \cup {x}
<1>1. /\ Append(s, x) \in Seq(S)
      /\ DOMAIN Append(s, x) = 1..(Len(s) + 1) /\ Len(Append(s, x)) = Len(s) + 1
      /\ \A i \in DOMAIN s : Append(s, x)[i] = s[i]
      /\ Append(s, x)[Len(s) + 1] = x
      /\ DOMAIN s = 1..Len(s) /\ Len(s) \in Nat
  OBVIOUS
<1>. DEFINE r == Append(s, x)
<1>. HIDE DEF r
<1>2. /\ DOMAIN r = 1..(Len(s) + 1)
      /\ \A i \in DOMAIN s : r[i] = s[i]
      /\ r[Len(s) + 1] = x
      /\ DOMAIN s = 1..Len(s) /\ Len(s) \in Nat
  BY <1>1 DEF r
<1>3. \A i \in DOMAIN r : i \in DOMAIN s \/ i = Len(s) + 1
  BY <1>2
<1>4. DOMAIN s \subseteq DOMAIN r /\ Len(s) + 1 \in DOMAIN r
  BY <1>2
<1>5. ToSet(r) = ToSet(s) \cup {x}
  BY <1>2, <1>3, <1>4 DEF ToSet
<1>. QED
  BY <1>1, <1>5 DEF r

\* What is left after the first.
LEMMA Dropped ==
    ASSUME NEW S, NEW s \in Seq(S), s # <<>>
    PROVE  /\ Head(s) \in S /\ Tail(s) \in Seq(S)
           /\ ToSet(s) = {Head(s)} \cup ToSet(Tail(s))
<1>1. /\ Head(s) \in S /\ Tail(s) \in Seq(S) /\ Head(s) = s[1]
      /\ Len(s) \in Nat \ {0} /\ DOMAIN s = 1..Len(s)
      /\ DOMAIN Tail(s) = 1..(Len(s) - 1)
      /\ \A i \in 1..(Len(s) - 1) : Tail(s)[i] = s[i + 1]
  OBVIOUS
<1>. DEFINE r == Tail(s)
            h == Head(s)
<1>. HIDE DEF r, h
<1>2. /\ h = s[1] /\ Len(s) \in Nat \ {0} /\ DOMAIN s = 1..Len(s)
      /\ DOMAIN r = 1..(Len(s) - 1)
      /\ \A i \in 1..(Len(s) - 1) : r[i] = s[i + 1]
  BY <1>1 DEF r, h
<1>3. \A i \in DOMAIN s : i = 1 \/ (i - 1 \in DOMAIN r /\ r[i - 1] = s[i])
  BY <1>2
<1>4. 1 \in DOMAIN s /\ \A i \in DOMAIN r : i + 1 \in DOMAIN s /\ r[i] = s[i + 1]
  BY <1>2
<1>5. ToSet(s) = {h} \cup ToSet(r)
  BY <1>2, <1>3, <1>4 DEF ToSet
<1>. QED
  BY <1>1, <1>5 DEF r, h

\* What is left without the last.
LEMMA Popped ==
    ASSUME NEW S, NEW s \in Seq(S), s # <<>>
    PROVE  /\ Len(s) \in Nat \ {0} /\ DOMAIN s = 1..Len(s)
           /\ Last(s) = s[Len(s)] /\ Last(s) \in S
           /\ Front(s) \in Seq(S) /\ Len(Front(s)) = Len(s) - 1
           /\ DOMAIN Front(s) = 1..(Len(s) - 1)
           /\ \A i \in 1..(Len(s) - 1) : Front(s)[i] = s[i]
<1>1. Len(s) \in Nat \ {0} /\ DOMAIN s = 1..Len(s) /\ s[Len(s)] \in S
  OBVIOUS
<1>2. \A i \in 1..(Len(s) - 1) : s[i] \in S
  BY <1>1
<1>3. /\ Front(s) = [i \in 1..(Len(s) - 1) |-> s[i]]
  BY <1>1 DEF Front
<1>. QED
  BY <1>1, <1>2, <1>3, IsASeq, LenProperties DEF Last

\* As many transactions as the list has, each once, are a sequence of its set.
LEMMA EachOnce ==
    ASSUME NEW S, NEW s \in Seq(S), \A i, j \in DOMAIN s : s[i] = s[j] => i = j
    PROVE  s \in SetToSeqs(ToSet(s))
<1>. DEFINE n == Len(s)
            T == ToSet(s)
<1>1. n \in Nat /\ DOMAIN s = 1..n
  OBVIOUS
<1>2. s \in [1..n -> T]
  <2>1. s = [i \in 1..n |-> s[i]]
    BY <1>1
  <2>2. \A i \in 1..n : s[i] \in T
    BY <1>1 DEF ToSet
  <2>. HIDE DEF T, n
  <2>. QED
    BY <2>1, <2>2
<1>3. \A x \in T : \E i \in 1..n : s[i] = x
  BY <1>1 DEF ToSet
<1>. HIDE DEF n, T
<1>4. s \in Bijection(1..n, T)
  BY <1>1, <1>2, <1>3 DEF Bijection, Injection, Surjection, IsInjective
<1>5. Cardinality(T) = n
  <2>1. IsFiniteSet(1..n) /\ Cardinality(1..n) = n
    BY <1>1, FS_Interval
  <2>. QED
    BY <1>4, <2>1, FS_Bijection DEF ExistsBijection
<1>. QED
  BY <1>1, <1>2, <1>5 DEF SetToSeqs, T

-----------------------------------------------------------------------------
(* The steps. *)

\* At the start nothing is visited and the whole list is ahead.
LEMMA TopoStart == TopoInit => TopoInv
<1>. SUFFICES ASSUME TopoInit
              PROVE  TopoInv
  OBVIOUS
<1>1. \A S : \A m : BoundedSeq(S, m) \subseteq Seq(S)
  BY DEF BoundedSeq, SeqOf
<1>2. inputs \in [Node -> Seq(Node)] /\ tx_list \in Seq(Node)
  BY <1>1 DEF TopoInit
<1>3. TopoTypeOK
  BY <1>2 DEF TopoInit, TopoTypeOK, Spends
<1>4. CallsDescend /\ CallsAreThorough /\ StackInOrder
  BY DEF TopoInit, CallsDescend, CallsAreThorough, StackInOrder
<1>5. MarksAreRight /\ ListIsCovered
  BY DEF TopoInit, MarksAreRight, ListIsCovered, ToSet, Walking, Listed
<1>. QED
  BY <1>3, <1>4, <1>5 DEF TopoInv

\* Every running call has its type.
LEMMA CallTypes ==
    ASSUME TopoTypeOK
    PROVE  /\ Len(calls) \in Nat /\ DOMAIN calls = 1..Len(calls)
           /\ \A k \in DOMAIN calls :
                  /\ calls[k] \in [tx : Node, rest : Seq(Node)]
                  /\ calls[k].tx \in Node /\ calls[k].rest \in Seq(Node)
                  /\ calls[k].tx \in Nat
<1>. DEFINE Calls == [tx : Node, rest : Seq(Node)]
<1>1. calls \in Seq(Calls)
  BY DEF TopoTypeOK
<1>2. \A c \in Calls : c.tx \in Node /\ c.rest \in Seq(Node)
  OBVIOUS
<1>. HIDE DEF Calls
<1>3. /\ Len(calls) \in Nat /\ DOMAIN calls = 1..Len(calls)
      /\ \A k \in 1..Len(calls) : calls[k] \in Calls
  BY <1>1, ElementOfSeq, LenProperties
<1>. QED
  BY <1>2, <1>3, TopoAssumption DEF Calls

\* The innermost call, and what becomes of the calls when it goes past an input.
LEMMA InnermostCall ==
    ASSUME TopoTypeOK, calls # <<>>
    PROVE  /\ Len(calls) \in Nat \ {0} /\ DOMAIN calls = 1..Len(calls)
           /\ Last(calls) = calls[Len(calls)]
           /\ Last(calls) \in [tx : Node, rest : Seq(Node)]
           /\ Callers \in Seq([tx : Node, rest : Seq(Node)])
           /\ Len(Callers) = Len(calls) - 1 /\ DOMAIN Callers = 1..(Len(calls) - 1)
           /\ \A k \in 1..(Len(calls) - 1) : Callers[k] = calls[k]
BY Popped DEF TopoTypeOK, Callers

\* Past its input the innermost call has one input less, and the others are the same.
LEMMA CallsPastInput ==
    ASSUME TopoTypeOK, calls # <<>>, Last(calls).rest # <<>>
    PROVE  /\ PastInput \in Seq([tx : Node, rest : Seq(Node)])
           /\ Len(PastInput) = Len(calls) /\ DOMAIN PastInput = DOMAIN calls
           /\ \A k \in DOMAIN calls : PastInput[k].tx = calls[k].tx
           /\ \A k \in DOMAIN calls : k < Len(calls) => PastInput[k] = calls[k]
           /\ ToSet(calls[Len(calls)].rest) =
                  {Head(Last(calls).rest)} \cup ToSet(PastInput[Len(calls)].rest)
           /\ Head(Last(calls).rest) \in Node
<1>. DEFINE n == Len(calls)
            c == Last(calls)
            d == [c EXCEPT !.rest = Tail(@)]
            Calls == [tx : Node, rest : Seq(Node)]
<1>1. /\ n \in Nat \ {0} /\ DOMAIN calls = 1..n /\ c = calls[n] /\ c \in Calls
      /\ Callers \in Seq(Calls) /\ Len(Callers) = n - 1 /\ DOMAIN Callers = 1..(n - 1)
      /\ \A k \in 1..(n - 1) : Callers[k] = calls[k]
  BY InnermostCall
<1>2. c.rest \in Seq(Node) /\ c.rest # <<>>
  BY <1>1
<1>3. /\ Head(c.rest) \in Node /\ Tail(c.rest) \in Seq(Node)
      /\ ToSet(c.rest) = {Head(c.rest)} \cup ToSet(Tail(c.rest))
  BY <1>2, Dropped
<1>4. d \in Calls /\ d.tx = c.tx /\ d.rest = Tail(c.rest)
  BY <1>1, <1>3
<1>5. PastInput = Append(Callers, d)
  BY DEF PastInput
<1>. HIDE DEF n, c, d, Calls
<1>6. /\ PastInput \in Seq(Calls) /\ DOMAIN PastInput = 1..n /\ Len(PastInput) = n
      /\ \A k \in 1..(n - 1) : PastInput[k] = Callers[k]
      /\ PastInput[n] = d
  <2>1. /\ Append(Callers, d) \in Seq(Calls)
        /\ DOMAIN Append(Callers, d) = 1..(Len(Callers) + 1)
        /\ Len(Append(Callers, d)) = Len(Callers) + 1
        /\ \A i \in DOMAIN Callers : Append(Callers, d)[i] = Callers[i]
        /\ Append(Callers, d)[Len(Callers) + 1] = d
    BY <1>1, <1>4, Pushed
  <2>2. Len(Callers) + 1 = n
    BY <1>1
  <2>. QED
    BY <1>1, <1>5, <2>1, <2>2
<1>7. \A k \in 1..n : k = n \/ k \in 1..(n - 1)
  BY <1>1
<1>8. \A k \in 1..n : k < n => k \in 1..(n - 1)
  BY <1>1
<1>. QED
  BY <1>1, <1>3, <1>4, <1>6, <1>7, <1>8 DEF n, c, Calls

\* What the marks say of an input that the innermost call is about to look at:
\* it is older than every transaction that is being walked from.
LEMMA InputIsOlder ==
    ASSUME TopoInv, calls # <<>>, Last(calls).rest # <<>>
    PROVE  \A k \in DOMAIN calls : Head(Last(calls).rest) < calls[k].tx
<1>. DEFINE n == Len(calls)
            p == Head(Last(calls).rest)
<1>1. /\ n \in Nat \ {0} /\ DOMAIN calls = 1..n
      /\ \A k \in 1..n : calls[k].tx \in Node /\ calls[k].tx \in Nat
      /\ p \in ToSet(calls[n].rest) /\ p \in Node /\ p \in Nat
  BY CallTypes, InnermostCall, CallsPastInput, TopoAssumption DEF TopoInv
<1>. HIDE DEF p, n
<1>2. n \in 1..n /\ \A k \in 1..n : k = n \/ k < n
  BY <1>1
<1>3. ToSet(calls[n].rest) \subseteq Spends(calls[n].tx)
  BY <1>1, <1>2 DEF TopoInv, CallsAreThorough
<1>4. p < calls[n].tx
  BY <1>1, <1>2, <1>3 DEF TopoInv, TopoTypeOK
<1>5. \A k \in 1..n : k < n => calls[n].tx < calls[k].tx
  BY <1>1, <1>2 DEF TopoInv, CallsDescend
<1>. QED
  BY <1>1, <1>2, <1>4, <1>5 DEF p

\* An input is passed by because it is done or not in the list; the calls stay.
LEMMA PassingKeeps ==
    ASSUME TopoInv, calls # <<>>, Last(calls).rest # <<>>,
           PassedBy(Head(Last(calls).rest)), calls' = PastInput,
           UNCHANGED <<inputs, tx_list, todo, stack, visited>>
    PROVE  TopoInv'
<1>. DEFINE n == Len(calls)
            p == Head(Last(calls).rest)
<1>0. TopoTypeOK
  BY DEF TopoInv
<1>1. /\ n \in Nat \ {0} /\ DOMAIN calls = 1..n
      /\ calls' \in Seq([tx : Node, rest : Seq(Node)])
      /\ Len(calls') = n /\ DOMAIN calls' = DOMAIN calls
      /\ \A k \in DOMAIN calls : calls'[k].tx = calls[k].tx
      /\ \A k \in DOMAIN calls : k < n => calls'[k] = calls[k]
      /\ ToSet(calls[n].rest) = {p} \cup ToSet(calls'[n].rest)
  BY <1>0, InnermostCall, CallsPastInput
<1>2. \A k \in DOMAIN calls : p # calls[k].tx
  <2>1. \A k \in DOMAIN calls : calls[k].tx \in Nat /\ p < calls[k].tx
    BY <1>0, CallTypes, InputIsOlder
  <2>2. p \in Nat
    BY <1>0, CallsPastInput, TopoAssumption
  <2>. HIDE DEF p
  <2>. QED
    BY <2>1, <2>2
<1>. HIDE DEF n, p
<1>3. p \notin Walking
  BY <1>2 DEF Walking
<1>4. p \in ToSet(stack) \/ p \notin Listed
  <2>1. PassedBy(p)
    BY DEF p
  <2>. QED
    BY <2>1, <1>3 DEF TopoInv, MarksAreRight, PassedBy, Listed
<1>5. TopoTypeOK'
  BY <1>0, <1>1 DEF TopoTypeOK, Spends
<1>6. CallsDescend'
  BY <1>1 DEF TopoInv, CallsDescend
<1>7. MarksAreRight'
  <2>1. Walking' = Walking
    BY <1>1 DEF Walking
  <2>. QED
    BY <2>1 DEF TopoInv, MarksAreRight, Listed
<1>8. CallsAreThorough'
  <2>1. ASSUME NEW k \in DOMAIN calls
        PROVE  /\ ToSet(calls'[k].rest) \subseteq Spends(calls'[k].tx)
               /\ \A x \in Spends(calls'[k].tx) \cap Listed :
                      \/ x \in ToSet(stack)
                      \/ x \in ToSet(calls'[k].rest)
                      \/ k < n /\ x = calls'[k + 1].tx
    <3>1. /\ ToSet(calls[k].rest) \subseteq Spends(calls[k].tx)
          /\ \A x \in Spends(calls[k].tx) \cap Listed :
                 \/ x \in ToSet(stack)
                 \/ x \in ToSet(calls[k].rest)
                 \/ k < n /\ x = calls[k + 1].tx
      BY DEF TopoInv, CallsAreThorough, n
    <3>2. k = n \/ (k < n /\ calls'[k] = calls[k])
      BY <1>1
    <3>3. /\ ToSet(calls'[k].rest) \subseteq ToSet(calls[k].rest)
          /\ \A x \in ToSet(calls[k].rest) : x \in ToSet(calls'[k].rest) \/ x = p
      BY <1>1, <3>2
    <3>4. k < n => k + 1 \in DOMAIN calls
      BY <1>1
    <3>. QED
      BY <1>1, <1>4, <3>1, <3>3, <3>4
  <2>. QED
    BY <1>1, <2>1 DEF CallsAreThorough, Spends, Listed
<1>9. StackInOrder' /\ ListIsCovered'
  BY DEF TopoInv, StackInOrder, ListIsCovered, Listed, Spends
<1>. QED
  BY <1>5, <1>6, <1>7, <1>8, <1>9 DEF TopoInv

\* A call is entered from callers that are past its transaction, which is older
\* than theirs, in the list and not visited.
LEMMA EnteringKeeps ==
    ASSUME TopoInv, NEW t \in Listed, t \notin visited,
           NEW callers \in Seq([tx : Node, rest : Seq(Node)]),
           DOMAIN callers = DOMAIN calls, Len(callers) = Len(calls),
           \A k \in DOMAIN calls :
               /\ callers[k].tx = calls[k].tx
               /\ t < calls[k].tx
               /\ ToSet(callers[k].rest) \subseteq ToSet(calls[k].rest)
               /\ \A x \in ToSet(calls[k].rest) :
                      x \in ToSet(callers[k].rest) \/ (k = Len(calls) /\ x = t),
           topological_sort_internal(t, callers),
           UNCHANGED <<inputs, tx_list, stack>>,
           todo' \in Seq(Node), ToSet(todo') \subseteq ToSet(todo),
           ToSet(todo) \subseteq ToSet(todo') \cup {t}
    PROVE  TopoInv'
<1>. DEFINE n == Len(calls)
            Calls == [tx : Node, rest : Seq(Node)]
            c == [tx |-> t, rest |-> inputs[t]]
<1>0. TopoTypeOK
  BY DEF TopoInv
<1>1. t \in Node
  <2>1. tx_list \in Seq(Node)
    BY <1>0 DEF TopoTypeOK
  <2>2. ToSet(tx_list) \subseteq Node
    BY <2>1 DEF ToSet
  <2>. QED
    BY <2>2 DEF Listed
<1>2. c \in Calls /\ c.tx = t /\ c.rest = inputs[t] /\ ToSet(c.rest) = Spends(t)
  BY <1>0, <1>1 DEF TopoTypeOK, Spends
<1>. HIDE DEF c, Calls
<1>3. /\ n \in Nat /\ DOMAIN calls = 1..n
      /\ \A k \in DOMAIN calls : calls[k].tx \in Nat
  BY <1>0, CallTypes
<1>4. /\ calls' \in Seq(Calls) /\ Len(calls') = n + 1 /\ DOMAIN calls' = 1..(n + 1)
      /\ \A k \in DOMAIN calls : calls'[k] = callers[k]
      /\ calls'[n + 1] = c
  <2>1. calls' = Append(callers, c)
    BY DEF topological_sort_internal, c
  <2>2. callers \in Seq(Calls)
    BY DEF Calls
  <2>. QED
    BY <1>2, <2>1, <2>2, Pushed
<1>. HIDE DEF n
<1>5. \A k \in DOMAIN calls' : k = n + 1 \/ (k \in DOMAIN calls /\ k < n + 1 /\ k <= n)
  BY <1>3, <1>4
<1>6. n + 1 \in DOMAIN calls' /\ \A k \in DOMAIN calls : k \in DOMAIN calls'
  BY <1>3, <1>4
<1>7. visited' = visited \cup {t}
  BY DEF topological_sort_internal
<1>8. TopoTypeOK'
  BY <1>0, <1>1, <1>4, <1>7 DEF TopoTypeOK, Spends, Calls
<1>9. CallsDescend'
  <2>1. ASSUME NEW j \in DOMAIN calls', NEW k \in DOMAIN calls', j < k
        PROVE  calls'[k].tx < calls'[j].tx
    <3>1. j \in DOMAIN calls
      BY <1>3, <1>4, <1>5, <2>1
    <3>2. CASE k = n + 1
      BY <1>2, <1>4, <3>1, <3>2
    <3>3. CASE k \in DOMAIN calls
      BY <1>4, <2>1, <3>1, <3>3 DEF TopoInv, CallsDescend
    <3>. QED
      BY <1>5, <3>2, <3>3
  <2>. QED
    BY <2>1 DEF CallsDescend
<1>10. Walking' = Walking \cup {t}
  <2>1. \A k \in DOMAIN calls : calls'[k].tx = calls[k].tx
    BY <1>4
  <2>2. calls'[n + 1].tx = t
    BY <1>2, <1>4
  <2>3. ASSUME NEW k \in DOMAIN calls' PROVE calls'[k].tx \in Walking \cup {t}
    <3>1. CASE k = n + 1
      BY <2>2, <3>1
    <3>2. CASE k \in DOMAIN calls
      BY <2>1, <3>2 DEF Walking
    <3>. QED
      BY <1>5, <3>1, <3>2
  <2>4. Walking' \subseteq Walking \cup {t}
    BY <2>3 DEF Walking
  <2>5. Walking \subseteq Walking'
    BY <1>6, <2>1 DEF Walking
  <2>6. t \in Walking'
    BY <1>6, <2>2 DEF Walking
  <2>. QED
    BY <2>4, <2>5, <2>6
<1>11. MarksAreRight'
  BY <1>7, <1>10 DEF TopoInv, MarksAreRight, Listed
<1>12. CallsAreThorough'
  <2>1. ASSUME NEW k \in DOMAIN calls'
        PROVE  /\ ToSet(calls'[k].rest) \subseteq Spends(calls'[k].tx)
               /\ \A x \in Spends(calls'[k].tx) \cap Listed :
                      \/ x \in ToSet(stack)
                      \/ x \in ToSet(calls'[k].rest)
                      \/ k < n + 1 /\ x = calls'[k + 1].tx
    <3>1. CASE k = n + 1
      BY <1>2, <1>4, <3>1
    <3>2. CASE k \in DOMAIN calls
      <4>1. /\ ToSet(calls[k].rest) \subseteq Spends(calls[k].tx)
            /\ \A x \in Spends(calls[k].tx) \cap Listed :
                   \/ x \in ToSet(stack)
                   \/ x \in ToSet(calls[k].rest)
                   \/ k < n /\ x = calls[k + 1].tx
        BY <3>2 DEF TopoInv, CallsAreThorough, n
      <4>2. /\ calls'[k].tx = calls[k].tx
            /\ ToSet(calls'[k].rest) \subseteq ToSet(calls[k].rest)
            /\ \A x \in ToSet(calls[k].rest) :
                   x \in ToSet(calls'[k].rest) \/ (k = n /\ x = t)
        BY <1>4, <3>2 DEF n
      <4>3. k < n => /\ k + 1 \in DOMAIN calls /\ k < n + 1
                     /\ calls'[k + 1].tx = calls[k + 1].tx
        BY <1>3, <1>4, <3>2
      <4>4. k = n => k < n + 1 /\ calls'[k + 1].tx = t
        BY <1>2, <1>3, <1>4
      <4>. QED
        BY <4>1, <4>2, <4>3, <4>4
    <3>. QED
      BY <1>5, <3>1, <3>2
  <2>. QED
    BY <1>4, <2>1 DEF CallsAreThorough, Spends, Listed
<1>13. StackInOrder'
  BY DEF TopoInv, StackInOrder, Listed, Spends
<1>14. ListIsCovered'
  BY <1>7 DEF TopoInv, ListIsCovered, Listed
<1>. QED
  BY <1>8, <1>9, <1>11, <1>12, <1>13, <1>14 DEF TopoInv

\* The loop over the list: its next transaction was visited, or is walked from.
LEMMA OuterLoopKeeps == TopoInv /\ topological_sort => TopoInv'
<1>. SUFFICES ASSUME TopoInv, topological_sort
              PROVE  TopoInv'
  OBVIOUS
<1>. DEFINE t == Head(todo)
<1>0. TopoTypeOK
  BY DEF TopoInv
<1>1. /\ t \in Node /\ todo' \in Seq(Node)
      /\ ToSet(todo) = {t} \cup ToSet(todo')
  <2>1. todo \in Seq(Node) /\ todo # <<>> /\ todo' = Tail(todo)
    BY <1>0 DEF TopoTypeOK, topological_sort
  <2>. QED
    BY <2>1, Dropped
<1>2. calls = <<>> /\ UNCHANGED <<inputs, tx_list, stack>>
  BY DEF topological_sort
<1>3. t \in Listed
  BY <1>1 DEF TopoInv, ListIsCovered
<1>4. CASE t \in visited /\ UNCHANGED <<calls, visited>>
  <2>1. TopoTypeOK' /\ CallsDescend' /\ CallsAreThorough' /\ StackInOrder' /\ MarksAreRight'
    BY <1>0, <1>1, <1>2, <1>4
       DEF TopoInv, TopoTypeOK, CallsDescend, CallsAreThorough, StackInOrder, MarksAreRight,
           Spends, Listed, Walking
  <2>2. ListIsCovered'
    BY <1>1, <1>2, <1>4 DEF TopoInv, ListIsCovered, Listed
  <2>. QED
    BY <2>1, <2>2 DEF TopoInv
<1>5. CASE t \notin visited /\ topological_sort_internal(t, <<>>)
  <2>1. <<>> \in Seq([tx : Node, rest : Seq(Node)]) /\ DOMAIN calls = {}
    BY <1>2
  <2>. HIDE DEF t
  <2>. QED
    BY <1>1, <1>2, <1>3, <1>5, <2>1, EnteringKeeps
<1>. QED
  BY <1>4, <1>5 DEF topological_sort

\* The loop over the inputs.
LEMMA InnerLoopKeeps == TopoInv /\ walk => TopoInv'
<1>. SUFFICES ASSUME TopoInv, walk
              PROVE  TopoInv'
  OBVIOUS
<1>. DEFINE p == Head(Last(calls).rest)
<1>1. /\ calls # <<>> /\ Last(calls).rest # <<>> /\ TopoTypeOK
      /\ UNCHANGED <<inputs, tx_list, todo, stack>>
  BY DEF TopoInv, walk
<1>2. CASE PassedBy(p) /\ calls' = PastInput /\ UNCHANGED visited
  BY <1>1, <1>2, PassingKeeps
<1>3. CASE ~PassedBy(p) /\ topological_sort_internal(p, PastInput)
  <2>1. p \in Listed /\ p \notin visited
    BY <1>3 DEF PassedBy, Listed
  <2>2. /\ PastInput \in Seq([tx : Node, rest : Seq(Node)])
        /\ DOMAIN PastInput = DOMAIN calls /\ Len(PastInput) = Len(calls)
        /\ Len(calls) \in Nat /\ DOMAIN calls = 1..Len(calls)
        /\ \A k \in DOMAIN calls : PastInput[k].tx = calls[k].tx
        /\ \A k \in DOMAIN calls : k < Len(calls) => PastInput[k] = calls[k]
        /\ ToSet(calls[Len(calls)].rest) = {p} \cup ToSet(PastInput[Len(calls)].rest)
    BY <1>1, CallsPastInput, CallTypes
  <2>3. \A k \in DOMAIN calls : p < calls[k].tx
    BY <1>1, InputIsOlder
  <2>4. todo' \in Seq(Node) /\ todo' = todo
    BY <1>1 DEF TopoTypeOK
  <2>. HIDE DEF p
  <2>5. ASSUME NEW k \in DOMAIN calls
        PROVE  /\ ToSet(PastInput[k].rest) \subseteq ToSet(calls[k].rest)
               /\ \A x \in ToSet(calls[k].rest) :
                      x \in ToSet(PastInput[k].rest) \/ (k = Len(calls) /\ x = p)
    <3>1. k = Len(calls) \/ k < Len(calls)
      BY <2>2
    <3>. QED
      BY <2>2, <3>1
  <2>. QED
    BY <1>1, <1>3, <2>1, <2>2, <2>3, <2>4, <2>5, EnteringKeeps
<1>. QED
  BY <1>2, <1>3 DEF walk

\* The end of a call: what it is about has its listed parents on the stack.
LEMMA ReturnKeeps == TopoInv /\ push_back => TopoInv'
<1>. SUFFICES ASSUME TopoInv, push_back
              PROVE  TopoInv'
  OBVIOUS
<1>. DEFINE n == Len(calls)
            m == Len(stack)
            t == Last(calls).tx
<1>0. TopoTypeOK
  BY DEF TopoInv
<1>1. /\ calls # <<>> /\ Last(calls).rest = <<>> /\ calls' = Callers
      /\ stack' = Append(stack, t)
      /\ UNCHANGED <<inputs, tx_list, todo, visited>>
  BY DEF push_back
<1>2. /\ n \in Nat \ {0} /\ DOMAIN calls = 1..n
      /\ t = calls[n].tx /\ calls[n].rest = <<>> /\ t \in Node
      /\ calls' \in Seq([tx : Node, rest : Seq(Node)])
      /\ Len(calls') = n - 1 /\ DOMAIN calls' = 1..(n - 1)
      /\ \A k \in 1..(n - 1) : calls'[k] = calls[k]
      /\ \A k \in 1..n : calls[k].tx \in Nat
  <2>1. n \in Nat \ {0} /\ Last(calls) = calls[n] /\ DOMAIN calls = 1..n
    BY <1>0, <1>1, InnermostCall
  <2>2. n \in DOMAIN calls
    BY <2>1
  <2>. QED
    BY <1>0, <1>1, <2>1, <2>2, InnermostCall, CallTypes
<1>3. /\ stack \in Seq(Node) /\ m \in Nat /\ DOMAIN stack = 1..m
      /\ stack' \in Seq(Node) /\ DOMAIN stack' = 1..(m + 1)
      /\ \A i \in DOMAIN stack : stack'[i] = stack[i]
      /\ stack'[m + 1] = t
      /\ ToSet(stack') = ToSet(stack) \cup {t}
  <2>1. stack \in Seq(Node) /\ m \in Nat /\ DOMAIN stack = 1..m
    BY <1>0, LenProperties DEF TopoTypeOK
  <2>. HIDE DEF t
  <2>. QED
    BY <1>1, <1>2, <2>1, Pushed
<1>. HIDE DEF n, m, t
<1>4. /\ n \in 1..n /\ \A k \in 1..n : k = n \/ k \in 1..(n - 1)
      /\ \A k \in 1..(n - 1) : k \in 1..n /\ k < n
  BY <1>2
<1>5. t \in Walking /\ t \notin ToSet(stack)
  <2>1. t \in Walking
    BY <1>2, <1>4 DEF Walking
  <2>. QED
    BY <2>1 DEF TopoInv, MarksAreRight
<1>6. \A k \in 1..(n - 1) : calls[k].tx # t
  <2>1. \A k \in 1..(n - 1) : calls[n].tx < calls[k].tx
    BY <1>2, <1>4 DEF TopoInv, CallsDescend
  <2>. QED
    BY <1>2, <1>4, <2>1
<1>7. TopoTypeOK'
  BY <1>0, <1>1, <1>2, <1>3 DEF TopoTypeOK, Spends
<1>8. CallsDescend'
  BY <1>2, <1>4 DEF TopoInv, CallsDescend
<1>9. MarksAreRight'
  <2>1. Walking' = Walking \ {t}
    BY <1>2, <1>4, <1>6 DEF Walking
  <2>. QED
    BY <1>1, <1>3, <1>5, <2>1 DEF TopoInv, MarksAreRight, Listed
<1>10. CallsAreThorough'
  <2>1. ASSUME NEW k \in 1..(n - 1)
        PROVE  /\ ToSet(calls'[k].rest) \subseteq Spends(calls'[k].tx)
               /\ \A x \in Spends(calls'[k].tx) \cap Listed :
                      \/ x \in ToSet(stack')
                      \/ x \in ToSet(calls'[k].rest)
                      \/ k < n - 1 /\ x = calls'[k + 1].tx
    <3>1. /\ ToSet(calls[k].rest) \subseteq Spends(calls[k].tx)
          /\ \A x \in Spends(calls[k].tx) \cap Listed :
                 \/ x \in ToSet(stack)
                 \/ x \in ToSet(calls[k].rest)
                 \/ k < n /\ x = calls[k + 1].tx
      <4>1. k \in DOMAIN calls
        BY <1>2, <1>4
      <4>. QED
        BY <4>1 DEF TopoInv, CallsAreThorough, n
    <3>2. k + 1 = n \/ (k < n - 1 /\ k + 1 \in 1..(n - 1))
      BY <1>2
    <3>. QED
      BY <1>2, <1>3, <3>1, <3>2
  <2>. QED
    <3>1. \A k \in DOMAIN calls' :
              /\ ToSet(calls'[k].rest) \subseteq Spends(calls'[k].tx)
              /\ \A x \in Spends(calls'[k].tx) \cap Listed :
                     \/ x \in ToSet(stack')
                     \/ x \in ToSet(calls'[k].rest)
                     \/ k < Len(calls') /\ x = calls'[k + 1].tx
      BY <1>2, <2>1
    <3>2. Listed' = Listed /\ \A x : Spends(x)' = Spends(x)
      BY <1>1 DEF Spends, Listed
    <3>. QED
      BY <3>1, <3>2 DEF CallsAreThorough, Spends
<1>11. StackInOrder'
  <2>1. \A x \in Spends(t) \cap Listed : x \in ToSet(stack)
    <3>1. \A x \in Spends(t) \cap Listed : x \in ToSet(stack) \/ x \in ToSet(calls[n].rest)
      <4>1. n \in DOMAIN calls
        BY <1>2, <1>4
      <4>2. ~(n < Len(calls))
        BY <1>2 DEF n
      <4>. QED
        BY <1>2, <4>1, <4>2 DEF TopoInv, CallsAreThorough
    <3>2. ToSet(calls[n].rest) = {}
      BY <1>2 DEF ToSet
    <3>. QED
      BY <3>1, <3>2
  <2>2. \A x \in ToSet(stack) : \E j \in 1..m : stack[j] = x
    BY <1>3 DEF ToSet
  <2>3. \A i \in 1..m : stack[i] \in ToSet(stack) /\ stack[i] # t
    BY <1>3, <1>5 DEF ToSet
  <2>4. /\ \A i \in 1..(m + 1) : i = m + 1 \/ i \in 1..m
        /\ \A i \in 1..m : i \in 1..(m + 1) /\ i < m + 1
    BY <1>3
  <2>5. \A i, j \in 1..(m + 1) : stack'[i] = stack'[j] => i = j
    BY <1>3, <2>3, <2>4 DEF TopoInv, StackInOrder
  <2>6. ASSUME NEW i \in 1..(m + 1), NEW x \in Spends(stack'[i]) \cap Listed
        PROVE  \E j \in 1..(m + 1) : j < i /\ stack'[j] = x
    <3>1. CASE i = m + 1
      BY <1>3, <2>1, <2>2, <2>4, <2>6, <3>1
    <3>2. CASE i \in 1..m
      BY <1>3, <2>4, <2>6, <3>2 DEF TopoInv, StackInOrder
    <3>. QED
      BY <2>4, <3>1, <3>2
  <2>. QED
    BY <1>1, <1>3, <2>5, <2>6 DEF StackInOrder, Spends, Listed
<1>12. ListIsCovered'
  BY <1>1 DEF TopoInv, ListIsCovered, Listed
<1>. QED
  BY <1>7, <1>8, <1>9, <1>10, <1>11, <1>12 DEF TopoInv

\* Together.
LEMMA TopoStep == TopoInv /\ [TopoNext]_vars => TopoInv'
<1>. SUFFICES ASSUME TopoInv, [TopoNext]_vars
              PROVE  TopoInv'
  OBVIOUS
<1>1. CASE UNCHANGED vars
  <2>1. UNCHANGED <<inputs, tx_list, todo, calls, stack, visited>>
    BY <1>1 DEF vars
  <2>2. Walking' = Walking /\ Listed' = Listed /\ \A t : Spends(t)' = Spends(t)
    BY <2>1 DEF Walking, Listed, Spends
  <2>3. TopoTypeOK' /\ CallsDescend' /\ MarksAreRight'
    BY <2>1, <2>2 DEF TopoInv, TopoTypeOK, CallsDescend, MarksAreRight, Spends
  <2>4. CallsAreThorough'
    BY <2>1, <2>2 DEF TopoInv, CallsAreThorough, Spends
  <2>5. StackInOrder' /\ ListIsCovered'
    BY <2>1, <2>2 DEF TopoInv, StackInOrder, ListIsCovered, Spends
  <2>. QED
    BY <2>3, <2>4, <2>5 DEF TopoInv
<1>2. CASE TopoNext
  BY <1>2, OuterLoopKeeps, InnerLoopKeeps, ReturnKeeps DEF TopoNext
<1>. QED
  BY <1>1, <1>2

\* The invariant of the walk: what is being walked from, what is done and what
\* each running call of topological_sort_internal still has before it.
THEOREM TopoInvariant == TopoSpec => []TopoInv
<1>. QED
  BY TopoStart, TopoStep, PTL DEF TopoSpec

\* When topological_sort returns, its result has each transaction of the list
\* once, after those of its parents that are in the list.
THEOREM SortKeepsPromise == TopoSpec => []SortIsTopological
<1>1. TopoInv => SortIsTopological
  <2>. SUFFICES ASSUME TopoInv, todo = <<>>, calls = <<>>
                PROVE  stack \in Orders
    BY DEF SortIsTopological
  <2>1. ToSet(stack) = Listed
    <3>1. Walking = {} /\ ToSet(todo) = {}
      BY DEF Walking, ToSet
    <3>. QED
      BY <3>1 DEF TopoInv, MarksAreRight, ListIsCovered
  <2>2. stack \in SetToSeqs(Listed)
    BY <2>1, EachOnce DEF TopoInv, TopoTypeOK, StackInOrder
  <2>3. ASSUME NEW i \in DOMAIN stack, NEW j \in DOMAIN stack,
               stack[j] \in Spends(stack[i])
        PROVE  j < i
    <3>1. stack[j] \in Listed
      BY <2>1 DEF ToSet
    <3>2. PICK k \in DOMAIN stack : k < i /\ stack[k] = stack[j]
      BY <2>3, <3>1 DEF TopoInv, StackInOrder
    <3>. QED
      BY <3>2 DEF TopoInv, StackInOrder
  <2>4. \A i \in DOMAIN stack : stack[i] \in Node
    BY DEF TopoInv, TopoTypeOK
  <2>. QED
    BY <2>2, <2>3, <2>4 DEF Orders, TopologicalOrders, Listed, Spends
<1>. QED
  BY <1>1, TopoInvariant, PTL
=============================================================================
