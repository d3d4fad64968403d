------------------------------ MODULE TopoSort ------------------------------
(***************************************************************************)
(* gs::util::topological_sort, which every block and every mempool listing *)
(* goes through before it is judged: a depth-first walk from each          *)
(* transaction of the list to its inputs.  The calls of the recursive      *)
(* topological_sort_internal that have not returned are kept in a          *)
(* sequence, the innermost one last, and a step of the model is one round  *)
(* of one of the two loops or the return from a call.                      *)
(***************************************************************************)
EXTENDS TopoOrder, Integers

CONSTANTS
    Node,       \* transactions, numbered so that inputs have smaller numbers
    MaxInputs,  \* a bound on the inputs of a transaction
    MaxList     \* a bound on the length of the list

ASSUME TopoAssumption == Node \subseteq Nat /\ {MaxInputs, MaxList} \subseteq Nat

VARIABLES
    inputs,   \* inputs[t]: the transactions t spends from, with repetitions
    tx_list,  \* the argument
    todo,     \* what is left of it
    calls,    \* the running calls: their transactions, and the inputs left to look at
    stack,    \* the result so far
    visited

vars == <<inputs, tx_list, todo, calls, stack, visited>>

TopoInit ==
    /\ inputs \in [Node -> BoundedSeq(Node, MaxInputs)]
    /\ \A t \in Node : \A p \in ToSet(inputs[t]) : p < t
    /\ tx_list \in BoundedSeq(Node, MaxList)
    /\ todo = tx_list
    /\ calls = <<>>
    /\ stack = <<>>
    /\ visited = {}

\* Faulty variant: mark nothing.
topological_sort_internal_unmarked(t, callers) ==
    /\ calls' = Append(callers, [tx |-> t, rest |-> inputs[t]])
    /\ UNCHANGED visited

\* The entry of topological_sort_internal.
topological_sort_internal(t, callers) ==
    /\ calls' = Append(callers, [tx |-> t, rest |-> inputs[t]])
    /\ visited' = visited \cup {t}

\* A round of the loop over the list.
topological_sort ==
    /\ calls = <<>> /\ todo # <<>>
    /\ todo' = Tail(todo)
    /\ \/ Head(todo) \in visited /\ UNCHANGED <<calls, visited>>
       \/ Head(todo) \notin visited /\ topological_sort_internal(Head(todo), <<>>)
    /\ UNCHANGED <<inputs, tx_list, stack>>

\* The callers of the innermost call, and the same call past its next input.
Callers == Front(calls)
PastInput == Append(Callers, [Last(calls) EXCEPT !.rest = Tail(@)])

\* An input that the loop passes by: walked from before, or not in the list.
PassedBy(p) == p \in visited \/ p \notin ToSet(tx_list)

\* Faulty variant: walks to every input that was not walked to.
walk_unlisted ==
    /\ calls # <<>> /\ Last(calls).rest # <<>>
    /\ LET p == Head(Last(calls).rest)
       IN  \/ p \in visited /\ calls' = PastInput /\ UNCHANGED visited
           \/ p \notin visited /\ topological_sort_internal(p, PastInput)
    /\ UNCHANGED <<inputs, tx_list, todo, stack>>

\* A round of the loop over the inputs.
walk ==
    /\ calls # <<>> /\ Last(calls).rest # <<>>
    /\ LET p == Head(Last(calls).rest)
       IN  \/ PassedBy(p) /\ calls' = PastInput /\ UNCHANGED visited
           \/ ~PassedBy(p) /\ topological_sort_internal(p, PastInput)
    /\ UNCHANGED <<inputs, tx_list, todo, stack>>

\* Faulty variant: children first.
push_back_reversed ==
    /\ calls # <<>> /\ Last(calls).rest = <<>>
    /\ stack' = <<Last(calls).tx>> \o stack
    /\ calls' = Callers
    /\ UNCHANGED <<inputs, tx_list, todo, visited>>

\* The end of topological_sort_internal.
push_back ==
    /\ calls # <<>> /\ Last(calls).rest = <<>>
    /\ stack' = Append(stack, Last(calls).tx)
    /\ calls' = Callers
    /\ UNCHANGED <<inputs, tx_list, todo, visited>>

TopoNext == topological_sort \/ walk \/ push_back

TopoSpec == TopoInit /\ [][TopoNext]_vars

Orders == TopologicalOrders(ToSet(tx_list), [t \in Node |-> ToSet(inputs[t])])

\* For every list, repetitions and transactions with absent parents included,
\* the result is one of the topological orders of its transactions.
SortIsTopological == todo = <<>> /\ calls = <<>> => stack \in Orders
=============================================================================
