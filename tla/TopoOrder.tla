----------------------------- MODULE TopoOrder -----------------------------
(***************************************************************************)
(* What gs::util::topological_sort promises: the transactions of a list,   *)
(* each once, in an order in which every one follows those of its parents  *)
(* that are in the list.  TopoSort shows that the code keeps the promise;  *)
(* GsServer builds on it.                                                  *)
(***************************************************************************)
EXTENDS SequencesExt

\* parents[t]: the transactions t spends from.
TopologicalOrders(S, parents) ==
    {s \in SetToSeqs(S) :
        \A i, j \in DOMAIN s : s[j] \in parents[s[i]] => j < i}
=============================================================================
