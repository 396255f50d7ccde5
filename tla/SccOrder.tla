-------------------------------- MODULE SccOrder --------------------------------
(***************************************************************************)
(* What the callers of SccFinder.FindAll rely on: the strongly connected   *)
(* components of a graph come out one by one, each exactly once, and none  *)
(* before everything it can reach outside of itself.                       *)
(***************************************************************************)
EXTENDS Naturals, Sequences

CONSTANT NumNodes

ASSUME NumNodesAssumption == NumNodes \in Nat

VARIABLES graph,    \* the edges, a set of pairs of nodes
          result    \* the components found so far, in the order found

Nodes == 1 .. NumNodes

Successors(n) == {m \in Nodes : <<n, m>> \in graph}

(* The pairs joined by a path of at least one edge, by letting paths pass   *)
(* through the nodes 1, 2, ... in turn.                                     *)
Paths ==
    LET through[k \in 0 .. NumNodes] ==
            IF k = 0 THEN graph
            ELSE through[k - 1] \cup
                 {e \in Nodes \X Nodes : /\ <<e[1], k>> \in through[k - 1]
                                         /\ <<k, e[2]>> \in through[k - 1]}
    IN  through[NumNodes]

(* The strongly connected components of the graph.                          *)
Components ==
    LET paths == Paths
    IN  {{m \in Nodes : m = n \/ (<<n, m>> \in paths /\ <<m, n>> \in paths)}
            : n \in Nodes}

Found == UNION {result[i] : i \in DOMAIN result}

OrderInit ==
    /\ graph \in SUBSET (Nodes \X Nodes)
    /\ result = <<>>

Emit(component) ==
    /\ component \cap Found = {}
    /\ \A n \in component : Successors(n) \subseteq component \cup Found
    /\ result' = Append(result, component)
    /\ UNCHANGED graph

OrderSpec ==
    OrderInit /\ [][\E c \in Components : Emit(c)]_<<graph, result>>

===============================================================================
