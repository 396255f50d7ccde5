------------------------------- MODULE SccFinder -------------------------------
(***************************************************************************)
(* Tarjan's algorithm with its own call stack, as SccFinder.FindAll has it *)
(* (src/src/Core/Graphs/SccFinder.cs), one action per turn of the inner    *)
(* loop, and the condensation that Condense makes of its result.  It runs  *)
(* over the call graph to schedule the data-flow analysis.                 *)
(*                                                                         *)
(* The enumerators of the graph may give the successors of a node in any   *)
(* order.  The nodes are numbered in the order graph.Nodes gives them.     *)
(***************************************************************************)
EXTENDS SccOrder, FiniteSets, SequencesExt

VARIABLES
    stack,     \* nodes that have no component yet
    low,       \* low-link of every node that has been visited
    callstack, \* frames (node, enumerator of its successors, number)
    pending    \* graph.Nodes the outer loop has still to look at

vars == <<graph, result, stack, low, callstack, pending>>

(* A frame that has still to be entered has no enumerator: eSucc is null.   *)
Fresh(n, num) == [node |-> n, entered |-> FALSE, todo |-> {}, at |-> n,
                  num |-> num]

Top  == Last(callstack)
Rest == Front(callstack)

Visited(n) == n \in DOMAIN low
Count(f)   == Cardinality(DOMAIN f)

Init ==
    /\ OrderInit
    /\ stack = <<>>
    /\ low = <<>>
    /\ callstack = <<>>
    /\ pending = [i \in Nodes |-> i]

(* Mutant: the outer loop does not move on. *)
PushNodeAgain ==
    /\ callstack = <<>>
    /\ pending # <<>>
    /\ callstack' = <<Fresh(Head(pending), Count(low))>>
    /\ UNCHANGED <<graph, result, stack, low, pending>>

(* The outer loop takes the next node. *)
PushNode ==
    /\ callstack = <<>>
    /\ pending # <<>>
    /\ callstack' = <<Fresh(Head(pending), Count(low))>>
    /\ pending' = Tail(pending)
    /\ UNCHANGED <<graph, result, stack, low>>

-------------------------------------------------------------------------------
(* Pop a frame whose node has been visited on another path. *)
Skip ==
    /\ callstack # <<>>
    /\ ~Top.entered
    /\ Visited(Top.node)
    /\ callstack' = Rest
    /\ UNCHANGED <<graph, result, stack, low, pending>>

(* Mutant: the low-link does not come back up. *)
LowOnTurnKept(f) ==
    [n \in DOMAIN low \cup {f.node} |->
        IF n = f.node /\ ~f.entered THEN f.num ELSE low[n]]

(* What the first half of a turn leaves: the node is entered, or takes over *)
(* the low-link of the successor it has come back from.                     *)
LowOnTurn(f) ==
    IF f.entered
    THEN [low EXCEPT ![f.node] = Min({low[f.node], low[f.at]})]
    ELSE [n \in DOMAIN low \cup {f.node} |->
             IF n = f.node THEN f.num ELSE low[n]]

(* Mutant: a node goes onto the stack on every turn. *)
StackOnTurnAlways(f) == Append(stack, f.node)

StackOnTurn(f) == IF f.entered THEN stack ELSE Append(stack, f.node)
TodoOnTurn(f)  == IF f.entered THEN f.todo ELSE Successors(f.node)

Turning == callstack # <<>> /\ (Top.entered \/ ~Visited(Top.node))

(* eSucc.MoveNext() gives a successor: go down to it. *)
Descend(succ) ==
    /\ Turning
    /\ succ \in TodoOnTurn(Top)
    /\ low' = LowOnTurn(Top)
    /\ stack' = StackOnTurn(Top)
    /\ callstack' = Rest \o
         <<[Top EXCEPT !.entered = TRUE, !.todo = TodoOnTurn(Top) \ {succ},
                       !.at = succ],
           Fresh(succ, Count(LowOnTurn(Top)))>>
    /\ UNCHANGED <<graph, result, pending>>

(* The successors are exhausted, and the node is not the start of an SCC. *)
Retreat ==
    /\ Turning
    /\ TodoOnTurn(Top) = {}
    /\ LowOnTurn(Top)[Top.node] # Top.num
    /\ low' = LowOnTurn(Top)
    /\ stack' = StackOnTurn(Top)
    /\ callstack' = Rest
    /\ UNCHANGED <<graph, result, pending>>

(* Mutant: one node is popped. *)
UpToOne(n, s) == {Last(s)}

(* The nodes down to n are popped off the stack. *)
UpTo(n, s) == {s[i] : i \in {j \in DOMAIN s : \E k \in 1 .. j : s[k] = n}}

(* Mutant: nodes that get their component are not marked. *)
MarkNothing(comp, l) == l

(* Nodes that get their component leave the competition for the low-link. *)
Mark(comp, l) == [n \in DOMAIN l |-> IF n \in comp THEN NumNodes ELSE l[n]]

(* The node is the start of an SCC: the SCC is on top of the stack. *)
EmitComponent ==
    /\ Turning
    /\ TodoOnTurn(Top) = {}
    /\ LowOnTurn(Top)[Top.node] = Top.num
    /\ LET comp == UpTo(Top.node, StackOnTurn(Top))
           full == StackOnTurn(Top)
       IN  /\ result' = Append(result, comp)
           /\ stack' = SubSeq(full, 1, Len(full) - Cardinality(comp))
           /\ low' = Mark(comp, LowOnTurn(Top))
    /\ callstack' = Rest
    /\ UNCHANGED <<graph, pending>>

Next == \/ PushNode
        \/ Skip
        \/ \E succ \in Nodes : Descend(succ)
        \/ Retreat
        \/ EmitComponent

Spec == Init /\ [][Next]_vars

(* FindAll is sequential code: while a step is possible it is taken.        *)
FairSpec == Spec /\ WF_vars(Next)

(* The same over graphs in which one node at most is its own successor.     *)
OneLoopInit == Init /\ \A n \in Nodes \ {1} : n \notin Successors(n)
OneLoopSpec == OneLoopInit /\ [][Next]_vars /\ WF_vars(Next)

Returned == callstack = <<>> /\ pending = <<>>

-------------------------------------------------------------------------------
(* Condense: mapping gives each node the index of its component; the edges  *)
(* are made member by member, so that a component may get the same edge     *)
(* from several of its members (DiGraph.AddEdge keeps both).  The program's *)
(* indices start at 0.                                                      *)
Mapping(n) == CHOOSE i \in DOMAIN result : n \in result[i]

(* Mutant: the ends of an edge are swapped. *)
CondensationEdgesSwapped ==
    {[member |-> e[1], caller |-> Mapping(e[2]), callee |-> Mapping(e[1])]
        : e \in {d \in graph : Mapping(d[1]) # Mapping(d[2])}}

CondensationEdges ==
    {[member |-> e[1], caller |-> Mapping(e[1]), callee |-> Mapping(e[2])]
        : e \in {d \in graph : Mapping(d[1]) # Mapping(d[2])}}

-------------------------------------------------------------------------------
(* Types; a node is on the stack at most once, and only the frame on top of *)
(* the call stack may have to be entered.                                   *)
TypeOK ==
    /\ graph \in SUBSET (Nodes \X Nodes)
    /\ \A i \in DOMAIN result : result[i] \in SUBSET Nodes
    /\ \A i \in DOMAIN stack : stack[i] \in Nodes
    /\ IsInjective(stack)
    /\ low \in [DOMAIN low -> 0 .. NumNodes]
    /\ DOMAIN low \subseteq Nodes
    /\ \A i \in DOMAIN callstack :
          /\ callstack[i].node \in Nodes
          /\ i < Len(callstack) => callstack[i].entered
          /\ callstack[i].entered => Visited(callstack[i].node)

(* The low-link doubles as the mark of nodes that have their component: the *)
(* number of nodes, which no later minimum can pick up.                     *)
LowMarksFound ==
    \A n \in DOMAIN low :
        /\ low[n] = NumNodes <=> n \in Found
        /\ n \in Found <=> n \notin {stack[i] : i \in DOMAIN stack}

(* The components come out as the schedulers of the analysis need them.     *)
ImplementsSccOrder == OrderSpec

(* No node is forgotten.                                                    *)
AllFound == Returned => Found = Nodes

(* The condensation is acyclic and numbered callees first, which is what    *)
(* BottomUpAnalysis and SccWorkerCoordinator take for granted.              *)
CondensationDescends ==
    Returned => \A e \in CondensationEdges : e.callee < e.caller

(* FindAll returns, on cyclic graphs too.                                   *)
Returns == <>Returned

===============================================================================
