--------------------------- MODULE BottomUpAnalysis ---------------------------
(***************************************************************************)
(* What the data-flow stage asks of whoever schedules the strongly         *)
(* connected components (SCCs) of the call graph: every component is       *)
(* analysed at most once and only after all the components it calls, and   *)
(* the caller of the stage is released when the whole graph has been       *)
(* analysed or the user has cancelled.  How the components are put on      *)
(* threads is left open; SccWorkerCoordinator implements this.             *)
(***************************************************************************)
EXTENDS Naturals

CONSTANTS NumSccs,        \* number of components in the condensation
          MaxParallel     \* edges that may join the same two components

(***************************************************************************)
(* A component of the condensed call graph is known by its number.  The    *)
(* condensation numbers the components in the order SccFinder emits them,  *)
(* callees first, so an edge always leads from a higher to a lower number. *)
(* DiGraph.AddEdge does not merge equal edges: when two members of a       *)
(* component call into the same other component the edge is there twice,   *)
(* and an edge here carries an index that tells the copies apart.          *)
(***************************************************************************)
SCCs  == 0 .. NumSccs - 1
Edges == {e \in [caller : SCCs, callee : SCCs, copy : 1 .. MaxParallel] :
            e.callee < e.caller}

VARIABLES edges,      \* the condensation; it never changes
          analyzed,   \* components whose analysis has been completed
          canceled,   \* has the user asked to stop?
          joined      \* has the caller of the stage been released?

abstractVars == <<edges, analyzed, canceled, joined>>

CalleesOf(n) == {e.callee : e \in {d \in edges : d.caller = n}}
CallersOf(n) == {e.caller : e \in {d \in edges : d.callee = n}}

AbstractInit ==
    /\ edges \in SUBSET Edges
    /\ analyzed = {}
    /\ canceled = FALSE
    /\ joined = FALSE

Analyze(n) ==
    /\ n \notin analyzed
    /\ CalleesOf(n) \subseteq analyzed
    /\ analyzed' = analyzed \cup {n}
    /\ UNCHANGED <<edges, canceled, joined>>

RequestCancel ==
    /\ ~canceled
    /\ canceled' = TRUE
    /\ UNCHANGED <<edges, analyzed, joined>>

ReleaseCaller ==
    /\ ~joined
    /\ analyzed = SCCs \/ canceled
    /\ joined' = TRUE
    /\ UNCHANGED <<edges, analyzed, canceled>>

AbstractNext ==
    \/ \E n \in SCCs : Analyze(n)
    \/ RequestCancel
    \/ ReleaseCaller

AbstractSpec == AbstractInit /\ [][AbstractNext]_abstractVars

===============================================================================
