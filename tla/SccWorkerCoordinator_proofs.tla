---------------------- MODULE SccWorkerCoordinator_proofs ----------------------
(***************************************************************************)
(* Proofs, for call graphs of every size, of the safety properties of the  *)
(* swarm of SCC workers and of its refinement of BottomUpAnalysis.         *)
(*                                                                         *)
(* Everything follows from one inductive invariant, SwarmInv: it says that *)
(* a caller's counter is the number of its callees' decrements that are    *)
(* still to come, that at most one task holds the zero of a caller that    *)
(* has not been started, and that a task past its workAction has analysed  *)
(* its component unless the user cancelled.                                *)
(***************************************************************************)
EXTENDS SccWorkerCoordinator, FiniteSetTheorems, NaturalsInduction, TLAPS

Published == {"waking", "poking", "finished"}

(* Task m has decremented the counter of n to zero and not yet started n.  *)
Holds(m, n) == /\ task[m] = "poking"
               /\ poke[m].pred = n
               /\ poke[m].left = 0

(* The counter of a component counts the edges still to be signalled.      *)
CountersAgree == \A n \in SCCs : successorsLeft[n] = Cardinality(Pending(n))

(* The leaves are started by RunAsync and by nobody else.                  *)
LeavesOnce ==
    /\ leavesToStart \subseteq Leaves
    /\ \A n \in Leaves : n \in leavesToStart <=> task[n] = "idle"
    /\ main # "starting" => leavesToStart = {}

(* An edge is signalled by its callee's task after the analysis.           *)
SignalledLate == \A e \in signalled : /\ task[e.callee] \in Published
                                      /\ e.callee \in analyzed

(* A component with callees starts when, and only when, all have signalled.*)
StartedWhenReady ==
    \A n \in SCCs \ Leaves :
        /\ task[n] # "idle" => Pending(n) = {}
        /\ Pending(n) = {} => task[n] # "idle" \/ \E m \in SCCs : Holds(m, n)

(* The zero of a counter is held by one task, for a component not started. *)
OneHolder ==
    \A m \in SCCs :
        /\ task[m] = "poking" => poke[m].pred \in SCCs \ Leaves
        /\ \A n \in SCCs : Holds(m, n) =>
              /\ Pending(n) = {}
              /\ task[n] = "idle"
              /\ \A k \in SCCs : Holds(k, n) => k = m

(* Without a cancellation a task past its workAction analysed its members. *)
AnalyzedByTask ==
    \A n \in SCCs :
        /\ task[n] \in {"idle", "queued", "working"} => n \notin analyzed
        /\ task[n] \in {"publishing"} \cup Published /\ ~canceled
              => n \in analyzed

(* The result of a component is set by its task.                           *)
ResultsByTask == \A n \in SCCs : n \in computationDone => task[n] \in Published

SwarmInv ==
    /\ TypeOK
    /\ CountersAgree
    /\ LeavesOnce
    /\ SignalledLate
    /\ StartedWhenReady
    /\ OneHolder
    /\ AnalyzedByTask
    /\ ResultsByTask
    /\ JoinCoversAll

-------------------------------------------------------------------------------
(* A condensed call graph has finitely many edges.                         *)
LEMMA EdgesFinite == IsFiniteSet(Edges)
<1> DEFINE P == (SCCs \X SCCs) \X (1 .. MaxParallel)
           f == [e \in Edges |-> <<<<e.caller, e.callee>>, e.copy>>]
<1>1. IsFiniteSet(SCCs)
  BY NumSccsAssumption, FS_Interval DEF SCCs, BottomUp!SCCs
<1>2. IsFiniteSet(1 .. MaxParallel)
  BY MaxParallelAssumption, FS_Interval
<1>3. IsFiniteSet(P)
  BY <1>1, <1>2, FS_Product
<1>4. f \in [Edges -> P]
  BY DEF Edges, SCCs, BottomUp!Edges
<1>5. ASSUME NEW d \in Edges, NEW e \in Edges, f[d] = f[e]
      PROVE  d = e
  <2>1. /\ d \in [caller : SCCs, callee : SCCs, copy : 1 .. MaxParallel]
        /\ e \in [caller : SCCs, callee : SCCs, copy : 1 .. MaxParallel]
    BY DEF Edges, SCCs, BottomUp!Edges
  <2>2. d.caller = e.caller /\ d.callee = e.callee /\ d.copy = e.copy
    BY <1>5
  <2> QED
    BY <2>1, <2>2
<1>6. f \in Injection(Edges, P)
  BY <1>4, <1>5 DEF Injection, IsInjective
<1> QED
  BY <1>3, <1>6, FS_Injection

(* The edges of a component that are still to be signalled, one at a time. *)
LEMMA PendingFinite ==
  ASSUME edges \in SUBSET Edges, NEW n
  PROVE  /\ IsFiniteSet(Calls(n))
         /\ IsFiniteSet(Pending(n))
<1>1. IsFiniteSet(edges)
  BY EdgesFinite, FS_Subset
<1>2. Calls(n) \in SUBSET edges /\ Pending(n) \in SUBSET edges
  BY DEF Calls, Pending
<1> QED
  BY <1>1, <1>2, FS_Subset

(* The callees of an edge of the graph are numbered below the caller.      *)
LEMMA EdgeEnds ==
  ASSUME TypeOK, NEW e \in edges
  PROVE  /\ e.caller \in SCCs
         /\ e.callee \in SCCs
         /\ e.callee # e.caller
         /\ e.caller \notin Leaves
<1>1. e \in Edges
  BY DEF TypeOK
<1>2. e.caller \in SCCs /\ e.callee \in SCCs /\ e.callee < e.caller
  BY <1>1 DEF Edges, SCCs, BottomUp!Edges
<1>3. e.callee # e.caller
  BY <1>2, NumSccsAssumption DEF SCCs, BottomUp!SCCs
<1>4. e.caller \notin Leaves
  BY DEF Leaves, Calls
<1> QED
  BY <1>2, <1>3, <1>4

(* Only Decrement changes which edges are pending.                         *)
LEMMA PendingFrame ==
  ASSUME UNCHANGED <<edges, signalled>>
  PROVE  /\ Leaves' = Leaves
         /\ \A n : Pending(n)' = Pending(n)
BY DEF Leaves, Calls, Pending

(* Decrement takes one edge from the caller it counts for.                 *)
LEMMA DecrementPending ==
  ASSUME TypeOK, NEW n \in SCCs, NEW e \in Wakes(n), Decrement(n, e)
  PROVE  /\ e \in edges
         /\ e.callee = n
         /\ e.caller \in SCCs \ Leaves
         /\ e.caller # n
         /\ e \in Pending(e.caller)
         /\ Pending(e.caller)' = Pending(e.caller) \ {e}
         /\ \A m : m # e.caller => Pending(m)' = Pending(m)
         /\ Leaves' = Leaves
<1>1. e \in edges /\ e.callee = n /\ e \notin signalled
  BY DEF Wakes, Decrement
<1>2. e.caller \in SCCs \ Leaves /\ e.caller # n
  BY <1>1, EdgeEnds
<1>3. edges' = edges /\ signalled' = signalled \cup {e}
  BY DEF Decrement
<1> QED
  BY <1>1, <1>2, <1>3 DEF Pending, Calls, Leaves

(* The steps of the swarm, one disjunct per action.                        *)
LEMMA NextCases ==
  ASSUME Next
  PROVE  \/ \E n \in SCCs : \/ StartLeaf(n) \/ BeginWork(n) \/ EndWork(n)
                            \/ CutShort(n) \/ Throw(n) \/ SetResult(n)
                            \/ Poke(n) \/ StopWaking(n)
         \/ \E n \in SCCs : \E e \in Wakes(n) : Decrement(n, e)
         \/ AwaitRoots \/ Join \/ Cancel
BY DEF Next, RunAsync, RunTask

-------------------------------------------------------------------------------
(* A fresh coordinator: every counter is full and nobody has been started.  *)
LEMMA InitSwarmInv == Init => SwarmInv
<1> SUFFICES ASSUME Init PROVE SwarmInv
  OBVIOUS
<1> USE DEF Init
<1>1. edges \in SUBSET Edges
  BY DEF Edges
<1>2. \A n \in SCCs : Cardinality(Calls(n)) \in Nat /\ Pending(n) = Calls(n)
  BY <1>1, PendingFinite, FS_CardinalityType DEF Pending
<1>3. TypeOK
  BY <1>1, <1>2 DEF TypeOK, TaskStates, Leaves, MakeWorker
<1>4. CountersAgree
  BY <1>2 DEF CountersAgree, MakeWorker
<1>5. LeavesOnce
  BY DEF LeavesOnce, Leaves
<1>6. SignalledLate
  BY DEF SignalledLate
<1>7. StartedWhenReady
  BY <1>2 DEF StartedWhenReady, Leaves
<1>8. OneHolder
  BY DEF OneHolder, Holds
<1>9. AnalyzedByTask /\ ResultsByTask /\ JoinCoversAll
  BY DEF AnalyzedByTask, ResultsByTask, JoinCoversAll, joined, Published
<1> QED
  BY <1>3, <1>4, <1>5, <1>6, <1>7, <1>8, <1>9 DEF SwarmInv

(* A decrement finds a positive counter: its own edge is still pending.    *)
LEMMA DecrementPositive ==
  ASSUME TypeOK, CountersAgree,
         NEW n \in SCCs, NEW e \in Wakes(n), Decrement(n, e)
  PROVE  /\ successorsLeft[e.caller] \in Nat \ {0}
         /\ successorsLeft'[e.caller] = Cardinality(Pending(e.caller)')
         /\ poke'[n].left = 0 <=> Pending(e.caller)' = {}
<1> DEFINE c == e.caller
<1>1. c \in SCCs /\ e \in Pending(c) /\ Pending(c)' = Pending(c) \ {e}
  BY DecrementPending
<1>2. IsFiniteSet(Pending(c))
  BY PendingFinite DEF TypeOK
<1>3. Cardinality(Pending(c)) \in Nat \ {0}
  BY <1>1, <1>2, FS_CardinalityType, FS_EmptySet
<1>4. IsFiniteSet(Pending(c)')
      /\ Cardinality(Pending(c)') = Cardinality(Pending(c)) - 1
  BY <1>1, <1>2, FS_RemoveElement
<1>5. Cardinality(Pending(c)') = 0 <=> Pending(c)' = {}
  BY <1>4, FS_EmptySet
<1>6. successorsLeft[c] = Cardinality(Pending(c))
  BY <1>1 DEF CountersAgree
<1>7. /\ successorsLeft'[c] = successorsLeft[c] - 1
      /\ poke'[n].left = successorsLeft[c] - 1
  BY <1>1 DEF Decrement, TypeOK
<1> QED
  BY <1>1, <1>3, <1>4, <1>5, <1>6, <1>7

(* A step of the swarm, of its caller or of the user keeps the types.      *)
LEMMA TypeStep ==
  ASSUME TypeOK, CountersAgree, [Next]_vars
  PROVE  TypeOK'
<1> USE DEF TypeOK, TaskStates
<1>1. ASSUME NEW n \in SCCs, StartLeaf(n) PROVE TypeOK'
  BY <1>1 DEF StartLeaf
<1>2. ASSUME NEW n \in SCCs, BeginWork(n) PROVE TypeOK'
  BY <1>2 DEF BeginWork, MoveTask
<1>3. ASSUME NEW n \in SCCs, EndWork(n) PROVE TypeOK'
  BY <1>3 DEF EndWork, MoveTask
<1>4. ASSUME NEW n \in SCCs, CutShort(n) PROVE TypeOK'
  BY <1>4 DEF CutShort, MoveTask
<1>5. ASSUME NEW n \in SCCs, Throw(n) PROVE TypeOK'
  BY <1>5 DEF Throw, MoveTask
<1>6. ASSUME NEW n \in SCCs, SetResult(n) PROVE TypeOK'
  BY <1>6 DEF SetResult, MoveTask
<1>7. ASSUME NEW n \in SCCs, NEW e \in Wakes(n), Decrement(n, e) PROVE TypeOK'
  <2>1. e.caller \in SCCs /\ e \in edges
    BY <1>7, DecrementPending
  <2>2. successorsLeft[e.caller] - 1 \in Nat
    BY <1>7, DecrementPositive
  <2> QED
    BY <1>7, <2>1, <2>2 DEF Decrement, MoveTask
<1>8. ASSUME NEW n \in SCCs, Poke(n) PROVE TypeOK'
  BY <1>8 DEF Poke
<1>9. ASSUME NEW n \in SCCs, StopWaking(n) PROVE TypeOK'
  BY <1>9 DEF StopWaking, MoveTask
<1>10. CASE AwaitRoots \/ Join \/ Cancel
  BY <1>10 DEF AwaitRoots, Join, Cancel
<1>11. CASE UNCHANGED vars
  BY <1>11 DEF vars
<1> QED
  BY <1>1, <1>2, <1>3, <1>4, <1>5, <1>6, <1>7, <1>8, <1>9, <1>10, <1>11,
     NextCases

(* A counter stays the number of its edges that are still to be signalled. *)
LEMMA CountersStep ==
  ASSUME SwarmInv, [Next]_vars
  PROVE  CountersAgree'
<1> USE DEF SwarmInv
<1>1. ASSUME NEW n \in SCCs, NEW e \in Wakes(n), Decrement(n, e)
      PROVE  CountersAgree'
  <2> SUFFICES ASSUME NEW m \in SCCs
               PROVE  successorsLeft'[m] = Cardinality(Pending(m)')
    BY DEF CountersAgree, SCCs
  <2>1. CASE m = e.caller
    BY <1>1, <2>1, DecrementPositive
  <2>2. CASE m # e.caller
    <3>1. Pending(m)' = Pending(m)
      BY <1>1, <2>2, DecrementPending
    <3>2. successorsLeft'[m] = successorsLeft[m]
      BY <1>1, <2>2 DEF Decrement, TypeOK
    <3> QED
      BY <3>1, <3>2 DEF CountersAgree
  <2> QED
    BY <2>1, <2>2
<1>2. ASSUME UNCHANGED <<edges, signalled, successorsLeft>>
      PROVE  CountersAgree'
  BY <1>2, PendingFrame DEF CountersAgree, SCCs
<1> QED
  BY <1>1, <1>2, NextCases
     DEF vars, StartLeaf, BeginWork, EndWork, CutShort, Throw, SetResult,
         Poke, StopWaking, AwaitRoots, Join, Cancel

(* An action that leaves the graph, the signals and the pokes alone and    *)
(* moves a started task keeps every fact about starting.                   *)
LEMMA MoveStep ==
  ASSUME SwarmInv, UNCHANGED <<edges, signalled, poke, leavesToStart>>,
         NEW n \in SCCs, task[n] \notin {"idle", "poking"},
         NEW to \in TaskStates \ {"idle", "poking"},
         task' = [task EXCEPT ![n] = to],
         task[n] \in Published => to \in Published,
         main' = main
  PROVE  LeavesOnce' /\ StartedWhenReady' /\ OneHolder'
<1> USE DEF SwarmInv
<1>1. Leaves' = Leaves /\ \A m : Pending(m)' = Pending(m)
  BY PendingFrame
<1>2. \A m \in SCCs : /\ task'[m] = "idle" <=> task[m] = "idle"
                      /\ task'[m] = "poking" <=> task[m] = "poking"
  BY DEF TypeOK
<1>3. \A m, k \in SCCs : Holds(m, k)' <=> Holds(m, k)
  BY <1>2 DEF Holds
<1>4. LeavesOnce'
  BY <1>1, <1>2 DEF LeavesOnce, Leaves
<1>5. StartedWhenReady'
  BY <1>1, <1>2, <1>3 DEF StartedWhenReady, SCCs
<1>6. OneHolder'
  BY <1>1, <1>2, <1>3 DEF OneHolder, SCCs
<1> QED
  BY <1>4, <1>5, <1>6

(* Leaves are started by RunAsync, other components by the one task that    *)
(* holds the zero of their counter.                                        *)
LEMMA StartStep ==
  ASSUME SwarmInv, [Next]_vars
  PROVE  LeavesOnce' /\ StartedWhenReady' /\ OneHolder'
<1> DEFINE Goal == LeavesOnce' /\ StartedWhenReady' /\ OneHolder'
<1> USE DEF SwarmInv
<1>1. ASSUME NEW n \in SCCs, StartLeaf(n) PROVE Goal
  <2>1. /\ Leaves' = Leaves
        /\ \A m : Pending(m)' = Pending(m)
        /\ n \in Leaves /\ task[n] = "idle"
    BY <1>1, PendingFrame DEF StartLeaf, LeavesOnce
  <2>2. \A m, k \in SCCs : Holds(m, k)' <=> Holds(m, k)
    BY <1>1, <2>1 DEF StartLeaf, Holds, TypeOK
  <2>3. /\ LeavesOnce'
        /\ \A m \in SCCs \ Leaves : task'[m] = task[m]
        /\ \A m \in SCCs : task'[m] = "poking" <=> task[m] = "poking"
    BY <1>1, <2>1 DEF StartLeaf, LeavesOnce, TypeOK, Leaves
  <2>4. StartedWhenReady'
    BY <2>1, <2>2, <2>3 DEF StartedWhenReady, SCCs
  <2>5. \A m, k \in SCCs : Holds(m, k) => k \in SCCs \ Leaves
    BY DEF OneHolder, Holds
  <2>6. OneHolder'
    BY <1>1, <2>1, <2>2, <2>3, <2>5 DEF OneHolder, SCCs, StartLeaf
  <2> QED
    BY <2>3, <2>4, <2>6
<1>2. ASSUME NEW n \in SCCs,
             BeginWork(n) \/ EndWork(n) \/ CutShort(n) \/ Throw(n)
                \/ SetResult(n) \/ StopWaking(n)
      PROVE  Goal
  <2>1. PICK to \in TaskStates \ {"idle", "poking"} :
           /\ task' = [task EXCEPT ![n] = to]
           /\ task[n] \notin {"idle", "poking"}
           /\ task[n] \in Published => to \in Published
    BY <1>2 DEF BeginWork, EndWork, CutShort, Throw, SetResult, StopWaking,
                MoveTask, TaskStates, Published
  <2>2. UNCHANGED <<edges, signalled, poke, leavesToStart, main>>
    BY <1>2 DEF BeginWork, EndWork, CutShort, Throw, SetResult, StopWaking
  <2> QED
    BY <2>1, <2>2, MoveStep
<1>3. ASSUME NEW n \in SCCs, NEW e \in Wakes(n), Decrement(n, e) PROVE Goal
  <2> DEFINE c == e.caller
  <2>1. /\ c \in SCCs \ Leaves /\ c # n
        /\ Leaves' = Leaves
        /\ Pending(c) # {}
        /\ \A m : m # c => Pending(m)' = Pending(m)
    BY <1>3, DecrementPending
  <2>2. /\ task[n] = "waking" /\ task' = [task EXCEPT ![n] = "poking"]
        /\ poke'[n].pred = c
        /\ \A m \in SCCs : m # n => poke'[m] = poke[m]
        /\ UNCHANGED <<main, leavesToStart>>
    BY <1>3 DEF Decrement, MoveTask, TypeOK
  <2>3. poke'[n].left = 0 <=> Pending(c)' = {}
    BY <1>3, DecrementPositive
  <2>4. \A m \in SCCs : /\ task'[m] = "idle" <=> task[m] = "idle"
                        /\ m # n => task'[m] = task[m]
    BY <2>2 DEF TypeOK
  <2>5. task[c] = "idle" /\ \A m \in SCCs : ~Holds(m, c)
    BY <2>1 DEF StartedWhenReady, OneHolder
  <2>6. \A m, k \in SCCs : Holds(m, k)' <=>
           IF k = c THEN m = n /\ Pending(c)' = {} ELSE Holds(m, k)
    BY <2>1, <2>2, <2>3, <2>4, <2>5 DEF Holds, TypeOK
  <2>7. LeavesOnce'
    BY <2>1, <2>2, <2>4 DEF LeavesOnce, Leaves
  <2>8. StartedWhenReady'
    BY <2>1, <2>4, <2>5, <2>6 DEF StartedWhenReady, SCCs
  <2>9. \A m \in SCCs : task'[m] = "poking" => poke'[m].pred \in SCCs \ Leaves
    BY <2>1, <2>2, <2>4 DEF OneHolder
  <2>10. \A m, k \in SCCs : Holds(m, k)' =>
            /\ Pending(k)' = {}
            /\ task'[k] = "idle"
            /\ \A l \in SCCs : Holds(l, k)' => l = m
    BY <2>1, <2>4, <2>5, <2>6 DEF OneHolder
  <2>11. OneHolder'
    BY <2>1, <2>9, <2>10 DEF OneHolder, SCCs
  <2> QED
    BY <2>7, <2>8, <2>11
<1>4. ASSUME NEW n \in SCCs, Poke(n) PROVE Goal
  <2> DEFINE p == poke[n].pred
  <2>1. /\ Leaves' = Leaves
        /\ \A m : Pending(m)' = Pending(m)
        /\ UNCHANGED <<poke, main, leavesToStart>>
    BY <1>4, PendingFrame DEF Poke
  <2>2. task[n] = "poking" /\ p \in SCCs \ Leaves
    BY <1>4 DEF Poke, OneHolder
  <2>3. CASE SuccessorCompleted(n)
    <3>1. Holds(n, p)
      BY <2>2, <2>3 DEF Holds, SuccessorCompleted
    <3>2. /\ Pending(p) = {} /\ task[p] = "idle"
          /\ \A k \in SCCs : Holds(k, p) => k = n
      BY <2>2, <3>1 DEF OneHolder
    <3>3. \A m \in SCCs : task'[m] = IF m = n THEN "waking"
                                     ELSE IF m = p THEN "queued" ELSE task[m]
      BY <1>4, <2>2, <2>3, <3>2 DEF Poke, TypeOK
    <3>4. \A m, k \in SCCs : Holds(m, k)' <=> m # n /\ Holds(m, k)
      BY <2>1, <2>2, <3>2, <3>3 DEF Holds
    <3>5. LeavesOnce'
      BY <2>1, <2>2, <3>3 DEF LeavesOnce, Leaves
    <3>6. StartedWhenReady'
      BY <2>1, <2>2, <3>1, <3>2, <3>3, <3>4 DEF StartedWhenReady, Holds, SCCs
    <3>7. \A k \in SCCs : \A m \in SCCs : Holds(m, k)' => task'[k] = "idle"
      <4> SUFFICES ASSUME NEW k \in SCCs, NEW m \in SCCs, Holds(m, k)'
                   PROVE  task'[k] = "idle"
        OBVIOUS
      <4>1. Holds(m, k) /\ m # n
        BY <3>4
      <4>2. k # p /\ task[k] = "idle"
        BY <3>2, <4>1 DEF OneHolder
      <4> QED
        BY <2>2, <3>3, <4>2
    <3>8. OneHolder'
      BY <2>1, <2>2, <3>3, <3>4, <3>7 DEF OneHolder, SCCs
    <3> QED
      BY <3>5, <3>6, <3>8
  <2>4. CASE ~SuccessorCompleted(n)
    <3>1. /\ \A m \in SCCs : task'[m] = IF m = n THEN "waking" ELSE task[m]
          /\ poke[n].left # 0
      BY <1>4, <2>2, <2>4 DEF Poke, TypeOK, SuccessorCompleted
    <3>2. \A m, k \in SCCs : Holds(m, k)' <=> Holds(m, k)
      BY <2>1, <2>2, <3>1 DEF Holds
    <3>3. LeavesOnce'
      BY <2>1, <2>2, <3>1 DEF LeavesOnce, Leaves
    <3>4. StartedWhenReady'
      BY <2>1, <2>2, <3>1, <3>2 DEF StartedWhenReady, SCCs
    <3>5. OneHolder'
      BY <2>1, <2>2, <3>1, <3>2 DEF OneHolder, SCCs
    <3> QED
      BY <3>3, <3>4, <3>5
  <2> QED
    BY <2>3, <2>4
<1>5. ASSUME UNCHANGED <<edges, signalled, poke, leavesToStart, task>>,
             main' # "starting" => leavesToStart = {}
      PROVE  Goal
  <2>1. Leaves' = Leaves /\ \A m : Pending(m)' = Pending(m)
    BY <1>5, PendingFrame
  <2>2. \A m, k : Holds(m, k)' <=> Holds(m, k)
    BY <1>5 DEF Holds
  <2> QED
    BY <1>5, <2>1, <2>2 DEF LeavesOnce, StartedWhenReady, OneHolder, SCCs
<1>6. CASE AwaitRoots \/ Join \/ Cancel
  BY <1>5, <1>6 DEF AwaitRoots, Join, Cancel, LeavesOnce
<1>7. CASE UNCHANGED vars
  BY <1>5, <1>7 DEF vars, LeavesOnce
<1> QED
  BY <1>1, <1>2, <1>3, <1>4, <1>6, <1>7, NextCases

(* Past its workAction a component is analysed unless the user cancelled,  *)
(* and its result is set by its own task.                                  *)
LEMMA AnalyzedStep ==
  ASSUME SwarmInv, [Next]_vars
  PROVE  AnalyzedByTask' /\ ResultsByTask'
<1> USE DEF AnalyzedByTask, ResultsByTask, Published, SwarmInv, TypeOK, SCCs
<1>1. ASSUME NEW n \in SCCs,
             StartLeaf(n) \/ BeginWork(n) \/ EndWork(n) \/ CutShort(n)
                \/ Throw(n) \/ SetResult(n) \/ StopWaking(n)
      PROVE  AnalyzedByTask' /\ ResultsByTask'
  BY <1>1 DEF StartLeaf, BeginWork, EndWork, CutShort, Throw, SetResult,
              StopWaking, MoveTask, LeavesOnce
<1>2. ASSUME NEW n \in SCCs, NEW e \in Wakes(n), Decrement(n, e)
      PROVE  AnalyzedByTask' /\ ResultsByTask'
  BY <1>2 DEF Decrement, MoveTask
<1>3. ASSUME NEW n \in SCCs, Poke(n)
      PROVE  AnalyzedByTask' /\ ResultsByTask'
  <2>1. /\ poke[n].pred \in SCCs
        /\ SuccessorCompleted(n) => task[poke[n].pred] = "idle"
    BY <1>3 DEF Poke, SuccessorCompleted, OneHolder, Holds
  <2> QED
    BY <1>3, <2>1 DEF Poke
<1>4. CASE AwaitRoots \/ Join \/ Cancel
  BY <1>4 DEF AwaitRoots, Join, Cancel
<1>5. CASE UNCHANGED vars
  BY <1>5 DEF vars
<1> QED
  BY <1>1, <1>2, <1>3, <1>4, <1>5, NextCases

(* An edge is signalled by its callee's task, after the analysis.          *)
LEMMA SignalledStep ==
  ASSUME SwarmInv, [Next]_vars
  PROVE  SignalledLate'
<1> USE DEF SwarmInv
<1>1. \A e \in signalled : e.callee \in SCCs
  BY EdgeEnds DEF TypeOK
<1>2. ASSUME NEW n \in SCCs,
             StartLeaf(n) \/ BeginWork(n) \/ EndWork(n) \/ CutShort(n)
                \/ Throw(n) \/ SetResult(n) \/ StopWaking(n) \/ Poke(n)
      PROVE  SignalledLate'
  <2>1. signalled' = signalled /\ analyzed \subseteq analyzed'
    BY <1>2 DEF StartLeaf, BeginWork, EndWork, CutShort, Throw, SetResult,
                StopWaking, Poke
  <2>2. \A m \in SCCs : task[m] \in Published => task'[m] \in Published
    <3>1. CASE Poke(n)
      <4>1. SuccessorCompleted(n) => task[poke[n].pred] = "idle"
        BY <3>1 DEF Poke, SuccessorCompleted, OneHolder, Holds, TypeOK
      <4> QED
        BY <3>1, <4>1 DEF Poke, Published, TypeOK
    <3>2. CASE ~Poke(n)
      BY <1>2, <3>2
         DEF StartLeaf, BeginWork, EndWork, CutShort, Throw, SetResult,
             StopWaking, MoveTask, Published, TypeOK, LeavesOnce
    <3> QED
      BY <3>1, <3>2
  <2> QED
    BY <1>1, <2>1, <2>2 DEF SignalledLate
<1>3. ASSUME NEW n \in SCCs, NEW e \in Wakes(n), Decrement(n, e)
      PROVE  SignalledLate'
  <2>1. /\ task[n] = "waking" /\ ~canceled
        /\ task' = [task EXCEPT ![n] = "poking"]
        /\ signalled' = signalled \cup {e}
        /\ analyzed' = analyzed
    BY <1>3 DEF Decrement, MoveTask
  <2>2. n \in analyzed /\ e.callee = n
    BY <1>3, <2>1, DecrementPending DEF AnalyzedByTask, Published
  <2>3. \A m \in SCCs : task[m] \in Published => task'[m] \in Published
    BY <2>1 DEF Published, TypeOK
  <2>4. task'[n] \in Published
    BY <2>1 DEF Published, TypeOK
  <2> QED
    BY <1>1, <2>1, <2>2, <2>3, <2>4 DEF SignalledLate
<1>4. CASE AwaitRoots \/ Join \/ Cancel
  BY <1>4 DEF AwaitRoots, Join, Cancel, SignalledLate
<1>5. CASE UNCHANGED vars
  BY <1>5 DEF vars, SignalledLate
<1> QED
  BY <1>2, <1>3, <1>4, <1>5, NextCases

(* A component whose task has begun has all its callees analysed.          *)
LEMMA StartedCallees ==
  ASSUME SwarmInv, NEW n \in SCCs, task[n] # "idle"
  PROVE  \A e \in Calls(n) : /\ e.callee \in analyzed
                             /\ task[e.callee] \in Published
<1>1. Pending(n) = {}
  BY DEF SwarmInv, StartedWhenReady, Leaves, Pending
<1> QED
  BY <1>1 DEF SwarmInv, Pending, SignalledLate

(* Every non-empty set of components has a member with the highest number. *)
LEMMA HighestComponent ==
  ASSUME NEW S \in SUBSET SCCs, S # {}
  PROVE  \E n \in S : \A m \in S : m <= n
<1> DEFINE Above(n) == {k \in SCCs : k > n}
           T == {Above(n) : n \in S}
<1>1. IsFiniteSet(SCCs) /\ \A k \in SCCs : k \in Int
  BY NumSccsAssumption, FS_Interval DEF SCCs, BottomUp!SCCs
<1>2. T \subseteq FiniteSubsetsOf(SCCs) /\ T # {}
  <2>1. FiniteSubsetsOf(SCCs) = SUBSET SCCs
    BY <1>1, FS_FiniteSubsetsOfFinite
  <2>2. T \subseteq SUBSET SCCs
    OBVIOUS
  <2>3. T # {}
    OBVIOUS
  <2> QED
    BY <2>1, <2>2, <2>3
<1>3. PICK x \in T : \A y \in T : <<y, x>> \notin StrictSubsetOrdering(SCCs)
  BY <1>2, FS_StrictSubsetOrderingWellFounded, WFMin
<1>4. PICK n \in S : x = Above(n)
  OBVIOUS
<1>5. ASSUME NEW m \in S, m > n
      PROVE  FALSE
  <2>1. m \in Int /\ n \in Int /\ \A k \in SCCs : k \in Int
    BY <1>1
  <2>2. Above(m) \subseteq Above(n)
    <3>1. ASSUME NEW k \in SCCs, k > m PROVE k > n
      BY <1>5, <2>1, <3>1
    <3> QED
      BY <3>1
  <2>3. m \in Above(n) /\ m \notin Above(m)
    BY <1>5, <2>1
  <2>4. <<Above(m), Above(n)>> \in StrictSubsetOrdering(SCCs)
    BY <2>2, <2>3 DEF StrictSubsetOrdering
  <2> QED
    BY <1>3, <1>4, <2>4
<1> QED
  BY <1>1, <1>5

(* If the roots have published their results, everybody has.               *)
LEMMA RootsCover ==
  ASSUME SwarmInv, Roots \subseteq computationDone
  PROVE  \A n \in SCCs : task[n] \in Published
<1> DEFINE S == {n \in SCCs : task[n] \notin Published}
<1> SUFFICES ASSUME S # {} PROVE FALSE
  OBVIOUS
<1>1. PICK n \in S : \A m \in S : m <= n
  BY HighestComponent
<1>2. n \notin Roots
  BY DEF SwarmInv, ResultsByTask
<1>3. PICK e \in edges : e.callee = n
  BY <1>2 DEF Roots, Wakes
<1>4. e \in Edges /\ e.caller \in SCCs /\ e.caller > n
  BY <1>3 DEF SwarmInv, TypeOK, Edges, SCCs, BottomUp!Edges
<1>5. task[e.caller] \in Published
  BY <1>1, <1>4, NumSccsAssumption DEF SCCs, BottomUp!SCCs
<1>6. task[e.callee] \in Published
  BY <1>4, <1>5, StartedCallees DEF Published, Calls
<1> QED
  BY <1>3, <1>6

(* The caller of RunAsync goes on only when everything is analysed.        *)
LEMMA JoinStep ==
  ASSUME SwarmInv, [Next]_vars
  PROVE  JoinCoversAll'
<1> USE DEF SwarmInv, JoinCoversAll, joined
<1>1. CASE Join
  <2>1. \A n \in SCCs : task[n] \in Published
    BY <1>1, RootsCover DEF Join
  <2>2. ~canceled => analyzed = SCCs
    BY <2>1 DEF AnalyzedByTask, TypeOK
  <2> QED
    BY <1>1, <2>2 DEF Join, SCCs
<1>2. CASE AwaitRoots \/ Cancel
  BY <1>2 DEF AwaitRoots, Cancel, SCCs
<1>3. ASSUME UNCHANGED <<main, canceled>>, analyzed \subseteq analyzed',
             analyzed' \subseteq SCCs
      PROVE  JoinCoversAll'
  BY <1>3 DEF SCCs
<1>4. TypeOK'
  BY TypeStep
<1> QED
  BY <1>1, <1>2, <1>3, <1>4, NextCases
     DEF vars, StartLeaf, BeginWork, EndWork, CutShort, Throw, SetResult,
         Decrement, Poke, StopWaking, TypeOK, SCCs

(* SwarmInv is inductive.                                                  *)
LEMMA SwarmInvStep == SwarmInv /\ [Next]_vars => SwarmInv'
BY TypeStep, CountersStep, StartStep, SignalledStep, AnalyzedStep, JoinStep
   DEF SwarmInv

(* SwarmInv holds whatever the call graph, the interleaving of the tasks of *)
(* SccWorkerCoordinator and the moment of a cancellation.                   *)
THEOREM SwarmInvariant == Spec => []SwarmInv
BY InitSwarmInv, SwarmInvStep, PTL DEF Spec

-------------------------------------------------------------------------------
(* Types hold in every reachable state, and no counter is driven below     *)
(* zero, however many edges join two components.                           *)
THEOREM TypeCorrect == Spec => []TypeOK
BY SwarmInvariant, PTL DEF SwarmInv

(* Worker.SuccessorCompleted lets a component start only when the flows of *)
(* all the components it calls are complete.                               *)
THEOREM CalleesAnalyzedFirst == Spec => []CalleesFirst
<1>1. SwarmInv => CalleesFirst
  <2> SUFFICES ASSUME SwarmInv, NEW n \in SCCs, task[n] = "working"
               PROVE  CalleesOf(n) \subseteq analyzed
    BY DEF CalleesFirst
  <2>1. \A e \in Calls(n) : e.callee \in analyzed
    BY StartedCallees
  <2> QED
    BY <2>1 DEF CalleesOf, BottomUp!CalleesOf, Calls
<1> QED
  BY <1>1, SwarmInvariant, PTL

(* A component whose last callee has signalled is started or about to be.  *)
THEOREM WakeupNotLost == Spec => []NoLostWakeup
<1>1. SwarmInv => NoLostWakeup
  <2> SUFFICES ASSUME SwarmInv, NEW n \in SCCs \ Leaves
               PROVE  Pending(n) = {} <=>
                        \/ task[n] # "idle"
                        \/ \E m \in SCCs : /\ task[m] = "poking"
                                           /\ poke[m] = [pred |-> n, left |-> 0]
    BY DEF NoLostWakeup
  <2>1. \A m \in SCCs : Holds(m, n) <=>
           task[m] = "poking" /\ poke[m] = [pred |-> n, left |-> 0]
    BY DEF Holds, SwarmInv, TypeOK
  <2>2. (\E m \in SCCs : Holds(m, n)) => Pending(n) = {}
    BY DEF SwarmInv, OneHolder
  <2> QED
    BY <2>1, <2>2 DEF SwarmInv, StartedWhenReady
<1> QED
  BY <1>1, SwarmInvariant, PTL

(* Waiting for the roots of the condensation is waiting for all of it.     *)
THEOREM RootsSuffice == Spec => []JoinCoversAll
BY SwarmInvariant, PTL DEF SwarmInv

(* No component's task is put on the pool a second time.                   *)
THEOREM NoSecondStart == Spec => StartedOnce
<1>1. ASSUME SwarmInv, [Next]_vars
      PROVE  [\A n \in SCCs : task'[n] = "queued"
                 => task[n] \in {"idle", "queued"}]_vars
  <2> SUFFICES ASSUME Next, NEW m \in SCCs, task'[m] = "queued"
               PROVE  task[m] \in {"idle", "queued"}
    BY <1>1
  <2> USE <1>1 DEF SwarmInv, TypeOK
  <2>1. ASSUME NEW n \in SCCs, StartLeaf(n)
        PROVE  task[m] \in {"idle", "queued"}
    BY <2>1 DEF StartLeaf, LeavesOnce
  <2>2. ASSUME NEW n \in SCCs, Poke(n)
        PROVE  task[m] \in {"idle", "queued"}
    <3>1. SuccessorCompleted(n) => task[poke[n].pred] = "idle"
      BY <2>2 DEF Poke, SuccessorCompleted, OneHolder, Holds
    <3> QED
      BY <2>2, <3>1 DEF Poke
  <2>3. ASSUME NEW n \in SCCs,
               BeginWork(n) \/ EndWork(n) \/ CutShort(n) \/ Throw(n)
                  \/ SetResult(n) \/ StopWaking(n)
        PROVE  task[m] \in {"idle", "queued"}
    BY <2>3 DEF BeginWork, EndWork, CutShort, Throw, SetResult, StopWaking,
                MoveTask
  <2>4. ASSUME NEW n \in SCCs, NEW e \in Wakes(n), Decrement(n, e)
        PROVE  task[m] \in {"idle", "queued"}
    BY <2>4 DEF Decrement, MoveTask
  <2>5. CASE AwaitRoots \/ Join \/ Cancel
    BY <2>5 DEF AwaitRoots, Join, Cancel
  <2> QED
    BY <2>1, <2>2, <2>3, <2>4, <2>5, NextCases
<1> QED
  BY <1>1, SwarmInvariant, PTL DEF Spec, StartedOnce

(* The swarm schedules the components as the data-flow stage asks: every   *)
(* step is a step of BottomUpAnalysis or leaves its variables alone.       *)
THEOREM SwarmImplementsBottomUp == Spec => ImplementsBottomUp
<1>1. Init => BottomUp!AbstractInit
  BY DEF Init, BottomUp!AbstractInit, joined, Edges
<1>2. ASSUME SwarmInv, [Next]_vars
      PROVE  [BottomUp!AbstractNext]_BottomUp!abstractVars
  <2> USE <1>2 DEF SwarmInv
  <2>1. ASSUME NEW n \in SCCs, EndWork(n)
        PROVE  BottomUp!Analyze(n)
    <3>1. task[n] = "working" /\ n \notin analyzed
      BY <2>1 DEF EndWork, MoveTask, AnalyzedByTask
    <3>2. BottomUp!CalleesOf(n) \subseteq analyzed
      BY <3>1, StartedCallees DEF BottomUp!CalleesOf, Calls
    <3> QED
      BY <2>1, <3>1, <3>2 DEF BottomUp!Analyze, EndWork, joined
  <2>2. ASSUME Cancel PROVE BottomUp!RequestCancel
    BY <2>2 DEF Cancel, BottomUp!RequestCancel, joined
  <2>3. ASSUME Join PROVE BottomUp!ReleaseCaller
    <3>1. ~canceled => analyzed = SCCs
      BY <2>3, RootsCover DEF Join, AnalyzedByTask, TypeOK
    <3> QED
      BY <2>3, <3>1 DEF Join, BottomUp!ReleaseCaller, joined, SCCs
  <2>4. ASSUME AwaitRoots PROVE UNCHANGED BottomUp!abstractVars
    BY <2>4 DEF AwaitRoots, BottomUp!abstractVars, joined
  <2>5. ASSUME UNCHANGED <<edges, analyzed, canceled, main>>
        PROVE  UNCHANGED BottomUp!abstractVars
    BY <2>5 DEF BottomUp!abstractVars, joined
  <2> QED
    BY <2>1, <2>2, <2>3, <2>4, <2>5, NextCases
       DEF vars, StartLeaf, BeginWork, CutShort, Throw, SetResult, Decrement,
           Poke, StopWaking, BottomUp!AbstractNext, SCCs
<1> QED
  BY <1>1, <1>2, SwarmInvariant, PTL
     DEF Spec, ImplementsBottomUp, BottomUp!AbstractSpec

===============================================================================
