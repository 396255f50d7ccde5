------------------------- MODULE SccWorkerCoordinator -------------------------
(***************************************************************************)
(* The swarm of thread-pool tasks that analyses the condensed call graph   *)
(* (src/src/Decompiler/Concurrent/SccWorkerCoordinator.cs), driven the way *)
(* DataFlowAnalysis.RewriteProceduresToSsa_Concurrent drives it.           *)
(*                                                                         *)
(* One task runs per component.  A task that finishes decrements the       *)
(* counter of every component that calls it; whoever brings a counter to   *)
(* zero starts that component's task.  The pool may delay a queued task    *)
(* for as long as it likes, and tasks interleave at every shared access.   *)
(***************************************************************************)
EXTENDS Integers, FiniteSets

CONSTANTS NumSccs, MaxParallel

ASSUME NumSccsAssumption     == NumSccs \in Nat
ASSUME MaxParallelAssumption == MaxParallel \in Nat

VARIABLES
    edges,          \* condensation.Graph
    successorsLeft, \* Worker.successorsLeft, one counter per component
    task,           \* how far the task of a component has come
    signalled,      \* edges whose callee has decremented the caller's counter
    poke,           \* the caller being woken and the value Decrement returned
    computationDone,\* components whose TaskCompletionSource has its result
    leavesToStart,  \* RunAsync: leaves whose task is not yet on the pool
    main,           \* the thread that called RunAsync().Wait()
    canceled,       \* IEventListener.IsCanceled
    analyzed        \* components whose SccWorker.Transform was not cut short

vars == <<edges, successorsLeft, task, signalled, poke, computationDone,
          leavesToStart, main, canceled, analyzed>>

joined == main = "returned"

(***************************************************************************)
(* The specification this one implements, and the graph vocabulary.        *)
(***************************************************************************)
BottomUp == INSTANCE BottomUpAnalysis WITH
    NumSccs <- NumSccs,
    MaxParallel <- MaxParallel,
    edges <- edges,
    analyzed <- analyzed,
    canceled <- canceled,
    joined <- joined

SCCs  == BottomUp!SCCs
Edges == BottomUp!Edges

CalleesOf(n) == BottomUp!CalleesOf(n)

Calls(n)  == {e \in edges : e.caller = n}   \* Graph.Successors(n)
Wakes(n)  == {e \in edges : e.callee = n}   \* Graph.Predecessors(n)
Leaves    == {n \in SCCs : Calls(n) = {}}

(* Mutant: Successors and Predecessors confused in RunAsync. *)
RootsSwapped == {n \in SCCs : Calls(n) = {}}

Roots     == {n \in SCCs : Wakes(n) = {}}
Pending(n) == Calls(n) \ signalled

-------------------------------------------------------------------------------
(* Mutant: parallel edges are counted once. *)
MakeWorkerDistinct(n) == Cardinality({e.callee : e \in Calls(n)})

(* MakeWorker: the counter starts at the number of successor edges.        *)
MakeWorker(n) == Cardinality(Calls(n))

Init ==
    /\ edges \in SUBSET Edges
    /\ successorsLeft = [n \in SCCs |-> MakeWorker(n)]
    /\ task = [n \in SCCs |-> "idle"]
    /\ signalled = {}
    /\ poke = [n \in SCCs |-> [pred |-> n, left |-> 0]]
    /\ computationDone = {}
    /\ leavesToStart = Leaves
    /\ main = "starting"
    /\ canceled = FALSE
    /\ analyzed = {}

(* RunAsync: Task.Run(() => RunTask(leaf)) for the next leaf. *)
StartLeaf(n) ==
    /\ main = "starting"
    /\ n \in leavesToStart
    /\ leavesToStart' = leavesToStart \ {n}
    /\ task' = [task EXCEPT ![n] = "queued"]
    /\ UNCHANGED <<edges, successorsLeft, signalled, poke, computationDone,
                   main, canceled, analyzed>>

(* RunAsync returns Task.WhenAll(roots); its caller starts to wait. *)
AwaitRoots ==
    /\ main = "starting"
    /\ leavesToStart = {}
    /\ main' = "awaiting"
    /\ UNCHANGED <<edges, successorsLeft, task, signalled, poke,
                   computationDone, leavesToStart, canceled, analyzed>>

(* RunAsync().Wait() returns. *)
Join ==
    /\ main = "awaiting"
    /\ Roots \subseteq computationDone
    /\ main' = "returned"
    /\ UNCHANGED <<edges, successorsLeft, task, signalled, poke,
                   computationDone, leavesToStart, canceled, analyzed>>

(* The user presses Cancel; no one ever takes the request back. *)
Cancel ==
    /\ ~canceled
    /\ canceled' = TRUE
    /\ UNCHANGED <<edges, successorsLeft, task, signalled, poke,
                   computationDone, leavesToStart, main, analyzed>>

-------------------------------------------------------------------------------
(* The steps of RunTask for component n, from one state of its task to the *)
(* next.                                                                   *)
MoveTask(n, from, to) ==
    /\ task[n] = from
    /\ task' = [task EXCEPT ![n] = to]

(* workAction begins: nothing is analysed once the user has cancelled. *)
BeginWork(n) ==
    /\ MoveTask(n, "queued", IF canceled THEN "publishing" ELSE "working")
    /\ UNCHANGED <<edges, successorsLeft, signalled, poke, computationDone,
                   leavesToStart, main, canceled, analyzed>>

(* SccWorker.Transform returns on its own account.  It also does so after   *)
(* reporting an exception of a guarded phase: the component then counts as  *)
(* analysed, with whatever flows it has.                                    *)
EndWork(n) ==
    /\ MoveTask(n, "working", "publishing")
    /\ analyzed' = analyzed \cup {n}
    /\ UNCHANGED <<edges, successorsLeft, signalled, poke, computationDone,
                   leavesToStart, main, canceled>>

(* Mutant: Transform gives up without having been asked to. *)
CutShortUnasked(n) ==
    /\ MoveTask(n, "working", "publishing")
    /\ UNCHANGED <<edges, successorsLeft, signalled, poke, computationDone,
                   leavesToStart, main, canceled, analyzed>>

(* Transform notices a cancellation between two of its phases. *)
CutShort(n) ==
    /\ canceled
    /\ MoveTask(n, "working", "publishing")
    /\ UNCHANGED <<edges, successorsLeft, signalled, poke, computationDone,
                   leavesToStart, main, canceled, analyzed>>

(* A phase of Transform that no handler guards throws: the task faults.    *)
Throw(n) ==
    /\ MoveTask(n, "working", "faulted")
    /\ UNCHANGED <<edges, successorsLeft, signalled, poke, computationDone,
                   leavesToStart, main, canceled, analyzed>>

(* Worker.SetResult *)
SetResult(n) ==
    /\ MoveTask(n, "publishing", "waking")
    /\ computationDone' = computationDone \cup {n}
    /\ UNCHANGED <<edges, successorsLeft, signalled, poke,
                   leavesToStart, main, canceled, analyzed>>

(* WakenPredecessors, one edge e of the loop, up to the atomic decrement in *)
(* SuccessorCompleted.                                                      *)
Decrement(n, e) ==
    /\ e \in Wakes(n) \ signalled
    /\ ~canceled
    /\ MoveTask(n, "waking", "poking")
    /\ signalled' = signalled \cup {e}
    /\ successorsLeft' = [successorsLeft EXCEPT ![e.caller] = @ - 1]
    /\ poke' = [poke EXCEPT ![n] =
                  [pred |-> e.caller, left |-> successorsLeft[e.caller] - 1]]
    /\ UNCHANGED <<edges, computationDone, leavesToStart, main, canceled,
                   analyzed>>

(* Mutants: an off-by-one; the value before the decrement; the shared field *)
(* read again instead of the value the decrement returned.                  *)
SuccessorCompletedEarly(n)  == poke[n].left <= 1
SuccessorCompletedOld(n)    == poke[n].left + 1 = 0
SuccessorCompletedReread(n) == successorsLeft[poke[n].pred] = 0

(* SuccessorCompleted: the test of the value the decrement returned. *)
SuccessorCompleted(n) == poke[n].left = 0

(* WakenPredecessors: start the task of the caller that became ready. *)
Poke(n) ==
    /\ task[n] = "poking"
    /\ task' = IF SuccessorCompleted(n)
               THEN [task EXCEPT ![n] = "waking", ![poke[n].pred] = "queued"]
               ELSE [task EXCEPT ![n] = "waking"]
    /\ UNCHANGED <<edges, successorsLeft, signalled, poke, computationDone,
                   leavesToStart, main, canceled, analyzed>>

(* Mutant: the loop is left after its first predecessor. *)
StopWakingFirst(n) ==
    /\ Wakes(n) = {} \/ Wakes(n) \cap signalled # {} \/ canceled
    /\ MoveTask(n, "waking", "finished")
    /\ UNCHANGED <<edges, successorsLeft, signalled, poke, computationDone,
                   leavesToStart, main, canceled, analyzed>>

(* WakenPredecessors returns: no edge is left, or the user has cancelled. *)
StopWaking(n) ==
    /\ Wakes(n) \subseteq signalled \/ canceled
    /\ MoveTask(n, "waking", "finished")
    /\ UNCHANGED <<edges, successorsLeft, signalled, poke, computationDone,
                   leavesToStart, main, canceled, analyzed>>

RunTask(n) ==
    \/ BeginWork(n)
    \/ EndWork(n)
    \/ CutShort(n)
    \/ SetResult(n)
    \/ \E e \in Wakes(n) : Decrement(n, e)
    \/ Poke(n)
    \/ StopWaking(n)

RunAsync == (\E n \in SCCs : StartLeaf(n)) \/ AwaitRoots \/ Join

Next ==
    \/ RunAsync
    \/ \E n \in SCCs : RunTask(n)
    \/ \E n \in SCCs : Throw(n)
    \/ Cancel

Spec == Init /\ [][Next]_vars

(***************************************************************************)
(* The pool runs every queued task, a running task is never suspended for  *)
(* ever, and the analysis of a component terminates; nothing obliges the   *)
(* user to cancel or the analysis to throw.                                *)
(***************************************************************************)
FairSpec == Spec /\ WF_vars(RunAsync) /\ \A n \in SCCs : WF_vars(RunTask(n))

-------------------------------------------------------------------------------
TaskStates == {"idle", "queued", "working", "publishing", "waking", "poking",
               "finished", "faulted"}

(* Types; a counter never goes below zero.                                  *)
TypeOK ==
    /\ edges \in SUBSET Edges
    /\ successorsLeft \in [SCCs -> Nat]
    /\ task \in [SCCs -> TaskStates]
    /\ signalled \in SUBSET edges
    /\ poke \in [SCCs -> [pred : SCCs, left : Nat]]
    /\ computationDone \in SUBSET SCCs
    /\ leavesToStart \in SUBSET SCCs
    /\ main \in {"starting", "awaiting", "returned"}
    /\ canceled \in BOOLEAN
    /\ analyzed \in SUBSET SCCs

(* A component is analysed only when the flows of everything it calls are   *)
(* complete, whatever the tasks interleave and whenever the user cancels:   *)
(* SccWorker.Transform reads the ProcedureFlow of every callee.             *)
CalleesFirst ==
    \A n \in SCCs : task[n] = "working" => CalleesOf(n) \subseteq analyzed

(* While the user does not cancel, a component is not lost: as soon as the  *)
(* last of its callees has been counted, its task is on the pool or the one *)
(* callee that saw zero is about to put it there.                           *)
NoLostWakeup ==
    \A n \in SCCs \ Leaves :
        Pending(n) = {} <=>
            \/ task[n] # "idle"
            \/ \E m \in SCCs : /\ task[m] = "poking"
                               /\ poke[m] = [pred |-> n, left |-> 0]

(* The caller of RunAsync waits for the roots only, but that is enough:     *)
(* when it goes on uncancelled, every component has been analysed.          *)
JoinCoversAll == joined /\ ~canceled => analyzed = SCCs

(* No component's task is put on the pool twice, even when several callees  *)
(* decrement its counter at once.                                           *)
StartedOnce ==
    [][\A n \in SCCs : task'[n] = "queued" => task[n] \in {"idle", "queued"}]_vars

(* Every behaviour of the swarm is one the abstract schedule allows.        *)
ImplementsBottomUp == BottomUp!AbstractSpec

(* If nobody cancels and no analysis throws, the waiting caller goes on.    *)
JoinHappens ==
    [](~canceled /\ \A n \in SCCs : task[n] # "faulted") => <>joined

(* "A Task which can be awaited until the swarm of workers have processed  *)
(* the whole graph": a wait that ends even if the user cancels.              *)
JoinHappensWhenCanceled ==
    [](\A n \in SCCs : task[n] # "faulted") => <>joined

===============================================================================
