# A verification project for Reko

Reko is a decompiler: it loads a binary image, finds the procedures and basic
blocks in it, rewrites machine instructions to an intermediate representation,
analyses the data flow of each procedure after that of the procedures it calls,
infers types, structures the control flow and writes C-like source.  This
directory holds TLA+ models of the parts of Reko in which the order of events
decides what comes out, the TLC configurations that check them, and proofs that
the TLA+ proof system checks.

`PROJECT.json` lists the components, the runs, for each definition the lines of
code it stands for, the mutations that show a property has teeth, the findings,
the hazards and the theorems.

## 1. Inventory

Paths are relative to `src/src`.  "Worker" below is a word the code uses for
three different things: a component of the swarm, a procedure worker of the
scanner, and the message-queue worker.

| part | where | state | operations | interacts with |
|---|---|---|---|---|
| Phase pipeline | `Decompiler/Decompiler.cs` | project, programs | load, scan, analyse, infer, structure, write | all others, in turn; the user may cancel |
| First-generation scanner | `Decompiler/Scanning/Scanner.cs`, `BlockWorkitem.cs`, `PromoteBlockWorkItem.cs`, `BlockCloner.cs` | block ranges, procedure graphs, a priority queue per nested procedure | `ScanProcedure` (recursive), `EnqueueJumpTarget`, `SplitBlock`, promote, clone | image map, architecture, call graph |
| Recursive scanner | `Scanning/RecursiveScanner.cs`, `ProcedureWorker.cs`, `AbstractProcedureWorker.cs`, `BlockWorker.cs` | lists of procedure workers; jobs, suspended calls and waiting callers of each | start, run, suspend, resume, parse a block, handle its end | scan results, architecture |
| Scan results | `Scanning/AbstractScanner.cs`, `ScanResultsV2.cs` | blocks, their starts and ends, edges | register, steal edges, `SplitBlockEndingAt` | both new scanners |
| Shingle scanner | `Scanning/ShingleScanner.cs`, `ChunkWorker.cs` | visited addresses of each gap | scan a gap, split, remove invalid blocks | scan results |
| Procedure detection | `Scanning/ProcedureDetector.cs`, `ProcedureGraphBuilder.cs` | the graph of blocks | cluster, find entries, build | scan results |
| Sorted map of image items | `Core/Collections/ConcurrentBTreeDictionary.cs` | a B+ tree of nodes that never change, and its published root | put, remove, clear; queries by key and by index, bounds, enumeration | `ImageMap`: the scanner writes, user interfaces read |
| Strongly connected components | `Core/Graphs/SccFinder.cs` | explicit call stack of Tarjan's algorithm | `FindAll`, `Condense` | call graph, data-flow analysis |
| SCC worker swarm | `Concurrent/SccWorkerCoordinator.cs` | a counter and a completion source per component | `RunAsync`, `RunTask`, `WakenPredecessors` | thread pool, data-flow analysis, cancellation |
| Data-flow analysis | `Analysis/*.cs` | a flow and an SSA form per procedure | `Transform` of one component | flows of the callees |
| Message-queue worker | `Workers/AbstractTaskWorker.cs` | a concurrent queue and one word | `SendMessage`, `ProcessQueue` | thread pool |
| Type inference, structuring, evaluation | `Typing`, `Structure`, `Evaluation` | expression trees, equivalence classes, regions | sequential rewriting | IR |
| Loaders, architectures, environments, user interfaces, libraries | `ImageLoaders`, `Arch`, `Environments`, `Gui`, `Drivers`, ... | | parsing, tables, I/O | |

Four kinds of behaviour are hard here, and the models are about these:

* **Threads.** The swarm runs analyses of components in parallel on the pool,
  with a counter per component that several tasks decrement; a cancellation or
  an exception may come at any time.  The message-queue worker hands its queue
  from senders to tasks with one compare-and-swap word.
* **Suspended work.** The recursive scanner has one thread, but many workers: a
  worker that meets a call waits until the callee is known to return.  What it
  remembers of the call may be stale when it is resumed, and every wake-up must
  find it listed.
* **Nested work.** The first-generation scanner follows calls depth first: a
  block is in the middle of being parsed while whole procedures are scanned,
  which may split that block, cut it short, or move it to another procedure.
* **Order of discovery.** Jumps into the middle of known blocks come in any
  order; each order must leave the same disjoint blocks with the same ends and
  edges, although blocks are split several times and instructions may overlap.

What makes each part correct, in one line: the swarm analyses callees first,
starts each component once and lets its caller go on; the queue strands no
message and no sender spins for ever; `FindAll` gives exactly the components,
callees first; the scanner's blocks partition the code it read, with the edges
the instructions ask for; no suspended caller is lost; every procedure is
entered at a block of its own, and no block has two owners; a query of the map
answers for one moment; everything ends.

### Which scanner runs

`Decompiler.CreateScanner` (`Decompiler/Decompiler.cs:684-699`) makes a
`Scanner2`, which runs the recursive scanner, the shingle scanner and procedure
detection in turn, if the build defines `NEW_SCANNER`, and the first-generation
`Scanner` if not; no project file in the repository defines it, so the
first-generation scanner is the one that runs.  The recursive scanner is its
successor, driven by the repository's `RecursiveScannerTests`.  Both are
modelled, each by itself: they share no code.

### Who uses the threads

`DataFlowAnalysis.UntangleProcedures` calls the sequential
`RewriteProceduresToSsa` (`Analysis/DataFlowAnalysis.cs:142`), which visits the
components in the order `SccFinder.Condense` gives them.  The swarm is behind
its sibling `RewriteProceduresToSsa_Concurrent` (`DataFlowAnalysis.cs:210`),
which nothing in the repository calls yet; the model of the swarm is about that
method and `SccWorkerCoordinator`.

`AbstractTaskWorker` has no subclass in the repository: its contract is modelled
from the class itself.

### A note on lines

Reko is written in C#.  Nearly all of the repository's C files are the recorded
output of the decompiler (`src/subjects`), so a count of C lines says nothing
about these models; `PROJECT.json` maps each definition to lines of C#.

## 2. Modules

| module | what it is | code |
|---|---|---|
| `BottomUpAnalysis` | what the data-flow stage asks of a scheduler: callees first, each once, the caller released when all is done or cancelled | callers of `RunAsync` |
| `SccWorkerCoordinator` | the swarm, one action per access to shared state | `SccWorkerCoordinator.cs`, `DataFlowAnalysis.RewriteProceduresToSsa_Concurrent` |
| `SccWorkerCoordinator_proofs` | theorems about the swarm | |
| `SccOrder` | what callers of `FindAll` rely on: components one by one, each after all it reaches | |
| `SccFinder` | `FindAll` with its explicit stack, one action per turn of the loop, and `Condense` as an operator | `SccFinder.cs` |
| `SccFinder_proofs` | theorems about the components | |
| `AbstractTaskWorker` | senders and tasks, one action per access to the queue or the word | `AbstractTaskWorker.cs` |
| `AbstractTaskWorker_proofs` | theorems about the queue | |
| `AbstractScanner` | what scanners share: blocks, ends, edges, the splitting loop | `AbstractScanner.cs` |
| `AbstractScanner_proofs` | lemmas about chains of instructions, blocks, edges and one turn of the splitting loop | |
| `RecursiveScanner` | the recursive scanner and its workers; extends `AbstractScanner` | `RecursiveScanner.cs`, `ProcedureWorker.cs`, `AbstractProcedureWorker.cs`, `BlockWorker.cs` |
| `MCRecursiveScanner` | entry points for the runs | |
| `RecursiveScanner_proofs` | theorems about the scanner's workers | |
| `RecursiveScanner_blocks_proofs` | theorems about what it finds, whatever the image holds, and about its blocks if no two instructions overlap | |
| `Scanner` | the first-generation scanner, one action per work item taken, instruction read or nested scan ended | `Scanner.cs`, `BlockWorkitem.cs`, `PromoteBlockWorkItem.cs`, `ProcedureWorkItem.cs`, `BlockCloner.cs` |
| `Scanner_graph_proofs` | lemmas about what its operations do to blocks, edges and procedures | |
| `Scanner_proofs` | theorems about its block ranges and its graph | |
| `SortedMap` | what users of the tree rely on: queries that answer for one moment | callers of `ImageMap.Items` |
| `ConcurrentBTreeDictionary` | the tree, one writer and one reader | `ConcurrentBTreeDictionary.cs` |
| `MCBTree` | entries for the run | |

`SccFinder` refines `SccOrder`, and its `CondensationDescends` is the assumption
under which `BottomUpAnalysis` numbers components (an edge leads to a lower
number).  `SccWorkerCoordinator` refines `BottomUpAnalysis`, and
`ConcurrentBTreeDictionary` refines `SortedMap`.

### SccWorkerCoordinator

`edges` is the condensed graph with parallel edges kept (`DiGraph.AddEdge` does
not merge them); `successorsLeft` is the field of that name; `task[n]` says
where `RunTask(n)` is: queued on the pool, in its work action, before
`SetResult`, in the loop of `WakenPredecessors`, or between the decrement of a
counter and the test of its result (`poke`).  `Cancel` is the user, `Throw` an
exception that `SccWorker.Transform` does not guard.

### AbstractTaskWorker

`sender[m]` and `task[m]` are program counters of the thread that sends `m` and
of the task it may start.  `TryFinishing` is three actions, since the word and
the queue are read separately.  The model is of the release build: the class's
`Debug.Assert`s are left out.

### SccFinder

A frame of `callstack` holds what the tuple in the code holds: the node, whether
its enumerator exists, the successors still to come, the one it stands on, and
the number.  An enumerator may give its successors in any order, so the result
does not rest on one.

### AbstractScanner and RecursiveScanner

The image is a row of addresses.  What an address decodes to is chosen when it
is first read and kept in `code`; so TLC explores every program of the given
length, and only as much of each as the scanner reads.  The kinds of
instructions are those the scanner tells apart (`AllOps`); an instruction that
does not transfer control may be longer than one address, so instructions can
overlap.  A block is the sequence of its instructions' addresses.

`blockStarts`, `blockEnds`, `blocks` and `succs` are the dictionaries of
`AbstractScanner` and `ScanResultsV2`.  `split` is the local queue of
`SplitBlockEndingAt` and the address of the block the method was called with.
`workers[w]` is a `ProcedureWorker` with its work list (`jobs`), suspended calls
(`calls`) and waiting callers (`callers`); `wl`, `active` and `suspended` are the
lists of `RecursiveScanner`; `current` is the block being parsed, `resuming` the
loop of `ProcessReturn`.  One action is one job taken or dropped, one
instruction read, one block end handled, one caller resumed, or one turn of the
splitting loop.

Abstracted: processor state, the names and signatures of procedures, delay slots
(they lengthen a transfer), sub-instruction branches and switch tables (more
edges of the kind a branch has), `ExternalProcedure` calls to addresses outside
the image (`resume`: taken to return), trampolines (like a return).
`ReturnStatus.Diverges` is never set by this code, so it does not occur.

### Scanner

The image is chosen as it is read, as in `RecursiveScanner`.  `program` holds
the procedures and every `Block` ever made; a block's index is its identity, so
a reference that a work item keeps stays a reference when the block is split or
moved.  `ranges` is the field `blocks` of the code: start address to block and
end.  `frames` is the call stack of `ScanProcedure`: each call makes a queue of
its own and drains it before it returns.  A frame remembers the queue, the block
and the address of the `BlockWorkitem` in progress and, while a callee is
scanned, the callee.

Work items are `StartSymbol`, `StartProcedure`, `StartPromotion` and
`StartBlock`; `ReadInstruction` is one turn of the loop of
`BlockWorkitem.Process` with its visitor (`Linear`, `Stop`, `Goto`, `Branch`,
`Call`) and what follows it (`GoOn`: fallen into another procedure, into another
block, or on); `CallScanned` is the rest of `VisitCall` after the nested scan.
`EnqueueJumpTarget` returns the graph, the ranges, the block to jump to and the
work items: for an address where no block starts it makes or splits a block and
scans it, clones it or has it promoted (`JumpToNewBlock`); for a block of
another procedure it promotes, calls through a thunk or clones
(`JumpToForeignBlock`).  `Promote` is `PromoteBlockWorkItem.Process` with the
repair of exit, inbound and outbound edges.  A clone copies the chain of first
successors, as `BlockCloner` does.

Abstracted: processor state, delay slots, imports, trampolines, intercepted
calls, alloca, indirect jumps and calls, `RtlIf` and the blocks it synthesises,
global data, the test of names in `FindContainingBlock`.  Items of the same
priority come in any order.  An exception in a work item is caught by
`ProcessQueue`; the one that can occur here (`AddBlock` behind the end of the
segment) gives the item up at that point.

### ConcurrentBTreeDictionary

`root` is the published tree, as nested records.  One writer (the scanner's
thread) changes it through `EnsureRoot`, `PutEntry`, `RemoveKey` and `Clear`, and
one reader asks.  A write is two actions if there was no root, since the empty
leaf is published first.  A query looks at `root` twice (`CheckRoot`, then
`Search` or `Enumerate`), but for the four that take a snapshot; the enumerator
then yields one leaf at a time, with writes in between.  `Throw` is the second
look finding nothing.  The refinement maps an enumeration to one query at the
moment it takes the root, by what it has yielded and what its stack has still to
give.  `Array.BinarySearch` is external.

## 3. Runs

| run | instance | states | shows |
|---|---|---|---|
| `scc_swarm` | all graphs of 3 components, up to 2 parallel edges | 71 363 | callees first, no lost wake-up, one start, the roots suffice, refinement, and the join if nobody cancels and no analysis throws |
| `scc_swarm_cancel` | 3 components | | finding 1 |
| `task_worker` | 4 senders | | a spinning sender waits for somebody; Idle hides no message; a message is never in two places, though two tasks may serve the queue; a send returns |
| `task_worker_lost` | 2 senders | | finding 2 |
| `scc_finder` | all graphs of 4 nodes with at most one loop | | `FindAll` and `Condense` |
| `scanner` | all programs of 4 addresses, instructions of 1 or 2, entry points 1, 2, 4 | 695 550 | blocks, ends, edges, worker lists, termination |
| `scanner_overlap`, `scanner_split_caller`, `scanner_tail_jump` | the same with fewer kinds of instructions | | findings 3 to 5 |
| `first_scanner` | all programs of 4 addresses, eight kinds of instructions of 1 or 2, one symbol, a user who may cancel | 668 656 | ranges, owners and entries of procedures, nothing lost, all read, edges, termination |
| `first_scanner_split` | the same with fewer kinds of instructions | | finding 6 |
| `btree` | 5 keys, capacities 3 and 2, one write during an enumeration | 138 902 | counts, capacities and searches agree; every query answers for one moment |

**Why the bounds are enough.** Three components give a chain, a fork, a join and
a component with two callees, one of them reached twice; two tasks can meet at
a counter, which is where the swarm's races are, and the theorems say the rest
for every graph.  Four senders give two tasks in `TryFinishing` while a third is
started and a fourth spins.  Four nodes give nested cycles and a cross edge into
a finished component; a node's own loop is only looked at once per node, so one
node with a loop shows what loops do.  Four addresses and three entry points
give: a block split twice, a split whose rest has to be split from a third
block, overlapping blocks with a shared tail, recursion, mutual recursion, a
caller suspended by two calls, and a procedure entered by a call and as a seed.
The invariants of `scanner` were also checked once over five addresses with
fewer kinds of instructions (5.1 million states), without an error; that run is
too long to be kept.


For `first_scanner`, four addresses and one symbol give nested scans, a callee
that splits or promotes its caller's block, mutual calls and jumps between
procedures, clones, thunks and a promotion under a work item; other procedures
come from calls, so one symbol is enough to have several.  It was also checked
once with two symbols and six kinds of instructions (1.4 million states).  For
`btree`, an internal node of three children and leaves of two entries split at
the fifth key, so the tree has three levels; the capacities in the code (16 and
15) differ by one in the same way, and the split of an odd and of an even number
both occur.  `MaxWrites` bounds only the writes during one enumeration.  The
tree's own invariant was also checked once with six keys.

**Deadlock** is checked in `btree` only: every one of the other systems stops when
it is done.

**Fairness.** `SccWorkerCoordinator`: weak fairness of the thread that runs
`RunAsync` and of each task, because the pool runs every queued task and the
analysis of a component terminates; none of `Cancel` or `Throw`.
`AbstractTaskWorker`: weak fairness of each sender once it has enqueued and of
each task, for the same reason; none of sending or of throwing.  `SccFinder` and
`RecursiveScanner` are sequential code: weak fairness of the next step.  So is
`Scanner`: its fairness says that the thread takes steps for as long as it is
scanning, and asks nothing of `Cancel`.  The map has no liveness.

## 4. Findings

1. `scc_swarm_cancel`: `WakenPredecessors` returns when the user has cancelled,
   so the roots are never completed and the thread in `RunAsync().Wait()`
   waits for ever.  An exception in a work action has the same effect
   (`SccWorkerCoordinator.cs:150`: nothing sets an exception on the source).
2. `task_worker_lost`: a message that arrives while a task is finishing stays in
   the queue.  `TryFinishing` returns true when it has gone Idle, on which the
   loop of `ProcessQueue` goes round again, and false when a message has arrived,
   on which it ends: the two results are the wrong way round.  For the same
   reason a task never ends once the queue is empty but spins, and two tasks may
   serve the queue at once.
3. `scanner_overlap`: when two overlapping blocks share a tail, the end of the
   tail goes on leading to one of the chopped blocks, because the arguments of
   `blockEnds.TryUpdate` are in the wrong order (`AbstractScanner.cs:505-506`).
   A third block that ends there is then compared with a block that does not.
4. `scanner_split_caller`: a suspended call is known by the start of its block;
   if the block is split meanwhile, the edge behind the call leaves the wrong
   part.
5. `scanner_tail_jump`: a procedure that jumps to code which another worker has
   claimed is never marked as returning, and what follows its calls is not
   scanned by this scanner.
6. `first_scanner_split`: `SplitBlock` adds the edge to the second half only if
   the block has a statement at or behind the split.  Instructions that leave no
   statement are not counted, so with `1: op; 2: nop; 3: goto 2` the first half is
   left without a successor.

Without a run, in the recursive scanner:

* A block cut at a padding boundary is never registered under its end
  (`BlockWorker.cs:189-204`), so a later jump into it yields a second block with
  the same instructions.  `BlocksDisjoint`, `EndsAreBlockEnds` and `EdgesKept`
  are therefore stated for code without padding (`Plain`).  They are also stated
  for code without overlapping instructions: with them blocks overlap by nature,
  and what holds is `NothingLost`.
* A block that runs through two others is cut twice, and its front part keeps
  the edge it was given by the first cut (`AbstractScanner.cs:520`).

In the first-generation scanner:

* `FixInboundEdges` replaces an edge into a moved block by a call of the
  procedure the block has moved to, although the block need not be its entry.
  With `1: branch 3; 2: op; 3: call 2` the promotion of block 2 takes block 3
  along, and the branch to 3 becomes a call of 2.  The remarks on
  `CreateCallRetThunk` speak of a jump to the procedure.  Where the predecessor
  has no statements, the call and the return go into it and its edge to the moved
  block stays; such a block can later be cloned, with what that edge leads to.
  `EdgesFollowCode` is therefore stated for images with one procedure.
* A jump into the middle of an instruction that is the last of its block is
  dropped, since the block has statements and passes for scanned
  (`1: op` of length 2, `3: op`, `4: goto 2`); hence the condition `Aligned`.
* A conditional branch at the end of a segment loses both edges: `AddBlock`
  throws for the address behind it.
* `ReplaceSuccessorsWith` replaces every edge to a block but adds one
  predecessor.
* When the user cancels, procedures may be left without an entered block.

In the map: the docs of `TryGetLowerBound` and `TryGetUpperBound` are swapped;
`ValueCollection.CopyTo` writes every value to the same place; `version` is
counted and never read, so a mutated map does not stop its enumerators, and the
test of that name makes a `BTreeDictionary`; a query throws a
`NullReferenceException` if `Clear` comes between its two looks at `root`; and
`ImageMap.AddItemWithSize` removes an item before it adds the new one, between
which a reader finds neither.

## 5. Proofs

| theorem | says, for all constants |
|---|---|
| `SwarmInvariant` | the inductive invariant of the swarm |
| `TypeCorrect` (swarm) | types; no counter goes below zero |
| `CalleesAnalyzedFirst`, `WakeupNotLost`, `RootsSuffice`, `NoSecondStart` | the properties of `scc_swarm` of those kinds |
| `SwarmImplementsBottomUp` | `SccWorkerCoordinator` refines `BottomUpAnalysis` |
| `TypeCorrect` (queue) | types; a task has a message in hand exactly while it processes one, and no message is in two places, however many tasks serve the queue |
| `NothingIsStranded` | `IdleStrandsNothing` of `task_worker`, for any number of senders |
| `SpinIsForSomebody` | while the word says Finishing, some task is in `TryFinishing` |
| `FindAllInvariant` | the inductive invariant of Tarjan's algorithm on an explicit call stack |
| `TypeCorrect` (components) | types; no node is on the stack twice |
| `MarksAreSafe`, `NoNodeForgotten`, `CalleesAreNumberedFirst` | `LowMarksFound`, `AllFound` and `CondensationDescends` of `scc_finder`, for every graph, loops included, and every order of the successors |
| `ScannerInvariant` | the inductive invariant of the scanner's workers and parser |
| `WorkersListed`, `CallsNoted` | `NoWorkerLost` and `CallsMatchCallers` of `scanner`, for every image, set of instructions and list of entry points |
| `WorkerExpected` | `ResumeWorker` never throws "Expected active worker!" (`RecursiveScanner.cs:330-337`) |
| `ShapeInvariant` | the inductive invariant of blocks, ends, edges, the parser and the splitting loop |
| `TypesCorrect` | `TypeOK` of `scanner`, for every image |
| `InstructionsStay` | `NothingLost`: no step takes an instruction out of the blocks, overlapping or not |
| `EdgesLeadToBlocks`, `ReturnsAreReached` | `EdgesArrive` and `ReturnsReached`, for every image |
| `RegisteredInvariant`, `PlainInvariant`, `EdgesInvariant` | the inductive invariants for aligned and for plain code |
| `NothingIsThrown` | `NothingThrown`: in aligned code the splitting loop finds what it asks for |
| `BlocksAreDisjoint`, `EndsLeadToBlocks`, `EdgesAreKept` | `BlocksDisjoint`, `EndsAreBlockEnds` and `EdgesKept`, for every plain program |
| `RangesInvariant` | the inductive invariant of the first-generation scanner's block ranges, frames and work items |
| `RangesStayDisjoint` | `RangesDisjoint` of `first_scanner`, for every image, instruction length and set of symbols |
| `GraphInvariant` | the inductive invariant of its blocks, edges and procedures, and of the work that is left |
| `BlocksStayOwned`, `OwnersStayEntered` | `BlocksOwned` and `OwnersEntered` of `first_scanner`, in the same generality |
| `SaidInvariant` | the inductive invariant of the statements of what has been read |
| `ProceduresStayEntered`, `NothingIsLost` | `ProceduresEntered` and `NothingLost` of `first_scanner`: what a complete scan leaves |
| `OneInvariant` | the inductive invariant of an image in which one procedure is found |
| `StatementsStayInRange` | `StatementsInRange` of `first_scanner`, for every image, overlapping instructions included |

**The swarm.** None of the properties is inductive.  `SwarmInv` says: a counter
is the number of its edges that are still to be signalled (`CountersAgree`);
leaves are started by `RunAsync` only (`LeavesOnce`); an edge is signalled by
its callee's task, after the analysis (`SignalledLate`); a component with
callees is started when all of them have signalled, or one task is about to
(`StartedWhenReady`); the zero of a counter is seen by one task (`OneHolder`);
a task past its work action has analysed its component unless the user cancelled
(`AnalyzedByTask`).  `CountersAgree` is what turns an atomic decrement into
knowledge about the graph: a task that reads zero knows that no edge is pending,
and `OneHolder` that nobody else read it.  That the roots suffice needs an
argument about the graph: among the components that are not analysed the one
with the highest number is a root or has a caller above it that is published,
and a published caller has published callees (`RootsCover`).  Finite sets and
cardinalities come from the library's `FiniteSetTheorems`.

**The queue.** `TypeOK` needs one fact more: a message whose sender has yet to
enqueue it is nowhere (`Unsent`), so that enqueuing it does not make it two.
`FinishingIsOwned` is inductive given the types.
`IdleStrandsNothing` is not: it is content with any task that has not ended, and
such a task may be on its way out.  `IdleIsServed` asks for a task in the loop of
`ProcessQueue`, which leaves it only through an empty queue or by an exception.

**The components.** The invariant is stated of the nodes found, the stack, the
low-links and the call stack as four values (`Sound`), because a turn of the
inner loop is proved in two halves with a state in between that the program
never stops in: `EnterSound` or `AbsorbSound`, and then `DescendSound`,
`RetreatSound` or `EmitSound`.  The nodes of the frames lie on the stack in the
same order, with growing numbers (`OnPath`), and what lies below the node of a
frame has a lower low-link than its number (`Below`).  The heart is `EdgesDown`:
an edge from at or above the node of a frame to below it is known to that frame
or to one above it, by its own low-link or by that of the successor its
enumerator stands on, which it takes over only when it is back on top.  So a node
whose low-link is still its number has no such edge, and its component is closed
but for what was found before.  `Explored` says that no successor is skipped, and
`Bottom` that the first frame leaves an empty stack.  That every component is
strongly connected is checked by TLC only (`ImplementsSccOrder`): paths are
defined by recursion over the nodes.  TLC checked the invariant over all graphs
of three nodes before it was proved.

**The scanner's workers.** `NoWorkerLost` and `CallsMatchCallers` are not
inductive by themselves.  Two facts are missing.  The first is that a suspended
call has exactly one note (`NotedOnce`): a resumed call is taken out of the map,
and a second note for it would be left without a call.  It holds because a call
is known by the start of the block being parsed, which belongs to no suspended
call (`CurrentIsNew`): a block is parsed once.  The second is about several
workers of one procedure.  `TryStartProcedureWorker` makes a new worker when the
old one has retired, whose notes are still in its list; if the new worker
reported a return, those notes would be left with a procedure that is known to
return.  It never does (`FirstComes`): when the first worker retires, the entry
of the procedure is claimed, so the only job of the new one is dropped, and a
worker that is idle in this sense has no call that could give it another.  The
rest is bookkeeping: `Listed`, and the types of the parser and the lists
(`ParserTypes`, `ListTypes`), which need that an instruction ends inside the
image.  Actions are grouped by what they do to the workers: those that change
the jobs of the running worker at most (`JobStep`, which includes all of parsing
and splitting), those that make a worker (`Hired`), those that suspend a call
(`Suspends`) and those that resume one (`Resumes`).  The invariant was first
checked by TLC over the programs of the run `scanner`.

**What the scanner finds.** With these theorems every property of the run
`scanner` but `Terminates` is proved for every image, whatever its size and
however its instructions overlap where the property allows that.  There are
three layers.

*Whatever the image holds* (`ShapeInv`).  A block is a chain: each instruction
is the one behind the instruction before it.  A valid block ends in a transfer of
control, or falls into a place where a block starts, or is cut by a boundary
(`BlocksFit`); an end leads to a valid block (`EndsFit`); the parser has followed
such a chain and the splitting loop works on parts of one (`CurrentFits`,
`SplitFits`); what a worker remembers of its callers are valid blocks
(`CallersFit`), which is why an edge behind a call leaves a block.  `NothingLost`
follows: a chain that starts at a valid block is covered by valid blocks, since
where one of them ends another begins (`SpanCovered`); a step forgets neither
starts nor code, so a chain that was a block stays covered.  For this no valid
block may ever fall into an invalid one: invalid blocks start where control runs
into something that is no instruction, and no address from which that happens is
in a valid block (`Doomed`, `NotDoomed`).  What a turn of the splitting loop
leaves of two blocks with one end is read off their lists from behind
(`SharedIs`, `ChopIs`, `RestIs`).  Edges are registered
before the block they lead to is parsed, and `ArriveInv` says what stands in for
the block: a job for the address, in the list of some worker.  A return is
reported at the end of a block, by a worker whose job may come from a resumed
call; `ReachInv` says that jobs, notes and the parser stay where control gets to
from the entry of the worker's procedure, where a call is passed only if a block
is behind it.

*Aligned code* (`Registered`, under `Aligned`, which is the hypothesis of the
properties; what is read later can only break it, since `code` grows).  The
properties of blocks are not inductive, since in the loop two blocks do share
addresses.  The invariant speaks of the blocks in `blockEnds` (`Reg`): they are
registered under their own ends, disjoint, and fall into one another.  The block
in the parser, or the one the loop was called for (`outer`), is not among them;
and the queue holds exactly that block with its end.  So one turn of the loop
compares two chains with one end, of which one is closed under falling through;
where one starts inside the other there is a shared tail (`Shared` is not empty,
hence `NothingThrown`), the longer one is chopped where the shorter one starts,
and what is left ends in an instruction that no registered block contains
(`ChainOutside`), or in the end of exactly one, which is the next turn.

*Plain code*, without padding: every valid block is registered, or it is the one
that the parser or the loop has in hand (`PlainInv`).  This is false with
padding, which is the remark on `BlockWorker.cs:189` in section 4.  With
`Registered` it gives `BlocksDisjoint` and `EndsAreBlockEnds`.  `EdgesInv` says
of the edges that a block nobody has in hand has all that its last instruction
asks for, and that a block in hand whose edges were registered has them too: a
split moves the edges to the part that keeps the end.

TLC checked `Registered`, `PlainInv` and `EdgesInv` over the programs of the run
`scanner` before they were proved.

**The block ranges.** `SanityCheck`, which would look for overlapping ranges, is
commented out because it is slow (`Scanner.cs:878-880`).  `RangesDisjoint` says
what it checks.  The code finds the range of an address by the greatest start
that is not above it, and the end of a new one by the least start above it, so
the proof rests on two facts about `Max` and `Min` of sets of addresses, and on
one lemma for each thing done to ranges: added up to the next start, terminated
(which may also stretch the range up to a gap that follows it), split, and taken
out.  `JumpKeeps` puts these together for `EnqueueJumpTarget`, whatever the graph
does.  What is missing for induction is that the addresses come from the
image: of instructions that were read (`CodeRead`) and of everything a frame or a
work item remembers (`IsStack`), through any depth of nesting.

**The graph of the first-generation scanner.** A promotion moves a block and all
that only it leads to from one procedure to another, and `BlocksOwned` and
`OwnersEntered` say what may go wrong: a block that two procedures list, or that
the old one still lists; and a procedure without a first block, whose
`EntryBlock.Succ[0]` `PromoteBlockWorkItem` reads without asking.  Neither is
inductive.  `GraphInv` adds:

- blocks and procedures name one another, and a block with the role of an entry
  or an exit is that of its procedure (`BlocksFit`, `ProcsFit`), so that a walk
  over edges which skips entries and exits never moves one;
- edges join blocks that exist; none leads to an entry or comes from an exit, and
  an entry that some edge names as its source still leads somewhere.  The repair
  of inbound edges takes such an edge out and adds another, and this is what
  says that it never leaves an entry with none;
- the block of a range is code, starts there and is listed (`RangesFit`), which
  relates the graph to the ranges that it is searched by;
- every frame and work item names blocks and procedures that are there.  A
  promotion goes to a procedure that is entered, or that an item of the same
  queue will enter before it: the queue takes procedures first (`FramesFit`,
  `ItemsFit`);
- a procedure that was scanned once is entered (`VisitedFit`), since a second
  scan of it returns at once.

`EnsureProcedure` makes a procedure before the edge from its entry is added.
`Well` therefore has a parameter, the procedures for which this is still to be
done: one between the halves of `ScanProcedure` and of `JumpToForeignBlock`, and
none in any state the program stops in.  What an operation leaves alone is stated
once for all of them: blocks keep their role and address and entered procedures
stay entered (`Grows`), listed blocks stay listed (`Lists`), so whatever fits the
ranges, frames and items is carried over by one lemma each (`RangesStay`,
`FramesGrow`).

Walks over edges (`FixInboundEdges`, the repair of outbound and exit edges, the
moves of `Promote`) are folds, and the library defines a fold by a `CHOOSE` over
functions of index sets, of which nothing is known until one exists.
`IterationExists` shows that by well-founded recursion over finite sets, and
`FoldKeeps` says that what every step keeps is kept by the fold.  Both are
stated for sets of values rather than for predicates, as no prover here
instantiates an operator.

**What a complete scan leaves.** `ProceduresEntered` and `NothingLost` say
something of the last state only: in between procedures are made that nothing
enters yet, and blocks are in no procedure at all, since `EnqueueJumpTarget`
takes a block that it has split off another procedure out of `blocks` and out of
that procedure, and leaves two work items that are to undo this.  Neither
property follows from what the graph is, only from that together with what is
queued, at any depth of nesting.  The last conjunct of `GraphInv` says it
(`Promised`), of all items of all frames (`Pending`):

- a procedure that is not entered waits to be scanned; one that is, is entered at
  the block of its own range, which belongs to it or waits to be promoted to it
  (`AtHome`);
- a block of code is listed, or waits to be promoted to another procedure than
  the one it names (`Unlost`).

An item that starts leaves the queue, so each kind has to make good what it was
queued for.  The promotion is the one that may not: its search stops at blocks
of the target, at exits and at the block by which a procedure is entered.
`PromotePromises` shows that then the block was settled already, or is promised
to somebody else, and that what the search moves besides the block breaks no
promise to others.  A scan first cuts whatever block runs over the address of its
procedure, so that the jump there has nothing to split: it makes a block of that
procedure, or finds one that starts there and has it promoted (`CutThere`,
`HomePromises`).  When the user cancels the queues are dropped, and the conjunct
asks nothing.

`SaidInv` follows statements instead of blocks: for each instruction that was
read and leaves one there is one in some block of code.  A split leaves it in one
of two blocks, promotion moves no statements, `RemoveRedundantGotos` takes out
gotos only, and no block of code is ever forgotten (`Grows`).  A call is the
exception: `VisitCall` scans the callee before it emits, so until then a frame
has to remember it (`Waiting`).  At the end no frame is left and, by `Promised`,
every block of code is in a procedure.

**While there is one procedure.** `StatementsInRange` says where the statements
are at the end of a scan, and fails in between: a jump into the block it is in
cuts that block in front of itself, and its goto is then emitted into the first
half, behind the end of the range.  What holds all the time is that the
statements of a block are in order, none is below the range, and only the last
one may be beyond it, if it is a goto (`Tidy`); `RemoveRedundantGotos` takes just
that one out.  It is kept because the block that is read holds nothing at or
behind the address that is read next, nor behind the end of its range (`Reads`),
however it is split or cut meanwhile: the split moves the statements from an
address on, which are then a suffix, the second half's own, and below that
address there is nothing of it.  A call could spoil this, since it scans a
procedure while its own block is half read, and the scan may cut that block.  It
does not while there is one procedure, and that takes the rest of `OneInv`: once
there is a range the procedure has been visited, and what has been visited has a
range of its own, so the callee is neither scanned again nor cut in two; only the
frame on top is in a block; and nothing waits to be promoted.  `OneInv` is
stated under `OnlyOne`, and procedures only come, so that a step into a state with
one procedure starts in such a state, or in one that has none.

What a split does to statements is the lemma that all of this needs
(`SplitTidy`).  `MoveStatements` is two folds that append what they let through,
and `StmsPicked` says of the library's fold what it has collected at any time: a
part of the statements, in their order (`Part`).

TLC checked `GraphInv`, with `Promised`, `SaidInv` and `OneInv` over all programs
of the run `first_scanner`, and `OneInv` over longer segments as well.

**Assumptions** are those named in the modules: numbers of components, edges and
nodes are natural numbers, `None` is not a message, entry points are addresses
of the image, instructions have a length of at least one.

**Only model-checked**: liveness (`JoinHappens`, `SendReturns`, `Returns`,
`Terminates`), which needs fairness and is out of the prover's reach;
`ImplementsSccOrder`, which speaks of paths; of `Scanner` its types (`TypeOK`
bounds the addresses of thunks, which are made where a statement is, so it takes
facts about the order of statements when there are many procedures, and that no
two frames stand in one block), `EverythingReached`, which needs of each block
that it was read to its end, and `EdgesFollowCode`, which needs that and which
edges a split moves; all of `ConcurrentBTreeDictionary`, whose operators are
recursive.

## 6. Plan

Next, in this order:

1. `ShingleScanner` and `ChunkWorker`: `TryMarkVisited`, `SplitExistingBlock`,
   `RemoveInvalidBlocks`, composed with `AbstractScanner` after a recursive scan.
2. `Decompiler`: the phases, a cancellation between them, and exceptions that
   one procedure's analysis throws.
3. `ImageMap` over `SortedMap`: items that are split and merged while the user
   interface reads.
4. `ProcedureDetector`: clusters of the block graph as a pure algorithm.

Theorems still worth proving: `EverythingReached` of `Scanner`, which builds on
`GraphInv`, and for one procedure `EdgesFollowCode`, which builds on `OneInv`.

Not planned: decoders, loaders, calling conventions and user interfaces, which
are tables and I/O; SSA construction, value propagation and type inference,
whose state is the expression trees of the program under analysis.
