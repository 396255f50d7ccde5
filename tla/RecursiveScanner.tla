--------------------------- MODULE RecursiveScanner ---------------------------
(***************************************************************************)
(* The recursive scanner (src/src/Decompiler/Scanning/RecursiveScanner.cs) *)
(* with its workers (ProcedureWorker.cs, AbstractProcedureWorker.cs,       *)
(* BlockWorker.cs).  One thread runs one procedure worker at a time; a     *)
(* worker that meets a call to a procedure it knows nothing about leaves a *)
(* note with the worker of that procedure and goes on with other jobs, or  *)
(* is suspended.                                                           *)
(*                                                                         *)
(* One action is one work item taken, one instruction read, one block end  *)
(* handled, one caller resumed, or one turn of the loop that splits blocks.*)
(***************************************************************************)
EXTENDS AbstractScanner

CONSTANTS Seeds \* entry points, in the order CollectSeeds gives them

ASSUME SeedsAssumption == Seeds \in Seq(Addresses)

VARIABLES
    seeds,      \* entry points ProcessWorkers has still to start
    workers,    \* every ProcedureWorker ever made; its index is its name
    procedures, \* sr.Procedures
    returning,  \* procedures whose ReturnStatus is Returns
    wl,         \* workers waiting to run
    active,     \* activeWorkers: procedure -> worker
    suspended,  \* suspendedWorkers: procedure -> worker
    running,    \* the worker in Run, or None
    resuming,   \* it is in the loop of ProcessReturn
    current     \* the block its BlockWorker is parsing

workerVars ==
    <<seeds, workers, procedures, returning, wl, active, suspended, running,
      resuming>>
vars == <<scanVars, workerVars, current>>

(* caller is the CallerBlockAddress of a BlockWorker. *)
Job(addr, caller) == [addr |-> addr, caller |-> caller]

(* calls is suspendedCalls, callers is callersWaitingForReturn. *)
NewWorker(proc) ==
    [proc |-> proc, jobs |-> <<Job(proc, None)>>, calls |-> <<>>,
     callers |-> <<>>]

NoBlock == [start |-> None, addr |-> None, instrs |-> <<>>, ended |-> FALSE]

Init ==
    /\ ScanInit
    /\ seeds = Seeds
    /\ workers = <<>>
    /\ procedures = {}
    /\ returning = {}
    /\ wl = <<>>
    /\ active = <<>>
    /\ suspended = <<>>
    /\ running = None
    /\ resuming = FALSE
    /\ current = NoBlock

Me == workers[running]
AtWork ==
    running # None /\ ~resuming /\ thrown = Nothing /\ split = NoSplit
Free == AtWork /\ current = NoBlock

-------------------------------------------------------------------------------
(* ProcessWorkers and MakeSeedWorker: seeds are started one after another,  *)
(* each when no worker of the one before has anything left to do.           *)
StartSeed ==
    /\ running = None
    /\ wl = <<>>
    /\ thrown = Nothing
    /\ seeds # <<>>
    /\ seeds' = Tail(seeds)
    /\ LET proc == Head(seeds)
           worker == Len(workers) + 1
           isNew == proc \notin procedures
       IN  /\ procedures' = procedures \cup {proc}
           /\ workers' = IF isNew THEN Append(workers, NewWorker(proc))
                         ELSE workers
           /\ active' = IF isNew THEN TryAdd(active, proc, worker) ELSE active
           /\ wl' = IF isNew /\ proc \notin DOMAIN active THEN <<worker>>
                    ELSE wl
    /\ UNCHANGED <<scanVars, returning, suspended, running, resuming, current>>

RunNext ==
    /\ running = None
    /\ thrown = Nothing
    /\ wl # <<>>
    /\ running' = Head(wl)
    /\ wl' = Tail(wl)
    /\ UNCHANGED <<scanVars, seeds, workers, procedures, returning, active,
                   suspended, resuming, current>>

(* Mutant: a worker with waiting calls is retired like any other. *)
CompleteRetired ==
    /\ Free
    /\ Me.jobs = <<>>
    /\ active' = Without(active, Me.proc)
    /\ running' = None
    /\ UNCHANGED <<scanVars, seeds, workers, procedures, returning, wl,
                   suspended, resuming, current>>

(* Mutant: a worker with waiting calls goes back to the work list. *)
CompleteRequeued ==
    /\ Free
    /\ Me.jobs = <<>>
    /\ active' = IF Me.calls = <<>> THEN Without(active, Me.proc) ELSE active
    /\ wl' = IF Me.calls = <<>> THEN wl ELSE Append(wl, running)
    /\ running' = None
    /\ UNCHANGED <<scanVars, seeds, workers, procedures, returning,
                   suspended, resuming, current>>

(* Run has no job left: OnWorkerCompleted and TrySuspendWorker. *)
Complete ==
    /\ Free
    /\ Me.jobs = <<>>
    /\ active' = Without(active, Me.proc)
    /\ suspended' = IF Me.calls = <<>> THEN suspended
                    ELSE TryAdd(suspended, Me.proc, running)
    /\ running' = None
    /\ UNCHANGED <<scanVars, seeds, workers, procedures, returning, wl, resuming,
                   current>>

-------------------------------------------------------------------------------
(* ProcessReturn: the procedure of the running worker returns; the callers  *)
(* that wait for that are resumed, one action each, before anything else.   *)
ProcessReturn ==
    /\ returning' = returning \cup {Me.proc}
    /\ resuming' = (Me.callers # <<>>)

(* Mutant: one caller is resumed and the others stay. *)
NextCallerOnce ==
    /\ resuming
    /\ thrown = Nothing
    /\ resuming' = FALSE

NextCaller ==
    /\ resuming
    /\ thrown = Nothing
    /\ resuming' = (Tail(Me.callers) # <<>>)

Waiter     == Head(Me.callers)
WaiterProc == workers[Waiter.worker].proc

(* UnsuspendCall and AddCallFallthroughJob, which comes first. *)
CallResumed ==
    workers' = [workers EXCEPT
        ![running].callers = Tail(@),
        ![Waiter.worker].calls = Without(@, Waiter.call),
        ![Waiter.worker].jobs = Append(@, Job(Waiter.fall, Waiter.call))]

(* Mutant: the worker is not put on the work list. *)
ResumeSuspendedUnqueued ==
    /\ NextCaller
    /\ CallResumed
    /\ WaiterProc \in DOMAIN suspended
    /\ suspended' = Without(suspended, WaiterProc)
    /\ active' = TryAdd(active, WaiterProc, Waiter.worker)
    /\ UNCHANGED <<scanVars, seeds, procedures, returning, wl, running, current>>

(* ResumeWorker, of a worker that is suspended ... *)
ResumeSuspended ==
    /\ NextCaller
    /\ CallResumed
    /\ WaiterProc \in DOMAIN suspended
    /\ suspended' = Without(suspended, WaiterProc)
    /\ active' = TryAdd(active, WaiterProc, Waiter.worker)
    /\ wl' = Append(wl, Waiter.worker)
    /\ UNCHANGED <<scanVars, seeds, procedures, returning, running, current>>

(* ... and of one that is not: it is at work or waits for its turn.         *)
ResumeActive ==
    /\ NextCaller
    /\ CallResumed
    /\ WaiterProc \notin DOMAIN suspended
    /\ thrown' = IF WaiterProc \in DOMAIN active THEN thrown
                 ELSE "Expected active worker!"
    /\ UNCHANGED <<code, blockStarts, blockEnds, blocks, succs, split, seeds,
                   procedures, returning, wl, active, suspended, running,
                   current>>

ResumeWorker == ResumeSuspended \/ ResumeActive

JobTaken == workers' = [workers EXCEPT ![running].jobs = Tail(@)]

EdgeFromCaller(job) ==
    IF job.caller = None THEN succs ELSE WithEdge(succs, job.caller, job.addr)

(* A job whose block does not exist yet. *)
TakeJob ==
    /\ Free
    /\ Me.jobs # <<>>
    /\ LET job == Head(Me.jobs)
       IN  /\ job.addr \notin blockStarts
           /\ blockStarts' = blockStarts \cup {job.addr}
           /\ succs' = EdgeFromCaller(job)
           /\ current' = [start |-> job.addr, addr |-> job.addr,
                          instrs |-> <<>>, ended |-> FALSE]
    /\ JobTaken
    /\ UNCHANGED <<code, blockEnds, blocks, split, thrown, seeds, procedures,
                   returning, wl, active, suspended, running, resuming>>

(* A job whose block exists: nothing to do. *)
DropJob ==
    /\ Free
    /\ Me.jobs # <<>>
    /\ Head(Me.jobs).addr \in blockStarts
    /\ Head(Me.jobs).caller = None
    /\ JobTaken
    /\ UNCHANGED <<scanVars, seeds, procedures, returning, wl, active,
                   suspended, running, resuming, current>>

(* Mutant: any job whose block exists is taken for a return. *)
FallIntoAnyBlock ==
    /\ Free
    /\ Me.jobs # <<>>
    /\ LET job == Head(Me.jobs)
       IN  /\ job.addr \in blockStarts
           /\ succs' = EdgeFromCaller(job)
    /\ JobTaken
    /\ ProcessReturn
    /\ UNCHANGED <<code, blockStarts, blockEnds, blocks, split, thrown, seeds,
                   procedures, wl, active, suspended, running, current>>

(* Behind a call there is a block already: ProcessFallthroughAfterCall      *)
(* takes it for a tail call, and this procedure for one that returns.       *)
FallIntoBlock ==
    /\ Free
    /\ Me.jobs # <<>>
    /\ LET job == Head(Me.jobs)
       IN  /\ job.addr \in blockStarts
           /\ job.caller # None
           /\ succs' = EdgeFromCaller(job)
    /\ JobTaken
    /\ ProcessReturn
    /\ UNCHANGED <<code, blockStarts, blockEnds, blocks, split, thrown, seeds,
                   procedures, wl, active, suspended, running, current>>

-------------------------------------------------------------------------------
(* BlockWorker.ParseBlock, one action per instruction it looks at. *)
Parsing == AtWork /\ current # NoBlock /\ ~current.ended

Transfers == {"goto", "branch", "call", "return", "resume"}

(* What is read at the address the parser has reached. *)
Decoded ==
    IF current.addr \in DOMAIN code THEN {code[current.addr]}
    ELSE IF current.addr = Beyond THEN {}
    ELSE InstructionsAt(current.addr)

(* Padding and other instructions do not share a block. *)
IsPaddingBoundary(i) ==
    /\ current.instrs # <<>>
    /\ i.op \in Transfers \cup {"linear", "padding"}
    /\ (i.op = "padding") # (code[Last(current.instrs)].op = "padding")

ReadOn(i) ==
    /\ i.op \in {"linear", "padding"}
    /\ ~IsPaddingBoundary(i)
    /\ current' = [current EXCEPT !.addr = @ + i.length,
                                  !.instrs = Append(@, current.addr)]
    /\ UNCHANGED <<blockStarts, blocks, succs>>

(* The block ends with an instruction that transfers control or terminates. *)
ReadLast(i) ==
    /\ i.op \in Transfers \cup {"halt"}
    /\ ~IsPaddingBoundary(i)
    /\ LET instrs == Append(current.instrs, current.addr)
       IN  /\ current' = [current EXCEPT !.instrs = instrs, !.ended = TRUE]
           /\ blocks' = Set(blocks, current.start, Valid(instrs))
    /\ UNCHANGED <<blockStarts, succs>>

(* The block ends before a padding boundary.  The parser goes on with the   *)
(* block behind the boundary, unless there is one already.                  *)
CutAtPadding(i) ==
    /\ IsPaddingBoundary(i)
    /\ blocks' = Set(blocks, current.start, Valid(current.instrs))
    /\ succs' = WithEdge(succs, current.start, current.addr)
    /\ blockStarts' = blockStarts \cup {current.addr}
    /\ current' = IF current.addr \in blockStarts
                  THEN [current EXCEPT !.ended = TRUE]
                  ELSE [current EXCEPT !.start = current.addr, !.instrs = <<>>]

(* HandleBadBlock: the instructions of a block that is not valid are of no  *)
(* further use, and it is not registered under its end.                     *)
BadBlock ==
    /\ blocks' = Set(blocks, current.start, [instrs |-> <<>>, valid |-> FALSE])
    /\ current' = NoBlock
    /\ UNCHANGED <<blockStarts, succs>>

ReadInvalid(i) == i.op = "invalid" /\ BadBlock

ReadInstruction ==
    /\ Parsing
    /\ \E i \in Decoded :
        /\ code' = Set(code, current.addr, i)
        /\ ReadOn(i) \/ ReadLast(i) \/ CutAtPadding(i) \/ ReadInvalid(i)
    /\ UNCHANGED <<blockEnds, split, thrown, workerVars>>

(* The trace runs off the end of the image. *)
FallOff ==
    /\ Parsing
    /\ current.addr = Beyond
    /\ BadBlock
    /\ UNCHANGED <<code, blockEnds, split, thrown, workerVars>>

-------------------------------------------------------------------------------
(* HandleBlockEnd. *)
Ended == AtWork /\ current.ended

EndAddr  == Last(current.instrs)
LastOp   == code[EndAddr].op
Fall     == After(EndAddr)
EndIsNew == EndAddr \notin DOMAIN blockEnds

RegisterEnd == blockEnds' = Set(blockEnds, EndAddr, current.start)

(* Another block ends here already. *)
EndIsShared ==
    /\ Ended
    /\ ~EndIsNew
    /\ split' = [outer |-> current.start,
                 queue |-> <<[instrs |-> current.instrs, end |-> EndAddr]>>]
    /\ current' = NoBlock
    /\ UNCHANGED <<code, blockStarts, blockEnds, blocks, succs, thrown,
                   workerVars>>

(* ComputeEdges, for what is neither a call nor a return.  An instruction   *)
(* with a branch inside has the same edges as a branch.                     *)
EdgesTo ==
    CASE LastOp = "branch" -> <<Fall, code[EndAddr].to>>
      [] LastOp = "goto"   -> <<code[EndAddr].to>>
      [] LastOp = "halt"   -> <<>>
      [] OTHER             -> <<Fall>>

JobsTo(addrs) == [i \in DOMAIN addrs |-> Job(addrs[i], None)]

(* Mutant: only the first edge gets a job. *)
EndJumpsOnce ==
    /\ Ended
    /\ EndIsNew
    /\ LastOp \notin {"call", "return"}
    /\ RegisterEnd
    /\ succs' = WithEdges(succs, current.start, EdgesTo)
    /\ workers' = [workers EXCEPT ![running].jobs =
                      @ \o JobsTo(SubSeq(EdgesTo, 1, Min({1, Len(EdgesTo)})))]
    /\ current' = NoBlock
    /\ UNCHANGED <<code, blockStarts, blocks, split, thrown, seeds, procedures,
                   returning, wl, active, suspended, running, resuming>>

(* The edges are registered, and each gets a job. *)
EndJumps ==
    /\ Ended
    /\ EndIsNew
    /\ LastOp \notin {"call", "return"}
    /\ RegisterEnd
    /\ succs' = WithEdges(succs, current.start, EdgesTo)
    /\ workers' = [workers EXCEPT ![running].jobs = @ \o JobsTo(EdgesTo)]
    /\ current' = NoBlock
    /\ UNCHANGED <<code, blockStarts, blocks, split, thrown, seeds, procedures,
                   returning, wl, active, suspended, running, resuming>>

EndReturn ==
    /\ Ended
    /\ EndIsNew
    /\ LastOp = "return"
    /\ RegisterEnd
    /\ ProcessReturn
    /\ current' = NoBlock
    /\ UNCHANGED <<code, blockStarts, blocks, succs, split, thrown, seeds,
                   workers, procedures, wl, active, suspended, running>>

Callee == code[EndAddr].to

(* ProcessCall, of a procedure that is known to return. *)
EndCallReturning ==
    /\ Ended
    /\ EndIsNew
    /\ LastOp = "call"
    /\ Callee \in returning
    /\ RegisterEnd
    /\ IF Fall \in Addresses
       THEN /\ succs' = WithEdge(succs, current.start, Fall)
            /\ workers' = [workers EXCEPT ![running].jobs =
                              Append(@, Job(Fall, None))]
       ELSE UNCHANGED <<succs, workers>>
    /\ current' = NoBlock
    /\ UNCHANGED <<code, blockStarts, blocks, split, thrown, seeds, procedures,
                   returning, wl, active, suspended, running, resuming>>

(* TryStartProcedureWorker: the worker of the callee, a new one if there is *)
(* none at work or suspended.                                               *)
HasWorker == Callee \in DOMAIN suspended \cup DOMAIN active

CalleeWorker ==
    IF Callee \in DOMAIN suspended THEN suspended[Callee]
    ELSE IF Callee \in DOMAIN active THEN active[Callee]
    ELSE Len(workers) + 1

(* ProcessCall, of a procedure that is not: this call has to wait. *)
EndCallUnknown ==
    /\ Ended
    /\ EndIsNew
    /\ LastOp = "call"
    /\ Callee \notin returning
    /\ RegisterEnd
    /\ LET mine == [workers EXCEPT
                        ![running].calls = TryAdd(@, current.start, Callee)]
           all  == IF HasWorker THEN mine ELSE Append(mine, NewWorker(Callee))
           wc   == [worker |-> running, call |-> current.start, fall |-> Fall]
       IN  workers' = [all EXCEPT ![CalleeWorker].callers = Append(@, wc)]
    /\ procedures' = procedures \cup {Callee}
    /\ active' = IF HasWorker THEN active
                 ELSE Set(active, Callee, CalleeWorker)
    /\ wl' = IF HasWorker THEN wl ELSE Append(wl, CalleeWorker)
    /\ current' = NoBlock
    /\ UNCHANGED <<code, blockStarts, blocks, succs, split, thrown, seeds,
                   returning, suspended, running, resuming>>

HandleBlockEnd ==
    \/ EndIsShared
    \/ EndJumps
    \/ EndReturn
    \/ EndCallReturning
    \/ EndCallUnknown

Next ==
    \/ StartSeed
    \/ RunNext
    \/ Complete
    \/ TakeJob
    \/ DropJob
    \/ FallIntoBlock
    \/ ReadInstruction
    \/ FallOff
    \/ HandleBlockEnd
    \/ ResumeWorker
    \/ SplitBlockEndingAt /\ UNCHANGED <<workerVars, current>>

Spec == Init /\ [][Next]_vars

(* One thread runs the scan, and nothing stops it. *)
FairSpec == Spec /\ WF_vars(Next)


-------------------------------------------------------------------------------
AtRest ==
    current = NoBlock /\ split = NoSplit /\ ~resuming /\ thrown = Nothing
Done   == running = None /\ wl = <<>> /\ seeds = <<>>

(* No instruction starts inside another one, as far as the code was read.   *)
Aligned == \A a, b \in DOMAIN code : a < b => After(a) <= b

(* Moreover nothing pads the code. *)
Plain == Aligned /\ \A a \in DOMAIN code : code[a].op # "padding"

(* The address fits the map, the worker fits the procedure it is listed     *)
(* under, a block starts with its first instruction, an end leads to a      *)
(* block that was completed.  ResumeWorker never throws "Expected active    *)
(* worker!" (RecursiveScanner.cs:330): only a missing instruction ends a    *)
(* scan.                                                                    *)
TypeOK ==
    /\ \A a \in DOMAIN code : a \in Addresses /\ code[a] \in InstructionsAt(a)
    /\ blockStarts \subseteq 1 .. Beyond
    /\ DOMAIN blocks \subseteq blockStarts
    /\ \A b \in ValidBlocks : Head(blocks[b].instrs) = b
    /\ DOMAIN blockEnds \subseteq DOMAIN code
    /\ \A e \in DOMAIN blockEnds : blockEnds[e] \in ValidBlocks
    /\ \A b \in DOMAIN succs : ToSet(succs[b]) \subseteq 1 .. Beyond
    /\ returning \subseteq procedures
    /\ resuming => running # None /\ Me.callers # <<>>
    /\ procedures \subseteq Addresses
    /\ ToSet(wl) \subseteq DOMAIN workers
    /\ \A p \in DOMAIN active : workers[active[p]].proc = p
    /\ \A p \in DOMAIN suspended : workers[suspended[p]].proc = p
    /\ thrown \in {Nothing, "ArgumentOutOfRange"}

(* An instruction of plain code belongs to one block at most: whatever the  *)
(* order in which jumps into the middle of blocks are found, the blocks     *)
(* that HandleBlockEnd sees end together are split.                         *)
BlocksDisjoint ==
    AtRest /\ Plain =>
        \A b, c \in ValidBlocks :
            b # c => ToSet(blocks[b].instrs) \cap ToSet(blocks[c].instrs) = {}

(* In plain code blockEnds is exactly the map from last instructions to     *)
(* blocks, also after several blocks were split in turn: later splits find  *)
(* their other half through it.                                             *)
EndsAreBlockEnds ==
    AtRest /\ Plain =>
        blockEnds = [e \in {LastOf(b) : b \in ValidBlocks} |->
                        CHOOSE b \in ValidBlocks : LastOf(b) = e]

(* Where the last instruction of a block leads without a call. *)
Expected(b) ==
    LET last == LastOf(b)
    IN  CASE code[last].op = "branch" -> {After(last), code[last].to}
          [] code[last].op = "goto"   -> {code[last].to}
          [] code[last].op \in {"halt", "call", "return"} -> {}
          [] OTHER -> {After(last)}

Edges(b) == IF b \in DOMAIN succs THEN ToSet(succs[b]) ELSE {}

(* Splitting moves edges from block to block and loses none that the code   *)
(* asks for.                                                                *)
EdgesKept ==
    AtRest /\ Plain => \A b \in ValidBlocks : Expected(b) \subseteq Edges(b)

(* When the scan has ended every edge leads from a block to a block:        *)
(* ProcedureDetector and ICFG look both up.                                 *)
EdgesArrive ==
    Done /\ thrown = Nothing =>
        \A b \in DOMAIN succs :
            b \in DOMAIN blocks /\ Edges(b) \subseteq DOMAIN blocks

(* An instruction that is in a valid block stays in one, also where         *)
(* instructions overlap and both blocks are chopped.                        *)
Covered == UNION {ToSet(blocks[b].instrs) : b \in ValidBlocks}
NothingLost == [][Covered \subseteq Covered']_vars

(* The lists of SplitBlockEndingAt are only asked for what is not there if  *)
(* instructions overlap.                                                    *)
NothingThrown == Aligned => thrown = Nothing

-------------------------------------------------------------------------------
Alive(w) == LET p == workers[w].proc
            IN  \/ p \in DOMAIN active /\ active[p] = w
                \/ p \in DOMAIN suspended /\ suspended[p] = w

(* A suspended call and the note its worker left with the callee go         *)
(* together, the worker is still listed, and no note stays with a procedure *)
(* that is known to return.                                                 *)
CallsMatchCallers ==
    \A w \in DOMAIN workers :
        /\ workers[w].calls # <<>> => Alive(w)
        /\ \A from \in DOMAIN workers[w].calls :
              \E v \in DOMAIN workers : \E wc \in ToSet(workers[v].callers) :
                 /\ workers[v].proc = workers[w].calls[from]
                 /\ wc.worker = w
                 /\ wc.call = from
        /\ \A wc \in ToSet(workers[w].callers) :
              /\ wc.call \in DOMAIN workers[wc.worker].calls
              /\ workers[w].proc \in returning => resuming /\ w = running

(* No wake-up is lost: a worker with jobs is on the list of active workers, *)
(* and those are the one that runs and the ones that wait for their turn,   *)
(* once each.                                                               *)
NoWorkerLost ==
    /\ \A w \in DOMAIN workers :
          workers[w].jobs # <<>> => /\ workers[w].proc \in DOMAIN active
                                    /\ active[workers[w].proc] = w
    /\ {active[p] : p \in DOMAIN active} =
          ToSet(wl) \cup (IF running = None THEN {} ELSE {running})
    /\ IsInjective(wl)
    /\ running \notin ToSet(wl)
    /\ DOMAIN active \cap DOMAIN suspended = {}

(* Where control goes from an address if every call returns. *)
FlowTo(a) ==
    IF a \notin DOMAIN code THEN {}
    ELSE CASE code[a].op \in {"invalid", "halt", "return"} -> {}
           [] code[a].op = "goto"   -> {code[a].to}
           [] code[a].op = "branch" -> {After(a), code[a].to}
           [] OTHER                 -> {After(a)}

(* The addresses that a relation leads to from p. *)
Closure(p, Step(_)) ==
    {x \in 1 .. Beyond :
        \A S \in SUBSET (1 .. Beyond) :
            p \in S /\ (\A a \in S : Step(a) \subseteq S) => x \in S}

(* A procedure is marked as returning only if a return can be reached from  *)
(* its entry, or a call behind which there is a block already: the guess of *)
(* ProcessFallthroughAfterCall.                                             *)
ReturnsReached ==
    \A p \in returning : \E a \in Closure(p, FlowTo) \cap DOMAIN code :
        \/ code[a].op = "return"
        \/ code[a].op = "call" /\ After(a) \in blockStarts

(* The scan comes to an end, whatever the code calls and jumps to. *)
Terminates == <>(Done \/ thrown # Nothing)

-------------------------------------------------------------------------------
(* What the comments of the code say and the code does not do. *)

(* "Invariant: we arrive here if blockB ends at the same address as some    *)
(* other block A.  Get the address of that block."                          *)
(* (AbstractScanner.cs, SplitBlockEndingAt)                                 *)
EndIsReallyShared == Splitting => LastOf(AddrA) = End

(* CallerBlockAddress is "the address of a previously scanned block that    *)
(* ends in a call" (BlockWorker.cs) when its job is taken.                  *)
CallerEndsInCall ==
    Free /\ Me.jobs # <<>> /\ Head(Me.jobs).caller # None =>
        code[LastOf(Head(Me.jobs).caller)].op = "call"

(* "The tracing stops when RtlReturn instructions are encountered, or       *)
(* function calls to provably diverging procedures" (ProcedureWorker.cs):   *)
(* behind a call of a procedure in which a return was found there is a      *)
(* block.                                                                   *)
Returners ==
    {p \in procedures :
        \E b \in Closure(p, Edges) \cap ValidBlocks :
            code[LastOf(b)].op = "return"}

TracingGoesOn ==
    Done /\ thrown = Nothing =>
        \A b \in ValidBlocks :
            LET last == LastOf(b)
            IN  /\ code[last].op = "call"
                /\ code[last].to \in Returners
                /\ After(last) \in Addresses
                => After(last) \in DOMAIN blocks

===============================================================================
