------------------------------- MODULE Scanner -------------------------------
(***************************************************************************)
(* The first-generation scanner (src/src/Decompiler/Scanning/Scanner.cs)   *)
(* with its work items (BlockWorkitem.cs, PromoteBlockWorkItem.cs): the    *)
(* scanner that Decompiler.CreateScanner makes.                            *)
(*                                                                         *)
(* One thread scans procedures depth first.  A call scans the callee, with *)
(* a work queue of its own, before the caller's block goes on; so blocks   *)
(* are split, cut short and moved to other procedures under a work item    *)
(* that is in the middle of them.                                          *)
(*                                                                         *)
(* What an address decodes to is chosen when it is first read.             *)
(***************************************************************************)
EXTENDS Integers, Sequences, FiniteSets, SequencesExt

CONSTANTS
    NumAddresses, \* executable addresses are 1 .. NumAddresses, one segment
    Ops,          \* kinds of instructions the image may hold
    MaxLength,    \* longest instruction that does not transfer control
    Symbols       \* procedures known before the scan

AllOps == {"linear",  \* leaves a statement in its block
           "nop",     \* RtlNop: leaves none
           "invalid", \* RtlInvalid, or rejected by the mask
           "halt",    \* a side effect that terminates
           "goto", "branch", "call", "return"}

Addresses == 1 .. NumAddresses
Beyond    == NumAddresses + 1 \* the address behind the segment
None      == 0

ASSUME ScannerAssumption ==
    /\ NumAddresses \in Nat \ {0}
    /\ Ops \subseteq AllOps
    /\ MaxLength \in Nat \ {0}
    /\ Symbols \subseteq Addresses

Targets(op) == IF op \in {"goto", "branch", "call"} THEN Addresses ELSE {None}
Lengths(op) == IF op \in {"linear", "nop"} THEN 1 .. MaxLength ELSE {1}

InstructionsAt(addr) ==
    UNION {{i \in [op : {op}, to : Targets(op), length : Lengths(op)] :
                addr + i.length <= Beyond} : op \in Ops}

VARIABLES
    code,    \* what the addresses read so far decode to
    program, \* heap: every Block ever made; its index is its name
             \* procs: Program.Procedures, with entry, exit and blocks
    ranges,  \* the field `blocks': address -> Block and End
    visited, \* visitedProcs
    frames,  \* ProcessQueue loops in progress, innermost last; the first one
             \* is ScanProceduresRecursively's, the others ScanProcedure's
    canceled \* the listener's IsCanceled

vars == <<code, program, ranges, visited, frames, canceled>>

Set(f, k, v) == [x \in DOMAIN f \cup {k} |-> IF x = k THEN v ELSE f[x]]
Without(f, k) == [x \in DOMAIN f \ {k} |-> f[x]]

(* A statement: its address, its kind, and what it calls or jumps to. *)
Stm(addr, kind, to) == [addr |-> addr, kind |-> kind, to |-> to]

(* Work items.  A promotion names the block and the procedure it goes to.   *)
Item(kind, addr, block) == [kind |-> kind, addr |-> addr, block |-> block]

(* Queue is procQueue; block and addr are blockCur and the address the work *)
(* item has reached; callee is the procedure VisitCall scans.               *)
Frame(proc, queue) ==
    [proc |-> proc, queue |-> queue, block |-> None, addr |-> None,
     callee |-> None]

-------------------------------------------------------------------------------
(* Graphs of blocks: BlockGraph, Procedure. *)

ProcOf(g, b) == g.procs[g.heap[b].proc]
Stms(g, b)   == g.heap[b].stms

NewBlock(g, role, proc, addr) ==
    [g EXCEPT !.heap = Append(@, [role |-> role, proc |-> proc, addr |-> addr,
                                  stms |-> <<>>, succ |-> <<>>, pred |-> <<>>]),
              !.procs[proc].blocks = @ \cup {Len(g.heap) + 1}]

Newest(g) == Len(g.heap)

AddEdge(g, from, to) ==
    [g EXCEPT !.heap[from].succ = Append(@, to),
              !.heap[to].pred = Append(@, from)]

HasEdge(g, from, to) == Contains(g.heap[from].succ, to)

EnsureEdge(g, from, to) ==
    IF HasEdge(g, from, to) THEN g ELSE AddEdge(g, from, to)

RemoveEdge(g, from, to) ==
    IF HasEdge(g, from, to) /\ Contains(g.heap[to].pred, from)
    THEN [g EXCEPT !.heap[from].succ = RemoveFirst(@, to),
                   !.heap[to].pred = RemoveFirst(@, from)]
    ELSE g

Emit(g, b, addr, kind, to) ==
    [g EXCEPT !.heap[b].stms = Append(@, Stm(addr, kind, to))]

(* Program.EnsureProcedure *)
EnsureProcedure(g, addr) ==
    IF addr \in DOMAIN g.procs THEN g
    ELSE LET e == Newest(g) + 1
             g1 == [g EXCEPT !.procs = Set(@, addr,
                        [entry |-> e, exit |-> e + 1, blocks |-> {}])]
         IN  NewBlock(NewBlock(g1, "entry", addr, addr), "exit", addr, addr)

-------------------------------------------------------------------------------
(* Block ranges. *)

AtOrBelow(r, addr) == {a \in DOMAIN r : a <= addr}
Above(r, addr)     == {a \in DOMAIN r : a > addr}

InRange(r, addr) == /\ AtOrBelow(r, addr) # {}
                    /\ addr < r[Max(AtOrBelow(r, addr))].end

FindContainingBlock(r, addr) ==
    IF InRange(r, addr) THEN r[Max(AtOrBelow(r, addr))].block ELSE None

(* AddBlock: the new block reaches to the next one. *)
AddRange(r, addr, b) ==
    Set(r, addr, [block |-> b, end |-> Min(Above(r, addr) \cup {Beyond})])

(* Mutant: the address itself is taken for a part of the block. *)
TerminateBlockBehind(r, addr) ==
    IF AtOrBelow(r, addr) = {} \/ addr \in DOMAIN r THEN r
    ELSE [r EXCEPT ![Max(AtOrBelow(r, addr))].end = addr + 1]

(* TerminateBlock cuts whatever block is there, or stretches it. *)
TerminateBlock(r, addr) ==
    IF AtOrBelow(r, addr) = {} \/ addr \in DOMAIN r THEN r
    ELSE [r EXCEPT ![Max(AtOrBelow(r, addr))].end = addr]

TerminateAnyBlockAt(r, addr) ==
    IF InRange(r, addr) THEN TerminateBlock(r, addr) ELSE r

(* Mutant: the first part keeps its range. *)
SplitRangeOverlapping(r, addr, b) ==
    LET start == Max(AtOrBelow(r, addr))
    IN  [AddRange(r, addr, b) EXCEPT ![addr].end = r[start].end]

(* The ranges after a split at addr, behind which the new block is b. *)
SplitRange(r, addr, b) ==
    LET start == Max(AtOrBelow(r, addr))
    IN  [AddRange(r, addr, b) EXCEPT ![addr].end = r[start].end,
                                     ![start].end = addr]

(* The successors of b become those of new. *)
MoveEdges(g, b, new) ==
    LET succ == g.heap[b].succ
    IN  FoldLeft(LAMBDA h, s : RemoveEdge(h, b, s),
                 FoldLeft(LAMBDA h, s : AddEdge(h, new, s), g, succ), succ)

(* The statements below addr, and those from there on. *)
StmsBelow(stms, addr) ==
    FoldLeft(LAMBDA s, x : IF x.addr < addr THEN Append(s, x) ELSE s, <<>>, stms)

StmsFrom(stms, addr) ==
    FoldLeft(LAMBDA s, x : IF x.addr >= addr THEN Append(s, x) ELSE s, <<>>, stms)

(* Mutant: the statement at the split address goes nowhere. *)
MoveOffByOne(g, b, new, addr) ==
    LET below == StmsBelow(Stms(g, b), addr)
        moved == StmsFrom(Stms(g, b), addr + 1)
        falls == Stms(g, b) # <<>> /\ Last(Stms(g, b)).addr >= addr
    IN  [(IF falls THEN AddEdge(g, b, new) ELSE g) EXCEPT
            !.heap[b].stms = IF falls THEN below ELSE @,
            !.heap[new].stms = moved]

MoveStatements(g, b, new, addr) ==
    LET below == StmsBelow(Stms(g, b), addr)
        moved == StmsFrom(Stms(g, b), addr)
        falls == Stms(g, b) # <<>> /\ Last(Stms(g, b)).addr >= addr
    IN  [(IF falls THEN AddEdge(g, b, new) ELSE g) EXCEPT
            !.heap[b].stms = IF falls THEN below ELSE @,
            !.heap[new].stms = moved]

(* SplitBlock in the graph: the new block is the newest. *)
SplitBlock(g, b, addr) ==
    LET new == Newest(g) + 1
    IN  MoveStatements(
            MoveEdges(NewBlock(g, "code", g.heap[b].proc, addr), b, new),
            b, new, addr)

CallAndReturn(g, b, addr, callee) ==
    AddEdge(Emit(Emit(g, b, addr, "call", callee), b, addr, "return", None),
            b, ProcOf(g, b).exit)

(* CreateCallRetThunk *)
CallRetThunk(g, addr, proc, callee) ==
    CallAndReturn(NewBlock(g, "thunk", proc, addr), Newest(g) + 1, addr, callee)

(* GetAddressOfLastInstruction *)
LastAddress(g, b) ==
    IF Stms(g, b) = <<>> THEN None
    ELSE g.heap[b].addr + Last(Stms(g, b)).addr - Head(Stms(g, b)).addr

IsBlockLinearProcedureExit(g, b) ==
    Stms(g, b) # <<>> /\ Last(Stms(g, b)).kind = "return"

(* BlockCloner copies a block with what its first edges lead to, up to an   *)
(* exit or to a block it met before.                                       *)
Chain(g, b) ==
    LET next(x) == IF g.heap[x].succ = <<>> THEN ProcOf(g, x).exit
                   ELSE g.heap[x].succ[1]
        grow(s, i) == LET x == next(Last(s))
                      IN  IF x = ProcOf(g, x).exit \/ Contains(s, x) THEN s
                          ELSE Append(s, x)
    IN  FoldLeft(grow, <<b>>, g.heap)

(* The copy of a branch is a side effect. *)
Cloned(stms) ==
    [i \in DOMAIN stms |-> IF stms[i].kind = "branch"
                           THEN Stm(stms[i].addr, "op", None) ELSE stms[i]]

(* The innermost copy is made first, so that the copy of b is the newest.   *)
CloneChain(g, chain, proc) ==
    LET copyOf(x) == Newest(g) + Len(chain) + 1 - SelectInSeq(chain, LAMBDA c : c = x)
        copy(h, x) ==
            LET h1 == NewBlock(h, "clone", proc, g.heap[x].addr)
            IN  [h1 EXCEPT !.heap[Newest(h1)].stms = Cloned(Stms(g, x))]
        link(h, x) ==
            LET s == g.heap[x].succ
            IN  AddEdge(h, copyOf(x), IF s # <<>> /\ Contains(chain, s[1])
                                      THEN copyOf(s[1]) ELSE h.procs[proc].exit)
    IN  FoldRight(LAMBDA x, h : link(h, x), chain,
                  FoldRight(LAMBDA x, h : copy(h, x), chain, g))

CloneBlock(g, b, proc) == CloneChain(g, Chain(g, b), proc)

-------------------------------------------------------------------------------
(* EnqueueJumpTarget: the graph, the ranges, the block to jump to, and the  *)
(* work items, by what the address is.                                      *)
Enqueued(g, r, b, items) ==
    [g |-> g, ranges |-> r, block |-> b, items |-> items]

EnqueuedNewest(g, r, items) == Enqueued(g, r, Newest(g), items)

(* A block at an address where none starts, split off or new.               *)
MakeBlock(g, r, dest, proc) ==
    IF InRange(r, dest) THEN SplitBlock(g, FindContainingBlock(r, dest), dest)
    ELSE NewBlock(g, "code", proc, dest)

MakeRange(r, dest, b) ==
    IF InRange(r, dest) THEN SplitRange(r, dest, b) ELSE AddRange(r, dest, b)

(* Mutant: a block of the same procedure is not scanned. *)
SettleUnscanned(g, r, src, dest, proc) ==
    LET b == Newest(g)
        owner == g.heap[b].proc
    IN  IF owner = proc
        THEN Enqueued(g, r, b, <<>>)
        ELSE IF IsBlockLinearProcedureExit(g, b)
        THEN EnqueuedNewest(CloneBlock(g, b, proc), r, <<>>)
        ELSE EnqueuedNewest(
                CallRetThunk(EnsureProcedure([g EXCEPT !.procs[owner].blocks = @ \ {b}],
                                             dest),
                             src, proc, dest),
                Without(r, dest),
                <<Item("procedure", dest, None), Item("promote", dest, b)>>)

(* Mutant: the procedure made for a block is never scanned. *)
SettleUnqueued(g, r, src, dest, proc) ==
    LET b == Newest(g)
        owner == g.heap[b].proc
    IN  IF owner = proc
        THEN Enqueued(g, r, b, <<Item("block", dest, None)>>)
        ELSE IF IsBlockLinearProcedureExit(g, b)
        THEN EnqueuedNewest(CloneBlock(g, b, proc), r, <<>>)
        ELSE EnqueuedNewest(
                CallRetThunk(EnsureProcedure([g EXCEPT !.procs[owner].blocks = @ \ {b}],
                                             dest),
                             src, proc, dest),
                Without(r, dest),
                <<Item("promote", dest, b)>>)

(* The block just made is scanned; or it was split off a block of another   *)
(* procedure, and is cloned or becomes a procedure.                         *)
SettleBlock(g, r, src, dest, proc) ==
    LET b == Newest(g)
        owner == g.heap[b].proc
    IN  IF owner = proc
        THEN Enqueued(g, r, b, <<Item("block", dest, None)>>)
        ELSE IF IsBlockLinearProcedureExit(g, b)
        THEN EnqueuedNewest(CloneBlock(g, b, proc), r, <<>>)
        ELSE EnqueuedNewest(
                CallRetThunk(EnsureProcedure([g EXCEPT !.procs[owner].blocks = @ \ {b}],
                                             dest),
                             src, proc, dest),
                Without(r, dest),
                <<Item("procedure", dest, None), Item("promote", dest, b)>>)

(* An address where no block starts. *)
JumpToNewBlock(g, r, src, dest, proc) ==
    SettleBlock(MakeBlock(g, r, dest, proc), MakeRange(r, dest, Newest(g) + 1),
                src, dest, proc)

Enter(g, proc, b) == AddEdge(g, g.procs[proc].entry, b)

(* Mutant: the procedure made for a block is not entered there. *)
JumpUnentered(g, r, src, dest, proc) ==
    LET b == r[dest].block
    IN  IF dest = proc
        THEN Enqueued(g, r, b, <<Item("promote", dest, b)>>)
        ELSE IF dest \in DOMAIN g.procs
        THEN EnqueuedNewest(CallRetThunk(g, src, proc, dest), r, <<>>)
        ELSE IF IsBlockLinearProcedureExit(g, b)
        THEN EnqueuedNewest(CloneBlock(g, b, proc), r, <<>>)
        ELSE EnqueuedNewest(
                CallRetThunk(EnsureProcedure(g, dest), src, proc, dest),
                r, <<Item("promote", dest, b)>>)

(* A block of another procedure. *)
JumpToForeignBlock(g, r, src, dest, proc) ==
    LET b == r[dest].block
    IN  IF dest = proc
        THEN Enqueued(g, r, b, <<Item("promote", dest, b)>>)
        ELSE IF dest \in DOMAIN g.procs
        THEN EnqueuedNewest(CallRetThunk(g, src, proc, dest), r, <<>>)
        ELSE IF IsBlockLinearProcedureExit(g, b)
        THEN EnqueuedNewest(CloneBlock(g, b, proc), r, <<>>)
        ELSE EnqueuedNewest(
                Enter(CallRetThunk(EnsureProcedure(g, dest), src, proc, dest), dest, b),
                r, <<Item("promote", dest, b)>>)

EnqueueJumpTarget(g, r, src, dest, proc) ==
    IF dest \notin DOMAIN r THEN JumpToNewBlock(g, r, src, dest, proc)
    ELSE IF g.heap[r[dest].block].proc = proc
    THEN Enqueued(g, r, r[dest].block, <<>>)
    ELSE JumpToForeignBlock(g, r, src, dest, proc)

-------------------------------------------------------------------------------
(* PromoteBlockWorkItem.Process. *)

IsEntered(g, b) ==
    LET s == g.heap[ProcOf(g, b).entry].succ IN s # <<>> /\ s[1] = b

(* The blocks that move, in the order a depth-first search meets them.     *)
Promoted(g, b, proc) ==
    LET movable(x) == /\ g.heap[x].proc # proc
                      /\ x # ProcOf(g, x).exit
                      /\ ~IsEntered(g, x)
        visit(s, i) ==
            IF s.stack = <<>> THEN s
            ELSE LET x == Head(s.stack)
                 IN  IF movable(x) /\ ~Contains(s.moved, x)
                     THEN [stack |-> g.heap[x].succ \o Tail(s.stack),
                           moved |-> Append(s.moved, x)]
                     ELSE [s EXCEPT !.stack = Tail(@)]
        edges == FoldLeft(LAMBDA n, x : n + Len(x.succ), 1, g.heap)
    IN  FoldLeft(visit, [stack |-> <<b>>, moved |-> <<>>],
                 [i \in 1 .. edges |-> i]).moved

(* Mutant: the block stays listed where it was. *)
MoveListedTwice(g, b, proc) ==
    [g EXCEPT !.procs[proc].blocks = @ \cup {b},
              !.heap[b].proc = proc]

MoveBlock(g, b, proc) ==
    [g EXCEPT !.procs[g.heap[b].proc].blocks = @ \ {b},
              !.procs[proc].blocks = @ \cup {b},
              !.heap[b].proc = proc]

FixExitEdges(g, b, proc) ==
    LET exits == {ProcOf(g, x).exit : x \in DOMAIN g.heap}
        old == {x \in exits \cap ToSet(g.heap[b].succ) : g.heap[x].proc # proc}
        new == g.procs[proc].exit
    IN  FoldLeft(LAMBDA h, i :
            LET s == h.heap[b].succ[i]
            IN  IF s \in old
                THEN [h EXCEPT !.heap[s].pred = RemoveFirst(@, b),
                               !.heap[new].pred = Append(@, b),
                               !.heap[b].succ[i] = new]
                ELSE h,
            g, [i \in 1 .. Len(g.heap[b].succ) |-> i])

Redirect(g, from, b, thunk) ==
    [g EXCEPT !.heap[from].succ = ReplaceAll(@, b, thunk),
              !.heap[thunk].pred = Append(@, from)]

FixInbound(g, b, proc, from) ==
    IF Stms(g, from) # <<>>
    THEN Redirect(CallRetThunk(g, LastAddress(g, from), g.heap[from].proc, proc),
                  from, b, Newest(g) + 1)
    ELSE CallAndReturn(g, from, g.heap[from].addr, proc)

FixInboundEdges(g, b, proc) ==
    LET pred == g.heap[b].pred
        outside(p) == g.heap[p].proc # proc
        g1 == FoldLeft(LAMBDA h, p : IF outside(p) THEN FixInbound(h, b, proc, p)
                                     ELSE h, g, pred)
    IN  FoldLeft(LAMBDA h, p : IF outside(p)
                               THEN [h EXCEPT !.heap[b].pred = RemoveFirst(@, p)]
                               ELSE h, g1, pred)

FixOutboundEdges(g, b) ==
    FoldLeft(LAMBDA h, i :
        LET s == h.heap[b].succ[i]
        IN  IF h.heap[s].proc = h.heap[b].proc \/ ~IsEntered(h, s) THEN h
            ELSE LET h1 == CallRetThunk(h, LastAddress(h, b),
                                        h.heap[b].proc, h.heap[s].proc)
                     t == Newest(h1)
                 IN  [h1 EXCEPT !.heap[b].succ[i] = t,
                                !.heap[t].pred = Append(@, b),
                                !.heap[s].pred = RemoveFirst(@, b)],
        g, [i \in 1 .. Len(g.heap[b].succ) |-> i])

Promote(g, b, proc) ==
    LET moved == Promoted(g, b, proc)
        g1 == FoldLeft(LAMBDA h, x : MoveBlock(h, x, proc), g, moved)
    IN  FoldLeft(LAMBDA h, x :
            FixOutboundEdges(
                FixInboundEdges(FixExitEdges(h, x, proc), x, proc), x),
            g1, moved)

-------------------------------------------------------------------------------
Top == frames[Len(frames)]
SetTop(f) == [frames EXCEPT ![Len(frames)] = f]

Scanning == frames # <<>>
Idle     == Scanning /\ Top.block = None /\ Top.callee = None

Priority(item) == CASE item.kind = "block"   -> 6
                    [] item.kind = "promote" -> 3
                    [] OTHER                 -> 5

(* PriorityQueue: one of the items with the highest priority. *)
Dequeued(i) ==
    /\ Idle
    /\ ~canceled
    /\ i \in DOMAIN Top.queue
    /\ \A j \in DOMAIN Top.queue : Priority(Top.queue[j]) <= Priority(Top.queue[i])

(* Mutant: the item goes back to the end of the queue. *)
RestRotated(i) == Frame(Top.proc, Append(RemoveAt(Top.queue, i), Top.queue[i]))

(* The frame without work item i. *)
Rest(i) == Frame(Top.proc, RemoveAt(Top.queue, i))

(* ProcessQueue ends: nothing is left, or the user has cancelled. *)
Drained == Idle /\ (Top.queue = <<>> \/ canceled)

(* ScanProcedure up to ProcessQueue; top is what the caller's frame becomes. *)
ScanProcedure(addr, top) ==
    LET g == EnsureProcedure(program, addr)
        r == TerminateAnyBlockAt(ranges, addr)
    IN  IF addr \in visited
        THEN /\ program' = g
             /\ ranges' = r
             /\ frames' = SetTop(top)
             /\ UNCHANGED visited
        ELSE \E jump \in {EnqueueJumpTarget(g, r, addr, addr, addr)} :
             LET entry == g.procs[addr].entry
             IN  /\ program' = IF jump.g.heap[entry].succ = <<>>
                               THEN AddEdge(jump.g, entry, jump.block)
                               ELSE jump.g
                 /\ ranges' = jump.ranges
                 /\ visited' = visited \cup {addr}
                 /\ frames' = Append(SetTop(top), Frame(addr, jump.items))

ProcedureScanned ==
    /\ Drained
    /\ Len(frames) > 1
    /\ frames' = Front(frames)
    /\ UNCHANGED <<code, program, ranges, visited, canceled>>

(* Mutant: the gotos are left where they were put. *)
KeepGotos(g) == g

RemoveRedundantGotos(g) ==
    LET kept(stms) == IF stms # <<>> /\ Last(stms).kind = "goto"
                      THEN Front(stms) ELSE stms
        all == UNION {g.procs[p].blocks : p \in DOMAIN g.procs}
        tidied(b) == [g.heap[b] EXCEPT !.stms = kept(@)]
    IN  [g EXCEPT !.heap = [b \in DOMAIN g.heap |->
            IF b \in all THEN tidied(b) ELSE g.heap[b]]]

(* The end of ScanImage. *)
Finish ==
    /\ Drained
    /\ Len(frames) = 1
    /\ frames' = <<>>
    /\ program' = RemoveRedundantGotos(program)
    /\ UNCHANGED <<code, ranges, visited, canceled>>

Cancel ==
    /\ Scanning
    /\ ~canceled
    /\ canceled' = TRUE
    /\ UNCHANGED <<code, program, ranges, visited, frames>>

-------------------------------------------------------------------------------
(* Work items. *)

StartSymbol(i) ==
    /\ Dequeued(i)
    /\ Top.queue[i].kind = "symbol"
    /\ IF Top.queue[i].addr \in visited
       THEN frames' = SetTop(Rest(i)) /\ UNCHANGED <<program, ranges, visited>>
       ELSE ScanProcedure(Top.queue[i].addr, Rest(i))
    /\ UNCHANGED <<code, canceled>>

StartProcedure(i) ==
    /\ Dequeued(i)
    /\ Top.queue[i].kind = "procedure"
    /\ ScanProcedure(Top.queue[i].addr, Rest(i))
    /\ UNCHANGED <<code, canceled>>

StartPromotion(i) ==
    /\ Dequeued(i)
    /\ Top.queue[i].kind = "promote"
    /\ program' = Promote(program, Top.queue[i].block, Top.queue[i].addr)
    /\ frames' = SetTop(Rest(i))
    /\ UNCHANGED <<code, ranges, visited, canceled>>

StartBlock(i) ==
    /\ Dequeued(i)
    /\ Top.queue[i].kind = "block"
    /\ LET addr == Top.queue[i].addr
           b == FindContainingBlock(ranges, addr)
       IN  frames' = SetTop(
               IF b = None \/ Stms(program, b) # <<>> THEN Rest(i)
               ELSE [Rest(i) EXCEPT !.block = b, !.addr = addr])
    /\ UNCHANGED <<code, program, ranges, visited, canceled>>

-------------------------------------------------------------------------------
(* BlockWorkitem.Process, one action per instruction. *)
BlockCur == Top.block
Pos      == Top.addr
Parsing  == Scanning /\ BlockCur # None /\ Top.callee = None
ProcCur  == program.heap[BlockCur].proc

Within == Pos # Beyond /\ FindContainingBlock(ranges, Pos) = BlockCur

LeaveBlock(g, r, items) ==
    /\ program' = g
    /\ ranges' = r
    /\ frames' = SetTop(Frame(Top.proc, Top.queue \o items))

FellOff ==
    /\ Parsing
    /\ ~Within
    /\ LeaveBlock(program, ranges, <<>>)
    /\ UNCHANGED <<code, visited, canceled>>

(* What follows an instruction that does not end the block: execution has   *)
(* fallen into another procedure or into another block, or goes on in b.    *)
GoOn(g, r, b, next, items) ==
    LET proc == g.heap[b].proc
        inside == FindContainingBlock(r, next)
    IN  IF next \in DOMAIN g.procs \ {proc}
        THEN \E h \in {CallRetThunk(g, Pos, proc, next)} :
                LeaveBlock(EnsureEdge(h, b, Newest(h)), r, items)
        ELSE IF InRange(r, next) /\ inside # b
        THEN \E jump \in {EnqueueJumpTarget(g, r, Pos, next, proc)} :
                LeaveBlock(EnsureEdge(jump.g, b, jump.block), jump.ranges,
                           items \o jump.items)
        ELSE /\ program' = g
             /\ ranges' = r
             /\ frames' = SetTop([Frame(Top.proc, Top.queue \o items) EXCEPT
                                     !.block = b, !.addr = next])

Linear(i) ==
    /\ i.op \in {"linear", "nop"}
    /\ GoOn(IF i.op = "nop" THEN program
            ELSE Emit(program, BlockCur, Pos, "op", None),
            ranges, BlockCur, Pos + i.length, <<>>)
    /\ UNCHANGED visited

Stop(i) ==
    /\ i.op \in {"invalid", "halt", "return"}
    /\ LET returned == Emit(program, BlockCur, Pos, "return", None)
       IN  LeaveBlock(
               CASE i.op = "invalid" -> program
                 [] i.op = "halt"    -> Emit(program, BlockCur, Pos, "op", None)
                 [] OTHER -> AddEdge(returned, BlockCur, ProcOf(program, BlockCur).exit),
               IF i.op = "invalid" THEN ranges ELSE TerminateBlock(ranges, Pos + 1),
               <<>>)
    /\ UNCHANGED visited

(* Mutant: the edge leaves blockCur, which the jump may have cut. *)
GotoFromBlockCur(i) ==
    /\ i.op = "goto"
    /\ \E first \in {EnqueueJumpTarget(program, TerminateBlock(ranges, Pos + 1),
                                        Pos, i.to, ProcCur)} :
       \E g \in {EnsureEdge(first.g, BlockCur,
                            first.block)} :
       \E again \in {IF i.to = Pos
                     THEN EnqueueJumpTarget(g, first.ranges, Pos, i.to, ProcCur)
                     ELSE Enqueued(g, first.ranges, None, <<>>)} :
       LET h == IF i.to = Pos THEN EnsureEdge(again.g, BlockCur, again.block)
                ELSE g
       IN  LeaveBlock(Emit(h, BlockCur, Pos, "goto", i.to), again.ranges,
                      first.items \o again.items)
    /\ UNCHANGED visited

(* A jump to itself is enqueued twice.  The goto goes to blockCur, even if  *)
(* the jump has just cut that block in front of it.                         *)
Goto(i) ==
    /\ i.op = "goto"
    /\ \E first \in {EnqueueJumpTarget(program, TerminateBlock(ranges, Pos + 1),
                                        Pos, i.to, ProcCur)} :
       \E g \in {EnsureEdge(first.g, FindContainingBlock(first.ranges, Pos),
                            first.block)} :
       \E again \in {IF i.to = Pos
                     THEN EnqueueJumpTarget(g, first.ranges, Pos, i.to, ProcCur)
                     ELSE Enqueued(g, first.ranges, None, <<>>)} :
       LET h == IF i.to = Pos THEN EnsureEdge(again.g, BlockCur, again.block)
                ELSE g
       IN  LeaveBlock(Emit(h, BlockCur, Pos, "goto", i.to), again.ranges,
                      first.items \o again.items)
    /\ UNCHANGED visited

(* The edges are made when both targets are known.  Behind the segment      *)
(* AddBlock throws, and the work item is given up without them.             *)
Branch(i) ==
    /\ i.op = "branch"
    /\ \E then \in {EnqueueJumpTarget(
                       Emit(program, BlockCur, Pos, "branch", i.to),
                       TerminateBlock(ranges, Pos + 1), Pos, i.to, ProcCur)} :
       IF Pos + 1 = Beyond
       THEN LeaveBlock(then.g, then.ranges, then.items)
       ELSE \E else \in {EnqueueJumpTarget(then.g, then.ranges, Pos, Pos + 1, ProcCur)} :
            LET from == FindContainingBlock(else.ranges, Pos)
                g == EnsureEdge(else.g, from, else.block)
                h == IF else.block = then.block THEN AddEdge(g, from, then.block)
                     ELSE EnsureEdge(g, from, then.block)
                items == then.items \o else.items
            IN  IF Stms(h, else.block) # <<>> THEN LeaveBlock(h, else.ranges, items)
                ELSE GoOn(h, else.ranges, else.block, Pos + 1, items)
    /\ UNCHANGED visited

Call(i) ==
    /\ i.op = "call"
    /\ ScanProcedure(i.to, [Top EXCEPT !.callee = i.to])

ReadInstruction ==
    /\ Parsing
    /\ Within
    /\ \E i \in IF Pos \in DOMAIN code THEN {code[Pos]} ELSE InstructionsAt(Pos) :
          /\ code' = Set(code, Pos, i)
          /\ \/ Linear(i)
             \/ Stop(i)
             \/ Goto(i)
             \/ Branch(i)
             \/ Call(i)
    /\ UNCHANGED canceled

(* VisitCall goes on once ScanProcedure is back, in blockCur as it was.     *)
CallScanned ==
    /\ Scanning
    /\ Top.callee # None
    /\ \E g \in {Emit(program, BlockCur, Pos, "call", Top.callee)} :
          GoOn(g, ranges, BlockCur, Pos + 1, <<>>)
    /\ UNCHANGED <<code, visited, canceled>>

-------------------------------------------------------------------------------
(* The symbols are enqueued in the order of their addresses. *)
Init ==
    \E syms \in [1 .. Cardinality(Symbols) -> Symbols] :
        /\ \A i, j \in DOMAIN syms : i < j => syms[i] < syms[j]
        /\ code = <<>>
        /\ program = FoldLeft(EnsureProcedure, [heap |-> <<>>, procs |-> <<>>], syms)
        /\ ranges = <<>>
        /\ visited = {}
        /\ frames = <<Frame(None, [i \in DOMAIN syms |->
                                      Item("symbol", syms[i], None)])>>
        /\ canceled = FALSE

Step ==
    \/ \E i \in 1 .. (IF Scanning THEN Len(Top.queue) ELSE 0) :
          \/ StartSymbol(i)
          \/ StartProcedure(i)
          \/ StartPromotion(i)
          \/ StartBlock(i)
    \/ ProcedureScanned
    \/ Finish
    \/ FellOff
    \/ ReadInstruction
    \/ CallScanned

Next == Step \/ Cancel

Spec == Init /\ [][Next]_vars

(* One thread, which goes on. *)
FairSpec == Spec /\ ([]<>~Scanning \/ []<><<Step>>_vars)

-------------------------------------------------------------------------------
(* Properties. *)

Instructions == UNION {InstructionsAt(a) : a \in Addresses}
BlockIds     == DOMAIN program.heap
Kinds        == {"op", "branch", "goto", "call", "return"}

(* Types: what the fields of blocks, procedures, ranges, frames and work    *)
(* items may hold.                                                          *)
TypeOK ==
    /\ DOMAIN code \subseteq Addresses
    /\ \A a \in DOMAIN code : code[a] \in InstructionsAt(a)
    /\ \A b \in BlockIds :
          LET block == program.heap[b]
          IN  /\ block.role \in {"entry", "exit", "code", "thunk", "clone"}
              /\ block.proc \in DOMAIN program.procs
              /\ block.addr \in Addresses \cup {None}
              /\ \A k \in DOMAIN block.stms :
                    /\ block.stms[k].kind \in Kinds
                    /\ block.stms[k].to \in Addresses \cup {None}
              /\ ToSet(block.succ) \cup ToSet(block.pred) \subseteq BlockIds
    /\ DOMAIN ranges \subseteq Addresses
    /\ \A a \in DOMAIN ranges :
          /\ ranges[a].block \in BlockIds
          /\ ranges[a].end \in Addresses \cup {Beyond}
    /\ DOMAIN program.procs \subseteq Addresses
    /\ visited \subseteq DOMAIN program.procs
    /\ \A n \in DOMAIN frames :
          /\ frames[n].proc \in visited \cup {None}
          /\ frames[n].block \in BlockIds \cup {None}
          /\ frames[n].addr \in Addresses \cup {Beyond, None}
          /\ frames[n].callee # None =>
                /\ frames[n].callee \in visited
                /\ frames[n].block # None
          /\ \A i \in DOMAIN frames[n].queue :
                frames[n].queue[i].block \in BlockIds \cup {None}
    /\ canceled \in BOOLEAN

(* No address is in two block ranges, however blocks were split, cut short, *)
(* stretched or taken out under the work items: SanityCheck, which          *)
(* SplitBlock no longer calls.                                              *)
RangesDisjoint ==
    \A a \in DOMAIN ranges :
        /\ a < ranges[a].end
        /\ \A b \in DOMAIN ranges :
              a < b => ranges[a].end <= b

(* A block is listed by the procedure it names and by no other, and the     *)
(* block of a range starts there and is listed: promotion moves both sides. *)
BlocksOwned ==
    /\ \A p \in DOMAIN program.procs :
          \A b \in program.procs[p].blocks : program.heap[b].proc = p
    /\ \A a \in DOMAIN ranges :
          LET b == ranges[a].block
          IN  program.heap[b].addr = a /\ b \in ProcOf(program, b).blocks

Live == UNION {program.procs[p].blocks : p \in DOMAIN program.procs}

(* A procedure that has code has an entered block: PromoteBlockWorkItem     *)
(* reads EntryBlock.Succ[0] of whatever procedure owns a block it meets,    *)
(* and would throw.                                                         *)
OwnersEntered ==
    \A b \in Live :
        program.heap[b].role \in {"code", "clone", "thunk"} =>
            program.heap[ProcOf(program, b).entry].succ # <<>>

Complete == ~Scanning /\ ~canceled

(* At the end every procedure, also one that only a thunk calls or that a   *)
(* promotion made, is entered at a block of its own that starts at its      *)
(* address and has that range.                                              *)
ProceduresEntered ==
    Complete =>
        \A p \in DOMAIN program.procs :
            LET succ == program.heap[program.procs[p].entry].succ
            IN  /\ succ # <<>>
                /\ p \in DOMAIN ranges
                /\ ranges[p].block = succ[1]
                /\ program.heap[succ[1]].proc = p

(* No statement is lost when blocks are split, moved, cloned or taken out   *)
(* of a procedure: at the end each instruction that was read and leaves one *)
(* is in a block of some procedure.                                         *)
NothingLost ==
    Complete =>
        \A a \in DOMAIN code :
            code[a].op \in {"linear", "halt", "branch", "call", "return"} =>
                \E b \in Live :
                    /\ program.heap[b].role # "thunk"
                    /\ \E k \in DOMAIN Stms(program, b) : Stms(program, b)[k].addr = a

FlowsTo(a) ==
    CASE code[a].op \in {"linear", "nop"} -> {a + code[a].length}
      [] code[a].op = "goto"             -> {code[a].to}
      [] code[a].op = "branch"           -> {a + 1, code[a].to}
      [] code[a].op = "call"             -> {a + 1}
      [] OTHER                           -> {}

Reaches(a) ==
    (FlowsTo(a) \cup IF code[a].op = "call" THEN {code[a].to} ELSE {}) \cap Addresses

Covered == {a \in Addresses : \E c \in DOMAIN code : c < a /\ a < c + code[c].length}

(* Nothing leads into the middle of an instruction. *)
Aligned == Covered \cap (DOMAIN code \cup UNION {Reaches(a) : a \in DOMAIN code}) = {}

(* All that execution can reach from the symbols is read: a block that was  *)
(* split, promoted or found with statements is never taken for scanned      *)
(* while part of it is not.                                                 *)
EverythingReached ==
    Complete /\ Aligned =>
        /\ Symbols \subseteq DOMAIN code
        /\ \A a \in DOMAIN code : Reaches(a) \subseteq DOMAIN code

OneProcedure       == Cardinality(DOMAIN program.procs) = 1
AllLeaveStatements == \A a \in DOMAIN code : code[a].op \notin {"nop", "invalid"}

(* While there is one procedure, so that nothing is promoted, the graph is  *)
(* that of the code: each transfer of control stays in its block or is an   *)
(* edge to the block that starts there, whatever blocks were split between  *)
(* the reading of the two.  Where an instruction leaves no statement        *)
(* SplitBlock forgets the edge (SplitFallsThrough), and a branch at the end *)
(* of the segment gets none.                                                *)
EdgesFollowCode ==
    Complete /\ Aligned /\ OneProcedure /\ AllLeaveStatements =>
        \A a \in DOMAIN code :
            \A t \in FlowsTo(a) \cap Addresses :
                LET b == FindContainingBlock(ranges, a)
                IN  \/ code[a].op = "branch" /\ a + 1 = Beyond
                    \/ t \notin DOMAIN ranges /\ FindContainingBlock(ranges, t) = b
                    \/ /\ t \in DOMAIN ranges
                       /\ ranges[t].block \in ToSet(program.heap[b].succ)

(* While there is one procedure, statements end up in the block whose range *)
(* holds their address, although a goto may be put into a block that it has *)
(* just cut, and jumps may lead into the middle of instructions.            *)
StatementsInRange ==
    ~Scanning /\ OneProcedure =>
        \A a \in DOMAIN ranges :
            LET stms == Stms(program, ranges[a].block)
            IN  \A k \in DOMAIN stms :
                    a <= stms[k].addr /\ stms[k].addr < ranges[a].end

(* The scan ends, whatever the image holds and whether or not the user      *)
(* cancels: nested procedures, promotions and work items for blocks that    *)
(* are split again run out.                                                 *)
Terminates == <>(~Scanning)

(* What the doc of SplitBlock says: the first part is left "with a single   *)
(* out edge to the new block" (src/src/Decompiler/Scanning/Scanner.cs:844). *)
(* A new range inside an old one, other than a procedure's entry, is a      *)
(* split.                                                                   *)
SplitFallsThrough ==
    [][\A a \in DOMAIN ranges :
         \A n \in DOMAIN ranges' \ DOMAIN ranges :
             a < n /\ n < ranges[a].end /\ visited' = visited =>
                 ranges'[n].block
                     \in ToSet(program'.heap[ranges[a].block].succ)]_vars

===============================================================================
