---------------------------- MODULE AbstractScanner ----------------------------
(***************************************************************************)
(* What the scanners share (src/src/Decompiler/Scanning/AbstractScanner.cs *)
(* with ScanResultsV2.cs and RtlBlock.cs): the basic blocks found so far,  *)
(* where they start and end, the edges between them, and the splitting of  *)
(* two blocks that turn out to end with the same instruction.              *)
(*                                                                         *)
(* The image is a row of NumAddresses addresses.  What an address decodes  *)
(* to is chosen when it is read for the first time, and stays.             *)
(***************************************************************************)
EXTENDS Integers, Sequences, FiniteSets, SequencesExt

CONSTANTS
    NumAddresses, \* executable addresses are 1 .. NumAddresses
    Ops,          \* kinds of instructions the image may hold
    MaxLength     \* longest instruction that does not transfer control

AllOps == {"linear",   \* anything execution runs through
           "padding",  \* the same, of InstrClass.Padding or Zero
           "invalid",  \* RtlInvalid, or rejected by the mask
           "halt",     \* a side effect that terminates
           "resume",   \* call that cannot be followed: it is taken to return
           "goto", "branch", "call", "return"}

ASSUME ScannerAssumption ==
    /\ NumAddresses \in Nat \ {0}
    /\ Ops \subseteq AllOps
    /\ MaxLength \in Nat \ {0}

Addresses == 1 .. NumAddresses
Beyond    == NumAddresses + 1 \* the address behind the image
None      == 0

Targets(op) == IF op \in {"goto", "branch", "call"} THEN Addresses ELSE {None}
Lengths(op) == IF op = "linear" THEN 1 .. MaxLength ELSE {1}

(* The instructions that fit at an address. *)
InstructionsAt(addr) ==
    UNION {{i \in [op : {op}, to : Targets(op), length : Lengths(op)] :
                addr + i.length <= Beyond} : op \in Ops}

VARIABLES
    code,        \* what the addresses read so far decode to
    blockStarts, \* addresses where a block is, or is being parsed
    blockEnds,   \* address of a last instruction -> start of its block
    blocks,      \* sr.Blocks: start -> addresses of the instructions, IsValid
    succs,       \* sr.Successors: start -> where the edges go
    split,       \* what SplitBlockEndingAt has on its queue
    thrown       \* the exception that ended the scan

scanVars == <<code, blockStarts, blockEnds, blocks, succs, split, thrown>>

(* At most one block has to be split when SplitBlockEndingAt starts. *)
NoSplit == [outer |-> None, queue |-> <<>>]
Nothing == "nothing"

Set(f, k, v) == [x \in DOMAIN f \cup {k} |-> IF x = k THEN v ELSE f[x]]
Without(f, k) == [x \in DOMAIN f \ {k} |-> f[x]]

After(addr) == addr + code[addr].length

Valid(instrs) == [instrs |-> instrs, valid |-> TRUE]
ValidBlocks == {b \in DOMAIN blocks : blocks[b].valid}
LastOf(b) == Last(blocks[b].instrs)

ScanInit ==
    /\ code = <<>>
    /\ blockStarts = {}
    /\ blockEnds = <<>>
    /\ blocks = <<>>
    /\ succs = <<>>
    /\ split = NoSplit
    /\ thrown = Nothing

-------------------------------------------------------------------------------
(* RegisterEdge: a block may get the same edge twice. *)
WithEdge(s, from, to) ==
    Set(s, from, Append(IF from \in DOMAIN s THEN s[from] ELSE <<>>, to))

WithEdges(s, from, tos) ==
    IF tos = <<>> THEN s
    ELSE Set(s, from, (IF from \in DOMAIN s THEN s[from] ELSE <<>>) \o tos)

(* Mutant: the edges stay where they are. *)
StealEdgesNot(s, from, to) == s

(* The edges of one block become those of another that has none. *)
StealEdges(s, from, to) ==
    IF from \notin DOMAIN s THEN s
    ELSE IF to \in DOMAIN s THEN Without(s, from)
    ELSE Set(Without(s, from), to, s[from])

(* ConcurrentDictionary.TryUpdate. *)
TryUpdate(f, k, new, old) ==
    IF k \in DOMAIN f THEN IF f[k] = old THEN Set(f, k, new) ELSE f ELSE f

TryAdd(f, k, v) == IF k \in DOMAIN f THEN f ELSE Set(f, k, v)

(* Mutant: the walk stops one short of the start of the shorter block. *)
SharedInside(s, t) ==
    Max({k \in 0 .. Min({Len(s), Len(t)}) - 1 :
            \A j \in 0 .. k - 1 : s[Len(s) - j] = t[Len(t) - j]})

(* FindSharedInstructions: how many addresses the tails have in common. *)
Shared(s, t) ==
    Max({k \in 0 .. Min({Len(s), Len(t)}) :
            \A j \in 0 .. k - 1 : s[Len(s) - j] = t[Len(t) - j]})

(* Mutant: the instruction at the index stays. *)
ChopBehind(instrs, n) == SubSeq(instrs, 1, n + 1)

(* The instructions before the index. *)
Chop(instrs, n) == SubSeq(instrs, 1, n)

-------------------------------------------------------------------------------
(* SplitBlockEndingAt, one action per turn of its loop.  blockB is the      *)
(* block taken from the queue; addrB is the address of the block the        *)
(* method was called with, on every turn.                                   *)

Splitting == split.queue # <<>> /\ thrown = Nothing

End    == Head(split.queue).end
BlockB == Head(split.queue).instrs
AddrB  == split.outer
AddrA  == blockEnds[End]
BlockA == blocks[AddrA].instrs

IndexA == Len(BlockA) - Shared(BlockA, BlockB)
IndexB == Len(BlockB) - Shared(BlockA, BlockB)

DoneWith(queue) == split' = IF queue = <<>> THEN NoSplit
                            ELSE [split EXCEPT !.queue = queue]

(* Chopped block instrs ends at its last instruction, or has to be split    *)
(* from another block that does.                                            *)
RegisterChoppedEnd(ends, instrs) ==
    /\ blockEnds' = TryAdd(ends, Last(instrs), Head(instrs))
    /\ DoneWith(IF Last(instrs) \in DOMAIN ends
                THEN Append(Tail(split.queue),
                            [instrs |-> instrs, end |-> Last(instrs)])
                ELSE Tail(split.queue))

SplitSelf ==
    /\ Splitting
    /\ AddrA = AddrB
    /\ DoneWith(Tail(split.queue))
    /\ UNCHANGED <<code, blockStarts, blockEnds, blocks, succs, thrown>>

(* Mutant: the shared instructions are chopped off and not registered. *)
SplitTailAway ==
    /\ Splitting
    /\ AddrA # AddrB
    /\ IndexA > 0
    /\ IndexB > 0
    /\ Shared(BlockA, BlockB) > 0
    /\ LET addrS == BlockA[IndexA + 1]
           newA  == Chop(BlockA, IndexA)
           newB  == Chop(BlockB, IndexB)
       IN  /\ blockStarts' = blockStarts \cup {addrS}
           /\ succs' = WithEdge(WithEdge(succs, AddrA, addrS), AddrB, addrS)
           /\ blocks' = TryUpdate(
                            TryUpdate(blocks, AddrA, Valid(newA), Valid(BlockA)),
                            AddrB, Valid(newB), Valid(BlockB))
    /\ DoneWith(Tail(split.queue))
    /\ UNCHANGED <<code, blockEnds, thrown>>

(* Neither block is a tail of the other: the shared instructions become a   *)
(* block of their own.                                                      *)
SplitTail ==
    /\ Splitting
    /\ AddrA # AddrB
    /\ IndexA > 0
    /\ IndexB > 0
    /\ Shared(BlockA, BlockB) > 0
    /\ LET addrS == BlockA[IndexA + 1]
           isNew == addrS \notin blockStarts
           tail  == SubSeq(BlockA, IndexA + 1, Len(BlockA))
           withS == IF isNew THEN Set(blocks, addrS, Valid(tail)) ELSE blocks
           moved == IF isNew THEN StealEdges(succs, AddrA, addrS) ELSE succs
           newA  == Chop(BlockA, IndexA)
           newB  == Chop(BlockB, IndexB)
       IN  /\ blockStarts' = blockStarts \cup {addrS}
           /\ succs' = WithEdge(WithEdge(moved, AddrA, addrS), AddrB, addrS)
           /\ blocks' = TryUpdate(
                            TryUpdate(withS, AddrA, Valid(newA), Valid(BlockA)),
                            AddrB, Valid(newB), Valid(BlockB))
           /\ blockEnds' = TryUpdate(
                            TryUpdate(blockEnds, Head(newA), addrS, End),
                            Head(newB), addrS, End)
    /\ DoneWith(Tail(split.queue))
    /\ UNCHANGED <<code, thrown>>

(* Block A is the tail of block B. *)
SplitB ==
    /\ Splitting
    /\ AddrA # AddrB
    /\ IndexA = 0
    /\ IndexB > 0
    /\ LET newB == Chop(BlockB, IndexB)
       IN  /\ blocks' = TryUpdate(blocks, AddrB, Valid(newB), Valid(BlockB))
           /\ RegisterChoppedEnd(blockEnds, newB)
    /\ succs' = WithEdge(succs, Head(BlockB), AddrA)
    /\ UNCHANGED <<code, blockStarts, thrown>>

(* Mutant: the end of A stays the end of the chopped A. *)
SplitAKeepsEnd ==
    /\ Splitting
    /\ AddrA # AddrB
    /\ IndexA > 0
    /\ IndexB = 0
    /\ LET newA == Chop(BlockA, IndexA)
       IN  /\ blocks' = TryUpdate(blocks, AddrA, Valid(newA), Valid(BlockA))
           /\ RegisterChoppedEnd(blockEnds, newA)
           /\ succs' = WithEdge(StealEdges(succs, AddrA, Head(BlockB)),
                                Head(newA), Head(BlockB))
    /\ UNCHANGED <<code, blockStarts, thrown>>

(* Block B is the tail of block A: it takes over the end and the edges. *)
SplitA ==
    /\ Splitting
    /\ AddrA # AddrB
    /\ IndexA > 0
    /\ IndexB = 0
    /\ LET newA == Chop(BlockA, IndexA)
       IN  /\ blocks' = TryUpdate(blocks, AddrA, Valid(newA), Valid(BlockA))
           /\ RegisterChoppedEnd(Set(blockEnds, End, AddrB), newA)
           /\ succs' = WithEdge(StealEdges(succs, AddrA, Head(BlockB)),
                                Head(newA), Head(BlockB))
    /\ UNCHANGED <<code, blockStarts, thrown>>

(* An instruction is asked for that the block does not have: no shared      *)
(* tail to take from A, or nothing left of B.                               *)
SplitFails ==
    /\ Splitting
    /\ AddrA # AddrB
    /\ \/ IndexA > 0 /\ IndexB > 0 /\ Shared(BlockA, BlockB) = 0
       \/ IndexA = 0 /\ IndexB = 0
    /\ thrown' = "ArgumentOutOfRange"
    /\ UNCHANGED <<code, blockStarts, blockEnds, blocks, succs, split>>

SplitBlockEndingAt ==
    SplitSelf \/ SplitTail \/ SplitB \/ SplitA \/ SplitFails

===============================================================================
