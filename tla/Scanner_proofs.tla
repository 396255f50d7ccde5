---------------------------- MODULE Scanner_proofs ----------------------------
(***************************************************************************)
(* Proofs about the first-generation scanner: whatever the image holds, and*)
(* whatever nested scans and jumps do to a block that is being read, no two*)
(* ranges overlap, and the graph, the ranges and the work items fit one    *)
(* another.                                                                *)
(***************************************************************************)
EXTENDS Scanner_graph_proofs

-------------------------------------------------------------------------------
(* The inductive invariant. *)

Positions == 1 .. Beyond

Disjoint(r) ==
    \A a \in DOMAIN r :
        /\ a < r[a].end
        /\ \A b \in DOMAIN r : a < b => r[a].end <= b

RangesOf(r) ==
    /\ DOMAIN r \subseteq Addresses
    /\ r = [a \in DOMAIN r |-> [block |-> r[a].block, end |-> r[a].end]]
    /\ \A a \in DOMAIN r : r[a].end \in Positions

GoodRanges(r) == RangesOf(r) /\ Disjoint(r)

CodeRead ==
    \A a \in DOMAIN code : a \in Addresses /\ code[a] \in InstructionsAt(a)

(* Work items are for addresses of the image. *)
IsQueue(q) == \E S : q \in Seq(S) /\ \A x \in S : x.addr \in Addresses

(* A frame that waits for a callee stands on the call. *)
IsFrame(f) ==
    /\ f = [proc |-> f.proc, queue |-> f.queue, block |-> f.block,
            addr |-> f.addr, callee |-> f.callee]
    /\ IsQueue(f.queue)
    /\ f.addr \in 0 .. Beyond
    /\ f.callee # None => f.addr \in Addresses

IsStack(s) == \E S : s \in Seq(S) /\ \A f \in S : IsFrame(f)

RangesInv == GoodRanges(ranges) /\ CodeRead /\ IsStack(frames)

-------------------------------------------------------------------------------
(* Greatest and least members. *)

(* A non-empty set of positions has a greatest member, and Max gives it.    *)
LEMMA MaxIsGreatest ==
  ASSUME NEW S \in SUBSET Positions, S # {}
  PROVE  Max(S) \in S /\ \A x \in S : x <= Max(S)
<1> DEFINE Larger(n) == {k \in Positions : k > n}
           T == {Larger(n) : n \in S}
<1>1. IsFiniteSet(Positions) /\ \A k \in Positions : k \in Int
  BY ScannerAssumption, FS_Interval DEF Positions, Beyond
<1>2. T \subseteq FiniteSubsetsOf(Positions) /\ T # {}
  <2>1. FiniteSubsetsOf(Positions) = SUBSET Positions
    BY <1>1, FS_FiniteSubsetsOfFinite
  <2>2. T \subseteq SUBSET Positions
    OBVIOUS
  <2>3. T # {}
    OBVIOUS
  <2> QED
    BY <2>1, <2>2, <2>3
<1>3. PICK x \in T : \A y \in T : <<y, x>> \notin StrictSubsetOrdering(Positions)
  BY <1>2, FS_StrictSubsetOrderingWellFounded, WFMin
<1>4. PICK n \in S : x = Larger(n)
  OBVIOUS
<1>5. ASSUME NEW m \in S, m > n
      PROVE  FALSE
  <2>1. m \in Int /\ n \in Int
    BY <1>1
  <2>2. Larger(m) \subseteq Larger(n)
    <3>1. ASSUME NEW k \in Positions, k > m PROVE k > n
      BY <1>1, <1>5, <2>1, <3>1
    <3> QED
      BY <3>1
  <2>3. m \in Larger(n) /\ m \notin Larger(m)
    BY <1>1, <1>5, <2>1
  <2>4. <<Larger(m), x>> \in StrictSubsetOrdering(Positions)
    BY <1>4, <2>2, <2>3 DEF StrictSubsetOrdering
  <2> QED
    BY <1>3, <2>4
<1>6. \A y \in S : n >= y
  BY <1>1, <1>5
<1> QED
  BY <1>1, <1>6 DEF Max

(* The same for Min. *)
LEMMA MinIsLeast ==
  ASSUME NEW S \in SUBSET Positions, S # {}
  PROVE  Min(S) \in S /\ \A x \in S : Min(S) <= x
<1> DEFINE Smaller(n) == {k \in Positions : k < n}
           T == {Smaller(n) : n \in S}
<1>1. IsFiniteSet(Positions) /\ \A k \in Positions : k \in Int
  BY ScannerAssumption, FS_Interval DEF Positions, Beyond
<1>2. T \subseteq FiniteSubsetsOf(Positions) /\ T # {}
  <2>1. FiniteSubsetsOf(Positions) = SUBSET Positions
    BY <1>1, FS_FiniteSubsetsOfFinite
  <2>2. T \subseteq SUBSET Positions
    OBVIOUS
  <2>3. T # {}
    OBVIOUS
  <2> QED
    BY <2>1, <2>2, <2>3
<1>3. PICK x \in T : \A y \in T : <<y, x>> \notin StrictSubsetOrdering(Positions)
  BY <1>2, FS_StrictSubsetOrderingWellFounded, WFMin
<1>4. PICK n \in S : x = Smaller(n)
  OBVIOUS
<1>5. ASSUME NEW m \in S, m < n
      PROVE  FALSE
  <2>1. m \in Int /\ n \in Int
    BY <1>1
  <2>2. Smaller(m) \subseteq Smaller(n)
    <3>1. ASSUME NEW k \in Positions, k < m PROVE k < n
      BY <1>1, <1>5, <2>1, <3>1
    <3> QED
      BY <3>1
  <2>3. m \in Smaller(n) /\ m \notin Smaller(m)
    BY <1>1, <1>5, <2>1
  <2>4. <<Smaller(m), x>> \in StrictSubsetOrdering(Positions)
    BY <1>4, <2>2, <2>3 DEF StrictSubsetOrdering
  <2> QED
    BY <1>3, <2>4
<1>6. \A y \in S : n <= y
  BY <1>1, <1>5
<1> QED
  BY <1>1, <1>6 DEF Min

-------------------------------------------------------------------------------
(* Operations on ranges. *)

(* The range below an address is the nearest one. *)
LEMMA Nearest ==
  ASSUME NEW r, RangesOf(r), NEW addr \in Positions, AtOrBelow(r, addr) # {}
  PROVE  /\ Max(AtOrBelow(r, addr)) \in DOMAIN r
         /\ Max(AtOrBelow(r, addr)) \in Addresses
         /\ Max(AtOrBelow(r, addr)) <= addr
         /\ \A a \in DOMAIN r : a <= addr => a <= Max(AtOrBelow(r, addr))
<1>1. AtOrBelow(r, addr) \in SUBSET Positions
  BY ScannerAssumption DEF AtOrBelow, RangesOf, Addresses, Positions, Beyond
<1> QED
  BY <1>1, MaxIsGreatest DEF AtOrBelow, RangesOf

(* Where a block behind addr would end. *)
LEMMA NextStart ==
  ASSUME NEW r, RangesOf(r), NEW addr \in Addresses
  PROVE  /\ Min(Above(r, addr) \cup {Beyond}) \in Positions
         /\ addr < Min(Above(r, addr) \cup {Beyond})
         /\ \A a \in DOMAIN r : addr < a => Min(Above(r, addr) \cup {Beyond}) <= a
<1> DEFINE S == Above(r, addr) \cup {Beyond}
<1>1. S \in SUBSET Positions /\ S # {}
  BY ScannerAssumption DEF Above, RangesOf, Addresses, Positions, Beyond
<1>2. \A a \in S : addr < a
  BY ScannerAssumption DEF Above, Addresses, Beyond
<1>3. Min(S) \in S /\ \A x \in S : Min(S) <= x
  BY <1>1, MinIsLeast
<1> QED
  BY <1>1, <1>2, <1>3 DEF Above

(* Terminating a block keeps the ranges disjoint. *)
LEMMA TerminateKeeps ==
  ASSUME NEW r, GoodRanges(r), NEW addr \in Positions
  PROVE  GoodRanges(TerminateBlock(r, addr))
<1>1. CASE AtOrBelow(r, addr) = {} \/ addr \in DOMAIN r
  BY <1>1 DEF TerminateBlock
<1>2. CASE ~(AtOrBelow(r, addr) = {} \/ addr \in DOMAIN r)
  <2> DEFINE low == Max(AtOrBelow(r, addr))
             t == [r EXCEPT ![low].end = addr]
  <2>1. /\ low \in DOMAIN r /\ low \in Addresses /\ low <= addr
        /\ \A a \in DOMAIN r : a <= addr => a <= low
    BY <1>2, Nearest DEF GoodRanges
  <2>2. /\ RangesOf(r) /\ Disjoint(r) /\ addr \notin DOMAIN r
        /\ addr \in Int /\ DOMAIN r \subseteq Int
    BY <1>2, ScannerAssumption DEF GoodRanges, RangesOf, Addresses, Positions, Beyond
  <2> HIDE DEF low
  <2>3. t = [a \in DOMAIN r |-> [block |-> r[a].block,
                                 end |-> IF a = low THEN addr ELSE r[a].end]]
    BY <2>1, <2>2 DEF RangesOf
  <2>4. RangesOf(t)
    BY <2>2, <2>3 DEF RangesOf
  <2>5. Disjoint(t)
    BY <2>1, <2>2, <2>3 DEF Disjoint
  <2> QED
    BY <1>2, <2>4, <2>5 DEF TerminateBlock, GoodRanges, low
<1> QED
  BY <1>1, <1>2

(* A block that is added where no range reaches is disjoint from the others. *)
LEMMA AddKeeps ==
  ASSUME NEW r, GoodRanges(r), NEW addr \in Addresses, addr \notin DOMAIN r,
         ~InRange(r, addr), NEW b
  PROVE  GoodRanges(AddRange(r, addr, b))
<1> DEFINE end == Min(Above(r, addr) \cup {Beyond})
           t == [a \in DOMAIN r \cup {addr} |->
                   IF a = addr THEN [block |-> b, end |-> end] ELSE r[a]]
<1>1. /\ RangesOf(r) /\ Disjoint(r) /\ DOMAIN r \subseteq Int
      /\ addr \in Positions /\ Positions \subseteq Int
  BY ScannerAssumption DEF GoodRanges, RangesOf, Addresses, Positions, Beyond
<1>2. /\ end \in Positions /\ addr < end
      /\ \A a \in DOMAIN r : addr < a => end <= a
  BY <1>1, NextStart
<1>3. \A a \in DOMAIN r : a < addr => r[a].end <= addr
  <2> SUFFICES ASSUME NEW a \in DOMAIN r, a < addr
               PROVE  r[a].end <= addr
    OBVIOUS
  <2>1. AtOrBelow(r, addr) # {}
    BY <1>1 DEF AtOrBelow
  <2>2. PICK low \in DOMAIN r : /\ low = Max(AtOrBelow(r, addr)) /\ low <= addr
                                /\ \A x \in DOMAIN r : x <= addr => x <= low
    BY <1>1, <2>1, Nearest
  <2>3. ~(addr < r[low].end)
    BY <2>1, <2>2 DEF InRange
  <2>4. r[low].end \in Int /\ r[a].end \in Int /\ a <= low /\ low \in Int
    BY <1>1, <2>2 DEF RangesOf
  <2>5. a = low \/ r[a].end <= low
    BY <1>1, <2>2, <2>4 DEF Disjoint
  <2> QED
    BY <1>1, <2>2, <2>3, <2>4, <2>5
<1>4. AddRange(r, addr, b) = t
  BY DEF AddRange, Set
<1> HIDE DEF end
<1>5. RangesOf(t)
  BY <1>1, <1>2 DEF RangesOf
<1>6. Disjoint(t)
  BY <1>1, <1>2, <1>3 DEF Disjoint
<1> QED
  BY <1>4, <1>5, <1>6 DEF GoodRanges

(* A split divides one range into two. *)
LEMMA SplitKeeps ==
  ASSUME NEW r, GoodRanges(r), NEW addr \in Addresses, addr \notin DOMAIN r,
         InRange(r, addr), NEW b
  PROVE  GoodRanges(SplitRange(r, addr, b))
<1> DEFINE t(low) == [a \in DOMAIN r \cup {addr} |->
                 [block |-> IF a = addr THEN b ELSE r[a].block,
                  end |-> IF a = addr THEN r[low].end
                          ELSE IF a = low THEN addr ELSE r[a].end]]
<1>1. /\ RangesOf(r) /\ Disjoint(r) /\ DOMAIN r \subseteq Int
      /\ addr \in Positions /\ Positions \subseteq Int
  BY ScannerAssumption DEF GoodRanges, RangesOf, Addresses, Positions, Beyond
<1>2. PICK low \in DOMAIN r : /\ low = Max(AtOrBelow(r, addr)) /\ low <= addr
                              /\ \A x \in DOMAIN r : x <= addr => x <= low
                              /\ addr < r[low].end
  BY <1>1, Nearest DEF InRange
<1>3. SplitRange(r, addr, b) = t(low)
  <2> DEFINE end == Min(Above(r, addr) \cup {Beyond})
             s == [a \in DOMAIN r \cup {addr} |->
                     IF a = addr THEN [block |-> b, end |-> end] ELSE r[a]]
  <2>1. SplitRange(r, addr, b) =
            [s EXCEPT ![addr].end = r[low].end, ![low].end = addr]
    BY <1>2 DEF SplitRange, AddRange, Set
  <2> HIDE DEF end
  <2>2. low # addr /\ low \in DOMAIN s /\ addr \in DOMAIN s
    OBVIOUS
  <2>3. \A a \in DOMAIN r : r[a] = [block |-> r[a].block, end |-> r[a].end]
    BY <1>1 DEF RangesOf
  <2> QED
    BY <2>1, <2>2, <2>3
<1>4. RangesOf(t(low))
  BY <1>1, <1>2 DEF RangesOf
<1>5. Disjoint(t(low))
  <2>1. \A a \in DOMAIN r : r[a].end \in Int /\ a < r[a].end
    BY <1>1 DEF RangesOf, Disjoint
  <2>2. \A a, c \in DOMAIN r : a < c => r[a].end <= c
    BY <1>1 DEF Disjoint
  <2>3. low < addr /\ addr \in Int
    BY <1>1, <1>2
  <2>4. \A a \in DOMAIN r : a < addr => a <= low
    BY <1>1, <1>2
  <2>5. \A a \in DOMAIN r : addr < a => r[low].end <= a
    BY <1>1, <2>2, <2>3
  <2>6. \A a \in DOMAIN r : a < low => r[a].end < addr
    BY <1>1, <2>1, <2>2, <2>3
  <2> HIDE DEF t
  <2>7. /\ DOMAIN t(low) = DOMAIN r \cup {addr}
        /\ t(low)[addr].end = r[low].end
        /\ t(low)[low].end = addr
        /\ \A a \in DOMAIN r \ {low} : t(low)[a].end = r[a].end
    BY <2>3 DEF t
  <2>8. \A a \in DOMAIN t(low) : a < t(low)[a].end
    BY <1>2, <2>1, <2>3, <2>7
  <2>9. ASSUME NEW a \in DOMAIN t(low), NEW c \in DOMAIN t(low), a < c
        PROVE  t(low)[a].end <= c
    BY <1>1, <1>2, <2>1, <2>2, <2>3, <2>4, <2>5, <2>6, <2>7, <2>9
  <2> QED
    BY <2>8, <2>9 DEF Disjoint
<1> QED
  BY <1>3, <1>4, <1>5 DEF GoodRanges

(* Taking a block's range out leaves the others as they are. *)
LEMMA WithoutKeeps ==
  ASSUME NEW r, GoodRanges(r), NEW addr
  PROVE  GoodRanges(Without(r, addr))
<1>1. RangesOf(r) /\ Disjoint(r)
  BY DEF GoodRanges
<1>2. /\ DOMAIN Without(r, addr) = DOMAIN r \ {addr}
      /\ \A a \in DOMAIN r \ {addr} : Without(r, addr)[a] = r[a]
      /\ Without(r, addr) = [a \in DOMAIN r \ {addr} |-> r[a]]
  BY DEF Without
<1>3. \A a \in DOMAIN r : r[a] = [block |-> r[a].block, end |-> r[a].end]
  BY <1>1 DEF RangesOf
<1>4. RangesOf(Without(r, addr))
  BY <1>1, <1>2, <1>3 DEF RangesOf
<1>5. Disjoint(Without(r, addr))
  BY <1>1, <1>2 DEF Disjoint
<1> QED
  BY <1>4, <1>5 DEF GoodRanges

-------------------------------------------------------------------------------
(* Queues of work items and stacks of frames. *)

LEMMA QueuesOfItems ==
  /\ IsQueue(<<>>)
  /\ \A addr \in Addresses : \A k, b : IsQueue(<<Item(k, addr, b)>>)
  /\ \A addr \in Addresses : \A k, b, l, c :
        IsQueue(<<Item(k, addr, b), Item(l, addr, c)>>)
<1>1. IsQueue(<<>>)
  <2> DEFINE S == {}
  <2>1. <<>> \in Seq(S) /\ \A x \in S : x.addr \in Addresses
    OBVIOUS
  <2> HIDE DEF S
  <2> QED
    BY <2>1 DEF IsQueue
<1>2. ASSUME NEW addr \in Addresses, NEW k, NEW b
      PROVE  IsQueue(<<Item(k, addr, b)>>)
  <2> DEFINE S == {Item(k, addr, b)}
  <2>1. <<Item(k, addr, b)>> \in Seq(S)
    OBVIOUS
  <2>2. \A x \in S : x.addr \in Addresses
    BY DEF Item
  <2> HIDE DEF S
  <2> QED
    BY <2>1, <2>2 DEF IsQueue
<1>3. ASSUME NEW addr \in Addresses, NEW k, NEW b, NEW l, NEW c
      PROVE  IsQueue(<<Item(k, addr, b), Item(l, addr, c)>>)
  <2> DEFINE S == {Item(k, addr, b), Item(l, addr, c)}
  <2>1. <<Item(k, addr, b), Item(l, addr, c)>> \in Seq(S)
    OBVIOUS
  <2>2. \A x \in S : x.addr \in Addresses
    BY DEF Item
  <2> HIDE DEF S
  <2> QED
    BY <2>1, <2>2 DEF IsQueue
<1> QED
  BY <1>1, <1>2, <1>3

LEMMA QueueConcat ==
  ASSUME NEW p, IsQueue(p), NEW q, IsQueue(q)
  PROVE  IsQueue(p \o q)
<1>1. PICK S : p \in Seq(S) /\ \A x \in S : x.addr \in Addresses
  BY DEF IsQueue
<1>2. PICK T : q \in Seq(T) /\ \A x \in T : x.addr \in Addresses
  BY DEF IsQueue
<1>3. p \in Seq(S \cup T) /\ q \in Seq(S \cup T)
  BY <1>1, <1>2, SeqMonotonic
<1>4. p \o q \in Seq(S \cup T)
  BY <1>3, ConcatProperties
<1> QED
  BY <1>1, <1>2, <1>4 DEF IsQueue

LEMMA QueueRest ==
  ASSUME NEW q, IsQueue(q), NEW i \in DOMAIN q
  PROVE  q[i].addr \in Addresses /\ IsQueue(RemoveAt(q, i))
<1>1. PICK S : q \in Seq(S) /\ \A x \in S : x.addr \in Addresses
  BY DEF IsQueue
<1>2. i \in 1 .. Len(q) /\ Len(q) \in Nat /\ \A j \in 1 .. Len(q) : q[j] \in S
  BY <1>1, LenProperties, ElementOfSeq
<1>3. SubSeq(q, 1, i - 1) \in Seq(S) /\ SubSeq(q, i + 1, Len(q)) \in Seq(S)
  BY <1>2, SubSeqProperties
<1>4. RemoveAt(q, i) \in Seq(S)
  BY <1>3, ConcatProperties DEF RemoveAt
<1> QED
  BY <1>1, <1>2, <1>4 DEF IsQueue

LEMMA StackTop ==
  ASSUME NEW s, IsStack(s), s # <<>>
  PROVE  IsFrame(s[Len(s)]) /\ IsStack(Front(s))
<1>1. PICK S : s \in Seq(S) /\ \A f \in S : IsFrame(f)
  BY DEF IsStack
<1>2. Len(s) \in Nat \ {0} /\ \A j \in 1 .. Len(s) : s[j] \in S
  BY <1>1, EmptySeq, ElementOfSeq
<1>3. SubSeq(s, 1, Len(s) - 1) \in Seq(S)
  BY <1>2, SubSeqProperties
<1> QED
  BY <1>1, <1>2, <1>3 DEF IsStack, Front

LEMMA StackUpdate ==
  ASSUME NEW s, IsStack(s), s # <<>>, NEW f, IsFrame(f)
  PROVE  /\ IsStack([s EXCEPT ![Len(s)] = f])
         /\ \A h : IsFrame(h) => IsStack(Append([s EXCEPT ![Len(s)] = f], h))
<1>1. PICK S : s \in Seq(S) /\ \A x \in S : IsFrame(x)
  BY DEF IsStack
<1>2. s \in Seq(S \cup {f}) /\ Len(s) \in 1 .. Len(s)
  BY <1>1, SeqMonotonic, EmptySeq
<1>3. [s EXCEPT ![Len(s)] = f] \in Seq(S \cup {f})
  BY <1>2, ExceptSeq
<1>4. ASSUME NEW h, IsFrame(h)
      PROVE  IsStack(Append([s EXCEPT ![Len(s)] = f], h))
  <2>1. [s EXCEPT ![Len(s)] = f] \in Seq(S \cup {f, h})
    BY <1>3, SeqMonotonic
  <2>2. Append([s EXCEPT ![Len(s)] = f], h) \in Seq(S \cup {f, h})
    BY <2>1, AppendProperties
  <2> QED
    BY <1>1, <1>4, <2>2 DEF IsStack
<1> QED
  BY <1>1, <1>3, <1>4 DEF IsStack

-------------------------------------------------------------------------------
(* What jumps do to the ranges. *)

(* Wherever a jump leads, the ranges stay disjoint, and the work items it   *)
(* makes are for its target.                                                *)
LEMMA JumpKeeps ==
  ASSUME NEW g, NEW r, GoodRanges(r), NEW src, NEW dest \in Addresses, NEW proc,
         NEW j, j = EnqueueJumpTarget(g, r, src, dest, proc)
  PROVE  GoodRanges(j.ranges) /\ IsQueue(j.items)
<1>1. CASE dest \notin DOMAIN r
  <2>1. j = JumpToNewBlock(g, r, src, dest, proc)
    BY <1>1 DEF EnqueueJumpTarget
  <2> DEFINE r1 == MakeRange(r, dest, Newest(g) + 1)
             g1 == MakeBlock(g, r, dest, proc)
             b == Newest(g1)
  <2>2. GoodRanges(r1)
    BY <1>1, AddKeeps, SplitKeeps DEF MakeRange
  <2>3. GoodRanges(Without(r1, dest))
    BY <2>2, WithoutKeeps
  <2>4. j = SettleBlock(g1, r1, src, dest, proc)
    BY <2>1 DEF JumpToNewBlock
  <2>5. \/ j = Enqueued(g1, r1, b, <<Item("block", dest, None)>>)
        \/ \E k : j = EnqueuedNewest(k, r1, <<>>)
        \/ \E k : j = EnqueuedNewest(k, Without(r1, dest),
                                     <<Item("procedure", dest, None),
                                       Item("promote", dest, b)>>)
    <3> HIDE DEF g1, r1
    <3> QED
      BY <2>4, Zenon DEF SettleBlock
  <2> HIDE DEF g1, r1, b
  <2> QED
    BY <2>2, <2>3, <2>5, QueuesOfItems DEF Enqueued, EnqueuedNewest
<1>2. CASE dest \in DOMAIN r
  <2>1. j = Enqueued(g, r, r[dest].block, <<>>) \/ j = JumpToForeignBlock(g, r, src, dest, proc)
    BY <1>2 DEF EnqueueJumpTarget
  <2>2. \E c, k, q : /\ j = Enqueued(k, r, c, q)
                     /\ q \in {<<>>, <<Item("promote", dest, r[dest].block)>>}
    BY <2>1, Zenon DEF JumpToForeignBlock, EnqueuedNewest
  <2> QED
    BY <2>2, QueuesOfItems DEF Enqueued
<1> QED
  BY <1>1, <1>2

-------------------------------------------------------------------------------
(* Parts of steps.  What they keep: *)
Kept == GoodRanges(ranges') /\ IsStack(frames')

(* The top frame may be replaced, and another put on it. *)
LEMMA SetTopKeeps ==
  ASSUME RangesInv, Scanning, NEW f, IsFrame(f)
  PROVE  IsStack(SetTop(f)) /\ \A h : IsFrame(h) => IsStack(Append(SetTop(f), h))
BY StackUpdate DEF RangesInv, Scanning, SetTop

LEMMA TopIsFrame ==
  ASSUME RangesInv, Scanning
  PROVE  IsFrame(Top)
BY StackTop DEF RangesInv, Scanning, Top

(* A frame is made of a queue, and of an address once it is at work. *)
LEMMA FrameOfFields ==
  ASSUME NEW p, NEW q, IsQueue(q)
  PROVE  /\ IsFrame(Frame(p, q))
         /\ \A b : \A a \in 0 .. Beyond :
               IsFrame([Frame(p, q) EXCEPT !.block = b, !.addr = a])
<1>1. None \in 0 .. Beyond
  BY ScannerAssumption DEF None, Beyond
<1>2. ASSUME NEW b, NEW a \in 0 .. Beyond
      PROVE  IsFrame([proc |-> p, queue |-> q, block |-> b, addr |-> a,
                      callee |-> None])
  BY DEF IsFrame
<1>3. ASSUME NEW b, NEW a \in 0 .. Beyond
      PROVE  IsFrame([Frame(p, q) EXCEPT !.block = b, !.addr = a])
  <2> DEFINE h == [Frame(p, q) EXCEPT !.block = b]
  <2>1. h = [proc |-> p, queue |-> q, block |-> b, addr |-> None, callee |-> None]
    BY DEF Frame
  <2> HIDE DEF h
  <2>2. [h EXCEPT !.addr = a]
            = [proc |-> p, queue |-> q, block |-> b, addr |-> a, callee |-> None]
    BY <2>1
  <2>3. [Frame(p, q) EXCEPT !.block = b, !.addr = a]
            = [proc |-> p, queue |-> q, block |-> b, addr |-> a, callee |-> None]
    BY <2>2 DEF h
  <2> QED
    BY <1>2, <2>3
<1> QED
  BY <1>1, <1>2, <1>3 DEF Frame

LEMMA LeaveBlockKeeps ==
  ASSUME RangesInv, Scanning, NEW g, NEW r, GoodRanges(r),
         NEW items, IsQueue(items), LeaveBlock(g, r, items)
  PROVE  Kept
<1>1. IsQueue(Top.queue \o items)
  BY TopIsFrame, QueueConcat DEF IsFrame
<1>2. IsFrame(Frame(Top.proc, Top.queue \o items))
  BY <1>1, FrameOfFields
<1> QED
  BY <1>2, SetTopKeeps DEF Kept, LeaveBlock

LEMMA GoOnKeeps ==
  ASSUME RangesInv, Scanning, NEW g, NEW r, GoodRanges(r), NEW b,
         NEW next \in Positions, NEW items, IsQueue(items),
         GoOn(g, r, b, next, items)
  PROVE  Kept
<1> DEFINE proc == g.heap[b].proc
<1>1. CASE next \in DOMAIN g.procs \ {proc}
  <2>1. \E k : LeaveBlock(k, r, items)
    BY <1>1 DEF GoOn
  <2> QED
    BY <2>1, LeaveBlockKeeps
<1>2. CASE /\ next \notin DOMAIN g.procs \ {proc}
           /\ InRange(r, next) /\ FindContainingBlock(r, next) # b
  <2>1. PICK jump : /\ jump = EnqueueJumpTarget(g, r, Pos, next, proc)
                    /\ LeaveBlock(EnsureEdge(jump.g, b, jump.block), jump.ranges,
                                  items \o jump.items)
    BY <1>2 DEF GoOn
  <2>2. next \in Addresses
    <3>1. RangesOf(r) /\ AtOrBelow(r, next) # {} /\ next < r[Max(AtOrBelow(r, next))].end
      BY <1>2 DEF InRange, GoodRanges
    <3>2. PICK low \in DOMAIN r : low = Max(AtOrBelow(r, next))
      BY <3>1, Nearest
    <3>3. next < r[low].end /\ r[low].end \in Positions
      BY <3>1, <3>2 DEF RangesOf
    <3> QED
      BY <3>3, ScannerAssumption DEF Positions, Addresses, Beyond
  <2>3. GoodRanges(jump.ranges) /\ IsQueue(jump.items)
    BY <2>1, <2>2, JumpKeeps
  <2>4. IsQueue(items \o jump.items)
    BY <2>3, QueueConcat
  <2> QED
    BY <2>1, <2>3, <2>4, LeaveBlockKeeps
<1>3. CASE /\ next \notin DOMAIN g.procs \ {proc}
           /\ ~(InRange(r, next) /\ FindContainingBlock(r, next) # b)
  <2>1. IsQueue(Top.queue \o items)
    BY TopIsFrame, QueueConcat DEF IsFrame
  <2>2. next \in 0 .. Beyond
    BY ScannerAssumption DEF Positions, Beyond
  <2>3. IsFrame([Frame(Top.proc, Top.queue \o items) EXCEPT !.block = b, !.addr = next])
    BY <2>1, <2>2, FrameOfFields
  <2>4. frames' = SetTop([Frame(Top.proc, Top.queue \o items) EXCEPT
                             !.block = b, !.addr = next]) /\ ranges' = r
    BY <1>3 DEF GoOn
  <2> QED
    BY <2>3, <2>4, SetTopKeeps DEF Kept
<1> QED
  BY <1>1, <1>2, <1>3

LEMMA ScanProcedureKeeps ==
  ASSUME RangesInv, Scanning, NEW addr \in Addresses, NEW top, IsFrame(top),
         ScanProcedure(addr, top)
  PROVE  Kept
<1> DEFINE g == EnsureProcedure(program, addr)
           r == TerminateAnyBlockAt(ranges, addr)
<1>1. GoodRanges(r)
  <2>1. addr \in Positions
    BY ScannerAssumption DEF Addresses, Positions, Beyond
  <2> QED
    BY <2>1, TerminateKeeps DEF RangesInv, TerminateAnyBlockAt
<1> HIDE DEF r, g
<1>2. CASE addr \in visited
  <2>1. ranges' = r /\ frames' = SetTop(top)
    BY <1>2 DEF ScanProcedure, r
  <2> QED
    BY <1>1, <2>1, SetTopKeeps DEF Kept
<1>3. CASE addr \notin visited
  <2>1. PICK jump : /\ jump = EnqueueJumpTarget(g, r, addr, addr, addr)
                    /\ ranges' = jump.ranges
                    /\ frames' = Append(SetTop(top), Frame(addr, jump.items))
    BY <1>3 DEF ScanProcedure, g, r
  <2>2. GoodRanges(jump.ranges) /\ IsQueue(jump.items)
    BY <1>1, <2>1, JumpKeeps
  <2>3. IsFrame(Frame(addr, jump.items))
    BY <2>2, ScannerAssumption DEF Frame, IsFrame, None, Beyond
  <2> QED
    BY <2>1, <2>2, <2>3, SetTopKeeps DEF Kept
<1> QED
  BY <1>2, <1>3

(* Taking a work item leaves a frame whose queue holds the others. *)
LEMMA RestIsFrame ==
  ASSUME RangesInv, NEW i, Dequeued(i)
  PROVE  /\ Scanning
         /\ Top.queue[i].addr \in Addresses
         /\ IsFrame(Rest(i))
         /\ \A b : IsFrame([Rest(i) EXCEPT !.block = b, !.addr = Top.queue[i].addr])
<1>1. Scanning /\ i \in DOMAIN Top.queue
  BY DEF Dequeued, Idle
<1>2. IsQueue(Top.queue)
  BY <1>1, TopIsFrame DEF IsFrame
<1>3. Top.queue[i].addr \in Addresses /\ IsQueue(RemoveAt(Top.queue, i))
  BY <1>1, <1>2, QueueRest
<1>4. Addresses \subseteq 0 .. Beyond
  BY ScannerAssumption DEF Addresses, Beyond
<1> QED
  BY <1>1, <1>3, <1>4, FrameOfFields DEF Rest

-------------------------------------------------------------------------------
(* Steps. *)

(* Within a block the position is an address. *)
LEMMA WithinIsAddress ==
  ASSUME RangesInv, Parsing, Within
  PROVE  Pos \in Addresses /\ Scanning
<1>1. Scanning /\ Top.addr \in 0 .. Beyond
  BY TopIsFrame DEF Parsing, IsFrame
<1>2. Pos # None
  <2> SUFFICES ASSUME Pos = None PROVE FALSE
    OBVIOUS
  <2>1. AtOrBelow(ranges, Pos) = {}
    BY ScannerAssumption DEF AtOrBelow, RangesInv, GoodRanges, RangesOf, Addresses, None
  <2> QED
    BY <2>1 DEF Within, Parsing, FindContainingBlock, InRange
<1> QED
  BY <1>1, <1>2, ScannerAssumption DEF Within, Pos, None, Addresses, Beyond

(* What instructions may be. *)
LEMMA InstructionTypes ==
  ASSUME NEW addr \in Addresses, NEW i \in InstructionsAt(addr)
  PROVE  /\ i.op \in {"goto", "branch", "call"} => i.to \in Addresses
         /\ addr + i.length \in Positions
         /\ addr + 1 \in Positions
BY ScannerAssumption
   DEF InstructionsAt, Targets, Lengths, Addresses, Positions, Beyond

(* Reading an instruction at an address. *)
LEMMA ReadKeeps ==
  ASSUME RangesInv, Parsing, Within, NEW i \in InstructionsAt(Pos),
         Linear(i) \/ Stop(i) \/ Goto(i) \/ Branch(i) \/ Call(i)
  PROVE  Kept
<1>1. /\ Scanning /\ GoodRanges(ranges) /\ IsQueue(<<>>)
      /\ Pos \in Addresses /\ Pos + 1 \in Positions
      /\ Pos + i.length \in Positions
      /\ i.op \in {"goto", "branch", "call"} => i.to \in Addresses
  BY WithinIsAddress, InstructionTypes, QueuesOfItems DEF RangesInv
<1>2. GoodRanges(TerminateBlock(ranges, Pos + 1))
  BY <1>1, TerminateKeeps
<1>3. CASE Linear(i)
  <2>1. PICK g : GoOn(g, ranges, BlockCur, Pos + i.length, <<>>)
    BY <1>3 DEF Linear
  <2> QED
    BY <1>1, <2>1, GoOnKeeps
<1>4. CASE Stop(i)
  <2>1. PICK g, r : r \in {ranges, TerminateBlock(ranges, Pos + 1)} /\ LeaveBlock(g, r, <<>>)
    BY <1>4 DEF Stop
  <2> QED
    BY <1>1, <1>2, <2>1, LeaveBlockKeeps
<1>5. CASE Goto(i)
  <2>1. PICK first : first = EnqueueJumpTarget(program, TerminateBlock(ranges, Pos + 1),
                                               Pos, i.to, ProcCur) /\
        \E g, h, again :
            /\ again = IF i.to = Pos
                       THEN EnqueueJumpTarget(g, first.ranges, Pos, i.to, ProcCur)
                       ELSE Enqueued(g, first.ranges, None, <<>>)
            /\ LeaveBlock(h, again.ranges, first.items \o again.items)
    BY <1>5 DEF Goto
  <2>2. PICK g, h, again :
            /\ again = IF i.to = Pos
                       THEN EnqueueJumpTarget(g, first.ranges, Pos, i.to, ProcCur)
                       ELSE Enqueued(g, first.ranges, None, <<>>)
            /\ LeaveBlock(h, again.ranges, first.items \o again.items)
    BY <2>1
  <2>3. i.to \in Addresses
    BY <1>1, <1>5 DEF Goto
  <2>4. GoodRanges(first.ranges) /\ IsQueue(first.items)
    BY <1>2, <2>1, <2>3, JumpKeeps
  <2>5. GoodRanges(again.ranges) /\ IsQueue(again.items)
    <3>1. CASE i.to = Pos
      BY <2>2, <2>3, <2>4, <3>1, JumpKeeps
    <3>2. CASE i.to # Pos
      <4>1. again = Enqueued(g, first.ranges, None, <<>>)
        BY <2>2, <3>2
      <4> QED
        BY <1>1, <2>4, <4>1 DEF Enqueued
    <3> QED
      BY <3>1, <3>2
  <2>6. IsQueue(first.items \o again.items)
    BY <2>4, <2>5, QueueConcat
  <2> QED
    BY <1>1, <2>2, <2>5, <2>6, LeaveBlockKeeps
<1>6. CASE Branch(i)
  <2>1. PICK g, then :
            /\ then = EnqueueJumpTarget(g, TerminateBlock(ranges, Pos + 1),
                                        Pos, i.to, ProcCur)
            /\ \/ LeaveBlock(then.g, then.ranges, then.items)
               \/ /\ Pos + 1 # Beyond
                  /\ \E else :
                     /\ else = EnqueueJumpTarget(then.g, then.ranges, Pos,
                                                 Pos + 1, ProcCur)
                     /\ \/ \E h : LeaveBlock(h, else.ranges, then.items \o else.items)
                        \/ \E h : GoOn(h, else.ranges, else.block, Pos + 1,
                                       then.items \o else.items)
    BY <1>6, ZenonT(30) DEF Branch
  <2>2. GoodRanges(then.ranges) /\ IsQueue(then.items)
    BY <1>1, <1>2, <1>6, <2>1, JumpKeeps, Zenon DEF Branch
  <2>3. CASE LeaveBlock(then.g, then.ranges, then.items)
    BY <1>1, <2>2, <2>3, LeaveBlockKeeps
  <2>4. CASE ~LeaveBlock(then.g, then.ranges, then.items)
    <3>1. PICK else :
              /\ else = EnqueueJumpTarget(then.g, then.ranges, Pos, Pos + 1, ProcCur)
              /\ \/ \E h : LeaveBlock(h, else.ranges, then.items \o else.items)
                 \/ \E h : GoOn(h, else.ranges, else.block, Pos + 1,
                                then.items \o else.items)
      BY <2>1, <2>4
    <3>2. Pos + 1 \in Addresses
      BY <1>1, <2>1, <2>4, ScannerAssumption DEF Positions, Addresses, Beyond
    <3>3. GoodRanges(else.ranges) /\ IsQueue(else.items)
      BY <2>2, <3>1, <3>2, JumpKeeps
    <3>4. IsQueue(then.items \o else.items)
      BY <2>2, <3>3, QueueConcat
    <3> QED
      BY <1>1, <3>1, <3>3, <3>4, LeaveBlockKeeps, GoOnKeeps
  <2> QED
    BY <2>3, <2>4, Zenon
<1>7. CASE Call(i)
  <2>1. ScanProcedure(i.to, [Top EXCEPT !.callee = i.to]) /\ i.to \in Addresses
    BY <1>1, <1>7 DEF Call
  <2>2. IsFrame([Top EXCEPT !.callee = i.to])
    <3>1. PICK f : f = Top /\ IsFrame(f)
      BY <1>1, TopIsFrame
    <3>2. [f EXCEPT !.callee = i.to]
              = [proc |-> f.proc, queue |-> f.queue, block |-> f.block,
                 addr |-> f.addr, callee |-> i.to]
      BY <3>1 DEF IsFrame
    <3>3. f.addr \in Addresses
      BY <1>1, <3>1 DEF Pos
    <3> QED
      BY <3>1, <3>2, <3>3 DEF IsFrame
  <2> QED
    BY <1>1, <2>1, <2>2, ScanProcedureKeeps
<1> QED
  BY <1>3, <1>4, <1>5, <1>6, <1>7

(* The invariant holds at first. *)
LEMMA RangesAtFirst ==
  ASSUME Init
  PROVE  RangesInv
<1>1. PICK syms \in [1 .. Cardinality(Symbols) -> Symbols] :
          frames = <<Frame(None, [i \in DOMAIN syms |-> Item("symbol", syms[i], None)])>>
  BY DEF Init
<1>2. Cardinality(Symbols) \in Nat
  <2>1. IsFiniteSet(Addresses)
    BY ScannerAssumption, FS_Interval DEF Addresses
  <2> QED
    BY <2>1, ScannerAssumption, FS_Subset, FS_CardinalityType
<1> DEFINE q == [i \in DOMAIN syms |-> Item("symbol", syms[i], None)]
           S == {Item("symbol", a, None) : a \in Addresses}
<1>3. IsQueue(q)
  <2>1. q \in [1 .. Cardinality(Symbols) -> S]
    BY ScannerAssumption
  <2>2. q \in Seq(S)
    <3> HIDE DEF q, S
    <3> QED
      BY <1>2, <2>1
  <2>3. \A x \in S : x.addr \in Addresses
    BY DEF Item
  <2> HIDE DEF q, S
  <2> QED
    BY <2>2, <2>3 DEF IsQueue
<1>4. IsStack(frames)
  <2> HIDE DEF q
  <2> DEFINE f == Frame(None, q)
  <2>1. IsFrame(f)
    BY <1>3, FrameOfFields
  <2>2. frames = <<f>>
    BY <1>1 DEF q
  <2> HIDE DEF f
  <2>3. frames \in Seq({f})
    BY <2>2
  <2> QED
    BY <2>1, <2>3 DEF IsStack
<1>5. CodeRead
  BY DEF Init, CodeRead
<1>6. GoodRanges(ranges)
  BY DEF Init, GoodRanges, RangesOf, Disjoint
<1> QED
  BY <1>4, <1>5, <1>6 DEF RangesInv

(* Every step keeps it. *)
LEMMA RangesStep ==
  ASSUME RangesInv, [Next]_vars
  PROVE  RangesInv'
<1> USE DEF RangesInv
<1>1. ASSUME UNCHANGED <<ranges, frames>>
      PROVE  Kept
  BY <1>1 DEF Kept
<1>2. ASSUME Kept, UNCHANGED code
      PROVE  RangesInv'
  BY <1>2 DEF Kept, CodeRead
<1>3. ASSUME NEW i, StartSymbol(i)
      PROVE  RangesInv'
  <2>1. Dequeued(i) /\ UNCHANGED code
    BY <1>3 DEF StartSymbol
  <2>2. /\ Scanning /\ Top.queue[i].addr \in Addresses /\ IsFrame(Rest(i))
    BY <2>1, RestIsFrame
  <2>3. \/ frames' = SetTop(Rest(i)) /\ UNCHANGED ranges
        \/ ScanProcedure(Top.queue[i].addr, Rest(i))
    BY <1>3 DEF StartSymbol
  <2>4. Kept
    BY <2>2, <2>3, SetTopKeeps, ScanProcedureKeeps DEF Kept
  <2> QED
    BY <1>2, <2>1, <2>4
<1>4. ASSUME NEW i, StartProcedure(i)
      PROVE  RangesInv'
  <2>1. /\ Dequeued(i) /\ UNCHANGED code
        /\ ScanProcedure(Top.queue[i].addr, Rest(i))
    BY <1>4 DEF StartProcedure
  <2>2. Kept
    BY <2>1, RestIsFrame, ScanProcedureKeeps
  <2> QED
    BY <1>2, <2>1, <2>2
<1>5. ASSUME NEW i, StartPromotion(i)
      PROVE  RangesInv'
  <2>1. /\ Dequeued(i) /\ UNCHANGED <<code, ranges>>
        /\ frames' = SetTop(Rest(i))
    BY <1>5 DEF StartPromotion
  <2>2. Kept
    BY <2>1, RestIsFrame, SetTopKeeps DEF Kept
  <2> QED
    BY <1>2, <2>1, <2>2
<1>6. ASSUME NEW i, StartBlock(i)
      PROVE  RangesInv'
  <2>1. /\ Dequeued(i) /\ UNCHANGED <<code, ranges>>
        /\ \/ frames' = SetTop(Rest(i))
           \/ \E b : frames' = SetTop([Rest(i) EXCEPT !.block = b,
                                                      !.addr = Top.queue[i].addr])
    BY <1>6 DEF StartBlock
  <2>2. Kept
    BY <2>1, RestIsFrame, SetTopKeeps DEF Kept
  <2> QED
    BY <1>2, <2>1, <2>2
<1>7. ASSUME ProcedureScanned
      PROVE  RangesInv'
  <2>1. Scanning /\ frames' = Front(frames) /\ UNCHANGED <<code, ranges>>
    BY <1>7 DEF ProcedureScanned, Drained, Idle
  <2>2. Kept
    BY <2>1, StackTop DEF Kept, Scanning
  <2> QED
    BY <1>2, <2>1, <2>2
<1>8. ASSUME Finish
      PROVE  RangesInv'
  <2>1. frames' = <<>> /\ UNCHANGED <<code, ranges>>
    BY <1>8 DEF Finish
  <2> DEFINE S == {}
  <2>2. frames' \in Seq(S) /\ \A f \in S : IsFrame(f)
    BY <2>1
  <2> HIDE DEF S
  <2>3. Kept
    BY <2>1, <2>2 DEF Kept, IsStack
  <2> QED
    BY <1>2, <2>1, <2>3
<1>9. ASSUME FellOff
      PROVE  RangesInv'
  <2>1. Scanning /\ LeaveBlock(program, ranges, <<>>) /\ UNCHANGED code
    BY <1>9 DEF FellOff, Parsing
  <2>2. Kept
    BY <2>1, LeaveBlockKeeps, QueuesOfItems
  <2> QED
    BY <1>2, <2>1, <2>2
<1>10. ASSUME ReadInstruction
       PROVE  RangesInv'
  <2>1. Parsing /\ Within /\ Pos \in Addresses
    BY <1>10, WithinIsAddress DEF ReadInstruction
  <2>2. PICK i : /\ i \in IF Pos \in DOMAIN code THEN {code[Pos]} ELSE InstructionsAt(Pos)
                 /\ code' = Set(code, Pos, i)
                 /\ Linear(i) \/ Stop(i) \/ Goto(i) \/ Branch(i) \/ Call(i)
    BY <1>10, Zenon DEF ReadInstruction
  <2>3. i \in InstructionsAt(Pos)
    BY <2>1, <2>2 DEF CodeRead
  <2>4. Kept
    BY <2>1, <2>2, <2>3, ReadKeeps
  <2>5. CodeRead'
    <3>1. PICK pos : pos = Pos /\ pos \in Addresses
      BY <2>1
    <3>2. code' = [a \in DOMAIN code \cup {pos} |-> IF a = pos THEN i ELSE code[a]]
      BY <2>2, <3>1 DEF Set
    <3> QED
      BY <2>3, <3>1, <3>2 DEF CodeRead
  <2> QED
    BY <2>4, <2>5 DEF Kept
<1>11. ASSUME CallScanned
       PROVE  RangesInv'
  <2>1. Scanning /\ Top.callee # None /\ UNCHANGED code
    BY <1>11 DEF CallScanned
  <2>2. PICK g : GoOn(g, ranges, BlockCur, Pos + 1, <<>>)
    BY <1>11 DEF CallScanned
  <2>3. Pos \in Addresses
    BY <2>1, TopIsFrame DEF IsFrame, Pos
  <2>4. Pos + 1 \in Positions
    BY <2>3, ScannerAssumption DEF Addresses, Positions, Beyond
  <2>5. Kept
    BY <2>1, <2>2, <2>4, GoOnKeeps, QueuesOfItems
  <2> QED
    BY <1>2, <2>1, <2>5
<1>12. ASSUME Cancel
       PROVE  RangesInv'
  BY <1>1, <1>2, <1>12 DEF Cancel
<1>13. ASSUME UNCHANGED vars
       PROVE  RangesInv'
  BY <1>1, <1>2, <1>13 DEF vars
<1> QED
  BY <1>3, <1>4, <1>5, <1>6, <1>7, <1>8, <1>9, <1>10, <1>11, <1>12, <1>13 DEF Next, Step

(* For every image, set of instructions and set of symbols: ranges, the     *)
(* instructions read and the frames are well-formed, and no two ranges      *)
(* overlap.                                                                 *)
THEOREM RangesInvariant == Spec => []RangesInv
<1>1. Init => RangesInv
  BY RangesAtFirst
<1>2. RangesInv /\ [Next]_vars => RangesInv'
  BY RangesStep
<1> QED
  BY <1>1, <1>2, PTL DEF Spec

(* The check that SplitBlock used to make (SanityCheck) never fails.        *)
THEOREM RangesStayDisjoint == Spec => []RangesDisjoint
<1>1. RangesInv => RangesDisjoint
  BY DEF RangesInv, GoodRanges, Disjoint, RangesDisjoint
<1> QED
  BY <1>1, RangesInvariant, PTL

-------------------------------------------------------------------------------
(* What the ranges hold. *)

(* The range at a holds x. *)
Holds(r, x, a) == a \in DOMAIN r /\ a <= x /\ x < r[a].end

(* The range that holds x is the one FindContainingBlock finds.            *)
LEMMA Holding ==
  ASSUME NEW r, GoodRanges(r), NEW x \in Positions, NEW a, Holds(r, x, a)
  PROVE  InRange(r, x) /\ FindContainingBlock(r, x) = r[a].block
<1>1. /\ RangesOf(r) /\ Disjoint(r) /\ DOMAIN r \subseteq Int /\ x \in Int
      /\ a \in DOMAIN r /\ a <= x /\ x < r[a].end
  BY ScannerAssumption DEF Holds, GoodRanges, RangesOf, Addresses, Positions, Beyond
<1>2. AtOrBelow(r, x) # {}
  BY <1>1 DEF AtOrBelow
<1>3. PICK low \in DOMAIN r : /\ low = Max(AtOrBelow(r, x)) /\ low <= x
                              /\ \A c \in DOMAIN r : c <= x => c <= low
  BY <1>1, <1>2, Nearest
<1>4. low = a
  <2>1. a <= low /\ r[a].end \in Int /\ low \in Int /\ a \in Int
    BY <1>1, <1>3, ScannerAssumption DEF RangesOf, Positions, Beyond
  <2>2. a < low => r[a].end <= low
    BY <1>1, <1>3 DEF Disjoint
  <2> QED
    BY <1>1, <1>3, <2>1, <2>2
<1>5. InRange(r, x)
  BY <1>1, <1>2, <1>3, <1>4 DEF InRange
<1> QED
  BY <1>3, <1>4, <1>5 DEF FindContainingBlock

(* Where FindContainingBlock finds a range, that range holds x.            *)
LEMMA Held ==
  ASSUME NEW r, GoodRanges(r), NEW x \in Positions, InRange(r, x)
  PROVE  \E a : Holds(r, x, a) /\ a = Max(AtOrBelow(r, x))
                /\ FindContainingBlock(r, x) = r[a].block
<1>1. AtOrBelow(r, x) # {} /\ x < r[Max(AtOrBelow(r, x))].end
  BY DEF InRange
<1>2. Max(AtOrBelow(r, x)) \in DOMAIN r /\ Max(AtOrBelow(r, x)) <= x
  BY <1>1, Nearest DEF GoodRanges
<1> QED
  BY <1>1, <1>2 DEF Holds, FindContainingBlock

(* The ranges after a block was made. *)
RangeAdded(r, addr, b, t) ==
    /\ DOMAIN t = DOMAIN r \cup {addr}
    /\ t[addr].block = b
    /\ \A a \in DOMAIN r : t[a] = r[a]

(* What blocks.Add does to the ranges.                                     *)
LEMMA AddRangeIs ==
  ASSUME NEW r, NEW addr, addr \notin DOMAIN r, NEW b
  PROVE  RangeAdded(r, addr, b, AddRange(r, addr, b))
<1> SUFFICES ASSUME NEW t, t = AddRange(r, addr, b)
             PROVE  RangeAdded(r, addr, b, t)
  OBVIOUS
<1>1. PICK end : end = Min(Above(r, addr) \cup {Beyond})
  OBVIOUS
<1>2. t = [a \in DOMAIN r \cup {addr} |->
              IF a = addr THEN [block |-> b, end |-> end] ELSE r[a]]
  BY <1>1 DEF AddRange, Set
<1> QED
  BY <1>2 DEF RangeAdded

(* What the split of a range does: the range that held the address ends    *)
(* there, and the new one has what was left of it.                         *)
LEMMA SplitRangeIs ==
  ASSUME NEW r, GoodRanges(r), NEW addr \in Addresses, addr \notin DOMAIN r,
         InRange(r, addr), NEW b, NEW t
  PROVE  t = SplitRange(r, addr, b) =>
         \E low \in DOMAIN r :
            /\ Holds(r, addr, low) /\ low < addr
            /\ FindContainingBlock(r, addr) = r[low].block
            /\ DOMAIN t = DOMAIN r \cup {addr}
            /\ t[addr].block = b /\ t[addr].end = r[low].end
            /\ t[low].block = r[low].block /\ t[low].end = addr
            /\ \A a \in DOMAIN r \ {low} : t[a] = r[a]
<1>h. HAVE t = SplitRange(r, addr, b)
<1> USE <1>h
<1>1. addr \in Positions /\ DOMAIN r \subseteq Int /\ addr \in Int
  BY ScannerAssumption DEF GoodRanges, RangesOf, Addresses, Positions, Beyond
<1>2. PICK low : /\ Holds(r, addr, low) /\ low = Max(AtOrBelow(r, addr))
                 /\ FindContainingBlock(r, addr) = r[low].block
  BY <1>1, Held
<1>3. low \in DOMAIN r /\ low # addr /\ low < addr
  BY <1>1, <1>2 DEF Holds
<1>4. PICK s : s = AddRange(r, addr, b)
  OBVIOUS
<1>5. /\ DOMAIN s = DOMAIN r \cup {addr}
      /\ s[addr].block = b
      /\ \A a \in DOMAIN r : s[a] = r[a]
  <2>1. RangeAdded(r, addr, b, s)
    BY <1>4, AddRangeIs
  <2> QED
    BY <2>1 DEF RangeAdded
<1>6. PICK e : e = r[low].end
  OBVIOUS
<1>7. PICK u : u = [s EXCEPT ![addr].end = e]
  OBVIOUS
<1>8. t = [u EXCEPT ![low].end = addr]
  BY <1>2, <1>4, <1>6, <1>7 DEF SplitRange
<1> HIDE <1>h
<1>9. \E c, d : s[addr] = [block |-> c, end |-> d]
  BY <1>4 DEF AddRange, Set
<1>10. \E c, d : r[low] = [block |-> c, end |-> d]
  BY <1>3 DEF GoodRanges, RangesOf
<1>11. /\ DOMAIN u = DOMAIN r \cup {addr}
       /\ u[addr].block = b /\ u[addr].end = e
       /\ \A a \in DOMAIN r : u[a] = r[a]
  BY <1>5, <1>7, <1>9
<1>12. /\ DOMAIN t = DOMAIN r \cup {addr}
       /\ t[addr] = u[addr]
       /\ \A a \in DOMAIN r \ {low} : t[a] = r[a]
  BY <1>3, <1>8, <1>11
<1>13. t[low].block = r[low].block /\ t[low].end = addr
  <2>1. u[low] = r[low] /\ low \in DOMAIN u
    BY <1>3, <1>11
  <2>2. t[low] = [u[low] EXCEPT !.end = addr]
    BY <1>8, <2>1
  <2> QED
    BY <1>10, <2>1, <2>2
<1> QED
  BY <1>2, <1>3, <1>6, <1>11, <1>12, <1>13

(* EnqueueJumpTarget's new range keeps the block of every other.           *)
LEMMA MakeRangeBlocks ==
  ASSUME NEW r, GoodRanges(r), NEW addr \in Addresses, addr \notin DOMAIN r,
         NEW b, NEW t
  PROVE  t = MakeRange(r, addr, b) =>
         /\ GoodRanges(t)
         /\ DOMAIN t = DOMAIN r \cup {addr}
         /\ t[addr].block = b
         /\ \A a \in DOMAIN r : t[a].block = r[a].block
<1>h. HAVE t = MakeRange(r, addr, b)
<1> USE <1>h
<1>1. GoodRanges(t)
  BY AddKeeps, SplitKeeps DEF MakeRange
<1>2. CASE InRange(r, addr)
  <2>1. t = SplitRange(r, addr, b)
    BY <1>2 DEF MakeRange
  <2> HIDE <1>h
  <2> QED
    BY <1>1, <1>2, <2>1, SplitRangeIs
<1>3. CASE ~InRange(r, addr)
  <2>1. t = AddRange(r, addr, b)
    BY <1>3 DEF MakeRange
  <2> HIDE <1>h
  <2>2. /\ DOMAIN t = DOMAIN r \cup {addr}
        /\ t[addr].block = b
        /\ \A a \in DOMAIN r : t[a] = r[a]
    <3>1. RangeAdded(r, addr, b, t)
      BY <2>1, AddRangeIs
    <3> QED
      BY <3>1 DEF RangeAdded
  <2> QED
    BY <1>1, <2>2
<1> QED
  BY <1>2, <1>3

(* What a range held, it or the new one behind it holds; and the other      *)
(* ranges hold what they held even without the new one.                     *)
LEMMA MakeRangeHolds ==
  ASSUME NEW r, GoodRanges(r), NEW addr \in Addresses, addr \notin DOMAIN r,
         NEW b, NEW t, NEW x \in Positions, NEW a, Holds(r, x, a)
  PROVE  t = MakeRange(r, addr, b) =>
         \/ Holds(t, x, a) /\ Holds(Without(t, addr), x, a)
         \/ InRange(r, addr) /\ Holds(r, addr, a) /\ Holds(t, x, addr)
<1>h. HAVE t = MakeRange(r, addr, b)
<1> USE <1>h
<1>1. /\ a \in DOMAIN r /\ a <= x /\ x < r[a].end /\ a # addr /\ x \in Int
      /\ addr \in Int
  BY ScannerAssumption DEF Holds, Positions, Addresses, Beyond
<1>2. a \in DOMAIN t /\ x < t[a].end => Holds(t, x, a) /\ Holds(Without(t, addr), x, a)
  BY <1>1 DEF Holds, Without
<1>3. CASE InRange(r, addr)
  <2>1. t = SplitRange(r, addr, b)
    BY <1>3 DEF MakeRange
  <2> HIDE <1>h
  <2>2. PICK low \in DOMAIN r :
            /\ Holds(r, addr, low)
            /\ DOMAIN t = DOMAIN r \cup {addr}
            /\ t[addr].end = r[low].end
            /\ t[low].end = addr
            /\ \A c \in DOMAIN r \ {low} : t[c] = r[c]
    BY <1>3, <2>1, SplitRangeIs
  <2>3. CASE a # low
    BY <1>1, <1>2, <2>2, <2>3
  <2>4. CASE a = low /\ x < addr
    BY <1>1, <1>2, <2>2, <2>4
  <2>5. CASE a = low /\ x >= addr
    BY <1>1, <1>3, <2>2, <2>5 DEF Holds
  <2> QED
    BY <1>1, <2>3, <2>4, <2>5
<1>4. CASE ~InRange(r, addr)
  <2>1. t = AddRange(r, addr, b)
    BY <1>4 DEF MakeRange
  <2> HIDE <1>h
  <2>2. DOMAIN t = DOMAIN r \cup {addr} /\ \A c \in DOMAIN r : t[c] = r[c]
    <3>1. RangeAdded(r, addr, b, t)
      BY <2>1, AddRangeIs
    <3> QED
      BY <3>1 DEF RangeAdded
  <2> QED
    BY <1>1, <1>2, <2>2
<1> QED
  BY <1>3, <1>4

(* Cutting a block at an address leaves its block, and what it holds below. *)
LEMMA TerminateBlocks ==
  ASSUME NEW r, GoodRanges(r), NEW addr \in Positions
  PROVE  /\ DOMAIN TerminateBlock(r, addr) = DOMAIN r
         /\ \A a \in DOMAIN r : TerminateBlock(r, addr)[a].block = r[a].block
<1>1. CASE AtOrBelow(r, addr) = {} \/ addr \in DOMAIN r
  BY <1>1 DEF TerminateBlock
<1>2. CASE ~(AtOrBelow(r, addr) = {} \/ addr \in DOMAIN r)
  <2>1. PICK low : low = Max(AtOrBelow(r, addr)) /\ low \in DOMAIN r
    BY <1>2, Nearest DEF GoodRanges
  <2>2. PICK c, d : r[low] = [block |-> c, end |-> d]
    BY <2>1 DEF GoodRanges, RangesOf
  <2>3. TerminateBlock(r, addr) = [r EXCEPT ![low].end = addr]
    BY <1>2, <2>1 DEF TerminateBlock
  <2>4. [r[low] EXCEPT !.end = addr] = [block |-> c, end |-> addr]
    BY <2>2
  <2>5. [r EXCEPT ![low].end = addr][low].block = c
    BY <2>1, <2>4
  <2> QED
    BY <2>1, <2>2, <2>3, <2>5
<1> QED
  BY <1>1, <1>2

(* Terminating after x keeps x in the range that held it.                  *)
LEMMA TerminateHolds ==
  ASSUME NEW r, GoodRanges(r), NEW x \in Addresses, InRange(r, x)
  PROVE  \E a : Holds(r, x, a) /\ Holds(TerminateBlock(r, x + 1), x, a)
<1>1. x \in Positions /\ x + 1 \in Positions /\ x \in Int /\ DOMAIN r \subseteq Int
  BY ScannerAssumption DEF GoodRanges, RangesOf, Addresses, Positions, Beyond
<1>2. PICK a : Holds(r, x, a)
  BY <1>1, Held
<1>3. a \in DOMAIN r /\ a <= x /\ x < r[a].end
  BY <1>2 DEF Holds
<1>4. CASE AtOrBelow(r, x + 1) = {} \/ x + 1 \in DOMAIN r
  BY <1>2, <1>4 DEF TerminateBlock
<1>5. CASE ~(AtOrBelow(r, x + 1) = {} \/ x + 1 \in DOMAIN r)
  <2>1. PICK low : low = Max(AtOrBelow(r, x + 1))
    OBVIOUS
  <2>2. TerminateBlock(r, x + 1) = [r EXCEPT ![low].end = x + 1]
    BY <1>5, <2>1 DEF TerminateBlock
  <2>3. CASE low = a
    <3>1. PICK c, d : r[a] = [block |-> c, end |-> d]
      BY <1>3 DEF GoodRanges, RangesOf
    <3>2. [r[a] EXCEPT !.end = x + 1] = [block |-> c, end |-> x + 1]
      BY <3>1
    <3>3. DOMAIN TerminateBlock(r, x + 1) = DOMAIN r /\ TerminateBlock(r, x + 1)[a].end = x + 1
      BY <1>3, <2>2, <2>3, <3>2
    <3> QED
      BY <1>1, <1>2, <1>3, <3>3 DEF Holds
  <2>4. CASE low # a
    <3>1. DOMAIN TerminateBlock(r, x + 1) = DOMAIN r /\ TerminateBlock(r, x + 1)[a] = r[a]
      BY <1>3, <2>2, <2>4
    <3> QED
      BY <1>2, <1>3, <3>1 DEF Holds
  <2> QED
    BY <2>3, <2>4
<1> QED
  BY <1>4, <1>5

-------------------------------------------------------------------------------
(* Ranges and the blocks they stand for. *)

(* The block of a range starts there and is listed. *)
RangesFit(g, r) ==
    \A a \in DOMAIN r :
       /\ r[a].block \in DOMAIN g.heap
       /\ g.heap[r[a].block].role = "code"
       /\ g.heap[r[a].block].addr = a
       /\ Listed(g, r[a].block)

(* Ranges fit a graph that has grown and lists what it did.                *)
LEMMA RangesStay ==
  ASSUME NEW g, NEW h, NEW r, RangesFit(g, r), Grows(g, h), Lists(g, h)
  PROVE  RangesFit(h, r)
BY DEF RangesFit, Grows, Lists

(* Nor do they mind a procedure that is made, ...                          *)
LEMMA RangesStayMade ==
  ASSUME NEW g, NEW h, NEW r, RangesFit(g, r), NEW addr, ProcedureMade(g, h, addr),
         Grows(g, h)
  PROVE  RangesFit(h, r)
BY DEF RangesFit, Grows, ProcedureMade, Listed

(* ... or edges that are added.                                            *)
LEMMA RangesStaySame ==
  ASSUME NEW g, NEW h, NEW r, RangesFit(g, r), SameNodes(g, h)
  PROVE  RangesFit(h, r)
BY DEF RangesFit, SameNodes, Listed

(* An address where no block starts gets one. *)
LEMMA MakeBlockKeeps ==
  ASSUME NEW X, NEW g, Well(g, X), NEW r, GoodRanges(r), RangesFit(g, r),
         NEW dest \in Addresses,
         NEW proc \in DOMAIN g.procs, proc \in X.procs \/ Entered(g, proc), NEW h
  PROVE  h = MakeBlock(g, r, dest, proc) =>
         /\ Well(h, X) /\ Keeps(g, h) /\ BlockMade(g, h, dest)
         /\ InRange(r, dest) =>
               h.heap[Newest(h)].proc = g.heap[FindContainingBlock(r, dest)].proc
         /\ ~InRange(r, dest) => h.heap[Newest(h)].proc = proc
<1>h. HAVE h = MakeBlock(g, r, dest, proc)
<1> USE <1>h
<1>1. dest \in Int /\ dest \in Positions
  BY ScannerAssumption DEF Addresses, Positions, Beyond
<1>2. CASE InRange(r, dest)
  <2>1. PICK b : b = FindContainingBlock(r, dest)
    OBVIOUS
  <2>2. h = SplitBlock(g, b, dest)
    BY <1>2, <2>1 DEF MakeBlock
  <2>3. b \in DOMAIN g.heap /\ g.heap[b].role = "code"
    <3>1. \E a : Holds(r, dest, a) /\ b = r[a].block
      BY <1>1, <1>2, <2>1, Held
    <3> QED
      BY <3>1 DEF Holds, RangesFit
  <2> HIDE <1>h
  <2>4. /\ Well(h, X) /\ Keeps(g, h) /\ BlockMade(g, h, dest)
        /\ h.heap[Newest(h)].proc = g.heap[b].proc
    BY <1>1, <2>2, <2>3, SplitBlockKeeps
  <2> QED
    BY <1>2, <2>1, <2>4
<1>3. CASE ~InRange(r, dest)
  <2>1. h = NewBlock(g, "code", proc, dest)
    BY <1>3 DEF MakeBlock
  <2> HIDE <1>h
  <2> QED
    BY <1>1, <1>3, <2>1, CodeBlockKeeps
<1> QED
  BY <1>2, <1>3

-------------------------------------------------------------------------------
(* EnqueueJumpTarget. *)

(* A promotion is for a block of code, and goes to a procedure that is      *)
(* entered, or in X, or scanned by an item of the queue that comes first.   *)
ItemsFit(g, q, X) ==
    \A i \in DOMAIN q :
       q[i].kind = "promote" =>
          /\ q[i].block \in DOMAIN g.heap
          /\ g.heap[q[i].block].role = "code"
          /\ q[i].addr \in DOMAIN g.procs
          /\ \/ q[i].addr \in X.procs
             \/ Entered(g, q[i].addr)
             \/ \E j \in DOMAIN q : q[j].kind = "procedure" /\ q[j].addr = q[i].addr

(* The blocks that were there belong to the procedures they did.            *)
SameOwners(g, h) == \A b \in DOMAIN g.heap : h.heap[b].proc = g.heap[b].proc

(* Where the block to jump to is no code, it is a thunk or a copy that has  *)
(* statements, so that nothing is read into it.                             *)
IsTarget(g, b) ==
    /\ b \in DOMAIN g.heap
    /\ g.heap[b].role \in Inner
    /\ g.heap[b].role # "code" => Stms(g, b) # <<>>

(* What a jump makes of a graph and its ranges: nothing is lost, and the    *)
(* block to jump to can have an edge.                                       *)
JumpFits(g, j, X) ==
    /\ Well(j.g, X)
    /\ Grows(g, j.g)
    /\ SameOwners(g, j.g)
    /\ RangesFit(j.g, j.ranges)
    /\ IsTarget(j.g, j.block)
    /\ ItemsFit(j.g, j.items, X)

(* No work items, or one for a block, fit every graph.                     *)
LEMMA SomeItems ==
  ASSUME NEW g, NEW X, NEW addr, NEW b
  PROVE  /\ ItemsFit(g, <<>>, X)
         /\ ItemsFit(g, <<Item("block", addr, b)>>, X)
<1>1. ItemsFit(g, <<>>, X)
  BY DEF ItemsFit
<1>2. ItemsFit(g, <<Item("block", addr, b)>>, X)
  BY DEF ItemsFit, Item
<1> QED
  BY <1>1, <1>2

(* A promotion of a block of code to a known procedure fits.               *)
LEMMA PromoteItem ==
  ASSUME NEW g, NEW X, NEW addr \in DOMAIN g.procs, NEW b \in DOMAIN g.heap,
         g.heap[b].role = "code", addr \in X.procs \/ Entered(g, addr)
  PROVE  ItemsFit(g, <<Item("promote", addr, b)>>, X)
<1>1. PICK x : x = Item("promote", addr, b)
  OBVIOUS
<1>2. x.kind = "promote" /\ x.addr = addr /\ x.block = b
  BY <1>1 DEF Item
<1>3. ItemsFit(g, <<x>>, X)
  BY <1>2 DEF ItemsFit
<1> QED
  BY <1>1, <1>3

(* So does one that is queued behind the scan of its procedure.            *)
LEMMA ProcedureAndPromoteItem ==
  ASSUME NEW g, NEW X, NEW addr \in DOMAIN g.procs, NEW b \in DOMAIN g.heap,
         g.heap[b].role = "code", NEW c
  PROVE  ItemsFit(g, <<Item("procedure", addr, c), Item("promote", addr, b)>>, X)
<1>1. PICK x, y : x = Item("promote", addr, b) /\ y = Item("procedure", addr, c)
  OBVIOUS
<1>2. /\ x.kind = "promote" /\ x.addr = addr /\ x.block = b
      /\ y.kind = "procedure" /\ y.addr = addr
  BY <1>1 DEF Item
<1>3. PICK q : q = <<y, x>>
  OBVIOUS
<1>4. DOMAIN q = {1, 2} /\ q[1] = y /\ q[2] = x
  BY <1>3
<1>5. ItemsFit(g, q, X)
  BY <1>2, <1>4 DEF ItemsFit
<1> QED
  BY <1>1, <1>3, <1>5

(* The fields of what a jump returns. *)
LEMMA EnqueuedIs ==
  ASSUME NEW g, NEW r, NEW b, NEW q, NEW j, j = Enqueued(g, r, b, q)
  PROVE  j.g = g /\ j.ranges = r /\ j.block = b /\ j.items = q
BY DEF Enqueued

(* Every way out of EnqueueJumpTarget hands back a graph, ranges and work  *)
(* items that fit one another.                                             *)
LEMMA JumpMade ==
  ASSUME NEW g, NEW X, NEW h, Well(h, X), Grows(g, h), SameOwners(g, h),
         NEW r, RangesFit(h, r),
         NEW b, IsTarget(h, b), NEW q, ItemsFit(h, q, X),
         NEW j, j = Enqueued(h, r, b, q)
  PROVE  JumpFits(g, j, X)
BY EnqueuedIs DEF JumpFits

(* The block at an address where none started. *)
LEMMA SettleKeeps ==
  ASSUME NEW X, NEW g, Well(g, X), NEW r, NEW dest \in Addresses, dest \notin DOMAIN r,
         RangesFit(g, r), NEW src \in Int,
         NEW k, Well(k, X), Keeps(g, k), BlockMade(g, k, dest),
         NEW t, DOMAIN t = DOMAIN r \cup {dest}, t[dest].block = Newest(k),
         \A a \in DOMAIN r : t[a].block = r[a].block,
         NEW proc \in DOMAIN g.procs, proc \in X.procs \/ Entered(g, proc), NEW j
  PROVE  j = SettleBlock(k, t, src, dest, proc) =>
         /\ JumpFits(g, j, X)
         /\ k.heap[Newest(k)].proc = proc => j.ranges = t
         /\ j.ranges = t \/ j.ranges = Without(t, dest)
<1>h. HAVE j = SettleBlock(k, t, src, dest, proc)
<1> USE <1>h
<1>1. PICK b, owner : b = Newest(k) /\ owner = k.heap[b].proc
  OBVIOUS
<1>2. /\ b \in DOMAIN k.heap /\ b \notin DOMAIN g.heap
      /\ k.heap[b].role = "code" /\ k.heap[b].addr = dest /\ Listed(k, b)
  BY <1>1 DEF BlockMade
<1>3. proc \in DOMAIN k.procs /\ (proc \in X.procs \/ Entered(k, proc)) /\ owner \in DOMAIN k.procs
  BY <1>1, <1>2, WellParts DEF Keeps, Grows
<1>4. RangesFit(k, t)
  <2>1. RangesFit(k, r)
    BY KeepsLists, RangesStay DEF Keeps
  <2>2. ASSUME NEW a \in DOMAIN t
        PROVE  /\ t[a].block \in DOMAIN k.heap
               /\ k.heap[t[a].block].role = "code"
               /\ k.heap[t[a].block].addr = a
               /\ Listed(k, t[a].block)
    <3>1. CASE a = dest
      BY <1>1, <1>2, <3>1
    <3>2. CASE a \in DOMAIN r
      BY <2>1, <3>2 DEF RangesFit
    <3> QED
      BY <3>1, <3>2
  <2> QED
    BY <2>2 DEF RangesFit
<1>5. CASE owner = proc
  <2>1. j = Enqueued(k, t, b, <<Item("block", dest, None)>>)
    BY <1>1, <1>5, Zenon DEF SettleBlock
  <2> HIDE <1>h
  <2>2. PICK q : q = <<Item("block", dest, None)>>
    OBVIOUS
  <2>3. ItemsFit(k, q, X)
    BY <2>2, SomeItems
  <2>4. IsTarget(k, b)
    BY <1>2 DEF Inner, IsTarget
  <2>5. j = Enqueued(k, t, b, q)
    BY <2>1, <2>2
  <2>8. Grows(g, k) /\ SameOwners(g, k)
    BY DEF Keeps, Stays, SameOwners
  <2>6. JumpFits(g, j, X)
    BY <1>4, <2>3, <2>4, <2>5, <2>8, JumpMade
  <2>7. j.ranges = t
    BY <2>5, EnqueuedIs
  <2> QED
    BY <2>6, <2>7
<1>6. CASE owner # proc /\ IsBlockLinearProcedureExit(k, b)
  <2>1. PICK h : h = CloneBlock(k, b, proc)
    OBVIOUS
  <2>2. j = Enqueued(h, t, Newest(h), <<>>)
    BY <1>1, <1>6, <2>1, Zenon DEF SettleBlock, EnqueuedNewest
  <2> HIDE <1>h
  <2>3. /\ Well(h, X) /\ Keeps(k, h)
        /\ Newest(h) \in DOMAIN h.heap /\ h.heap[Newest(h)].role = "clone"
        /\ h.heap[Newest(h)].stms # <<>>
    <3>1. Stms(k, b) # <<>>
      BY <1>6 DEF IsBlockLinearProcedureExit
    <3> QED
      BY <1>2, <1>3, <2>1, <3>1, CloneKeeps
  <2>4. Grows(g, h) /\ SameOwners(g, h)
    BY <2>3, KeepsOn DEF Keeps, Stays, SameOwners
  <2>5. RangesFit(h, t)
    BY <1>4, <2>3, KeepsLists, RangesStay DEF Keeps
  <2>6. IsTarget(h, Newest(h))
    BY <2>3 DEF Inner, IsTarget, Stms
  <2>7. ItemsFit(h, <<>>, X)
    BY SomeItems
  <2>8. JumpFits(g, j, X)
    BY <2>2, <2>3, <2>4, <2>5, <2>6, <2>7, JumpMade
  <2>9. j.ranges = t
    BY <2>2, EnqueuedIs
  <2> QED
    BY <1>1, <1>6, <2>8, <2>9
<1>7. CASE owner # proc /\ ~IsBlockLinearProcedureExit(k, b)
  <2>1. PICK l, m, h, q :
           /\ l = WithBlocks(k, owner, k.procs[owner].blocks \ {b})
           /\ m = EnsureProcedure(l, dest)
           /\ h = CallRetThunk(m, src, proc, dest)
           /\ q = <<Item("procedure", dest, None), Item("promote", dest, b)>>
    OBVIOUS
  <2>2. j = Enqueued(h, Without(t, dest), Newest(h), q)
    <3>1. l = [k EXCEPT !.procs[owner].blocks = @ \ {b}]
      BY <2>1 DEF WithBlocks
    <3> QED
      BY <1>1, <1>7, <2>1, <3>1, Zenon DEF SettleBlock, EnqueuedNewest
  <2> HIDE <1>h
  <2>3. /\ Well(l, X) /\ Grows(k, l)
        /\ ListChanged(k, l, owner, k.procs[owner].blocks \ {b})
    <3> QED
      BY <1>3, <2>1, UnlistKeeps
  <2>4. Grows(g, l) /\ SameOwners(g, l) /\ RangesFit(l, r)
    <3>1. Grows(g, l)
      BY <2>3, GrowsOn DEF Keeps
    <3>2. SameOwners(g, l)
      BY <2>3 DEF Keeps, Stays, ListChanged, SameOwners
    <3>3. RangesFit(k, r)
      BY KeepsLists, RangesStay DEF Keeps
    <3>4. \A a \in DOMAIN r : r[a].block # b
      BY <1>2 DEF RangesFit
    <3>5. RangesFit(l, r)
      BY <2>3, <3>3, <3>4 DEF RangesFit, ListChanged, Listed
    <3> QED
      BY <3>1, <3>2, <3>5
  <2>5. Well(m, X) /\ Grows(l, m) /\ ProcedureMade(l, m, dest)
    <3>1. Well(l, X) /\ m = EnsureProcedure(l, dest)
      BY <2>1, <2>3
    <3> QED
      BY <3>1, EnsureProcedureKeeps
  <2>6. Well(h, X) /\ Keeps(m, h) /\ ThunkAdded(m, h, proc)
    <3>1. /\ Well(m, X) /\ h = CallRetThunk(m, src, proc, dest)
          /\ dest \in Addresses \cup {None}
      BY <2>1, <2>5
    <3>2. proc \in DOMAIN m.procs /\ (proc \in X.procs \/ Entered(m, proc))
      BY <1>3, <2>3, <2>5 DEF Grows
    <3> QED
      BY <3>1, <3>2, ThunkKeeps
  <2>7. Grows(g, h) /\ SameOwners(g, h)
    <3>1. Grows(g, m) /\ Grows(m, h)
      BY <2>4, <2>5, <2>6, GrowsOn DEF Keeps
    <3>2. \A c \in DOMAIN l.heap : m.heap[c].proc = l.heap[c].proc /\ c \in DOMAIN m.heap
      BY <2>5 DEF ProcedureMade, Grows
    <3>3. \A c \in DOMAIN m.heap : h.heap[c].proc = m.heap[c].proc
      BY <2>6 DEF Keeps, Stays
    <3> QED
      BY <2>4, <3>1, <3>2, <3>3, GrowsOn DEF SameOwners, Grows
  <2>8. RangesFit(h, Without(t, dest))
    <3>1. RangesFit(h, r)
      <4>1. RangesFit(m, r)
        BY <2>4, <2>5, RangesStayMade
      <4> QED
        BY <2>5, <2>6, <4>1, KeepsLists, RangesStay DEF Keeps
    <3>2. /\ DOMAIN Without(t, dest) = DOMAIN r
          /\ \A a \in DOMAIN r : Without(t, dest)[a].block = r[a].block
      BY DEF Without
    <3> QED
      BY <3>1, <3>2 DEF RangesFit
  <2>9. b \in DOMAIN h.heap /\ h.heap[b].role = "code" /\ dest \in DOMAIN h.procs
    <3>1. b \in DOMAIN l.heap /\ l.heap[b].role = "code"
      BY <1>2, <2>3 DEF Grows
    <3>2. b \in DOMAIN m.heap /\ m.heap[b].role = "code" /\ dest \in DOMAIN m.procs
      BY <3>1, <2>5 DEF ProcedureMade, Grows
    <3> QED
      BY <2>6, <3>2 DEF Keeps, Grows
  <2>10. ItemsFit(h, q, X)
    BY <2>1, <2>9, ProcedureAndPromoteItem
  <2>11. IsTarget(h, Newest(h))
    BY <2>6 DEF ThunkAdded, Ends, Inner, IsTarget, Stms
  <2>12. JumpFits(g, j, X)
    BY <2>2, <2>6, <2>7, <2>8, <2>10, <2>11, JumpMade
  <2>13. j.ranges = Without(t, dest)
    BY <2>2, EnqueuedIs
  <2> QED
    BY <1>1, <1>7, <2>12, <2>13
<1> QED
  BY <1>5, <1>6, <1>7

(* A block of another procedure. *)
LEMMA ForeignKeeps ==
  ASSUME NEW X, NEW g, Well(g, X), NEW r, RangesFit(g, r), NEW src \in Int,
         NEW dest \in Addresses, dest \in DOMAIN r,
         NEW proc \in DOMAIN g.procs, proc \in X.procs \/ Entered(g, proc), NEW j
  PROVE  j = JumpToForeignBlock(g, r, src, dest, proc) =>
         JumpFits(g, j, X) /\ j.ranges = r
<1>h. HAVE j = JumpToForeignBlock(g, r, src, dest, proc)
<1> USE <1>h
<1>1. PICK b : /\ b = r[dest].block /\ b \in DOMAIN g.heap
               /\ g.heap[b].role = "code" /\ g.heap[b].role \in Inner
  BY DEF RangesFit, Inner
<1>2. Grows(g, g) /\ SameOwners(g, g) /\ IsTarget(g, b)
  BY <1>1, GrowsReflexive DEF SameOwners, IsTarget
<1>3. CASE dest = proc
  <2>1. PICK q : q = <<Item("promote", dest, b)>>
    OBVIOUS
  <2>2. j = Enqueued(g, r, b, q)
    BY <1>1, <1>3, <2>1, Zenon DEF JumpToForeignBlock
  <2> HIDE <1>h
  <2>3. ItemsFit(g, q, X)
    BY <1>1, <1>3, <2>1, PromoteItem
  <2>4. JumpFits(g, j, X)
    BY <1>1, <1>2, <2>2, <2>3, JumpMade
  <2> QED
    BY <2>2, <2>4, EnqueuedIs
<1>4. CASE dest # proc /\ dest \in DOMAIN g.procs
  <2>1. PICK h : h = CallRetThunk(g, src, proc, dest)
    OBVIOUS
  <2>2. j = Enqueued(h, r, Newest(h), <<>>)
    BY <1>4, <2>1, Zenon DEF JumpToForeignBlock, EnqueuedNewest
  <2> HIDE <1>h
  <2>3. Well(h, X) /\ Keeps(g, h) /\ ThunkAdded(g, h, proc)
    <3>1. dest \in Addresses \cup {None}
      OBVIOUS
    <3> QED
      BY <2>1, <3>1, ThunkKeeps
  <2>4. RangesFit(h, r)
    BY <2>3, KeepsLists, RangesStay DEF Keeps
  <2>5. IsTarget(h, Newest(h))
    BY <2>3 DEF ThunkAdded, Ends, Inner, IsTarget, Stms
  <2>6. ItemsFit(h, <<>>, X)
    BY SomeItems
  <2>8. Grows(g, h) /\ SameOwners(g, h)
    BY <2>3 DEF Keeps, Stays, SameOwners
  <2>7. JumpFits(g, j, X)
    BY <2>2, <2>3, <2>4, <2>5, <2>6, <2>8, JumpMade
  <2> QED
    BY <2>2, <2>7, EnqueuedIs
<1>5. CASE /\ dest # proc /\ dest \notin DOMAIN g.procs
           /\ IsBlockLinearProcedureExit(g, b)
  <2>1. PICK h : h = CloneBlock(g, b, proc)
    OBVIOUS
  <2>2. j = Enqueued(h, r, Newest(h), <<>>)
    BY <1>1, <1>5, <2>1, Zenon DEF JumpToForeignBlock, EnqueuedNewest
  <2> HIDE <1>h
  <2>3. /\ Well(h, X) /\ Keeps(g, h)
        /\ Newest(h) \in DOMAIN h.heap /\ h.heap[Newest(h)].role = "clone"
        /\ h.heap[Newest(h)].stms # <<>>
    <3>1. Stms(g, b) # <<>>
      BY <1>5 DEF IsBlockLinearProcedureExit
    <3> QED
      BY <1>1, <2>1, <3>1, CloneKeeps
  <2>4. RangesFit(h, r)
    BY <2>3, KeepsLists, RangesStay DEF Keeps
  <2>5. IsTarget(h, Newest(h))
    BY <2>3 DEF Inner, IsTarget, Stms
  <2>6. ItemsFit(h, <<>>, X)
    BY SomeItems
  <2>8. Grows(g, h) /\ SameOwners(g, h)
    BY <2>3 DEF Keeps, Stays, SameOwners
  <2>7. JumpFits(g, j, X)
    BY <2>2, <2>3, <2>4, <2>5, <2>6, <2>8, JumpMade
  <2> QED
    BY <2>2, <2>7, EnqueuedIs
<1>6. CASE /\ dest # proc /\ dest \notin DOMAIN g.procs
           /\ ~IsBlockLinearProcedureExit(g, b)
  <2>1. PICK l, m, e, h, q :
           /\ l = EnsureProcedure(g, dest)
           /\ m = CallRetThunk(l, src, proc, dest)
           /\ e = m.procs[dest].entry
           /\ h = AddEdge(m, e, b)
           /\ q = <<Item("promote", dest, b)>>
    OBVIOUS
  <2>2. j = Enqueued(h, r, Newest(h), q)
    <3>1. h = Enter(m, dest, b)
      BY <2>1 DEF Enter
    <3> QED
      BY <1>1, <1>6, <2>1, <3>1, Zenon DEF JumpToForeignBlock, EnqueuedNewest
  <2> HIDE <1>h
  <2>3. Well(l, X) /\ Grows(g, l) /\ ProcedureMade(g, l, dest)
    <3> QED
      BY <2>1, EnsureProcedureKeeps
  <2>4. Well(m, X) /\ Keeps(l, m) /\ ThunkAdded(l, m, proc)
    <3>1. /\ Well(l, X) /\ m = CallRetThunk(l, src, proc, dest)
          /\ dest \in Addresses \cup {None}
      BY <2>1, <2>3
    <3>2. proc \in DOMAIN l.procs /\ (proc \in X.procs \/ Entered(l, proc))
      BY <2>3 DEF Grows
    <3> QED
      BY <3>1, <3>2, ThunkKeeps
  <2>5. Grows(g, m) /\ SameOwners(g, m) /\ RangesFit(m, r)
    <3>1. Grows(l, m) /\ Lists(l, m)
      BY <2>3, <2>4, KeepsLists DEF Keeps
    <3>2. RangesFit(l, r)
      BY <2>3, RangesStayMade
    <3>3. \A c \in DOMAIN g.heap : l.heap[c].proc = g.heap[c].proc /\ c \in DOMAIN l.heap
      BY <2>3 DEF ProcedureMade, Grows
    <3>4. \A c \in DOMAIN l.heap : m.heap[c].proc = l.heap[c].proc
      BY <2>4 DEF Keeps, Stays
    <3> QED
      BY <2>3, <3>1, <3>2, <3>3, <3>4, GrowsOn, RangesStay DEF SameOwners
  <2>6. /\ dest \in DOMAIN m.procs
        /\ e \in DOMAIN m.heap /\ m.heap[e].role = "entry" /\ m.heap[e].succ = <<>>
        /\ b \in Ends(m) /\ b \in DOMAIN m.heap /\ m.heap[b].role = "code"
    <3>1. dest \in DOMAIN l.procs /\ ~Entered(l, dest)
      BY <1>6, <2>3 DEF ProcedureMade
    <3>2. dest \in DOMAIN m.procs /\ ~Entered(m, dest)
      BY <2>4, <3>1 DEF Keeps, Grows, Stays, Shut
    <3>3. e \in DOMAIN m.heap /\ m.heap[e].role = "entry"
      BY <2>1, <2>4, <3>2 DEF Well, ProcsFit
    <3>4. b \in Ends(m) /\ b \in DOMAIN m.heap /\ m.heap[b].role = "code"
      BY <1>1, <2>5 DEF Grows, Ends
    <3> QED
      BY <2>1, <3>2, <3>3, <3>4 DEF Entered
  <2>7. /\ Well(h, X) /\ Grows(m, h) /\ SameNodes(m, h)
        /\ h.heap[e].succ # <<>>
        /\ \A c \in DOMAIN m.heap : h.heap[c].stms = m.heap[c].stms
    <3>1. Well(m, X) /\ h = AddEdge(m, e, b)
      BY <2>1, <2>4
    <3>2. e \in DOMAIN m.heap /\ m.heap[e].role # "exit" /\ m.heap[e].succ = <<>>
      BY <2>6
    <3>3. b \in Ends(m)
      BY <2>6
    <3> HIDE <1>6
    <3> QED
      BY <3>1, <3>2, <3>3, AddEdgeKeeps
  <2>8. Grows(g, h) /\ SameOwners(g, h)
    BY <2>5, <2>7, GrowsOn DEF SameOwners, SameNodes, Grows
  <2>9. RangesFit(h, r)
    BY <2>5, <2>7, RangesStaySame
  <2>10. IsTarget(h, Newest(h))
    <3>1. /\ Newest(m) \in DOMAIN m.heap /\ m.heap[Newest(m)].role = "thunk"
          /\ m.heap[Newest(m)].stms # <<>>
      BY <2>4 DEF ThunkAdded, Ends
    <3>2. Newest(h) = Newest(m)
      BY <2>7 DEF SameNodes, Newest
    <3> QED
      BY <2>7, <3>1, <3>2 DEF IsTarget, SameNodes, Inner, Stms
  <2>11. dest \in DOMAIN h.procs /\ Entered(h, dest)
    BY <2>1, <2>6, <2>7 DEF Entered, SameNodes
  <2>12. ItemsFit(h, q, X)
    <3>1. b \in DOMAIN h.heap /\ h.heap[b].role = "code"
      BY <2>6, <2>7 DEF SameNodes
    <3> QED
      BY <2>1, <2>11, <3>1, PromoteItem
  <2>13. JumpFits(g, j, X)
    BY <2>2, <2>7, <2>8, <2>9, <2>10, <2>12, JumpMade
  <2> QED
    BY <2>2, <2>13, EnqueuedIs
<1> QED
  BY <1>3, <1>4, <1>5, <1>6

(* The ranges with that of the block that is made next.                    *)
LEMMA NewestRange ==
  ASSUME NEW g, NEW r, GoodRanges(r), NEW addr \in Addresses, addr \notin DOMAIN r, NEW t
  PROVE  t = MakeRange(r, addr, Newest(g) + 1) =>
         /\ DOMAIN t = DOMAIN r \cup {addr}
         /\ t[addr].block = Newest(g) + 1
         /\ \A a \in DOMAIN r : t[a].block = r[a].block
BY MakeRangeBlocks, Z3T(30)

(* A jump to any address, from a block of a procedure that is entered or    *)
(* will be.                                                                 *)
LEMMA JumpFitsAll ==
  ASSUME NEW X, NEW g, Well(g, X), NEW r, GoodRanges(r), RangesFit(g, r),
         NEW src \in Int, NEW dest \in Addresses,
         NEW proc \in DOMAIN g.procs, proc \in X.procs \/ Entered(g, proc), NEW j
  PROVE  j = EnqueueJumpTarget(g, r, src, dest, proc) => JumpFits(g, j, X)
<1>h. HAVE j = EnqueueJumpTarget(g, r, src, dest, proc)
<1> USE <1>h
<1>1. CASE dest \notin DOMAIN r
  <2>1. PICK k, t : /\ k = MakeBlock(g, r, dest, proc)
                    /\ t = MakeRange(r, dest, Newest(g) + 1)
    OBVIOUS
  <2>2. j = SettleBlock(k, t, src, dest, proc)
    BY <1>1, <2>1 DEF EnqueueJumpTarget, JumpToNewBlock
  <2> HIDE <1>h
  <2>3. Well(k, X) /\ Keeps(g, k) /\ BlockMade(g, k, dest)
    BY <2>1, MakeBlockKeeps
  <2>4. /\ DOMAIN t = DOMAIN r \cup {dest}
        /\ t[dest].block = Newest(g) + 1
        /\ \A a \in DOMAIN r : t[a].block = r[a].block
    <3>1. dest \notin DOMAIN r /\ t = MakeRange(r, dest, Newest(g) + 1)
      BY <1>1, <2>1
    <3> QED
      BY <3>1, NewestRange, Z3T(30)
  <2>5. Newest(k) = Newest(g) + 1
    BY <2>3 DEF BlockMade, Newest
  <2>6. t[dest].block = Newest(k)
    BY <2>4, <2>5
  <2> QED
    BY <1>1, <2>2, <2>3, <2>4, <2>6, SettleKeeps
<1>2. CASE dest \in DOMAIN r /\ g.heap[r[dest].block].proc = proc
  <2>1. PICK b : b = r[dest].block /\ IsTarget(g, b)
    BY <1>2 DEF RangesFit, Inner, IsTarget
  <2>2. j = Enqueued(g, r, b, <<>>)
    BY <1>2, <2>1 DEF EnqueueJumpTarget
  <2> HIDE <1>h
  <2>3. ItemsFit(g, <<>>, X) /\ Grows(g, g) /\ SameOwners(g, g)
    BY SomeItems, GrowsReflexive DEF SameOwners
  <2> QED
    BY <2>1, <2>2, <2>3, JumpMade
<1>3. CASE dest \in DOMAIN r /\ g.heap[r[dest].block].proc # proc
  <2>1. j = JumpToForeignBlock(g, r, src, dest, proc)
    BY <1>3 DEF EnqueueJumpTarget
  <2> HIDE <1>h
  <2> QED
    BY <1>3, <2>1, ForeignKeeps
<1> QED
  BY <1>1, <1>2, <1>3

(* The address of the jump stays in a block of the procedure.               *)
PlaceOf(g, r, x, proc) ==
    \E a : Holds(r, x, a) /\ g.heap[r[a].block].proc = proc

(* A jump may split the block that is being read; the address read last is *)
(* still in a range of a block of the same procedure.                      *)
LEMMA JumpKeepsPlace ==
  ASSUME NEW X, NEW g, Well(g, X), NEW r, GoodRanges(r), RangesFit(g, r),
         NEW src \in Int, NEW dest \in Addresses,
         NEW proc \in DOMAIN g.procs, proc \in X.procs \/ Entered(g, proc),
         NEW j,
         NEW x \in Positions, PlaceOf(g, r, x, proc)
  PROVE  j = EnqueueJumpTarget(g, r, src, dest, proc) =>
         PlaceOf(j.g, j.ranges, x, proc)
<1>h. HAVE j = EnqueueJumpTarget(g, r, src, dest, proc)
<1> USE <1>h
<1>1. PICK a : Holds(r, x, a) /\ g.heap[r[a].block].proc = proc
  BY DEF PlaceOf
<1>2. JumpFits(g, j, X)
  <2> QED
    BY JumpFitsAll
<1>3. a \in DOMAIN r /\ r[a].block \in DOMAIN g.heap
  BY <1>1 DEF Holds, RangesFit
<1>4. j.g.heap[r[a].block].proc = proc
  BY <1>1, <1>2, <1>3 DEF JumpFits, SameOwners
<1>5. CASE dest \in DOMAIN r
  <2>1. j.ranges = r
    <3>1. CASE g.heap[r[dest].block].proc = proc
      BY <1>5, <3>1, EnqueuedIs DEF EnqueueJumpTarget
    <3>2. CASE g.heap[r[dest].block].proc # proc
      <4>1. j = JumpToForeignBlock(g, r, src, dest, proc)
        BY <1>5, <3>2 DEF EnqueueJumpTarget
      <4> HIDE <1>h
      <4> QED
        BY <1>5, <4>1, ForeignKeeps
    <3> QED
      BY <3>1, <3>2
  <2> QED
    BY <1>1, <1>4, <2>1 DEF PlaceOf
<1>6. CASE dest \notin DOMAIN r
  <2>1. PICK k, t : /\ k = MakeBlock(g, r, dest, proc)
                    /\ t = MakeRange(r, dest, Newest(g) + 1)
    OBVIOUS
  <2>2. j = SettleBlock(k, t, src, dest, proc)
    BY <1>6, <2>1 DEF EnqueueJumpTarget, JumpToNewBlock
  <2> HIDE <1>h
  <2>3. /\ Well(k, X) /\ Keeps(g, k) /\ BlockMade(g, k, dest)
        /\ InRange(r, dest) =>
               k.heap[Newest(k)].proc = g.heap[FindContainingBlock(r, dest)].proc
    BY <2>1, MakeBlockKeeps
  <2>4. /\ DOMAIN t = DOMAIN r \cup {dest}
        /\ t[dest].block = Newest(g) + 1
        /\ \A c \in DOMAIN r : t[c].block = r[c].block
    <3>1. dest \notin DOMAIN r /\ t = MakeRange(r, dest, Newest(g) + 1)
      BY <1>6, <2>1
    <3> QED
      BY <3>1, NewestRange
  <2>5. Newest(k) = Newest(g) + 1
    BY <2>3 DEF BlockMade, Newest
  <2>6. t[dest].block = Newest(k)
    BY <2>4, <2>5
  <2>7. /\ k.heap[Newest(k)].proc = proc => j.ranges = t
        /\ j.ranges = t \/ j.ranges = Without(t, dest)
    BY <1>6, <2>2, <2>3, <2>4, <2>6, SettleKeeps
  <2>8. \/ Holds(t, x, a) /\ Holds(Without(t, dest), x, a)
        \/ InRange(r, dest) /\ Holds(r, dest, a) /\ Holds(t, x, dest)
    BY <1>1, <1>6, <2>1, MakeRangeHolds
  <2>9. CASE Holds(t, x, a) /\ Holds(Without(t, dest), x, a)
    <3>1. t[a].block = r[a].block /\ Without(t, dest)[a].block = r[a].block
      BY <1>3, <1>6, <2>4 DEF Without
    <3> QED
      BY <1>4, <2>7, <2>9, <3>1 DEF PlaceOf
  <2>10. CASE InRange(r, dest) /\ Holds(r, dest, a) /\ Holds(t, x, dest)
    <3>1. FindContainingBlock(r, dest) = r[a].block
      <4>1. dest \in Positions
        BY ScannerAssumption DEF Addresses, Positions, Beyond
      <4> QED
        BY <2>10, <4>1, Holding
    <3>2. k.heap[Newest(k)].proc = proc
      <4>1. InRange(r, dest) /\ g.heap[r[a].block].proc = proc
        BY <1>1, <2>10
      <4> QED
        BY <2>3, <3>1, <4>1
    <3>3. j.ranges = t
      BY <2>7, <3>2
    <3>4. j = Enqueued(k, t, Newest(k), <<Item("block", dest, None)>>)
      BY <2>2, <3>2, Zenon DEF SettleBlock
    <3>5. j.g = k
      BY <3>4, EnqueuedIs
    <3> QED
      BY <2>6, <2>10, <3>2, <3>3, <3>5 DEF PlaceOf
  <2> QED
    BY <2>8, <2>9, <2>10
<1> QED
  BY <1>5, <1>6

-------------------------------------------------------------------------------
(* What is left to do. *)

(* Work items among W that scan procedure p, or promote block b to it.      *)
Scans(W, p)       == \E x \in W : x.kind \in {"symbol", "procedure"} /\ x.addr = p
Promotes(W, p, b) == \E x \in W : x.kind = "promote" /\ x.addr = p /\ x.block = b

(* Procedure p is entered at the block of its own range, which belongs to   *)
(* it or will be promoted to it.                                            *)
AtHome(g, r, W, p) ==
    /\ p \in DOMAIN r
    /\ r[p].block = First(g, p)
    /\ g.heap[First(g, p)].proc = p \/ Promotes(W, p, First(g, p))

(* Block b is listed, or will be promoted to another procedure.             *)
Unlost(g, W, b) ==
    Listed(g, b) \/ \E p \in Addresses : p # g.heap[b].proc /\ Promotes(W, p, b)

(* With the work items W every procedure, but those of E, will be entered   *)
(* at its own block, and every block of code will be in a procedure.        *)
Promised(g, r, W, E) ==
    /\ \A p \in DOMAIN g.procs \ E :
          IF Entered(g, p) THEN AtHome(g, r, W, p) ELSE Scans(W, p)
    /\ \A b \in DOMAIN g.heap : g.heap[b].role = "code" => Unlost(g, W, b)

(* More work items promise no less. *)
LEMMA PromisedMore ==
  ASSUME NEW g, NEW r, NEW W, NEW E, Promised(g, r, W, E), NEW V, W \subseteq V
  PROVE  Promised(g, r, V, E)
<1>1. \A p : Scans(W, p) => Scans(V, p)
  BY DEF Scans
<1>2. \A p, b : Promotes(W, p, b) => Promotes(V, p, b)
  BY DEF Promotes
<1> QED
  BY <1>1, <1>2 DEF Promised, AtHome, Unlost

(* Neither do more ranges, or those of other lengths. *)
LEMMA PromisedRanges ==
  ASSUME NEW g, NEW r, NEW W, NEW E, Promised(g, r, W, E), NEW t,
         DOMAIN r \subseteq DOMAIN t, \A a \in DOMAIN r : t[a].block = r[a].block
  PROVE  Promised(g, t, W, E)
BY DEF Promised, AtHome

(* A procedure that is entered, is entered at a block. *)
LEMMA FirstParts ==
  ASSUME NEW X, NEW g, Well(g, X), NEW p \in DOMAIN g.procs, Entered(g, p)
  PROVE  First(g, p) \in DOMAIN g.heap
<1>1. PICK e : e = g.procs[p].entry /\ e \in DOMAIN g.heap
  BY DEF Well, ProcsFit
<1>2. g.heap[e].succ \in Seq(Ends(g)) /\ g.heap[e].succ # <<>>
  BY <1>1 DEF Well, BlocksFit, Entered
<1>3. g.heap[e].succ[1] \in Ends(g)
  BY <1>2
<1> QED
  BY <1>1, <1>3 DEF First, Ends

(* Operations that keep procedures and blocks, keep the promises.           *)
LEMMA PromisedKept ==
  ASSUME NEW X, NEW g, Well(g, X), NEW h, Keeps(g, h),
         NEW r, NEW W, NEW E, Promised(g, r, W, E)
  PROVE  Promised(h, r, W, E)
<1>1. Grows(g, h) /\ Stays(g, h) /\ Shut(g, h) /\ Lists(g, h)
  BY KeepsLists DEF Keeps, Stays
<1>2. DOMAIN h.procs = DOMAIN g.procs
  BY <1>1 DEF Grows, Shut
<1>3. ASSUME NEW p \in DOMAIN h.procs \ E
      PROVE  IF Entered(h, p) THEN AtHome(h, r, W, p) ELSE Scans(W, p)
  <2>1. p \in DOMAIN g.procs /\ (Entered(h, p) <=> Entered(g, p))
    BY <1>1, <1>2 DEF Grows, Shut
  <2>2. CASE Entered(g, p)
    <3>1. AtHome(g, r, W, p) /\ First(h, p) = First(g, p)
      BY <1>1, <1>3, <2>1, <2>2 DEF Promised, Grows
    <3>2. First(g, p) \in DOMAIN g.heap
      BY <2>1, <2>2, FirstParts
    <3>3. h.heap[First(g, p)].proc = g.heap[First(g, p)].proc
      BY <1>1, <3>2 DEF Stays
    <3> QED
      BY <2>1, <2>2, <3>1, <3>3 DEF AtHome
  <2>3. CASE ~Entered(g, p)
    BY <1>3, <2>1, <2>3 DEF Promised
  <2> QED
    BY <2>2, <2>3
<1>4. ASSUME NEW b \in DOMAIN h.heap, h.heap[b].role = "code"
      PROVE  Unlost(h, W, b)
  <2>1. CASE b \in DOMAIN g.heap
    <3>1. g.heap[b].role = "code" /\ h.heap[b].proc = g.heap[b].proc
      BY <1>1, <1>4, <2>1 DEF Grows, Stays
    <3>2. Unlost(g, W, b)
      BY <2>1, <3>1 DEF Promised
    <3> QED
      BY <1>1, <2>1, <3>1, <3>2 DEF Unlost, Lists
  <2>2. CASE b \notin DOMAIN g.heap
    BY <1>1, <2>2 DEF Lists, Unlost
  <2> QED
    BY <2>1, <2>2
<1> QED
  BY <1>3, <1>4 DEF Promised

(* A procedure that is made is the only one nothing is known of.            *)
LEMMA PromisedMade ==
  ASSUME NEW X, NEW g, Well(g, X), NEW h, Grows(g, h), NEW addr, ProcedureMade(g, h, addr),
         NEW r, NEW W, Promised(g, r, W, {})
  PROVE  /\ Promised(h, r, W, {addr})
         /\ Entered(h, addr) => addr \in DOMAIN g.procs /\ Entered(g, addr)
         /\ Entered(h, addr) => Promised(h, r, W, {})
<1>1. \A p \in DOMAIN g.procs :
         /\ Entered(h, p) <=> Entered(g, p)
         /\ Entered(g, p) => First(g, p) \in DOMAIN g.heap /\ First(h, p) = First(g, p)
  <2>1. \A p \in DOMAIN g.procs :
           /\ g.procs[p].entry \in DOMAIN g.heap
           /\ h.procs[p].entry = g.procs[p].entry
    BY DEF Well, ProcsFit, Grows
  <2> QED
    BY <2>1, FirstParts DEF ProcedureMade, Entered, First
<1>2. ASSUME NEW p \in DOMAIN g.procs
      PROVE  IF Entered(h, p) THEN AtHome(h, r, W, p) ELSE Scans(W, p)
  <2>1. IF Entered(g, p) THEN AtHome(g, r, W, p) ELSE Scans(W, p)
    BY DEF Promised
  <2> QED
    BY <1>1, <2>1 DEF AtHome, ProcedureMade
<1>3. ASSUME NEW b \in DOMAIN h.heap, h.heap[b].role = "code"
      PROVE  Unlost(h, W, b)
  <2>1. b \in DOMAIN g.heap /\ h.heap[b] = g.heap[b]
    BY <1>3 DEF ProcedureMade, Inner
  <2>2. Unlost(g, W, b)
    BY <1>3, <2>1 DEF Promised
  <2>3. Listed(g, b) => Listed(h, b)
    BY <2>1 DEF Listed, ProcedureMade
  <2> QED
    BY <2>1, <2>2, <2>3 DEF Unlost
<1>4. DOMAIN h.procs = DOMAIN g.procs \cup {addr}
  BY DEF ProcedureMade
<1>5. Entered(h, addr) => addr \in DOMAIN g.procs /\ Entered(g, addr)
  BY <1>1 DEF ProcedureMade
<1> QED
  BY <1>2, <1>3, <1>4, <1>5 DEF Promised

(* The exception is gone when the procedure is entered at home, or waits to *)
(* be scanned.                                                              *)
LEMMA PromisedAll ==
  ASSUME NEW g, NEW r, NEW W, NEW p, Promised(g, r, W, {p}),
         IF Entered(g, p) THEN AtHome(g, r, W, p) ELSE Scans(W, p)
  PROVE  Promised(g, r, W, {})
BY DEF Promised

(* A block that is taken from its list is promised to another procedure.    *)
LEMMA PromisedUnlisted ==
  ASSUME NEW g, NEW h, NEW p, NEW b, ListChanged(g, h, p, g.procs[p].blocks \ {b}),
         NEW r, NEW W, NEW E, Promised(g, r, W, E),
         NEW q \in Addresses, q # g.heap[b].proc, Promotes(W, q, b)
  PROVE  Promised(h, r, W, E)
<1>1. h.heap = g.heap /\ DOMAIN h.procs = DOMAIN g.procs
  BY DEF ListChanged
<1>2. \A c \in DOMAIN g.procs :
         /\ Entered(h, c) <=> Entered(g, c)
         /\ First(h, c) = First(g, c)
  BY DEF ListChanged, Entered, First
<1>3. \A c : c # b /\ Listed(g, c) => Listed(h, c)
  BY DEF Listed, ListChanged
<1>4. ASSUME NEW c \in DOMAIN h.heap, h.heap[c].role = "code"
      PROVE  Unlost(h, W, c)
  <2>1. Unlost(g, W, c)
    BY <1>1, <1>4 DEF Promised
  <2>2. CASE c = b
    BY <1>1, <2>2 DEF Unlost
  <2>3. CASE c # b
    BY <1>1, <1>3, <2>1, <2>3 DEF Unlost
  <2> QED
    BY <2>2, <2>3
<1>5. ASSUME NEW c \in DOMAIN h.procs \ E
      PROVE  IF Entered(h, c) THEN AtHome(h, r, W, c) ELSE Scans(W, c)
  <2>1. IF Entered(g, c) THEN AtHome(g, r, W, c) ELSE Scans(W, c)
    BY <1>1, <1>5 DEF Promised
  <2> QED
    BY <1>1, <1>2, <1>5, <2>1 DEF AtHome
<1> QED
  BY <1>4, <1>5 DEF Promised

(* The first edge from an entry concerns its own procedure only.            *)
LEMMA PromisedEntered ==
  ASSUME NEW X, NEW g, Well(g, X), NEW h, Grows(g, h), SameNodes(g, h),
         NEW p \in DOMAIN g.procs,
         \A c \in DOMAIN g.heap : c # g.procs[p].entry => h.heap[c].succ = g.heap[c].succ,
         NEW r, NEW W, Promised(g, r, W, {p})
  PROVE  Promised(h, r, W, {p})
<1>1. \A c \in DOMAIN g.procs :
         /\ g.procs[c].entry \in DOMAIN g.heap
         /\ g.heap[g.procs[c].entry].proc = c
         /\ h.procs[c] = g.procs[c]
  BY DEF Well, ProcsFit, SameNodes
<1>2. \A c \in DOMAIN g.procs \ {p} :
         h.heap[h.procs[c].entry].succ = g.heap[g.procs[c].entry].succ
  BY <1>1
<1>3. \A c \in DOMAIN g.procs \ {p} :
         /\ Entered(h, c) <=> Entered(g, c)
         /\ First(h, c) = First(g, c)
         /\ Entered(g, c) => First(g, c) \in DOMAIN g.heap
  BY <1>2, FirstParts DEF Entered, First
<1>4. ASSUME NEW c \in DOMAIN h.procs \ {p}
      PROVE  IF Entered(h, c) THEN AtHome(h, r, W, c) ELSE Scans(W, c)
  <2>1. c \in DOMAIN g.procs \ {p}
    BY <1>4 DEF SameNodes
  <2>2. IF Entered(g, c) THEN AtHome(g, r, W, c) ELSE Scans(W, c)
    BY <2>1 DEF Promised
  <2> QED
    BY <1>3, <2>1, <2>2 DEF AtHome, SameNodes
<1>5. ASSUME NEW b \in DOMAIN h.heap, h.heap[b].role = "code"
      PROVE  Unlost(h, W, b)
  <2>1. b \in DOMAIN g.heap /\ g.heap[b].role = "code" /\ h.heap[b].proc = g.heap[b].proc
    BY <1>5 DEF SameNodes
  <2>2. Unlost(g, W, b)
    BY <2>1 DEF Promised
  <2> QED
    BY <2>1, <2>2 DEF Unlost, Listed, SameNodes
<1> QED
  BY <1>4, <1>5 DEF Promised

(* A work item may go that scans a procedure which is entered already, or   *)
(* reads a block.                                                           *)
LEMMA PromisedDrop ==
  ASSUME NEW g, NEW r, NEW W, Promised(g, r, W, {}), NEW V,
         \A x \in W : \/ x \in V
                      \/ x.kind = "block"
                      \/ x.kind \in {"symbol", "procedure"} /\ Entered(g, x.addr)
  PROVE  Promised(g, r, V, {})
<1>1. \A p, b : Promotes(W, p, b) => Promotes(V, p, b)
  BY DEF Promotes
<1>2. \A p : Scans(W, p) /\ ~Entered(g, p) => Scans(V, p)
  BY DEF Scans
<1> QED
  BY <1>1, <1>2 DEF Promised, AtHome, Unlost

(* The procedure of a block of code is entered.                             *)
LEMMA OwnerEntered ==
  ASSUME NEW g, Well(g, Settled), NEW b \in DOMAIN g.heap, g.heap[b].role \in Inner
  PROVE  /\ g.heap[b].proc \in DOMAIN g.procs
         /\ Entered(g, g.heap[b].proc)
         /\ g.heap[b].role # "exit" /\ g.heap[b].role # "entry"
         /\ b \in Ends(g)
BY DEF Well, BlocksFit, EnteredFit, Inner, Ends, Settled, Excuses

(* The work items of short queues. *)
LEMMA ShortQueues ==
  ASSUME NEW x, NEW y
  PROVE  ToSet(<<>>) = {} /\ ToSet(<<x>>) = {x} /\ ToSet(<<x, y>>) = {x, y}
<1>1. ToSet(<<>>) = {} /\ ToSet(<<x>>) = {x}
  BY DEF ToSet
<1>2. ToSet(<<x, y>>) = {x, y}
  <2>1. PICK q : q = <<x, y>>
    OBVIOUS
  <2>2. DOMAIN q = {1, 2} /\ q[1] = x /\ q[2] = y
    BY <2>1
  <2>3. ToSet(q) = {x, y}
    BY <2>2 DEF ToSet
  <2> QED
    BY <2>1, <2>3
<1> QED
  BY <1>1, <1>2

(* What an item that is made stands for. *)
LEMMA ItemPromises ==
  ASSUME NEW W, NEW p, NEW b, NEW c
  PROVE  /\ Promotes(W \cup {Item("promote", p, b)}, p, b)
         /\ Scans(W \cup {Item("procedure", p, c)}, p)
<1>1. PICK x, y : x = Item("promote", p, b) /\ y = Item("procedure", p, c)
  OBVIOUS
<1>2. x.kind = "promote" /\ x.addr = p /\ x.block = b /\ y.kind = "procedure" /\ y.addr = p
  BY <1>1 DEF Item
<1>3. Promotes(W \cup {x}, p, b) /\ Scans(W \cup {y}, p)
  BY <1>2 DEF Promotes, Scans
<1> QED
  BY <1>1, <1>3

(* The block at an address where none started: if it goes to a procedure of *)
(* its own, that waits to be scanned, and the block to be promoted.         *)
LEMMA SettlePromises ==
  ASSUME NEW g, Well(g, Settled), NEW r, NEW dest \in Addresses, dest \notin DOMAIN r,
         NEW src \in Int,
         NEW k, Well(k, Settled), Keeps(g, k), BlockMade(g, k, dest),
         NEW t, DOMAIN t = DOMAIN r \cup {dest},
         \A a \in DOMAIN r : t[a].block = r[a].block,
         NEW proc \in DOMAIN g.procs, Entered(g, proc),
         NEW W, Promised(g, r, W, {}), NEW j
  PROVE  j = SettleBlock(k, t, src, dest, proc) =>
         Promised(j.g, j.ranges, W \cup ToSet(j.items), {})
<1>h. HAVE j = SettleBlock(k, t, src, dest, proc)
<1> USE <1>h
<1>1. PICK b, owner : b = Newest(k) /\ owner = k.heap[b].proc
  OBVIOUS
<1>2. b \in DOMAIN k.heap /\ k.heap[b].role = "code"
  BY <1>1 DEF BlockMade
<1>3. /\ proc \in DOMAIN k.procs /\ Entered(k, proc)
      /\ owner \in DOMAIN k.procs /\ Entered(k, owner)
  BY <1>1, <1>2, OwnerEntered DEF Keeps, Grows, Inner
<1>4. Promised(k, r, W, {})
  BY PromisedKept
<1>5. Promised(k, t, W, {})
  BY <1>4, PromisedRanges
<1>6. CASE owner = proc
  <2>1. j = Enqueued(k, t, b, <<Item("block", dest, None)>>)
    BY <1>1, <1>6, Zenon DEF SettleBlock
  <2> HIDE <1>h
  <2>2. j.g = k /\ j.ranges = t
    BY <2>1, EnqueuedIs
  <2> QED
    BY <1>5, <2>2, PromisedMore
<1>7. CASE owner # proc /\ IsBlockLinearProcedureExit(k, b)
  <2>1. PICK h : h = CloneBlock(k, b, proc)
    OBVIOUS
  <2>2. j = Enqueued(h, t, Newest(h), <<>>)
    BY <1>1, <1>7, <2>1, Zenon DEF SettleBlock, EnqueuedNewest
  <2> HIDE <1>h
  <2>3. Keeps(k, h)
    BY <1>2, <1>3, <2>1, CloneKeeps
  <2>4. Promised(h, t, W, {})
    BY <1>5, <2>3, PromisedKept
  <2>5. j.g = h /\ j.ranges = t
    BY <2>2, EnqueuedIs
  <2> QED
    BY <2>4, <2>5, PromisedMore
<1>8. CASE owner # proc /\ ~IsBlockLinearProcedureExit(k, b)
  <2>1. PICK l, m, h, x, y :
           /\ l = WithBlocks(k, owner, k.procs[owner].blocks \ {b})
           /\ m = EnsureProcedure(l, dest)
           /\ h = CallRetThunk(m, src, proc, dest)
           /\ x = Item("procedure", dest, None)
           /\ y = Item("promote", dest, b)
    OBVIOUS
  <2>2. j = Enqueued(h, Without(t, dest), Newest(h), <<x, y>>)
    <3>1. l = [k EXCEPT !.procs[owner].blocks = @ \ {b}]
      BY <2>1 DEF WithBlocks
    <3> QED
      BY <1>1, <1>8, <2>1, <3>1, Zenon DEF SettleBlock, EnqueuedNewest
  <2> HIDE <1>h
  <2>3. PICK V : V = W \cup {x, y} /\ W \subseteq V
    OBVIOUS
  <2>4. Scans(V, dest) /\ Promotes(V, dest, b)
    <3>1. Scans(W \cup {x}, dest) /\ Promotes(W \cup {y}, dest, b)
      BY <2>1, ItemPromises
    <3> QED
      BY <2>3, <3>1 DEF Scans, Promotes
  <2>5. /\ Well(l, Settled) /\ Grows(k, l)
        /\ ListChanged(k, l, owner, k.procs[owner].blocks \ {b})
    BY <1>3, <2>1, UnlistKeeps
  <2>6. dest # owner
    BY <1>3, <1>4 DEF Promised, AtHome
  <2>7. Promised(l, r, V, {})
    <3>1. Promised(k, r, V, {})
      BY <1>4, <2>3, PromisedMore
    <3> QED
      BY <1>1, <2>4, <2>5, <2>6, <3>1, PromisedUnlisted
  <2>8. /\ Well(m, Settled) /\ Grows(l, m) /\ ProcedureMade(l, m, dest)
        /\ Promised(m, r, V, {dest})
        /\ Entered(m, dest) => Promised(m, r, V, {})
    <3>1. Well(m, Settled) /\ Grows(l, m) /\ ProcedureMade(l, m, dest)
      BY <2>1, <2>5, EnsureProcedureKeeps
    <3> QED
      BY <2>5, <2>7, <3>1, PromisedMade
  <2>9. Promised(m, r, V, {})
    BY <2>4, <2>8, PromisedAll
  <2>10. Keeps(m, h)
    <3>1. dest \in Addresses \cup {None} /\ h = CallRetThunk(m, src, proc, dest)
      BY <2>1
    <3>2. proc \in DOMAIN m.procs /\ Entered(m, proc)
      BY <1>3, <2>5, <2>8 DEF Grows
    <3> QED
      BY <2>8, <3>1, <3>2, ThunkKeeps
  <2>11. Promised(h, r, V, {})
    BY <2>8, <2>9, <2>10, PromisedKept
  <2>12. Promised(h, Without(t, dest), V, {})
    BY <2>11, PromisedRanges DEF Without
  <2>13. j.g = h /\ j.ranges = Without(t, dest) /\ j.items = <<x, y>>
    BY <2>2, EnqueuedIs
  <2>14. W \cup ToSet(j.items) = V
    BY <2>3, <2>13, ShortQueues
  <2> QED
    BY <2>12, <2>13, <2>14
<1> QED
  BY <1>6, <1>7, <1>8

(* A block of another procedure: the procedure that is made for it is       *)
(* entered there, and the block waits to be promoted.                       *)
LEMMA ForeignPromises ==
  ASSUME NEW g, Well(g, Settled), NEW r, RangesFit(g, r), NEW src \in Int,
         NEW dest \in Addresses, dest \in DOMAIN r,
         NEW proc \in DOMAIN g.procs, Entered(g, proc),
         NEW W, Promised(g, r, W, {}), NEW j
  PROVE  j = JumpToForeignBlock(g, r, src, dest, proc) =>
         Promised(j.g, j.ranges, W \cup ToSet(j.items), {})
<1>h. HAVE j = JumpToForeignBlock(g, r, src, dest, proc)
<1> USE <1>h
<1>1. PICK b : b = r[dest].block /\ b \in DOMAIN g.heap /\ g.heap[b].role = "code"
  BY DEF RangesFit
<1>2. CASE dest = proc
  <2>1. j = Enqueued(g, r, b, <<Item("promote", dest, b)>>)
    BY <1>1, <1>2, Zenon DEF JumpToForeignBlock
  <2> HIDE <1>h
  <2>2. j.g = g /\ j.ranges = r
    BY <2>1, EnqueuedIs
  <2> QED
    BY <2>2, PromisedMore
<1>3. ASSUME NEW h, Keeps(g, h), NEW c, j = Enqueued(h, r, c, <<>>)
      PROVE  Promised(j.g, j.ranges, W \cup ToSet(j.items), {})
  <2>1. j.g = h /\ j.ranges = r
    BY <1>3, EnqueuedIs
  <2>2. Promised(h, r, W, {})
    BY <1>3, PromisedKept
  <2> QED
    BY <2>1, <2>2, PromisedMore
<1>4. CASE dest # proc /\ dest \in DOMAIN g.procs
  <2>1. PICK h : h = CallRetThunk(g, src, proc, dest)
    OBVIOUS
  <2>2. j = Enqueued(h, r, Newest(h), <<>>)
    BY <1>4, <2>1, Zenon DEF JumpToForeignBlock, EnqueuedNewest
  <2> HIDE <1>h
  <2>3. dest \in Addresses \cup {None}
    OBVIOUS
  <2>4. Keeps(g, h)
    BY <2>1, <2>3, ThunkKeeps
  <2> QED
    BY <1>3, <2>2, <2>4
<1>5. CASE /\ dest # proc /\ dest \notin DOMAIN g.procs
           /\ IsBlockLinearProcedureExit(g, b)
  <2>1. PICK h : h = CloneBlock(g, b, proc)
    OBVIOUS
  <2>2. j = Enqueued(h, r, Newest(h), <<>>)
    BY <1>1, <1>5, <2>1, Zenon DEF JumpToForeignBlock, EnqueuedNewest
  <2> HIDE <1>h
  <2>3. Keeps(g, h)
    BY <1>1, <2>1, CloneKeeps
  <2> QED
    BY <1>3, <2>2, <2>3
<1>6. CASE /\ dest # proc /\ dest \notin DOMAIN g.procs
           /\ ~IsBlockLinearProcedureExit(g, b)
  <2>1. PICK l, m, e, h, y :
           /\ l = EnsureProcedure(g, dest)
           /\ m = CallRetThunk(l, src, proc, dest)
           /\ e = m.procs[dest].entry
           /\ h = AddEdge(m, e, b)
           /\ y = Item("promote", dest, b)
    OBVIOUS
  <2>2. j = Enqueued(h, r, Newest(h), <<y>>)
    <3>1. h = Enter(m, dest, b)
      BY <2>1 DEF Enter
    <3> QED
      BY <1>1, <1>6, <2>1, <3>1, Zenon DEF JumpToForeignBlock, EnqueuedNewest
  <2> HIDE <1>h
  <2>3. Well(l, Settled) /\ Grows(g, l) /\ ProcedureMade(g, l, dest)
    BY <2>1, EnsureProcedureKeeps
  <2>4. Promised(l, r, W, {dest}) /\ dest \in DOMAIN l.procs /\ ~Entered(l, dest)
    <3>1. Promised(l, r, W, {dest}) /\ (Entered(l, dest) => dest \in DOMAIN g.procs)
      BY <2>3, PromisedMade
    <3> QED
      BY <1>6, <2>3, <3>1 DEF ProcedureMade
  <2>5. Well(m, Settled) /\ Keeps(l, m)
    <3>1. /\ Well(l, Settled) /\ m = CallRetThunk(l, src, proc, dest)
          /\ dest \in Addresses \cup {None}
      BY <2>1, <2>3
    <3>2. proc \in DOMAIN l.procs /\ Entered(l, proc)
      BY <2>3 DEF Grows
    <3> QED
      BY <3>1, <3>2, ThunkKeeps
  <2>6. Promised(m, r, W, {dest})
    BY <2>3, <2>4, <2>5, PromisedKept
  <2>7. /\ dest \in DOMAIN m.procs
        /\ e \in DOMAIN m.heap /\ m.heap[e].role = "entry" /\ m.heap[e].succ = <<>>
        /\ b \in Ends(m)
    <3>1. dest \in DOMAIN m.procs /\ ~Entered(m, dest)
      BY <2>4, <2>5 DEF Keeps, Grows, Stays, Shut
    <3>2. e \in DOMAIN m.heap /\ m.heap[e].role = "entry"
      BY <2>1, <2>5, <3>1 DEF Well, ProcsFit
    <3>3. b \in Ends(m)
      BY <1>1, <2>3, <2>5 DEF Keeps, Grows, Ends
    <3> QED
      BY <2>1, <3>1, <3>2, <3>3 DEF Entered
  <2>8. /\ Grows(m, h) /\ SameNodes(m, h)
        /\ \A c \in DOMAIN m.heap : c # e => h.heap[c].succ = m.heap[c].succ
        /\ h.heap[e].succ # <<>> /\ h.heap[e].succ[1] = b
    <3>1. Well(m, Settled) /\ h = AddEdge(m, e, b)
      BY <2>1, <2>5
    <3>2. e \in DOMAIN m.heap /\ m.heap[e].role # "exit" /\ m.heap[e].succ = <<>>
      BY <2>7
    <3>3. b \in Ends(m)
      BY <2>7
    <3> HIDE <1>6
    <3> QED
      BY <3>1, <3>2, <3>3, AddEdgeKeeps
  <2>9. PICK V : V = W \cup {y} /\ W \subseteq V
    OBVIOUS
  <2>10. Promised(h, r, V, {dest})
    <3>1. Promised(h, r, W, {dest})
      <4>1. Well(m, Settled) /\ dest \in DOMAIN m.procs /\ Promised(m, r, W, {dest})
        BY <2>5, <2>6, <2>7
      <4>2. /\ Grows(m, h) /\ SameNodes(m, h)
            /\ \A c \in DOMAIN m.heap :
                  c # m.procs[dest].entry => h.heap[c].succ = m.heap[c].succ
        BY <2>1, <2>8
      <4> HIDE <1>6
      <4> QED
        BY <4>1, <4>2, PromisedEntered
    <3> QED
      BY <2>9, <3>1, PromisedMore
  <2>11. Entered(h, dest) /\ First(h, dest) = b
    BY <2>1, <2>8 DEF Entered, First, SameNodes
  <2>12. AtHome(h, r, V, dest)
    BY <1>1, <2>1, <2>9, <2>11, ItemPromises DEF AtHome
  <2>13. Promised(h, r, V, {})
    BY <2>10, <2>11, <2>12, PromisedAll
  <2>14. j.g = h /\ j.ranges = r /\ j.items = <<y>>
    BY <2>2, EnqueuedIs
  <2>15. W \cup ToSet(j.items) = V
    BY <2>9, <2>14, ShortQueues
  <2> QED
    BY <2>13, <2>14, <2>15
<1> QED
  BY <1>2, <1>4, <1>5, <1>6

(* A jump from a block of a procedure that is entered loses nothing.        *)
LEMMA JumpPromises ==
  ASSUME NEW g, Well(g, Settled), NEW r, GoodRanges(r), RangesFit(g, r),
         NEW src \in Int, NEW dest \in Addresses,
         NEW proc \in DOMAIN g.procs, Entered(g, proc),
         NEW W, Promised(g, r, W, {}), NEW j
  PROVE  j = EnqueueJumpTarget(g, r, src, dest, proc) =>
         Promised(j.g, j.ranges, W \cup ToSet(j.items), {})
<1>h. HAVE j = EnqueueJumpTarget(g, r, src, dest, proc)
<1> USE <1>h
<1>1. CASE dest \notin DOMAIN r
  <2>1. PICK k, t : /\ k = MakeBlock(g, r, dest, proc)
                    /\ t = MakeRange(r, dest, Newest(g) + 1)
    OBVIOUS
  <2>2. j = SettleBlock(k, t, src, dest, proc)
    BY <1>1, <2>1 DEF EnqueueJumpTarget, JumpToNewBlock
  <2> HIDE <1>h
  <2>3. Well(k, Settled) /\ Keeps(g, k) /\ BlockMade(g, k, dest)
    BY <2>1, MakeBlockKeeps
  <2>4. DOMAIN t = DOMAIN r \cup {dest} /\ \A a \in DOMAIN r : t[a].block = r[a].block
    <3>1. dest \notin DOMAIN r /\ t = MakeRange(r, dest, Newest(g) + 1)
      BY <1>1, <2>1
    <3> QED
      BY <3>1, NewestRange, Z3T(30)
  <2> QED
    BY <1>1, <2>2, <2>3, <2>4, SettlePromises
<1>2. CASE dest \in DOMAIN r /\ g.heap[r[dest].block].proc = proc
  <2>1. j = Enqueued(g, r, r[dest].block, <<>>)
    BY <1>2 DEF EnqueueJumpTarget
  <2> HIDE <1>h
  <2>2. j.g = g /\ j.ranges = r
    BY <2>1, EnqueuedIs
  <2> QED
    BY <2>2, PromisedMore
<1>3. CASE dest \in DOMAIN r /\ g.heap[r[dest].block].proc # proc
  <2>1. j = JumpToForeignBlock(g, r, src, dest, proc)
    BY <1>3 DEF EnqueueJumpTarget
  <2> HIDE <1>h
  <2> QED
    BY <1>3, <2>1, ForeignPromises
<1> QED
  BY <1>1, <1>2, <1>3

(* Once it is cut at an address, no block goes on there.                    *)
LEMMA CutThere ==
  ASSUME NEW r, GoodRanges(r), NEW addr \in Addresses, NEW t
  PROVE  t = TerminateAnyBlockAt(r, addr) =>
         /\ addr \in DOMAIN t \/ ~InRange(t, addr)
         /\ DOMAIN t = DOMAIN r
         /\ \A a \in DOMAIN r : t[a].block = r[a].block
<1>h. HAVE t = TerminateAnyBlockAt(r, addr)
<1> USE <1>h
<1>1. addr \in Positions /\ addr \in Int
  BY ScannerAssumption DEF Addresses, Positions, Beyond
<1>2. CASE ~InRange(r, addr)
  BY <1>2 DEF TerminateAnyBlockAt
<1>3. CASE InRange(r, addr) /\ addr \in DOMAIN r
  BY <1>3 DEF TerminateAnyBlockAt, TerminateBlock
<1>4. CASE InRange(r, addr) /\ addr \notin DOMAIN r
  <2>1. PICK low : low = Max(AtOrBelow(r, addr)) /\ low \in DOMAIN r
    BY <1>1, <1>4, Nearest DEF InRange, GoodRanges
  <2>2. t = [r EXCEPT ![low].end = addr]
    BY <1>4, <2>1 DEF TerminateAnyBlockAt, TerminateBlock, InRange
  <2> HIDE <1>h
  <2>3. DOMAIN t = DOMAIN r
    BY <2>2
  <2>4. PICK e : e \in Positions /\ r[low] = [block |-> r[low].block, end |-> e]
    BY <2>1 DEF GoodRanges, RangesOf
  <2>5. t[low] = [r[low] EXCEPT !.end = addr] /\ \A a \in DOMAIN r : a # low => t[a] = r[a]
    BY <2>1, <2>2
  <2>6. t[low].end = addr /\ t[low].block = r[low].block
    BY <2>4, <2>5
  <2>7. AtOrBelow(t, addr) = AtOrBelow(r, addr)
    BY <2>3 DEF AtOrBelow
  <2>8. ~InRange(t, addr)
    BY <1>1, <2>1, <2>6, <2>7 DEF InRange
  <2> QED
    BY <2>3, <2>5, <2>6, <2>8
<1> QED
  BY <1>2, <1>3, <1>4

(* The block to jump to is that of the range at the address, and belongs to *)
(* the procedure there, or waits to be promoted to it.                      *)
HomeFits(j, W, addr) ==
    /\ Promised(j.g, j.ranges, W \cup ToSet(j.items), {addr})
    /\ Entered(j.g, addr) => First(j.g, addr) = j.block
    /\ addr \in DOMAIN j.ranges /\ j.ranges[addr].block = j.block
    /\ \/ j.g.heap[j.block].proc = addr
       \/ Promotes(W \cup ToSet(j.items), addr, j.block)

(* The scan of a procedure begins at a block that starts at its address:    *)
(* the procedure is entered there, and the block is its own, or waits to be *)
(* promoted to it.                                                          *)
LEMMA HomePromises ==
  ASSUME NEW addr \in Addresses, NEW X, X = Excuses({addr}, {}), NEW g, Well(g, X),
         addr \in DOMAIN g.procs, NEW r, GoodRanges(r), RangesFit(g, r),
         addr \in DOMAIN r \/ ~InRange(r, addr),
         NEW W, Promised(g, r, W, {addr}), Entered(g, addr) => AtHome(g, r, W, addr), NEW j
  PROVE  j = EnqueueJumpTarget(g, r, addr, addr, addr) => HomeFits(j, W, addr)
<1>h. HAVE j = EnqueueJumpTarget(g, r, addr, addr, addr)
<1> USE <1>h
<1>1. addr \in X.procs /\ addr \in Int
  BY ScannerAssumption DEF Excuses, Addresses
<1>2. CASE addr \notin DOMAIN r
  <2>1. PICK k, t : /\ k = MakeBlock(g, r, addr, addr)
                    /\ t = MakeRange(r, addr, Newest(g) + 1)
    OBVIOUS
  <2>2. j = SettleBlock(k, t, addr, addr, addr)
    BY <1>2, <2>1 DEF EnqueueJumpTarget, JumpToNewBlock
  <2> HIDE <1>h
  <2>3. PICK b : b = Newest(k)
    OBVIOUS
  <2>4. Keeps(g, k) /\ BlockMade(g, k, addr) /\ k.heap[b].proc = addr
    BY <1>1, <1>2, <2>1, <2>3, MakeBlockKeeps
  <2>5. /\ DOMAIN t = DOMAIN r \cup {addr}
        /\ t[addr].block = Newest(g) + 1
        /\ \A a \in DOMAIN r : t[a].block = r[a].block
    <3>1. addr \notin DOMAIN r /\ t = MakeRange(r, addr, Newest(g) + 1)
      BY <1>2, <2>1
    <3> QED
      BY <3>1, NewestRange, Z3T(30)
  <2>6. t[addr].block = b
    BY <2>3, <2>4, <2>5 DEF BlockMade, Newest
  <2>7. j = Enqueued(k, t, b, <<Item("block", addr, None)>>)
    BY <2>2, <2>3, <2>4, Zenon DEF SettleBlock
  <2>8. j.g = k /\ j.ranges = t /\ j.block = b
    BY <2>7, EnqueuedIs
  <2>9. Promised(k, t, W, {addr})
    <3>1. Promised(k, r, W, {addr})
      BY <2>4, PromisedKept
    <3> QED
      BY <2>5, <3>1, PromisedRanges
  <2>10. ~Entered(k, addr)
    <3>1. ~Entered(g, addr)
      BY <1>2 DEF AtHome
    <3> QED
      BY <2>4, <3>1 DEF Keeps, Stays, Shut
  <2> QED
    BY <2>4, <2>5, <2>6, <2>8, <2>9, <2>10, PromisedMore DEF HomeFits
<1>3. CASE addr \in DOMAIN r
  <2>1. PICK b : b = r[addr].block
    OBVIOUS
  <2>2. \/ j = Enqueued(g, r, b, <<>>) /\ g.heap[b].proc = addr
        \/ j = Enqueued(g, r, b, <<Item("promote", addr, b)>>)
    BY <1>3, <2>1 DEF EnqueueJumpTarget, JumpToForeignBlock
  <2> HIDE <1>h
  <2>3. /\ j.g = g /\ j.ranges = r /\ j.block = b
        /\ g.heap[b].proc = addr \/ j.items = <<Item("promote", addr, b)>>
    BY <2>2, EnqueuedIs
  <2>4. g.heap[b].proc = addr \/ Promotes(W \cup ToSet(j.items), addr, b)
    BY <2>3, ItemPromises, ShortQueues
  <2>5. Entered(g, addr) => First(g, addr) = b
    BY <2>1 DEF AtHome
  <2> QED
    BY <1>3, <2>1, <2>3, <2>4, <2>5, PromisedMore DEF HomeFits
<1> QED
  BY <1>2, <1>3

(* With the edge from its entry, it is at home.                             *)
LEMMA EnteredAtHome ==
  ASSUME NEW addr, NEW X, NEW h, Well(h, X), addr \in DOMAIN h.procs,
         NEW entry, entry = h.procs[addr].entry, NEW c \in DOMAIN h.heap,
         NEW k, Grows(h, k), SameNodes(h, k),
         \/ k = h
         \/ \A d \in DOMAIN h.heap : d # entry => k.heap[d].succ = h.heap[d].succ,
         NEW s, NEW V, Promised(h, s, V, {addr}),
         k.heap[entry].succ # <<>>, k.heap[entry].succ[1] = c,
         addr \in DOMAIN s, s[addr].block = c,
         h.heap[c].proc = addr \/ Promotes(V, addr, c)
  PROVE  Promised(k, s, V, {})
<1>1. Promised(k, s, V, {addr})
  BY PromisedEntered
<1>2. Entered(k, addr) /\ First(k, addr) = c
  BY DEF Entered, First, SameNodes
<1>3. k.heap[c].proc = h.heap[c].proc
  BY DEF SameNodes
<1>4. AtHome(k, s, V, addr)
  BY <1>2, <1>3 DEF AtHome
<1> QED
  BY <1>1, <1>2, <1>4, PromisedAll

(* The block that a procedure is entered at by an edge belongs to a range,  *)
(* unless the procedure waits to be scanned.                                *)
LEMMA FirstInRange ==
  ASSUME NEW g, Well(g, Settled), NEW r, RangesFit(g, r),
         NEW W, Promised(g, r, W, {}), NEW b \in Movers(g), IsEntered(g, b)
  PROVE  /\ g.heap[b].proc \in DOMAIN r
         /\ r[g.heap[b].proc].block = b
         /\ g.heap[b].addr = g.heap[b].proc
         /\ Listed(g, b)
<1>1. PICK p : p = g.heap[b].proc
  OBVIOUS
<1>2. p \in DOMAIN g.procs /\ Entered(g, p)
  BY <1>1, OwnerEntered DEF Movers
<1>3. First(g, p) = b
  BY <1>1 DEF IsEntered, First, ProcOf
<1>4. AtHome(g, r, W, p)
  BY <1>2 DEF Promised
<1>5. p \in DOMAIN r /\ r[p].block = b
  BY <1>3, <1>4 DEF AtHome
<1> QED
  BY <1>1, <1>5 DEF RangesFit

(* A promotion does what its work item was for: the work items that are     *)
(* left promise the rest.                                                   *)
LEMMA PromotePromises ==
  ASSUME NEW g, Well(g, Settled), NEW r, RangesFit(g, r),
         NEW W, Promised(g, r, W, {}), NEW b \in Movers(g), NEW addr \in DOMAIN g.procs,
         NEW h, Well(h, Settled), Grows(g, h), Lists(g, h), Moved(g, h, addr),
         b \in Movable(g, addr) => h.heap[b].proc = addr /\ Listed(h, b),
         NEW V, \A x \in W : x \in V \/ (x.kind = "promote" /\ x.addr = addr /\ x.block = b)
  PROVE  Promised(h, r, V, {})
<1>1. \A p, c : Promotes(W, p, c) => Promotes(V, p, c) \/ (p = addr /\ c = b)
  BY DEF Promotes
<1>2. \A p : Scans(W, p) => Scans(V, p)
  BY DEF Scans
<1>3. \A c \in Movers(g) :
         IsEntered(g, c) => /\ g.heap[c].proc \in DOMAIN r
                            /\ r[g.heap[c].proc].block = c
                            /\ g.heap[c].addr = g.heap[c].proc
                            /\ Listed(g, c)
  BY FirstInRange
<1>4. DOMAIN h.procs = DOMAIN g.procs
      /\ \A p \in DOMAIN g.procs : Entered(h, p) <=> Entered(g, p)
  BY DEF Grows, Lists, Shut
<1>5. ASSUME NEW p \in DOMAIN g.procs, Entered(g, p), NEW c, c = First(g, p)
      PROVE  /\ p \in DOMAIN r /\ r[p].block = c
             /\ h.heap[c].proc = p \/ Promotes(V, p, c)
  <2>1. AtHome(g, r, W, p)
    BY <1>5 DEF Promised
  <2>2. /\ p \in DOMAIN r /\ r[p].block = c
        /\ g.heap[c].proc = p \/ Promotes(W, p, c)
    BY <1>5, <2>1 DEF AtHome
  <2>3. c \in Movers(g) /\ g.heap[c].addr = p /\ c \in DOMAIN g.heap
    BY <2>2 DEF RangesFit, Movers, Inner
  <2>4. CASE g.heap[c].proc = p
    <3>1. IsEntered(g, c)
      BY <1>5, <2>4 DEF IsEntered, First, ProcOf, Entered
    <3>2. c \notin Movable(g, addr)
      BY <3>1 DEF Movable
    <3> QED
      BY <2>2, <2>3, <2>4, <3>2 DEF Moved
  <2>5. CASE g.heap[c].proc # p /\ Promotes(W, p, c)
    <3>1. CASE p = addr /\ c = b
      <4>1. ~IsEntered(g, b)
        BY <1>3, <2>3, <2>5, <3>1
      <4>2. b \in Movable(g, addr)
        BY <2>5, <3>1, <4>1 DEF Movable
      <4> QED
        BY <2>2, <3>1, <4>2
    <3>2. CASE Promotes(V, p, c)
      BY <2>2, <3>2
    <3> QED
      BY <1>1, <2>5, <3>1, <3>2
  <2> QED
    BY <2>2, <2>4, <2>5
<1>6. ASSUME NEW p \in DOMAIN h.procs
      PROVE  IF Entered(h, p) THEN AtHome(h, r, V, p) ELSE Scans(V, p)
  <2>1. p \in DOMAIN g.procs /\ (Entered(h, p) <=> Entered(g, p))
    BY <1>4, <1>6
  <2>2. CASE Entered(g, p)
    <3>1. First(h, p) = First(g, p)
      BY <2>1, <2>2 DEF Grows
    <3> QED
      BY <1>5, <2>1, <2>2, <3>1 DEF AtHome
  <2>3. CASE ~Entered(g, p)
    BY <1>2, <2>1, <2>3 DEF Promised
  <2> QED
    BY <2>2, <2>3
<1>7. ASSUME NEW c \in DOMAIN h.heap, h.heap[c].role = "code"
      PROVE  Unlost(h, V, c)
  <2>1. CASE c \notin DOMAIN g.heap
    BY <2>1 DEF Lists, Unlost
  <2>2. CASE c \in DOMAIN g.heap
    <3>1. g.heap[c].role = "code" /\ c \in Movers(g)
      BY <1>7, <2>2 DEF Grows, Movers, Inner
    <3>2. Unlost(g, W, c)
      BY <2>2, <3>1 DEF Promised
    <3>3. CASE Listed(g, c)
      BY <2>2, <3>3 DEF Lists, Unlost
    <3>4. CASE h.heap[c].proc # g.heap[c].proc
      BY <2>2, <3>4 DEF Moved, Unlost
    <3>5. CASE ~Listed(g, c) /\ h.heap[c].proc = g.heap[c].proc
      <4>1. PICK p \in Addresses : p # g.heap[c].proc /\ Promotes(W, p, c)
        BY <3>2, <3>5 DEF Unlost
      <4>2. CASE Promotes(V, p, c)
        BY <3>5, <4>1, <4>2 DEF Unlost
      <4>3. CASE p = addr /\ c = b
        <5>1. ~IsEntered(g, c)
          BY <1>3, <3>1, <3>5
        <5>2. c \in Movable(g, addr)
          BY <3>1, <4>1, <4>3, <5>1 DEF Movable
        <5> QED
          BY <4>3, <5>2 DEF Unlost
      <4> QED
        BY <1>1, <4>1, <4>2, <4>3
    <3> QED
      BY <3>3, <3>4, <3>5
  <2> QED
    BY <2>1, <2>2
<1> QED
  BY <1>6, <1>7 DEF Promised

-------------------------------------------------------------------------------
(* Work items and frames. *)

(* What is left of a sequence without one element. *)
LEMMA RestParts ==
  ASSUME NEW S, NEW s \in Seq(S), NEW i \in DOMAIN s, NEW t
  PROVE  t = RemoveAt(s, i) =>
         /\ \A j \in DOMAIN t : \E k \in DOMAIN s : t[j] = s[k]
         /\ \A k \in DOMAIN s : k # i => \E j \in DOMAIN t : t[j] = s[k]
<1>h. HAVE t = RemoveAt(s, i)
<1> USE <1>h
<1>1. PICK n : n = Len(s) /\ n \in Nat /\ DOMAIN s = 1 .. n /\ \A j \in 1 .. n : s[j] \in S
  BY SeqParts
<1>2. i \in 1 .. n
  BY <1>1
<1>3. PICK u : u = SubSeq(s, 1, i - 1)
  OBVIOUS
<1>4. PICK v : v = SubSeq(s, i + 1, n)
  OBVIOUS
<1>5. /\ u \in Seq(S) /\ Len(u) = i - 1
      /\ \A j \in 1 .. i - 1 : u[j] = s[j]
  <2>1. \A j \in 1 .. i - 1 : s[j] \in S
    BY <1>1, <1>2
  <2>2. /\ SubSeq(s, 1, i - 1) \in Seq(S)
        /\ Len(SubSeq(s, 1, i - 1)) = IF 1 <= i - 1 THEN (i - 1) - 1 + 1 ELSE 0
        /\ \A j \in 1 .. (i - 1) - 1 + 1 : SubSeq(s, 1, i - 1)[j] = s[1 + j - 1]
    BY <1>2, <2>1, SubSeqProperties
  <2>3. /\ u \in Seq(S)
        /\ Len(u) = IF 1 <= i - 1 THEN (i - 1) - 1 + 1 ELSE 0
        /\ \A j \in 1 .. (i - 1) - 1 + 1 : u[j] = s[1 + j - 1]
    BY <1>3, <2>2
  <2> QED
    BY <1>2, <2>3
<1>6. /\ v \in Seq(S) /\ Len(v) = n - i
      /\ \A j \in 1 .. n - i : v[j] = s[i + j]
  <2>1. \A j \in i + 1 .. n : s[j] \in S
    BY <1>1, <1>2
  <2>2. /\ SubSeq(s, i + 1, n) \in Seq(S)
        /\ Len(SubSeq(s, i + 1, n)) = IF i + 1 <= n THEN n - (i + 1) + 1 ELSE 0
        /\ \A j \in 1 .. n - (i + 1) + 1 : SubSeq(s, i + 1, n)[j] = s[(i + 1) + j - 1]
    BY <1>1, <1>2, <2>1, SubSeqProperties
  <2>3. /\ v \in Seq(S)
        /\ Len(v) = IF i + 1 <= n THEN n - (i + 1) + 1 ELSE 0
        /\ \A j \in 1 .. n - (i + 1) + 1 : v[j] = s[(i + 1) + j - 1]
    BY <1>4, <2>2
  <2>4. /\ n \in Int /\ i \in Int /\ i <= n /\ n - (i + 1) + 1 = n - i
        /\ \A j \in Int : (i + 1) + j - 1 = i + j
    BY <1>1, <1>2
  <2>5. Len(v) = n - i
    BY <2>3, <2>4
  <2>6. ASSUME NEW j \in 1 .. n - i
        PROVE  v[j] = s[i + j]
    <3>1. v[j] = s[(i + 1) + j - 1]
      BY <2>3, <2>4
    <3>2. (i + 1) + j - 1 = i + j
      BY <2>4
    <3> QED
      BY <3>1, <3>2
  <2> QED
    BY <2>3, <2>5, <2>6
<1>7. t = u \o v
  BY <1>1, <1>3, <1>4 DEF RemoveAt
<1> HIDE <1>h
<1>8. /\ Len(t) = n - 1 /\ DOMAIN t = 1 .. n - 1
      /\ \A j \in 1 .. n - 1 : t[j] = IF j < i THEN s[j] ELSE s[j + 1]
  <2>1. /\ t \in Seq(S) /\ Len(t) = Len(u) + Len(v)
        /\ \A j \in 1 .. Len(u) + Len(v) :
              t[j] = IF j <= Len(u) THEN u[j] ELSE v[j - Len(u)]
    BY <1>5, <1>6, <1>7, ConcatProperties
  <2>2. Len(t) = n - 1
    <3>1. Len(t) = (i - 1) + (n - i)
      BY <1>5, <1>6, <2>1
    <3>2. (i - 1) + (n - i) = n - 1
      BY <1>1, <1>2
    <3> QED
      BY <3>1, <3>2
  <2>3. DOMAIN t = 1 .. n - 1
    BY <2>1, <2>2, SeqParts
  <2>4. ASSUME NEW j \in 1 .. n - 1
        PROVE  t[j] = IF j < i THEN s[j] ELSE s[j + 1]
    <3>1. t[j] = IF j <= Len(u) THEN u[j] ELSE v[j - Len(u)]
      BY <1>1, <2>1, <2>2
    <3>2. CASE j < i
      BY <1>1, <1>2, <1>5, <3>1, <3>2
    <3>3. CASE ~(j < i)
      <4>1. t[j] = v[j - (i - 1)]
        BY <1>1, <1>2, <1>5, <3>1, <3>3
      <4>2. j - (i - 1) \in 1 .. n - i
        BY <1>1, <1>2, <3>3
      <4>3. i + (j - (i - 1)) = j + 1
        BY <1>1, <1>2
      <4>4. v[j - (i - 1)] = s[i + (j - (i - 1))]
        BY <1>6, <4>2
      <4> QED
        BY <3>3, <4>1, <4>3, <4>4
    <3> QED
      BY <3>2, <3>3
  <2> QED
    BY <2>2, <2>3, <2>4
<1>9. ASSUME NEW j \in DOMAIN t
      PROVE  \E k \in DOMAIN s : t[j] = s[k]
  <2>1. j \in 1 .. n - 1
    BY <1>8
  <2>2. j \in 1 .. n /\ j + 1 \in 1 .. n
    BY <1>1, <2>1
  <2> QED
    BY <1>1, <1>8, <2>1, <2>2
<1>10. ASSUME NEW k \in DOMAIN s, k # i
       PROVE  \E j \in DOMAIN t : t[j] = s[k]
  <2>1. k \in 1 .. n
    BY <1>1
  <2>2. CASE k < i
    <3>1. k \in 1 .. n - 1
      BY <1>1, <1>2, <2>1, <2>2
    <3> QED
      BY <1>8, <2>2, <3>1
  <2>3. CASE i < k
    <3>1. PICK j : j = k - 1
      OBVIOUS
    <3>2. j \in 1 .. n - 1 /\ ~(j < i) /\ j + 1 = k
      BY <1>1, <1>2, <2>1, <2>3, <3>1
    <3> QED
      BY <1>8, <3>2
  <2> QED
    BY <1>1, <1>2, <1>10, <2>1, <2>2, <2>3
<1> QED
  BY <1>9, <1>10

(* A queue is a sequence.                                                  *)
LEMMA QueueIsSeq ==
  ASSUME NEW q, IsQueue(q)
  PROVE  \E S : q \in Seq(S)
BY DEF IsQueue

(* Work items that fit a graph fit it when it has grown.                   *)
LEMMA ItemsGrow ==
  ASSUME NEW g, NEW h, Grows(g, h), NEW q, NEW X, ItemsFit(g, q, X)
  PROVE  ItemsFit(h, q, X)
BY DEF ItemsFit, Grows

(* The items of r are those of p and of q.                                  *)
Joins(r, p, q) ==
    /\ \A j \in DOMAIN p : \E i \in DOMAIN r : r[i] = p[j]
    /\ \A j \in DOMAIN q : \E i \in DOMAIN r : r[i] = q[j]
    /\ \A i \in DOMAIN r : (\E j \in DOMAIN p : r[i] = p[j]) \/ (\E j \in DOMAIN q : r[i] = q[j])

(* So it is with two lists, one behind the other.                           *)
LEMMA ConcatParts ==
  ASSUME NEW p, IsQueue(p), NEW q, IsQueue(q)
  PROVE  Joins(p \o q, p, q)
<1>1. PICK S : p \in Seq(S) /\ q \in Seq(S)
  <2>1. PICK T : p \in Seq(T)
    BY QueueIsSeq
  <2>2. PICK U : q \in Seq(U)
    BY QueueIsSeq
  <2>3. p \in Seq(T \cup U) /\ q \in Seq(T \cup U)
    BY <2>1, <2>2, SeqMonotonic
  <2> QED
    BY <2>3
<1>2. PICK m, n, r : m = Len(p) /\ n = Len(q) /\ r = p \o q
  OBVIOUS
<1>3. /\ m \in Nat /\ n \in Nat
      /\ DOMAIN p = 1 .. m /\ DOMAIN q = 1 .. n
  BY <1>1, <1>2, SeqParts
<1>4. /\ r \in Seq(S) /\ Len(r) = m + n
      /\ \A j \in 1 .. m + n : r[j] = IF j <= m THEN p[j] ELSE q[j - m]
  BY <1>1, <1>2, ConcatProperties
<1>5. DOMAIN r = 1 .. m + n
  BY <1>4, SeqParts
<1>6. \A j \in DOMAIN p : j \in DOMAIN r /\ r[j] = p[j]
  BY <1>3, <1>4, <1>5
<1>7. \A j \in DOMAIN q : j + m \in DOMAIN r /\ r[j + m] = q[j]
  <2> SUFFICES ASSUME NEW j \in 1 .. n
               PROVE  j + m \in 1 .. m + n /\ r[j + m] = q[j]
    BY <1>3, <1>5
  <2>1. j + m \in 1 .. m + n /\ ~(j + m <= m) /\ (j + m) - m = j
    BY <1>3
  <2> QED
    BY <1>4, <2>1
<1>8. \A i \in DOMAIN r : (\E j \in DOMAIN p : r[i] = p[j]) \/ (\E j \in DOMAIN q : r[i] = q[j])
  <2> SUFFICES ASSUME NEW i \in 1 .. m + n
               PROVE  (\E j \in DOMAIN p : r[i] = p[j]) \/ (\E j \in DOMAIN q : r[i] = q[j])
    BY <1>5
  <2>1. CASE i <= m
    <3>1. i \in 1 .. m
      BY <1>3, <2>1
    <3> QED
      BY <1>3, <1>4, <2>1, <3>1
  <2>2. CASE ~(i <= m)
    <3>1. PICK j : j = i - m
      OBVIOUS
    <3>2. j \in 1 .. n
      BY <1>3, <2>2, <3>1
    <3> QED
      BY <1>3, <1>4, <2>2, <3>1, <3>2
  <2> QED
    BY <2>1, <2>2
<1>9. Joins(r, p, q)
  BY <1>6, <1>7, <1>8 DEF Joins
<1> QED
  BY <1>2, <1>9

(* So the set of their items is the union.                                  *)
LEMMA ConcatSet ==
  ASSUME NEW p, IsQueue(p), NEW q, IsQueue(q)
  PROVE  ToSet(p \o q) = ToSet(p) \cup ToSet(q)
<1>1. PICK r : r = p \o q
  OBVIOUS
<1>2. Joins(r, p, q)
  BY <1>1, ConcatParts
<1>3. ToSet(r) = ToSet(p) \cup ToSet(q)
  BY <1>2 DEF Joins, ToSet
<1> QED
  BY <1>1, <1>3

(* Two lists of fitting items make one.                                    *)
LEMMA ItemsConcat ==
  ASSUME NEW g, NEW X, NEW p, IsQueue(p), ItemsFit(g, p, X),
         NEW q, IsQueue(q), ItemsFit(g, q, X)
  PROVE  ItemsFit(g, p \o q, X)
<1>1. PICK r : r = p \o q
  OBVIOUS
<1>2. Joins(r, p, q)
  BY <1>1, ConcatParts
<1>3. ItemsFit(g, r, X)
  <2> SUFFICES ASSUME NEW i \in DOMAIN r, r[i].kind = "promote"
               PROVE  /\ r[i].block \in DOMAIN g.heap
                      /\ g.heap[r[i].block].role = "code"
                      /\ r[i].addr \in DOMAIN g.procs
                      /\ \/ r[i].addr \in X.procs
                         \/ Entered(g, r[i].addr)
                         \/ \E j \in DOMAIN r : r[j].kind = "procedure" /\ r[j].addr = r[i].addr
    BY DEF ItemsFit
  <2>1. CASE \E j \in DOMAIN p : r[i] = p[j]
    BY <1>2, <2>1 DEF Joins, ItemsFit
  <2>2. CASE \E j \in DOMAIN q : r[i] = q[j]
    BY <1>2, <2>2 DEF Joins, ItemsFit
  <2> QED
    BY <1>2, <2>1, <2>2 DEF Joins
<1> QED
  BY <1>1, <1>3

(* A work item may be taken from a queue, if it was not the one that enters *)
(* a procedure some promotion needs.                                        *)
LEMMA ItemsRest ==
  ASSUME NEW g, NEW q, IsQueue(q), ItemsFit(g, q, Settled), NEW i \in DOMAIN q,
         NEW h, Grows(g, h), q[i].kind = "procedure" => Entered(h, q[i].addr)
  PROVE  ItemsFit(h, RemoveAt(q, i), Settled)
<1>1. PICK S, t : q \in Seq(S) /\ t = RemoveAt(q, i)
  BY QueueIsSeq
<1>2. ItemsFit(h, q, Settled)
  BY ItemsGrow
<1>3. /\ \A j \in DOMAIN t : \E k \in DOMAIN q : t[j] = q[k]
      /\ \A k \in DOMAIN q : k # i => \E j \in DOMAIN t : t[j] = q[k]
  BY <1>1, RestParts
<1>4. ItemsFit(h, t, Settled)
  <2> SUFFICES ASSUME NEW m \in DOMAIN t, t[m].kind = "promote"
               PROVE  /\ t[m].block \in DOMAIN h.heap
                      /\ h.heap[t[m].block].role = "code"
                      /\ t[m].addr \in DOMAIN h.procs
                      /\ \/ Entered(h, t[m].addr)
                         \/ \E j \in DOMAIN t : t[j].kind = "procedure" /\ t[j].addr = t[m].addr
    BY DEF ItemsFit
  <2>1. PICK k \in DOMAIN q : t[m] = q[k]
    BY <1>3
  <2>2. /\ q[k].block \in DOMAIN h.heap
        /\ h.heap[q[k].block].role = "code"
        /\ q[k].addr \in DOMAIN h.procs
        /\ \/ Entered(h, q[k].addr)
           \/ \E j \in DOMAIN q : q[j].kind = "procedure" /\ q[j].addr = q[k].addr
    BY <1>2, <2>1 DEF ItemsFit, Settled, Excuses
  <2> QED
    BY <1>3, <2>1, <2>2
<1> QED
  BY <1>1, <1>4

(* A procedure that is entered needs no exception.                          *)
LEMMA ExceptionGone ==
  ASSUME NEW p, NEW g, Well(g, Excuses({p}, {})), p \in DOMAIN g.procs, Entered(g, p)
  PROVE  /\ Well(g, Settled)
         /\ \A q : ItemsFit(g, q, Excuses({p}, {})) => ItemsFit(g, q, Settled)
BY DEF Well, EnteredFit, EntriesFit, ItemsFit, Excuses, Settled

(* A sound graph is sound with an exception, too.                          *)
LEMMA ExceptionMade ==
  ASSUME NEW X, NEW g, Well(g, Settled)
  PROVE  Well(g, X)
BY DEF Well, EnteredFit, EntriesFit, Excuses, Settled

(* A frame stands in a block of code, and takes its procedure from it.      *)
FrameFits(g, f) ==
    /\ f.block # None => f.block \in DOMAIN g.heap /\ g.heap[f.block].role = "code"
    /\ f.callee # None => f.block # None /\ f.callee \in Addresses
    /\ ItemsFit(g, f.queue, Settled)

(* So do all the frames of the stack.                                      *)
FramesFit(g, s) == \A n \in DOMAIN s : FrameFits(g, s[n])

(* The procedures that ScanProcedure has visited are entered.              *)
VisitedFit(g, v) == \A p \in v : p \in DOMAIN g.procs /\ Entered(g, p)

(* The work items of all the frames, and those that stay when the top of    *)
(* the stack is replaced by f.                                              *)
Pending(s)   == UNION {ToSet(s[n].queue) : n \in DOMAIN s}
Remaining(f) == ToSet(f.queue) \cup (Pending(frames) \ ToSet(Top.queue))

(* Work items of an instruction come on top of those that are pending.      *)
Accounted(g, r, items) ==
    canceled \/ Promised(g, r, Pending(frames) \cup ToSet(items), {})

(* The inductive invariant: the graph is sound without exception, the      *)
(* ranges stand for listed blocks, the work that is left is for blocks and *)
(* procedures of the graph, and unless the user cancels nothing that is    *)
(* still to be done is missing from it.                                    *)
GraphFits(g, r, s, v, c) ==
    /\ Well(g, Settled)
    /\ RangesFit(g, r)
    /\ FramesFit(g, s)
    /\ VisitedFit(g, v)
    /\ c \/ Promised(g, r, Pending(s), {})

GraphInv == GraphFits(program, ranges, frames, visited, canceled)

(* What every step does. *)
GraphKept == GraphInv' /\ Grows(program, program')

(* Frames that fit a graph fit it when it has grown.                       *)
LEMMA FramesGrow ==
  ASSUME NEW g, NEW h, Grows(g, h)
  PROVE  /\ \A f : FrameFits(g, f) => FrameFits(h, f)
         /\ \A s : FramesFit(g, s) => FramesFit(h, s)
         /\ \A v : VisitedFit(g, v) => VisitedFit(h, v)
<1>1. ASSUME NEW f, FrameFits(g, f) PROVE FrameFits(h, f)
  <2>1. ItemsFit(h, f.queue, Settled)
    BY <1>1, ItemsGrow DEF FrameFits
  <2> QED
    BY <1>1, <2>1 DEF FrameFits, Grows
<1>2. ASSUME NEW v, VisitedFit(g, v) PROVE VisitedFit(h, v)
  BY <1>2 DEF VisitedFit, Grows
<1> QED
  BY <1>1, <1>2 DEF FramesFit

(* The frames of a stack whose top is replaced, and on which h is pushed.   *)
LEMMA StackParts ==
  ASSUME NEW s, IsStack(s), s # <<>>, NEW n, n = Len(s), NEW f,
         NEW t, t = [s EXCEPT ![n] = f], NEW h, NEW u, u = Append(t, h)
  PROVE  /\ n \in DOMAIN s /\ DOMAIN t = DOMAIN s /\ t[n] = f
         /\ \A m \in DOMAIN s : m # n => t[m] = s[m]
         /\ \A m \in DOMAIN t : m \in DOMAIN u /\ u[m] = t[m]
         /\ \E m \in DOMAIN u : u[m] = h
         /\ \A m \in DOMAIN u : u[m] = h \/ m \in DOMAIN t
<1>1. PICK S : s \in Seq(S)
  BY DEF IsStack
<1>2. n \in Nat /\ DOMAIN s = 1 .. n /\ n # 0
  BY <1>1, SeqParts
<1>3. n \in DOMAIN s
  BY <1>2
<1>4. t \in Seq(S \cup {f, h})
  <2>1. s \in Seq(S \cup {f, h})
    BY <1>1, SeqMonotonic
  <2> QED
    BY <1>3, <2>1, ExceptParts
<1>5. DOMAIN t = DOMAIN s /\ t[n] = f /\ \A m \in DOMAIN s : m # n => t[m] = s[m]
  BY <1>3
<1>6. Len(t) \in Nat /\ DOMAIN t = 1 .. Len(t)
  BY <1>4, SeqParts
<1>7. /\ DOMAIN u = 1 .. Len(t) + 1 /\ u[Len(t) + 1] = h
      /\ \A i \in 1 .. Len(t) : u[i] = t[i]
  BY <1>4, AppendParts
<1>8. \A m \in DOMAIN t : m \in DOMAIN u /\ u[m] = t[m]
  BY <1>6, <1>7
<1>9. Len(t) + 1 \in DOMAIN u /\ \A m \in DOMAIN u : m = Len(t) + 1 \/ m \in DOMAIN t
  BY <1>6, <1>7
<1> QED
  BY <1>3, <1>5, <1>7, <1>8, <1>9

(* The frames of a stack whose top is popped.                              *)
LEMMA FrontParts ==
  ASSUME NEW s, IsStack(s), s # <<>>, NEW u, u = Front(s)
  PROVE  /\ \A m \in DOMAIN u : m \in DOMAIN s /\ u[m] = s[m]
         /\ \A m \in DOMAIN s : m # Len(s) => m \in DOMAIN u
<1>1. PICK S, n : /\ s \in Seq(S) /\ n = Len(s) /\ n \in Nat /\ DOMAIN s = 1 .. n
                  /\ \A j \in 1 .. n : s[j] \in S
  BY SeqParts DEF IsStack
<1>2. u = SubSeq(s, 1, n - 1)
  BY <1>1 DEF Front
<1>3. /\ u \in Seq(S)
      /\ Len(u) = IF 1 <= n - 1 THEN n - 1 - 1 + 1 ELSE 0
      /\ \A i \in 1 .. n - 1 - 1 + 1 : u[i] = s[1 + i - 1]
  BY <1>1, <1>2, SubSeqProperties
<1>4. DOMAIN u = 1 .. Len(u)
  BY <1>3, SeqParts
<1>5. ASSUME NEW i \in DOMAIN u
      PROVE  i \in DOMAIN s /\ u[i] = s[i]
  <2>1. i \in 1 .. n /\ i \in 1 .. n - 1 - 1 + 1 /\ 1 + i - 1 = i
    BY <1>1, <1>3, <1>4
  <2> QED
    BY <1>1, <1>3, <2>1
<1>6. ASSUME NEW m \in DOMAIN s, m # n
      PROVE  m \in DOMAIN u
  BY <1>1, <1>3, <1>4, <1>6
<1> QED
  BY <1>1, <1>5, <1>6

(* A stack keeps fitting when its top is replaced by a frame that fits,    *)
(* and when one is pushed on it or popped.                                 *)
LEMMA FramesPut ==
  ASSUME NEW g, NEW s, IsStack(s), s # <<>>, FramesFit(g, s), NEW f, FrameFits(g, f)
  PROVE  /\ FramesFit(g, [s EXCEPT ![Len(s)] = f])
         /\ \A h : FrameFits(g, h) => FramesFit(g, Append([s EXCEPT ![Len(s)] = f], h))
         /\ FramesFit(g, Front(s))
<1>1. PICK n, t, v : n = Len(s) /\ t = [s EXCEPT ![n] = f] /\ v = Front(s)
  OBVIOUS
<1>2. FramesFit(g, t)
  <2>1. /\ DOMAIN t = DOMAIN s /\ t[n] = f
        /\ \A m \in DOMAIN s : m # n => t[m] = s[m]
    BY <1>1, StackParts
  <2> QED
    BY <2>1 DEF FramesFit
<1>3. ASSUME NEW h, FrameFits(g, h), NEW u, u = Append(t, h)
      PROVE  FramesFit(g, u)
  <2>1. /\ \A m \in DOMAIN t : m \in DOMAIN u /\ u[m] = t[m]
        /\ \A m \in DOMAIN u : u[m] = h \/ m \in DOMAIN t
    BY <1>1, <1>3, StackParts
  <2> QED
    BY <1>2, <1>3, <2>1 DEF FramesFit
<1>4. FramesFit(g, v)
  <2>1. \A m \in DOMAIN v : m \in DOMAIN s /\ v[m] = s[m]
    BY <1>1, FrontParts
  <2> QED
    BY <2>1 DEF FramesFit
<1> QED
  BY <1>1, <1>2, <1>3, <1>4

(* Replacing the top, pushing a frame and popping one loses no work items   *)
(* but those of the top.                                                    *)
LEMMA PendingPut ==
  ASSUME IsStack(frames), Scanning, NEW f
  PROVE  /\ ToSet(Top.queue) \subseteq Pending(frames)
         /\ Remaining(f) \subseteq Pending(SetTop(f))
         /\ \A h : Remaining(f) \cup ToSet(h.queue) \subseteq Pending(Append(SetTop(f), h))
         /\ Pending(frames) \ ToSet(Top.queue) \subseteq Pending(Front(frames))
<1>1. PICK n, t, v : n = Len(frames) /\ t = SetTop(f) /\ v = Front(frames)
  OBVIOUS
<1>2. t = [frames EXCEPT ![n] = f] /\ Top = frames[n] /\ frames # <<>>
  BY <1>1 DEF SetTop, Top, Scanning
<1>3. /\ n \in DOMAIN frames /\ DOMAIN t = DOMAIN frames /\ t[n] = f
      /\ \A m \in DOMAIN frames : m # n => t[m] = frames[m]
  BY <1>1, <1>2, StackParts
<1>4. ToSet(Top.queue) \subseteq Pending(frames)
  BY <1>2, <1>3 DEF Pending
<1>5. Remaining(f) \subseteq Pending(t)
  <2>1. ToSet(f.queue) \subseteq Pending(t)
    BY <1>3 DEF Pending
  <2>2. ASSUME NEW x \in Pending(frames), x \notin ToSet(Top.queue)
        PROVE  x \in Pending(t)
    <3>1. PICK m \in DOMAIN frames : x \in ToSet(frames[m].queue)
      BY <2>2 DEF Pending
    <3>2. m # n /\ t[m] = frames[m]
      BY <1>2, <1>3, <2>2, <3>1
    <3> QED
      BY <1>3, <3>1, <3>2 DEF Pending
  <2> QED
    BY <2>1, <2>2 DEF Remaining
<1>6. ASSUME NEW h, NEW u, u = Append(t, h)
      PROVE  Remaining(f) \cup ToSet(h.queue) \subseteq Pending(u)
  <2>1. /\ \A m \in DOMAIN t : m \in DOMAIN u /\ u[m] = t[m]
        /\ \E m \in DOMAIN u : u[m] = h
    BY <1>1, <1>2, <1>6, StackParts
  <2>2. Pending(t) \subseteq Pending(u)
    BY <2>1 DEF Pending
  <2>3. ToSet(h.queue) \subseteq Pending(u)
    BY <2>1 DEF Pending
  <2> QED
    BY <1>5, <2>2, <2>3
<1>7. Pending(frames) \ ToSet(Top.queue) \subseteq Pending(v)
  <2>1. /\ \A m \in DOMAIN v : v[m] = frames[m]
        /\ \A m \in DOMAIN frames : m # n => m \in DOMAIN v
    BY <1>1, <1>2, FrontParts
  <2>2. ASSUME NEW x \in Pending(frames), x \notin ToSet(Top.queue)
        PROVE  x \in Pending(v)
    <3>1. PICK m \in DOMAIN frames : x \in ToSet(frames[m].queue)
      BY <2>2 DEF Pending
    <3>2. m \in DOMAIN v /\ v[m] = frames[m]
      BY <1>2, <2>1, <2>2, <3>1
    <3> QED
      BY <3>1, <3>2 DEF Pending
  <2> QED
    BY <2>2
<1> QED
  BY <1>1, <1>4, <1>5, <1>6, <1>7

(* New frames. *)
LEMMA FrameParts ==
  ASSUME NEW p, NEW q
  PROVE  /\ Frame(p, q).block = None /\ Frame(p, q).callee = None
         /\ Frame(p, q).queue = q
         /\ \A b, a :
               /\ [Frame(p, q) EXCEPT !.block = b, !.addr = a].block = b
               /\ [Frame(p, q) EXCEPT !.block = b, !.addr = a].callee = None
               /\ [Frame(p, q) EXCEPT !.block = b, !.addr = a].queue = q
BY DEF Frame

(* A frame that starts with a fitting queue fits.                          *)
LEMMA FrameOfQueueFits ==
  ASSUME NEW g, NEW p, NEW q, ItemsFit(g, q, Settled)
  PROVE  /\ FrameFits(g, Frame(p, q))
         /\ \A b, a : b \in DOMAIN g.heap /\ g.heap[b].role = "code"
               => FrameFits(g, [Frame(p, q) EXCEPT !.block = b, !.addr = a])
<1>1. PICK f : f = Frame(p, q)
  OBVIOUS
<1>2. f.block = None /\ f.callee = None /\ f.queue = q
  BY <1>1, FrameParts
<1>3. FrameFits(g, f)
  BY <1>2 DEF FrameFits
<1>4. ASSUME NEW b \in DOMAIN g.heap, NEW a, g.heap[b].role = "code"
      PROVE  FrameFits(g, [Frame(p, q) EXCEPT !.block = b, !.addr = a])
  <2>1. PICK h : h = [Frame(p, q) EXCEPT !.block = b, !.addr = a]
    OBVIOUS
  <2>2. h.block = b /\ h.callee = None /\ h.queue = q
    BY <2>1, FrameParts
  <2>3. FrameFits(g, h)
    BY <1>4, <2>2 DEF FrameFits
  <2> QED
    BY <2>1, <2>3
<1> QED
  BY <1>1, <1>3, <1>4

(* The frame on top of the stack fits.                                     *)
LEMMA TopFits ==
  ASSUME RangesInv, GraphInv, Scanning
  PROVE  FrameFits(program, Top) /\ IsFrame(Top) /\ IsQueue(Top.queue)
         /\ ItemsFit(program, Top.queue, Settled)
<1>1. PICK S : frames \in Seq(S)
  BY DEF RangesInv, IsStack
<1>2. Len(frames) \in DOMAIN frames
  BY <1>1, SeqParts DEF Scanning
<1> QED
  BY <1>2, TopIsFrame DEF GraphInv, GraphFits, FramesFit, Top, IsFrame, FrameFits

(* A step that replaces the top frame.                                      *)
LEMMA TopReplaced ==
  ASSUME RangesInv, GraphInv, Scanning,
         NEW g, Well(g, Settled), Grows(program, g), NEW r, RangesFit(g, r),
         NEW f, FrameFits(g, f), NEW v, VisitedFit(g, v)
  PROVE  \A c :
            /\ (c \/ Promised(g, r, Remaining(f), {})) => GraphFits(g, r, SetTop(f), v, c)
            /\ \A h : /\ FrameFits(g, h)
                      /\ c \/ Promised(g, r, Remaining(f) \cup ToSet(h.queue), {})
                      => GraphFits(g, r, Append(SetTop(f), h), v, c)
<1>1. FramesFit(g, frames)
  BY FramesGrow DEF GraphInv, GraphFits
<1>2. /\ FramesFit(g, SetTop(f))
      /\ \A h : FrameFits(g, h) => FramesFit(g, Append(SetTop(f), h))
  BY <1>1, FramesPut DEF RangesInv, Scanning, SetTop
<1>3. /\ Remaining(f) \subseteq Pending(SetTop(f))
      /\ \A h : Remaining(f) \cup ToSet(h.queue) \subseteq Pending(Append(SetTop(f), h))
  BY PendingPut DEF RangesInv
<1>4. /\ Promised(g, r, Remaining(f), {}) => Promised(g, r, Pending(SetTop(f)), {})
      /\ \A h : Promised(g, r, Remaining(f) \cup ToSet(h.queue), {})
                => Promised(g, r, Pending(Append(SetTop(f), h)), {})
  BY <1>3, PromisedMore
<1> QED
  BY <1>2, <1>4 DEF GraphFits

-------------------------------------------------------------------------------
(* Parts of steps, and what they do to the graph. *)

(* The queue of the top frame, with the items a step adds.                  *)
LEMMA QueueGrown ==
  ASSUME RangesInv, GraphInv, Scanning, NEW g, Grows(program, g),
         NEW items, IsQueue(items), ItemsFit(g, items, Settled)
  PROVE  ItemsFit(g, Top.queue \o items, Settled)
<1>1. IsQueue(Top.queue) /\ ItemsFit(program, Top.queue, Settled)
  BY TopFits
<1>2. ItemsFit(g, Top.queue, Settled)
  BY <1>1, ItemsGrow
<1> QED
  BY <1>1, <1>2, ItemsConcat

(* So nothing is lost when they are.                                        *)
LEMMA QueueAccounted ==
  ASSUME RangesInv, Scanning, NEW items, IsQueue(items),
         NEW g, NEW r, Accounted(g, r, items), NEW f
  PROVE  f.queue = Top.queue \o items => canceled \/ Promised(g, r, Remaining(f), {})
<1>h. HAVE f.queue = Top.queue \o items
<1> USE <1>h
<1>1. IsQueue(Top.queue)
  BY TopIsFrame DEF IsFrame
<1>2. ToSet(f.queue) = ToSet(Top.queue) \cup ToSet(items)
  BY <1>1, ConcatSet
<1> HIDE <1>h
<1>3. Pending(frames) \cup ToSet(items) \subseteq Remaining(f)
  BY <1>2 DEF Remaining
<1> QED
  BY <1>3, PromisedMore DEF Accounted

(* Nothing is lost either when blocks, statements and edges are added,      *)
LEMMA AccountedOn ==
  ASSUME NEW g, Well(g, Settled), NEW h, Keeps(g, h), NEW r, NEW items, Accounted(g, r, items)
  PROVE  Accounted(h, r, items)
BY PromisedKept DEF Accounted

(* when a block is cut,                                                     *)
LEMMA AccountedCut ==
  ASSUME NEW g, NEW r, NEW items, Accounted(g, r, items),
         GoodRanges(r), NEW addr \in Positions, NEW t
  PROVE  t = TerminateBlock(r, addr) => Accounted(g, t, items)
<1>h. HAVE t = TerminateBlock(r, addr)
<1> USE <1>h
<1>1. DOMAIN t = DOMAIN r /\ \A a \in DOMAIN r : t[a].block = r[a].block
  BY TerminateBlocks
<1> HIDE <1>h
<1> QED
  BY <1>1, PromisedRanges DEF Accounted

(* and when a jump is made.                                                 *)
LEMMA AccountedJump ==
  ASSUME NEW g, Well(g, Settled), NEW r, GoodRanges(r), RangesFit(g, r),
         NEW src \in Int, NEW dest \in Addresses,
         NEW proc \in DOMAIN g.procs, Entered(g, proc),
         NEW items, IsQueue(items), Accounted(g, r, items), NEW j
  PROVE  j = EnqueueJumpTarget(g, r, src, dest, proc) =>
         Accounted(j.g, j.ranges, items \o j.items)
<1>h. HAVE j = EnqueueJumpTarget(g, r, src, dest, proc)
<1> USE <1>h
<1>1. PICK W : W = Pending(frames) \cup ToSet(items)
  OBVIOUS
<1>2. Promised(g, r, W, {}) => Promised(j.g, j.ranges, W \cup ToSet(j.items), {})
  BY JumpPromises
<1>3. IsQueue(j.items)
  BY JumpKeeps
<1> HIDE <1>h
<1>4. ToSet(items \o j.items) = ToSet(items) \cup ToSet(j.items)
  BY <1>3, ConcatSet
<1>5. W \cup ToSet(j.items) = Pending(frames) \cup ToSet(items \o j.items)
  BY <1>1, <1>4
<1> QED
  BY <1>1, <1>2, <1>5 DEF Accounted

(* Visited procedures stay entered.                                         *)
LEMMA VisitedGrow ==
  ASSUME GraphInv, NEW g, Grows(program, g)
  PROVE  VisitedFit(g, visited)
BY FramesGrow DEF GraphInv, GraphFits

(* A block is left.                                                         *)
LEMMA LeaveBlockFits ==
  ASSUME RangesInv, GraphInv, Scanning, NEW g, Well(g, Settled), Grows(program, g),
         NEW r, RangesFit(g, r), NEW items, IsQueue(items), ItemsFit(g, items, Settled),
         Accounted(g, r, items), LeaveBlock(g, r, items), UNCHANGED <<visited, canceled>>
  PROVE  GraphKept /\ program' = g
<1>1. PICK q : q = Top.queue \o items
  OBVIOUS
<1>2. ItemsFit(g, q, Settled)
  BY <1>1, QueueGrown
<1>3. PICK f : f = Frame(Top.proc, q)
  OBVIOUS
<1>4. FrameFits(g, f)
  BY <1>2, <1>3, FrameOfQueueFits
<1>5. VisitedFit(g, visited)
  BY VisitedGrow
<1>8. f.queue = Top.queue \o items
  BY <1>1, <1>3, FrameParts
<1>9. canceled \/ Promised(g, r, Remaining(f), {})
  BY <1>8, QueueAccounted
<1>6. GraphFits(g, r, SetTop(f), visited, canceled)
  BY <1>4, <1>5, <1>9, TopReplaced
<1>7. /\ program' = g /\ ranges' = r /\ frames' = SetTop(f)
      /\ visited' = visited /\ canceled' = canceled
  BY <1>1, <1>3 DEF LeaveBlock
<1> QED
  BY <1>6, <1>7 DEF GraphInv, GraphKept

(* A block goes on.                                                         *)
LEMMA StayFits ==
  ASSUME RangesInv, GraphInv, Scanning, NEW g, Well(g, Settled), Grows(program, g),
         NEW r, RangesFit(g, r), NEW items, IsQueue(items), ItemsFit(g, items, Settled),
         Accounted(g, r, items),
         NEW b \in DOMAIN g.heap, g.heap[b].role = "code", NEW next,
         program' = g, ranges' = r, UNCHANGED <<visited, canceled>>
  PROVE  frames' = SetTop([Frame(Top.proc, Top.queue \o items) EXCEPT
                              !.block = b, !.addr = next]) =>
         GraphKept
<1>h. HAVE frames' = SetTop([Frame(Top.proc, Top.queue \o items) EXCEPT
                                !.block = b, !.addr = next])
<1> USE <1>h
<1>1. PICK q : q = Top.queue \o items
  OBVIOUS
<1>2. ItemsFit(g, q, Settled)
  BY <1>1, QueueGrown
<1>3. PICK f : f = [Frame(Top.proc, q) EXCEPT !.block = b, !.addr = next]
  OBVIOUS
<1>4. frames' = SetTop(f)
  BY <1>1, <1>3
<1> HIDE <1>h
<1>5. FrameFits(g, f)
  BY <1>2, <1>3, FrameOfQueueFits
<1>6. VisitedFit(g, visited)
  BY VisitedGrow
<1>8. f.queue = Top.queue \o items
  <2>1. f.queue = q
    BY <1>3, FrameParts
  <2> QED
    BY <1>1, <2>1
<1>9. canceled \/ Promised(g, r, Remaining(f), {})
  BY <1>8, QueueAccounted
<1>7. GraphFits(g, r, SetTop(f), visited, canceled)
  BY <1>5, <1>6, <1>9, TopReplaced
<1> QED
  BY <1>4, <1>7 DEF GraphInv, GraphKept

(* What follows an instruction.                                             *)
LEMMA GoOnFits ==
  ASSUME RangesInv, GraphInv, Scanning, Pos \in Int,
         NEW g, Well(g, Settled), Grows(program, g),
         NEW r, GoodRanges(r), RangesFit(g, r),
         NEW items, IsQueue(items), ItemsFit(g, items, Settled),
         NEW b \in DOMAIN g.heap, g.heap[b].role = "code", NEW next \in Positions,
         Accounted(g, r, items), UNCHANGED <<visited, canceled>>
  PROVE  GoOn(g, r, b, next, items) => GraphKept /\ Grows(g, program')
<1>h. HAVE GoOn(g, r, b, next, items)
<1> USE <1>h
<1>1. PICK proc : proc = g.heap[b].proc
  OBVIOUS
<1>2. proc \in DOMAIN g.procs /\ Entered(g, proc)
  BY <1>1, OwnerEntered DEF Inner
<1>3. CASE next \in DOMAIN g.procs \ {proc}
  <2>1. PICK h, k : /\ h = CallRetThunk(g, Pos, proc, next)
                    /\ k = EnsureEdge(h, b, Newest(h))
                    /\ LeaveBlock(k, r, items)
    BY <1>1, <1>3 DEF GoOn
  <2>2. next \in Addresses \cup {None}
    BY <1>3, GraphParts DEF Well
  <2> HIDE <1>h
  <2>3. Well(h, Settled) /\ Keeps(g, h) /\ ThunkAdded(g, h, proc)
    BY <1>2, <2>1, <2>2, ThunkKeeps
  <2>4. /\ b \in DOMAIN h.heap /\ h.heap[b].role # "exit" /\ h.heap[b].role # "entry"
        /\ Newest(h) \in Ends(h)
    BY <2>3 DEF ThunkAdded, Keeps, Grows
  <2>5. Well(k, Settled) /\ Keeps(h, k)
    BY <2>1, <2>3, <2>4, EnsureEdgeKeeps
  <2>6. Keeps(g, k)
    BY <2>3, <2>5, KeepsOn
  <2>7. Grows(g, k) /\ Lists(g, k)
    BY <2>6, KeepsLists DEF Keeps
  <2>8. Grows(program, k) /\ RangesFit(k, r) /\ ItemsFit(k, items, Settled)
    BY <2>7, GrowsOn, RangesStay, ItemsGrow
  <2>9. Accounted(k, r, items)
    BY <2>6, AccountedOn
  <2> QED
    BY <2>1, <2>5, <2>7, <2>8, <2>9, LeaveBlockFits
<1>4. CASE /\ next \notin DOMAIN g.procs \ {proc}
           /\ InRange(r, next) /\ FindContainingBlock(r, next) # b
  <2>1. PICK jump, k : /\ jump = EnqueueJumpTarget(g, r, Pos, next, proc)
                       /\ k = EnsureEdge(jump.g, b, jump.block)
                       /\ LeaveBlock(k, jump.ranges, items \o jump.items)
    BY <1>1, <1>4 DEF GoOn
  <2>2. next \in Addresses
    <3>1. RangesOf(r) /\ AtOrBelow(r, next) # {} /\ next < r[Max(AtOrBelow(r, next))].end
      BY <1>4 DEF InRange, GoodRanges
    <3>2. PICK low \in DOMAIN r : low = Max(AtOrBelow(r, next))
      BY <3>1, Nearest
    <3>3. next < r[low].end /\ r[low].end \in Positions
      BY <3>1, <3>2 DEF RangesOf
    <3> QED
      BY <3>3, ScannerAssumption DEF Positions, Addresses, Beyond
  <2> HIDE <1>h
  <2>3. JumpFits(g, jump, Settled)
    BY <1>2, <2>1, <2>2, JumpFitsAll
  <2>4. IsQueue(jump.items)
    BY <2>1, <2>2, JumpKeeps
  <2>5. PICK h, s, q, c : h = jump.g /\ s = jump.ranges /\ q = jump.items /\ c = jump.block
    OBVIOUS
  <2>6. /\ Well(h, Settled) /\ Grows(g, h) /\ RangesFit(h, s)
        /\ c \in DOMAIN h.heap /\ h.heap[c].role \in Inner
        /\ ItemsFit(h, q, Settled)
    BY <2>3, <2>5 DEF JumpFits, IsTarget
  <2>7. /\ k = EnsureEdge(h, b, c) /\ LeaveBlock(k, s, items \o q) /\ IsQueue(q)
    BY <2>1, <2>4, <2>5
  <2>14. Accounted(h, s, items \o q)
    <3>1. Accounted(jump.g, jump.ranges, items \o jump.items)
      <4>1. proc \in DOMAIN g.procs /\ Entered(g, proc) /\ next \in Addresses
        BY <1>2, <2>2
      <4> QED
        BY <2>1, <4>1, AccountedJump
    <3> QED
      BY <2>5, <3>1
  <2> HIDE <2>1, <2>3, <2>4, <2>5
  <2>8. /\ b \in DOMAIN h.heap /\ h.heap[b].role # "exit" /\ h.heap[b].role # "entry"
        /\ c \in Ends(h)
    BY <2>6, OwnerEntered DEF Grows
  <2>9. Well(k, Settled) /\ Keeps(h, k)
    BY <2>6, <2>7, <2>8, EnsureEdgeKeeps
  <2>10. Grows(g, h) /\ Grows(h, k) /\ Lists(h, k)
    BY <2>6, <2>9, KeepsLists DEF Keeps
  <2>11. Grows(g, k) /\ Grows(program, k)
    BY <2>10, GrowsOn
  <2>12. RangesFit(k, s) /\ ItemsFit(k, q, Settled) /\ ItemsFit(k, items, Settled)
    BY <2>6, <2>10, <2>11, RangesStay, ItemsGrow
  <2>13. IsQueue(items \o q) /\ ItemsFit(k, items \o q, Settled)
    BY <2>7, <2>12, QueueConcat, ItemsConcat
  <2>15. Accounted(k, s, items \o q)
    BY <2>6, <2>9, <2>14, AccountedOn
  <2> QED
    BY <2>7, <2>9, <2>11, <2>12, <2>13, <2>15, LeaveBlockFits
<1>5. CASE /\ next \notin DOMAIN g.procs \ {proc}
           /\ ~(InRange(r, next) /\ FindContainingBlock(r, next) # b)
  <2>1. /\ program' = g /\ ranges' = r
        /\ frames' = SetTop([Frame(Top.proc, Top.queue \o items) EXCEPT
                                !.block = b, !.addr = next])
    BY <1>1, <1>5 DEF GoOn
  <2> HIDE <1>h
  <2> QED
    BY <2>1, GrowsReflexive, StayFits
<1> QED
  BY <1>3, <1>4, <1>5

(* Cutting a block keeps it the block of its range.                         *)
LEMMA TerminateFits ==
  ASSUME NEW g, NEW r, GoodRanges(r), RangesFit(g, r), NEW addr \in Positions
  PROVE  RangesFit(g, TerminateBlock(r, addr))
BY TerminateBlocks DEF RangesFit

(* The scan of a procedure begins.  It is entered then, even if the graph   *)
(* was made for a thunk.                                                    *)
LEMMA ScanProcedureFits ==
  ASSUME RangesInv, GraphInv, Scanning, NEW addr \in Addresses, NEW top,
         \A k : /\ Grows(program, k)
                /\ addr \in DOMAIN k.procs /\ Entered(k, addr)
                => FrameFits(k, top),
         \A x \in Pending(frames) :
            x \in Remaining(top) \/ (x.kind \in {"symbol", "procedure"} /\ x.addr = addr),
         UNCHANGED canceled
  PROVE  ScanProcedure(addr, top) => GraphKept
<1>h. HAVE ScanProcedure(addr, top)
<1> USE <1>h
<1>1. PICK g, r : /\ g = EnsureProcedure(program, addr)
                  /\ r = TerminateAnyBlockAt(ranges, addr)
  OBVIOUS
<1>2. /\ Well(program, Settled) /\ RangesFit(program, ranges) /\ VisitedFit(program, visited)
      /\ canceled \/ Promised(program, ranges, Pending(frames), {})
  BY DEF GraphInv, GraphFits
<1>3. Well(g, Settled) /\ Grows(program, g) /\ ProcedureMade(program, g, addr)
  BY <1>1, <1>2, EnsureProcedureKeeps
<1>4. addr \in DOMAIN g.procs
  BY <1>3 DEF ProcedureMade
<1>5. GoodRanges(r) /\ RangesFit(program, r)
  <2>1. addr \in Positions /\ GoodRanges(ranges)
    BY ScannerAssumption DEF Addresses, Positions, Beyond, RangesInv
  <2> QED
    BY <1>1, <1>2, <2>1, TerminateKeeps, TerminateFits DEF TerminateAnyBlockAt
<1>6. RangesFit(g, r)
  BY <1>3, <1>5, RangesStayMade
<1>9. /\ addr \in DOMAIN r \/ ~InRange(r, addr)
      /\ DOMAIN r = DOMAIN ranges
      /\ \A a \in DOMAIN ranges : r[a].block = ranges[a].block
  BY <1>1, CutThere DEF RangesInv
<1>10. \/ canceled
       \/ /\ Promised(g, r, Pending(frames), {addr})
          /\ Entered(g, addr) => Promised(g, r, Pending(frames), {})
  <2>1. CASE Promised(program, ranges, Pending(frames), {})
    <3>1. /\ Promised(g, ranges, Pending(frames), {addr})
          /\ Entered(g, addr) => Promised(g, ranges, Pending(frames), {})
      BY <1>2, <1>3, <2>1, PromisedMade
    <3> QED
      BY <1>9, <3>1, PromisedRanges
  <2> QED
    BY <1>2, <2>1
<1>7. CASE addr \in visited
  <2>1. program' = g /\ ranges' = r /\ frames' = SetTop(top) /\ visited' = visited
    BY <1>1, <1>7 DEF ScanProcedure
  <2> HIDE <1>h
  <2>2. VisitedFit(g, visited)
    BY <1>3, VisitedGrow
  <2>3. FrameFits(g, top)
    BY <1>3, <1>7, <2>2 DEF VisitedFit
  <2>5. Entered(g, addr)
    BY <1>7, <2>2 DEF VisitedFit
  <2>6. canceled \/ Promised(g, r, Remaining(top), {})
    BY <1>10, <2>5, PromisedDrop
  <2>4. GraphFits(g, r, SetTop(top), visited, canceled)
    BY <1>3, <1>6, <2>2, <2>3, <2>6, TopReplaced, Zenon
  <2> QED
    BY <1>3, <2>1, <2>4 DEF GraphInv, GraphKept
<1>8. CASE addr \notin visited
  <2>1. PICK jump, entry, k :
            /\ jump = EnqueueJumpTarget(g, r, addr, addr, addr)
            /\ entry = g.procs[addr].entry
            /\ k = IF jump.g.heap[entry].succ = <<>>
                   THEN AddEdge(jump.g, entry, jump.block) ELSE jump.g
            /\ program' = k
            /\ ranges' = jump.ranges
            /\ visited' = visited \cup {addr}
            /\ frames' = Append(SetTop(top), Frame(addr, jump.items))
    BY <1>1, <1>8 DEF ScanProcedure
  <2> HIDE <1>h
  <2>2. PICK h, s, q, c : h = jump.g /\ s = jump.ranges /\ q = jump.items /\ c = jump.block
    OBVIOUS
  <2>3. JumpFits(g, jump, Excuses({addr}, {}))
    <3>1. /\ Well(g, Excuses({addr}, {})) /\ addr \in Excuses({addr}, {}).procs
          /\ addr \in Int
      BY <1>3, ExceptionMade, ScannerAssumption DEF Addresses, Excuses
    <3> QED
      BY <1>4, <1>5, <1>6, <2>1, <3>1, JumpFitsAll
  <2>4. /\ Well(h, Excuses({addr}, {})) /\ Grows(g, h) /\ RangesFit(h, s)
        /\ c \in DOMAIN h.heap /\ h.heap[c].role \in Inner
        /\ ItemsFit(h, q, Excuses({addr}, {}))
    BY <2>2, <2>3 DEF JumpFits, IsTarget
  <2>5. /\ k = IF h.heap[entry].succ = <<>> THEN AddEdge(h, entry, c) ELSE h
        /\ program' = k /\ ranges' = s
        /\ frames' = Append(SetTop(top), Frame(addr, q))
    BY <2>1, <2>2
  <2>6. /\ addr \in DOMAIN h.procs /\ h.procs[addr].entry = entry
        /\ entry \in DOMAIN h.heap /\ h.heap[entry].role = "entry"
    BY <1>4, <2>1, <2>4 DEF Grows, Well, ProcsFit
  <2>7. /\ Well(k, Excuses({addr}, {})) /\ Grows(h, k) /\ SameNodes(h, k)
        /\ addr \in DOMAIN k.procs /\ Entered(k, addr)
        /\ k = h \/ \A d \in DOMAIN h.heap : d # entry => k.heap[d].succ = h.heap[d].succ
        /\ k.heap[entry].succ # <<>>
        /\ IF h.heap[entry].succ = <<>> THEN k.heap[entry].succ[1] = c
           ELSE k = h /\ Entered(h, addr)
    <3>1. CASE h.heap[entry].succ = <<>>
      <4>1. k = AddEdge(h, entry, c)
        BY <2>5, <3>1
      <4>2. h.heap[entry].role # "exit" /\ c \in Ends(h)
        BY <2>4, <2>6 DEF Inner, Ends
      <4>3. /\ Well(k, Excuses({addr}, {})) /\ Grows(h, k) /\ SameNodes(h, k)
            /\ k.heap[entry].succ # <<>> /\ k.heap[entry].succ[1] = c
            /\ \A d \in DOMAIN h.heap : d # entry => k.heap[d].succ = h.heap[d].succ
        BY <2>4, <2>6, <3>1, <4>1, <4>2, AddEdgeKeeps
      <4> QED
        BY <2>6, <3>1, <4>3 DEF Grows, Entered
    <3>2. CASE h.heap[entry].succ # <<>>
      <4>1. k = h
        BY <2>5, <3>2
      <4> QED
        BY <2>4, <2>6, <3>2, <4>1, GrowsReflexive DEF Entered, SameNodes
    <3> QED
      BY <3>1, <3>2
  <2>9. Grows(program, k)
    <3>1. Grows(g, k)
      BY <2>4, <2>7, GrowsOn
    <3> QED
      BY <1>3, <3>1, GrowsOn
  <2>10. RangesFit(k, s)
    BY <2>4, <2>7, RangesStaySame
  <2>11. ItemsFit(k, q, Excuses({addr}, {}))
    BY <2>4, <2>7, ItemsGrow
  <2>12. Well(k, Settled) /\ ItemsFit(k, q, Settled)
    BY <2>7, <2>11, ExceptionGone
  <2>13. FrameFits(k, top)
    BY <2>7, <2>9
  <2>14. FrameFits(k, Frame(addr, q))
    BY <2>12, FrameOfQueueFits
  <2>15. VisitedFit(k, visited \cup {addr})
    <3>1. VisitedFit(k, visited)
      BY <2>9, VisitedGrow
    <3> QED
      BY <2>7, <3>1 DEF VisitedFit
  <2>17. canceled \/ Promised(k, s, Pending(frames) \cup ToSet(q), {})
    <3> SUFFICES ASSUME ~canceled
                 PROVE  Promised(k, s, Pending(frames) \cup ToSet(q), {})
      OBVIOUS
    <3>1. PICK W, V : W = Pending(frames) /\ V = W \cup ToSet(q)
      OBVIOUS
    <3>2. Promised(g, r, W, {addr}) /\ (Entered(g, addr) => AtHome(g, r, W, addr))
      BY <1>4, <1>10, <3>1 DEF Promised
    <3>3. Well(g, Excuses({addr}, {}))
      BY <1>3, ExceptionMade
    <3>4. HomeFits(jump, W, addr)
      <4>1. jump = EnqueueJumpTarget(g, r, addr, addr, addr)
        BY <2>1
      <4>2. PICK X : X = Excuses({addr}, {})
        OBVIOUS
      <4>3. Well(g, X) /\ GoodRanges(r) /\ (addr \in DOMAIN r \/ ~InRange(r, addr))
        BY <1>5, <1>9, <3>3, <4>2
      <4> QED
        BY <1>4, <1>6, <3>2, <4>1, <4>2, <4>3, HomePromises
    <3>5. /\ Promised(h, s, V, {addr})
          /\ Entered(h, addr) => First(h, addr) = c
          /\ addr \in DOMAIN s /\ s[addr].block = c
          /\ h.heap[c].proc = addr \/ Promotes(V, addr, c)
      BY <2>2, <3>1, <3>4 DEF HomeFits
    <3>6. k.heap[entry].succ[1] = c
      BY <2>6, <2>7, <3>5 DEF First
    <3>7. Promised(k, s, V, {})
      BY <2>4, <2>6, <2>7, <3>5, <3>6, EnteredAtHome
    <3> QED
      BY <3>1, <3>7
  <2>18. canceled \/ Promised(k, s, Remaining(top) \cup ToSet(Frame(addr, q).queue), {})
    <3>1. Frame(addr, q).queue = q
      BY FrameParts
    <3> QED
      BY <2>7, <2>17, <3>1, PromisedDrop
  <2>16. GraphFits(k, s, Append(SetTop(top), Frame(addr, q)), visited \cup {addr}, canceled)
    BY <2>9, <2>10, <2>12, <2>13, <2>14, <2>15, <2>18, TopReplaced
  <2> QED
    BY <2>1, <2>5, <2>9, <2>16, Zenon DEF GraphInv, GraphKept
<1> QED
  BY <1>7, <1>8

(* What is left of a queue fits, if the work item is done.                  *)
LEMMA RestFits ==
  ASSUME RangesInv, GraphInv, NEW i, Dequeued(i),
         NEW g, Grows(program, g),
         Top.queue[i].kind = "procedure" => Entered(g, Top.queue[i].addr)
  PROVE  /\ FrameFits(g, Rest(i))
         /\ \A b, a : b \in DOMAIN g.heap /\ g.heap[b].role = "code"
               => FrameFits(g, [Rest(i) EXCEPT !.block = b, !.addr = a])
<1>1. Scanning /\ i \in DOMAIN Top.queue
  BY DEF Dequeued, Idle
<1>2. IsQueue(Top.queue) /\ ItemsFit(program, Top.queue, Settled)
  BY <1>1, TopFits
<1>3. PICK q : q = RemoveAt(Top.queue, i)
  OBVIOUS
<1>4. ItemsFit(g, q, Settled)
  BY <1>1, <1>2, <1>3, ItemsRest
<1> QED
  BY <1>3, <1>4, FrameOfQueueFits DEF Rest

(* All but the item that is taken remains.                                  *)
LEMMA RestRemains ==
  ASSUME RangesInv, NEW i, Dequeued(i), NEW f
  PROVE  f.queue = RemoveAt(Top.queue, i) =>
         \A x \in Pending(frames) : x \in Remaining(f) \/ x = Top.queue[i]
<1>h. HAVE f.queue = RemoveAt(Top.queue, i)
<1> USE <1>h
<1>1. Scanning /\ i \in DOMAIN Top.queue
  BY DEF Dequeued, Idle
<1>2. PICK S, q, t : q = Top.queue /\ q \in Seq(S) /\ t = RemoveAt(q, i)
  BY <1>1, TopIsFrame, QueueIsSeq DEF IsFrame
<1>3. \A k \in DOMAIN q : k # i => \E j \in DOMAIN t : t[j] = q[k]
  BY <1>1, <1>2, RestParts
<1>4. f.queue = t
  BY <1>2
<1> HIDE <1>h
<1>5. \A x \in ToSet(q) : x \in ToSet(t) \/ x = q[i]
  BY <1>3 DEF ToSet
<1> QED
  BY <1>2, <1>4, <1>5 DEF Remaining

(* So nothing is lost, if the item has read a block or entered a procedure. *)
LEMMA RestPromises ==
  ASSUME RangesInv, GraphInv, NEW i, Dequeued(i), NEW f, f.queue = RemoveAt(Top.queue, i),
         \/ Top.queue[i].kind = "block"
         \/ /\ Top.queue[i].kind \in {"symbol", "procedure"}
            /\ Entered(program, Top.queue[i].addr)
  PROVE  canceled \/ Promised(program, ranges, Remaining(f), {})
<1>1. canceled \/ Promised(program, ranges, Pending(frames), {})
  BY DEF GraphInv, GraphFits
<1>2. \A x \in Pending(frames) : x \in Remaining(f) \/ x = Top.queue[i]
  BY RestRemains
<1>3. \A x \in Pending(frames) :
         \/ x \in Remaining(f)
         \/ x.kind = "block"
         \/ x.kind \in {"symbol", "procedure"} /\ Entered(program, x.addr)
  BY <1>2
<1> QED
  BY <1>1, <1>3, PromisedDrop

(* The scan of a queued procedure begins.                                   *)
LEMMA QueuedScanFits ==
  ASSUME RangesInv, GraphInv, NEW i, Dequeued(i),
         Top.queue[i].kind \in {"symbol", "procedure"}, UNCHANGED canceled
  PROVE  ScanProcedure(Top.queue[i].addr, Rest(i)) => GraphKept
<1>h. HAVE ScanProcedure(Top.queue[i].addr, Rest(i))
<1> USE <1>h
<1>1. PICK addr, top : addr = Top.queue[i].addr /\ top = Rest(i)
  OBVIOUS
<1>2. ScanProcedure(addr, top) /\ Scanning /\ addr \in Addresses
  BY <1>1, RestIsFrame
<1> HIDE <1>h
<1>3. ASSUME NEW k, Grows(program, k), Entered(k, addr)
      PROVE  FrameFits(k, top)
  BY <1>1, <1>3, RestFits
<1>4. \A x \in Pending(frames) :
         x \in Remaining(top) \/ (x.kind \in {"symbol", "procedure"} /\ x.addr = addr)
  <2>1. top.queue = RemoveAt(Top.queue, i)
    BY <1>1, FrameParts DEF Rest
  <2>2. \A x \in Pending(frames) : x \in Remaining(top) \/ x = Top.queue[i]
    BY <2>1, RestRemains
  <2> QED
    BY <1>1, <2>2
<1> QED
  BY <1>2, <1>3, <1>4, ScanProcedureFits

(* The top frame changes, and nothing else.                                 *)
LEMMA TopChanges ==
  ASSUME RangesInv, GraphInv, Scanning, NEW f, FrameFits(program, f),
         canceled \/ Promised(program, ranges, Remaining(f), {}),
         frames' = SetTop(f), UNCHANGED <<program, ranges, visited, canceled>>
  PROVE  GraphKept
<1>1. Grows(program, program) /\ Well(program, Settled) /\ RangesFit(program, ranges)
      /\ VisitedFit(program, visited)
  BY GrowsReflexive DEF GraphInv, GraphFits
<1>2. GraphFits(program, ranges, SetTop(f), visited, canceled)
  BY <1>1, TopReplaced
<1> QED
  BY <1>1, <1>2 DEF GraphInv, GraphKept

-------------------------------------------------------------------------------
(* Work items that start. *)

(* A promotion comes off the queue after the scans of procedures, so that   *)
(* its own has been entered.                                                *)
LEMMA PromotionReady ==
  ASSUME RangesInv, GraphInv, NEW i, Dequeued(i), Top.queue[i].kind = "promote"
  PROVE  /\ Top.queue[i].block \in Movers(program)
         /\ Top.queue[i].addr \in DOMAIN program.procs
         /\ Entered(program, Top.queue[i].addr)
<1>1. PICK q : q = Top.queue
  OBVIOUS
<1>2. Scanning /\ i \in DOMAIN q /\ \A j \in DOMAIN q : Priority(q[j]) <= Priority(q[i])
  BY <1>1 DEF Dequeued, Idle
<1>3. ItemsFit(program, q, Settled)
  BY <1>1, <1>2, TopFits
<1>4. q[i].kind = "promote"
  BY <1>1
<1>5. Priority(q[i]) = 3
  BY <1>4 DEF Priority
<1>6. ASSUME NEW j \in DOMAIN q
      PROVE  q[j].kind # "procedure"
  <2> SUFFICES ASSUME q[j].kind = "procedure" PROVE FALSE
    OBVIOUS
  <2>1. Priority(q[j]) = 5
    BY DEF Priority
  <2> QED
    BY <1>2, <1>5, <2>1
<1>7. /\ q[i].block \in DOMAIN program.heap
      /\ program.heap[q[i].block].role = "code"
      /\ q[i].addr \in DOMAIN program.procs
      /\ Entered(program, q[i].addr)
  BY <1>2, <1>3, <1>4, <1>6 DEF ItemsFit, Settled, Excuses
<1> QED
  BY <1>1, <1>7 DEF Movers, Inner

(* Step: a promotion is taken from the queue and done.                     *)
LEMMA StartPromotionFits ==
  ASSUME RangesInv, GraphInv, NEW i
  PROVE  StartPromotion(i) => GraphKept
<1>h. HAVE StartPromotion(i)
<1> USE <1>h
<1>1. PICK b, addr, g : /\ b = Top.queue[i].block /\ addr = Top.queue[i].addr
                        /\ g = Promote(program, b, addr)
  OBVIOUS
<1>2. /\ Dequeued(i) /\ Scanning /\ Top.queue[i].kind = "promote"
      /\ program' = g /\ frames' = SetTop(Rest(i))
      /\ ranges' = ranges /\ visited' = visited /\ canceled' = canceled
  BY <1>1 DEF StartPromotion, Dequeued, Idle
<1> HIDE <1>h
<1>3. b \in Movers(program) /\ addr \in DOMAIN program.procs /\ Entered(program, addr)
  BY <1>1, <1>2, PromotionReady
<1>4. Well(program, Settled) /\ RangesFit(program, ranges)
  BY DEF GraphInv, GraphFits
<1>5. /\ Well(g, Settled) /\ Grows(program, g) /\ Lists(program, g)
      /\ Moved(program, g, addr)
      /\ b \in Movable(program, addr) => g.heap[b].proc = addr /\ Listed(g, b)
  <2>1. Settled.blocks = {}
    BY DEF Settled, Excuses
  <2> QED
    BY <1>1, <1>3, <1>4, <2>1, PromoteKeeps
<1>6. RangesFit(g, ranges) /\ VisitedFit(g, visited)
  BY <1>4, <1>5, RangesStay, VisitedGrow
<1>7. FrameFits(g, Rest(i))
  BY <1>2, <1>5, RestFits
<1>9. canceled \/ Promised(g, ranges, Remaining(Rest(i)), {})
  <2>1. PICK f : f = Rest(i) /\ f.queue = RemoveAt(Top.queue, i)
    BY FrameParts DEF Rest
  <2>2. \A x \in Pending(frames) : x \in Remaining(f) \/ x = Top.queue[i]
    BY <1>2, <2>1, RestRemains
  <2>3. \A x \in Pending(frames) :
           x \in Remaining(f) \/ (x.kind = "promote" /\ x.addr = addr /\ x.block = b)
    BY <1>1, <1>2, <2>2
  <2>4. canceled \/ Promised(program, ranges, Pending(frames), {})
    BY DEF GraphInv, GraphFits
  <2>5. canceled \/ Promised(g, ranges, Remaining(f), {})
    BY <1>3, <1>4, <1>5, <2>3, <2>4, PromotePromises
  <2> QED
    BY <2>1, <2>5
<1>8. GraphFits(g, ranges, SetTop(Rest(i)), visited, canceled)
  BY <1>2, <1>5, <1>6, <1>7, <1>9, TopReplaced
<1> QED
  BY <1>2, <1>5, <1>8 DEF GraphInv, GraphKept

(* The block whose range holds an address is code.                          *)
LEMMA ContainingFits ==
  ASSUME NEW g, NEW r, GoodRanges(r), RangesFit(g, r), NEW x \in Positions, InRange(r, x)
  PROVE  /\ FindContainingBlock(r, x) \in DOMAIN g.heap
         /\ g.heap[FindContainingBlock(r, x)].role = "code"
BY Held DEF RangesFit, Holds

(* Step: a block is taken from the queue and its code read.                *)
LEMMA StartBlockFits ==
  ASSUME RangesInv, GraphInv, NEW i
  PROVE  StartBlock(i) => GraphKept
<1>h. HAVE StartBlock(i)
<1> USE <1>h
<1>1. PICK b, addr, f : /\ addr = Top.queue[i].addr
                        /\ b = FindContainingBlock(ranges, addr)
                        /\ f = [Rest(i) EXCEPT !.block = b, !.addr = addr]
  OBVIOUS
<1>2. /\ Dequeued(i) /\ Scanning /\ Top.queue[i].kind = "block"
      /\ frames' = SetTop(IF b = None \/ Stms(program, b) # <<>> THEN Rest(i) ELSE f)
      /\ UNCHANGED <<program, ranges, visited, canceled>>
  BY <1>1 DEF StartBlock, Dequeued, Idle
<1> HIDE <1>h
<1>3. Grows(program, program) /\ RangesFit(program, ranges) /\ GoodRanges(ranges)
  BY GrowsReflexive DEF GraphInv, GraphFits, RangesInv
<1>4. FrameFits(program, Rest(i))
  BY <1>2, <1>3, RestFits
<1>7. /\ Rest(i).queue = RemoveAt(Top.queue, i) /\ f.queue = RemoveAt(Top.queue, i)
  BY <1>1, FrameParts DEF Rest
<1>8. /\ canceled \/ Promised(program, ranges, Remaining(Rest(i)), {})
      /\ canceled \/ Promised(program, ranges, Remaining(f), {})
  BY <1>2, <1>7, RestPromises
<1>5. CASE b = None \/ Stms(program, b) # <<>>
  <2>1. frames' = SetTop(Rest(i))
    BY <1>2, <1>5
  <2> QED
    BY <1>2, <1>4, <1>8, <2>1, TopChanges
<1>6. CASE ~(b = None \/ Stms(program, b) # <<>>)
  <2>1. frames' = SetTop(f)
    BY <1>2, <1>6
  <2>2. addr \in Positions
    <3>1. addr \in Addresses
      BY <1>1, <1>2, RestIsFrame
    <3> QED
      BY <3>1, ScannerAssumption DEF Addresses, Positions, Beyond
  <2>3. InRange(ranges, addr)
    BY <1>1, <1>6 DEF FindContainingBlock
  <2>4. b \in DOMAIN program.heap /\ program.heap[b].role = "code"
    BY <1>1, <1>3, <2>2, <2>3, ContainingFits
  <2>5. FrameFits(program, f)
    BY <1>1, <1>2, <1>3, <2>4, RestFits
  <2> QED
    BY <1>2, <1>8, <2>1, <2>5, TopChanges
<1> QED
  BY <1>5, <1>6

(* Step: a nested scan of a procedure returns to its queue.                *)
LEMMA ProcedureScannedFits ==
  ASSUME RangesInv, GraphInv, ProcedureScanned
  PROVE  GraphKept
<1>1. /\ frames' = Front(frames) /\ UNCHANGED <<program, ranges, visited, canceled>>
      /\ frames # <<>> /\ (Top.queue = <<>> \/ canceled)
  BY DEF ProcedureScanned, Drained, Idle, Scanning
<1>2. PICK f : FrameFits(program, f)
  BY <1>1, TopFits DEF Scanning
<1>3. FramesFit(program, Front(frames))
  BY <1>1, <1>2, FramesPut DEF RangesInv, GraphInv, GraphFits
<1>4. canceled \/ Promised(program, ranges, Pending(Front(frames)), {})
  <2>1. canceled \/ Promised(program, ranges, Pending(frames), {})
    BY DEF GraphInv, GraphFits
  <2>2. CASE Top.queue = <<>>
    <3>1. Pending(frames) \ ToSet(Top.queue) \subseteq Pending(Front(frames))
      BY <1>1, PendingPut DEF RangesInv, Scanning
    <3>2. Pending(frames) \subseteq Pending(Front(frames))
      BY <2>2, <3>1, ShortQueues
    <3> QED
      BY <2>1, <3>2, PromisedMore
  <2> QED
    BY <1>1, <2>2
<1> QED
  BY <1>1, <1>3, <1>4, GrowsReflexive DEF GraphInv, GraphFits, GraphKept

(* Step: the scan ends, and redundant gotos are removed.                   *)
LEMMA FinishFits ==
  ASSUME RangesInv, GraphInv, Finish
  PROVE  GraphKept
<1>1. PICK g : g = RemoveRedundantGotos(program)
  OBVIOUS
<1>2. /\ program' = g /\ frames' = <<>> /\ UNCHANGED <<ranges, visited, canceled>>
      /\ Len(frames) = 1 /\ (Top.queue = <<>> \/ canceled)
  BY <1>1 DEF Finish, Drained
<1>3. Well(program, Settled) /\ RangesFit(program, ranges)
  BY DEF GraphInv, GraphFits
<1>4. Well(g, Settled) /\ Keeps(program, g)
  BY <1>1, <1>3, RemoveRedundantGotosKeeps
<1>5. Grows(program, g) /\ Lists(program, g)
  BY <1>3, <1>4, KeepsLists DEF Keeps
<1>6. RangesFit(g, ranges) /\ VisitedFit(g, visited)
  BY <1>3, <1>5, RangesStay, VisitedGrow
<1>7. FramesFit(g, <<>>)
  BY DEF FramesFit
<1>8. canceled \/ Promised(g, ranges, Pending(<<>>), {})
  <2> SUFFICES ASSUME ~canceled
               PROVE  Promised(g, ranges, Pending(<<>>), {})
    OBVIOUS
  <2>1. Promised(program, ranges, Pending(frames), {})
    BY DEF GraphInv, GraphFits
  <2>2. Pending(frames) \subseteq Pending(<<>>)
    <3>1. PICK S : frames \in Seq(S)
      BY DEF RangesInv, IsStack
    <3>2. DOMAIN frames = {1} /\ frames[1].queue = <<>>
      BY <1>2, <3>1, SeqParts DEF Top
    <3>3. ToSet(frames[1].queue) = {}
      BY <3>2, ShortQueues
    <3> QED
      BY <3>2, <3>3 DEF Pending
  <2> QED
    BY <1>3, <1>4, <2>1, <2>2, PromisedKept, PromisedMore
<1> QED
  BY <1>2, <1>4, <1>5, <1>6, <1>7, <1>8 DEF GraphInv, GraphFits, GraphKept

-------------------------------------------------------------------------------
(* Instructions that are read. *)

(* What an instruction has made so far: a graph, ranges, and work items.    *)
Sound(g, r, items, proc) ==
    /\ Well(g, Settled) /\ Grows(program, g)
    /\ GoodRanges(r) /\ RangesFit(g, r)
    /\ IsQueue(items) /\ ItemsFit(g, items, Settled)
    /\ proc \in DOMAIN g.procs /\ Entered(g, proc)
    /\ Accounted(g, r, items)

(* Blocks, statements and edges may be added to it,                         *)
LEMMA SoundOn ==
  ASSUME NEW g, NEW r, NEW items, NEW proc, Sound(g, r, items, proc),
         NEW h, Well(h, Settled), Keeps(g, h)
  PROVE  Sound(h, r, items, proc)
<1>1. Grows(g, h) /\ Lists(g, h)
  BY KeepsLists DEF Sound, Keeps
<1>2. Grows(program, h) /\ RangesFit(h, r) /\ ItemsFit(h, items, Settled)
  BY <1>1, GrowsOn, RangesStay, ItemsGrow DEF Sound
<1>3. proc \in DOMAIN h.procs /\ Entered(h, proc)
  BY <1>1 DEF Sound, Grows
<1>4. Accounted(h, r, items)
  BY AccountedOn DEF Sound
<1> QED
  BY <1>2, <1>3, <1>4 DEF Sound

(* and a jump made.                                                         *)
LEMMA SoundJump ==
  ASSUME NEW g, NEW r, NEW items, NEW proc, Sound(g, r, items, proc),
         NEW src \in Int, NEW dest \in Addresses, NEW j
  PROVE  j = EnqueueJumpTarget(g, r, src, dest, proc) =>
         /\ Sound(j.g, j.ranges, items \o j.items, proc) /\ Grows(g, j.g)
         /\ IsTarget(j.g, j.block)
         /\ \A x \in Positions : PlaceOf(g, r, x, proc) => PlaceOf(j.g, j.ranges, x, proc)
<1>h. HAVE j = EnqueueJumpTarget(g, r, src, dest, proc)
<1> USE <1>h
<1>1. /\ Well(g, Settled) /\ GoodRanges(r) /\ RangesFit(g, r)
      /\ proc \in DOMAIN g.procs /\ Entered(g, proc)
      /\ IsQueue(items) /\ ItemsFit(g, items, Settled) /\ Grows(program, g)
      /\ Accounted(g, r, items)
  BY DEF Sound
<1>2. JumpFits(g, j, Settled)
  BY <1>1, JumpFitsAll
<1>3. GoodRanges(j.ranges) /\ IsQueue(j.items)
  BY <1>1, JumpKeeps
<1>4. \A x \in Positions : PlaceOf(g, r, x, proc) => PlaceOf(j.g, j.ranges, x, proc)
  BY <1>1, JumpKeepsPlace
<1>11. Accounted(j.g, j.ranges, items \o j.items)
  BY <1>1, AccountedJump
<1>5. PICK h, s, q, c : h = j.g /\ s = j.ranges /\ q = j.items /\ c = j.block
  OBVIOUS
<1>6. /\ Well(h, Settled) /\ Grows(g, h) /\ RangesFit(h, s)
      /\ IsTarget(h, c) /\ ItemsFit(h, q, Settled)
  BY <1>2, <1>5 DEF JumpFits
<1>7. GoodRanges(s) /\ IsQueue(q)
  BY <1>3, <1>5
<1> HIDE <1>h
<1>8. /\ Grows(program, h) /\ ItemsFit(h, items, Settled)
      /\ proc \in DOMAIN h.procs /\ Entered(h, proc)
  <2>1. Grows(program, h) /\ ItemsFit(h, items, Settled)
    BY <1>1, <1>6, GrowsOn, ItemsGrow
  <2> QED
    BY <1>1, <1>6, <2>1 DEF Grows
<1>9. IsQueue(items \o q) /\ ItemsFit(h, items \o q, Settled)
  BY <1>1, <1>6, <1>7, <1>8, QueueConcat, ItemsConcat
<1>10. Sound(h, s, items \o q, proc)
  BY <1>5, <1>6, <1>7, <1>8, <1>9, <1>11 DEF Sound
<1> QED
  BY <1>4, <1>5, <1>6, <1>10

(* The address of the instruction is in a block of code.                    *)
LEMMA PlaceFits ==
  ASSUME NEW g, NEW r, NEW items, NEW proc, Sound(g, r, items, proc),
         NEW x \in Positions, PlaceOf(g, r, x, proc)
  PROVE  /\ FindContainingBlock(r, x) \in DOMAIN g.heap
         /\ g.heap[FindContainingBlock(r, x)].role = "code"
<1>1. GoodRanges(r) /\ RangesFit(g, r) /\ \E a : Holds(r, x, a)
  BY DEF Sound, PlaceOf
<1>2. InRange(r, x)
  BY <1>1, Holding
<1> QED
  BY <1>1, <1>2, ContainingFits

(* An edge between two blocks of code keeps everything sound.              *)
LEMMA SoundEnsureEdge ==
  ASSUME NEW g, NEW r, NEW items, NEW proc, Sound(g, r, items, proc),
         NEW from \in DOMAIN g.heap, g.heap[from].role \in Inner,
         NEW to \in DOMAIN g.heap, g.heap[to].role \in Inner, NEW h
  PROVE  h = EnsureEdge(g, from, to) \/ h = AddEdge(g, from, to) =>
         /\ Sound(h, r, items, proc) /\ Grows(g, h) /\ SameNodes(g, h)
         /\ \A c \in DOMAIN g.heap : h.heap[c].stms = g.heap[c].stms
<1>h. HAVE h = EnsureEdge(g, from, to) \/ h = AddEdge(g, from, to)
<1> USE <1>h
<1>1. /\ Well(g, Settled) /\ g.heap[from].role # "exit" /\ g.heap[from].role # "entry"
      /\ to \in Ends(g)
  BY DEF Sound, Inner, Ends
<1>2. /\ Well(h, Settled) /\ Keeps(g, h) /\ SameNodes(g, h)
      /\ \A c \in DOMAIN g.heap : h.heap[c].stms = g.heap[c].stms
  <2>1. CASE h = EnsureEdge(g, from, to)
    <3> HIDE <1>h
    <3> QED
      BY <1>1, <2>1, EnsureEdgeKeeps
  <2>2. CASE h = AddEdge(g, from, to)
    <3> HIDE <1>h
    <3> QED
      BY <1>1, <2>2, AddEdgeKeeps
  <2> QED
    BY <2>1, <2>2
<1> HIDE <1>h
<1> QED
  BY <1>2, SoundOn DEF Keeps

(* So does a statement.                                                    *)
LEMMA SoundEmit ==
  ASSUME NEW g, NEW r, NEW items, NEW proc, Sound(g, r, items, proc),
         NEW b \in DOMAIN g.heap, g.heap[b].role = "code",
         NEW addr \in Int, NEW kind \in Kinds,
         NEW to \in Addresses \cup {None}, NEW h
  PROVE  h = Emit(g, b, addr, kind, to) =>
         /\ Sound(h, r, items, proc) /\ Keeps(g, h) /\ SameNodes(g, h)
         /\ kind # "goto" => Told(h, addr)
<1>h. HAVE h = Emit(g, b, addr, kind, to)
<1>1. Well(g, Settled) /\ MayTell(g, Settled, b)
  BY DEF Sound, MayTell
<1>2. /\ Well(h, Settled) /\ Keeps(g, h) /\ SameNodes(g, h)
      /\ kind # "goto" => Tells(h.heap[b].stms, addr)
  <2>1. h = Emit(g, b, addr, kind, to) => EmitFits(g, h, b, addr, kind, to, Settled)
    BY <1>1, EmitMade
  <2> QED
    BY <1>h, <2>1, Zenon DEF EmitFits
<1>3. kind # "goto" => Told(h, addr)
  BY <1>2 DEF SameNodes, Told
<1> QED
  BY <1>2, <1>3, SoundOn

(* A block that is there stays what it is.                                  *)
LEMMA InnerStays ==
  ASSUME NEW g, NEW h, Grows(g, h), NEW b \in DOMAIN g.heap
  PROVE  b \in DOMAIN h.heap /\ h.heap[b].role = g.heap[b].role
BY DEF Grows

(* A step that leaves its block with a sound result keeps GraphInv.        *)
LEMMA SoundLeave ==
  ASSUME RangesInv, GraphInv, Scanning,
         NEW g, NEW r, NEW items, NEW proc, Sound(g, r, items, proc),
         LeaveBlock(g, r, items), UNCHANGED <<visited, canceled>>
  PROVE  GraphKept /\ Grows(g, program')
BY LeaveBlockFits, GrowsReflexive DEF Sound

(* A step that goes on in a block with a sound result keeps GraphInv.      *)
LEMMA SoundGoOn ==
  ASSUME RangesInv, GraphInv, Scanning, Pos \in Int,
         NEW g, NEW r, NEW items, NEW proc, Sound(g, r, items, proc),
         NEW b \in DOMAIN g.heap, g.heap[b].role = "code", NEW next \in Positions,
         GoOn(g, r, b, next, items), UNCHANGED <<visited, canceled>>
  PROVE  GraphKept /\ Grows(g, program')
BY GoOnFits DEF Sound

(* Where the block that is read stands.                                     *)
LEMMA AtWork ==
  ASSUME RangesInv, GraphInv, Scanning, BlockCur # None
  PROVE  /\ BlockCur \in DOMAIN program.heap /\ program.heap[BlockCur].role = "code"
         /\ ProcCur \in DOMAIN program.procs
         /\ Sound(program, ranges, <<>>, ProcCur)
<1>1. BlockCur \in DOMAIN program.heap /\ program.heap[BlockCur].role = "code"
  BY TopFits DEF FrameFits, BlockCur
<1>2. /\ Well(program, Settled) /\ RangesFit(program, ranges) /\ GoodRanges(ranges)
      /\ canceled \/ Promised(program, ranges, Pending(frames), {})
  BY DEF GraphInv, GraphFits, RangesInv
<1>3. ProcCur \in DOMAIN program.procs /\ Entered(program, ProcCur)
  BY <1>1, <1>2, OwnerEntered DEF ProcCur, Inner
<1>4. IsQueue(<<>>) /\ ItemsFit(program, <<>>, Settled) /\ Grows(program, program)
  BY QueuesOfItems, SomeItems, GrowsReflexive
<1>5. Accounted(program, ranges, <<>>)
  BY <1>2, PromisedMore DEF Accounted
<1> QED
  BY <1>1, <1>2, <1>3, <1>4, <1>5 DEF Sound

(* The instruction is in a block of its procedure, also when that is cut.   *)
LEMMA PlaceAtFirst ==
  ASSUME RangesInv, GraphInv, Parsing, Within,
         NEW r, r = TerminateBlock(ranges, Pos + 1)
  PROVE  Sound(program, r, <<>>, ProcCur) /\ PlaceOf(program, r, Pos, ProcCur)
<1>1. Scanning /\ BlockCur # None /\ Pos \in Addresses
  BY WithinIsAddress DEF Parsing
<1>2. Sound(program, ranges, <<>>, ProcCur)
  BY <1>1, AtWork
<1>3. GoodRanges(ranges) /\ RangesFit(program, ranges)
  BY <1>2 DEF Sound
<1>4. Pos \in Positions /\ Pos + 1 \in Positions
  BY <1>1, ScannerAssumption DEF Addresses, Positions, Beyond
<1>5. GoodRanges(r) /\ RangesFit(program, r)
  BY <1>3, <1>4, TerminateKeeps, TerminateFits
<1>6. FindContainingBlock(ranges, Pos) = BlockCur /\ InRange(ranges, Pos)
  BY <1>1 DEF Within, FindContainingBlock
<1>7. PICK a : Holds(ranges, Pos, a) /\ Holds(r, Pos, a)
  BY <1>1, <1>3, <1>6, TerminateHolds
<1>8. ranges[a].block = BlockCur
  BY <1>3, <1>4, <1>6, <1>7, Holding
<1>9. r[a].block = ranges[a].block
  BY <1>3, <1>4, <1>7, TerminateBlocks DEF Holds
<1>10. program.heap[r[a].block].proc = ProcCur
  BY <1>8, <1>9 DEF ProcCur
<1>11. Accounted(program, r, <<>>)
  BY <1>2, <1>3, <1>4, AccountedCut DEF Sound
<1> QED
  BY <1>2, <1>5, <1>7, <1>10, <1>11 DEF Sound, PlaceOf

(* Step: an instruction that does not transfer control is read.            *)
LEMMA LinearFits ==
  ASSUME RangesInv, GraphInv, Parsing, Within, NEW i \in InstructionsAt(Pos), Linear(i),
         UNCHANGED canceled
  PROVE  GraphKept /\ (i.op = "linear" => Told(program', Pos))
<1>1. /\ Scanning /\ BlockCur # None /\ Pos \in Addresses /\ Pos \in Int
      /\ Pos + i.length \in Positions
  <2>1. Scanning /\ BlockCur # None /\ Pos \in Addresses
    BY WithinIsAddress DEF Parsing
  <2> QED
    BY <2>1, InstructionTypes, ScannerAssumption DEF Addresses
<1>2. PICK g : /\ g = (IF i.op = "nop" THEN program ELSE Emit(program, BlockCur, Pos, "op", None))
               /\ GoOn(g, ranges, BlockCur, Pos + i.length, <<>>)
               /\ UNCHANGED visited
  BY DEF Linear
<1>3. /\ BlockCur \in DOMAIN program.heap /\ program.heap[BlockCur].role = "code"
      /\ Sound(program, ranges, <<>>, ProcCur)
  BY <1>1, AtWork
<1>4. /\ Sound(g, ranges, <<>>, ProcCur) /\ Keeps(program, g)
      /\ i.op = "linear" => Told(g, Pos)
  <2>1. CASE i.op = "nop"
    BY <1>2, <1>3, <2>1, GrowsReflexive
  <2>2. CASE i.op # "nop"
    <3>1. g = Emit(program, BlockCur, Pos, "op", None)
      BY <1>2, <2>2
    <3>2. "op" \in Kinds /\ None \in Addresses \cup {None}
      BY DEF Kinds
    <3>3. /\ Pos \in Int /\ BlockCur \in DOMAIN program.heap
          /\ program.heap[BlockCur].role = "code" /\ Sound(program, ranges, <<>>, ProcCur)
      BY <1>1, <1>3
    <3>4. Sound(g, ranges, <<>>, ProcCur) /\ Keeps(program, g) /\ Told(g, Pos)
      BY <3>1, <3>2, <3>3, SoundEmit
    <3> QED
      BY <3>4
  <2> QED
    BY <2>1, <2>2
<1>5. BlockCur \in DOMAIN g.heap /\ g.heap[BlockCur].role = "code"
  BY <1>3, <1>4, InnerStays DEF Keeps
<1>6. GoOn(g, ranges, BlockCur, Pos + i.length, <<>>) /\ UNCHANGED visited
  BY <1>2
<1> HIDE <1>2
<1>7. GraphKept /\ Grows(g, program')
  BY <1>1, <1>4, <1>5, <1>6, SoundGoOn
<1> QED
  BY <1>1, <1>4, <1>7 DEF Grows

(* Step: an instruction after which nothing runs is read.                  *)
LEMMA StopFits ==
  ASSUME RangesInv, GraphInv, Parsing, Within, NEW i, UNCHANGED canceled
  PROVE  Stop(i) => GraphKept /\ (i.op # "invalid" => Told(program', Pos))
<1>h. HAVE Stop(i)
<1> USE <1>h
<1>1. Scanning /\ BlockCur # None /\ Pos \in Addresses /\ Pos \in Int
  <2>1. Scanning /\ BlockCur # None /\ Pos \in Addresses
    BY WithinIsAddress DEF Parsing
  <2> QED
    BY <2>1, ScannerAssumption DEF Addresses
<1>2. PICK r : r = TerminateBlock(ranges, Pos + 1)
  OBVIOUS
<1>3. PICK exit : exit = ProcOf(program, BlockCur).exit
  OBVIOUS
<1>10. PICK m : m = Emit(program, BlockCur, Pos, "return", None)
  OBVIOUS
<1>4. /\ UNCHANGED visited
      /\ \/ LeaveBlock(program, ranges, <<>>) /\ i.op = "invalid"
         \/ LeaveBlock(Emit(program, BlockCur, Pos, "op", None), r, <<>>)
         \/ LeaveBlock(AddEdge(m, BlockCur, exit), r, <<>>)
  <2>1. CASE i.op = "invalid"
    BY <2>1 DEF Stop
  <2>2. CASE i.op = "halt"
    BY <1>2, <2>2 DEF Stop
  <2>3. CASE i.op = "return"
    BY <1>2, <1>3, <1>10, <2>3 DEF Stop
  <2> QED
    BY <2>1, <2>2, <2>3 DEF Stop
<1> HIDE <1>h
<1>5. /\ BlockCur \in DOMAIN program.heap /\ program.heap[BlockCur].role = "code"
      /\ ProcCur \in DOMAIN program.procs
      /\ Sound(program, ranges, <<>>, ProcCur) /\ Sound(program, r, <<>>, ProcCur)
  BY <1>1, <1>2, AtWork, PlaceAtFirst
<1>6. "op" \in Kinds /\ "return" \in Kinds /\ None \in Addresses \cup {None}
  BY DEF Kinds
<1>7. CASE LeaveBlock(program, ranges, <<>>) /\ i.op = "invalid"
  BY <1>1, <1>4, <1>5, <1>7, SoundLeave
<1>8. CASE LeaveBlock(Emit(program, BlockCur, Pos, "op", None), r, <<>>)
  <2>1. PICK g : g = Emit(program, BlockCur, Pos, "op", None)
    OBVIOUS
  <2>2. Sound(g, r, <<>>, ProcCur) /\ ("op" # "goto" => Told(g, Pos))
    <3>1. /\ Sound(program, r, <<>>, ProcCur) /\ BlockCur \in DOMAIN program.heap
          /\ program.heap[BlockCur].role = "code"
      BY <1>5
    <3>2. Pos \in Int /\ "op" \in Kinds /\ None \in Addresses \cup {None}
      BY <1>1, <1>6
    <3> HIDE <1>8
    <3> QED
      BY <2>1, <3>1, <3>2, SoundEmit
  <2>3. LeaveBlock(g, r, <<>>)
    BY <1>8, <2>1
  <2> QED
    BY <1>1, <1>4, <2>2, <2>3, SoundLeave DEF Grows
<1>9. CASE LeaveBlock(AddEdge(m, BlockCur, exit), r, <<>>)
  <2>1. PICK g : g = AddEdge(m, BlockCur, exit)
    OBVIOUS
  <2>2. Sound(m, r, <<>>, ProcCur) /\ Keeps(program, m) /\ SameNodes(program, m)
        /\ Told(m, Pos)
    <3>1. /\ Sound(program, r, <<>>, ProcCur) /\ BlockCur \in DOMAIN program.heap
          /\ program.heap[BlockCur].role = "code"
      BY <1>5
    <3>2. Pos \in Int /\ "return" \in Kinds /\ None \in Addresses \cup {None}
      BY <1>1, <1>6
    <3> QED
      BY <1>10, <3>1, <3>2, SoundEmit
  <2>3. /\ BlockCur \in DOMAIN m.heap /\ m.heap[BlockCur].role # "exit"
        /\ m.heap[BlockCur].role # "entry"
    <3>1. Grows(program, m) /\ program.heap[BlockCur].role = "code"
      BY <1>5, <2>2 DEF Keeps
    <3>2. BlockCur \in DOMAIN m.heap /\ m.heap[BlockCur].role = "code"
      BY <1>5, <3>1, InnerStays
    <3> QED
      BY <3>2
  <2>4. exit \in DOMAIN program.heap /\ program.heap[exit].role = "exit"
    BY <1>3, <1>5 DEF Sound, Well, ProcsFit, ProcOf, ProcCur
  <2>5. exit \in Ends(m)
    BY <2>2, <2>4 DEF Keeps, Grows, Ends
  <2>6. Well(m, Settled)
    BY <2>2 DEF Sound
  <2>7. Well(g, Settled) /\ Keeps(m, g)
    BY <2>1, <2>3, <2>5, <2>6, AddEdgeKeeps
  <2>8. Sound(g, r, <<>>, ProcCur) /\ Told(g, Pos)
    BY <1>1, <2>2, <2>7, SoundOn DEF Keeps, Grows
  <2>9. LeaveBlock(g, r, <<>>)
    BY <1>9, <2>1
  <2> QED
    BY <1>1, <1>4, <2>8, <2>9, SoundLeave DEF Grows
<1> QED
  BY <1>4, <1>7, <1>8, <1>9

(* Step: a jump is read.                                                   *)
LEMMA GotoFits ==
  ASSUME RangesInv, GraphInv, Parsing, Within, NEW i \in InstructionsAt(Pos),
         UNCHANGED canceled
  PROVE  Goto(i) => GraphKept
<1>h. HAVE Goto(i)
<1> USE <1>h
<1>1. /\ Scanning /\ BlockCur # None /\ Pos \in Addresses /\ Pos \in Int
      /\ Pos \in Positions /\ i.to \in Addresses
  <2>1. Scanning /\ BlockCur # None /\ Pos \in Addresses
    BY WithinIsAddress DEF Parsing
  <2>2. i.op = "goto"
    BY DEF Goto
  <2> QED
    BY <2>1, <2>2, InstructionTypes, ScannerAssumption DEF Addresses, Positions, Beyond
<1>2. PICK r, p, to : r = TerminateBlock(ranges, Pos + 1) /\ p = ProcCur /\ to = i.to
  OBVIOUS
<1>3. PICK first : first = EnqueueJumpTarget(program, r, Pos, to, p)
  OBVIOUS
<1>4. PICK g : g = EnsureEdge(first.g, FindContainingBlock(first.ranges, Pos), first.block)
  OBVIOUS
<1>5. PICK again : again = IF to = Pos THEN EnqueueJumpTarget(g, first.ranges, Pos, to, p)
                           ELSE Enqueued(g, first.ranges, None, <<>>)
  OBVIOUS
<1>6. PICK h : h = IF to = Pos THEN EnsureEdge(again.g, BlockCur, again.block) ELSE g
  OBVIOUS
<1>7. PICK k : k = Emit(h, BlockCur, Pos, "goto", to)
  BY Zenon
<1>8. LeaveBlock(k, again.ranges, first.items \o again.items) /\ UNCHANGED visited
  BY <1>2, <1>3, <1>4, <1>5, <1>6, <1>7, ZenonT(30) DEF Goto
<1> HIDE <1>h
<1>9. /\ BlockCur \in DOMAIN program.heap /\ program.heap[BlockCur].role = "code"
      /\ Sound(program, r, <<>>, p) /\ PlaceOf(program, r, Pos, p)
  BY <1>1, <1>2, AtWork, PlaceAtFirst
<1>10. PICK g1, r1, q1, b1 : /\ g1 = first.g /\ r1 = first.ranges
                             /\ q1 = first.items /\ b1 = first.block
  OBVIOUS
<1>11. /\ Sound(g1, r1, <<>> \o q1, p) /\ Grows(program, g1) /\ PlaceOf(g1, r1, Pos, p)
       /\ b1 \in DOMAIN g1.heap /\ g1.heap[b1].role \in Inner
  <2>1. /\ Sound(first.g, first.ranges, <<>> \o first.items, p) /\ Grows(program, first.g)
        /\ first.block \in DOMAIN first.g.heap /\ first.g.heap[first.block].role \in Inner
        /\ \A x \in Positions :
              PlaceOf(program, r, x, p) => PlaceOf(first.g, first.ranges, x, p)
    <3>1. Sound(program, r, <<>>, p) /\ Pos \in Int /\ to \in Addresses
      BY <1>1, <1>2, <1>9
    <3>2. PICK q : q = <<>>
      OBVIOUS
    <3>3. Sound(program, r, q, p)
      BY <3>1, <3>2
    <3>4. /\ Sound(first.g, first.ranges, q \o first.items, p) /\ Grows(program, first.g)
          /\ first.block \in DOMAIN first.g.heap /\ first.g.heap[first.block].role \in Inner
          /\ \A x \in Positions :
                PlaceOf(program, r, x, p) => PlaceOf(first.g, first.ranges, x, p)
      BY <1>3, <3>1, <3>3, SoundJump DEF IsTarget
    <3> QED
      BY <3>2, <3>4
  <2> QED
    BY <1>1, <1>9, <1>10, <2>1
<1>12. IsQueue(q1)
  BY <1>1, <1>2, <1>3, <1>9, <1>10, JumpKeeps DEF Sound
<1>13. <<>> \o q1 = q1
  BY <1>12, QueueIsSeq, ConcatEmptySeq
<1>14. Sound(g1, r1, q1, p)
  BY <1>11, <1>13
<1>15. PICK from : from = FindContainingBlock(r1, Pos)
  OBVIOUS
<1>16. from \in DOMAIN g1.heap /\ g1.heap[from].role \in Inner
  BY <1>1, <1>11, <1>14, <1>15, PlaceFits DEF Inner
<1>17. g = EnsureEdge(g1, from, b1)
  BY <1>4, <1>10, <1>15
<1>18. Sound(g, r1, q1, p) /\ Grows(g1, g)
  BY <1>11, <1>14, <1>16, <1>17, SoundEnsureEdge
<1>19. BlockCur \in DOMAIN g.heap /\ g.heap[BlockCur].role = "code"
  BY <1>9, <1>11, <1>18, InnerStays
<1>20. PICK r2, q2 : r2 = again.ranges /\ q2 = again.items
  OBVIOUS
<1>21. /\ Sound(h, r2, q1 \o q2, p)
       /\ BlockCur \in DOMAIN h.heap /\ h.heap[BlockCur].role = "code"
  <2>1. CASE to = Pos
    <3>1. again = EnqueueJumpTarget(g, r1, Pos, to, p)
      BY <1>5, <1>10, <2>1
    <3>2. PICK g2, b2 : g2 = again.g /\ b2 = again.block
      OBVIOUS
    <3>3. /\ Sound(g2, r2, q1 \o q2, p) /\ Grows(g, g2)
          /\ b2 \in DOMAIN g2.heap /\ g2.heap[b2].role \in Inner
      BY <1>1, <1>2, <1>18, <1>20, <3>1, <3>2, SoundJump DEF IsTarget
    <3>4. BlockCur \in DOMAIN g2.heap /\ g2.heap[BlockCur].role = "code"
      BY <1>19, <3>3, InnerStays
    <3>5. h = EnsureEdge(g2, BlockCur, b2)
      BY <1>6, <2>1, <3>2
    <3>6. Sound(h, r2, q1 \o q2, p) /\ Grows(g2, h)
      BY <3>3, <3>4, <3>5, SoundEnsureEdge DEF Inner
    <3> QED
      BY <3>4, <3>6, InnerStays
  <2>2. CASE to # Pos
    <3>1. again = Enqueued(g, r1, None, <<>>) /\ h = g
      BY <1>5, <1>6, <1>10, <2>2
    <3>2. r2 = r1 /\ q2 = <<>>
      BY <1>20, <3>1, EnqueuedIs
    <3>3. q1 \o q2 = q1
      BY <1>12, <3>2, QueueIsSeq, ConcatEmptySeq
    <3> QED
      BY <1>18, <1>19, <3>1, <3>2, <3>3
  <2> QED
    BY <2>1, <2>2
<1>22. "goto" \in Kinds /\ to \in Addresses \cup {None}
  BY <1>1, <1>2 DEF Kinds
<1>23. Sound(k, r2, q1 \o q2, p)
  BY <1>1, <1>7, <1>21, <1>22, SoundEmit
<1>24. LeaveBlock(k, r2, q1 \o q2) /\ UNCHANGED visited
  BY <1>8, <1>10, <1>20
<1> QED
  BY <1>1, <1>23, <1>24, SoundLeave

(* What a branch makes: the jumps to its targets, and the edges to them.    *)
BranchMakes(to, then, else, k, h) ==
    /\ then = EnqueueJumpTarget(Emit(program, BlockCur, Pos, "branch", to),
                                TerminateBlock(ranges, Pos + 1), Pos, to, ProcCur)
    /\ else = EnqueueJumpTarget(then.g, then.ranges, Pos, Pos + 1, ProcCur)
    /\ k = EnsureEdge(else.g, FindContainingBlock(else.ranges, Pos), else.block)
    /\ h = IF else.block = then.block
           THEN AddEdge(k, FindContainingBlock(else.ranges, Pos), then.block)
           ELSE EnsureEdge(k, FindContainingBlock(else.ranges, Pos), then.block)

BranchLeaves(then, else, h) ==
    \/ LeaveBlock(then.g, then.ranges, then.items)
    \/ Pos + 1 # Beyond /\ LeaveBlock(h, else.ranges, then.items \o else.items)
    \/ /\ Pos + 1 # Beyond /\ Stms(h, else.block) = <<>>
       /\ GoOn(h, else.ranges, else.block, Pos + 1, then.items \o else.items)

LEMMA BranchIs ==
  ASSUME NEW i
  PROVE  Branch(i) => \E then, else, k, h : /\ BranchMakes(i.to, then, else, k, h)
                                            /\ BranchLeaves(then, else, h)
<1>h. HAVE Branch(i)
<1>1. PICK then : then = EnqueueJumpTarget(Emit(program, BlockCur, Pos, "branch", i.to),
                                          TerminateBlock(ranges, Pos + 1), Pos, i.to, ProcCur)
  OBVIOUS
<1>2. PICK else : else = EnqueueJumpTarget(then.g, then.ranges, Pos, Pos + 1, ProcCur)
  OBVIOUS
<1>3. PICK from : from = FindContainingBlock(else.ranges, Pos)
  OBVIOUS
<1>4. PICK k : k = EnsureEdge(else.g, from, else.block)
  OBVIOUS
<1>5. PICK h : h = IF else.block = then.block THEN AddEdge(k, from, then.block)
                   ELSE EnsureEdge(k, from, then.block)
  OBVIOUS
<1>6. BranchMakes(i.to, then, else, k, h)
  BY <1>1, <1>2, <1>3, <1>4, <1>5 DEF BranchMakes
<1>7. \E y \in {then} :
         IF Pos + 1 = Beyond
         THEN LeaveBlock(y.g, y.ranges, y.items)
         ELSE \E z \in {EnqueueJumpTarget(y.g, y.ranges, Pos, Pos + 1, ProcCur)} :
              LET x == FindContainingBlock(z.ranges, Pos)
                  v == EnsureEdge(z.g, x, z.block)
                  w == IF z.block = y.block THEN AddEdge(v, x, y.block)
                       ELSE EnsureEdge(v, x, y.block)
                  items == y.items \o z.items
              IN  IF Stms(w, z.block) # <<>> THEN LeaveBlock(w, z.ranges, items)
                  ELSE GoOn(w, z.ranges, z.block, Pos + 1, items)
  BY <1>h, <1>1, Zenon DEF Branch
<1>8. CASE Pos + 1 = Beyond
  <2>1. LeaveBlock(then.g, then.ranges, then.items)
    BY <1>7, <1>8, Zenon
  <2> QED
    BY <1>6, <2>1 DEF BranchLeaves
<1>9. CASE Pos + 1 # Beyond
  <2>1. \E z \in {else} :
           LET x == FindContainingBlock(z.ranges, Pos)
               v == EnsureEdge(z.g, x, z.block)
               w == IF z.block = then.block THEN AddEdge(v, x, then.block)
                    ELSE EnsureEdge(v, x, then.block)
               items == then.items \o z.items
           IN  IF Stms(w, z.block) # <<>> THEN LeaveBlock(w, z.ranges, items)
               ELSE GoOn(w, z.ranges, z.block, Pos + 1, items)
    BY <1>2, <1>7, <1>9, Zenon
  <2>2. LET w == IF else.block = then.block THEN AddEdge(k, from, then.block)
                 ELSE EnsureEdge(k, from, then.block)
            items == then.items \o else.items
        IN  IF Stms(w, else.block) # <<>> THEN LeaveBlock(w, else.ranges, items)
            ELSE GoOn(w, else.ranges, else.block, Pos + 1, items)
    BY <1>3, <1>4, <2>1, Zenon
  <2>3. IF Stms(h, else.block) # <<>>
        THEN LeaveBlock(h, else.ranges, then.items \o else.items)
        ELSE GoOn(h, else.ranges, else.block, Pos + 1, then.items \o else.items)
    BY <1>5, <2>2, Zenon
  <2> QED
    BY <1>6, <1>9, <2>3 DEF BranchLeaves
<1> QED
  BY <1>8, <1>9

(* Step: a branch is read.                                                 *)
LEMMA BranchFits ==
  ASSUME RangesInv, GraphInv, Parsing, Within, NEW i \in InstructionsAt(Pos),
         UNCHANGED canceled
  PROVE  Branch(i) => GraphKept /\ Told(program', Pos)
<1>h. HAVE Branch(i)
<1> USE <1>h
<1>1. /\ Scanning /\ BlockCur # None /\ Pos \in Addresses /\ Pos \in Int
      /\ Pos \in Positions /\ Pos + 1 \in Positions /\ i.to \in Addresses
  <2>1. Scanning /\ BlockCur # None /\ Pos \in Addresses
    BY WithinIsAddress DEF Parsing
  <2>2. i.op = "branch"
    BY DEF Branch
  <2> QED
    BY <2>1, <2>2, InstructionTypes, ScannerAssumption DEF Addresses, Positions, Beyond
<1>2. PICK r, p, to : r = TerminateBlock(ranges, Pos + 1) /\ p = ProcCur /\ to = i.to
  OBVIOUS
<1>11. UNCHANGED visited
  BY DEF Branch
<1>12. PICK then, else, k, h : BranchMakes(to, then, else, k, h) /\ BranchLeaves(then, else, h)
  BY <1>2, BranchIs
<1> HIDE <1>h
<1>3. PICK g : g = Emit(program, BlockCur, Pos, "branch", to)
  OBVIOUS
<1>5. PICK g1, r1, q1, b1 : g1 = then.g /\ r1 = then.ranges /\ q1 = then.items /\ b1 = then.block
  OBVIOUS
<1>7. PICK g2, r2, q2, b2 : g2 = else.g /\ r2 = else.ranges /\ q2 = else.items /\ b2 = else.block
  OBVIOUS
<1>8. PICK from : from = FindContainingBlock(r2, Pos)
  OBVIOUS
<1>4. then = EnqueueJumpTarget(g, r, Pos, to, p)
  BY <1>2, <1>3, <1>12 DEF BranchMakes
<1>6. else = EnqueueJumpTarget(g1, r1, Pos, Pos + 1, p)
  BY <1>2, <1>5, <1>12 DEF BranchMakes
<1>9. k = EnsureEdge(g2, from, b2)
  BY <1>7, <1>8, <1>12 DEF BranchMakes
<1>10. h = IF b2 = b1 THEN AddEdge(k, from, b1) ELSE EnsureEdge(k, from, b1)
  BY <1>5, <1>7, <1>8, <1>12 DEF BranchMakes
<1>31. \/ LeaveBlock(g1, r1, q1)
       \/ Pos + 1 # Beyond /\ LeaveBlock(h, r2, q1 \o q2)
       \/ Pos + 1 # Beyond /\ Stms(h, b2) = <<>> /\ GoOn(h, r2, b2, Pos + 1, q1 \o q2)
  BY <1>5, <1>7, <1>12 DEF BranchLeaves
<1>13. /\ BlockCur \in DOMAIN program.heap /\ program.heap[BlockCur].role = "code"
       /\ Sound(program, r, <<>>, p) /\ PlaceOf(program, r, Pos, p)
  BY <1>1, <1>2, AtWork, PlaceAtFirst
<1>14. "branch" \in Kinds /\ to \in Addresses \cup {None}
  BY <1>1, <1>2 DEF Kinds
<1>15. Sound(g, r, <<>>, p) /\ Keeps(program, g) /\ Told(g, Pos)
  BY <1>1, <1>3, <1>13, <1>14, SoundEmit
<1>16. PlaceOf(g, r, Pos, p)
  <2>1. PICK a : Holds(r, Pos, a) /\ program.heap[r[a].block].proc = p
    BY <1>13 DEF PlaceOf
  <2>2. r[a].block \in DOMAIN program.heap
    BY <1>13, <2>1 DEF Sound, RangesFit, Holds
  <2> QED
    BY <1>15, <2>1, <2>2 DEF PlaceOf, Keeps, Stays
<1>17. /\ Sound(g1, r1, q1, p) /\ PlaceOf(g1, r1, Pos, p) /\ Grows(g, g1)
       /\ b1 \in DOMAIN g1.heap /\ g1.heap[b1].role \in Inner
  <2>1. PICK q : q = <<>>
    OBVIOUS
  <2>2. Sound(g, r, q, p) /\ Pos \in Int /\ to \in Addresses
    BY <1>1, <1>2, <1>15, <2>1
  <2>3. /\ Sound(then.g, then.ranges, q \o then.items, p) /\ Grows(g, then.g)
        /\ then.block \in DOMAIN then.g.heap /\ then.g.heap[then.block].role \in Inner
        /\ \A x \in Positions : PlaceOf(g, r, x, p) => PlaceOf(then.g, then.ranges, x, p)
    BY <1>4, <2>2, SoundJump DEF IsTarget
  <2>4. GoodRanges(r)
    BY <2>2 DEF Sound
  <2>5. IsQueue(q1)
    BY <1>4, <1>5, <2>2, <2>4, JumpKeeps
  <2>6. q \o q1 = q1
    BY <2>1, <2>5, QueueIsSeq, ConcatEmptySeq
  <2> QED
    BY <1>1, <1>5, <1>16, <2>3, <2>6
<1>20. Told(g1, Pos)
  BY <1>1, <1>15, <1>17 DEF Grows
<1>18. CASE LeaveBlock(g1, r1, q1)
  <2>1. GraphKept /\ Grows(g1, program')
    BY <1>1, <1>11, <1>17, <1>18, SoundLeave
  <2> QED
    BY <1>1, <1>20, <2>1 DEF Grows
<1>19. CASE ~LeaveBlock(g1, r1, q1)
  <2>1. Pos + 1 # Beyond /\ Pos + 1 \in Addresses
    BY <1>1, <1>31, <1>19, ScannerAssumption DEF Addresses, Positions, Beyond
  <2>2. /\ Sound(g2, r2, q1 \o q2, p) /\ Grows(g1, g2) /\ PlaceOf(g2, r2, Pos, p)
        /\ IsTarget(g2, b2)
    <3>1. /\ Sound(else.g, else.ranges, q1 \o else.items, p) /\ Grows(g1, else.g)
          /\ IsTarget(else.g, else.block)
          /\ \A x \in Positions :
                PlaceOf(g1, r1, x, p) => PlaceOf(else.g, else.ranges, x, p)
      <4>1. Sound(g1, r1, q1, p) /\ Pos \in Int
        BY <1>1, <1>17
      <4> QED
        BY <1>6, <2>1, <4>1, SoundJump
    <3> QED
      BY <1>1, <1>7, <1>17, <3>1
  <2>3. from \in DOMAIN g2.heap /\ g2.heap[from].role \in Inner
    BY <1>1, <1>8, <2>2, PlaceFits DEF Inner
  <2>4. b1 \in DOMAIN g2.heap /\ g2.heap[b1].role \in Inner
    BY <1>17, <2>2, InnerStays
  <2>12. b2 \in DOMAIN g2.heap /\ g2.heap[b2].role \in Inner
    BY <2>2 DEF IsTarget
  <2>5. /\ Sound(k, r2, q1 \o q2, p) /\ Grows(g2, k)
        /\ \A c \in DOMAIN g2.heap : k.heap[c].stms = g2.heap[c].stms
    BY <1>9, <2>2, <2>3, <2>12, SoundEnsureEdge
  <2>6. /\ from \in DOMAIN k.heap /\ k.heap[from].role \in Inner
        /\ b1 \in DOMAIN k.heap /\ k.heap[b1].role \in Inner
        /\ b2 \in DOMAIN k.heap /\ k.heap[b2].role \in Inner
    BY <2>3, <2>4, <2>5, <2>12, InnerStays
  <2>7. h = EnsureEdge(k, from, b1) \/ h = AddEdge(k, from, b1)
    BY <1>10
  <2>8. /\ Sound(h, r2, q1 \o q2, p) /\ Grows(k, h)
        /\ \A c \in DOMAIN k.heap : h.heap[c].stms = k.heap[c].stms
    BY <2>5, <2>6, <2>7, SoundEnsureEdge
  <2>13. Told(h, Pos)
    BY <1>1, <1>20, <2>2, <2>5, <2>8 DEF Grows
  <2>9. b2 \in DOMAIN h.heap /\ h.heap[b2].role = g2.heap[b2].role
    BY <2>5, <2>6, <2>8, <2>12, InnerStays
  <2>10. CASE LeaveBlock(h, r2, q1 \o q2)
    BY <1>1, <1>11, <2>8, <2>10, <2>13, SoundLeave DEF Grows
  <2>11. CASE Stms(h, b2) = <<>> /\ GoOn(h, r2, b2, Pos + 1, q1 \o q2)
    <3>1. Stms(g2, b2) = <<>>
      BY <2>5, <2>6, <2>8, <2>11, <2>12 DEF Stms
    <3>2. h.heap[b2].role = "code"
      BY <2>2, <2>9, <3>1 DEF IsTarget
    <3>3. GraphKept /\ Grows(h, program')
      BY <1>1, <1>11, <2>8, <2>9, <2>11, <3>2, SoundGoOn
    <3> QED
      BY <1>1, <2>13, <3>3 DEF Grows
  <2> QED
    BY <1>31, <1>19, <2>10, <2>11
<1> QED
  BY <1>18, <1>19

(* Step: a call is read.                                                   *)
LEMMA CallFits ==
  ASSUME RangesInv, GraphInv, Parsing, Within, NEW i \in InstructionsAt(Pos),
         UNCHANGED canceled
  PROVE  Call(i) => GraphKept
<1>h. HAVE Call(i)
<1> USE <1>h
<1>1. Scanning /\ BlockCur # None /\ Pos \in Addresses
  BY WithinIsAddress DEF Parsing
<1>2. PICK to, f, top : to = i.to /\ f = Top /\ top = [f EXCEPT !.callee = to]
  OBVIOUS
<1>3. ScanProcedure(to, top) /\ to \in Addresses
  BY <1>1, <1>2, InstructionTypes DEF Call
<1>4. FrameFits(program, f) /\ IsFrame(f) /\ f.block # None
  BY <1>1, <1>2, TopFits DEF BlockCur
<1>5. top.block = f.block /\ top.queue = f.queue /\ top.callee = to
  BY <1>2, <1>4 DEF IsFrame
<1>6. ASSUME NEW k, Grows(program, k)
      PROVE  FrameFits(k, top)
  <2>1. FrameFits(k, f)
    BY <1>4, <1>6, FramesGrow
  <2> QED
    BY <1>3, <1>4, <1>5, <2>1 DEF FrameFits
<1> HIDE <1>h
<1>7. Pending(frames) \subseteq Remaining(top)
  BY <1>2, <1>5 DEF Remaining
<1> QED
  BY <1>1, <1>3, <1>6, <1>7, ScanProcedureFits

(* Step: the nested scan of a callee returns to the call.                  *)
LEMMA CallScannedFits ==
  ASSUME RangesInv, GraphInv
  PROVE  CallScanned => GraphKept /\ Told(program', Pos)
<1>h. HAVE CallScanned
<1> USE <1>h
<1>1. PICK g, to : /\ to = Top.callee /\ g = Emit(program, BlockCur, Pos, "call", to)
                   /\ GoOn(g, ranges, BlockCur, Pos + 1, <<>>)
                   /\ UNCHANGED <<visited, canceled>> /\ Scanning /\ to # None
  BY DEF CallScanned
<1> HIDE <1>h
<1>2. BlockCur # None /\ to \in Addresses /\ Pos \in Addresses
  BY <1>1, TopFits DEF FrameFits, IsFrame, BlockCur, Pos
<1>3. Pos \in Int /\ Pos + 1 \in Positions
  BY <1>2, ScannerAssumption DEF Addresses, Positions, Beyond
<1>4. /\ BlockCur \in DOMAIN program.heap /\ program.heap[BlockCur].role = "code"
      /\ Sound(program, ranges, <<>>, ProcCur)
  BY <1>1, <1>2, AtWork
<1>5. "call" \in Kinds /\ to \in Addresses \cup {None}
  BY <1>2 DEF Kinds
<1>6. Sound(g, ranges, <<>>, ProcCur) /\ Keeps(program, g) /\ Told(g, Pos)
  <2>1. g = Emit(program, BlockCur, Pos, "call", to)
    BY <1>1
  <2> QED
    BY <1>3, <1>4, <1>5, <2>1, SoundEmit
<1>7. BlockCur \in DOMAIN g.heap /\ g.heap[BlockCur].role = "code"
  BY <1>4, <1>6, InnerStays DEF Keeps
<1>8. GoOn(g, ranges, BlockCur, Pos + 1, <<>>) /\ UNCHANGED <<visited, canceled>> /\ Scanning
  BY <1>1
<1>9. GraphKept /\ Grows(g, program')
  BY <1>3, <1>6, <1>7, <1>8, SoundGoOn
<1> QED
  BY <1>2, <1>6, <1>9 DEF Grows

(* The invariant holds at first: the symbols have procedures.               *)
LEMMA GraphAtFirst ==
  ASSUME Init
  PROVE  GraphInv
<1>1. PICK n, syms : /\ n = Cardinality(Symbols) /\ syms \in [1 .. n -> Symbols]
                     /\ program = ProceduresMade(syms)
                     /\ ranges = <<>> /\ visited = {}
                     /\ frames = <<Frame(None, [i \in DOMAIN syms |->
                                                   Item("symbol", syms[i], None)])>>
  <2>1. PICK syms \in [1 .. Cardinality(Symbols) -> Symbols] :
            /\ program = FoldLeft(EnsureProcedure, [heap |-> <<>>, procs |-> <<>>], syms)
            /\ ranges = <<>> /\ visited = {}
            /\ frames = <<Frame(None, [i \in DOMAIN syms |->
                                          Item("symbol", syms[i], None)])>>
    BY DEF Init
  <2>2. program = ProceduresMade(syms)
    BY <2>1 DEF ProceduresMade, NoGraph
  <2> QED
    BY <2>1, <2>2
<1>2. n \in Nat
  <2>1. IsFiniteSet(Addresses)
    BY ScannerAssumption, FS_Interval DEF Addresses
  <2> QED
    BY <1>1, <2>1, ScannerAssumption, FS_Subset, FS_CardinalityType
<1>3. syms \in [1 .. n -> Addresses]
  BY <1>1, ScannerAssumption
<1>4. /\ Well(program, Settled)
      /\ \A p \in DOMAIN program.procs : ~Entered(program, p) /\ \E i \in 1 .. n : syms[i] = p
  BY <1>1, <1>2, <1>3, ProceduresMadeKeeps
<1>5. PICK q : q = [i \in DOMAIN syms |-> Item("symbol", syms[i], None)]
  OBVIOUS
<1>6. ItemsFit(program, q, Settled)
  <2>1. \A i \in DOMAIN q : q[i].kind = "symbol"
    BY <1>5 DEF Item
  <2> QED
    BY <2>1 DEF ItemsFit
<1>7. PICK f : f = Frame(None, q)
  OBVIOUS
<1>8. FrameFits(program, f)
  BY <1>6, <1>7, FrameOfQueueFits
<1>9. frames = <<f>>
  BY <1>1, <1>5, <1>7
<1>10. FramesFit(program, frames)
  BY <1>8, <1>9 DEF FramesFit
<1>11. RangesFit(program, ranges) /\ VisitedFit(program, visited)
  BY <1>1 DEF RangesFit, VisitedFit
<1>12. Promised(program, ranges, Pending(frames), {})
  <2>1. ToSet(q) \subseteq Pending(frames)
    <3>1. DOMAIN frames = {1} /\ frames[1] = f /\ f.queue = q
      BY <1>7, <1>9, FrameParts
    <3> QED
      BY <3>1 DEF Pending
  <2>2. ASSUME NEW p \in DOMAIN program.procs
        PROVE  ~Entered(program, p) /\ Scans(Pending(frames), p)
    <3>1. PICK k \in 1 .. n : syms[k] = p
      BY <1>4
    <3>2. k \in DOMAIN q /\ q[k] = Item("symbol", p, None)
      BY <1>1, <1>5, <3>1
    <3>3. q[k] \in Pending(frames) /\ q[k].kind = "symbol" /\ q[k].addr = p
      BY <2>1, <3>2 DEF ToSet, Item
    <3> QED
      BY <1>4, <3>3 DEF Scans
  <2>3. ASSUME NEW b \in DOMAIN program.heap, program.heap[b].role = "code"
        PROVE  FALSE
    BY <1>4, <2>3, OwnerEntered DEF Inner
  <2> QED
    BY <2>2, <2>3 DEF Promised
<1> QED
  BY <1>4, <1>10, <1>11, <1>12 DEF GraphInv, GraphFits

(* Every step keeps it.                                                     *)
LEMMA GraphStep ==
  ASSUME RangesInv, GraphInv, [Next]_vars
  PROVE  GraphKept
<1>1. ASSUME NEW i, StartSymbol(i)
      PROVE  GraphKept
  <2>3. /\ Dequeued(i) /\ Scanning /\ Top.queue[i].kind = "symbol" /\ UNCHANGED canceled
        /\ \/ /\ Top.queue[i].addr \in visited /\ frames' = SetTop(Rest(i))
              /\ UNCHANGED <<program, ranges, visited>>
           \/ ScanProcedure(Top.queue[i].addr, Rest(i))
    BY <1>1 DEF StartSymbol, Dequeued, Idle
  <2>1. CASE /\ Top.queue[i].addr \in visited /\ frames' = SetTop(Rest(i))
             /\ UNCHANGED <<program, ranges, visited>>
    <3>2. Grows(program, program)
      BY GrowsReflexive
    <3>3. FrameFits(program, Rest(i))
      BY <2>3, <3>2, RestFits
    <3>4. Rest(i).queue = RemoveAt(Top.queue, i)
      BY FrameParts DEF Rest
    <3>5. Entered(program, Top.queue[i].addr)
      BY <2>1 DEF GraphInv, GraphFits, VisitedFit
    <3>6. canceled \/ Promised(program, ranges, Remaining(Rest(i)), {})
      BY <2>3, <3>4, <3>5, RestPromises
    <3> QED
      BY <2>1, <2>3, <3>3, <3>6, TopChanges
  <2>2. CASE ScanProcedure(Top.queue[i].addr, Rest(i))
    BY <2>2, <2>3, QueuedScanFits
  <2> QED
    BY <2>1, <2>2, <2>3
<1>2. ASSUME NEW i, StartProcedure(i)
      PROVE  GraphKept
  BY <1>2, QueuedScanFits DEF StartProcedure
<1>3. ASSUME NEW i, StartPromotion(i)
      PROVE  GraphKept
  BY <1>3, StartPromotionFits
<1>4. ASSUME NEW i, StartBlock(i)
      PROVE  GraphKept
  BY <1>4, StartBlockFits
<1>5. ASSUME FellOff
      PROVE  GraphKept
  <2>1. Scanning /\ LeaveBlock(program, ranges, <<>>) /\ UNCHANGED <<visited, canceled>>
    BY <1>5 DEF FellOff, Parsing
  <2>2. /\ Well(program, Settled) /\ RangesFit(program, ranges) /\ Grows(program, program)
        /\ Accounted(program, ranges, <<>>)
    <3>1. canceled \/ Promised(program, ranges, Pending(frames), {})
      BY DEF GraphInv, GraphFits
    <3> QED
      BY <3>1, GrowsReflexive, PromisedMore DEF GraphInv, GraphFits, Accounted
  <2>3. IsQueue(<<>>) /\ ItemsFit(program, <<>>, Settled)
    BY QueuesOfItems, SomeItems
  <2> QED
    BY <2>1, <2>2, <2>3, LeaveBlockFits
<1>6. ASSUME ReadInstruction
      PROVE  GraphKept
  <2>1. Parsing /\ Within /\ Pos \in Addresses
    BY <1>6, WithinIsAddress DEF ReadInstruction
  <2>2. PICK i : /\ i \in IF Pos \in DOMAIN code THEN {code[Pos]} ELSE InstructionsAt(Pos)
                 /\ Linear(i) \/ Stop(i) \/ Goto(i) \/ Branch(i) \/ Call(i)
                 /\ UNCHANGED canceled
    BY <1>6, Zenon DEF ReadInstruction
  <2>3. i \in InstructionsAt(Pos)
    BY <2>1, <2>2 DEF RangesInv, CodeRead
  <2> QED
    BY <2>1, <2>2, <2>3, LinearFits, StopFits, GotoFits, BranchFits, CallFits
<1>7. ASSUME UNCHANGED <<program, ranges, visited, frames>>, canceled' \in {canceled, TRUE}
      PROVE  GraphKept
  BY <1>7, GrowsReflexive DEF GraphInv, GraphFits, GraphKept
<1>8. Cancel \/ UNCHANGED vars => GraphKept
  BY <1>7 DEF Cancel, vars
<1> QED
  BY <1>1, <1>2, <1>3, <1>4, <1>5, <1>6, <1>8, ProcedureScannedFits, FinishFits,
     CallScannedFits DEF Next, Step

-------------------------------------------------------------------------------
(* What has been read and leaves a statement.                               *)

(* The instructions whose statements are not taken out again. *)
Saying == {"linear", "halt", "branch", "call", "return"}

(* The calls whose callees are being scanned: their statements come later.  *)
Waiting(s) == {s[n].addr : n \in {m \in DOMAIN s : s[m].callee # None}}

(* A statement of each instruction is in a block of code, or still to come. *)
SaidInv ==
    \A a \in DOMAIN code :
        code[a].op \in Saying => Told(program, a) \/ a \in Waiting(frames)

(* The top frame is replaced, and one may be pushed on it.                  *)
Stacked(f) == frames' = SetTop(f) \/ \E h : frames' = Append(SetTop(f), h)

(* Replacing the top, pushing a frame and popping one leaves all calls      *)
(* waiting but that of the top.                                             *)
LEMMA WaitingPut ==
  ASSUME IsStack(frames), Scanning, NEW a \in Waiting(frames)
  PROVE  \/ Top.callee # None /\ a = Top.addr
         \/ /\ \A f : Stacked(f) => a \in Waiting(frames')
            /\ a \in Waiting(Front(frames))
<1>1. PICK n, v : n = Len(frames) /\ v = Front(frames)
  OBVIOUS
<1>2. Top = frames[n] /\ frames # <<>>
  BY <1>1 DEF Top, Scanning
<1>3. PICK m \in DOMAIN frames : frames[m].callee # None /\ frames[m].addr = a
  BY DEF Waiting
<1>4. CASE m = n
  BY <1>2, <1>3, <1>4
<1>5. CASE m # n
  <2>1. ASSUME NEW f, Stacked(f)
        PROVE  a \in Waiting(frames')
    <3>1. PICK t : t = SetTop(f) /\ t = [frames EXCEPT ![n] = f]
      BY <1>1 DEF SetTop
    <3>2. m \in DOMAIN t /\ t[m] = frames[m]
      BY <1>1, <1>2, <1>5, <3>1, StackParts
    <3>3. CASE frames' = t
      BY <1>3, <3>2, <3>3 DEF Waiting
    <3>4. ASSUME NEW h, frames' = Append(t, h)
          PROVE  a \in Waiting(frames')
      <4>1. PICK u : u = Append(t, h)
        OBVIOUS
      <4>2. \A i \in DOMAIN t : i \in DOMAIN u /\ u[i] = t[i]
        BY <1>1, <1>2, <3>1, <4>1, StackParts
      <4>3. a \in Waiting(u)
        BY <1>3, <3>2, <4>2 DEF Waiting
      <4> QED
        BY <3>4, <4>1, <4>3
    <3> QED
      BY <2>1, <3>1, <3>3, <3>4 DEF Stacked
  <2>2. m \in DOMAIN v /\ v[m] = frames[m]
    BY <1>1, <1>2, <1>5, FrontParts
  <2>3. a \in Waiting(v)
    BY <1>3, <2>2 DEF Waiting
  <2> QED
    BY <1>1, <2>1, <2>3
<1> QED
  BY <1>4, <1>5

(* The call of the new top waits. *)
LEMMA TopWaits ==
  ASSUME IsStack(frames), Scanning, NEW f, f.callee # None, Stacked(f)
  PROVE  f.addr \in Waiting(frames')
<1>1. PICK n, t : n = Len(frames) /\ t = SetTop(f) /\ t = [frames EXCEPT ![n] = f]
  BY DEF SetTop
<1>2. n \in DOMAIN t /\ t[n] = f
  BY <1>1, StackParts DEF Scanning
<1>3. CASE frames' = t
  BY <1>2, <1>3 DEF Waiting
<1>4. ASSUME NEW h, frames' = Append(t, h)
      PROVE  f.addr \in Waiting(frames')
  <2>1. PICK u : u = Append(t, h)
    OBVIOUS
  <2>2. \A i \in DOMAIN t : i \in DOMAIN u /\ u[i] = t[i]
    BY <1>1, <2>1, StackParts DEF Scanning
  <2>3. f.addr \in Waiting(u)
    BY <1>2, <2>2 DEF Waiting
  <2> QED
    BY <1>4, <2>1, <2>3
<1> QED
  BY <1>1, <1>3, <1>4 DEF Stacked

(* How the parts of steps leave the stack.                                  *)
LEMMA PartsStack ==
  /\ \A g, r, items : LeaveBlock(g, r, items) => \E f : Stacked(f)
  /\ \A g, r, b, next, items : GoOn(g, r, b, next, items) => \E f : Stacked(f)
  /\ \A addr, top : ScanProcedure(addr, top) => Stacked(top)
<1>1. ASSUME NEW g, NEW r, NEW items, LeaveBlock(g, r, items)
      PROVE  \E f : Stacked(f)
  BY <1>1 DEF LeaveBlock, Stacked
<1>2. ASSUME NEW g, NEW r, NEW b, NEW next, NEW items, GoOn(g, r, b, next, items)
      PROVE  \E f : Stacked(f)
  BY <1>1, <1>2 DEF GoOn, Stacked
<1>3. ASSUME NEW addr, NEW top, ScanProcedure(addr, top)
      PROVE  Stacked(top)
  BY <1>3 DEF ScanProcedure, Stacked
<1> QED
  BY <1>1, <1>2, <1>3

(* So do the instructions that are read.                                    *)
LEMMA ReadsStack ==
  ASSUME NEW i, Linear(i) \/ Stop(i) \/ Goto(i) \/ Branch(i)
  PROVE  \E f : Stacked(f)
<1>1. CASE Linear(i)
  BY <1>1, PartsStack DEF Linear
<1>2. CASE Stop(i)
  BY <1>2, PartsStack DEF Stop
<1>3. CASE Goto(i)
  <2>1. \E g, r, items : LeaveBlock(g, r, items)
    BY <1>3, Zenon DEF Goto
  <2> QED
    BY <2>1, PartsStack
<1>4. CASE Branch(i)
  <2>1. \/ \E g, r, items : LeaveBlock(g, r, items)
        \/ \E g, r, b, next, items : GoOn(g, r, b, next, items)
    BY <1>4, Zenon DEF Branch
  <2> QED
    BY <2>1, PartsStack
<1> QED
  BY <1>1, <1>2, <1>3, <1>4

(* A step that reads nothing: the calls wait, or leave their statement.     *)
LEMMA SaidStays ==
  ASSUME RangesInv, SaidInv, Grows(program, program'), UNCHANGED code,
         \A a \in Waiting(frames) : a \in Waiting(frames') \/ Told(program', a)
  PROVE  SaidInv'
BY DEF SaidInv, RangesInv, CodeRead, Grows

(* The call of the top frame is done, or none waits there.                  *)
LEMMA SaidStacked ==
  ASSUME RangesInv, SaidInv, Grows(program, program'), UNCHANGED code, Scanning,
         Top.callee = None \/ Told(program', Top.addr),
         (\E f : Stacked(f)) \/ frames' = Front(frames)
  PROVE  SaidInv'
<1>1. \A a \in Waiting(frames) : a \in Waiting(frames') \/ Told(program', a)
  BY WaitingPut DEF RangesInv
<1> QED
  BY <1>1, SaidStays

(* Step: an instruction is read, and leaves its statement or waits.         *)
LEMMA ReadSaid ==
  ASSUME RangesInv, GraphInv, SaidInv, Grows(program, program'), ReadInstruction
  PROVE  SaidInv'
<1>1. Parsing /\ Within /\ Pos \in Addresses /\ Scanning /\ Top.callee = None
  BY WithinIsAddress DEF ReadInstruction, Parsing
<1>2. PICK i : /\ i \in IF Pos \in DOMAIN code THEN {code[Pos]} ELSE InstructionsAt(Pos)
               /\ code' = Set(code, Pos, i)
               /\ Linear(i) \/ Stop(i) \/ Goto(i) \/ Branch(i) \/ Call(i)
               /\ UNCHANGED canceled
  BY Zenon DEF ReadInstruction
<1>3. i \in InstructionsAt(Pos)
  BY <1>1, <1>2 DEF RangesInv, CodeRead
<1>4. /\ (\E f : Stacked(f))
      /\ i.op \in Saying => Told(program', Pos) \/ Pos \in Waiting(frames')
  <2>1. CASE Linear(i)
    <3>1. i.op = "linear" => Told(program', Pos)
      BY <1>1, <1>2, <1>3, <2>1, LinearFits
    <3> QED
      BY <2>1, <3>1, ReadsStack DEF Linear, Saying
  <2>2. CASE Stop(i)
    <3>1. i.op # "invalid" => Told(program', Pos)
      BY <1>1, <1>2, <2>2, StopFits
    <3> QED
      BY <2>2, <3>1, ReadsStack DEF Saying
  <2>3. CASE Goto(i)
    BY <2>3, ReadsStack DEF Goto, Saying
  <2>4. CASE Branch(i)
    <3>1. Told(program', Pos)
      BY <1>1, <1>2, <1>3, <2>4, BranchFits
    <3> QED
      BY <2>4, <3>1, ReadsStack
  <2>5. CASE Call(i)
    <3>1. PICK f : f = [Top EXCEPT !.callee = i.to]
      OBVIOUS
    <3>2. Stacked(f)
      BY <2>5, <3>1, PartsStack DEF Call
    <3>3. i.to \in Addresses /\ i.to # None
      BY <1>1, <1>3, <2>5, InstructionTypes, ScannerAssumption DEF Call, Addresses, None
    <3>4. f.callee = i.to /\ f.addr = Pos
      BY <1>1, <3>1, TopIsFrame DEF IsFrame, Pos
    <3>5. f.addr \in Waiting(frames')
      BY <1>1, <3>2, <3>3, <3>4, TopWaits DEF RangesInv
    <3> QED
      BY <3>2, <3>4, <3>5
  <2> QED
    BY <1>2, <2>1, <2>2, <2>3, <2>4, <2>5
<1>5. \A a \in DOMAIN code' : (a = Pos /\ code'[a] = i) \/ (a \in DOMAIN code /\ code'[a] = code[a])
  BY <1>2 DEF Set
<1>6. \A a \in Waiting(frames) : a \in Waiting(frames')
  BY <1>1, <1>4, WaitingPut DEF RangesInv
<1>7. \A a \in DOMAIN code : a \in Addresses
  BY DEF RangesInv, CodeRead
<1> QED
  BY <1>4, <1>5, <1>6, <1>7 DEF SaidInv, Grows

(* Every step keeps what has been said. *)
LEMMA SaidStep ==
  ASSUME RangesInv, GraphInv, SaidInv, [Next]_vars
  PROVE  SaidInv'
<1>1. Grows(program, program')
  BY GraphStep DEF GraphKept
<1>2. ASSUME NEW i, StartSymbol(i) \/ StartProcedure(i) \/ StartPromotion(i) \/ StartBlock(i)
      PROVE  SaidInv'
  <2>1. Dequeued(i) /\ UNCHANGED code
    BY <1>2 DEF StartSymbol, StartProcedure, StartPromotion, StartBlock
  <2>2. Scanning /\ Top.callee = None
    BY <2>1 DEF Dequeued, Idle
  <2>3. \E f : Stacked(f)
    BY <1>2, PartsStack DEF StartSymbol, StartProcedure, StartPromotion, StartBlock, Stacked
  <2> QED
    BY <1>1, <2>1, <2>2, <2>3, SaidStacked
<1>3. CASE ProcedureScanned
  BY <1>1, <1>3, SaidStacked DEF ProcedureScanned, Drained, Idle
<1>4. CASE Finish
  <2>1. Len(frames) = 1 /\ Top.callee = None /\ UNCHANGED code
    BY <1>4 DEF Finish, Drained, Idle
  <2>2. PICK S : frames \in Seq(S)
    BY DEF RangesInv, IsStack
  <2>3. DOMAIN frames = {1} /\ frames[1].callee = None
    BY <2>1, <2>2, SeqParts DEF Top
  <2>4. Waiting(frames) = {}
    BY <2>3 DEF Waiting
  <2> QED
    BY <1>1, <2>1, <2>4, SaidStays
<1>5. CASE FellOff
  BY <1>1, <1>5, PartsStack, SaidStacked DEF FellOff, Parsing
<1>6. CASE ReadInstruction
  BY <1>1, <1>6, ReadSaid
<1>7. CASE CallScanned
  <2>1. Told(program', Top.addr)
    BY <1>7, CallScannedFits DEF Pos
  <2>2. Scanning /\ UNCHANGED code /\ \E f : Stacked(f)
    BY <1>7, PartsStack DEF CallScanned
  <2> QED
    BY <1>1, <2>1, <2>2, SaidStacked
<1>8. CASE Cancel \/ UNCHANGED vars
  <2>1. UNCHANGED <<code, program, frames>>
    BY <1>8 DEF Cancel, vars
  <2> QED
    BY <1>1, <2>1, SaidStays
<1> QED
  BY <1>2, <1>3, <1>4, <1>5, <1>6, <1>7, <1>8 DEF Next, Step

-------------------------------------------------------------------------------
(* One procedure.  While there is one, nothing is promoted or cloned, and   *)
(* no scan is nested in another.                                            *)

OnlyOne(g) == \A p, q \in DOMAIN g.procs : p = q

(* The statements of a range's block are in order and in the range, but for *)
(* a goto in the end.                                                       *)
AllTidy(g, r) == \A a \in DOMAIN r : Tidy(Stms(g, r[a].block), a, r[a].end)

NoPromotions(q) == \A i \in DOMAIN q : q[i].kind # "promote"

(* Block b, whose range begins at a, is read, and x comes next: what it has *)
(* is below x, and does not stick out of the range, which may have been cut.*)
Reads(g, r, b, x, a) ==
    /\ a \in DOMAIN r /\ r[a].block = b /\ a <= x
    /\ Under(Stms(g, b), x) /\ Under(Stms(g, b), r[a].end)

(* Where a frame stands; at a call it is still inside the range.            *)
FrameStands(g, r, f) ==
    f.block # None =>
        \E a : Reads(g, r, f.block, f.addr, a) /\ (f.callee # None => f.addr < r[a].end)

(* Only the frame on top is at work.                                        *)
FramesOne(g, r, s) ==
    \A n \in DOMAIN s :
       /\ NoPromotions(s[n].queue)
       /\ s[n].block # None => \A m \in DOMAIN s : m <= n
       /\ FrameStands(g, r, s[n])

(* The inductive invariant: once there are ranges the procedure is visited, *)
(* so that no call leads to a nested scan; and a visited procedure has a    *)
(* range of its own, so that no call cuts one.                              *)
OneFits(g, r, s, v) ==
    /\ AllTidy(g, r)
    /\ FramesOne(g, r, s)
    /\ DOMAIN r # {} => DOMAIN g.procs \subseteq v
    /\ v \subseteq DOMAIN r
    /\ s = <<>> => \A a \in DOMAIN r : Under(Stms(g, r[a].block), r[a].end)

OneInv == OnlyOne(program) => OneFits(program, ranges, frames, visited)

(* What a step that keeps it leaves.                                        *)
OneKept == OneFits(program', ranges', frames', visited')

(* Ranges have blocks of their own.                                         *)
LEMMA RangeBlocksDiffer ==
  ASSUME NEW g, NEW r, RangesFit(g, r), NEW a \in DOMAIN r, NEW c \in DOMAIN r,
         r[a].block = r[c].block
  PROVE  a = c
BY DEF RangesFit

(* A graph with the same statements is as tidy, and read the same way.      *)
LEMMA SameTidy ==
  ASSUME NEW g, NEW r, RangesFit(g, r), NEW h, SameStms(g, h)
  PROVE  /\ AllTidy(g, r) => AllTidy(h, r)
         /\ \A b, x, a : Reads(g, r, b, x, a) => Reads(h, r, b, x, a)
<1>1. \A a \in DOMAIN r : Stms(h, r[a].block) = Stms(g, r[a].block)
  BY DEF RangesFit, SameStms, Stms
<1>2. AllTidy(g, r) => AllTidy(h, r)
  BY <1>1 DEF AllTidy
<1>3. \A b, x, a : Reads(g, r, b, x, a) => Reads(h, r, b, x, a)
  BY <1>1 DEF Reads
<1> QED
  BY <1>2, <1>3

(* No statements are tidy.                                                  *)
LEMMA NoneTidy ==
  /\ \A a, x : Tidy(<<>>, a, x)
  /\ \A x : Under(<<>>, x)
<1>1. PICK s : s = <<>> /\ DOMAIN s = {}
  OBVIOUS
<1>2. \A a, x : Tidy(s, a, x) /\ Under(s, x)
  BY <1>1 DEF Tidy, InOrder, Starting, Nearly, Under
<1> QED
  BY <1>1, <1>2

(* A block that is made where no range reaches leaves the others tidy.      *)
LEMMA AddTidy ==
  ASSUME NEW g, NEW r, RangesFit(g, r), AllTidy(g, r), NEW h, SameStms(g, h),
         NEW dest, dest \notin DOMAIN r, NEW b, Stms(h, b) = <<>>,
         NEW t, RangeAdded(r, dest, b, t)
  PROVE  /\ AllTidy(h, t)
         /\ \A c, x, a : Reads(g, r, c, x, a) => Reads(h, t, c, x, a)
<1>1. /\ DOMAIN t = DOMAIN r \cup {dest} /\ t[dest].block = b
      /\ \A a \in DOMAIN r : t[a] = r[a]
  BY DEF RangeAdded
<1>2. AllTidy(h, r) /\ \A c, x, a : Reads(g, r, c, x, a) => Reads(h, r, c, x, a)
  BY SameTidy
<1>3. AllTidy(h, t)
  <2> SUFFICES ASSUME NEW a \in DOMAIN t
               PROVE  Tidy(Stms(h, t[a].block), a, t[a].end)
    BY DEF AllTidy
  <2>1. CASE a = dest
    BY <1>1, <2>1, NoneTidy
  <2>2. CASE a \in DOMAIN r
    BY <1>1, <1>2, <2>2 DEF AllTidy
  <2> QED
    BY <1>1, <2>1, <2>2
<1>4. \A c, x, a : Reads(h, r, c, x, a) => Reads(h, t, c, x, a)
  BY <1>1 DEF Reads
<1> QED
  BY <1>2, <1>3, <1>4

(* A range that is split leaves two that are tidy; and who reads the first  *)
(* part has read nothing behind its new end.                                *)
LEMMA PartedTidy ==
  ASSUME NEW X, NEW g, Well(g, X), NEW r, GoodRanges(r), RangesFit(g, r), AllTidy(g, r),
         NEW dest \in Addresses, dest \notin DOMAIN r,
         NEW low \in DOMAIN r, low < dest, NEW b, b = r[low].block,
         NEW h, StmsParted(g, h, b, dest), BlockMade(g, h, dest),
         NEW t, DOMAIN t = DOMAIN r \cup {dest},
         t[dest].block = Newest(h), t[dest].end = r[low].end,
         t[low].block = b, t[low].end = dest,
         \A a \in DOMAIN r \ {low} : t[a] = r[a]
  PROVE  /\ AllTidy(h, t)
         /\ \A c, x, a : Reads(g, r, c, x, a) => Reads(h, t, c, x, a)
<1>1. low \in Int /\ dest \in Int /\ low # dest
  BY ScannerAssumption DEF GoodRanges, RangesOf, Addresses
<1>2. PICK s, u, v, e : /\ s = Stms(g, b) /\ u = StmsLeft(s, dest) /\ v = StmsFrom(s, dest)
                        /\ e = r[low].end
  OBVIOUS
<1>3. b \in DOMAIN g.heap /\ s \in Seq(StmSet) /\ Tidy(s, low, e)
  <2>1. b \in DOMAIN g.heap
    BY DEF RangesFit
  <2> QED
    BY <1>2, <2>1, WellParts DEF AllTidy, Stms
<1>4. /\ Part(u, s) /\ Tidy(u, low, dest) /\ Under(u, dest) /\ Tidy(v, dest, e)
  BY <1>1, <1>2, <1>3, SplitTidy
<1>5. /\ Stms(h, Newest(h)) = v /\ Stms(h, b) = u
      /\ \A c \in DOMAIN g.heap \ {b} : Stms(h, c) = Stms(g, c)
  BY <1>2 DEF StmsParted, Stms
<1>6. \A a \in DOMAIN r \ {low} : Stms(h, t[a].block) = Stms(g, r[a].block)
  <2> SUFFICES ASSUME NEW a \in DOMAIN r \ {low}
               PROVE  Stms(h, r[a].block) = Stms(g, r[a].block)
    OBVIOUS
  <2>1. r[a].block # b
    BY RangeBlocksDiffer
  <2>2. r[a].block \in DOMAIN g.heap
    BY DEF RangesFit
  <2> QED
    BY <1>5, <2>1, <2>2
<1>7. ASSUME NEW a \in DOMAIN t
      PROVE  Tidy(Stms(h, t[a].block), a, t[a].end)
  <2>1. CASE a = dest
    BY <1>2, <1>4, <1>5, <2>1
  <2>2. CASE a = low
    BY <1>4, <1>5, <2>2
  <2>3. CASE a \in DOMAIN r \ {low}
    BY <1>6, <2>3 DEF AllTidy
  <2> QED
    BY <2>1, <2>2, <2>3
<1>8. ASSUME NEW c, NEW x, NEW a, Reads(g, r, c, x, a)
      PROVE  Reads(h, t, c, x, a)
  <2>1. CASE a = low
    <3>1. c = b /\ a <= x /\ Under(s, x)
      BY <1>2, <1>8, <2>1 DEF Reads
    <3>2. Under(u, x)
      BY <1>4, <3>1 DEF Part, Under
    <3> QED
      BY <1>4, <1>5, <2>1, <3>1, <3>2 DEF Reads
  <2>2. CASE a # low
    <3>1. a \in DOMAIN r \ {low}
      BY <1>8, <2>2 DEF Reads
    <3> QED
      BY <1>6, <1>8, <3>1 DEF Reads
  <2> QED
    BY <2>1, <2>2
<1> QED
  BY <1>7, <1>8 DEF AllTidy

(* So does a block that is made at an address, whether split off or new.    *)
LEMMA MakeTidy ==
  ASSUME NEW X, NEW g, Well(g, X), NEW r, GoodRanges(r), RangesFit(g, r), AllTidy(g, r),
         NEW dest \in Addresses, dest \notin DOMAIN r,
         NEW proc \in DOMAIN g.procs, proc \in X.procs \/ Entered(g, proc),
         NEW h, NEW t
  PROVE  h = MakeBlock(g, r, dest, proc) /\ t = MakeRange(r, dest, Newest(g) + 1) =>
         /\ AllTidy(h, t)
         /\ \A c, x, a : Reads(g, r, c, x, a) => Reads(h, t, c, x, a)
<1>h. HAVE h = MakeBlock(g, r, dest, proc) /\ t = MakeRange(r, dest, Newest(g) + 1)
<1> USE <1>h
<1>1. dest \in Int /\ dest \in Positions
  BY ScannerAssumption DEF Addresses, Positions, Beyond
<1>2. CASE InRange(r, dest)
  <2>1. PICK b : b = FindContainingBlock(r, dest)
    OBVIOUS
  <2>2. h = SplitBlock(g, b, dest) /\ t = SplitRange(r, dest, Newest(g) + 1)
    BY <1>2, <2>1 DEF MakeBlock, MakeRange
  <2> HIDE <1>h
  <2>3. PICK low \in DOMAIN r :
            /\ low < dest /\ b = r[low].block
            /\ DOMAIN t = DOMAIN r \cup {dest}
            /\ t[dest].block = Newest(g) + 1 /\ t[dest].end = r[low].end
            /\ t[low].block = r[low].block /\ t[low].end = dest
            /\ \A a \in DOMAIN r \ {low} : t[a] = r[a]
    BY <1>2, <2>1, <2>2, SplitRangeIs
  <2>4. b \in DOMAIN g.heap /\ g.heap[b].role = "code"
    BY <2>3 DEF RangesFit
  <2>5. BlockMade(g, h, dest) /\ StmsParted(g, h, b, dest)
    BY <1>1, <2>2, <2>4, SplitBlockKeeps
  <2>6. t[dest].block = Newest(h)
    BY <2>3, <2>5 DEF BlockMade, Newest
  <2> QED
    BY <2>3, <2>5, <2>6, PartedTidy
<1>3. CASE ~InRange(r, dest)
  <2>1. h = NewBlock(g, "code", proc, dest) /\ t = AddRange(r, dest, Newest(g) + 1)
    BY <1>3 DEF MakeBlock, MakeRange
  <2> HIDE <1>h
  <2>2. BlockMade(g, h, dest) /\ h.heap[Newest(h)].stms = <<>> /\ SameStms(g, h)
    BY <1>1, <2>1, CodeBlockKeeps
  <2>3. RangeAdded(r, dest, Newest(g) + 1, t)
    BY <2>1, AddRangeIs
  <2>4. Stms(h, Newest(g) + 1) = <<>>
    BY <2>2 DEF BlockMade, Newest, Stms
  <2> QED
    BY <2>2, <2>3, <2>4, AddTidy
<1> QED
  BY <1>2, <1>3


(* Where there is one procedure, a jump splits a block or makes one; work   *)
(* that it leaves is for blocks.                                            *)
LEMMA JumpTidy ==
  ASSUME NEW X, NEW g, Well(g, X), NEW r, GoodRanges(r), RangesFit(g, r), AllTidy(g, r),
         NEW src \in Int, NEW dest \in Addresses,
         NEW proc, DOMAIN g.procs = {proc}, proc \in X.procs \/ Entered(g, proc), NEW j
  PROVE  j = EnqueueJumpTarget(g, r, src, dest, proc) =>
         /\ DOMAIN j.g.procs = {proc}
         /\ AllTidy(j.g, j.ranges)
         /\ NoPromotions(j.items)
         /\ DOMAIN j.ranges = DOMAIN r \cup {dest}
         /\ j.ranges[dest].block = j.block
         /\ \A b, x, a : Reads(g, r, b, x, a) => Reads(j.g, j.ranges, b, x, a)
<1>h. HAVE j = EnqueueJumpTarget(g, r, src, dest, proc)
<1> USE <1>h
<1>0. proc \in DOMAIN g.procs
  OBVIOUS
<1>1. NoPromotions(<<>>) /\ NoPromotions(<<Item("block", dest, None)>>)
  BY DEF NoPromotions, Item
<1>2. CASE dest \in DOMAIN r
  <2>1. g.heap[r[dest].block].proc = proc
    <3>1. r[dest].block \in DOMAIN g.heap
      BY <1>2 DEF RangesFit
    <3> QED
      BY <3>1, WellParts
  <2>2. j = Enqueued(g, r, r[dest].block, <<>>)
    BY <1>2, <2>1 DEF EnqueueJumpTarget
  <2> HIDE <1>h
  <2>3. j.g = g /\ j.ranges = r /\ j.block = r[dest].block /\ j.items = <<>>
    BY <2>2, EnqueuedIs
  <2>4. DOMAIN r = DOMAIN r \cup {dest}
    BY <1>2
  <2> QED
    BY <1>1, <2>3, <2>4
<1>3. CASE dest \notin DOMAIN r
  <2>1. PICK k, t : /\ k = MakeBlock(g, r, dest, proc)
                    /\ t = MakeRange(r, dest, Newest(g) + 1)
    OBVIOUS
  <2>2. j = SettleBlock(k, t, src, dest, proc)
    BY <1>3, <2>1 DEF EnqueueJumpTarget, JumpToNewBlock
  <2> HIDE <1>h
  <2>3. Well(k, X) /\ Keeps(g, k) /\ BlockMade(g, k, dest)
    BY <1>0, <2>1, MakeBlockKeeps
  <2>4. DOMAIN t = DOMAIN r \cup {dest} /\ t[dest].block = Newest(g) + 1
    <3>1. dest \notin DOMAIN r /\ t = MakeRange(r, dest, Newest(g) + 1)
      BY <1>3, <2>1
    <3> QED
      BY <3>1, NewestRange, Z3T(30)
  <2>5. Newest(k) = Newest(g) + 1 /\ Newest(k) \in DOMAIN k.heap
    BY <2>3 DEF BlockMade, Newest
  <2>6. DOMAIN k.procs = {proc}
    BY <2>3 DEF Keeps, Grows, Stays, Shut
  <2>7. k.heap[Newest(k)].proc = proc
    BY <2>3, <2>5, <2>6, WellParts
  <2>8. j = Enqueued(k, t, Newest(k), <<Item("block", dest, None)>>)
    BY <2>2, <2>7, Zenon DEF SettleBlock
  <2>9. /\ AllTidy(k, t)
        /\ \A b, x, a : Reads(g, r, b, x, a) => Reads(k, t, b, x, a)
    BY <1>0, <1>3, <2>1, MakeTidy
  <2>10. /\ j.g = k /\ j.ranges = t /\ j.block = Newest(k)
         /\ j.items = <<Item("block", dest, None)>>
    BY <2>8, EnqueuedIs
  <2> QED
    BY <1>1, <2>4, <2>5, <2>6, <2>9, <2>10
<1> QED
  BY <1>2, <1>3

(* No promotions come from joining queues, or taking an item from one.      *)
LEMMA NoPromotionsJoin ==
  ASSUME NEW p, IsQueue(p), NoPromotions(p), NEW q, IsQueue(q), NoPromotions(q)
  PROVE  NoPromotions(p \o q)
<1>1. PICK r : r = p \o q
  OBVIOUS
<1>2. Joins(r, p, q)
  BY <1>1, ConcatParts
<1>3. NoPromotions(r)
  BY <1>2 DEF Joins, NoPromotions
<1> QED
  BY <1>1, <1>3

LEMMA NoPromotionsRest ==
  ASSUME NEW q, IsQueue(q), NoPromotions(q), NEW i \in DOMAIN q
  PROVE  NoPromotions(RemoveAt(q, i))
<1>1. PICK S, t : q \in Seq(S) /\ t = RemoveAt(q, i)
  BY QueueIsSeq
<1>2. \A j \in DOMAIN t : \E k \in DOMAIN q : t[j] = q[k]
  BY <1>1, RestParts
<1>3. NoPromotions(t)
  BY <1>2 DEF NoPromotions
<1> QED
  BY <1>1, <1>3

-------------------------------------------------------------------------------
(* Frames, where there is one procedure. *)

(* A frame that is not at work, or at work on top, and has no promotions.   *)
FrameOne(g, r, f) == NoPromotions(f.queue) /\ FrameStands(g, r, f)

(* The frames below the top are not at work, so that they fit any graph.    *)
LEMMA FramesBelow ==
  ASSUME RangesInv, Scanning, NEW g, NEW r, FramesOne(g, r, frames),
         NEW h, NEW t, NEW f, FrameOne(h, t, f)
  PROVE  /\ FramesOne(h, t, SetTop(f))
         /\ \A e : f.block = None /\ e.block = None /\ NoPromotions(e.queue)
               => FramesOne(h, t, Append(SetTop(f), e))
         /\ SetTop(f) # <<>> /\ \A e : Append(SetTop(f), e) # <<>>
<1> SUFFICES ASSUME NEW e
             PROVE  /\ FramesOne(h, t, SetTop(f))
                    /\ f.block = None /\ e.block = None /\ NoPromotions(e.queue)
                       => FramesOne(h, t, Append(SetTop(f), e))
                    /\ SetTop(f) # <<>> /\ Append(SetTop(f), e) # <<>>
  BY Zenon
<1>1. PICK s, n, u, v : /\ s = frames /\ n = Len(s) /\ IsStack(s) /\ s # <<>>
                        /\ u = [s EXCEPT ![n] = f] /\ v = Append(u, e)
  BY DEF RangesInv, Scanning
<1>2. u = SetTop(f)
  BY <1>1 DEF SetTop
<1>3. /\ n \in DOMAIN s /\ DOMAIN u = DOMAIN s /\ u[n] = f
      /\ \A m \in DOMAIN s : m # n => u[m] = s[m]
      /\ \A m \in DOMAIN u : m \in DOMAIN v /\ v[m] = u[m]
      /\ \A m \in DOMAIN v : v[m] = e \/ m \in DOMAIN u
      /\ \E m \in DOMAIN v : v[m] = e
  BY <1>1, StackParts
<1>4. n \in Nat /\ DOMAIN s = 1 .. n
  <2>1. PICK S : s \in Seq(S)
    BY <1>1 DEF IsStack
  <2> QED
    BY <1>1, <2>1, SeqParts
<1>5. FramesOne(g, r, s)
  BY <1>1
<1>6. ASSUME NEW m \in DOMAIN s, m # n
      PROVE  s[m].block = None /\ NoPromotions(s[m].queue)
  <2>1. ~(n <= m)
    BY <1>4, <1>6
  <2> QED
    BY <1>3, <1>5, <2>1 DEF FramesOne
<1>7. ASSUME NEW m \in DOMAIN u
      PROVE  /\ NoPromotions(u[m].queue) /\ FrameStands(h, t, u[m])
             /\ u[m].block # None => \A l \in DOMAIN u : l <= m
             /\ f.block = None => u[m].block = None
  <2>1. CASE m = n
    BY <1>3, <1>4, <2>1 DEF FrameOne
  <2>2. CASE m # n
    <3>1. u[m] = s[m] /\ s[m].block = None /\ NoPromotions(s[m].queue)
      BY <1>3, <1>6, <1>7, <2>2
    <3> QED
      BY <3>1 DEF FrameStands
  <2> QED
    BY <2>1, <2>2
<1>8. FramesOne(h, t, u)
  BY <1>7 DEF FramesOne
<1>9. ASSUME f.block = None, e.block = None, NoPromotions(e.queue)
      PROVE  FramesOne(h, t, v)
  <2>1. ASSUME NEW m \in DOMAIN v
        PROVE  v[m].block = None /\ NoPromotions(v[m].queue)
    BY <1>3, <1>7, <1>9
  <2> QED
    BY <2>1 DEF FramesOne, FrameStands
<1>10. u # <<>> /\ v # <<>>
  <2>1. DOMAIN u # {} /\ DOMAIN v # {}
    BY <1>3
  <2> QED
    BY <2>1
<1> QED
  BY <1>1, <1>2, <1>8, <1>9, <1>10

(* The frame on top.                                                        *)
LEMMA TopOne ==
  ASSUME RangesInv, Scanning, NEW g, NEW r, FramesOne(g, r, frames)
  PROVE  FrameOne(g, r, Top) /\ IsQueue(Top.queue)
<1>1. PICK S : frames \in Seq(S)
  BY DEF RangesInv, IsStack
<1>2. Len(frames) \in DOMAIN frames
  BY <1>1, SeqParts DEF Scanning
<1> QED
  BY <1>2, TopIsFrame DEF FramesOne, FrameOne, Top, IsFrame

-------------------------------------------------------------------------------
(* What an instruction makes, where there is one procedure. *)

(* A sound result, of which the visited procedure is the only one.          *)
Alone(g, r, items, p) ==
    /\ Sound(g, r, items, p)
    /\ DOMAIN g.procs = {p}
    /\ AllTidy(g, r)
    /\ NoPromotions(items)
    /\ p \in visited
    /\ visited \subseteq DOMAIN r

OneNow == OnlyOne(program) /\ OneFits(program, ranges, frames, visited)

(* Other graphs with the same procedures and statements will do.            *)
LEMMA AloneSame ==
  ASSUME NEW g, NEW r, NEW q, NEW p, Alone(g, r, q, p),
         NEW h, Sound(h, r, q, p), SameNodes(g, h), SameStms(g, h)
  PROVE  /\ Alone(h, r, q, p)
         /\ \A b, x, a : Reads(g, r, b, x, a) => Reads(h, r, b, x, a)
<1>1. RangesFit(g, r) /\ AllTidy(g, r)
  BY DEF Alone, Sound
<1>2. AllTidy(h, r) /\ \A b, x, a : Reads(g, r, b, x, a) => Reads(h, r, b, x, a)
  BY <1>1, SameTidy
<1>3. h.procs = g.procs
  BY DEF SameNodes
<1> QED
  BY <1>2, <1>3 DEF Alone

(* An edge is added,                                                        *)
LEMMA AloneEdge ==
  ASSUME NEW g, NEW r, NEW q, NEW p, Alone(g, r, q, p),
         NEW from \in DOMAIN g.heap, g.heap[from].role \in Inner,
         NEW to \in DOMAIN g.heap, g.heap[to].role \in Inner, NEW h
  PROVE  h = EnsureEdge(g, from, to) \/ h = AddEdge(g, from, to) =>
         /\ Alone(h, r, q, p) /\ Grows(g, h) /\ SameStms(g, h)
         /\ \A b, x, a : Reads(g, r, b, x, a) => Reads(h, r, b, x, a)
<1>h. HAVE h = EnsureEdge(g, from, to) \/ h = AddEdge(g, from, to)
<1>1. Sound(g, r, q, p)
  BY DEF Alone
<1>2. /\ Sound(h, r, q, p) /\ Grows(g, h) /\ SameNodes(g, h)
      /\ \A c \in DOMAIN g.heap : h.heap[c].stms = g.heap[c].stms
  BY <1>h, <1>1, SoundEnsureEdge
<1>3. SameStms(g, h)
  BY <1>2 DEF SameStms
<1> QED
  BY <1>2, <1>3, AloneSame

(* or a jump made.                                                          *)
LEMMA AloneJump ==
  ASSUME NEW g, NEW r, NEW q, NEW p, Alone(g, r, q, p),
         NEW src \in Int, NEW dest \in Addresses, NEW j
  PROVE  j = EnqueueJumpTarget(g, r, src, dest, p) =>
         /\ Alone(j.g, j.ranges, q \o j.items, p) /\ Grows(g, j.g)
         /\ IsTarget(j.g, j.block)
         /\ \A x \in Positions : PlaceOf(g, r, x, p) => PlaceOf(j.g, j.ranges, x, p)
         /\ dest \in DOMAIN j.ranges /\ j.ranges[dest].block = j.block
         /\ \A b, x, a : Reads(g, r, b, x, a) => Reads(j.g, j.ranges, b, x, a)
<1>h. HAVE j = EnqueueJumpTarget(g, r, src, dest, p)
<1>1. /\ Sound(g, r, q, p) /\ AllTidy(g, r) /\ DOMAIN g.procs = {p} /\ NoPromotions(q)
      /\ p \in visited /\ visited \subseteq DOMAIN r
  BY DEF Alone
<1>2. /\ Sound(j.g, j.ranges, q \o j.items, p) /\ Grows(g, j.g)
      /\ IsTarget(j.g, j.block)
      /\ \A x \in Positions : PlaceOf(g, r, x, p) => PlaceOf(j.g, j.ranges, x, p)
  BY <1>h, <1>1, SoundJump
<1>3. Well(g, Settled) /\ GoodRanges(r) /\ RangesFit(g, r) /\ Entered(g, p) /\ IsQueue(q)
  BY <1>1 DEF Sound
<1>4. /\ DOMAIN j.g.procs = {p}
      /\ AllTidy(j.g, j.ranges)
      /\ NoPromotions(j.items)
      /\ DOMAIN j.ranges = DOMAIN r \cup {dest}
      /\ j.ranges[dest].block = j.block
      /\ \A b, x, a : Reads(g, r, b, x, a) => Reads(j.g, j.ranges, b, x, a)
  BY <1>h, <1>1, <1>3, JumpTidy
<1>5. IsQueue(j.items)
  BY <1>h, <1>3, JumpKeeps
<1>6. NoPromotions(q \o j.items)
  BY <1>1, <1>3, <1>4, <1>5, NoPromotionsJoin
<1>7. Alone(j.g, j.ranges, q \o j.items, p)
  BY <1>1, <1>2, <1>4, <1>6 DEF Alone
<1> QED
  BY <1>2, <1>4, <1>7

(* A statement behind the others keeps them tidy, if it is in the range or  *)
(* a goto.                                                                  *)
LEMMA AppendTidy ==
  ASSUME NEW s \in Seq(StmSet), NEW a \in Int, NEW x \in Int, NEW end \in Int,
         InOrder(s), Starting(s, a), a <= x, Under(s, x), Under(s, end),
         NEW kind \in Kinds, NEW to \in Addresses \cup {None},
         x < end \/ kind = "goto", NEW t, t = Append(s, Stm(x, kind, to))
  PROVE  /\ Tidy(t, a, end)
         /\ \A y \in Int : x < y => Under(t, y)
<1>1. PICK e : e = Stm(x, kind, to) /\ e \in StmSet /\ e.addr = x /\ e.kind = kind
  BY DEF Stm, StmSet
<1>2. PICK n : n = Len(s) /\ n \in Nat /\ DOMAIN s = 1 .. n
  BY SeqParts
<1>3. \A i \in DOMAIN s : s[i].addr \in Int
  <2>1. \A i \in DOMAIN s : s[i] \in StmSet
    BY SeqParts
  <2> QED
    BY <2>1 DEF StmSet
<1>4. /\ Len(t) = n + 1 /\ DOMAIN t = 1 .. n + 1 /\ t[n + 1] = e
      /\ \A i \in 1 .. n : t[i] = s[i]
  BY <1>1, <1>2, AppendParts
<1>5. \A i \in DOMAIN t : i \in DOMAIN s \/ i = n + 1
  BY <1>2, <1>4
<1>6. InOrder(t)
  <2> SUFFICES ASSUME NEW i \in DOMAIN t, NEW j \in DOMAIN t, i < j
               PROVE  t[i].addr <= t[j].addr
    BY DEF InOrder
  <2>1. i \in 1 .. n
    BY <1>2, <1>4
  <2>2. CASE j \in 1 .. n
    BY <1>2, <1>4, <2>1, <2>2 DEF InOrder
  <2>3. CASE j = n + 1
    <3>1. t[i].addr = s[i].addr /\ s[i].addr \in Int /\ s[i].addr < x /\ t[j].addr = x
      BY <1>1, <1>2, <1>3, <1>4, <2>1, <2>3 DEF Under
    <3> QED
      BY <3>1
  <2> QED
    BY <1>2, <1>4, <2>2, <2>3
<1>7. Starting(t, a)
  BY <1>1, <1>2, <1>4, <1>5 DEF Starting
<1>8. Nearly(t, end)
  BY <1>1, <1>2, <1>4, <1>5 DEF Nearly, Under
<1>9. ASSUME NEW y \in Int, x < y
      PROVE  Under(t, y)
  <2> SUFFICES ASSUME NEW i \in DOMAIN t
               PROVE  t[i].addr < y
    BY DEF Under
  <2>1. CASE i \in DOMAIN s
    <3>1. t[i].addr = s[i].addr /\ s[i].addr \in Int /\ s[i].addr < x
      BY <1>2, <1>3, <1>4, <2>1 DEF Under
    <3> QED
      BY <1>9, <3>1
  <2>2. CASE i = n + 1
    BY <1>1, <1>4, <1>9, <2>2
  <2> QED
    BY <1>5, <2>1, <2>2
<1> QED
  BY <1>6, <1>7, <1>8, <1>9 DEF Tidy

(* So a statement may be added where a block is read.                       *)
LEMMA AloneEmit ==
  ASSUME NEW g, NEW r, NEW q, NEW p, Alone(g, r, q, p),
         NEW b \in DOMAIN g.heap, g.heap[b].role = "code",
         NEW x \in Int, NEW a, Reads(g, r, b, x, a),
         NEW kind \in Kinds, NEW to \in Addresses \cup {None},
         x < r[a].end \/ kind = "goto", NEW h
  PROVE  h = Emit(g, b, x, kind, to) =>
         /\ Alone(h, r, q, p) /\ Keeps(g, h) /\ SameNodes(g, h)
         /\ x < r[a].end => \A y \in Int : x < y => Reads(h, r, b, y, a)
<1>h. HAVE h = Emit(g, b, x, kind, to)
<1>1. /\ Sound(g, r, q, p) /\ AllTidy(g, r) /\ DOMAIN g.procs = {p} /\ NoPromotions(q)
      /\ p \in visited /\ visited \subseteq DOMAIN r
  BY DEF Alone
<1>2. Well(g, Settled) /\ GoodRanges(r) /\ RangesFit(g, r)
  BY <1>1 DEF Sound
<1>3. Sound(h, r, q, p) /\ Keeps(g, h) /\ SameNodes(g, h)
  BY <1>h, <1>1, SoundEmit
<1>4. PICK s, t : s = g.heap[b].stms /\ t = h.heap[b].stms
  OBVIOUS
<1>5. /\ t = Append(s, Stm(x, kind, to))
      /\ \A c \in DOMAIN g.heap : c # b => h.heap[c].stms = g.heap[c].stms
  <2>1. MayTell(g, Settled, b)
    BY DEF MayTell
  <2>2. /\ \A c \in DOMAIN g.heap : c # b => h.heap[c].stms = g.heap[c].stms
        /\ h.heap[b].stms = Append(g.heap[b].stms, Stm(x, kind, to))
    <3>1. h = Emit(g, b, x, kind, to) => EmitFits(g, h, b, x, kind, to, Settled)
      BY <1>2, <2>1, EmitMade
    <3> QED
      BY <1>h, <3>1, Zenon DEF EmitFits
  <2> QED
    BY <1>4, <2>2, Zenon
<1> HIDE <1>h
<1>6. PICK end : end = r[a].end
  OBVIOUS
<1>7. a \in DOMAIN r /\ r[a].block = b /\ a <= x /\ Under(s, x) /\ Under(s, end)
  BY <1>4, <1>6 DEF Reads, Stms
<1>8. a \in Int /\ end \in Int
  BY <1>2, <1>6, <1>7, ScannerAssumption DEF GoodRanges, RangesOf, Addresses, Positions, Beyond
<1>9. s \in Seq(StmSet)
  BY <1>2, <1>4, WellParts
<1>10. InOrder(s) /\ Starting(s, a)
  BY <1>1, <1>4, <1>7 DEF AllTidy, Tidy, Stms
<1>11. Tidy(t, a, end) /\ \A y \in Int : x < y => Under(t, y)
  <2>1. x < end \/ kind = "goto"
    BY <1>6
  <2> QED
    BY <1>5, <1>7, <1>8, <1>9, <1>10, <2>1, AppendTidy
<1>12. AllTidy(h, r)
  <2> SUFFICES ASSUME NEW c \in DOMAIN r
               PROVE  Tidy(Stms(h, r[c].block), c, r[c].end)
    BY DEF AllTidy
  <2>1. CASE c = a
    BY <1>4, <1>6, <1>7, <1>11, <2>1 DEF Stms
  <2>2. CASE c # a
    <3>1. r[c].block # b
      BY <1>2, <1>7, <2>2, RangeBlocksDiffer
    <3>2. r[c].block \in DOMAIN g.heap
      BY <1>2 DEF RangesFit
    <3>3. h.heap[r[c].block].stms = g.heap[r[c].block].stms
      BY <1>5, <3>1, <3>2
    <3> QED
      BY <1>1, <3>3 DEF AllTidy, Stms
  <2> QED
    BY <2>1, <2>2
<1>13. ASSUME x < end, NEW y \in Int, x < y
       PROVE  Reads(h, r, b, y, a)
  <2>1. a <= y /\ Under(t, y) /\ Under(t, end)
    BY <1>7, <1>8, <1>11, <1>13
  <2> QED
    BY <1>4, <1>6, <1>7, <2>1 DEF Reads, Stms
<1>14. Alone(h, r, q, p)
  BY <1>1, <1>3, <1>12 DEF Alone, SameNodes
<1> QED
  BY <1>3, <1>6, <1>13, <1>14

(* A block that ends at x + 1 and was read up to x is tidy.                 *)
LEMMA CutTidy ==
  ASSUME NEW s \in Seq(StmSet), NEW a, NEW end, Tidy(s, a, end),
         NEW x \in Int, Under(s, x)
  PROVE  Tidy(s, a, x + 1) /\ Under(s, x + 1)
<1>1. ASSUME NEW i \in DOMAIN s PROVE s[i].addr < x + 1
  <2>1. s[i].addr \in Int
    <3>1. s[i] \in StmSet
      BY SeqParts
    <3> QED
      BY <3>1 DEF StmSet
  <2> QED
    BY <2>1 DEF Under
<1> QED
  BY <1>1 DEF Tidy, Nearly, Under

(* Terminating after x leaves the ranges as they are, or cuts the one that  *)
(* holds x.                                                                 *)
LEMMA TerminateIs ==
  ASSUME NEW r, GoodRanges(r), NEW x \in Addresses, NEW a, Holds(r, x, a), NEW t
  PROVE  t = TerminateBlock(r, x + 1) =>
         \/ t = r
         \/ /\ DOMAIN t = DOMAIN r
            /\ t[a].block = r[a].block /\ t[a].end = x + 1
            /\ \A c \in DOMAIN r : c # a => t[c] = r[c]
<1>h. HAVE t = TerminateBlock(r, x + 1)
<1> USE <1>h
<1>1. /\ x \in Int /\ x + 1 \in Positions /\ x + 1 \in Int
      /\ DOMAIN r \subseteq Int /\ RangesOf(r) /\ Disjoint(r)
  BY ScannerAssumption DEF GoodRanges, RangesOf, Addresses, Positions, Beyond
<1>2. a \in DOMAIN r /\ a <= x /\ x < r[a].end /\ a \in Int /\ r[a].end \in Int
  BY <1>1, ScannerAssumption DEF Holds, RangesOf, Positions, Beyond
<1>3. CASE AtOrBelow(r, x + 1) = {} \/ x + 1 \in DOMAIN r
  BY <1>3 DEF TerminateBlock
<1>4. CASE ~(AtOrBelow(r, x + 1) = {} \/ x + 1 \in DOMAIN r)
  <2>1. PICK low \in DOMAIN r : /\ low = Max(AtOrBelow(r, x + 1)) /\ low <= x + 1
                                /\ \A c \in DOMAIN r : c <= x + 1 => c <= low
    BY <1>1, <1>4, Nearest DEF GoodRanges
  <2>2. t = [r EXCEPT ![low].end = x + 1]
    BY <1>4, <2>1 DEF TerminateBlock
  <2> HIDE <1>h
  <2>3. low = a
    <3>1. low \in Int /\ low # x + 1 /\ a <= low
      BY <1>1, <1>2, <1>4, <2>1
    <3>2. a < low => r[a].end <= low
      BY <1>1, <1>2, <2>1 DEF Disjoint
    <3> QED
      BY <1>1, <1>2, <2>1, <3>1, <3>2
  <2>4. PICK c, d : r[a] = [block |-> c, end |-> d]
    BY <1>1, <1>2 DEF RangesOf
  <2>5. /\ DOMAIN t = DOMAIN r /\ t[a] = [r[a] EXCEPT !.end = x + 1]
        /\ \A b \in DOMAIN r : b # a => t[b] = r[b]
    BY <1>2, <2>2, <2>3
  <2>6. t[a].block = r[a].block /\ t[a].end = x + 1
    BY <2>4, <2>5
  <2> QED
    BY <2>5, <2>6
<1> QED
  BY <1>3, <1>4

(* Where the block that is read stands.                                     *)
LEMMA AloneAtWork ==
  ASSUME RangesInv, GraphInv, OneNow, Scanning, BlockCur # None
  PROVE  /\ Alone(program, ranges, <<>>, ProcCur)
         /\ \E a : /\ Reads(program, ranges, BlockCur, Pos, a)
                   /\ Top.callee # None => Pos < ranges[a].end
<1>1. /\ Sound(program, ranges, <<>>, ProcCur) /\ ProcCur \in DOMAIN program.procs
  BY AtWork
<1>2. /\ OnlyOne(program) /\ AllTidy(program, ranges) /\ visited \subseteq DOMAIN ranges
      /\ FramesOne(program, ranges, frames)
      /\ DOMAIN ranges # {} => DOMAIN program.procs \subseteq visited
  BY DEF OneNow, OneFits
<1>3. FrameOne(program, ranges, Top)
  BY <1>2, TopOne
<1>4. PICK a : /\ Reads(program, ranges, BlockCur, Pos, a)
               /\ Top.callee # None => Pos < ranges[a].end
  BY <1>3 DEF FrameOne, FrameStands, BlockCur, Pos
<1>5. ProcCur \in visited
  BY <1>1, <1>2, <1>4 DEF Reads
<1>6. DOMAIN program.procs = {ProcCur}
  BY <1>1, <1>2 DEF OnlyOne
<1>7. NoPromotions(<<>>)
  BY DEF NoPromotions
<1> QED
  BY <1>1, <1>2, <1>4, <1>5, <1>6, <1>7 DEF Alone

(* Before an instruction that is in its block.                              *)
LEMMA AloneWithin ==
  ASSUME RangesInv, GraphInv, OneNow, Parsing, Within
  PROVE  /\ Alone(program, ranges, <<>>, ProcCur)
         /\ \E a : /\ Reads(program, ranges, BlockCur, Pos, a)
                   /\ Holds(ranges, Pos, a)
<1>1. Scanning /\ BlockCur # None /\ Pos \in Addresses
  BY WithinIsAddress DEF Parsing
<1>2. Alone(program, ranges, <<>>, ProcCur)
  BY <1>1, AloneAtWork
<1>3. PICK a : Reads(program, ranges, BlockCur, Pos, a)
  BY <1>1, AloneAtWork
<1>4. GoodRanges(ranges) /\ RangesFit(program, ranges) /\ Pos \in Positions
  BY <1>1, <1>2, ScannerAssumption DEF Alone, Sound, Addresses, Positions, Beyond
<1>5. FindContainingBlock(ranges, Pos) = BlockCur /\ InRange(ranges, Pos)
  BY <1>1 DEF Within, FindContainingBlock
<1>6. PICK c : Holds(ranges, Pos, c) /\ FindContainingBlock(ranges, Pos) = ranges[c].block
  BY <1>4, <1>5, Held
<1>7. a \in DOMAIN ranges /\ c \in DOMAIN ranges /\ ranges[a].block = ranges[c].block
  BY <1>3, <1>5, <1>6 DEF Reads, Holds
<1>8. a = c
  BY <1>4, <1>7, RangeBlocksDiffer
<1> QED
  BY <1>2, <1>3, <1>6, <1>8

(* And when its block is cut behind it.                                     *)
LEMMA AloneAtFirst ==
  ASSUME RangesInv, GraphInv, OneNow, Parsing, Within, NEW r
  PROVE  r = TerminateBlock(ranges, Pos + 1) =>
         /\ Alone(program, r, <<>>, ProcCur) /\ PlaceOf(program, r, Pos, ProcCur)
         /\ \E a : Reads(program, r, BlockCur, Pos, a) /\ Pos < r[a].end
<1>h. HAVE r = TerminateBlock(ranges, Pos + 1)
<1>1. Sound(program, r, <<>>, ProcCur) /\ PlaceOf(program, r, Pos, ProcCur)
  BY <1>h, PlaceAtFirst
<1>2. Alone(program, ranges, <<>>, ProcCur)
  BY AloneWithin
<1>3. PICK a : Reads(program, ranges, BlockCur, Pos, a) /\ Holds(ranges, Pos, a)
  BY AloneWithin
<1>4. /\ GoodRanges(ranges) /\ RangesFit(program, ranges) /\ AllTidy(program, ranges)
      /\ Well(program, Settled)
  BY <1>2 DEF Alone, Sound
<1>5. Pos \in Addresses /\ Pos \in Int
  BY WithinIsAddress, ScannerAssumption DEF Addresses
<1>6. \/ r = ranges
      \/ /\ DOMAIN r = DOMAIN ranges
         /\ r[a].block = ranges[a].block /\ r[a].end = Pos + 1
         /\ \A c \in DOMAIN ranges : c # a => r[c] = ranges[c]
  BY <1>h, <1>3, <1>4, <1>5, TerminateIs
<1>7. CASE r = ranges
  BY <1>1, <1>2, <1>3, <1>7 DEF Holds
<1>8. CASE /\ DOMAIN r = DOMAIN ranges
           /\ r[a].block = ranges[a].block /\ r[a].end = Pos + 1
           /\ \A c \in DOMAIN ranges : c # a => r[c] = ranges[c]
  <2>1. PICK s : s = Stms(program, BlockCur)
    OBVIOUS
  <2>2. a \in DOMAIN ranges /\ ranges[a].block = BlockCur /\ a <= Pos /\ Under(s, Pos)
    BY <1>3, <2>1 DEF Reads
  <2>3. s \in Seq(StmSet)
    <3>1. BlockCur \in DOMAIN program.heap
      BY <1>4, <2>2 DEF RangesFit
    <3> QED
      BY <1>4, <2>1, <3>1, WellParts DEF Stms
  <2>4. Tidy(s, a, ranges[a].end)
    BY <1>4, <2>1, <2>2 DEF AllTidy
  <2>5. Tidy(s, a, Pos + 1) /\ Under(s, Pos + 1)
    BY <1>5, <2>2, <2>3, <2>4, CutTidy
  <2>6. AllTidy(program, r)
    <3> SUFFICES ASSUME NEW c \in DOMAIN r
                 PROVE  Tidy(Stms(program, r[c].block), c, r[c].end)
      BY DEF AllTidy
    <3>1. CASE c = a
      BY <1>8, <2>1, <2>2, <2>5, <3>1
    <3>2. CASE c # a
      BY <1>4, <1>8, <3>2 DEF AllTidy
    <3> QED
      BY <3>1, <3>2
  <2>7. Alone(program, r, <<>>, ProcCur)
    BY <1>1, <1>2, <1>8, <2>6 DEF Alone
  <2>8. Reads(program, r, BlockCur, Pos, a) /\ Pos < r[a].end
    BY <1>5, <1>8, <2>1, <2>2, <2>5 DEF Reads
  <2> QED
    BY <1>1, <2>7, <2>8
<1> QED
  BY <1>6, <1>7, <1>8

(* A step that leaves its block.                                            *)
LEMMA AloneLeave ==
  ASSUME RangesInv, OneNow, Scanning, NEW g, NEW r, NEW items, NEW p,
         Alone(g, r, items, p), LeaveBlock(g, r, items), UNCHANGED visited
  PROVE  OneKept
<1>1. /\ IsQueue(items) /\ NoPromotions(items) /\ AllTidy(g, r) /\ DOMAIN g.procs = {p}
      /\ p \in visited /\ visited \subseteq DOMAIN r
  BY DEF Alone, Sound
<1>2. FramesOne(program, ranges, frames)
  BY DEF OneNow, OneFits
<1>3. FrameOne(program, ranges, Top) /\ IsQueue(Top.queue)
  BY <1>2, TopOne
<1>4. NoPromotions(Top.queue \o items)
  BY <1>1, <1>3, NoPromotionsJoin DEF FrameOne
<1>5. PICK f : f = Frame(Top.proc, Top.queue \o items)
  OBVIOUS
<1>6. f.block = None /\ f.queue = Top.queue \o items
  BY <1>5, Zenon DEF Frame
<1>7. FrameOne(g, r, f)
  BY <1>4, <1>6 DEF FrameOne, FrameStands
<1>8. FramesOne(g, r, SetTop(f)) /\ SetTop(f) # <<>>
  BY <1>2, <1>7, FramesBelow
<1>9. program' = g /\ ranges' = r /\ frames' = SetTop(f) /\ visited' = visited
  BY <1>5 DEF LeaveBlock
<1> QED
  BY <1>1, <1>8, <1>9 DEF OneKept, OneFits

(* A step after which a block is read on.                                   *)
LEMMA AloneStay ==
  ASSUME RangesInv, OneNow, Scanning, NEW g, NEW r, NEW items, NEW p,
         Alone(g, r, items, p), NEW b, NEW next, NEW a, Reads(g, r, b, next, a),
         program' = g, ranges' = r, UNCHANGED visited
  PROVE  frames' = SetTop([Frame(Top.proc, Top.queue \o items) EXCEPT
                              !.block = b, !.addr = next]) =>
         OneKept
<1>h. HAVE frames' = SetTop([Frame(Top.proc, Top.queue \o items) EXCEPT
                                !.block = b, !.addr = next])
<1>1. /\ IsQueue(items) /\ NoPromotions(items) /\ AllTidy(g, r) /\ DOMAIN g.procs = {p}
      /\ p \in visited /\ visited \subseteq DOMAIN r
  BY DEF Alone, Sound
<1>2. FramesOne(program, ranges, frames)
  BY DEF OneNow, OneFits
<1>3. FrameOne(program, ranges, Top) /\ IsQueue(Top.queue)
  BY <1>2, TopOne
<1>4. NoPromotions(Top.queue \o items)
  BY <1>1, <1>3, NoPromotionsJoin DEF FrameOne
<1>5. PICK q, f : q = Top.queue \o items /\ f = [Frame(Top.proc, q) EXCEPT !.block = b, !.addr = next]
  OBVIOUS
<1>6. f.block = b /\ f.addr = next /\ f.queue = q /\ f.callee = None
  BY <1>5 DEF Frame
<1>7. FrameOne(g, r, f)
  BY <1>4, <1>5, <1>6 DEF FrameOne, FrameStands
<1>8. FramesOne(g, r, SetTop(f)) /\ SetTop(f) # <<>>
  BY <1>2, <1>7, FramesBelow
<1>9. frames' = SetTop(f)
  BY <1>h, <1>5
<1> QED
  BY <1>1, <1>8, <1>9 DEF OneKept, OneFits

(* What follows an instruction: there is no other procedure to fall into.   *)
LEMMA AloneGoOn ==
  ASSUME RangesInv, OneNow, Scanning, Pos \in Int,
         NEW g, NEW r, NEW items, NEW p, Alone(g, r, items, p),
         NEW b \in DOMAIN g.heap, g.heap[b].role = "code",
         NEW next \in Positions, NEW a, Reads(g, r, b, next, a), UNCHANGED visited
  PROVE  GoOn(g, r, b, next, items) => OneKept
<1>h. HAVE GoOn(g, r, b, next, items)
<1>1. DOMAIN g.procs = {p} /\ Well(g, Settled) /\ GoodRanges(r)
  BY DEF Alone, Sound
<1>2. g.heap[b].proc = p /\ next \notin DOMAIN g.procs \ {p}
  BY <1>1, WellParts
<1>3. CASE InRange(r, next) /\ FindContainingBlock(r, next) # b
  <2>1. PICK jump, k : /\ jump = EnqueueJumpTarget(g, r, Pos, next, p)
                       /\ k = EnsureEdge(jump.g, b, jump.block)
                       /\ LeaveBlock(k, jump.ranges, items \o jump.items)
    BY <1>h, <1>2, <1>3 DEF GoOn
  <2>2. next \in Addresses
    <3>1. RangesOf(r) /\ AtOrBelow(r, next) # {} /\ next < r[Max(AtOrBelow(r, next))].end
      BY <1>1, <1>3 DEF InRange, GoodRanges
    <3>2. PICK low \in DOMAIN r : low = Max(AtOrBelow(r, next))
      BY <3>1, Nearest
    <3>3. next < r[low].end /\ r[low].end \in Positions
      BY <3>1, <3>2 DEF RangesOf
    <3> QED
      BY <3>3, ScannerAssumption DEF Positions, Addresses, Beyond
  <2>3. /\ Alone(jump.g, jump.ranges, items \o jump.items, p) /\ Grows(g, jump.g)
        /\ IsTarget(jump.g, jump.block)
    BY <2>1, <2>2, AloneJump
  <2>4. PICK h, s, q, c : h = jump.g /\ s = jump.ranges /\ q = items \o jump.items /\ c = jump.block
    OBVIOUS
  <2>5. /\ Alone(h, s, q, p) /\ Grows(g, h) /\ c \in DOMAIN h.heap /\ h.heap[c].role \in Inner
        /\ k = EnsureEdge(h, b, c) /\ LeaveBlock(k, s, q)
    BY <2>1, <2>3, <2>4 DEF IsTarget
  <2>6. b \in DOMAIN h.heap /\ h.heap[b].role \in Inner
    BY <2>5, InnerStays DEF Inner
  <2>7. Alone(k, s, q, p)
    BY <2>5, <2>6, AloneEdge
  <2> QED
    BY <2>5, <2>7, AloneLeave
<1>4. CASE ~(InRange(r, next) /\ FindContainingBlock(r, next) # b)
  <2>1. /\ program' = g /\ ranges' = r
        /\ frames' = SetTop([Frame(Top.proc, Top.queue \o items) EXCEPT
                                !.block = b, !.addr = next])
    BY <1>h, <1>2, <1>4 DEF GoOn
  <2> QED
    BY <2>1, AloneStay
<1> QED
  BY <1>3, <1>4

(* Step: an instruction that does not transfer control is read.            *)
LEMMA LinearOne ==
  ASSUME RangesInv, GraphInv, OneNow, Parsing, Within, NEW i \in InstructionsAt(Pos)
  PROVE  Linear(i) => OneKept
<1>h. HAVE Linear(i)
<1>1. /\ Scanning /\ BlockCur # None /\ Pos \in Addresses /\ Pos \in Int
      /\ Pos + i.length \in Positions /\ i.length \in Int /\ 0 < i.length
  <2>1. Scanning /\ BlockCur # None /\ Pos \in Addresses
    BY WithinIsAddress DEF Parsing
  <2>2. i.length \in Int /\ 0 < i.length
    BY ScannerAssumption DEF InstructionsAt, Lengths
  <2> QED
    BY <2>1, <2>2, InstructionTypes, ScannerAssumption DEF Addresses
<1>2. PICK g : /\ g = (IF i.op = "nop" THEN program ELSE Emit(program, BlockCur, Pos, "op", None))
               /\ GoOn(g, ranges, BlockCur, Pos + i.length, <<>>)
               /\ UNCHANGED visited
  BY <1>h DEF Linear
<1>3. /\ BlockCur \in DOMAIN program.heap /\ program.heap[BlockCur].role = "code"
      /\ Alone(program, ranges, <<>>, ProcCur)
  BY <1>1, AtWork, AloneWithin
<1>4. PICK a : /\ Reads(program, ranges, BlockCur, Pos, a) /\ Holds(ranges, Pos, a)
  BY AloneWithin
<1>5. PICK next : next = Pos + i.length /\ next \in Int /\ Pos < next
  BY <1>1
<1>6. /\ Alone(g, ranges, <<>>, ProcCur) /\ Keeps(program, g)
      /\ Reads(g, ranges, BlockCur, next, a)
  <2>1. CASE i.op = "nop"
    <3>1. g = program
      BY <1>2, <2>1
    <3>2. PICK s : s = Stms(program, BlockCur)
      OBVIOUS
    <3>3. s \in Seq(StmSet)
      BY <1>3, <3>2, WellParts DEF Alone, Sound, Stms
    <3>4. Under(s, Pos) /\ a <= Pos /\ a \in Int
      BY <1>1, <1>3, <1>4, <3>2, ScannerAssumption
         DEF Reads, Alone, Sound, GoodRanges, RangesOf, Addresses
    <3>5. \A j \in DOMAIN s : s[j].addr \in Int
      <4>1. \A j \in DOMAIN s : s[j] \in StmSet
        BY <3>3, SeqParts
      <4> QED
        BY <4>1 DEF StmSet
    <3>6. Under(s, next) /\ a <= next
      BY <1>1, <1>5, <3>4, <3>5 DEF Under
    <3>7. Reads(program, ranges, BlockCur, next, a)
      BY <1>4, <3>2, <3>6 DEF Reads
    <3>8. Keeps(program, program)
      BY GrowsReflexive
    <3> QED
      BY <1>3, <3>1, <3>7, <3>8
  <2>2. CASE i.op # "nop"
    <3>1. g = Emit(program, BlockCur, Pos, "op", None)
      BY <1>2, <2>2
    <3>2. "op" \in Kinds /\ None \in Addresses \cup {None}
      BY DEF Kinds
    <3>3. Pos < ranges[a].end /\ Reads(program, ranges, BlockCur, Pos, a)
      BY <1>4 DEF Holds
    <3>4. /\ Alone(g, ranges, <<>>, ProcCur) /\ Keeps(program, g)
          /\ \A y \in Int : Pos < y => Reads(g, ranges, BlockCur, y, a)
      BY <1>1, <1>3, <3>1, <3>2, <3>3, AloneEmit
    <3> QED
      BY <1>5, <3>4
  <2> QED
    BY <2>1, <2>2
<1>7. BlockCur \in DOMAIN g.heap /\ g.heap[BlockCur].role = "code"
  BY <1>3, <1>6, InnerStays DEF Keeps
<1>8. GoOn(g, ranges, BlockCur, next, <<>>) /\ UNCHANGED visited /\ next \in Positions
  BY <1>1, <1>2, <1>5
<1> QED
  BY <1>1, <1>6, <1>7, <1>8, AloneGoOn

(* Step: an instruction after which nothing runs is read.                  *)
LEMMA StopOne ==
  ASSUME RangesInv, GraphInv, OneNow, Parsing, Within, NEW i
  PROVE  Stop(i) => OneKept
<1>h. HAVE Stop(i)
<1>1. Scanning /\ BlockCur # None /\ Pos \in Addresses /\ Pos \in Int
  <2>1. Scanning /\ BlockCur # None /\ Pos \in Addresses
    BY WithinIsAddress DEF Parsing
  <2> QED
    BY <2>1, ScannerAssumption DEF Addresses
<1>2. PICK r : r = TerminateBlock(ranges, Pos + 1)
  OBVIOUS
<1>3. PICK exit : exit = ProcOf(program, BlockCur).exit
  OBVIOUS
<1>10. PICK m : m = Emit(program, BlockCur, Pos, "return", None)
  OBVIOUS
<1>4. /\ UNCHANGED visited
      /\ \/ LeaveBlock(program, ranges, <<>>)
         \/ LeaveBlock(Emit(program, BlockCur, Pos, "op", None), r, <<>>)
         \/ LeaveBlock(AddEdge(m, BlockCur, exit), r, <<>>)
  <2>1. CASE i.op = "invalid"
    BY <1>h, <2>1 DEF Stop
  <2>2. CASE i.op = "halt"
    BY <1>h, <1>2, <2>2 DEF Stop
  <2>3. CASE i.op = "return"
    BY <1>h, <1>2, <1>3, <1>10, <2>3 DEF Stop
  <2> QED
    BY <1>h, <2>1, <2>2, <2>3 DEF Stop
<1>5. /\ BlockCur \in DOMAIN program.heap /\ program.heap[BlockCur].role = "code"
      /\ ProcCur \in DOMAIN program.procs
      /\ Alone(program, ranges, <<>>, ProcCur) /\ Alone(program, r, <<>>, ProcCur)
  BY <1>1, <1>2, AtWork, AloneWithin, AloneAtFirst
<1>6. PICK a : Reads(program, r, BlockCur, Pos, a) /\ Pos < r[a].end
  BY <1>2, AloneAtFirst
<1>7. "op" \in Kinds /\ "return" \in Kinds /\ None \in Addresses \cup {None}
  BY DEF Kinds
<1>8. CASE LeaveBlock(program, ranges, <<>>)
  BY <1>1, <1>4, <1>5, <1>8, AloneLeave
<1>9. CASE LeaveBlock(Emit(program, BlockCur, Pos, "op", None), r, <<>>)
  <2>1. PICK g : g = Emit(program, BlockCur, Pos, "op", None)
    OBVIOUS
  <2>2. Alone(g, r, <<>>, ProcCur)
    BY <1>1, <1>5, <1>6, <1>7, <2>1, AloneEmit
  <2>3. LeaveBlock(g, r, <<>>)
    BY <1>9, <2>1
  <2> QED
    BY <1>1, <1>4, <2>2, <2>3, AloneLeave
<1>11. CASE LeaveBlock(AddEdge(m, BlockCur, exit), r, <<>>)
  <2>1. PICK g : g = AddEdge(m, BlockCur, exit)
    OBVIOUS
  <2>2. Alone(m, r, <<>>, ProcCur) /\ Keeps(program, m) /\ SameNodes(program, m)
    BY <1>1, <1>5, <1>6, <1>7, <1>10, AloneEmit
  <2>3. BlockCur \in DOMAIN m.heap /\ m.heap[BlockCur].role = "code"
    BY <1>5, <2>2, InnerStays DEF Keeps
  <2>4. exit \in DOMAIN program.heap /\ program.heap[exit].role = "exit"
    BY <1>3, <1>5 DEF Alone, Sound, Well, ProcsFit, ProcOf, ProcCur
  <2>5. exit \in Ends(m)
    BY <2>2, <2>4 DEF Keeps, Grows, Ends
  <2>6. Well(m, Settled) /\ Sound(m, r, <<>>, ProcCur)
    BY <2>2 DEF Alone, Sound
  <2>7. /\ Well(g, Settled) /\ Keeps(m, g) /\ SameNodes(m, g)
        /\ \A c \in DOMAIN m.heap : g.heap[c].stms = m.heap[c].stms
    <3>1. m.heap[BlockCur].role # "exit" /\ m.heap[BlockCur].role # "entry"
      BY <2>3
    <3> QED
      BY <2>1, <2>3, <2>5, <2>6, <3>1, AddEdgeKeeps
  <2>8. Sound(g, r, <<>>, ProcCur) /\ SameStms(m, g)
    BY <2>6, <2>7, SoundOn DEF SameStms
  <2>9. Alone(g, r, <<>>, ProcCur)
    BY <2>2, <2>7, <2>8, AloneSame
  <2>10. LeaveBlock(g, r, <<>>)
    BY <1>11, <2>1
  <2> QED
    BY <1>1, <1>4, <2>9, <2>10, AloneLeave
<1> QED
  BY <1>4, <1>8, <1>9, <1>11

(* The first jump of an instruction, which has made no work yet.            *)
LEMMA AloneJumpFirst ==
  ASSUME NEW g, NEW r, NEW p, Alone(g, r, <<>>, p),
         NEW src \in Int, NEW dest \in Addresses, NEW j
  PROVE  j = EnqueueJumpTarget(g, r, src, dest, p) =>
         /\ Alone(j.g, j.ranges, j.items, p) /\ Grows(g, j.g)
         /\ j.block \in DOMAIN j.g.heap /\ j.g.heap[j.block].role \in Inner
         /\ \A x \in Positions : PlaceOf(g, r, x, p) => PlaceOf(j.g, j.ranges, x, p)
         /\ \A b, x, a : Reads(g, r, b, x, a) => Reads(j.g, j.ranges, b, x, a)
<1>h. HAVE j = EnqueueJumpTarget(g, r, src, dest, p)
<1>1. PICK q : q = <<>> /\ Alone(g, r, q, p)
  OBVIOUS
<1>2. /\ Alone(j.g, j.ranges, q \o j.items, p) /\ Grows(g, j.g)
      /\ IsTarget(j.g, j.block)
      /\ \A x \in Positions : PlaceOf(g, r, x, p) => PlaceOf(j.g, j.ranges, x, p)
      /\ \A b, x, a : Reads(g, r, b, x, a) => Reads(j.g, j.ranges, b, x, a)
  BY <1>h, <1>1, AloneJump
<1>3. GoodRanges(r)
  BY <1>1 DEF Alone, Sound
<1>4. IsQueue(j.items)
  BY <1>h, <1>3, JumpKeeps
<1>5. q \o j.items = j.items
  BY <1>1, <1>4, QueueIsSeq, ConcatEmptySeq
<1> QED
  BY <1>2, <1>5 DEF IsTarget

(* Step: a jump is read.                                                   *)
LEMMA GotoOne ==
  ASSUME RangesInv, GraphInv, OneNow, Parsing, Within, NEW i \in InstructionsAt(Pos)
  PROVE  Goto(i) => OneKept
<1>h. HAVE Goto(i)
<1> USE <1>h
<1>1. /\ Scanning /\ BlockCur # None /\ Pos \in Addresses /\ Pos \in Int
      /\ Pos \in Positions /\ i.to \in Addresses
  <2>1. Scanning /\ BlockCur # None /\ Pos \in Addresses
    BY WithinIsAddress DEF Parsing
  <2>2. i.op = "goto"
    BY DEF Goto
  <2> QED
    BY <2>1, <2>2, InstructionTypes, ScannerAssumption DEF Addresses, Positions, Beyond
<1>2. PICK r, p, to : r = TerminateBlock(ranges, Pos + 1) /\ p = ProcCur /\ to = i.to
  OBVIOUS
<1>3. PICK first : first = EnqueueJumpTarget(program, r, Pos, to, p)
  OBVIOUS
<1>4. PICK g : g = EnsureEdge(first.g, FindContainingBlock(first.ranges, Pos), first.block)
  OBVIOUS
<1>5. PICK again : again = IF to = Pos THEN EnqueueJumpTarget(g, first.ranges, Pos, to, p)
                           ELSE Enqueued(g, first.ranges, None, <<>>)
  OBVIOUS
<1>6. PICK h : h = IF to = Pos THEN EnsureEdge(again.g, BlockCur, again.block) ELSE g
  OBVIOUS
<1>7. PICK k : k = Emit(h, BlockCur, Pos, "goto", to)
  BY Zenon
<1>8. LeaveBlock(k, again.ranges, first.items \o again.items) /\ UNCHANGED visited
  BY <1>2, <1>3, <1>4, <1>5, <1>6, <1>7, ZenonT(30) DEF Goto
<1> HIDE <1>h
<1>9. /\ BlockCur \in DOMAIN program.heap /\ program.heap[BlockCur].role = "code"
      /\ Alone(program, r, <<>>, p) /\ PlaceOf(program, r, Pos, p)
      /\ \E a : Reads(program, r, BlockCur, Pos, a)
  BY <1>1, <1>2, AtWork, AloneAtFirst
<1>10. PICK g1, r1, q1, b1 : /\ g1 = first.g /\ r1 = first.ranges
                             /\ q1 = first.items /\ b1 = first.block
  OBVIOUS
<1>11. /\ Alone(g1, r1, q1, p) /\ Grows(program, g1) /\ PlaceOf(g1, r1, Pos, p)
       /\ b1 \in DOMAIN g1.heap /\ g1.heap[b1].role \in Inner
       /\ \E a : Reads(g1, r1, BlockCur, Pos, a)
  <2>1. /\ Alone(first.g, first.ranges, first.items, p) /\ Grows(program, first.g)
        /\ first.block \in DOMAIN first.g.heap /\ first.g.heap[first.block].role \in Inner
        /\ \A x \in Positions :
              PlaceOf(program, r, x, p) => PlaceOf(first.g, first.ranges, x, p)
        /\ \A b, x, a : Reads(program, r, b, x, a) => Reads(first.g, first.ranges, b, x, a)
    <3>1. Alone(program, r, <<>>, p) /\ Pos \in Int /\ to \in Addresses
      BY <1>1, <1>2, <1>9
    <3> QED
      BY <1>3, <3>1, AloneJumpFirst
  <2> QED
    BY <1>1, <1>9, <1>10, <2>1
<1>12. IsQueue(q1)
  BY <1>11 DEF Alone, Sound
<1>15. PICK from : from = FindContainingBlock(r1, Pos)
  OBVIOUS
<1>16. from \in DOMAIN g1.heap /\ g1.heap[from].role \in Inner
  BY <1>1, <1>11, <1>15, PlaceFits DEF Alone, Inner
<1>17. g = EnsureEdge(g1, from, b1)
  BY <1>4, <1>10, <1>15
<1>18. /\ Alone(g, r1, q1, p) /\ Grows(g1, g)
       /\ \E a : Reads(g, r1, BlockCur, Pos, a)
  BY <1>11, <1>16, <1>17, AloneEdge
<1>19. BlockCur \in DOMAIN g.heap /\ g.heap[BlockCur].role = "code"
  BY <1>9, <1>11, <1>18, InnerStays
<1>20. PICK r2, q2 : r2 = again.ranges /\ q2 = again.items
  OBVIOUS
<1>21. /\ Alone(h, r2, q1 \o q2, p)
       /\ BlockCur \in DOMAIN h.heap /\ h.heap[BlockCur].role = "code"
       /\ \E a : Reads(h, r2, BlockCur, Pos, a)
  <2>1. CASE to = Pos
    <3>1. again = EnqueueJumpTarget(g, r1, Pos, to, p)
      BY <1>5, <1>10, <2>1
    <3>2. PICK g2, b2 : g2 = again.g /\ b2 = again.block
      OBVIOUS
    <3>3. /\ Alone(g2, r2, q1 \o q2, p) /\ Grows(g, g2)
          /\ b2 \in DOMAIN g2.heap /\ g2.heap[b2].role \in Inner
          /\ \E a : Reads(g2, r2, BlockCur, Pos, a)
      <4>1. Pos \in Int /\ to \in Addresses
        BY <1>1, <1>2
      <4>2. /\ Alone(again.g, again.ranges, q1 \o again.items, p) /\ Grows(g, again.g)
            /\ IsTarget(again.g, again.block)
            /\ \A b, x, a : Reads(g, r1, b, x, a) => Reads(again.g, again.ranges, b, x, a)
        BY <1>18, <3>1, <4>1, AloneJump
      <4> QED
        BY <1>18, <1>20, <3>2, <4>2 DEF IsTarget
    <3>4. BlockCur \in DOMAIN g2.heap /\ g2.heap[BlockCur].role = "code"
      BY <1>19, <3>3, InnerStays
    <3>5. h = EnsureEdge(g2, BlockCur, b2)
      BY <1>6, <2>1, <3>2
    <3>6. /\ Alone(h, r2, q1 \o q2, p) /\ Grows(g2, h)
          /\ \E a : Reads(h, r2, BlockCur, Pos, a)
      BY <3>3, <3>4, <3>5, AloneEdge DEF Inner
    <3> QED
      BY <3>4, <3>6, InnerStays
  <2>2. CASE to # Pos
    <3>1. again = Enqueued(g, r1, None, <<>>) /\ h = g
      BY <1>5, <1>6, <1>10, <2>2
    <3>2. r2 = r1 /\ q2 = <<>>
      BY <1>20, <3>1, EnqueuedIs
    <3>3. q1 \o q2 = q1
      BY <1>12, <3>2, QueueIsSeq, ConcatEmptySeq
    <3> QED
      BY <1>18, <1>19, <3>1, <3>2, <3>3
  <2> QED
    BY <2>1, <2>2
<1>22. "goto" \in Kinds /\ to \in Addresses \cup {None}
  BY <1>1, <1>2 DEF Kinds
<1>23. Alone(k, r2, q1 \o q2, p)
  <2>1. PICK a : Reads(h, r2, BlockCur, Pos, a)
    BY <1>21
  <2> QED
    BY <1>1, <1>7, <1>21, <1>22, <2>1, AloneEmit
<1>24. LeaveBlock(k, r2, q1 \o q2) /\ UNCHANGED visited
  BY <1>8, <1>10, <1>20
<1> QED
  BY <1>1, <1>23, <1>24, AloneLeave

(* Step: a branch is read.                                                 *)
LEMMA BranchOne ==
  ASSUME RangesInv, GraphInv, OneNow, Parsing, Within, NEW i \in InstructionsAt(Pos)
  PROVE  Branch(i) => OneKept
<1>h. HAVE Branch(i)
<1> USE <1>h
<1>1. /\ Scanning /\ BlockCur # None /\ Pos \in Addresses /\ Pos \in Int
      /\ Pos \in Positions /\ Pos + 1 \in Positions /\ i.to \in Addresses
  <2>1. Scanning /\ BlockCur # None /\ Pos \in Addresses
    BY WithinIsAddress DEF Parsing
  <2>2. i.op = "branch"
    BY DEF Branch
  <2> QED
    BY <2>1, <2>2, InstructionTypes, ScannerAssumption DEF Addresses, Positions, Beyond
<1>2. PICK r, p, to : r = TerminateBlock(ranges, Pos + 1) /\ p = ProcCur /\ to = i.to
  OBVIOUS
<1>11. UNCHANGED visited
  BY DEF Branch
<1>12. PICK then, else, k, h : BranchMakes(to, then, else, k, h) /\ BranchLeaves(then, else, h)
  BY <1>2, BranchIs
<1> HIDE <1>h
<1>3. PICK g : g = Emit(program, BlockCur, Pos, "branch", to)
  OBVIOUS
<1>5. PICK g1, r1, q1, b1 : g1 = then.g /\ r1 = then.ranges /\ q1 = then.items /\ b1 = then.block
  OBVIOUS
<1>7. PICK g2, r2, q2, b2 : g2 = else.g /\ r2 = else.ranges /\ q2 = else.items /\ b2 = else.block
  OBVIOUS
<1>8. PICK from : from = FindContainingBlock(r2, Pos)
  OBVIOUS
<1>4. then = EnqueueJumpTarget(g, r, Pos, to, p)
  BY <1>2, <1>3, <1>12 DEF BranchMakes
<1>6. else = EnqueueJumpTarget(g1, r1, Pos, Pos + 1, p)
  BY <1>2, <1>5, <1>12 DEF BranchMakes
<1>9. k = EnsureEdge(g2, from, b2)
  BY <1>7, <1>8, <1>12 DEF BranchMakes
<1>10. h = IF b2 = b1 THEN AddEdge(k, from, b1) ELSE EnsureEdge(k, from, b1)
  BY <1>5, <1>7, <1>8, <1>12 DEF BranchMakes
<1>31. \/ LeaveBlock(g1, r1, q1)
       \/ Pos + 1 # Beyond /\ LeaveBlock(h, r2, q1 \o q2)
       \/ Pos + 1 # Beyond /\ Stms(h, b2) = <<>> /\ GoOn(h, r2, b2, Pos + 1, q1 \o q2)
  BY <1>5, <1>7, <1>12 DEF BranchLeaves
<1>13. /\ BlockCur \in DOMAIN program.heap /\ program.heap[BlockCur].role = "code"
       /\ Alone(program, r, <<>>, p) /\ PlaceOf(program, r, Pos, p)
  BY <1>1, <1>2, AtWork, AloneAtFirst
<1>21. PICK a : Reads(program, r, BlockCur, Pos, a) /\ Pos < r[a].end
  BY <1>2, AloneAtFirst
<1>14. "branch" \in Kinds /\ to \in Addresses \cup {None}
  BY <1>1, <1>2 DEF Kinds
<1>15. Alone(g, r, <<>>, p) /\ Keeps(program, g)
  BY <1>1, <1>3, <1>13, <1>14, <1>21, AloneEmit
<1>16. PlaceOf(g, r, Pos, p)
  <2>1. PICK c : Holds(r, Pos, c) /\ program.heap[r[c].block].proc = p
    BY <1>13 DEF PlaceOf
  <2>2. r[c].block \in DOMAIN program.heap
    BY <1>13, <2>1 DEF Alone, Sound, RangesFit, Holds
  <2> QED
    BY <1>15, <2>1, <2>2 DEF PlaceOf, Keeps, Stays
<1>17. /\ Alone(g1, r1, q1, p) /\ PlaceOf(g1, r1, Pos, p)
       /\ b1 \in DOMAIN g1.heap /\ g1.heap[b1].role \in Inner
  <2>1. Alone(g, r, <<>>, p) /\ Pos \in Int /\ to \in Addresses
    BY <1>1, <1>2, <1>15
  <2>2. /\ Alone(then.g, then.ranges, then.items, p)
        /\ then.block \in DOMAIN then.g.heap /\ then.g.heap[then.block].role \in Inner
        /\ \A x \in Positions : PlaceOf(g, r, x, p) => PlaceOf(then.g, then.ranges, x, p)
    BY <1>4, <2>1, AloneJumpFirst
  <2> QED
    BY <1>1, <1>5, <1>16, <2>2
<1>18. CASE LeaveBlock(g1, r1, q1)
  BY <1>1, <1>11, <1>17, <1>18, AloneLeave
<1>19. CASE ~LeaveBlock(g1, r1, q1)
  <2>1. Pos + 1 # Beyond /\ Pos + 1 \in Addresses
    BY <1>1, <1>31, <1>19, ScannerAssumption DEF Addresses, Positions, Beyond
  <2>2. /\ Alone(g2, r2, q1 \o q2, p) /\ Grows(g1, g2) /\ PlaceOf(g2, r2, Pos, p)
        /\ IsTarget(g2, b2)
        /\ Pos + 1 \in DOMAIN r2 /\ r2[Pos + 1].block = b2
    <3>1. PICK next : next = Pos + 1
      OBVIOUS
    <3>2. Alone(g1, r1, q1, p) /\ Pos \in Int /\ next \in Addresses
          /\ else = EnqueueJumpTarget(g1, r1, Pos, next, p)
      BY <1>1, <1>6, <1>17, <2>1, <3>1
    <3>3. /\ Alone(else.g, else.ranges, q1 \o else.items, p) /\ Grows(g1, else.g)
          /\ IsTarget(else.g, else.block)
          /\ \A x \in Positions :
                PlaceOf(g1, r1, x, p) => PlaceOf(else.g, else.ranges, x, p)
          /\ next \in DOMAIN else.ranges /\ else.ranges[next].block = else.block
      BY <3>2, AloneJump
    <3> QED
      BY <1>1, <1>7, <1>17, <3>1, <3>3
  <2>3. from \in DOMAIN g2.heap /\ g2.heap[from].role \in Inner
    BY <1>1, <1>8, <2>2, PlaceFits DEF Alone, Inner
  <2>4. b1 \in DOMAIN g2.heap /\ g2.heap[b1].role \in Inner
    BY <1>17, <2>2, InnerStays
  <2>12. b2 \in DOMAIN g2.heap /\ g2.heap[b2].role \in Inner
    BY <2>2 DEF IsTarget
  <2>5. Alone(k, r2, q1 \o q2, p) /\ Grows(g2, k) /\ SameStms(g2, k)
    BY <1>9, <2>2, <2>3, <2>12, AloneEdge
  <2>6. /\ from \in DOMAIN k.heap /\ k.heap[from].role \in Inner
        /\ b1 \in DOMAIN k.heap /\ k.heap[b1].role \in Inner
        /\ b2 \in DOMAIN k.heap /\ k.heap[b2].role \in Inner
    BY <2>3, <2>4, <2>5, <2>12, InnerStays
  <2>7. h = EnsureEdge(k, from, b1) \/ h = AddEdge(k, from, b1)
    BY <1>10
  <2>8. Alone(h, r2, q1 \o q2, p) /\ Grows(k, h) /\ SameStms(k, h)
    BY <2>5, <2>6, <2>7, AloneEdge
  <2>9. b2 \in DOMAIN h.heap /\ h.heap[b2].role = g2.heap[b2].role
    BY <2>5, <2>6, <2>8, <2>12, InnerStays
  <2>10. CASE LeaveBlock(h, r2, q1 \o q2)
    BY <1>1, <1>11, <2>8, <2>10, AloneLeave
  <2>11. CASE Stms(h, b2) = <<>> /\ GoOn(h, r2, b2, Pos + 1, q1 \o q2)
    <3>1. Stms(g2, b2) = <<>>
      BY <2>5, <2>6, <2>8, <2>11, <2>12 DEF SameStms, Stms
    <3>2. h.heap[b2].role = "code"
      BY <2>2, <2>9, <3>1 DEF IsTarget
    <3>3. PICK next, q : next = Pos + 1 /\ next \in Positions /\ q = q1 \o q2
      BY <1>1
    <3>4. next \in DOMAIN r2 /\ r2[next].block = b2 /\ next <= next
      BY <1>1, <2>2, <3>3
    <3>5. Under(Stms(h, b2), next) /\ Under(Stms(h, b2), r2[next].end)
      BY <2>11, NoneTidy
    <3>6. Reads(h, r2, b2, next, next)
      BY <3>4, <3>5 DEF Reads
    <3>7. GoOn(h, r2, b2, next, q) /\ Alone(h, r2, q, p)
      BY <2>8, <2>11, <3>3
    <3> QED
      BY <1>1, <1>11, <2>9, <3>2, <3>3, <3>6, <3>7, AloneGoOn
  <2> QED
    BY <1>31, <1>19, <2>10, <2>11
<1> QED
  BY <1>18, <1>19

(* The top frame changes, and nothing else.                                 *)
LEMMA TopChangesOne ==
  ASSUME RangesInv, OneNow, Scanning, NEW f, FrameOne(program, ranges, f),
         frames' = SetTop(f), UNCHANGED <<program, ranges, visited>>
  PROVE  OneKept
<1>1. FramesOne(program, ranges, frames)
  BY DEF OneNow, OneFits
<1>2. FramesOne(program, ranges, SetTop(f)) /\ SetTop(f) # <<>>
  BY <1>1, FramesBelow
<1> QED
  BY <1>2 DEF OneNow, OneKept, OneFits

(* A procedure that has been visited has a range, which is not cut, and is  *)
(* not scanned again.                                                       *)
LEMMA ScanVisited ==
  ASSUME RangesInv, GraphInv, OneNow, Scanning, NEW addr \in visited,
         NEW top, FrameOne(program, ranges, top)
  PROVE  ScanProcedure(addr, top) => OneKept
<1>h. HAVE ScanProcedure(addr, top)
<1>1. addr \in DOMAIN ranges /\ addr \in DOMAIN program.procs
  BY DEF OneNow, OneFits, GraphInv, GraphFits, VisitedFit
<1>2. EnsureProcedure(program, addr) = program /\ TerminateAnyBlockAt(ranges, addr) = ranges
  BY <1>1 DEF EnsureProcedure, TerminateAnyBlockAt, TerminateBlock
<1>3. frames' = SetTop(top) /\ UNCHANGED <<program, ranges, visited>>
  BY <1>h, <1>2 DEF ScanProcedure
<1> QED
  BY <1>3, TopChangesOne

(* What the scan of a procedure makes of its graph g and ranges r: the jump *)
(* to its address, and an edge to the block there.                          *)
ScanMakes(addr, top, g, r, j) ==
    /\ Well(g, Settled) /\ Grows(program, g) /\ addr \in DOMAIN g.procs
    /\ GoodRanges(r) /\ RangesFit(g, r) /\ DOMAIN r = DOMAIN ranges
    /\ j = EnqueueJumpTarget(g, r, addr, addr, addr)
    /\ RangesFit(j.g, j.ranges) /\ IsQueue(j.items)
    /\ SameNodes(j.g, program') /\ SameStms(j.g, program')
    /\ DOMAIN g.procs \subseteq DOMAIN program'.procs
    /\ ranges' = j.ranges
    /\ visited' = visited \cup {addr}
    /\ frames' = Append(SetTop(top), Frame(addr, j.items))

LEMMA ScanMade ==
  ASSUME RangesInv, GraphInv, NEW addr \in Addresses, addr \notin visited, NEW top
  PROVE  ScanProcedure(addr, top) => \E g, r, j : ScanMakes(addr, top, g, r, j)
<1>h. HAVE ScanProcedure(addr, top)
<1>1. PICK g, r : /\ g = EnsureProcedure(program, addr)
                  /\ r = TerminateAnyBlockAt(ranges, addr)
  OBVIOUS
<1>2. Well(program, Settled) /\ RangesFit(program, ranges) /\ GoodRanges(ranges)
  BY DEF GraphInv, GraphFits, RangesInv
<1>3. Well(g, Settled) /\ Grows(program, g) /\ ProcedureMade(program, g, addr)
  BY <1>1, <1>2, EnsureProcedureKeeps
<1>4. addr \in DOMAIN g.procs
  BY <1>3 DEF ProcedureMade
<1>5. GoodRanges(r) /\ RangesFit(program, r)
  <2>1. addr \in Positions
    BY ScannerAssumption DEF Addresses, Positions, Beyond
  <2> QED
    BY <1>1, <1>2, <2>1, TerminateKeeps, TerminateFits DEF TerminateAnyBlockAt
<1>6. RangesFit(g, r)
  BY <1>3, <1>5, RangesStayMade
<1>7. DOMAIN r = DOMAIN ranges
  BY <1>1, <1>2, CutThere
<1>8. PICK jump, entry, k :
          /\ jump = EnqueueJumpTarget(g, r, addr, addr, addr)
          /\ entry = g.procs[addr].entry
          /\ k = IF jump.g.heap[entry].succ = <<>>
                 THEN AddEdge(jump.g, entry, jump.block) ELSE jump.g
          /\ program' = k
          /\ ranges' = jump.ranges
          /\ visited' = visited \cup {addr}
          /\ frames' = Append(SetTop(top), Frame(addr, jump.items))
  BY <1>h, <1>1 DEF ScanProcedure
<1>9. JumpFits(g, jump, Excuses({addr}, {})) /\ IsQueue(jump.items)
  <2>1. /\ Well(g, Excuses({addr}, {})) /\ addr \in Excuses({addr}, {}).procs
        /\ addr \in Int
    BY <1>3, ExceptionMade, ScannerAssumption DEF Addresses, Excuses
  <2> QED
    BY <1>4, <1>5, <1>6, <1>8, <2>1, JumpFitsAll, JumpKeeps
<1>10. PICK h, c : h = jump.g /\ c = jump.block
  OBVIOUS
<1>11. /\ Well(h, Excuses({addr}, {})) /\ Grows(g, h) /\ RangesFit(h, jump.ranges)
       /\ c \in DOMAIN h.heap /\ h.heap[c].role \in Inner
  BY <1>9, <1>10 DEF JumpFits, IsTarget
<1>12. /\ addr \in DOMAIN h.procs /\ h.procs[addr].entry = entry
       /\ entry \in DOMAIN h.heap /\ h.heap[entry].role = "entry"
  BY <1>4, <1>8, <1>11 DEF Grows, Well, ProcsFit
<1>13. SameNodes(h, k) /\ SameStms(h, k)
  <2>1. CASE h.heap[entry].succ = <<>>
    <3>1. k = AddEdge(h, entry, c)
      BY <1>8, <1>10, <2>1
    <3>2. h.heap[entry].role # "exit" /\ c \in Ends(h)
      BY <1>11, <1>12 DEF Inner, Ends
    <3>3. SameNodes(h, k) /\ \A d \in DOMAIN h.heap : k.heap[d].stms = h.heap[d].stms
      BY <1>11, <1>12, <2>1, <3>1, <3>2, AddEdgeKeeps
    <3> QED
      BY <3>3 DEF SameStms
  <2>2. CASE h.heap[entry].succ # <<>>
    BY <1>8, <1>10, <2>2 DEF SameNodes, SameStms
  <2> QED
    BY <2>1, <2>2
<1>14. DOMAIN g.procs \subseteq DOMAIN k.procs
  BY <1>11, <1>13 DEF Grows, SameNodes
<1>15. ScanMakes(addr, top, g, r, jump)
  BY <1>3, <1>4, <1>5, <1>6, <1>7, <1>8, <1>9, <1>10, <1>11, <1>13, <1>14 DEF ScanMakes
<1> QED
  BY <1>15

(* The scan of the only procedure is the first that makes a range.          *)
LEMMA ScanFirst ==
  ASSUME RangesInv, GraphInv, OneNow, OnlyOne(program'), Scanning,
         NEW addr \in Addresses, addr \notin visited,
         NEW top, top.block = None, NoPromotions(top.queue)
  PROVE  ScanProcedure(addr, top) => OneKept
<1>h. HAVE ScanProcedure(addr, top)
<1>1. PICK g, r, j : ScanMakes(addr, top, g, r, j)
  BY <1>h, ScanMade
<1>2. PICK k, s, q : k = program' /\ s = ranges' /\ q = j.items
  OBVIOUS
<1>3. /\ Well(g, Settled) /\ Grows(program, g) /\ addr \in DOMAIN g.procs
      /\ GoodRanges(r) /\ RangesFit(g, r) /\ DOMAIN r = DOMAIN ranges
      /\ j = EnqueueJumpTarget(g, r, addr, addr, addr)
      /\ RangesFit(j.g, j.ranges)
      /\ SameNodes(j.g, k) /\ SameStms(j.g, k)
      /\ DOMAIN g.procs \subseteq DOMAIN k.procs
      /\ s = j.ranges
      /\ visited' = visited \cup {addr}
      /\ frames' = Append(SetTop(top), Frame(addr, q))
  BY <1>1, <1>2 DEF ScanMakes
<1>4. DOMAIN g.procs = {addr} /\ DOMAIN program.procs \subseteq {addr}
  BY <1>2, <1>3 DEF OnlyOne, Grows
<1>5. DOMAIN ranges = {} /\ visited = {}
  <2>1. /\ DOMAIN ranges # {} => DOMAIN program.procs \subseteq visited
        /\ visited \subseteq DOMAIN ranges
        /\ RangesFit(program, ranges) /\ Well(program, Settled)
    BY DEF OneNow, OneFits, GraphInv, GraphFits
  <2>2. ASSUME NEW a \in DOMAIN ranges
        PROVE  FALSE
    <3>1. ranges[a].block \in DOMAIN program.heap
      BY <2>1 DEF RangesFit
    <3>2. program.heap[ranges[a].block].proc \in DOMAIN program.procs
      BY <2>1, <3>1, WellParts
    <3> QED
      BY <1>4, <2>1, <2>2, <3>2
  <2> QED
    BY <2>1, <2>2
<1>6. AllTidy(g, r)
  BY <1>3, <1>5 DEF AllTidy
<1>7. /\ AllTidy(j.g, s) /\ NoPromotions(q) /\ DOMAIN s = {addr}
      /\ DOMAIN j.g.procs = {addr}
  <2>1. PICK X : X = Excuses({addr}, {})
    OBVIOUS
  <2>2. Well(g, X) /\ addr \in X.procs /\ addr \in Int
    BY <1>3, <2>1, ExceptionMade, ScannerAssumption DEF Addresses, Excuses
  <2>3. /\ AllTidy(j.g, j.ranges) /\ NoPromotions(j.items)
        /\ DOMAIN j.ranges = DOMAIN r \cup {addr} /\ DOMAIN j.g.procs = {addr}
    BY <1>3, <1>4, <1>6, <2>2, JumpTidy
  <2> QED
    BY <1>2, <1>3, <1>5, <2>3
<1>8. AllTidy(k, s) /\ DOMAIN k.procs = {addr}
  <2>1. RangesFit(j.g, s)
    BY <1>3
  <2>2. AllTidy(k, s)
    BY <1>3, <1>7, <2>1, SameTidy
  <2> QED
    BY <1>3, <1>7, <2>2 DEF SameNodes
<1>9. PICK f : f = Frame(addr, q)
  OBVIOUS
<1>10. f.block = None /\ f.queue = q
  BY <1>9, FrameParts
<1>11. FrameOne(k, s, top)
  BY DEF FrameOne, FrameStands
<1>12. FramesOne(k, s, Append(SetTop(top), f)) /\ Append(SetTop(top), f) # <<>>
  <2>1. FramesOne(program, ranges, frames)
    BY DEF OneNow, OneFits
  <2> QED
    BY <1>7, <1>10, <1>11, <2>1, FramesBelow
<1>13. frames' = Append(SetTop(top), f) /\ visited' = {addr}
  BY <1>3, <1>5, <1>9
<1> QED
  BY <1>2, <1>7, <1>8, <1>12, <1>13 DEF OneKept, OneFits

(* Step: a call is read.  It leads to the only procedure, which is visited. *)
LEMMA CallOne ==
  ASSUME RangesInv, GraphInv, OneNow, OnlyOne(program'), Parsing, Within,
         NEW i \in InstructionsAt(Pos)
  PROVE  Call(i) => OneKept
<1>h. HAVE Call(i)
<1>1. Scanning /\ BlockCur # None /\ Pos \in Addresses
  BY WithinIsAddress DEF Parsing
<1>2. PICK to, f, top : to = i.to /\ f = Top /\ top = [f EXCEPT !.callee = to]
  OBVIOUS
<1>3. ScanProcedure(to, top) /\ to \in Addresses
  BY <1>h, <1>1, <1>2, InstructionTypes DEF Call
<1>4. Alone(program, ranges, <<>>, ProcCur)
  BY AloneWithin
<1>5. PICK a : Reads(program, ranges, BlockCur, Pos, a) /\ Holds(ranges, Pos, a)
  BY AloneWithin
<1>6. to \in visited
  <2> SUFFICES ASSUME to \notin visited PROVE FALSE
    OBVIOUS
  <2>1. PICK g, r, j : ScanMakes(to, top, g, r, j)
    BY <1>3, ScanMade
  <2>2. to \in DOMAIN program'.procs /\ DOMAIN program.procs \subseteq DOMAIN program'.procs
    BY <2>1 DEF ScanMakes, Grows
  <2>3. ProcCur \in DOMAIN program.procs /\ ProcCur \in visited
    BY <1>4 DEF Alone
  <2> QED
    BY <2>2, <2>3 DEF OnlyOne
<1>7. FrameOne(program, ranges, f) /\ IsFrame(f) /\ f.block = BlockCur /\ f.addr = Pos
  BY <1>1, <1>2, TopOne, TopIsFrame DEF OneNow, OneFits, BlockCur, Pos
<1>8. top.block = BlockCur /\ top.addr = Pos /\ top.queue = f.queue
  BY <1>2, <1>7 DEF IsFrame
<1>9. FrameOne(program, ranges, top)
  BY <1>5, <1>7, <1>8 DEF FrameOne, FrameStands, Holds
<1> QED
  BY <1>1, <1>3, <1>6, <1>9, ScanVisited

(* Step: the call goes on, after a scan of the callee that did not take     *)
(* place.                                                                   *)
LEMMA CallScannedOne ==
  ASSUME RangesInv, GraphInv, OneNow
  PROVE  CallScanned => OneKept
<1>h. HAVE CallScanned
<1>1. PICK g, to : /\ to = Top.callee /\ g = Emit(program, BlockCur, Pos, "call", to)
                   /\ GoOn(g, ranges, BlockCur, Pos + 1, <<>>)
                   /\ UNCHANGED visited /\ Scanning /\ to # None
  BY <1>h DEF CallScanned
<1>2. BlockCur # None /\ to \in Addresses /\ Pos \in Addresses
  BY <1>1, TopFits DEF FrameFits, IsFrame, BlockCur, Pos
<1>3. PICK next : next = Pos + 1 /\ Pos \in Int /\ next \in Positions /\ next \in Int /\ Pos < next
  BY <1>2, ScannerAssumption DEF Addresses, Positions, Beyond
<1>4. /\ BlockCur \in DOMAIN program.heap /\ program.heap[BlockCur].role = "code"
      /\ Alone(program, ranges, <<>>, ProcCur)
  BY <1>1, <1>2, AtWork, AloneAtWork
<1>5. PICK a : Reads(program, ranges, BlockCur, Pos, a) /\ Pos < ranges[a].end
  BY <1>1, <1>2, AloneAtWork
<1>6. "call" \in Kinds /\ to \in Addresses \cup {None}
  BY <1>2 DEF Kinds
<1>7. /\ Alone(g, ranges, <<>>, ProcCur) /\ Keeps(program, g)
      /\ Reads(g, ranges, BlockCur, next, a)
  <2>1. g = Emit(program, BlockCur, Pos, "call", to)
    BY <1>1
  <2> QED
    BY <1>3, <1>4, <1>5, <1>6, <2>1, AloneEmit
<1>8. BlockCur \in DOMAIN g.heap /\ g.heap[BlockCur].role = "code"
  BY <1>4, <1>7, InnerStays DEF Keeps
<1>9. GoOn(g, ranges, BlockCur, next, <<>>) /\ UNCHANGED visited /\ Scanning
  BY <1>1, <1>3
<1> QED
  BY <1>3, <1>7, <1>8, <1>9, AloneGoOn

(* What is left of a queue has no promotions.                               *)
LEMMA RestOne ==
  ASSUME RangesInv, OneNow, NEW i, Dequeued(i)
  PROVE  /\ NoPromotions(Top.queue) /\ NoPromotions(Rest(i).queue)
         /\ Rest(i).block = None
         /\ \A g, r : FrameOne(g, r, Rest(i))
<1>1. Scanning /\ i \in DOMAIN Top.queue
  BY DEF Dequeued, Idle
<1>2. NoPromotions(Top.queue) /\ IsQueue(Top.queue)
  BY <1>1, TopOne DEF OneNow, OneFits, FrameOne
<1>3. NoPromotions(RemoveAt(Top.queue, i))
  BY <1>1, <1>2, NoPromotionsRest
<1>4. PICK f : f = Rest(i)
  OBVIOUS
<1>5. f.block = None /\ f.queue = RemoveAt(Top.queue, i)
  BY <1>4, FrameParts DEF Rest
<1>6. \A g, r : FrameOne(g, r, f)
  BY <1>3, <1>5 DEF FrameOne, FrameStands
<1> QED
  BY <1>2, <1>3, <1>4, <1>5, <1>6

(* Step: a block is taken from the queue and its code read.                *)
LEMMA StartBlockOne ==
  ASSUME RangesInv, GraphInv, OneNow, NEW i
  PROVE  StartBlock(i) => OneKept
<1>h. HAVE StartBlock(i)
<1>1. PICK b, addr, f : /\ addr = Top.queue[i].addr
                        /\ b = FindContainingBlock(ranges, addr)
                        /\ f = [Rest(i) EXCEPT !.block = b, !.addr = addr]
  OBVIOUS
<1>2. /\ Dequeued(i) /\ Scanning
      /\ frames' = SetTop(IF b = None \/ Stms(program, b) # <<>> THEN Rest(i) ELSE f)
      /\ UNCHANGED <<program, ranges, visited>>
  BY <1>h, <1>1 DEF StartBlock, Dequeued, Idle
<1>3. FrameOne(program, ranges, Rest(i)) /\ NoPromotions(Rest(i).queue)
  BY <1>2, RestOne
<1>4. CASE b = None \/ Stms(program, b) # <<>>
  <2>1. frames' = SetTop(Rest(i))
    BY <1>2, <1>4
  <2> QED
    BY <1>2, <1>3, <2>1, TopChangesOne
<1>5. CASE ~(b = None \/ Stms(program, b) # <<>>)
  <2>1. frames' = SetTop(f)
    BY <1>2, <1>5
  <2>2. addr \in Positions
    <3>1. addr \in Addresses
      BY <1>1, <1>2, RestIsFrame
    <3> QED
      BY <3>1, ScannerAssumption DEF Addresses, Positions, Beyond
  <2>3. InRange(ranges, addr)
    BY <1>1, <1>5 DEF FindContainingBlock
  <2>4. PICK a : Holds(ranges, addr, a) /\ b = ranges[a].block
    BY <1>1, <2>2, <2>3, Held DEF RangesInv
  <2>5. Under(Stms(program, b), addr) /\ Under(Stms(program, b), ranges[a].end)
    BY <1>5, NoneTidy
  <2>6. Reads(program, ranges, b, addr, a)
    BY <2>4, <2>5 DEF Reads, Holds
  <2>7. f.block = b /\ f.addr = addr /\ f.callee = None /\ f.queue = Rest(i).queue
    <3>1. PICK q : q = RemoveAt(Top.queue, i) /\ Rest(i) = Frame(Top.proc, q)
      BY DEF Rest
    <3> QED
      BY <1>1, <3>1 DEF Frame
  <2>8. FrameOne(program, ranges, f)
    BY <1>3, <2>6, <2>7 DEF FrameOne, FrameStands
  <2> QED
    BY <1>2, <2>1, <2>8, TopChangesOne
<1> QED
  BY <1>4, <1>5

(* Step: a procedure is taken from the queue and its scan begins.           *)
LEMMA QueuedScanOne ==
  ASSUME RangesInv, GraphInv, OneNow, OnlyOne(program'), NEW i, Dequeued(i)
  PROVE  ScanProcedure(Top.queue[i].addr, Rest(i)) => OneKept
<1>h. HAVE ScanProcedure(Top.queue[i].addr, Rest(i))
<1>1. PICK addr, top : addr = Top.queue[i].addr /\ top = Rest(i)
  OBVIOUS
<1>2. ScanProcedure(addr, top) /\ Scanning /\ addr \in Addresses
  BY <1>h, <1>1, RestIsFrame
<1>3. top.block = None /\ NoPromotions(top.queue) /\ FrameOne(program, ranges, top)
  BY <1>1, RestOne
<1> QED
  BY <1>2, <1>3, ScanVisited, ScanFirst

(* Step: a nested scan of a procedure returns to its queue.                *)
LEMMA ProcedureScannedOne ==
  ASSUME RangesInv, OneNow, ProcedureScanned
  PROVE  OneKept
<1>1. PICK s, u : /\ s = frames /\ u = Front(s) /\ IsStack(s) /\ s # <<>> /\ Len(s) > 1
                  /\ frames' = u /\ UNCHANGED <<program, ranges, visited>>
  BY DEF ProcedureScanned, Drained, Idle, Scanning, RangesInv
<1>2. /\ \A m \in DOMAIN u : m \in DOMAIN s /\ u[m] = s[m]
      /\ \A m \in DOMAIN s : m # Len(s) => m \in DOMAIN u
  BY <1>1, FrontParts
<1>3. FramesOne(program, ranges, s)
  BY <1>1 DEF OneNow, OneFits
<1>4. FramesOne(program, ranges, u)
  BY <1>2, <1>3 DEF FramesOne
<1>5. u # <<>>
  <2>1. PICK S : s \in Seq(S)
    BY <1>1 DEF IsStack
  <2>2. 1 \in DOMAIN s /\ 1 # Len(s)
    BY <1>1, <2>1, SeqParts
  <2>3. DOMAIN u # {}
    BY <1>1, <1>2, <2>2
  <2> QED
    BY <2>3
<1> QED
  BY <1>1, <1>4, <1>5 DEF OneNow, OneKept, OneFits

(* Step: the scan ends.  The gotos that may be out of their ranges are the  *)
(* last ones of their blocks, which are removed.                            *)
LEMMA FinishOne ==
  ASSUME RangesInv, GraphInv, OneNow, Finish
  PROVE  OneKept
<1>1. PICK g : g = RemoveRedundantGotos(program)
  OBVIOUS
<1>2. program' = g /\ frames' = <<>> /\ UNCHANGED <<ranges, visited>>
  BY <1>1 DEF Finish
<1>3. /\ Well(program, Settled) /\ RangesFit(program, ranges)
      /\ AllTidy(program, ranges)
      /\ DOMAIN ranges # {} => DOMAIN program.procs \subseteq visited
      /\ visited \subseteq DOMAIN ranges
  BY DEF GraphInv, GraphFits, OneNow, OneFits
<1>4. /\ Keeps(program, g)
      /\ \A b \in DOMAIN program.heap :
            Listed(program, b) => g.heap[b].stms = NoGotos(program.heap[b].stms)
  BY <1>1, <1>3, RemoveRedundantGotosKeeps
<1>5. DOMAIN g.procs \subseteq DOMAIN program.procs
  BY <1>4 DEF Keeps, Stays, Shut
<1>6. ASSUME NEW a \in DOMAIN ranges
      PROVE  /\ Tidy(Stms(g, ranges[a].block), a, ranges[a].end)
             /\ Under(Stms(g, ranges[a].block), ranges[a].end)
  <2>1. PICK b, end, s, t : /\ b = ranges[a].block /\ end = ranges[a].end
                            /\ s = program.heap[b].stms /\ t = g.heap[b].stms
    OBVIOUS
  <2>2. b \in DOMAIN program.heap /\ Listed(program, b)
    BY <1>3, <2>1 DEF RangesFit
  <2>3. t = NoGotos(s) /\ s \in Seq(StmSet)
    BY <1>3, <1>4, <2>1, <2>2, WellParts
  <2>4. InOrder(s) /\ Starting(s, a) /\ Nearly(s, end)
    BY <1>3, <2>1 DEF AllTidy, Tidy, Stms
  <2>5. t \in Seq(StmSet) /\ Part(t, s) /\ Under(t, end)
    BY <2>3, <2>4, NoGotosKeeps, NoGotosParts
  <2>6. InOrder(t) /\ Starting(t, a) /\ Nearly(t, end)
    BY <2>3, <2>4, <2>5, PartTidy
  <2> QED
    BY <2>1, <2>5, <2>6 DEF Tidy, Stms
<1>7. FramesOne(g, ranges, <<>>)
  BY DEF FramesOne
<1> QED
  BY <1>2, <1>3, <1>5, <1>6, <1>7 DEF OneKept, OneFits, AllTidy

(* The invariant holds at first: there are no ranges, and the queue has     *)
(* symbols.                                                                 *)
LEMMA OneAtFirst ==
  ASSUME Init
  PROVE  OneInv
<1>1. PICK q, f : /\ \A k \in DOMAIN q : q[k].kind = "symbol"
                  /\ f = Frame(None, q) /\ frames = <<f>>
                  /\ ranges = <<>> /\ visited = {}
  <2>1. PICK syms : /\ frames = <<Frame(None, [k \in DOMAIN syms |->
                                                  Item("symbol", syms[k], None)])>>
                    /\ ranges = <<>> /\ visited = {}
    BY DEF Init
  <2>2. PICK q : q = [k \in DOMAIN syms |-> Item("symbol", syms[k], None)]
    OBVIOUS
  <2>3. \A k \in DOMAIN q : q[k].kind = "symbol"
    BY <2>2 DEF Item
  <2> QED
    BY <2>1, <2>2, <2>3
<1>2. f.block = None /\ f.queue = q
  BY <1>1, FrameParts
<1>3. NoPromotions(q)
  BY <1>1 DEF NoPromotions
<1>4. DOMAIN frames = {1} /\ frames[1] = f /\ frames # <<>>
  BY <1>1
<1>5. FramesOne(program, ranges, frames)
  BY <1>2, <1>3, <1>4 DEF FramesOne, FrameStands
<1>6. DOMAIN ranges = {}
  BY <1>1
<1>7. OneFits(program, ranges, frames, visited)
  BY <1>1, <1>4, <1>5, <1>6 DEF OneFits, AllTidy
<1> QED
  BY <1>7 DEF OneInv

(* Every step keeps it: procedures only come, so that there was one before. *)
LEMMA OneStep ==
  ASSUME RangesInv, GraphInv, OneInv, [Next]_vars
  PROVE  OneInv'
<1> SUFFICES ASSUME OnlyOne(program')
             PROVE  OneKept
  BY DEF OneInv, OneKept
<1>1. OneNow
  <2>1. Grows(program, program')
    BY GraphStep DEF GraphKept
  <2>2. OnlyOne(program)
    BY <2>1 DEF OnlyOne, Grows
  <2> QED
    BY <2>2 DEF OneInv, OneNow
<1>2. ASSUME NEW i, StartSymbol(i)
      PROVE  OneKept
  <2>1. Dequeued(i) /\ Scanning
        /\ \/ /\ frames' = SetTop(Rest(i))
              /\ UNCHANGED <<program, ranges, visited>>
           \/ ScanProcedure(Top.queue[i].addr, Rest(i))
    BY <1>2 DEF StartSymbol, Dequeued, Idle
  <2>2. FrameOne(program, ranges, Rest(i))
    BY <1>1, <2>1, RestOne
  <2> QED
    BY <1>1, <2>1, <2>2, TopChangesOne, QueuedScanOne
<1>3. ASSUME NEW i, StartProcedure(i)
      PROVE  OneKept
  BY <1>1, <1>3, QueuedScanOne DEF StartProcedure
<1>4. ASSUME NEW i, StartPromotion(i)
      PROVE  OneKept
  <2>1. Dequeued(i) /\ i \in DOMAIN Top.queue /\ Top.queue[i].kind = "promote"
    BY <1>4 DEF StartPromotion, Dequeued
  <2>2. NoPromotions(Top.queue)
    BY <1>1, <2>1, RestOne
  <2> QED
    BY <2>1, <2>2 DEF NoPromotions
<1>5. ASSUME NEW i, StartBlock(i)
      PROVE  OneKept
  BY <1>1, <1>5, StartBlockOne
<1>6. ASSUME FellOff
      PROVE  OneKept
  <2>1. /\ Scanning /\ BlockCur # None
        /\ LeaveBlock(program, ranges, <<>>) /\ UNCHANGED visited
    BY <1>6 DEF FellOff, Parsing
  <2>2. Alone(program, ranges, <<>>, ProcCur)
    BY <1>1, <2>1, AloneAtWork
  <2> QED
    BY <1>1, <2>1, <2>2, AloneLeave
<1>7. ASSUME ReadInstruction
      PROVE  OneKept
  <2>1. Parsing /\ Within /\ Pos \in Addresses
    BY <1>7, WithinIsAddress DEF ReadInstruction
  <2>2. PICK i : /\ i \in IF Pos \in DOMAIN code THEN {code[Pos]} ELSE InstructionsAt(Pos)
                 /\ Linear(i) \/ Stop(i) \/ Goto(i) \/ Branch(i) \/ Call(i)
    BY <1>7, Zenon DEF ReadInstruction
  <2>3. i \in InstructionsAt(Pos)
    BY <2>1, <2>2 DEF RangesInv, CodeRead
  <2> QED
    BY <1>1, <2>1, <2>2, <2>3, LinearOne, StopOne, GotoOne, BranchOne, CallOne
<1>8. ASSUME UNCHANGED <<program, ranges, visited, frames>>
      PROVE  OneKept
  BY <1>1, <1>8 DEF OneNow, OneKept
<1>9. Cancel \/ UNCHANGED vars => OneKept
  BY <1>8 DEF Cancel, vars
<1> QED
  BY <1>1, <1>2, <1>3, <1>4, <1>5, <1>6, <1>7, <1>9, ProcedureScannedOne, FinishOne,
     CallScannedOne DEF Next, Step

-------------------------------------------------------------------------------
(* The graph the scanner makes is well-formed after every step: blocks and  *)
(* procedures refer to each other, edges lead to blocks that are no entry,  *)
(* every range is that of the block that starts there, work items and       *)
(* frames name blocks and procedures that are there, and code belongs to    *)
(* procedures that are entered.                                             *)
THEOREM GraphInvariant == Spec => []GraphInv
<1>1. Init => RangesInv /\ GraphInv
  BY RangesAtFirst, GraphAtFirst
<1>2. RangesInv /\ GraphInv /\ [Next]_vars => RangesInv' /\ GraphInv'
  BY RangesStep, GraphStep DEF GraphKept
<1> QED
  BY <1>1, <1>2, PTL DEF Spec

(* Whatever jumps, splits, clones and promotions do, a block is listed by   *)
(* the procedure it names and by no other, and the block of a range starts  *)
(* there and is listed.                                                     *)
THEOREM BlocksStayOwned == Spec => []BlocksOwned
<1>1. GraphInv => BlocksOwned
  <2> SUFFICES ASSUME GraphInv PROVE BlocksOwned
    OBVIOUS
  <2>1. Well(program, Settled) /\ RangesFit(program, ranges)
    BY DEF GraphInv, GraphFits
  <2> QED
    BY <2>1 DEF Well, ProcsFit, RangesFit, Listed, BlocksOwned, ProcOf
<1> QED
  BY <1>1, GraphInvariant, PTL

(* PromoteBlockWorkItem never throws for want of an entered block: every    *)
(* procedure that owns code has one.                                        *)
THEOREM OwnersStayEntered == Spec => []OwnersEntered
<1>1. GraphInv => OwnersEntered
  <2> SUFFICES ASSUME GraphInv, NEW b \in Live,
                      program.heap[b].role \in {"code", "clone", "thunk"}
               PROVE  program.heap[ProcOf(program, b).entry].succ # <<>>
    BY DEF OwnersEntered
  <2>1. Well(program, Settled)
    BY DEF GraphInv, GraphFits
  <2>2. b \in DOMAIN program.heap
    BY <2>1 DEF Well, ProcsFit, Live
  <2>3. Entered(program, program.heap[b].proc)
    BY <2>1, <2>2, OwnerEntered DEF Inner
  <2> QED
    BY <2>3 DEF Entered, ProcOf
<1> QED
  BY <1>1, GraphInvariant, PTL

(* Each instruction that was read and leaves a statement has one in a block *)
(* of code, whatever was split, moved or copied since, unless it is a call  *)
(* whose callee is being scanned.                                           *)
THEOREM SaidInvariant == Spec => []SaidInv
<1>1. Init => RangesInv /\ GraphInv /\ SaidInv
  <2>1. Init => DOMAIN code = {}
    BY DEF Init
  <2>2. Init => SaidInv
    BY <2>1 DEF SaidInv
  <2> QED
    BY <2>2, RangesAtFirst, GraphAtFirst
<1>2. RangesInv /\ GraphInv /\ SaidInv /\ [Next]_vars => RangesInv' /\ GraphInv' /\ SaidInv'
  BY RangesStep, GraphStep, SaidStep DEF GraphKept
<1> QED
  BY <1>1, <1>2, PTL DEF Spec

(* When the scan is complete nothing is left to be done, so that what was   *)
(* promised has come true.                                                  *)
LEMMA PromisesKept ==
  ASSUME GraphInv, Complete
  PROVE  Promised(program, ranges, {}, {})
<1>1. Promised(program, ranges, Pending(frames), {})
  BY DEF GraphInv, GraphFits, Complete
<1>2. Pending(frames) = {}
  BY DEF Pending, Complete, Scanning
<1> QED
  BY <1>1, <1>2

(* At the end every procedure is entered at its own block, also one that    *)
(* was made for a thunk or by a promotion and queued behind other work.     *)
THEOREM ProceduresStayEntered == Spec => []ProceduresEntered
<1>1. GraphInv => ProceduresEntered
  <2> SUFFICES ASSUME GraphInv, Complete, NEW p \in DOMAIN program.procs
               PROVE  /\ Entered(program, p)
                      /\ p \in DOMAIN ranges
                      /\ ranges[p].block = First(program, p)
                      /\ program.heap[First(program, p)].proc = p
    BY DEF ProceduresEntered, Entered, First
  <2>1. IF Entered(program, p) THEN AtHome(program, ranges, {}, p) ELSE Scans({}, p)
    BY PromisesKept DEF Promised
  <2>2. ~Scans({}, p) /\ ~Promotes({}, p, First(program, p))
    BY DEF Scans, Promotes
  <2> QED
    BY <2>1, <2>2 DEF AtHome
<1> QED
  BY <1>1, GraphInvariant, PTL

(* No statement of an instruction that was read is lost when blocks are     *)
(* split, moved, cloned, or taken out of a procedure to become one.         *)
THEOREM NothingIsLost == Spec => []NothingLost
<1>1. RangesInv /\ GraphInv /\ SaidInv => NothingLost
  <2> SUFFICES ASSUME RangesInv, GraphInv, SaidInv, Complete,
                      NEW a \in DOMAIN code, code[a].op \in Saying
               PROVE  \E b \in Live :
                         /\ program.heap[b].role # "thunk"
                         /\ \E k \in DOMAIN Stms(program, b) : Stms(program, b)[k].addr = a
    BY DEF NothingLost, Saying
  <2>1. Waiting(frames) = {}
    BY DEF Waiting, Complete, Scanning
  <2>2. Told(program, a)
    BY <2>1 DEF SaidInv
  <2>3. PICK b \in DOMAIN program.heap :
                program.heap[b].role = "code" /\ Tells(program.heap[b].stms, a)
    BY <2>2 DEF Told
  <2>4. Unlost(program, {}, b)
    BY <2>3, PromisesKept DEF Promised
  <2>5. Listed(program, b)
    BY <2>4 DEF Unlost, Promotes
  <2>6. b \in Live
    BY <2>5 DEF Listed, Live
  <2> QED
    BY <2>3, <2>6 DEF Tells, Stms
<1> QED
  BY <1>1, RangesInvariant, GraphInvariant, SaidInvariant, PTL

(* While there is one procedure, no other is scanned or promoted, what a    *)
(* block holds stays below the address that is read next, and a visited     *)
(* procedure keeps the range of its own.                                    *)
THEOREM OneInvariant == Spec => []OneInv
<1>1. Init => RangesInv /\ GraphInv /\ OneInv
  BY RangesAtFirst, GraphAtFirst, OneAtFirst
<1>2. RangesInv /\ GraphInv /\ OneInv /\ [Next]_vars => RangesInv' /\ GraphInv' /\ OneInv'
  BY RangesStep, GraphStep, OneStep DEF GraphKept
<1> QED
  BY <1>1, <1>2, PTL DEF Spec

(* At the end each statement of a range's block is in that range: a goto    *)
(* that was put behind the end of a block is the last there, and is removed.*)
THEOREM StatementsStayInRange == Spec => []StatementsInRange
<1>1. GraphInv /\ OneInv => StatementsInRange
  <2> SUFFICES ASSUME GraphInv, OneInv, ~Scanning, OneProcedure, NEW a \in DOMAIN ranges,
                      NEW k \in DOMAIN Stms(program, ranges[a].block)
               PROVE  LET stms == Stms(program, ranges[a].block)
                      IN  a <= stms[k].addr /\ stms[k].addr < ranges[a].end
    BY DEF StatementsInRange
  <2>1. OnlyOne(program)
    <3>1. DOMAIN program.procs \subseteq Addresses
      BY GraphParts DEF GraphInv, GraphFits, Well
    <3>2. IsFiniteSet(DOMAIN program.procs)
      <4>1. IsFiniteSet(Addresses)
        BY ScannerAssumption, FS_Interval DEF Addresses
      <4> QED
        BY <3>1, <4>1, FS_Subset
    <3>3. \E p : DOMAIN program.procs = {p}
      BY <3>2, FS_Singleton DEF OneProcedure
    <3> QED
      BY <3>3 DEF OnlyOne
  <2>2. OneFits(program, ranges, frames, visited) /\ frames = <<>>
    BY <2>1 DEF OneInv, Scanning
  <2>3. /\ Tidy(Stms(program, ranges[a].block), a, ranges[a].end)
        /\ Under(Stms(program, ranges[a].block), ranges[a].end)
    BY <2>2 DEF OneFits, AllTidy
  <2> QED
    BY <2>3 DEF Tidy, Starting, Under
<1> QED
  BY <1>1, GraphInvariant, OneInvariant, PTL

===============================================================================
