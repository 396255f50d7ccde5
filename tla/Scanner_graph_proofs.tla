------------------------- MODULE Scanner_graph_proofs -------------------------
(***************************************************************************)
(* Proofs about what the operations of the first-generation scanner do to  *)
(* its graph: whatever an operation is given, the blocks and the procedures*)
(* it leaves name one another, every edge leads from a block to a block,   *)
(* and code belongs to a procedure whose entry leads somewhere.            *)
(*                                                                         *)
(* An operation that walks a list of edges is a fold, and a fold is defined*)
(* by a CHOOSE over functions of index sets; the section on folds shows    *)
(* that such a function exists, so that what each step keeps holds of the  *)
(* whole walk.                                                             *)
(***************************************************************************)
EXTENDS Scanner, FiniteSetTheorems, SequenceTheorems, WellFoundedInduction, TLAPS

-------------------------------------------------------------------------------
(* The graphs the scanner makes. *)

(* The roles of blocks; those of code are between entry and exit.          *)
Roles == {"entry", "exit", "code", "thunk", "clone"}
Inner == {"code", "thunk", "clone"}

(* The types of statements, blocks, procedures and graphs.                 *)
StmSet   == [addr : Int, kind : Kinds, to : Addresses \cup {None}]
BlockSet == [role : Roles, proc : Addresses, addr : Int, stms : Seq(StmSet),
             succ : Seq(Nat), pred : Seq(Nat)]
ProcSet  == [entry : Nat, exit : Nat, blocks : SUBSET Nat]
ProcMaps == UNION {[D -> ProcSet] : D \in SUBSET Addresses}
Graphs   == [heap : Seq(BlockSet), procs : ProcMaps]

(* Where edges may lead and come from: none leads to an entry or leaves an  *)
(* exit, and an entry from which one came still leads somewhere.            *)
Ends(g) == {b \in DOMAIN g.heap : g.heap[b].role # "entry"}

Starts(g) ==
    {b \in DOMAIN g.heap : /\ g.heap[b].role # "exit"
                           /\ g.heap[b].role = "entry" => g.heap[b].succ # <<>>}

(* Blocks name procedures, of which they are the entry and the exit if that *)
(* is their role.                                                           *)
BlocksFit(g) ==
    \A b \in DOMAIN g.heap :
       /\ g.heap[b].proc \in DOMAIN g.procs
       /\ g.heap[b].role = "entry" => b = g.procs[g.heap[b].proc].entry
       /\ g.heap[b].role = "exit"  => b = g.procs[g.heap[b].proc].exit
       /\ g.heap[b].succ \in Seq(Ends(g))
       /\ g.heap[b].pred \in Seq(Starts(g))

(* Procedures have an entry and an exit, and list blocks that name them.    *)
ProcsFit(g) ==
    \A p \in DOMAIN g.procs :
       /\ g.procs[p].entry \in DOMAIN g.heap
       /\ g.heap[g.procs[p].entry].role = "entry"
       /\ g.heap[g.procs[p].entry].proc = p
       /\ g.procs[p].exit \in DOMAIN g.heap
       /\ g.heap[g.procs[p].exit].role = "exit"
       /\ g.heap[g.procs[p].exit].proc = p
       /\ \A b \in g.procs[p].blocks : b \in DOMAIN g.heap /\ g.heap[b].proc = p

(* An edge leads from the entry of the procedure.                          *)
Entered(g, p) == g.heap[g.procs[p].entry].succ # <<>>

(* The block to which the first edge from the entry leads.                 *)
First(g, p) == g.heap[g.procs[p].entry].succ[1]

(* What operations in the middle of their work are excused from: X.procs    *)
(* holds the procedure that EnsureProcedure has just made, until the edge   *)
(* from its entry is there, and X.blocks the block whose inbound edges are  *)
(* being fixed.                                                             *)
Excuses(P, B) == [procs |-> P, blocks |-> B]
Settled       == Excuses({}, {})

(* Code belongs to procedures that are entered, or about to be.             *)
EnteredFit(g, X) ==
    \A b \in DOMAIN g.heap :
       g.heap[b].role \in Inner =>
          g.heap[b].proc \in X.procs \/ Entered(g, g.heap[b].proc)

(* e is in s at one place at most. *)
Once(s, e) == \A i, j \in DOMAIN s : s[i] = e /\ s[j] = e => i = j

(* Code whose predecessors include an entry is what the first edge of that  *)
(* entry leads to.  FixInboundEdges puts statements into the entry when it  *)
(* cuts the edge off, so that the entry is never redirected to a thunk.     *)
EntriesFit(g, X) ==
    \A e \in DOMAIN g.heap :
       g.heap[e].role = "entry" =>
          /\ g.heap[e].stms # <<>> => g.heap[e].succ # <<>>
          /\ \A b \in DOMAIN g.heap :
                g.heap[b].role \in Inner /\ Contains(g.heap[b].pred, e) =>
                   /\ g.heap[e].succ[1] = b
                   /\ Once(g.heap[b].pred, e)
                   /\ b \in X.blocks \/ g.heap[e].stms = <<>>

(* What every operation keeps.                                             *)
Well(g, X) ==
    g \in Graphs /\ BlocksFit(g) /\ ProcsFit(g) /\ EnteredFit(g, X) /\ EntriesFit(g, X)

(* A statement for the instruction at a; redundant gotos are taken out.     *)
Tells(stms, a) == \E k \in DOMAIN stms : stms[k].addr = a /\ stms[k].kind # "goto"

(* Some block of code holds one. *)
Told(g, a) == \E b \in DOMAIN g.heap : g.heap[b].role = "code" /\ Tells(g.heap[b].stms, a)

(* What no operation takes back: blocks stay what they are, procedures that *)
(* are entered stay entered where they are, and no statement is lost.       *)
Grows(g, h) ==
    /\ DOMAIN g.heap \subseteq DOMAIN h.heap
    /\ \A b \in DOMAIN g.heap : /\ h.heap[b].role = g.heap[b].role
                                /\ h.heap[b].addr = g.heap[b].addr
    /\ DOMAIN g.procs \subseteq DOMAIN h.procs
    /\ \A p \in DOMAIN g.procs : /\ h.procs[p].entry = g.procs[p].entry
                                 /\ h.procs[p].exit = g.procs[p].exit
                                 /\ Entered(g, p) =>
                                       Entered(h, p) /\ First(h, p) = First(g, p)
    /\ \A a \in Addresses : Told(g, a) => Told(h, a)

(* The procedure that a block names lists it.                              *)
Listed(g, b) ==
    g.heap[b].proc \in DOMAIN g.procs /\ b \in g.procs[g.heap[b].proc].blocks

(* No procedure is made, and none is entered that was not.                 *)
Shut(g, h) ==
    /\ DOMAIN h.procs \subseteq DOMAIN g.procs
    /\ \A p \in DOMAIN g.procs : Entered(h, p) => Entered(g, p)

(* Blocks that are listed stay so, and new ones are.                       *)
Lists(g, h) ==
    /\ Shut(g, h)
    /\ \A b \in DOMAIN g.heap : Listed(g, b) => Listed(h, b)
    /\ \A b \in DOMAIN h.heap \ DOMAIN g.heap : Listed(h, b)

(* Only promotion moves a block, and takes it from a list. *)
Stays(g, h) ==
    /\ Shut(g, h)
    /\ \A b \in DOMAIN g.heap : h.heap[b].proc = g.heap[b].proc
    /\ \A p \in DOMAIN g.procs : g.procs[p].blocks \subseteq h.procs[p].blocks
    /\ \A b \in DOMAIN h.heap \ DOMAIN g.heap : Listed(h, b)

(* What every operation but promotion keeps.                               *)
Keeps(g, h) == Grows(g, h) /\ Stays(g, h)

(* The parts of a graph have their types.                                   *)
LEMMA GraphParts ==
  ASSUME NEW g \in Graphs
  PROVE  /\ g = [heap |-> g.heap, procs |-> g.procs]
         /\ g.heap \in Seq(BlockSet)
         /\ Len(g.heap) \in Nat
         /\ DOMAIN g.heap = 1 .. Len(g.heap)
         /\ \A b \in DOMAIN g.heap : g.heap[b] \in BlockSet
         /\ DOMAIN g.procs \subseteq Addresses
         /\ g.procs \in [DOMAIN g.procs -> ProcSet]
         /\ \A p \in DOMAIN g.procs : g.procs[p] \in ProcSet
<1>1. g.heap \in Seq(BlockSet) /\ g.procs \in ProcMaps
      /\ g = [heap |-> g.heap, procs |-> g.procs]
  BY DEF Graphs
<1>2. PICK D \in SUBSET Addresses : g.procs \in [D -> ProcSet]
  BY <1>1 DEF ProcMaps
<1>3. /\ Len(g.heap) \in Nat
      /\ DOMAIN g.heap = 1 .. Len(g.heap)
      /\ \A b \in 1 .. Len(g.heap) : g.heap[b] \in BlockSet
  BY <1>1, LenProperties, ElementOfSeq
<1> QED
  BY <1>1, <1>2, <1>3

(* A heap of blocks and a map of procedures make a graph.                  *)
LEMMA GraphMade ==
  ASSUME NEW H \in Seq(BlockSet), NEW D \in SUBSET Addresses, NEW P \in [D -> ProcSet]
  PROVE  [heap |-> H, procs |-> P] \in Graphs
BY DEF Graphs, ProcMaps

(* A block by its fields. *)
LEMMA BlockParts ==
  ASSUME NEW x \in BlockSet
  PROVE  /\ x.role \in Roles /\ x.proc \in Addresses /\ x.addr \in Int
         /\ x.stms \in Seq(StmSet) /\ x.succ \in Seq(Nat) /\ x.pred \in Seq(Nat)
         /\ x = [role |-> x.role, proc |-> x.proc, addr |-> x.addr,
                 stms |-> x.stms, succ |-> x.succ, pred |-> x.pred]
BY DEF BlockSet

(* Keeping is transitive. *)
LEMMA GrowsReflexive == \A g : Keeps(g, g) /\ Grows(g, g)
BY DEF Keeps, Grows, Stays, Shut

(* Growing twice is growing.                                               *)
LEMMA GrowsOn ==
  ASSUME NEW g, NEW h, NEW k, Grows(g, h), Grows(h, k)
  PROVE  Grows(g, k)
BY DEF Grows

(* What two steps keep one after the other, both keep.                     *)
LEMMA KeepsOn ==
  ASSUME NEW g, NEW h, NEW k, Keeps(g, h), Keeps(h, k)
  PROVE  Keeps(g, k)
<1>1. Grows(g, k)
  BY GrowsOn DEF Keeps
<1>2. DOMAIN g.heap \subseteq DOMAIN h.heap /\ DOMAIN g.procs \subseteq DOMAIN h.procs
  BY DEF Keeps, Grows
<1>3. \A b \in DOMAIN h.heap : Listed(h, b) => Listed(k, b)
  BY <1>2 DEF Keeps, Grows, Stays, Listed
<1>5. Shut(g, k)
  BY <1>2 DEF Keeps, Stays, Shut
<1>4. Stays(g, k)
  BY <1>2, <1>3, <1>5 DEF Keeps, Stays
<1> QED
  BY <1>1, <1>4 DEF Keeps

(* A change of statements and edges. *)
SameNodes(g, h) ==
    /\ h.procs = g.procs
    /\ DOMAIN h.heap = DOMAIN g.heap
    /\ Len(h.heap) = Len(g.heap)
    /\ \A b \in DOMAIN g.heap : /\ h.heap[b].role = g.heap[b].role
                                /\ h.heap[b].proc = g.heap[b].proc
                                /\ h.heap[b].addr = g.heap[b].addr

(* Entries that lead somewhere go on doing so, to the same block.           *)
EntriesKept(g, h) ==
    \A b \in DOMAIN g.heap :
       g.heap[b].role = "entry" /\ g.heap[b].succ # <<>> =>
          h.heap[b].succ # <<>> /\ h.heap[b].succ[1] = g.heap[b].succ[1]

(* Entries that lead nowhere go on doing so.                               *)
EntriesShut(g, h) ==
    \A b \in DOMAIN g.heap :
       g.heap[b].role = "entry" /\ g.heap[b].succ = <<>> => h.heap[b].succ = <<>>

(* No statement is lost.                                                   *)
ToldStays(g, h) == \A a \in Addresses : Told(g, a) => Told(h, a)

(* While the nodes are the same, edges may lead where they could.          *)
LEMMA EndsKept ==
  ASSUME NEW g, NEW h, SameNodes(g, h), EntriesKept(g, h)
  PROVE  Ends(h) = Ends(g) /\ Starts(g) \subseteq Starts(h)
BY DEF SameNodes, EntriesKept, Ends, Starts

(* New lists of edges over the same nodes: the graph stays sound if no     *)
(* list leaves its range and an entry that led somewhere still does; and   *)
(* no procedure is entered unless an entry now leads somewhere.            *)
LEMMA EdgesChanged ==
  ASSUME NEW X, NEW g, Well(g, X), NEW h \in Graphs, SameNodes(g, h), EntriesKept(g, h),
         EntriesFit(h, X), ToldStays(g, h),
         \A b \in DOMAIN g.heap : h.heap[b].succ \in Seq(Ends(g)),
         \A b \in DOMAIN g.heap : h.heap[b].pred \in Seq(Starts(h))
  PROVE  Well(h, X) /\ Grows(g, h) /\ (EntriesShut(g, h) => Keeps(g, h))
<1>1. Grows(g, h)
  <2>1. ASSUME NEW p \in DOMAIN g.procs, Entered(g, p)
        PROVE  Entered(h, p) /\ First(h, p) = First(g, p)
    <3>1. g.procs[p].entry \in DOMAIN g.heap /\ g.heap[g.procs[p].entry].role = "entry"
      BY DEF Well, ProcsFit
    <3> QED
      BY <2>1, <3>1 DEF SameNodes, EntriesKept, Entered, First
  <2> QED
    BY <2>1 DEF Grows, SameNodes, ToldStays
<1>5. EntriesShut(g, h) => Keeps(g, h)
  <2> SUFFICES ASSUME EntriesShut(g, h)
               PROVE  Keeps(g, h)
    OBVIOUS
  <2>1. \A p \in DOMAIN g.procs : Entered(h, p) => Entered(g, p)
    BY DEF EntriesShut, SameNodes, Entered, Well, ProcsFit
  <2> QED
    BY <1>1, <2>1 DEF Keeps, Stays, Shut, SameNodes
<1>2. BlocksFit(h)
  <2>1. Ends(h) = Ends(g)
    BY EndsKept
  <2> QED
    BY <2>1 DEF Well, BlocksFit, SameNodes
<1>3. ProcsFit(h)
  BY DEF Well, ProcsFit, SameNodes
<1>4. EnteredFit(h, X)
  <2> SUFFICES ASSUME NEW b \in DOMAIN h.heap, h.heap[b].role \in Inner
               PROVE  h.heap[b].proc \in X.procs \/ Entered(h, h.heap[b].proc)
    BY DEF EnteredFit
  <2>1. /\ b \in DOMAIN g.heap
        /\ g.heap[b].role \in Inner
        /\ g.heap[b].proc \in X.procs \/ Entered(g, g.heap[b].proc)
        /\ g.heap[b].proc \in DOMAIN g.procs
        /\ h.heap[b].proc = g.heap[b].proc
    BY DEF Well, EnteredFit, BlocksFit, SameNodes
  <2> QED
    BY <1>1, <2>1 DEF Grows
<1> QED
  BY <1>1, <1>2, <1>3, <1>4, <1>5 DEF Well

-------------------------------------------------------------------------------
(* Sequences. *)

(* A set of numbers that is not empty has a least member, and Min gives it. *)
LEMMA MinExists ==
  ASSUME NEW T \in SUBSET Nat, T # {}
  PROVE  Min(T) \in T /\ \A x \in T : Min(T) <= x
<1> DEFINE R == OpToRel(<, Nat)
<1>1. PICK m \in T : \A x \in T : <<x, m>> \notin R
  BY NatLessThanWellFounded, WFMin
<1>2. ASSUME NEW x \in T, x < m PROVE FALSE
  <2>1. <<x, m>> \in R
    BY <1>2 DEF OpToRel
  <2> QED
    BY <1>1, <2>1
<1>3. \A x \in T : x \in Nat
  OBVIOUS
<1>4. \A x \in T : m <= x
  BY <1>2, <1>3
<1> QED
  BY <1>4 DEF Min

(* Members of a sequence, and of one that is put together from others.      *)
LEMMA SeqParts ==
  ASSUME NEW S, NEW s \in Seq(S)
  PROVE  /\ Len(s) \in Nat
         /\ DOMAIN s = 1 .. Len(s)
         /\ \A i \in DOMAIN s : s[i] \in S
         /\ s = <<>> <=> Len(s) = 0
BY LenProperties, ElementOfSeq, EmptySeq

(* t has e only where s has it, and once if s has it once.                 *)
Fewer(s, t, e) == (Contains(t, e) => Contains(s, e)) /\ (Once(s, e) => Once(t, e))

(* A sequence of which every element is one of another, in the same order,  *)
(* has no more of any.                                                     *)
LEMMA FewerBelow ==
  ASSUME NEW S, NEW s \in Seq(S), NEW t \in Seq(S), NEW e,
         NEW at, \A i \in DOMAIN t : at[i] \in DOMAIN s /\ s[at[i]] = t[i],
         \A i, j \in DOMAIN t : at[i] = at[j] => i = j
  PROVE  Fewer(s, t, e)
<1>1. DOMAIN s = 1 .. Len(s) /\ DOMAIN t = 1 .. Len(t)
  BY SeqParts
<1> QED
  BY <1>1 DEF Fewer, Contains, Once

(* Nothing is added to a list that stays as it is.                         *)
LEMMA FewerItself == \A s, e : Fewer(s, s, e)
BY DEF Fewer

(* What Append returns.                                                    *)
LEMMA AppendParts ==
  ASSUME NEW S, NEW s \in Seq(S), NEW e \in S
  PROVE  /\ Append(s, e) \in Seq(S)
         /\ Append(s, e) # <<>>
         /\ Len(Append(s, e)) = Len(s) + 1
         /\ DOMAIN Append(s, e) = 1 .. Len(s) + 1
         /\ Append(s, e)[Len(s) + 1] = e
         /\ \A i \in 1 .. Len(s) : Append(s, e)[i] = s[i]
<1>1. /\ Append(s, e) \in Seq(S)
      /\ Len(Append(s, e)) = Len(s) + 1
      /\ Append(s, e)[Len(s) + 1] = e
      /\ \A i \in 1 .. Len(s) : Append(s, e)[i] = s[i]
  BY AppendProperties
<1>2. Append(s, e) # <<>> /\ DOMAIN Append(s, e) = 1 .. Len(s) + 1
  BY <1>1, SeqParts
<1> QED
  BY <1>1, <1>2

(* Append brings in one element, at the end.                               *)
LEMMA AppendFewer ==
  ASSUME NEW S, NEW s \in Seq(S), NEW e \in S
  PROVE  /\ \A d : d # e => Fewer(s, Append(s, e), d)
         /\ ~Contains(s, e) => Once(Append(s, e), e)
         /\ Len(s) # 0 => Append(s, e)[1] = s[1]
<1>1. /\ Len(s) \in Nat /\ DOMAIN s = 1 .. Len(s)
      /\ DOMAIN Append(s, e) = 1 .. Len(s) + 1
      /\ Len(Append(s, e)) = Len(s) + 1
      /\ Append(s, e)[Len(s) + 1] = e
      /\ \A i \in 1 .. Len(s) : Append(s, e)[i] = s[i]
  BY SeqParts, AppendParts
<1>2. \A d : d # e => Fewer(s, Append(s, e), d)
  BY <1>1 DEF Fewer, Contains, Once
<1>3. ~Contains(s, e) => Once(Append(s, e), e)
  BY <1>1 DEF Contains, Once
<1> QED
  BY <1>1, <1>2, <1>3

(* A statement that is appended is added to what the others tell.          *)
LEMMA AppendTells ==
  ASSUME NEW S, NEW s \in Seq(S), NEW e \in S, NEW a
  PROVE  /\ Tells(s, a) => Tells(Append(s, e), a)
         /\ e.addr = a /\ e.kind # "goto" => Tells(Append(s, e), a)
<1>1. /\ Len(s) \in Nat /\ DOMAIN s = 1 .. Len(s)
      /\ DOMAIN Append(s, e) = 1 .. Len(s) + 1
      /\ Append(s, e)[Len(s) + 1] = e
      /\ \A i \in 1 .. Len(s) : Append(s, e)[i] = s[i]
  BY SeqParts, AppendParts
<1> QED
  BY <1>1 DEF Tells

(* Taking one element out leaves a sequence over the same set.             *)
LEMMA RemoveAtParts ==
  ASSUME NEW S, NEW s \in Seq(S), NEW i \in DOMAIN s
  PROVE  RemoveAt(s, i) \in Seq(S)
<1>1. i \in 1 .. Len(s) /\ Len(s) \in Nat /\ \A j \in 1 .. Len(s) : s[j] \in S
  BY SeqParts
<1>2. SubSeq(s, 1, i - 1) \in Seq(S) /\ SubSeq(s, i + 1, Len(s)) \in Seq(S)
  BY <1>1, SubSeqProperties
<1> QED
  BY <1>2, ConcatProperties DEF RemoveAt

(* The elements that are left, one by one.                                 *)
LEMMA RemoveAtIs ==
  ASSUME NEW S, NEW s \in Seq(S), NEW i \in DOMAIN s
  PROVE  /\ DOMAIN RemoveAt(s, i) = 1 .. Len(s) - 1
         /\ \A j \in 1 .. Len(s) - 1 :
               RemoveAt(s, i)[j] = s[IF j < i THEN j ELSE j + 1]
<1>1. i \in 1 .. Len(s) /\ Len(s) \in Nat /\ \A j \in 1 .. Len(s) : s[j] \in S
  BY SeqParts
<1>2. PICK t, u : t = SubSeq(s, 1, i - 1) /\ u = SubSeq(s, i + 1, Len(s))
  OBVIOUS
<1>3. /\ t \in Seq(S) /\ Len(t) = i - 1 /\ \A j \in 1 .. i - 1 : t[j] = s[j]
  <2>1. 1 \in 1 .. Len(s) + 1 /\ i - 1 \in 0 .. Len(s) /\ \A j \in 1 .. i - 1 : s[j] \in S
    BY <1>1
  <2> QED
    BY <1>1, <1>2, <2>1, SubSeqProperties
<1>4. /\ u \in Seq(S) /\ Len(u) = Len(s) - i
      /\ \A j \in 1 .. Len(s) - i : u[j] = s[i + j]
  <2>1. \A j \in i + 1 .. Len(s) : s[j] \in S
    BY <1>1
  <2>2. CASE i = Len(s)
    BY <1>1, <1>2, <2>1, <2>2, SubSeqProperties
  <2>3. CASE i < Len(s)
    <3>1. u \in Seq(S) /\ Len(u) = Len(s) - i
      BY <1>1, <1>2, <2>1, <2>3, SubSeqProperties
    <3>2. \A j \in 1 .. Len(s) - i : u[j] = s[(i + 1) + j - 1]
      BY <1>1, <1>2, <2>1, <2>3, SubSeqProperties
    <3> QED
      BY <1>1, <3>1, <3>2
  <2> QED
    BY <1>1, <2>2, <2>3
<1>5. PICK v : v = t \o u
  OBVIOUS
<1>6. /\ v \in Seq(S)
      /\ Len(v) = Len(t) + Len(u)
      /\ \A j \in 1 .. Len(t) + Len(u) : v[j] = IF j <= Len(t) THEN t[j] ELSE u[j - Len(t)]
  BY <1>3, <1>4, <1>5, ConcatProperties
<1>7. Len(v) = Len(s) - 1 /\ Len(t) + Len(u) = Len(s) - 1 /\ DOMAIN v = 1 .. Len(s) - 1
  BY <1>1, <1>3, <1>4, <1>6, SeqParts
<1>8. ASSUME NEW j \in 1 .. Len(s) - 1
      PROVE  v[j] = s[IF j < i THEN j ELSE j + 1]
  <2>1. v[j] = IF j <= i - 1 THEN t[j] ELSE u[j - (i - 1)]
    BY <1>3, <1>6, <1>7
  <2>2. CASE j < i
    BY <1>1, <1>3, <2>1, <2>2
  <2>3. CASE ~(j < i)
    <3>1. j - (i - 1) \in 1 .. Len(s) - i /\ i + (j - (i - 1)) = j + 1
      BY <1>1, <2>3
    <3>2. u[j - (i - 1)] = s[j + 1]
      BY <1>4, <3>1
    <3> QED
      BY <1>1, <2>1, <2>3, <3>2
  <2> QED
    BY <2>2, <2>3
<1>9. RemoveAt(s, i) = v
  BY <1>2, <1>5 DEF RemoveAt
<1> QED
  BY <1>7, <1>8, <1>9

(* Nothing occurs more often, and what occurred once and is taken out does  *)
(* not occur any more.                                                     *)
LEMMA RemoveAtFewer ==
  ASSUME NEW S, NEW s \in Seq(S), NEW i \in DOMAIN s
  PROVE  /\ \A e : Fewer(s, RemoveAt(s, i), e)
         /\ Once(s, s[i]) => ~Contains(RemoveAt(s, i), s[i])
<1>1. Len(s) \in Nat /\ DOMAIN s = 1 .. Len(s) /\ i \in 1 .. Len(s)
  BY SeqParts
<1>2. PICK t : t = RemoveAt(s, i)
  OBVIOUS
<1>3. /\ DOMAIN t = 1 .. Len(s) - 1
      /\ \A j \in 1 .. Len(s) - 1 : t[j] = s[IF j < i THEN j ELSE j + 1]
  BY <1>2, RemoveAtIs
<1>4. t \in Seq(S)
  BY <1>2, RemoveAtParts
<1>5. DOMAIN t = 1 .. Len(t)
  BY <1>4, SeqParts
<1>6. PICK at : at = [j \in 1 .. Len(s) - 1 |-> IF j < i THEN j ELSE j + 1]
  OBVIOUS
<1>7. \A j \in DOMAIN t : at[j] \in DOMAIN s /\ s[at[j]] = t[j] /\ at[j] # i
  BY <1>1, <1>3, <1>6
<1>8. \A j, k \in DOMAIN t : at[j] = at[k] => j = k
  BY <1>1, <1>3, <1>6
<1>9. \A e : Fewer(s, t, e)
  BY <1>4, <1>7, <1>8, FewerBelow
<1>10. Once(s, s[i]) => ~Contains(t, s[i])
  BY <1>5, <1>7 DEF Once, Contains
<1> QED
  BY <1>2, <1>9, <1>10

(* So does RemoveFirst, whether it finds the element or not.               *)
LEMMA RemoveFirstParts ==
  ASSUME NEW S, NEW s \in Seq(S), NEW e
  PROVE  RemoveFirst(s, e) \in Seq(S)
<1> DEFINE I == {i \in 1 .. Len(s) : s[i] = e}
<1>1. CASE I = {}
  BY <1>1 DEF RemoveFirst
<1>2. CASE I # {}
  <2>1. Len(s) \in Nat /\ DOMAIN s = 1 .. Len(s)
    BY SeqParts
  <2>2. I \in SUBSET Nat
    BY <2>1
  <2>3. Min(I) \in I
    BY <1>2, <2>2, MinExists
  <2>4. SelectInSeq(s, LAMBDA v : v = e) = Min(I)
    BY <1>2 DEF SelectInSeq
  <2>5. RemoveFirst(s, e) = RemoveAt(s, Min(I))
    BY <1>2, <2>4 DEF RemoveFirst
  <2> HIDE DEF I
  <2>6. Min(I) \in DOMAIN s
    BY <2>1, <2>3 DEF I
  <2> QED
    BY <2>5, <2>6, RemoveAtParts
<1> QED
  BY <1>1, <1>2

(* RemoveFirst takes an element out, or finds none.                        *)
LEMMA RemoveFirstIs ==
  ASSUME NEW S, NEW s \in Seq(S), NEW e
  PROVE  \/ RemoveFirst(s, e) = s /\ ~Contains(s, e)
         \/ \E i \in DOMAIN s : s[i] = e /\ RemoveFirst(s, e) = RemoveAt(s, i)
<1> DEFINE I == {i \in 1 .. Len(s) : s[i] = e}
<1>1. CASE I = {}
  BY <1>1 DEF RemoveFirst, Contains
<1>2. CASE I # {}
  <2>1. Len(s) \in Nat /\ DOMAIN s = 1 .. Len(s)
    BY SeqParts
  <2>2. I \in SUBSET Nat
    BY <2>1
  <2>3. Min(I) \in I
    BY <1>2, <2>2, MinExists
  <2>4. SelectInSeq(s, LAMBDA v : v = e) = Min(I)
    BY <1>2 DEF SelectInSeq
  <2>5. RemoveFirst(s, e) = RemoveAt(s, Min(I))
    BY <1>2, <2>4 DEF RemoveFirst
  <2>6. Min(I) \in DOMAIN s /\ s[Min(I)] = e
    BY <2>1, <2>3
  <2> QED
    BY <2>5, <2>6
<1> QED
  BY <1>1, <1>2

(* So nothing occurs more often either, and once is never again.           *)
LEMMA RemoveFirstFewer ==
  ASSUME NEW S, NEW s \in Seq(S), NEW e
  PROVE  /\ \A d : Fewer(s, RemoveFirst(s, e), d)
         /\ Once(s, e) => ~Contains(RemoveFirst(s, e), e)
<1>1. CASE RemoveFirst(s, e) = s /\ ~Contains(s, e)
  BY <1>1, FewerItself
<1>2. ASSUME NEW i \in DOMAIN s, s[i] = e, RemoveFirst(s, e) = RemoveAt(s, i)
      PROVE  /\ \A d : Fewer(s, RemoveFirst(s, e), d)
             /\ Once(s, e) => ~Contains(RemoveFirst(s, e), e)
  BY <1>2, RemoveAtFewer
<1> QED
  BY <1>1, <1>2, RemoveFirstIs

(* ReplaceAll brings in the new element only, and empties nothing.         *)
LEMMA ReplaceAllParts ==
  ASSUME NEW S, NEW s \in Seq(S), NEW old, NEW new \in S
  PROVE  /\ ReplaceAll(s, old, new) \in Seq(S)
         /\ s # <<>> => ReplaceAll(s, old, new) # <<>>
<1>1. Len(s) \in Nat /\ DOMAIN s = 1 .. Len(s) /\ \A i \in DOMAIN s : s[i] \in S
  BY SeqParts
<1>2. ReplaceAll(s, old, new) \in [1 .. Len(s) -> S]
  BY <1>1 DEF ReplaceAll
<1>3. ReplaceAll(s, old, new) \in Seq(S) /\ Len(ReplaceAll(s, old, new)) = Len(s)
  BY <1>1, <1>2
<1> QED
  BY <1>3, SeqParts

(* An element that is replaced. *)
LEMMA ExceptParts ==
  ASSUME NEW S, NEW s \in Seq(S), NEW i \in DOMAIN s, NEW e \in S
  PROVE  /\ [s EXCEPT ![i] = e] \in Seq(S)
         /\ [s EXCEPT ![i] = e] # <<>>
<1>1. Len(s) \in Nat /\ DOMAIN s = 1 .. Len(s)
  BY SeqParts
<1>2. [s EXCEPT ![i] = e] \in Seq(S) /\ Len([s EXCEPT ![i] = e]) = Len(s)
  BY <1>1, ExceptSeq
<1>3. Len(s) # 0
  BY <1>1
<1> QED
  BY <1>2, <1>3, SeqParts

-------------------------------------------------------------------------------
(* Fields of blocks. *)

(* A graph in which one block is replaced.                                 *)
LEMMA BlockPut ==
  ASSUME NEW g \in Graphs, NEW b \in DOMAIN g.heap, NEW x \in BlockSet,
         NEW h, h = [heap |-> [g.heap EXCEPT ![b] = x], procs |-> g.procs]
  PROVE  /\ h \in Graphs
         /\ h.procs = g.procs
         /\ DOMAIN h.heap = DOMAIN g.heap
         /\ Len(h.heap) = Len(g.heap)
         /\ \A c \in DOMAIN g.heap : h.heap[c] = IF c = b THEN x ELSE g.heap[c]
<1>1. /\ g.heap \in Seq(BlockSet) /\ b \in 1 .. Len(g.heap)
      /\ Len(g.heap) \in Nat /\ DOMAIN g.heap = 1 .. Len(g.heap)
      /\ DOMAIN g.procs \in SUBSET Addresses /\ g.procs \in [DOMAIN g.procs -> ProcSet]
  BY GraphParts
<1>2. [g.heap EXCEPT ![b] = x] \in Seq(BlockSet)
  BY <1>1, ExceptSeq
<1>3. Len([g.heap EXCEPT ![b] = x]) = Len(g.heap)
  BY <1>1, ExceptSeq
<1>4. h \in Graphs
  BY <1>1, <1>2, GraphMade
<1> QED
  BY <1>1, <1>3, <1>4

(* A block with another field. *)
LEMMA FieldPut ==
  ASSUME NEW x \in BlockSet, NEW s
  PROVE  /\ [x EXCEPT !.succ = s] =
               [role |-> x.role, proc |-> x.proc, addr |-> x.addr,
                stms |-> x.stms, succ |-> s, pred |-> x.pred]
         /\ [x EXCEPT !.pred = s] =
               [role |-> x.role, proc |-> x.proc, addr |-> x.addr,
                stms |-> x.stms, succ |-> x.succ, pred |-> s]
         /\ [x EXCEPT !.stms = s] =
               [role |-> x.role, proc |-> x.proc, addr |-> x.addr,
                stms |-> s, succ |-> x.succ, pred |-> x.pred]
<1>1. PICK r, p, a, t, u, q :
         x = [role |-> r, proc |-> p, addr |-> a, stms |-> t, succ |-> u, pred |-> q]
  BY BlockParts
<1> QED
  BY <1>1

(* One field of one block is set.                                          *)
WithSucc(g, b, s) == [g EXCEPT !.heap[b].succ = s]
WithPred(g, b, s) == [g EXCEPT !.heap[b].pred = s]
WithStms(g, b, s) == [g EXCEPT !.heap[b].stms = s]

(* WithSucc changes the successors of one block and nothing else.          *)
LEMMA SetSucc ==
  ASSUME NEW g \in Graphs, NEW b \in DOMAIN g.heap, NEW s \in Seq(Nat), NEW h
  PROVE  h = WithSucc(g, b, s) =>
         /\ h \in Graphs
         /\ SameNodes(g, h)
         /\ \A c \in DOMAIN g.heap :
               /\ h.heap[c].stms = g.heap[c].stms
               /\ h.heap[c].succ = IF c = b THEN s ELSE g.heap[c].succ
               /\ h.heap[c].pred = g.heap[c].pred
<1>h. HAVE h = WithSucc(g, b, s)
<1> USE <1>h
<1>1. PICK x : x = g.heap[b] /\ x \in BlockSet
  BY GraphParts
<1>2. PICK y : y = [role |-> x.role, proc |-> x.proc, addr |-> x.addr,
                    stms |-> x.stms, succ |-> s, pred |-> x.pred]
  OBVIOUS
<1>3. y \in BlockSet
  BY <1>1, <1>2, BlockParts DEF BlockSet
<1>4. [x EXCEPT !.succ = s] = y
  BY <1>1, <1>2, FieldPut
<1>5. h = [heap |-> [g.heap EXCEPT ![b] = y], procs |-> g.procs]
  BY <1>1, <1>4 DEF Graphs, WithSucc
<1>6. /\ h \in Graphs
      /\ h.procs = g.procs
      /\ DOMAIN h.heap = DOMAIN g.heap
      /\ Len(h.heap) = Len(g.heap)
      /\ \A c \in DOMAIN g.heap : h.heap[c] = IF c = b THEN y ELSE g.heap[c]
  <2> HIDE <1>h
  <2> QED
    BY <1>3, <1>5, BlockPut
<1> QED
  BY <1>1, <1>2, <1>6 DEF SameNodes

(* WithPred changes the predecessors of one block and nothing else.        *)
LEMMA SetPred ==
  ASSUME NEW g \in Graphs, NEW b \in DOMAIN g.heap, NEW s \in Seq(Nat), NEW h
  PROVE  h = WithPred(g, b, s) =>
         /\ h \in Graphs
         /\ SameNodes(g, h)
         /\ \A c \in DOMAIN g.heap :
               /\ h.heap[c].stms = g.heap[c].stms
               /\ h.heap[c].succ = g.heap[c].succ
               /\ h.heap[c].pred = IF c = b THEN s ELSE g.heap[c].pred
<1>h. HAVE h = WithPred(g, b, s)
<1> USE <1>h
<1>1. PICK x : x = g.heap[b] /\ x \in BlockSet
  BY GraphParts
<1>2. PICK y : y = [role |-> x.role, proc |-> x.proc, addr |-> x.addr,
                    stms |-> x.stms, succ |-> x.succ, pred |-> s]
  OBVIOUS
<1>3. y \in BlockSet
  BY <1>1, <1>2, BlockParts DEF BlockSet
<1>4. [x EXCEPT !.pred = s] = y
  BY <1>1, <1>2, FieldPut
<1>5. h = [heap |-> [g.heap EXCEPT ![b] = y], procs |-> g.procs]
  BY <1>1, <1>4 DEF Graphs, WithPred
<1>6. /\ h \in Graphs
      /\ h.procs = g.procs
      /\ DOMAIN h.heap = DOMAIN g.heap
      /\ Len(h.heap) = Len(g.heap)
      /\ \A c \in DOMAIN g.heap : h.heap[c] = IF c = b THEN y ELSE g.heap[c]
  <2> HIDE <1>h
  <2> QED
    BY <1>3, <1>5, BlockPut
<1> QED
  BY <1>1, <1>2, <1>6 DEF SameNodes

(* WithStms changes the statements of one block and nothing else.          *)
LEMMA SetStms ==
  ASSUME NEW g \in Graphs, NEW b \in DOMAIN g.heap, NEW s \in Seq(StmSet), NEW h
  PROVE  h = WithStms(g, b, s) =>
         /\ h \in Graphs
         /\ SameNodes(g, h)
         /\ \A c \in DOMAIN g.heap :
               /\ h.heap[c].stms = IF c = b THEN s ELSE g.heap[c].stms
               /\ h.heap[c].succ = g.heap[c].succ
               /\ h.heap[c].pred = g.heap[c].pred
<1>h. HAVE h = WithStms(g, b, s)
<1> USE <1>h
<1>1. PICK x : x = g.heap[b] /\ x \in BlockSet
  BY GraphParts
<1>2. PICK y : y = [role |-> x.role, proc |-> x.proc, addr |-> x.addr,
                    stms |-> s, succ |-> x.succ, pred |-> x.pred]
  OBVIOUS
<1>3. y \in BlockSet
  BY <1>1, <1>2, BlockParts DEF BlockSet
<1>4. [x EXCEPT !.stms = s] = y
  BY <1>1, <1>2, FieldPut
<1>5. h = [heap |-> [g.heap EXCEPT ![b] = y], procs |-> g.procs]
  BY <1>1, <1>4 DEF Graphs, WithStms
<1>6. /\ h \in Graphs
      /\ h.procs = g.procs
      /\ DOMAIN h.heap = DOMAIN g.heap
      /\ Len(h.heap) = Len(g.heap)
      /\ \A c \in DOMAIN g.heap : h.heap[c] = IF c = b THEN y ELSE g.heap[c]
  <2> HIDE <1>h
  <2> QED
    BY <1>3, <1>5, BlockPut
<1> QED
  BY <1>1, <1>2, <1>6 DEF SameNodes
-------------------------------------------------------------------------------
(* Operations on graphs. *)

(* What the fields of blocks hold. *)
LEMMA WellParts ==
  ASSUME NEW X, NEW g, Well(g, X)
  PROVE  /\ g \in Graphs
         /\ Len(g.heap) \in Nat
         /\ DOMAIN g.heap = 1 .. Len(g.heap)
         /\ \A b \in DOMAIN g.heap :
               /\ g.heap[b] \in BlockSet
               /\ b \in Nat
               /\ g.heap[b].role \in Roles
               /\ g.heap[b].proc \in DOMAIN g.procs
               /\ g.heap[b].addr \in Int
               /\ g.heap[b].stms \in Seq(StmSet)
               /\ g.heap[b].succ \in Seq(Ends(g))
               /\ g.heap[b].pred \in Seq(Starts(g))
               /\ g.heap[b].succ \in Seq(Nat)
               /\ g.heap[b].pred \in Seq(Nat)
<1>1. /\ g \in Graphs /\ \A b \in DOMAIN g.heap : g.heap[b] \in BlockSet
      /\ Len(g.heap) \in Nat /\ DOMAIN g.heap = 1 .. Len(g.heap)
  BY GraphParts DEF Well
<1> SUFFICES ASSUME NEW b \in DOMAIN g.heap
             PROVE  /\ b \in Nat
                    /\ g.heap[b].role \in Roles
                    /\ g.heap[b].proc \in DOMAIN g.procs
                    /\ g.heap[b].addr \in Int
                    /\ g.heap[b].stms \in Seq(StmSet)
                    /\ g.heap[b].succ \in Seq(Ends(g))
                    /\ g.heap[b].pred \in Seq(Starts(g))
                    /\ g.heap[b].succ \in Seq(Nat)
                    /\ g.heap[b].pred \in Seq(Nat)
  BY <1>1
<1>2. /\ g.heap[b].role \in Roles
      /\ g.heap[b].addr \in Int
      /\ g.heap[b].stms \in Seq(StmSet)
      /\ g.heap[b].succ \in Seq(Nat)
      /\ g.heap[b].pred \in Seq(Nat)
  BY <1>1, BlockParts
<1>3. /\ g.heap[b].proc \in DOMAIN g.procs
      /\ g.heap[b].succ \in Seq(Ends(g))
      /\ g.heap[b].pred \in Seq(Starts(g))
  BY DEF Well, BlocksFit
<1> QED
  BY <1>1, <1>2, <1>3

(* Predecessors stay such that an edge may come from them. *)
LEMMA PredKept ==
  ASSUME NEW X, NEW g, Well(g, X), NEW h, SameNodes(g, h), EntriesKept(g, h),
         NEW b \in DOMAIN g.heap
  PROVE  g.heap[b].pred \in Seq(Starts(h))
<1>1. g.heap[b].pred \in Seq(Starts(g))
  BY WellParts
<1> QED
  BY <1>1, EndsKept, SeqMonotonic

(* An entry that leads nowhere is nobody's predecessor and has no statement. *)
LEMMA EntryUnused ==
  ASSUME NEW X, NEW g, Well(g, X), NEW e \in DOMAIN g.heap, g.heap[e].role = "entry",
         g.heap[e].succ = <<>>
  PROVE  /\ g.heap[e].stms = <<>>
         /\ \A b \in DOMAIN g.heap : ~Contains(g.heap[b].pred, e)
<1>1. g.heap[e].stms = <<>>
  BY DEF Well, EntriesFit
<1>2. ASSUME NEW b \in DOMAIN g.heap, Contains(g.heap[b].pred, e)
      PROVE  FALSE
  <2>1. g.heap[b].pred \in Seq(Starts(g))
    BY WellParts
  <2>2. \A i \in 1 .. Len(g.heap[b].pred) : g.heap[b].pred[i] \in Starts(g)
    BY <2>1, SeqParts
  <2>3. e \in Starts(g)
    BY <1>2, <2>2 DEF Contains
  <2> QED
    BY <2>3 DEF Starts
<1> QED
  BY <1>1, <1>2

(* Entries fit as before while they have the same statements and turn up   *)
(* among the predecessors of code no more often; only an entry that led    *)
(* nowhere may become the predecessor of what it leads to now.             *)
LEMMA EntriesStay ==
  ASSUME NEW X, NEW g, Well(g, X), NEW h, SameNodes(g, h), EntriesKept(g, h),
         \A e \in DOMAIN g.heap : g.heap[e].role = "entry" => h.heap[e].stms = g.heap[e].stms,
         \A b, e \in DOMAIN g.heap :
            g.heap[b].role \in Inner /\ g.heap[e].role = "entry" =>
               \/ Fewer(g.heap[b].pred, h.heap[b].pred, e)
               \/ /\ g.heap[e].succ = <<>>
                  /\ h.heap[e].succ[1] = b
                  /\ Once(h.heap[b].pred, e)
  PROVE  EntriesFit(h, X)
<1> SUFFICES ASSUME NEW e \in DOMAIN h.heap, h.heap[e].role = "entry"
             PROVE  /\ h.heap[e].stms # <<>> => h.heap[e].succ # <<>>
                    /\ \A b \in DOMAIN h.heap :
                          h.heap[b].role \in Inner /\ Contains(h.heap[b].pred, e) =>
                             /\ h.heap[e].succ[1] = b
                             /\ Once(h.heap[b].pred, e)
                             /\ b \in X.blocks \/ h.heap[e].stms = <<>>
  BY DEF EntriesFit
<1>1. e \in DOMAIN g.heap /\ g.heap[e].role = "entry" /\ h.heap[e].stms = g.heap[e].stms
  BY DEF SameNodes
<1>2. h.heap[e].stms # <<>> => h.heap[e].succ # <<>>
  BY <1>1 DEF Well, EntriesFit, EntriesKept
<1>3. ASSUME NEW b \in DOMAIN h.heap, h.heap[b].role \in Inner, Contains(h.heap[b].pred, e)
      PROVE  /\ h.heap[e].succ[1] = b
             /\ Once(h.heap[b].pred, e)
             /\ b \in X.blocks \/ h.heap[e].stms = <<>>
  <2>1. b \in DOMAIN g.heap /\ g.heap[b].role \in Inner
    BY <1>3 DEF SameNodes
  <2>2. CASE g.heap[e].succ = <<>> /\ h.heap[e].succ[1] = b /\ Once(h.heap[b].pred, e)
    BY <1>1, <2>2, EntryUnused
  <2>3. CASE Fewer(g.heap[b].pred, h.heap[b].pred, e)
    <3>1. Contains(g.heap[b].pred, e)
      BY <1>3, <2>3 DEF Fewer
    <3>2. /\ g.heap[e].succ[1] = b
          /\ Once(g.heap[b].pred, e)
          /\ b \in X.blocks \/ g.heap[e].stms = <<>>
      BY <1>1, <2>1, <3>1 DEF Well, EntriesFit
    <3>3. g.heap[e].succ # <<>>
      BY <1>1, <2>1, <3>1, EntryUnused
    <3> QED
      BY <1>1, <2>3, <3>2, <3>3 DEF Fewer, EntriesKept
  <2> QED
    BY <1>1, <2>1, <2>2, <2>3
<1> QED
  BY <1>2, <1>3

(* No statement is lost where the lists of statements are the same.        *)
LEMMA ToldAsBefore ==
  ASSUME NEW g, NEW h, DOMAIN g.heap \subseteq DOMAIN h.heap,
         \A c \in DOMAIN g.heap : /\ h.heap[c].role = g.heap[c].role
                                 /\ h.heap[c].stms = g.heap[c].stms
  PROVE  ToldStays(g, h)
BY DEF ToldStays, Told

(* Entries fit where edges and statements are the same and new blocks have  *)
(* neither.                                                                *)
LEMMA EntriesAsBefore ==
  ASSUME NEW X, NEW g, Well(g, X), NEW h, DOMAIN g.heap \subseteq DOMAIN h.heap,
         \A b \in DOMAIN g.heap : /\ h.heap[b].role = g.heap[b].role
                                 /\ h.heap[b].stms = g.heap[b].stms
                                 /\ h.heap[b].succ = g.heap[b].succ
                                 /\ h.heap[b].pred = g.heap[b].pred,
         \A b \in DOMAIN h.heap \ DOMAIN g.heap : /\ h.heap[b].stms = <<>>
                                                 /\ h.heap[b].succ = <<>>
                                                 /\ h.heap[b].pred = <<>>
  PROVE  EntriesFit(h, X)
<1>1. \A e : ~Contains(<<>>, e)
  <2>1. Len(<<>>) = 0
    BY EmptySeq
  <2> QED
    BY <2>1 DEF Contains
<1> SUFFICES ASSUME NEW e \in DOMAIN h.heap, h.heap[e].role = "entry"
             PROVE  /\ h.heap[e].stms # <<>> => h.heap[e].succ # <<>>
                    /\ \A b \in DOMAIN h.heap :
                          h.heap[b].role \in Inner /\ Contains(h.heap[b].pred, e) =>
                             /\ h.heap[e].succ[1] = b
                             /\ Once(h.heap[b].pred, e)
                             /\ b \in X.blocks \/ h.heap[e].stms = <<>>
  BY DEF EntriesFit
<1>2. CASE e \notin DOMAIN g.heap
  <2>1. ASSUME NEW b \in DOMAIN h.heap, Contains(h.heap[b].pred, e) PROVE FALSE
    <3>1. b \in DOMAIN g.heap /\ Contains(g.heap[b].pred, e)
      BY <1>1, <2>1
    <3>2. g.heap[b].pred \in Seq(Starts(g))
      BY <3>1, WellParts
    <3>3. \A i \in 1 .. Len(g.heap[b].pred) : g.heap[b].pred[i] \in Starts(g)
      BY <3>2, SeqParts
    <3> QED
      BY <1>2, <3>1, <3>3 DEF Contains, Starts
  <2> QED
    BY <1>2, <2>1
<1>3. CASE e \in DOMAIN g.heap
  BY <1>1, <1>3 DEF Well, EntriesFit
<1> QED
  BY <1>2, <1>3

(* An entry may have statements once its edge is cut off.                  *)
MayTell(g, X, b) ==
    g.heap[b].role = "entry" =>
       /\ g.heap[b].succ # <<>>
       /\ \A c \in DOMAIN g.heap :
             g.heap[c].role \in Inner /\ Contains(g.heap[c].pred, b) => c \in X.blocks

(* With s for the statements of b, none is lost.                           *)
StillTold(g, b, s) ==
    \A a \in Addresses :
       g.heap[b].role = "code" /\ Tells(g.heap[b].stms, a) =>
          \/ Tells(s, a)
          \/ \E c \in DOMAIN g.heap : /\ c # b
                                     /\ g.heap[c].role = "code"
                                     /\ Tells(g.heap[c].stms, a)

(* Other statements of a block that is no entry, if none is lost.          *)
LEMMA StmsChanged ==
  ASSUME NEW X, NEW g, Well(g, X), NEW b \in DOMAIN g.heap, NEW s \in Seq(StmSet),
         MayTell(g, X, b), StillTold(g, b, s), NEW h
  PROVE  h = WithStms(g, b, s) =>
         /\ Well(h, X) /\ Keeps(g, h) /\ SameNodes(g, h)
         /\ \A c \in DOMAIN g.heap :
               /\ h.heap[c].stms = IF c = b THEN s ELSE g.heap[c].stms
               /\ h.heap[c].succ = g.heap[c].succ
               /\ h.heap[c].pred = g.heap[c].pred
<1>h. HAVE h = WithStms(g, b, s)
<1> USE <1>h
<1>1. /\ h \in Graphs
      /\ SameNodes(g, h)
      /\ \A c \in DOMAIN g.heap :
            /\ h.heap[c].stms = IF c = b THEN s ELSE g.heap[c].stms
            /\ h.heap[c].succ = g.heap[c].succ
            /\ h.heap[c].pred = g.heap[c].pred
  BY SetStms DEF Well
<1> HIDE <1>h
<1>2. EntriesKept(g, h)
  BY <1>1 DEF EntriesKept
<1>3. \A c \in DOMAIN g.heap : h.heap[c].pred \in Seq(Starts(h))
  BY <1>1, <1>2, PredKept
<1>4. \A c \in DOMAIN g.heap : h.heap[c].succ \in Seq(Ends(g))
  BY <1>1, WellParts
<1>6. ToldStays(g, h)
  <2> SUFFICES ASSUME NEW a \in Addresses, Told(g, a) PROVE Told(h, a)
    BY DEF ToldStays
  <2>1. PICK c \in DOMAIN g.heap : g.heap[c].role = "code" /\ Tells(g.heap[c].stms, a)
    BY DEF Told
  <2>2. CASE c # b
    BY <1>1, <2>1, <2>2 DEF Told, SameNodes
  <2>3. CASE c = b
    BY <1>1, <2>1, <2>3 DEF Told, SameNodes, StillTold
  <2> QED
    BY <2>2, <2>3
<1>7. EntriesFit(h, X)
  <2> SUFFICES ASSUME NEW e \in DOMAIN g.heap, g.heap[e].role = "entry"
               PROVE  /\ h.heap[e].stms # <<>> => h.heap[e].succ # <<>>
                      /\ \A c \in DOMAIN g.heap :
                            g.heap[c].role \in Inner /\ Contains(h.heap[c].pred, e) =>
                               /\ h.heap[e].succ[1] = c
                               /\ Once(h.heap[c].pred, e)
                               /\ c \in X.blocks \/ h.heap[e].stms = <<>>
    BY <1>1 DEF EntriesFit, SameNodes
  <2>1. /\ g.heap[e].stms # <<>> => g.heap[e].succ # <<>>
        /\ \A c \in DOMAIN g.heap :
              g.heap[c].role \in Inner /\ Contains(g.heap[c].pred, e) =>
                 /\ g.heap[e].succ[1] = c
                 /\ Once(g.heap[c].pred, e)
                 /\ c \in X.blocks \/ g.heap[e].stms = <<>>
    BY DEF Well, EntriesFit
  <2>2. CASE e # b
    BY <1>1, <2>1, <2>2
  <2>3. CASE e = b
    BY <1>1, <2>1, <2>3 DEF MayTell
  <2> QED
    BY <2>2, <2>3
<1>8. EntriesShut(g, h)
  BY <1>1 DEF EntriesShut
<1>5. Well(h, X) /\ Keeps(g, h)
  BY <1>1, <1>2, <1>3, <1>4, <1>6, <1>7, <1>8, EdgesChanged
<1> QED
  BY <1>1, <1>5

(* So may a statement that is added. *)
LEMMA EmitKeeps ==
  ASSUME NEW X, NEW g, Well(g, X), NEW b \in DOMAIN g.heap,
         MayTell(g, X, b),
         NEW addr \in Int, NEW kind \in Kinds, NEW to \in Addresses \cup {None},
         NEW h
  PROVE  h = Emit(g, b, addr, kind, to) =>
         /\ Well(h, X) /\ Keeps(g, h) /\ SameNodes(g, h)
         /\ \A c \in DOMAIN g.heap :
               /\ c # b => h.heap[c].stms = g.heap[c].stms
               /\ h.heap[c].succ = g.heap[c].succ
               /\ h.heap[c].pred = g.heap[c].pred
         /\ h.heap[b].stms # <<>>
         /\ h.heap[b].stms = Append(g.heap[b].stms, Stm(addr, kind, to))
         /\ kind # "goto" => Tells(h.heap[b].stms, addr)
<1>h. HAVE h = Emit(g, b, addr, kind, to)
<1> USE <1>h
<1>1. PICK s : s = Append(g.heap[b].stms, Stm(addr, kind, to))
  OBVIOUS
<1>2. /\ s \in Seq(StmSet) /\ s # <<>>
      /\ \A a : Tells(g.heap[b].stms, a) => Tells(s, a)
      /\ kind # "goto" => Tells(s, addr)
  <2>1. PICK e : e = Stm(addr, kind, to)
    OBVIOUS
  <2>2. e \in StmSet /\ e.addr = addr /\ e.kind = kind
    BY <2>1 DEF Stm, StmSet
  <2>3. g.heap[b].stms \in Seq(StmSet)
    BY WellParts
  <2>4. s = Append(g.heap[b].stms, e)
    BY <1>1, <2>1
  <2>5. s \in Seq(StmSet) /\ s # <<>>
    BY <2>2, <2>3, <2>4, AppendParts
  <2>6. \A a : /\ Tells(g.heap[b].stms, a) => Tells(s, a)
               /\ e.addr = a /\ e.kind # "goto" => Tells(s, a)
    BY <2>2, <2>3, <2>4, AppendTells
  <2> QED
    BY <2>2, <2>5, <2>6
<1>3. h = WithStms(g, b, s)
  BY <1>1 DEF Emit, WithStms
<1>4. StillTold(g, b, s)
  BY <1>2 DEF StillTold
<1> HIDE <1>h
<1>5. /\ Well(h, X) /\ Keeps(g, h) /\ SameNodes(g, h)
      /\ \A c \in DOMAIN g.heap :
            /\ c # b => h.heap[c].stms = g.heap[c].stms
            /\ h.heap[c].succ = g.heap[c].succ
            /\ h.heap[c].pred = g.heap[c].pred
      /\ h.heap[b].stms = s
  BY <1>2, <1>3, <1>4, StmsChanged
<1> QED
  BY <1>1, <1>2, <1>5, Zenon

(* What a statement at the end of block b makes of a graph.                *)
EmitFits(g, h, b, addr, kind, to, X) ==
    /\ Well(h, X) /\ Keeps(g, h) /\ SameNodes(g, h)
    /\ \A c \in DOMAIN g.heap :
          /\ c # b => h.heap[c].stms = g.heap[c].stms
          /\ h.heap[c].succ = g.heap[c].succ
          /\ h.heap[c].pred = g.heap[c].pred
    /\ h.heap[b].stms # <<>>
    /\ h.heap[b].stms = Append(g.heap[b].stms, Stm(addr, kind, to))
    /\ kind # "goto" => Tells(h.heap[b].stms, addr)

(* The same, in one piece, for those who add one.                          *)
LEMMA EmitMade ==
  ASSUME NEW X, NEW g, Well(g, X), NEW b \in DOMAIN g.heap,
         MayTell(g, X, b),
         NEW addr \in Int, NEW kind \in Kinds, NEW to \in Addresses \cup {None},
         NEW h
  PROVE  h = Emit(g, b, addr, kind, to) => EmitFits(g, h, b, addr, kind, to, X)
<1>h. HAVE h = Emit(g, b, addr, kind, to)
<1>1. h = Emit(g, b, addr, kind, to) =>
         /\ Well(h, X) /\ Keeps(g, h) /\ SameNodes(g, h)
         /\ \A c \in DOMAIN g.heap :
               /\ c # b => h.heap[c].stms = g.heap[c].stms
               /\ h.heap[c].succ = g.heap[c].succ
               /\ h.heap[c].pred = g.heap[c].pred
         /\ h.heap[b].stms # <<>>
         /\ h.heap[b].stms = Append(g.heap[b].stms, Stm(addr, kind, to))
         /\ kind # "goto" => Tells(h.heap[b].stms, addr)
  BY EmitKeeps
<1> QED
  BY <1>h, <1>1, Zenon DEF EmitFits

(* The lists of successors of one block and of predecessors of another may  *)
(* change together, if they stay such.                                      *)
Sources(g, from, s) ==
    {b \in DOMAIN g.heap :
        b \in Starts(g) \/ (b = from /\ g.heap[from].role # "exit" /\ s # <<>>)}

(* The successors of one end and the predecessors of the other are         *)
(* replaced: BlockGraph's AddEdge and RemoveEdge are both of this kind.    *)
LEMMA EdgePut ==
  ASSUME NEW X, NEW g, Well(g, X), NEW from \in DOMAIN g.heap, NEW to \in DOMAIN g.heap,
         NEW s \in Seq(Ends(g)),
         g.heap[from].role = "entry" /\ g.heap[from].succ # <<>> =>
            s # <<>> /\ s[1] = g.heap[from].succ[1],
         NEW p \in Seq(Sources(g, from, s)),
         \A e \in DOMAIN g.heap :
            g.heap[to].role \in Inner /\ g.heap[e].role = "entry" =>
               \/ Fewer(g.heap[to].pred, p, e)
               \/ g.heap[e].succ = <<>> /\ e = from /\ s[1] = to /\ Once(p, e),
         NEW h
  PROVE  h = WithPred(WithSucc(g, from, s), to, p) =>
         /\ Well(h, X) /\ Grows(g, h) /\ SameNodes(g, h)
         /\ g.heap[from].role # "entry" \/ g.heap[from].succ # <<>> => Keeps(g, h)
         /\ \A c \in DOMAIN g.heap :
               /\ h.heap[c].stms = g.heap[c].stms
               /\ h.heap[c].succ = IF c = from THEN s ELSE g.heap[c].succ
               /\ h.heap[c].pred = IF c = to THEN p ELSE g.heap[c].pred
<1>h. HAVE h = WithPred(WithSucc(g, from, s), to, p)
<1> USE <1>h
<1>1. PICK k : k = WithSucc(g, from, s)
  OBVIOUS
<1>2. g \in Graphs /\ s \in Seq(Nat) /\ p \in Seq(Nat)
  <2>1. /\ g \in Graphs /\ DOMAIN g.heap \subseteq Nat
        /\ Ends(g) \subseteq Nat
        /\ Sources(g, from, s) \subseteq Nat
    BY WellParts DEF Ends, Sources
  <2> QED
    BY <2>1, SeqMonotonic
<1>4. /\ k \in Graphs /\ SameNodes(g, k)
      /\ \A c \in DOMAIN g.heap :
            /\ k.heap[c].stms = g.heap[c].stms
            /\ k.heap[c].succ = IF c = from THEN s ELSE g.heap[c].succ
            /\ k.heap[c].pred = g.heap[c].pred
  BY <1>1, <1>2, SetSucc
<1>3. h = WithPred(k, to, p)
  BY <1>1
<1> HIDE <1>h
<1>5. /\ h \in Graphs /\ SameNodes(k, h)
      /\ \A c \in DOMAIN k.heap :
            /\ h.heap[c].stms = k.heap[c].stms
            /\ h.heap[c].succ = k.heap[c].succ
            /\ h.heap[c].pred = IF c = to THEN p ELSE k.heap[c].pred
  <2>1. k \in Graphs /\ to \in DOMAIN k.heap /\ p \in Seq(Nat)
    BY <1>2, <1>4 DEF SameNodes
  <2> QED
    BY <1>3, <2>1, SetPred
<1>6. /\ SameNodes(g, h)
      /\ \A c \in DOMAIN g.heap :
            /\ h.heap[c].stms = g.heap[c].stms
            /\ h.heap[c].succ = IF c = from THEN s ELSE g.heap[c].succ
            /\ h.heap[c].pred = IF c = to THEN p ELSE g.heap[c].pred
  BY <1>4, <1>5 DEF SameNodes
<1>7. EntriesKept(g, h)
  BY <1>6 DEF EntriesKept
<1>12. EntriesFit(h, X)
  <2>1. \A c, e \in DOMAIN g.heap :
           g.heap[c].role \in Inner /\ g.heap[e].role = "entry" =>
              \/ Fewer(g.heap[c].pred, h.heap[c].pred, e)
              \/ /\ g.heap[e].succ = <<>>
                 /\ h.heap[e].succ[1] = c
                 /\ Once(h.heap[c].pred, e)
    BY <1>6, FewerItself
  <2> QED
    BY <1>6, <1>7, <2>1, EntriesStay
<1>13. ToldStays(g, h)
  BY <1>6, ToldAsBefore DEF SameNodes
<1>8. \A c \in DOMAIN g.heap : h.heap[c].succ \in Seq(Ends(g))
  BY <1>6, WellParts
<1>9. p \in Seq(Starts(h))
  <2>1. Starts(g) \subseteq Starts(h)
    BY <1>6, <1>7, EndsKept
  <2>2. Sources(g, from, s) \subseteq Starts(h)
    BY <1>6, <2>1 DEF Sources, Starts, SameNodes
  <2> QED
    BY <2>1, <2>2, SeqMonotonic
<1>10. \A c \in DOMAIN g.heap : h.heap[c].pred \in Seq(Starts(h))
  BY <1>6, <1>7, <1>9, PredKept
<1>14. g.heap[from].role # "entry" \/ g.heap[from].succ # <<>> => EntriesShut(g, h)
  BY <1>6 DEF EntriesShut
<1>11. /\ Well(h, X) /\ Grows(g, h)
       /\ g.heap[from].role # "entry" \/ g.heap[from].succ # <<>> => Keeps(g, h)
  BY <1>14, <1>5, <1>6, <1>7, <1>8, <1>10, <1>12, <1>13, EdgesChanged
<1> QED
  BY <1>6, <1>11

(* An edge may leave any block but an exit and lead to any but an entry;   *)
(* from an entry a second one leads to an exit.  The first edge from an    *)
(* entry enters the procedure.                                             *)
LEMMA AddEdgeKeeps ==
  ASSUME NEW X, NEW g, Well(g, X), NEW from \in DOMAIN g.heap, g.heap[from].role # "exit",
         NEW to \in Ends(g),
         g.heap[from].role # "entry" \/ g.heap[from].succ = <<>> \/ g.heap[to].role = "exit",
         NEW h
  PROVE  h = AddEdge(g, from, to) =>
         /\ Well(h, X) /\ Grows(g, h) /\ SameNodes(g, h)
         /\ g.heap[from].role # "entry" \/ g.heap[from].succ # <<>> => Keeps(g, h)
         /\ \A c \in DOMAIN g.heap :
               /\ h.heap[c].stms = g.heap[c].stms
               /\ h.heap[c].succ = IF c = from THEN Append(g.heap[c].succ, to)
                                   ELSE g.heap[c].succ
               /\ c # to => h.heap[c].pred = g.heap[c].pred
         /\ h.heap[from].succ # <<>>
         /\ g.heap[from].succ = <<>> => h.heap[from].succ[1] = to
<1>h. HAVE h = AddEdge(g, from, to)
<1> USE <1>h
<1>1. PICK s, p : s = Append(g.heap[from].succ, to) /\ p = Append(g.heap[to].pred, from)
  OBVIOUS
<1>2. /\ s \in Seq(Ends(g)) /\ s # <<>>
      /\ g.heap[from].succ # <<>> => s[1] = g.heap[from].succ[1]
      /\ g.heap[from].succ = <<>> => s[1] = to
  <2>1. g.heap[from].succ \in Seq(Ends(g))
    BY WellParts
  <2>2. g.heap[from].succ # <<>> => Len(g.heap[from].succ) # 0
    BY <2>1, SeqParts
  <2>3. g.heap[from].succ = <<>> => Len(g.heap[from].succ) = 0
    BY <2>1, SeqParts
  <2>4. s \in Seq(Ends(g)) /\ s # <<>> /\ s[Len(g.heap[from].succ) + 1] = to
    BY <1>1, <2>1, AppendParts
  <2>5. Len(g.heap[from].succ) # 0 => s[1] = g.heap[from].succ[1]
    BY <1>1, <2>1, AppendFewer
  <2> QED
    BY <2>2, <2>3, <2>4, <2>5
<1>3. to \in DOMAIN g.heap
  BY DEF Ends
<1>c. \A e \in DOMAIN g.heap :
         g.heap[to].role \in Inner /\ g.heap[e].role = "entry" =>
            \/ Fewer(g.heap[to].pred, p, e)
            \/ g.heap[e].succ = <<>> /\ e = from /\ s[1] = to /\ Once(p, e)
  <2> SUFFICES ASSUME NEW e \in DOMAIN g.heap, g.heap[to].role \in Inner,
                      g.heap[e].role = "entry"
               PROVE  \/ Fewer(g.heap[to].pred, p, e)
                      \/ g.heap[e].succ = <<>> /\ e = from /\ s[1] = to /\ Once(p, e)
    OBVIOUS
  <2>1. g.heap[to].pred \in Seq(Nat) /\ from \in Nat
    BY <1>3, WellParts
  <2>2. /\ e # from => Fewer(g.heap[to].pred, p, e)
        /\ ~Contains(g.heap[to].pred, from) => Once(p, from)
    BY <1>1, <2>1, AppendFewer
  <2>3. CASE e = from
    <3>1. g.heap[from].succ = <<>>
      BY <2>3 DEF Inner
    <3>2. ~Contains(g.heap[to].pred, from)
      BY <1>3, <2>3, <3>1, EntryUnused
    <3> QED
      BY <1>2, <2>2, <2>3, <3>1, <3>2
  <2> QED
    BY <2>2, <2>3
<1>4. p \in Seq(Sources(g, from, s))
  <2>1. g.heap[to].pred \in Seq(Starts(g))
    BY <1>3, WellParts
  <2>2. PICK T : T = Sources(g, from, s)
    OBVIOUS
  <2>3. Starts(g) \subseteq T /\ from \in T
    BY <1>2, <2>2 DEF Sources, Starts
  <2>5. g.heap[to].pred \in Seq(T)
    BY <2>1, <2>3, SeqMonotonic
  <2>4. p \in Seq(T)
    BY <1>1, <2>3, <2>5, AppendParts
  <2> QED
    BY <2>2, <2>4
<1>a. PICK k : k = WithSucc(g, from, s)
  OBVIOUS
<1>5. h = WithPred(k, to, p)
  <2>2. k.heap[to].pred = g.heap[to].pred
    <3>1. g \in Graphs /\ s \in Seq(Nat) /\ Append(g.heap[from].succ, to) = s
      <4>1. Ends(g) \subseteq Nat /\ g \in Graphs
        BY WellParts DEF Ends
      <4> QED
        BY <1>1, <1>2, <4>1, SeqMonotonic
    <3> HIDE <1>h
    <3> QED
      BY <1>3, <1>a, <3>1, SetSucc
  <2>3. h = [k EXCEPT !.heap[to].pred = Append(@, from)]
    BY <1>1, <1>a DEF AddEdge, WithSucc
  <2> QED
    BY <1>1, <2>2, <2>3 DEF WithPred
<1> HIDE <1>h
<1>6. /\ Well(h, X) /\ Grows(g, h) /\ SameNodes(g, h)
      /\ g.heap[from].role # "entry" \/ g.heap[from].succ # <<>> => Keeps(g, h)
      /\ \A c \in DOMAIN g.heap :
            /\ h.heap[c].stms = g.heap[c].stms
            /\ h.heap[c].succ = IF c = from THEN s ELSE g.heap[c].succ
            /\ c # to => h.heap[c].pred = g.heap[c].pred
  <2>2. g.heap[from].role = "entry" /\ g.heap[from].succ # <<>>
           => s # <<>> /\ s[1] = g.heap[from].succ[1]
    BY <1>2
  <2>3. h = WithPred(WithSucc(g, from, s), to, p)
    BY <1>5, <1>a
  <2> QED
    BY <1>2, <1>3, <1>4, <1>c, <2>2, <2>3, EdgePut
<1> QED
  BY <1>1, <1>2, <1>6

(* EnsureEdge adds an edge or leaves the graph alone.                      *)
LEMMA EnsureEdgeKeeps ==
  ASSUME NEW X, NEW g, Well(g, X), NEW from \in DOMAIN g.heap, g.heap[from].role # "exit",
         g.heap[from].role # "entry", NEW to \in Ends(g), NEW h
  PROVE  h = EnsureEdge(g, from, to) =>
         /\ Well(h, X) /\ Keeps(g, h) /\ SameNodes(g, h)
         /\ \A c \in DOMAIN g.heap : h.heap[c].stms = g.heap[c].stms
<1>h. HAVE h = EnsureEdge(g, from, to)
<1> USE <1>h
<1>1. CASE h = g
  BY <1>1, GrowsReflexive DEF SameNodes
<1>2. CASE h = AddEdge(g, from, to)
  <2> HIDE <1>h
  <2> QED
    BY <1>2, AddEdgeKeeps
<1> QED
  BY <1>1, <1>2 DEF EnsureEdge

(* RemoveEdge, as two lists that are replaced.                             *)
LEMMA EdgeTaken ==
  ASSUME NEW g, NEW from, NEW to, NEW s, s = RemoveFirst(g.heap[from].succ, to),
         NEW k, k = WithSucc(g, from, s)
  PROVE  \/ RemoveEdge(g, from, to) = g
         \/ RemoveEdge(g, from, to) = WithPred(k, to, RemoveFirst(k.heap[to].pred, from))
<1>1. [g EXCEPT !.heap[from].succ = RemoveFirst(@, to),
                !.heap[to].pred = RemoveFirst(@, from)]
         = WithPred(k, to, RemoveFirst(k.heap[to].pred, from))
  BY DEF WithSucc, WithPred
<1> QED
  BY <1>1, Zenon DEF RemoveEdge

(* Edges are removed from blocks that are no entry. *)
LEMMA RemoveEdgeKeeps ==
  ASSUME NEW X, NEW g, Well(g, X), NEW from \in DOMAIN g.heap,
         g.heap[from].role # "entry", NEW to \in DOMAIN g.heap, NEW h
  PROVE  h = RemoveEdge(g, from, to) =>
         /\ Well(h, X) /\ Keeps(g, h) /\ SameNodes(g, h)
         /\ \A c \in DOMAIN g.heap : h.heap[c].stms = g.heap[c].stms
<1>h. HAVE h = RemoveEdge(g, from, to)
<1> USE <1>h
<1>1. PICK s, p, k : /\ s = RemoveFirst(g.heap[from].succ, to)
                     /\ p = RemoveFirst(g.heap[to].pred, from)
                     /\ k = WithSucc(g, from, s)
  OBVIOUS
<1>2. h = g \/ h = WithPred(k, to, RemoveFirst(k.heap[to].pred, from))
  BY <1>1, EdgeTaken
<1> HIDE <1>h
<1>3. CASE h = g
  BY <1>3, GrowsReflexive DEF SameNodes
<1>4. CASE h = WithPred(k, to, RemoveFirst(k.heap[to].pred, from))
  <2>2. s \in Seq(Ends(g)) /\ p \in Seq(Starts(g)) /\ s \in Seq(Nat) /\ g \in Graphs
    <3>1. /\ g.heap[from].succ \in Seq(Ends(g)) /\ g.heap[from].succ \in Seq(Nat)
          /\ g.heap[to].pred \in Seq(Starts(g)) /\ g \in Graphs
      BY WellParts
    <3>2. s \in Seq(Ends(g))
      BY <1>1, <3>1, RemoveFirstParts
    <3>3. s \in Seq(Nat)
      BY <1>1, <3>1, RemoveFirstParts
    <3>4. p \in Seq(Starts(g))
      BY <1>1, <3>1, RemoveFirstParts
    <3> QED
      BY <3>1, <3>2, <3>3, <3>4
  <2>3. h = WithPred(WithSucc(g, from, s), to, p)
    <3>1. k.heap[to].pred = g.heap[to].pred
      <4> HIDE <1>4
      <4> QED
        BY <1>1, <2>2, SetSucc
    <3> QED
      BY <1>1, <1>4, <3>1
  <2>4. p \in Seq(Sources(g, from, s))
    <3>1. Starts(g) \subseteq Sources(g, from, s)
      BY DEF Sources, Starts
    <3> QED
      BY <2>2, <3>1, SeqMonotonic
  <2>5. g.heap[from].role = "entry" /\ g.heap[from].succ # <<>>
           => s # <<>> /\ s[1] = g.heap[from].succ[1]
    OBVIOUS
  <2>6. \A e : Fewer(g.heap[to].pred, p, e)
    <3>1. g.heap[to].pred \in Seq(Starts(g))
      BY WellParts
    <3> QED
      BY <1>1, <3>1, RemoveFirstFewer
  <2> HIDE <1>4
  <2> QED
    BY <2>2, <2>3, <2>4, <2>5, <2>6, EdgePut
<1> QED
  BY <1>2, <1>3, <1>4

(* A block is added at the end of the heap and to a procedure's list. *)
BlockAdded(g, h, x, proc) ==
    /\ h.heap = Append(g.heap, x)
    /\ Len(h.heap) = Len(g.heap) + 1
    /\ DOMAIN h.heap = DOMAIN g.heap \cup {Len(g.heap) + 1}
    /\ Len(g.heap) + 1 \notin DOMAIN g.heap
    /\ h.heap[Len(g.heap) + 1] = x
    /\ \A b \in DOMAIN g.heap : h.heap[b] = g.heap[b]
    /\ DOMAIN h.procs = DOMAIN g.procs
    /\ \A q \in DOMAIN g.procs :
          /\ h.procs[q].entry = g.procs[q].entry
          /\ h.procs[q].exit = g.procs[q].exit
          /\ h.procs[q].blocks = IF q = proc THEN g.procs[q].blocks \cup {Len(g.heap) + 1}
                                 ELSE g.procs[q].blocks

(* A new block.                                                            *)
NewRecord(role, proc, addr) ==
    [role |-> role, proc |-> proc, addr |-> addr,
     stms |-> <<>>, succ |-> <<>>, pred |-> <<>>]

(* A block as its constructor makes it.                                    *)
LEMMA NewRecordIs ==
  ASSUME NEW role \in Roles, NEW proc \in Addresses, NEW addr \in Int,
         NEW x, x = NewRecord(role, proc, addr)
  PROVE  /\ x \in BlockSet
         /\ x.role = role /\ x.proc = proc /\ x.addr = addr
         /\ x.stms = <<>> /\ x.succ = <<>> /\ x.pred = <<>>
<1>1. <<>> \in Seq(StmSet) /\ <<>> \in Seq(Nat)
  BY EmptySeq
<1> QED
  BY <1>1 DEF NewRecord, BlockSet

(* Updates of records, one by one. *)
LEMMA BlocksPut ==
  ASSUME NEW z, z \in ProcSet, NEW B
  PROVE  [z EXCEPT !.blocks = B] = [entry |-> z.entry, exit |-> z.exit, blocks |-> B]
BY DEF ProcSet

(* A nested EXCEPT on the list of a procedure, written out.                *)
LEMMA ListPut ==
  ASSUME NEW H, NEW P, NEW g, g = [heap |-> H, procs |-> P], NEW p, NEW B
  PROVE  [g EXCEPT !.procs[p].blocks = B] =
            [heap |-> H, procs |-> [P EXCEPT ![p].blocks = B]]
OBVIOUS

(* The same one level down.                                                *)
LEMMA ListsPut ==
  ASSUME NEW P, NEW p, NEW B, NEW y, y = [P[p] EXCEPT !.blocks = B]
  PROVE  [P EXCEPT ![p].blocks = B] = [P EXCEPT ![p] = y]
OBVIOUS

(* A procedure with another list of blocks. *)
WithBlocks(g, p, B) == [g EXCEPT !.procs[p].blocks = B]

(* WithBlocks, with its fields written out.                                *)
LEMMA BlocksSet ==
  ASSUME NEW H, NEW P, NEW g, g = [heap |-> H, procs |-> P], NEW p, P[p] \in ProcSet, NEW B,
         NEW y
  PROVE  y = [entry |-> P[p].entry, exit |-> P[p].exit, blocks |-> B] =>
         WithBlocks(g, p, B) = [heap |-> H, procs |-> [P EXCEPT ![p] = y]]
<1>h. HAVE y = [entry |-> P[p].entry, exit |-> P[p].exit, blocks |-> B]
<1> USE <1>h
<1>1. y = [P[p] EXCEPT !.blocks = B]
  BY BlocksPut
<1>2. [P EXCEPT ![p].blocks = B] = [P EXCEPT ![p] = y]
  BY <1>1, ListsPut
<1> HIDE <1>h
<1> QED
  BY <1>2, ListPut DEF WithBlocks

(* NewBlock adds one block, which its procedure lists.                     *)
LEMMA NewBlockIs ==
  ASSUME NEW g \in Graphs, NEW role \in Roles, NEW proc \in DOMAIN g.procs, NEW addr \in Int,
         NEW h
  PROVE  h = NewBlock(g, role, proc, addr) =>
         /\ h \in Graphs
         /\ BlockAdded(g, h, NewRecord(role, proc, addr), proc)
         /\ Newest(h) = Len(g.heap) + 1
<1>h. HAVE h = NewBlock(g, role, proc, addr)
<1> USE <1>h
<1>1. PICK H, P : H = g.heap /\ P = g.procs
  OBVIOUS
<1>2. /\ g = [heap |-> H, procs |-> P]
      /\ H \in Seq(BlockSet) /\ Len(H) \in Nat /\ DOMAIN H = 1 .. Len(H)
      /\ DOMAIN P \in SUBSET Addresses
      /\ P \in [DOMAIN P -> ProcSet]
      /\ \A q \in DOMAIN P : P[q] \in ProcSet
  BY <1>1, GraphParts
<1>3. PICK x : x = NewRecord(role, proc, addr)
  OBVIOUS
<1>4. x \in BlockSet
  BY <1>1, <1>2, <1>3, NewRecordIs
<1>5. PICK n, y : n = Len(H) + 1 /\ y = [entry |-> P[proc].entry, exit |-> P[proc].exit,
                                          blocks |-> P[proc].blocks \cup {n}]
  OBVIOUS
<1>6. y \in ProcSet /\ n \in Nat
  BY <1>1, <1>2, <1>5 DEF ProcSet
<1>b. PICK I : I = Append(H, x)
  OBVIOUS
<1>7. h = [heap |-> I, procs |-> [P EXCEPT ![proc] = y]]
  <2>1. P[proc] \in ProcSet
    BY <1>1, <1>2
  <2>2. PICK k, B : k = [g EXCEPT !.heap = Append(@, x)] /\ B = P[proc].blocks \cup {n}
    OBVIOUS
  <2>3. k = [heap |-> I, procs |-> P]
    BY <1>2, <1>b, <2>2
  <2>4. h = WithBlocks(k, proc, B)
    BY <1>1, <1>3, <1>5, <1>b, <2>2 DEF NewBlock, NewRecord, WithBlocks
  <2>5. y = [entry |-> P[proc].entry, exit |-> P[proc].exit, blocks |-> B]
    BY <1>5, <2>2
  <2>6. WithBlocks(k, proc, B) = [heap |-> I, procs |-> [P EXCEPT ![proc] = y]]
    <3> HIDE <1>h
    <3> QED
      BY <2>1, <2>3, <2>5, BlocksSet
  <2> QED
    BY <2>4, <2>6
<1> HIDE <1>h
<1>8. /\ I \in Seq(BlockSet)
      /\ Len(I) = Len(H) + 1
      /\ DOMAIN I = 1 .. Len(H) + 1
      /\ I[Len(H) + 1] = x
      /\ \A i \in 1 .. Len(H) : I[i] = H[i]
  BY <1>2, <1>4, <1>b, AppendParts
<1>9. [P EXCEPT ![proc] = y] \in [DOMAIN P -> ProcSet]
  BY <1>1, <1>2, <1>6
<1>10. h \in Graphs
  BY <1>2, <1>7, <1>8, <1>9, GraphMade
<1>11. \A q \in DOMAIN P :
          /\ h.procs[q].entry = P[q].entry
          /\ h.procs[q].exit = P[q].exit
          /\ h.procs[q].blocks = IF q = proc THEN P[q].blocks \cup {n} ELSE P[q].blocks
  BY <1>1, <1>5, <1>7
<1>12. DOMAIN h.procs = DOMAIN P
  BY <1>7
<1>13. /\ h.heap = I
       /\ DOMAIN h.heap = DOMAIN H \cup {n}
       /\ n \notin DOMAIN H
  BY <1>2, <1>5, <1>7, <1>8
<1>14. BlockAdded(g, h, x, proc)
  BY <1>1, <1>2, <1>5, <1>b, <1>8, <1>11, <1>12, <1>13 DEF BlockAdded
<1> QED
  BY <1>1, <1>3, <1>5, <1>10, <1>14 DEF Newest, BlockAdded

(* A new block of a procedure that is entered, or will be.                  *)
LEMMA NewBlockKeeps ==
  ASSUME NEW X, NEW g, Well(g, X), NEW role \in Inner, NEW proc \in DOMAIN g.procs,
         proc \in X.procs \/ Entered(g, proc), NEW addr \in Int, NEW h
  PROVE  h = NewBlock(g, role, proc, addr) =>
         /\ Well(h, X) /\ Keeps(g, h)
         /\ BlockAdded(g, h, NewRecord(role, proc, addr), proc)
         /\ Newest(h) = Len(g.heap) + 1
         /\ Newest(h) \in Ends(h)
         /\ h.heap[Newest(h)].role = role
         /\ h.heap[Newest(h)].proc = proc
         /\ h.heap[Newest(h)].addr = addr
<1>h. HAVE h = NewBlock(g, role, proc, addr)
<1> USE <1>h
<1>1. PICK x : x = NewRecord(role, proc, addr)
  OBVIOUS
<1>2. h \in Graphs /\ BlockAdded(g, h, x, proc) /\ Newest(h) = Len(g.heap) + 1
  BY <1>1, NewBlockIs DEF Well, Inner, Roles
<1>3. /\ x.role = role /\ x.proc = proc /\ x.addr = addr
      /\ x.stms = <<>> /\ x.succ = <<>> /\ x.pred = <<>>
      /\ x.role # "entry" /\ x.role # "exit"
  <2>1. proc \in Addresses /\ role \in Roles
    BY GraphParts DEF Well, Inner, Roles
  <2> QED
    BY <1>1, <2>1, NewRecordIs DEF Inner
<1> HIDE <1>h
<1>a. PICK n : n = Len(g.heap) + 1
  OBVIOUS
<1>b. /\ DOMAIN h.heap = DOMAIN g.heap \cup {n}
      /\ n \notin DOMAIN g.heap
      /\ h.heap[n] = x
      /\ \A b \in DOMAIN g.heap : h.heap[b] = g.heap[b]
      /\ DOMAIN h.procs = DOMAIN g.procs
      /\ \A q \in DOMAIN g.procs :
          /\ h.procs[q].entry = g.procs[q].entry
          /\ h.procs[q].exit = g.procs[q].exit
          /\ h.procs[q].blocks = IF q = proc THEN g.procs[q].blocks \cup {n}
                                 ELSE g.procs[q].blocks
  BY <1>2, <1>a DEF BlockAdded
<1>5. \A p \in DOMAIN g.procs : /\ g.procs[p].entry \in DOMAIN g.heap
                                /\ g.procs[p].exit \in DOMAIN g.heap
  BY DEF Well, ProcsFit
<1>6. Keeps(g, h)
  <2>1. \A p \in DOMAIN g.procs : Entered(h, p) = Entered(g, p) /\ First(h, p) = First(g, p)
    BY <1>b, <1>5 DEF Entered, First
  <2>2. ToldStays(g, h)
    BY <1>b, ToldAsBefore
  <2>3. Listed(h, n)
    BY <1>b, <1>3 DEF Listed
  <2>4. Shut(g, h)
    BY <1>b, <2>1 DEF Shut
  <2> QED
    BY <1>b, <2>1, <2>2, <2>3, <2>4 DEF Keeps, Grows, Stays, ToldStays
<1>7. BlocksFit(h)
  <2>1. ASSUME NEW b \in DOMAIN g.heap
        PROVE  /\ h.heap[b].proc \in DOMAIN h.procs
               /\ h.heap[b].role = "entry" => b = h.procs[h.heap[b].proc].entry
               /\ h.heap[b].role = "exit"  => b = h.procs[h.heap[b].proc].exit
    <3>1. /\ g.heap[b].proc \in DOMAIN g.procs
          /\ g.heap[b].role = "entry" => b = g.procs[g.heap[b].proc].entry
          /\ g.heap[b].role = "exit"  => b = g.procs[g.heap[b].proc].exit
      BY DEF Well, BlocksFit
    <3> QED
      BY <1>b, <3>1
  <2>2. Ends(g) \subseteq Ends(h) /\ Starts(g) \subseteq Starts(h)
    BY <1>b DEF Ends, Starts
  <2>3. ASSUME NEW b \in DOMAIN g.heap
        PROVE  /\ h.heap[b].succ \in Seq(Ends(h))
               /\ h.heap[b].pred \in Seq(Starts(h))
    <3>1. g.heap[b].succ \in Seq(Ends(g)) /\ g.heap[b].pred \in Seq(Starts(g))
      BY DEF Well, BlocksFit
    <3> QED
      BY <1>b, <2>2, <3>1, SeqMonotonic
  <2>4. /\ h.heap[n].proc \in DOMAIN h.procs
        /\ h.heap[n].role # "entry" /\ h.heap[n].role # "exit"
        /\ h.heap[n].succ \in Seq(Ends(h))
        /\ h.heap[n].pred \in Seq(Starts(h))
    BY <1>b, <1>3, EmptySeq
  <2> QED
    BY <1>b, <2>1, <2>3, <2>4 DEF BlocksFit
<1>8. ProcsFit(h)
  <2>1. ASSUME NEW p \in DOMAIN h.procs
        PROVE  /\ h.procs[p].entry \in DOMAIN h.heap
               /\ h.heap[h.procs[p].entry].role = "entry"
               /\ h.heap[h.procs[p].entry].proc = p
               /\ h.procs[p].exit \in DOMAIN h.heap
               /\ h.heap[h.procs[p].exit].role = "exit"
               /\ h.heap[h.procs[p].exit].proc = p
    <3>1. /\ p \in DOMAIN g.procs
          /\ g.heap[g.procs[p].entry].role = "entry"
          /\ g.heap[g.procs[p].entry].proc = p
          /\ g.heap[g.procs[p].exit].role = "exit"
          /\ g.heap[g.procs[p].exit].proc = p
      BY <1>b DEF Well, ProcsFit
    <3> QED
      BY <1>b, <1>5, <3>1
  <2>2. ASSUME NEW p \in DOMAIN h.procs, NEW b \in h.procs[p].blocks
        PROVE  b \in DOMAIN h.heap /\ h.heap[b].proc = p
    <3>1. CASE b \in g.procs[p].blocks
      BY <1>b, <3>1 DEF Well, ProcsFit
    <3>2. CASE p = proc /\ b = n
      BY <1>b, <1>3, <3>2
    <3> QED
      BY <1>b, <3>1, <3>2
  <2> QED
    BY <2>1, <2>2 DEF ProcsFit
<1>9. EnteredFit(h, X)
  <2>1. Entered(g, proc) => Entered(h, proc)
    BY <1>6 DEF Keeps, Grows
  <2>2. h.heap[n].proc \in X.procs \/ Entered(h, h.heap[n].proc)
    BY <1>b, <1>3, <2>1
  <2>3. ASSUME NEW b \in DOMAIN g.heap, h.heap[b].role \in Inner
        PROVE  h.heap[b].proc \in X.procs \/ Entered(h, h.heap[b].proc)
    <3>1. h.heap[b] = g.heap[b] /\ g.heap[b].proc \in DOMAIN g.procs
      BY <1>b DEF Well, BlocksFit
    <3>2. g.heap[b].proc \in X.procs \/ Entered(g, g.heap[b].proc)
      BY <2>3, <3>1 DEF Well, EnteredFit
    <3> QED
      BY <1>6, <3>1, <3>2 DEF Keeps, Grows
  <2> QED
    BY <1>b, <2>2, <2>3 DEF EnteredFit
<1>10. EntriesFit(h, X)
  BY <1>b, <1>3, EntriesAsBefore
<1> QED
  BY <1>1, <1>2, <1>3, <1>a, <1>b, <1>6, <1>7, <1>8, <1>9, <1>10 DEF Well, Ends

-------------------------------------------------------------------------------
(* Folds.  A fold over a sequence is a function of sets of its indices: what *)
(* is true of the base and kept by the step is true of the result.          *)

(* A set of numbers up to n has a greatest member.                         *)
LEMMA MaxExists ==
  ASSUME NEW n \in Nat, NEW T \in SUBSET (1 .. n), T # {}
  PROVE  Max(T) \in T /\ \A x \in T : x <= Max(T)
<1> DEFINE R == {n - x : x \in T}
<1>1. R \in SUBSET Nat /\ R # {}
  <2>1. PICK t : t \in T
    OBVIOUS
  <2>2. n - t \in R
    BY <2>1
  <2>3. R \in SUBSET Nat
    OBVIOUS
  <2> QED
    BY <2>2, <2>3
<1>2. Min(R) \in R /\ \A x \in R : Min(R) <= x
  <2> HIDE DEF R
  <2> QED
    BY <1>1, MinExists
<1>3. PICK m \in T : Min(R) = n - m
  BY <1>2
<1>4. \A x \in T : n - m <= n - x
  BY <1>2, <1>3
<1>5. \A x \in T : m >= x
  BY <1>4
<1> QED
  BY <1>5 DEF Max

(* Folds over 1 .. n choose the next index with m, and are defined by a    *)
(* function of the sets of indices still to come.                          *)
Chooses(n, m) == \A S \in SUBSET (1 .. n) : S # {} => m[S] \in S

Iterated(it, n, m, base, F) ==
    it = [S \in SUBSET (1 .. n) |-> IF S = {} THEN base ELSE F[S][it[S \ {m[S]}]]]

(* The function exists: it is made for sets of more and more indices.       *)
LEMMA IterationExists ==
  ASSUME NEW n \in Nat, NEW m, Chooses(n, m),
         NEW base, NEW F
  PROVE  \E it : Iterated(it, n, m, base, F)
<1> DEFINE D == SUBSET (1 .. n)
           Small(k) == {S \in D : Cardinality(S) <= k}
           Made(k) == \E h : h = [S \in Small(k) |->
                                   IF S = {} THEN base ELSE F[S][h[S \ {m[S]}]]]
           Missing == {k \in Nat : ~Made(k)}
<1>1. /\ IsFiniteSet(1 .. n)
      /\ \A S \in D : IsFiniteSet(S) /\ Cardinality(S) \in Nat /\ Cardinality(S) <= n
  <2>1. IsFiniteSet(1 .. n) /\ Cardinality(1 .. n) = n
    BY FS_Interval
  <2>2. ASSUME NEW S \in D PROVE IsFiniteSet(S) /\ Cardinality(S) <= n
    <3>1. Cardinality(S) <= Cardinality(1 .. n) /\ IsFiniteSet(S)
      BY <2>1, FS_Subset
    <3> QED
      BY <2>1, <3>1
  <2>3. \A S \in D : Cardinality(S) \in Nat
    BY <2>2, FS_CardinalityType
  <2> QED
    BY <2>1, <2>2, <2>3
<1>2. \A S \in D : S # {} =>
         S \ {m[S]} \in D /\ Cardinality(S \ {m[S]}) = Cardinality(S) - 1
  BY <1>1, FS_RemoveElement DEF Chooses
<1>3. Made(0)
  <2>1. PICK h : h = [S \in Small(0) |-> base]
    OBVIOUS
  <2>2. \A S \in Small(0) : S = {}
    BY <1>1, FS_EmptySet
  <2>3. h = [S \in Small(0) |-> IF S = {} THEN base ELSE F[S][h[S \ {m[S]}]]]
    BY <2>1, <2>2
  <2> QED
    BY <2>3
<1>4. ASSUME NEW k \in Nat, Made(k)
      PROVE  Made(k + 1)
  <2>1. PICK h : h = [S \in Small(k) |->
                        IF S = {} THEN base ELSE F[S][h[S \ {m[S]}]]]
    BY <1>4
  <2>2. PICK t : t = [S \in Small(k + 1) |->
                        IF S = {} THEN base ELSE F[S][h[S \ {m[S]}]]]
    OBVIOUS
  <2>3. \A S \in Small(k + 1) : S # {} => S \ {m[S]} \in Small(k)
    BY <1>1, <1>2
  <2>4. Small(k) \subseteq Small(k + 1)
    BY <1>1, SMTT(30)
  <2>5. \A S \in Small(k) : t[S] = h[S]
    BY <2>1, <2>2, <2>4, Zenon
  <2> HIDE DEF Small
  <2>6. \A S \in Small(k + 1) :
           t[S] = IF S = {} THEN base ELSE F[S][t[S \ {m[S]}]]
    BY <2>2, <2>3, <2>5
  <2>7. t = [S \in Small(k + 1) |->
               IF S = {} THEN base ELSE F[S][t[S \ {m[S]}]]]
    BY <2>2, <2>6
  <2> QED
    BY <2>7
<1> HIDE DEF Made
<1>5. Missing = {}
  <2> SUFFICES ASSUME Missing # {} PROVE FALSE
    OBVIOUS
  <2>1. Min(Missing) \in Missing /\ \A x \in Missing : Min(Missing) <= x
    BY MinExists
  <2>2. PICK j : j = Min(Missing) /\ j \in Nat /\ ~Made(j) /\ \A x \in Nat : ~Made(x) => j <= x
    BY <2>1
  <2>3. j # 0
    BY <1>3, <2>2
  <2>4. j - 1 \in Nat /\ Made(j - 1)
    BY <2>2, <2>3
  <2>5. Made((j - 1) + 1)
    BY <1>4, <2>4
  <2> QED
    BY <2>2, <2>5
<1>6. Made(n)
  BY <1>5
<1>7. Small(n) = D
  BY <1>1
<1> HIDE DEF Small, D
<1>8. \E it : it = [S \in D |-> IF S = {} THEN base ELSE F[S][it[S \ {m[S]}]]]
  BY <1>6, <1>7 DEF Made
<1> QED
  BY <1>8 DEF D, Iterated

(* What the empty set has and each index keeps, every set has.              *)
LEMMA IterationKeeps ==
  ASSUME NEW n \in Nat, NEW m, Chooses(n, m),
         NEW P, NEW it, it[{}] \in P[{}],
         \A S \in SUBSET (1 .. n) :
            S # {} /\ it[S \ {m[S]}] \in P[S \ {m[S]}] => it[S] \in P[S]
  PROVE  \A S \in SUBSET (1 .. n) : it[S] \in P[S]
<1> DEFINE D == SUBSET (1 .. n)
           Bad == {k \in Nat : \E S \in D : Cardinality(S) = k /\ it[S] \notin P[S]}
<1>1. /\ IsFiniteSet(1 .. n)
      /\ \A S \in D : IsFiniteSet(S) /\ Cardinality(S) \in Nat
  <2>1. IsFiniteSet(1 .. n)
    BY FS_Interval
  <2>2. \A S \in D : IsFiniteSet(S)
    BY <2>1, FS_Subset
  <2>3. \A S \in D : Cardinality(S) \in Nat
    BY <2>2, FS_CardinalityType
  <2> QED
    BY <2>1, <2>2, <2>3
<1>2. \A S \in D : S # {} =>
         S \ {m[S]} \in D /\ Cardinality(S \ {m[S]}) = Cardinality(S) - 1
  BY <1>1, FS_RemoveElement DEF Chooses
<1>3. Bad = {}
  <2> SUFFICES ASSUME Bad # {} PROVE FALSE
    OBVIOUS
  <2>1. Min(Bad) \in Bad /\ \A x \in Bad : Min(Bad) <= x
    BY MinExists
  <2>2. PICK j : j = Min(Bad) /\ j \in Nat /\ j \in Bad /\ \A x \in Bad : j <= x
    BY <2>1
  <2>3. PICK S \in D : Cardinality(S) = j /\ it[S] \notin P[S]
    BY <2>2
  <2>4. S # {}
    BY <2>3
  <2>5. PICK T : T = S \ {m[S]}
    OBVIOUS
  <2>6. T \in D /\ Cardinality(T) = j - 1 /\ Cardinality(T) \in Nat
    BY <1>1, <1>2, <2>3, <2>4, <2>5
  <2>7. it[T] \notin P[T]
    BY <2>3, <2>4, <2>5
  <2>8. j - 1 \in Bad
    <3>1. j - 1 \in Nat
      BY <2>6
    <3>2. \E U \in D : Cardinality(U) = j - 1 /\ it[U] \notin P[U]
      BY <2>6, <2>7
    <3> QED
      BY <3>1, <3>2
  <2> QED
    BY <2>2, <2>8
<1> QED
  BY <1>1, <1>3

(* A step as a function, and the choice of the last or the first index.     *)
Greatest(n) == [S \in SUBSET (1 .. n) |-> Max(S)]
Least(n)    == [S \in SUBSET (1 .. n) |-> Min(S)]

(* FoldLeft takes the greatest index that is left, which is one of them.   *)
LEMMA GreatestChosen ==
  ASSUME NEW n \in Nat
  PROVE  Chooses(n, Greatest(n))
<1> SUFFICES ASSUME NEW S \in SUBSET (1 .. n), S # {}
             PROVE  Greatest(n)[S] \in S
  BY Zenon DEF Chooses
<1>1. Max(S) \in S
  BY MaxExists
<1>2. Greatest(n)[S] = Max(S)
  BY DEF Greatest
<1> QED
  BY <1>1, <1>2

(* FoldRight takes the least one, which is one of them as well.            *)
LEMMA LeastChosen ==
  ASSUME NEW n \in Nat
  PROVE  Chooses(n, Least(n))
<1> SUFFICES ASSUME NEW S \in SUBSET (1 .. n), S # {}
             PROVE  Least(n)[S] \in S
  BY Zenon DEF Chooses
<1>1. S \in SUBSET Nat
  OBVIOUS
<1>2. Min(S) \in S
  BY <1>1, MinExists
<1>3. Least(n)[S] = Min(S)
  BY DEF Least
<1> QED
  BY <1>2, <1>3

(* Both together: what the iterations of a fold are, and what they keep.    *)
LEMMA FoldExists ==
  ASSUME NEW n \in Nat, NEW m, Chooses(n, m), NEW P, NEW base \in P, NEW F,
         \A S \in SUBSET (1 .. n) : S # {} => \A x \in P : F[S][x] \in P
  PROVE  \E it : /\ Iterated(it, n, m, base, F)
                 /\ \A S \in SUBSET (1 .. n) : it[S] \in P
<1>1. PICK it : Iterated(it, n, m, base, F)
  BY IterationExists
<1>2. \A S \in SUBSET (1 .. n) :
         it[S] = IF S = {} THEN base ELSE F[S][it[S \ {m[S]}]]
  BY <1>1, Zenon DEF Iterated
<1>3. PICK Q : Q = [S \in SUBSET (1 .. n) |-> P]
  OBVIOUS
<1>4. \A S \in SUBSET (1 .. n) : Q[S] = P /\ S \ {m[S]} \in SUBSET (1 .. n)
  BY <1>3
<1>5. it[{}] \in Q[{}]
  <2>1. {} \in SUBSET (1 .. n)
    OBVIOUS
  <2>2. it[{}] = base
    BY <1>2, <2>1
  <2>3. Q[{}] = P
    BY <1>4, <2>1
  <2> QED
    BY <2>2, <2>3
<1>6. \A S \in SUBSET (1 .. n) :
         S # {} /\ it[S \ {m[S]}] \in Q[S \ {m[S]}] => it[S] \in Q[S]
  <2> SUFFICES ASSUME NEW S \in SUBSET (1 .. n), S # {}, it[S \ {m[S]}] \in Q[S \ {m[S]}]
               PROVE  it[S] \in Q[S]
    BY Zenon
  <2>1. it[S \ {m[S]}] \in P
    BY <1>4
  <2>2. F[S][it[S \ {m[S]}]] \in P
    BY <2>1
  <2> QED
    BY <1>2, <1>4, <2>2
<1>7. \A S \in SUBSET (1 .. n) : it[S] \in Q[S]
  BY <1>5, <1>6, IterationKeeps
<1> QED
  BY <1>1, <1>4, <1>7

(* What holds of the base and is kept by every step holds of the fold:     *)
(* induction over the number of indices.                                   *)
LEMMA FoldKeeps ==
  ASSUME NEW n \in Nat, NEW m, Chooses(n, m), NEW P, NEW it, it[{}] \in P,
         \A S \in SUBSET (1 .. n) : S # {} /\ it[S \ {m[S]}] \in P => it[S] \in P
  PROVE  it[1 .. n] \in P
<1>1. PICK Q : Q = [S \in SUBSET (1 .. n) |-> P]
  OBVIOUS
<1>2. \A S \in SUBSET (1 .. n) : Q[S] = P /\ S \ {m[S]} \in SUBSET (1 .. n)
  BY <1>1
<1>3. it[{}] \in Q[{}]
  BY <1>2
<1>4. \A S \in SUBSET (1 .. n) :
         S # {} /\ it[S \ {m[S]}] \in Q[S \ {m[S]}] => it[S] \in Q[S]
  BY <1>2
<1>5. \A S \in SUBSET (1 .. n) : it[S] \in Q[S]
  BY <1>3, <1>4, IterationKeeps
<1> QED
  BY <1>2, <1>5

-------------------------------------------------------------------------------
(* The folds of the model. *)

(* The statements below an address. *)
LEMMA StmsBelowFolded ==
  ASSUME NEW P, NEW s, NEW addr,
         NEW n \in Nat, DOMAIN s = 1 .. n, <<>> \in P[{}],
         \A S \in SUBSET (1 .. n) : \A i \in S : (\A j \in S : j <= i) =>
            \A h \in P[S \ {i}] :
               (IF s[i].addr < addr THEN Append(h, s[i]) ELSE h) \in P[S]
  PROVE  StmsBelow(s, addr) \in P[1 .. n]
<1> DEFINE op(h, i) == (IF s[i].addr < addr THEN Append(h, s[i]) ELSE h)
           step(it) == [S \in SUBSET (1 .. n) |->
              IF S = {} THEN <<>> ELSE op(it[S \ {Max(S)}], Max(S))]
           F == [S \in SUBSET (1 .. n) |-> [h \in P[S \ {Max(S)}] |-> op(h, Max(S))]]
<1>1. StmsBelow(s, addr) = (CHOOSE it : it = step(it))[1 .. n]
  BY Zenon DEF StmsBelow, FoldLeft, MapThenFoldSet
<1>2. \A S \in SUBSET (1 .. n) : \A i \in S : (\A j \in S : j <= i) =>
         \A h \in P[S \ {i}] : op(h, i) \in P[S]
  OBVIOUS
<1> HIDE DEF op
<1>3. ASSUME NEW S \in SUBSET (1 .. n), S # {}
      PROVE  /\ Greatest(n)[S] = Max(S) /\ Max(S) \in S
             /\ \A j \in S : j <= Max(S)
             /\ \A h \in P[S \ {Max(S)}] : F[S][h] = op(h, Max(S)) /\ F[S][h] \in P[S]
  <2>1. Greatest(n)[S] = Max(S) /\ Max(S) \in S
    BY <1>3, GreatestChosen DEF Greatest, Chooses
  <2>2. \A j \in S : j <= Max(S)
    BY <1>3, MaxExists
  <2> QED
    BY <1>2, <2>1, <2>2
<1> HIDE DEF F
<1>4. Chooses(n, Greatest(n))
  BY GreatestChosen
<1>5. PICK it : Iterated(it, n, Greatest(n), <<>>, F)
  BY <1>4, IterationExists
<1>6. \A S \in SUBSET (1 .. n) :
         it[S] = IF S = {} THEN <<>> ELSE F[S][it[S \ {Greatest(n)[S]}]]
  BY <1>5, Zenon DEF Iterated
<1>7. \A S \in SUBSET (1 .. n) : it[S] \in P[S]
  <2>1. it[{}] \in P[{}]
    BY <1>6
  <2>2. \A S \in SUBSET (1 .. n) :
           S # {} /\ it[S \ {Greatest(n)[S]}] \in P[S \ {Greatest(n)[S]}] => it[S] \in P[S]
    <3> SUFFICES ASSUME NEW S \in SUBSET (1 .. n), S # {},
                        it[S \ {Greatest(n)[S]}] \in P[S \ {Greatest(n)[S]}]
                 PROVE  it[S] \in P[S]
      BY Zenon
    <3>1. it[S] = F[S][it[S \ {Greatest(n)[S]}]]
      BY <1>6
    <3>2. Greatest(n)[S] = Max(S)
      BY <1>3
    <3> QED
      BY <1>3, <3>1, <3>2
  <2> QED
    BY <1>4, <2>1, <2>2, IterationKeeps
<1>8. it = step(it)
  <2>1. \A S \in SUBSET (1 .. n) : S # {} =>
           F[S][it[S \ {Greatest(n)[S]}]] = op(it[S \ {Max(S)}], Max(S))
    BY <1>3, <1>7
  <2>2. \A S \in SUBSET (1 .. n) :
           (IF S = {} THEN <<>> ELSE F[S][it[S \ {Greatest(n)[S]}]])
              = IF S = {} THEN <<>> ELSE op(it[S \ {Max(S)}], Max(S))
    BY <2>1
  <2> QED
    BY <1>5, <2>2 DEF Iterated
<1>9. PICK c : c = step(c) /\ c = CHOOSE d : d = step(d)
  BY <1>8
<1>10. \A S \in SUBSET (1 .. n) :
         c[S] = IF S = {} THEN <<>> ELSE op(c[S \ {Max(S)}], Max(S))
  BY <1>9, Zenon
<1>11. \A S \in SUBSET (1 .. n) : c[S] \in P[S]
  <2>1. c[{}] \in P[{}]
    BY <1>10
  <2>2. \A S \in SUBSET (1 .. n) :
           S # {} /\ c[S \ {Greatest(n)[S]}] \in P[S \ {Greatest(n)[S]}] => c[S] \in P[S]
    <3> SUFFICES ASSUME NEW S \in SUBSET (1 .. n), S # {},
                        c[S \ {Greatest(n)[S]}] \in P[S \ {Greatest(n)[S]}]
                 PROVE  c[S] \in P[S]
      BY Zenon
    <3>1. /\ c[S \ {Max(S)}] \in P[S \ {Max(S)}] /\ Max(S) \in S
          /\ \A j \in S : j <= Max(S)
      BY <1>3
    <3>2. op(c[S \ {Max(S)}], Max(S)) \in P[S]
      BY <1>2, <3>1
    <3> QED
      BY <1>10, <3>2
  <2> QED
    BY <1>4, <2>1, <2>2, IterationKeeps
<1>12. c[1 .. n] \in P[1 .. n]
  BY <1>11
<1> QED
  BY <1>1, <1>9, <1>12

(* The statements from an address on. *)
LEMMA StmsFromFolded ==
  ASSUME NEW P, NEW s, NEW addr,
         NEW n \in Nat, DOMAIN s = 1 .. n, <<>> \in P[{}],
         \A S \in SUBSET (1 .. n) : \A i \in S : (\A j \in S : j <= i) =>
            \A h \in P[S \ {i}] :
               (IF s[i].addr >= addr THEN Append(h, s[i]) ELSE h) \in P[S]
  PROVE  StmsFrom(s, addr) \in P[1 .. n]
<1> DEFINE op(h, i) == (IF s[i].addr >= addr THEN Append(h, s[i]) ELSE h)
           step(it) == [S \in SUBSET (1 .. n) |->
              IF S = {} THEN <<>> ELSE op(it[S \ {Max(S)}], Max(S))]
           F == [S \in SUBSET (1 .. n) |-> [h \in P[S \ {Max(S)}] |-> op(h, Max(S))]]
<1>1. StmsFrom(s, addr) = (CHOOSE it : it = step(it))[1 .. n]
  BY Zenon DEF StmsFrom, FoldLeft, MapThenFoldSet
<1>2. \A S \in SUBSET (1 .. n) : \A i \in S : (\A j \in S : j <= i) =>
         \A h \in P[S \ {i}] : op(h, i) \in P[S]
  OBVIOUS
<1> HIDE DEF op
<1>3. ASSUME NEW S \in SUBSET (1 .. n), S # {}
      PROVE  /\ Greatest(n)[S] = Max(S) /\ Max(S) \in S
             /\ \A j \in S : j <= Max(S)
             /\ \A h \in P[S \ {Max(S)}] : F[S][h] = op(h, Max(S)) /\ F[S][h] \in P[S]
  <2>1. Greatest(n)[S] = Max(S) /\ Max(S) \in S
    BY <1>3, GreatestChosen DEF Greatest, Chooses
  <2>2. \A j \in S : j <= Max(S)
    BY <1>3, MaxExists
  <2> QED
    BY <1>2, <2>1, <2>2
<1> HIDE DEF F
<1>4. Chooses(n, Greatest(n))
  BY GreatestChosen
<1>5. PICK it : Iterated(it, n, Greatest(n), <<>>, F)
  BY <1>4, IterationExists
<1>6. \A S \in SUBSET (1 .. n) :
         it[S] = IF S = {} THEN <<>> ELSE F[S][it[S \ {Greatest(n)[S]}]]
  BY <1>5, Zenon DEF Iterated
<1>7. \A S \in SUBSET (1 .. n) : it[S] \in P[S]
  <2>1. it[{}] \in P[{}]
    BY <1>6
  <2>2. \A S \in SUBSET (1 .. n) :
           S # {} /\ it[S \ {Greatest(n)[S]}] \in P[S \ {Greatest(n)[S]}] => it[S] \in P[S]
    <3> SUFFICES ASSUME NEW S \in SUBSET (1 .. n), S # {},
                        it[S \ {Greatest(n)[S]}] \in P[S \ {Greatest(n)[S]}]
                 PROVE  it[S] \in P[S]
      BY Zenon
    <3>1. it[S] = F[S][it[S \ {Greatest(n)[S]}]]
      BY <1>6
    <3>2. Greatest(n)[S] = Max(S)
      BY <1>3
    <3> QED
      BY <1>3, <3>1, <3>2
  <2> QED
    BY <1>4, <2>1, <2>2, IterationKeeps
<1>8. it = step(it)
  <2>1. \A S \in SUBSET (1 .. n) : S # {} =>
           F[S][it[S \ {Greatest(n)[S]}]] = op(it[S \ {Max(S)}], Max(S))
    BY <1>3, <1>7
  <2>2. \A S \in SUBSET (1 .. n) :
           (IF S = {} THEN <<>> ELSE F[S][it[S \ {Greatest(n)[S]}]])
              = IF S = {} THEN <<>> ELSE op(it[S \ {Max(S)}], Max(S))
    BY <2>1
  <2> QED
    BY <1>5, <2>2 DEF Iterated
<1>9. PICK c : c = step(c) /\ c = CHOOSE d : d = step(d)
  BY <1>8
<1>10. \A S \in SUBSET (1 .. n) :
         c[S] = IF S = {} THEN <<>> ELSE op(c[S \ {Max(S)}], Max(S))
  BY <1>9, Zenon
<1>11. \A S \in SUBSET (1 .. n) : c[S] \in P[S]
  <2>1. c[{}] \in P[{}]
    BY <1>10
  <2>2. \A S \in SUBSET (1 .. n) :
           S # {} /\ c[S \ {Greatest(n)[S]}] \in P[S \ {Greatest(n)[S]}] => c[S] \in P[S]
    <3> SUFFICES ASSUME NEW S \in SUBSET (1 .. n), S # {},
                        c[S \ {Greatest(n)[S]}] \in P[S \ {Greatest(n)[S]}]
                 PROVE  c[S] \in P[S]
      BY Zenon
    <3>1. /\ c[S \ {Max(S)}] \in P[S \ {Max(S)}] /\ Max(S) \in S
          /\ \A j \in S : j <= Max(S)
      BY <1>3
    <3>2. op(c[S \ {Max(S)}], Max(S)) \in P[S]
      BY <1>2, <3>1
    <3> QED
      BY <1>10, <3>2
  <2> QED
    BY <1>4, <2>1, <2>2, IterationKeeps
<1>12. c[1 .. n] \in P[1 .. n]
  BY <1>11
<1> QED
  BY <1>1, <1>9, <1>12

(* The edges that SplitBlock gives the new block and takes from the old.   *)
EdgesAdded(g, new, succ) == FoldLeft(LAMBDA h, s : AddEdge(h, new, s), g, succ)
EdgesRemoved(g, b, succ) == FoldLeft(LAMBDA h, s : RemoveEdge(h, b, s), g, succ)

(* Edges that are added one after the other. *)
LEMMA EdgesAddedIn ==
  ASSUME NEW P, NEW g, NEW new, NEW succ,
         NEW n \in Nat, DOMAIN succ = 1 .. n, g \in P,
         \A h \in P : \A i \in 1 .. n : AddEdge(h, new, succ[i]) \in P
  PROVE  EdgesAdded(g, new, succ) \in P
<1> DEFINE op(h, i) == AddEdge(h, new, succ[i])
           step(it) == [S \in SUBSET (1 .. n) |->
              IF S = {} THEN g ELSE op(it[S \ {Max(S)}], Max(S))]
           F == [S \in SUBSET (1 .. n) |-> [h \in P |-> op(h, Max(S))]]
<1>1. EdgesAdded(g, new, succ) = (CHOOSE it : it = step(it))[1 .. n]
  BY Zenon DEF EdgesAdded, FoldLeft, MapThenFoldSet
<1>2. \A h \in P : \A i \in 1 .. n : op(h, i) \in P
  OBVIOUS
<1> HIDE DEF op
<1>3. ASSUME NEW S \in SUBSET (1 .. n), S # {}
      PROVE  /\ Greatest(n)[S] = Max(S) /\ Max(S) \in 1 .. n
             /\ \A h \in P : F[S][h] = op(h, Max(S)) /\ F[S][h] \in P
  <2>1. Greatest(n)[S] = Max(S) /\ Max(S) \in 1 .. n
    BY <1>3, GreatestChosen DEF Greatest, Chooses
  <2> QED
    BY <1>2, <2>1
<1> HIDE DEF F
<1>4. Chooses(n, Greatest(n))
  BY GreatestChosen
<1>5. PICK it : /\ Iterated(it, n, Greatest(n), g, F)
                /\ \A S \in SUBSET (1 .. n) : it[S] \in P
  <2>1. \A S \in SUBSET (1 .. n) : S # {} => \A h \in P : F[S][h] \in P
    BY <1>3, SMTT(30)
  <2> QED
    BY <1>4, <2>1, FoldExists
<1>6. it = step(it)
  <2>1. \A S \in SUBSET (1 .. n) : it[S \ {Max(S)}] \in P
    BY <1>5
  <2>2. \A S \in SUBSET (1 .. n) :
           (IF S = {} THEN g ELSE F[S][it[S \ {Greatest(n)[S]}]])
              = IF S = {} THEN g ELSE op(it[S \ {Max(S)}], Max(S))
    BY <1>3, <2>1
  <2> QED
    BY <1>5, <2>2 DEF Iterated
<1>7. PICK c : c = step(c) /\ c = CHOOSE d : d = step(d)
  BY <1>6
<1>8. \A S \in SUBSET (1 .. n) :
         c[S] = IF S = {} THEN g ELSE op(c[S \ {Max(S)}], Max(S))
  BY <1>7, Zenon
<1>9. c[{}] \in P
  BY <1>8
<1>10. \A S \in SUBSET (1 .. n) : S # {} /\ c[S \ {Greatest(n)[S]}] \in P => c[S] \in P
  <2> SUFFICES ASSUME NEW S \in SUBSET (1 .. n), S # {}, c[S \ {Greatest(n)[S]}] \in P
               PROVE  c[S] \in P
    BY Zenon
  <2>1. c[S \ {Max(S)}] \in P /\ Max(S) \in 1 .. n
    BY <1>3
  <2>2. op(c[S \ {Max(S)}], Max(S)) \in P
    BY <1>2, <2>1
  <2> QED
    BY <1>8, <2>2
<1>11. c[1 .. n] \in P
  BY <1>4, <1>9, <1>10, FoldKeeps
<1> QED
  BY <1>1, <1>7, <1>11

(* Edges that are removed. *)
LEMMA EdgesRemovedIn ==
  ASSUME NEW P, NEW g, NEW b, NEW succ,
         NEW n \in Nat, DOMAIN succ = 1 .. n, g \in P,
         \A h \in P : \A i \in 1 .. n : RemoveEdge(h, b, succ[i]) \in P
  PROVE  EdgesRemoved(g, b, succ) \in P
<1> DEFINE op(h, i) == RemoveEdge(h, b, succ[i])
           step(it) == [S \in SUBSET (1 .. n) |->
              IF S = {} THEN g ELSE op(it[S \ {Max(S)}], Max(S))]
           F == [S \in SUBSET (1 .. n) |-> [h \in P |-> op(h, Max(S))]]
<1>1. EdgesRemoved(g, b, succ) = (CHOOSE it : it = step(it))[1 .. n]
  BY Zenon DEF EdgesRemoved, FoldLeft, MapThenFoldSet
<1>2. \A h \in P : \A i \in 1 .. n : op(h, i) \in P
  OBVIOUS
<1> HIDE DEF op
<1>3. ASSUME NEW S \in SUBSET (1 .. n), S # {}
      PROVE  /\ Greatest(n)[S] = Max(S) /\ Max(S) \in 1 .. n
             /\ \A h \in P : F[S][h] = op(h, Max(S)) /\ F[S][h] \in P
  <2>1. Greatest(n)[S] = Max(S) /\ Max(S) \in 1 .. n
    BY <1>3, GreatestChosen DEF Greatest, Chooses
  <2> QED
    BY <1>2, <2>1
<1> HIDE DEF F
<1>4. Chooses(n, Greatest(n))
  BY GreatestChosen
<1>5. PICK it : /\ Iterated(it, n, Greatest(n), g, F)
                /\ \A S \in SUBSET (1 .. n) : it[S] \in P
  <2>1. \A S \in SUBSET (1 .. n) : S # {} => \A h \in P : F[S][h] \in P
    BY <1>3
  <2> QED
    BY <1>4, <2>1, FoldExists
<1>6. it = step(it)
  <2>1. \A S \in SUBSET (1 .. n) : it[S \ {Max(S)}] \in P
    BY <1>5
  <2>2. \A S \in SUBSET (1 .. n) :
           (IF S = {} THEN g ELSE F[S][it[S \ {Greatest(n)[S]}]])
              = IF S = {} THEN g ELSE op(it[S \ {Max(S)}], Max(S))
    BY <1>3, <2>1
  <2> QED
    BY <1>5, <2>2 DEF Iterated
<1>7. PICK c : c = step(c) /\ c = CHOOSE d : d = step(d)
  BY <1>6
<1>8. \A S \in SUBSET (1 .. n) :
         c[S] = IF S = {} THEN g ELSE op(c[S \ {Max(S)}], Max(S))
  BY <1>7, Zenon
<1>9. c[{}] \in P
  BY <1>8
<1>10. \A S \in SUBSET (1 .. n) : S # {} /\ c[S \ {Greatest(n)[S]}] \in P => c[S] \in P
  <2> SUFFICES ASSUME NEW S \in SUBSET (1 .. n), S # {}, c[S \ {Greatest(n)[S]}] \in P
               PROVE  c[S] \in P
    BY Zenon
  <2>1. c[S \ {Max(S)}] \in P /\ Max(S) \in 1 .. n
    BY <1>3
  <2>2. op(c[S \ {Max(S)}], Max(S)) \in P
    BY <1>2, <2>1
  <2> QED
    BY <1>8, <2>2
<1>11. c[1 .. n] \in P
  BY <1>4, <1>9, <1>10, FoldKeeps
<1> QED
  BY <1>1, <1>7, <1>11

(* A step of BlockCloner's walk. *)
NextInChain(g, x) == IF g.heap[x].succ = <<>> THEN ProcOf(g, x).exit ELSE g.heap[x].succ[1]

ChainGrown(g, s) ==
    LET x == NextInChain(g, Last(s))
    IN  IF x = ProcOf(g, x).exit \/ Contains(s, x) THEN s ELSE Append(s, x)

(* BlockCloner's walk. *)
LEMMA ChainIn ==
  ASSUME NEW P, NEW g, NEW b,
         NEW n \in Nat, DOMAIN g.heap = 1 .. n, <<b>> \in P,
         \A h \in P : \A i \in 1 .. n : ChainGrown(g, h) \in P
  PROVE  Chain(g, b) \in P
<1> DEFINE op(h, i) == ChainGrown(g, h)
           step(it) == [S \in SUBSET (1 .. n) |->
              IF S = {} THEN <<b>> ELSE op(it[S \ {Max(S)}], Max(S))]
           F == [S \in SUBSET (1 .. n) |-> [h \in P |-> op(h, Max(S))]]
<1>1. Chain(g, b) = (CHOOSE it : it = step(it))[1 .. n]
  BY Zenon DEF Chain, ChainGrown, NextInChain, FoldLeft, MapThenFoldSet
<1>2. \A h \in P : \A i \in 1 .. n : op(h, i) \in P
  OBVIOUS
<1> HIDE DEF op
<1>3. ASSUME NEW S \in SUBSET (1 .. n), S # {}
      PROVE  /\ Greatest(n)[S] = Max(S) /\ Max(S) \in 1 .. n
             /\ \A h \in P : F[S][h] = op(h, Max(S)) /\ F[S][h] \in P
  <2>1. Greatest(n)[S] = Max(S) /\ Max(S) \in 1 .. n
    BY <1>3, GreatestChosen DEF Greatest, Chooses
  <2> QED
    BY <1>2, <2>1
<1> HIDE DEF F
<1>4. Chooses(n, Greatest(n))
  BY GreatestChosen
<1>5. PICK it : /\ Iterated(it, n, Greatest(n), <<b>>, F)
                /\ \A S \in SUBSET (1 .. n) : it[S] \in P
  <2>1. \A S \in SUBSET (1 .. n) : S # {} => \A h \in P : F[S][h] \in P
    BY <1>3
  <2> QED
    BY <1>4, <2>1, FoldExists
<1>6. it = step(it)
  <2>1. \A S \in SUBSET (1 .. n) : it[S \ {Max(S)}] \in P
    BY <1>5
  <2>2. \A S \in SUBSET (1 .. n) :
           (IF S = {} THEN <<b>> ELSE F[S][it[S \ {Greatest(n)[S]}]])
              = IF S = {} THEN <<b>> ELSE op(it[S \ {Max(S)}], Max(S))
    BY <1>3, <2>1
  <2> QED
    BY <1>5, <2>2 DEF Iterated
<1>7. PICK c : c = step(c) /\ c = CHOOSE d : d = step(d)
  BY <1>6
<1>8. \A S \in SUBSET (1 .. n) :
         c[S] = IF S = {} THEN <<b>> ELSE op(c[S \ {Max(S)}], Max(S))
  BY <1>7, Zenon
<1>9. c[{}] \in P
  BY <1>8
<1>10. \A S \in SUBSET (1 .. n) : S # {} /\ c[S \ {Greatest(n)[S]}] \in P => c[S] \in P
  <2> SUFFICES ASSUME NEW S \in SUBSET (1 .. n), S # {}, c[S \ {Greatest(n)[S]}] \in P
               PROVE  c[S] \in P
    BY Zenon
  <2>1. c[S \ {Max(S)}] \in P /\ Max(S) \in 1 .. n
    BY <1>3
  <2>2. op(c[S \ {Max(S)}], Max(S)) \in P
    BY <1>2, <2>1
  <2> QED
    BY <1>8, <2>2
<1>11. c[1 .. n] \in P
  BY <1>4, <1>9, <1>10, FoldKeeps
<1> QED
  BY <1>1, <1>7, <1>11

-------------------------------------------------------------------------------
(* Procedures and thunks. *)

(* What a graph has after a procedure was added. *)
ProcedureAdded(g, h, addr, n) ==
    /\ DOMAIN h.heap = DOMAIN g.heap \cup {n, n + 1}
    /\ n = Len(g.heap) + 1
    /\ \A b \in DOMAIN g.heap : h.heap[b] = g.heap[b]
    /\ h.heap[n] = NewRecord("entry", addr, addr)
    /\ h.heap[n + 1] = NewRecord("exit", addr, addr)
    /\ DOMAIN h.procs = DOMAIN g.procs \cup {addr}
    /\ \A q \in DOMAIN g.procs :
          /\ h.procs[q].entry = g.procs[q].entry
          /\ h.procs[q].exit = g.procs[q].exit
          /\ h.procs[q].blocks = g.procs[q].blocks
    /\ h.procs[addr].entry = n
    /\ h.procs[addr].exit = n + 1
    /\ h.procs[addr].blocks = {n, n + 1}

(* EnsureProcedure makes a procedure with its entry and its exit. *)
LEMMA ProcedureAddedIs ==
  ASSUME NEW g \in Graphs, NEW addr \in Addresses, addr \notin DOMAIN g.procs, NEW h
  PROVE  h = EnsureProcedure(g, addr) =>
         h \in Graphs /\ ProcedureAdded(g, h, addr, Len(g.heap) + 1)
<1>h. HAVE h = EnsureProcedure(g, addr)
<1> USE <1>h
<1>1. PICK n : n = Len(g.heap) + 1
  OBVIOUS
<1>2. /\ g = [heap |-> g.heap, procs |-> g.procs]
      /\ g.heap \in Seq(BlockSet)
      /\ DOMAIN g.heap = 1 .. Len(g.heap) /\ Len(g.heap) \in Nat
      /\ DOMAIN g.procs \subseteq Addresses
      /\ g.procs \in [DOMAIN g.procs -> ProcSet]
      /\ addr \in Int /\ n \in Nat /\ n + 1 \in Nat
  BY <1>1, GraphParts, ScannerAssumption DEF Addresses
<1>3. PICK z : z = [entry |-> n, exit |-> n + 1, blocks |-> {}]
  OBVIOUS
<1>4. z \in ProcSet
  BY <1>2, <1>3 DEF ProcSet
<1>5. PICK P : P = Set(g.procs, addr, z)
  OBVIOUS
<1>6. /\ P \in [DOMAIN g.procs \cup {addr} -> ProcSet]
      /\ DOMAIN P = DOMAIN g.procs \cup {addr}
      /\ P[addr] = z
      /\ \A q \in DOMAIN g.procs : P[q] = g.procs[q]
  BY <1>2, <1>4, <1>5 DEF Set
<1>7. PICK g1 : g1 = [heap |-> g.heap, procs |-> P]
  OBVIOUS
<1>8. h = NewBlock(NewBlock(g1, "entry", addr, addr), "exit", addr, addr)
  <2>1. g1 = [g EXCEPT !.procs = Set(@, addr, z)]
    BY <1>2, <1>5, <1>7
  <2>2. g1 = [g EXCEPT !.procs = Set(@, addr, [entry |-> n, exit |-> n + 1, blocks |-> {}])]
    BY <1>3, <2>1
  <2> QED
    BY <1>1, <2>2 DEF EnsureProcedure, Newest
<1> HIDE <1>h
<1>9. g1 \in Graphs
  BY <1>2, <1>6, <1>7, GraphMade
<1>10. PICK g2 : g2 = NewBlock(g1, "entry", addr, addr)
  OBVIOUS
<1>11. g2 \in Graphs /\ BlockAdded(g1, g2, NewRecord("entry", addr, addr), addr)
  <2>1. "entry" \in Roles /\ addr \in DOMAIN g1.procs
    BY <1>6, <1>7 DEF Roles
  <2> QED
    BY <1>2, <1>9, <1>10, <2>1, NewBlockIs
<1>12. h \in Graphs /\ BlockAdded(g2, h, NewRecord("exit", addr, addr), addr)
  <2>1. "exit" \in Roles /\ addr \in DOMAIN g2.procs
    BY <1>6, <1>7, <1>11 DEF Roles, BlockAdded
  <2>2. h = NewBlock(g2, "exit", addr, addr)
    BY <1>8, <1>10
  <2> QED
    BY <1>2, <1>11, <2>1, <2>2, NewBlockIs
<1>13. PICK x, y : x = NewRecord("entry", addr, addr) /\ y = NewRecord("exit", addr, addr)
  OBVIOUS
<1>14. /\ DOMAIN g2.heap = DOMAIN g.heap \cup {n}
       /\ Len(g2.heap) = n
       /\ g2.heap[n] = x
       /\ \A b \in DOMAIN g.heap : g2.heap[b] = g.heap[b]
       /\ DOMAIN g2.procs = DOMAIN P
       /\ \A q \in DOMAIN P :
            /\ g2.procs[q].entry = P[q].entry
            /\ g2.procs[q].exit = P[q].exit
            /\ g2.procs[q].blocks = IF q = addr THEN P[q].blocks \cup {n} ELSE P[q].blocks
  BY <1>1, <1>7, <1>11, <1>13 DEF BlockAdded
<1>15. /\ DOMAIN h.heap = DOMAIN g2.heap \cup {n + 1}
       /\ h.heap[n + 1] = y
       /\ \A b \in DOMAIN g2.heap : h.heap[b] = g2.heap[b]
       /\ DOMAIN h.procs = DOMAIN P
       /\ \A q \in DOMAIN P :
            /\ h.procs[q].entry = g2.procs[q].entry
            /\ h.procs[q].exit = g2.procs[q].exit
            /\ h.procs[q].blocks = IF q = addr THEN g2.procs[q].blocks \cup {n + 1}
                                   ELSE g2.procs[q].blocks
  BY <1>12, <1>13, <1>14 DEF BlockAdded
<1>16. z.entry = n /\ z.exit = n + 1 /\ z.blocks = {}
  BY <1>3
<1>a. /\ DOMAIN h.heap = DOMAIN g.heap \cup {n, n + 1}
      /\ \A b \in DOMAIN g.heap : h.heap[b] = g.heap[b]
      /\ h.heap[n] = x
      /\ h.heap[n + 1] = y
  BY <1>14, <1>15
<1>b. \A q \in DOMAIN g.procs :
          /\ h.procs[q].entry = g.procs[q].entry
          /\ h.procs[q].exit = g.procs[q].exit
          /\ h.procs[q].blocks = g.procs[q].blocks
  BY <1>6, <1>14, <1>15
<1>c. /\ h.procs[addr].entry = n
      /\ h.procs[addr].exit = n + 1
      /\ h.procs[addr].blocks = {n, n + 1}
  BY <1>6, <1>14, <1>15, <1>16
<1>17. ProcedureAdded(g, h, addr, n)
  BY <1>1, <1>6, <1>13, <1>15, <1>a, <1>b, <1>c DEF ProcedureAdded
<1> QED
  BY <1>1, <1>12, <1>17

(* A procedure at addr: if there was none, it is not entered, and what has *)
(* come with it is an entry and an exit.                                   *)
ProcedureMade(g, h, addr) ==
    /\ \A b \in DOMAIN g.heap : h.heap[b] = g.heap[b]
    /\ \A b \in DOMAIN h.heap \ DOMAIN g.heap : Listed(h, b) /\ h.heap[b].role \notin Inner
    /\ DOMAIN h.procs = DOMAIN g.procs \cup {addr}
    /\ \A p \in DOMAIN g.procs : h.procs[p].blocks = g.procs[p].blocks
    /\ addr \in DOMAIN g.procs \/ ~Entered(h, addr)

(* A new procedure, with its entry and its exit, leaves the graph sound.   *)
LEMMA ProcedureAddedKeeps ==
  ASSUME NEW X, NEW g, Well(g, X), NEW addr \in Addresses, addr \notin DOMAIN g.procs,
         NEW h \in Graphs, NEW n, ProcedureAdded(g, h, addr, n)
  PROVE  Well(h, X) /\ Grows(g, h) /\ ProcedureMade(g, h, addr)
<1>1. PICK x, y : x = NewRecord("entry", addr, addr) /\ y = NewRecord("exit", addr, addr)
  OBVIOUS
<1>2. /\ x.role = "entry" /\ x.proc = addr /\ x.succ = <<>> /\ x.pred = <<>> /\ x.stms = <<>>
      /\ y.role = "exit" /\ y.proc = addr /\ y.succ = <<>> /\ y.pred = <<>> /\ y.stms = <<>>
  BY <1>1 DEF NewRecord
<1>3. /\ DOMAIN h.heap = DOMAIN g.heap \cup {n, n + 1}
      /\ \A b \in DOMAIN g.heap : h.heap[b] = g.heap[b]
      /\ h.heap[n] = x
      /\ h.heap[n + 1] = y
      /\ DOMAIN h.procs = DOMAIN g.procs \cup {addr}
      /\ \A q \in DOMAIN g.procs :
            /\ h.procs[q].entry = g.procs[q].entry
            /\ h.procs[q].exit = g.procs[q].exit
            /\ h.procs[q].blocks = g.procs[q].blocks
      /\ h.procs[addr].entry = n
      /\ h.procs[addr].exit = n + 1
      /\ h.procs[addr].blocks = {n, n + 1}
  BY <1>1 DEF ProcedureAdded
<1>4. \A p \in DOMAIN g.procs : g.procs[p].entry \in DOMAIN g.heap
                                /\ g.procs[p].exit \in DOMAIN g.heap
  BY DEF Well, ProcsFit
<1>5. Grows(g, h)
  <2>1. \A p \in DOMAIN g.procs : Entered(g, p) => Entered(h, p) /\ First(h, p) = First(g, p)
    BY <1>3, <1>4 DEF Entered, First
  <2>2. ToldStays(g, h)
    BY <1>3, ToldAsBefore
  <2> QED
    BY <1>3, <2>1, <2>2 DEF Grows, ToldStays
<1>10. ProcedureMade(g, h, addr)
  <2>1. ~Entered(h, addr)
    BY <1>2, <1>3 DEF Entered
  <2>2. \A b \in DOMAIN h.heap \ DOMAIN g.heap : Listed(h, b) /\ h.heap[b].role \notin Inner
    BY <1>2, <1>3 DEF Listed, Inner
  <2> QED
    BY <1>3, <2>1, <2>2 DEF ProcedureMade
<1>6. BlocksFit(h)
  <2>1. Ends(g) \subseteq Ends(h) /\ Starts(g) \subseteq Starts(h)
    BY <1>3 DEF Ends, Starts
  <2>2. ASSUME NEW b \in DOMAIN g.heap
        PROVE  /\ h.heap[b].proc \in DOMAIN h.procs
               /\ h.heap[b].role = "entry" => b = h.procs[h.heap[b].proc].entry
               /\ h.heap[b].role = "exit"  => b = h.procs[h.heap[b].proc].exit
    <3>1. /\ g.heap[b].proc \in DOMAIN g.procs
          /\ g.heap[b].role = "entry" => b = g.procs[g.heap[b].proc].entry
          /\ g.heap[b].role = "exit"  => b = g.procs[g.heap[b].proc].exit
      BY DEF Well, BlocksFit
    <3> QED
      BY <1>3, <3>1
  <2>3. ASSUME NEW b \in DOMAIN g.heap
        PROVE  h.heap[b].succ \in Seq(Ends(h)) /\ h.heap[b].pred \in Seq(Starts(h))
    <3>1. g.heap[b].succ \in Seq(Ends(g)) /\ g.heap[b].pred \in Seq(Starts(g))
      BY DEF Well, BlocksFit
    <3> QED
      BY <1>3, <2>1, <3>1, SeqMonotonic
  <2>4. ASSUME NEW b \in {n, n + 1}
        PROVE  /\ h.heap[b].proc \in DOMAIN h.procs
               /\ h.heap[b].role = "entry" => b = h.procs[h.heap[b].proc].entry
               /\ h.heap[b].role = "exit"  => b = h.procs[h.heap[b].proc].exit
               /\ h.heap[b].succ \in Seq(Ends(h))
               /\ h.heap[b].pred \in Seq(Starts(h))
    <3>1. <<>> \in Seq(Ends(h)) /\ <<>> \in Seq(Starts(h))
      BY EmptySeq
    <3>2. h.heap[b] \in {x, y}
      BY <1>3
    <3>3. h.heap[b].proc = addr /\ h.heap[b].succ = <<>> /\ h.heap[b].pred = <<>>
      BY <1>2, <3>2
    <3>4. (h.heap[b].role = "entry" => b = n) /\ (h.heap[b].role = "exit" => b = n + 1)
      BY <1>2, <1>3
    <3> QED
      BY <1>3, <3>1, <3>3, <3>4
  <2> QED
    BY <1>3, <2>2, <2>3, <2>4 DEF BlocksFit
<1>7. ProcsFit(h)
  <2>1. ASSUME NEW p \in DOMAIN g.procs
        PROVE  /\ h.procs[p].entry \in DOMAIN h.heap
               /\ h.heap[h.procs[p].entry].role = "entry"
               /\ h.heap[h.procs[p].entry].proc = p
               /\ h.procs[p].exit \in DOMAIN h.heap
               /\ h.heap[h.procs[p].exit].role = "exit"
               /\ h.heap[h.procs[p].exit].proc = p
               /\ \A b \in h.procs[p].blocks : b \in DOMAIN h.heap /\ h.heap[b].proc = p
    <3>1. /\ g.procs[p].entry \in DOMAIN g.heap
          /\ g.heap[g.procs[p].entry].role = "entry"
          /\ g.heap[g.procs[p].entry].proc = p
          /\ g.procs[p].exit \in DOMAIN g.heap
          /\ g.heap[g.procs[p].exit].role = "exit"
          /\ g.heap[g.procs[p].exit].proc = p
          /\ \A b \in g.procs[p].blocks : b \in DOMAIN g.heap /\ g.heap[b].proc = p
      BY DEF Well, ProcsFit
    <3> QED
      BY <1>3, <3>1
  <2>2. /\ h.procs[addr].entry \in DOMAIN h.heap
        /\ h.heap[h.procs[addr].entry].role = "entry"
        /\ h.heap[h.procs[addr].entry].proc = addr
        /\ h.procs[addr].exit \in DOMAIN h.heap
        /\ h.heap[h.procs[addr].exit].role = "exit"
        /\ h.heap[h.procs[addr].exit].proc = addr
        /\ \A b \in h.procs[addr].blocks : b \in DOMAIN h.heap /\ h.heap[b].proc = addr
    BY <1>2, <1>3
  <2> QED
    BY <1>3, <2>1, <2>2 DEF ProcsFit
<1>8. EnteredFit(h, X)
  <2> SUFFICES ASSUME NEW b \in DOMAIN h.heap, h.heap[b].role \in Inner
               PROVE  h.heap[b].proc \in X.procs \/ Entered(h, h.heap[b].proc)
    BY DEF EnteredFit
  <2>1. b \in DOMAIN g.heap /\ h.heap[b] = g.heap[b]
    BY <1>2, <1>3 DEF Inner
  <2>2. g.heap[b].proc \in X.procs \/ Entered(g, g.heap[b].proc)
    BY <2>1 DEF Well, EnteredFit
  <2>3. g.heap[b].proc \in DOMAIN g.procs
    BY <2>1 DEF Well, BlocksFit
  <2> QED
    BY <1>5, <2>1, <2>2, <2>3 DEF Grows
<1>9. EntriesFit(h, X)
  <2>1. \A b \in DOMAIN h.heap \ DOMAIN g.heap : h.heap[b] \in {x, y}
    BY <1>3
  <2> QED
    BY <1>2, <1>3, <2>1, EntriesAsBefore
<1> QED
  BY <1>5, <1>6, <1>7, <1>8, <1>9, <1>10 DEF Well

(* Program.EnsureProcedure leaves the rest of the graph as it is.           *)
LEMMA EnsureProcedureKeeps ==
  ASSUME NEW X, NEW g, Well(g, X), NEW addr \in Addresses, NEW h
  PROVE  h = EnsureProcedure(g, addr) =>
         Well(h, X) /\ Grows(g, h) /\ ProcedureMade(g, h, addr)
<1>h. HAVE h = EnsureProcedure(g, addr)
<1> USE <1>h
<1>1. CASE addr \in DOMAIN g.procs
  BY <1>1, GrowsReflexive DEF EnsureProcedure, ProcedureMade
<1>2. CASE addr \notin DOMAIN g.procs
  <2>1. h \in Graphs /\ ProcedureAdded(g, h, addr, Len(g.heap) + 1)
    BY <1>2, ProcedureAddedIs DEF Well
  <2> HIDE <1>h
  <2> QED
    BY <1>2, <2>1, ProcedureAddedKeeps
<1> QED
  BY <1>1, <1>2

(* What blocks but b and the exits have stays theirs. *)
Apart(g, h, b) ==
    \A c \in DOMAIN g.heap :
       /\ c # b => h.heap[c].succ = g.heap[c].succ /\ h.heap[c].stms = g.heap[c].stms
       /\ g.heap[c].role # "exit" => h.heap[c].pred = g.heap[c].pred

(* A call that returns may be put into any block but an exit. *)
LEMMA CallAndReturnKeeps ==
  ASSUME NEW X, NEW g, Well(g, X), NEW b \in DOMAIN g.heap, g.heap[b].role # "exit",
         MayTell(g, X, b),
         NEW addr \in Int, NEW callee \in Addresses \cup {None}, NEW h
  PROVE  h = CallAndReturn(g, b, addr, callee) =>
         /\ Well(h, X) /\ Keeps(g, h) /\ SameNodes(g, h) /\ Apart(g, h, b)
         /\ h.heap[b].stms # <<>>
<1>h. HAVE h = CallAndReturn(g, b, addr, callee)
<1> USE <1>h
<1>1. PICK k, l, e : /\ k = Emit(g, b, addr, "call", callee)
                     /\ l = Emit(k, b, addr, "return", None)
                     /\ e = ProcOf(g, b).exit
  OBVIOUS
<1>2. h = AddEdge(l, b, e)
  BY <1>1, Zenon DEF CallAndReturn
<1> HIDE <1>h
<1>3. /\ Well(k, X) /\ Keeps(g, k) /\ SameNodes(g, k)
      /\ \A c \in DOMAIN g.heap : /\ k.heap[c].succ = g.heap[c].succ
                                  /\ k.heap[c].pred = g.heap[c].pred
                                  /\ c # b => k.heap[c].stms = g.heap[c].stms
  <2>1. "call" \in Kinds
    BY DEF Kinds
  <2> QED
    BY <1>1, <2>1, EmitKeeps
<1>4. /\ Well(l, X) /\ Keeps(k, l) /\ SameNodes(k, l)
      /\ \A c \in DOMAIN k.heap : /\ l.heap[c].succ = k.heap[c].succ
                                  /\ l.heap[c].pred = k.heap[c].pred
                                  /\ c # b => l.heap[c].stms = k.heap[c].stms
      /\ l.heap[b].stms # <<>>
  <2>1. "return" \in Kinds /\ None \in Addresses \cup {None} /\ b \in DOMAIN k.heap
    BY <1>3 DEF Kinds, SameNodes
  <2>2. Well(k, X)
    BY <1>3
  <2>3. MayTell(k, X, b)
    BY <1>3 DEF MayTell, SameNodes
  <2> QED
    BY <1>1, <2>1, <2>2, <2>3, EmitKeeps
<1>5. /\ Keeps(g, l) /\ SameNodes(g, l)
      /\ \A c \in DOMAIN g.heap : /\ l.heap[c].succ = g.heap[c].succ
                                  /\ l.heap[c].pred = g.heap[c].pred
                                  /\ c # b => l.heap[c].stms = g.heap[c].stms
  <2>1. Keeps(g, l)
    BY <1>3, <1>4, KeepsOn
  <2> QED
    BY <2>1, <1>3, <1>4 DEF SameNodes
<1>6. e \in Ends(l) /\ b \in DOMAIN l.heap /\ l.heap[b].role # "exit" /\ l.heap[e].role = "exit"
  <2>1. g.heap[b].proc \in DOMAIN g.procs
    BY WellParts
  <2>2. e \in DOMAIN g.heap /\ g.heap[e].role = "exit"
    BY <1>1, <2>1 DEF Well, ProcsFit, ProcOf
  <2> QED
    BY <1>5, <2>2 DEF SameNodes, Ends
<1>7. /\ Well(h, X) /\ Keeps(l, h) /\ SameNodes(l, h)
      /\ \A c \in DOMAIN l.heap : /\ h.heap[c].stms = l.heap[c].stms
                                  /\ c # b => h.heap[c].succ = l.heap[c].succ
                                  /\ c # e => h.heap[c].pred = l.heap[c].pred
  <2>1. Well(l, X)
    BY <1>4
  <2>2. l.heap[b].role # "entry" \/ l.heap[b].succ # <<>>
    BY <1>5 DEF MayTell, SameNodes
  <2> QED
    BY <1>2, <1>6, <2>1, <2>2, AddEdgeKeeps
<1>8. Keeps(g, h)
  BY <1>5, <1>7, KeepsOn
<1>9. Apart(g, h, b)
  <2>1. l.heap[e].role = g.heap[e].role
    BY <1>5, <1>6 DEF SameNodes, Ends
  <2> QED
    BY <1>5, <1>6, <1>7, <2>1 DEF SameNodes, Apart
<1> QED
  BY <1>4, <1>5, <1>7, <1>8, <1>9 DEF SameNodes

(* A thunk is a new block of a procedure that is entered, or will be. *)
ThunkAdded(g, h, proc) ==
    /\ Newest(h) = Len(g.heap) + 1
    /\ DOMAIN h.heap = DOMAIN g.heap \cup {Newest(h)}
    /\ Newest(h) \notin DOMAIN g.heap
    /\ Newest(h) \in Ends(h)
    /\ h.heap[Newest(h)].role = "thunk"
    /\ h.heap[Newest(h)].proc = proc
    /\ h.heap[Newest(h)].stms # <<>>
    /\ \A b \in DOMAIN g.heap : h.heap[b].succ = g.heap[b].succ
    /\ Apart(g, h, Newest(h))

(* So does a call-return thunk, which runs on to the exit.                 *)
LEMMA ThunkKeeps ==
  ASSUME NEW X, NEW g, Well(g, X), NEW addr \in Int, NEW proc \in DOMAIN g.procs,
         proc \in X.procs \/ Entered(g, proc), NEW callee \in Addresses \cup {None}, NEW h
  PROVE  h = CallRetThunk(g, addr, proc, callee) =>
         Well(h, X) /\ Keeps(g, h) /\ ThunkAdded(g, h, proc)
<1>h. HAVE h = CallRetThunk(g, addr, proc, callee)
<1> USE <1>h
<1>1. PICK k, n : k = NewBlock(g, "thunk", proc, addr) /\ n = Len(g.heap) + 1
  OBVIOUS
<1>2. h = CallAndReturn(k, n, addr, callee)
  BY <1>1 DEF CallRetThunk, Newest
<1> HIDE <1>h
<1>3. /\ Well(k, X) /\ Keeps(g, k)
      /\ BlockAdded(g, k, NewRecord("thunk", proc, addr), proc)
      /\ Newest(k) = n
      /\ n \in Ends(k)
      /\ k.heap[n].role = "thunk"
      /\ k.heap[n].proc = proc
  <2>1. "thunk" \in Inner
    BY DEF Inner
  <2>2. k = NewBlock(g, "thunk", proc, addr)
    BY <1>1
  <2>3. /\ Well(k, X) /\ Keeps(g, k)
        /\ BlockAdded(g, k, NewRecord("thunk", proc, addr), proc)
        /\ Newest(k) = Len(g.heap) + 1
        /\ Newest(k) \in Ends(k)
        /\ k.heap[Newest(k)].role = "thunk"
        /\ k.heap[Newest(k)].proc = proc
    BY <2>1, <2>2, NewBlockKeeps
  <2> QED
    BY <1>1, <2>3
<1>4. /\ DOMAIN k.heap = DOMAIN g.heap \cup {n} /\ n \notin DOMAIN g.heap
      /\ \A b \in DOMAIN g.heap : k.heap[b] = g.heap[b]
  BY <1>1, <1>3 DEF BlockAdded
<1>5. /\ Well(h, X) /\ Keeps(k, h) /\ SameNodes(k, h)
      /\ Apart(k, h, n) /\ h.heap[n].stms # <<>>
  <2>1. Well(k, X) /\ n \in DOMAIN k.heap
    BY <1>3, <1>4
  <2>2. k.heap[n].role # "exit" /\ MayTell(k, X, n)
    BY <1>3 DEF MayTell
  <2> QED
    BY <1>2, <2>1, <2>2, CallAndReturnKeeps, Z3T(30)
<1>6. Keeps(g, h)
  BY <1>3, <1>5, KeepsOn
<1>7. Newest(h) = n
  BY <1>3, <1>5 DEF SameNodes, Newest
<1>9. Apart(g, h, n) /\ \A c \in DOMAIN g.heap : h.heap[c].succ = g.heap[c].succ
  BY <1>4, <1>5 DEF Apart
<1>8. ThunkAdded(g, h, proc)
  BY <1>1, <1>3, <1>4, <1>5, <1>7, <1>9 DEF ThunkAdded, SameNodes, Ends
<1> QED
  BY <1>5, <1>6, <1>8

-------------------------------------------------------------------------------
(* One list of edges at a time. *)

(* Successors of a block that is no entry change. *)
LEMMA SuccPut ==
  ASSUME NEW X, NEW g, Well(g, X), NEW b \in DOMAIN g.heap, NEW s \in Seq(Ends(g)),
         g.heap[b].role # "entry", NEW h
  PROVE  h = WithSucc(g, b, s) =>
         /\ Well(h, X) /\ Keeps(g, h) /\ SameNodes(g, h)
         /\ \A c \in DOMAIN g.heap :
               /\ h.heap[c].stms = g.heap[c].stms
               /\ h.heap[c].succ = IF c = b THEN s ELSE g.heap[c].succ
               /\ h.heap[c].pred = g.heap[c].pred
<1>h. HAVE h = WithSucc(g, b, s)
<1> USE <1>h
<1>1. s \in Seq(Nat) /\ g \in Graphs
  <2>1. Ends(g) \subseteq Nat /\ g \in Graphs
    BY WellParts DEF Ends
  <2> QED
    BY <2>1, SeqMonotonic
<1>2. /\ h \in Graphs
      /\ SameNodes(g, h)
      /\ \A c \in DOMAIN g.heap :
            /\ h.heap[c].stms = g.heap[c].stms
            /\ h.heap[c].succ = IF c = b THEN s ELSE g.heap[c].succ
            /\ h.heap[c].pred = g.heap[c].pred
  <2> QED
    BY <1>1, SetSucc
<1> HIDE <1>h
<1>3. EntriesKept(g, h)
  BY <1>2 DEF EntriesKept
<1>4. \A c \in DOMAIN g.heap : h.heap[c].pred \in Seq(Starts(h))
  BY <1>2, <1>3, PredKept
<1>5. \A c \in DOMAIN g.heap : h.heap[c].succ \in Seq(Ends(g))
  BY <1>2, WellParts
<1>7. EntriesFit(h, X)
  BY <1>2, <1>3, FewerItself, EntriesStay
<1>8. ToldStays(g, h)
  BY <1>2, ToldAsBefore DEF SameNodes
<1>9. EntriesShut(g, h)
  BY <1>2 DEF EntriesShut
<1>6. Well(h, X) /\ Keeps(g, h)
  BY <1>2, <1>3, <1>4, <1>5, <1>7, <1>8, <1>9, EdgesChanged
<1> QED
  BY <1>2, <1>6

(* Predecessors change; of code, entries are no more than before.          *)
LEMMA PredPut ==
  ASSUME NEW X, NEW g, Well(g, X), NEW b \in DOMAIN g.heap, NEW p \in Seq(Starts(g)),
         \A e \in DOMAIN g.heap :
            g.heap[b].role \in Inner /\ g.heap[e].role = "entry" => Fewer(g.heap[b].pred, p, e),
         NEW h
  PROVE  h = WithPred(g, b, p) =>
         /\ Well(h, X) /\ Keeps(g, h) /\ SameNodes(g, h)
         /\ \A c \in DOMAIN g.heap :
               /\ h.heap[c].stms = g.heap[c].stms
               /\ h.heap[c].succ = g.heap[c].succ
               /\ h.heap[c].pred = IF c = b THEN p ELSE g.heap[c].pred
<1>h. HAVE h = WithPred(g, b, p)
<1> USE <1>h
<1>1. p \in Seq(Nat) /\ g \in Graphs
  <2>1. Starts(g) \subseteq Nat /\ g \in Graphs
    BY WellParts DEF Starts
  <2> QED
    BY <2>1, SeqMonotonic
<1>2. /\ h \in Graphs
      /\ SameNodes(g, h)
      /\ \A c \in DOMAIN g.heap :
            /\ h.heap[c].stms = g.heap[c].stms
            /\ h.heap[c].succ = g.heap[c].succ
            /\ h.heap[c].pred = IF c = b THEN p ELSE g.heap[c].pred
  BY <1>1, SetPred
<1> HIDE <1>h
<1>3. EntriesKept(g, h)
  BY <1>2 DEF EntriesKept
<1>4. \A c \in DOMAIN g.heap : h.heap[c].pred \in Seq(Starts(h))
  <2>1. Starts(g) \subseteq Starts(h)
    BY <1>2, <1>3, EndsKept
  <2>2. p \in Seq(Starts(h))
    BY <2>1, SeqMonotonic
  <2> QED
    BY <1>2, <1>3, <2>2, PredKept
<1>5. \A c \in DOMAIN g.heap : h.heap[c].succ \in Seq(Ends(g))
  BY <1>2, WellParts
<1>7. EntriesFit(h, X)
  BY <1>2, <1>3, FewerItself, EntriesStay
<1>8. ToldStays(g, h)
  BY <1>2, ToldAsBefore DEF SameNodes
<1>9. EntriesShut(g, h)
  BY <1>2 DEF EntriesShut
<1>6. Well(h, X) /\ Keeps(g, h)
  BY <1>2, <1>3, <1>4, <1>5, <1>7, <1>8, <1>9, EdgesChanged
<1> QED
  BY <1>2, <1>6

-------------------------------------------------------------------------------
(* SplitBlock. *)

(* Graphs with the same blocks as g, which keep what g has. *)
Like(g, X) == {h \in Graphs : Well(h, X) /\ Keeps(g, h) /\ SameNodes(g, h)}

(* Those of them of which the blocks have the statements they had.         *)
SameStms(g, h) == \A c \in DOMAIN g.heap : h.heap[c].stms = g.heap[c].stms
Alike(g, X)    == {h \in Like(g, X) : SameStms(g, h)}

(* A graph has its own nodes.                                              *)
LEMMA LikeItself ==
  ASSUME NEW X, NEW g, Well(g, X)
  PROVE  g \in Like(g, X) /\ g \in Alike(g, X)
BY GrowsReflexive DEF Like, Alike, SameStms, SameNodes, Well

(* A further change over the same nodes stays among the graphs of g's      *)
(* nodes.                                                                  *)
LEMMA LikeOn ==
  ASSUME NEW X, NEW g, NEW h \in Like(g, X), NEW k, Well(k, X), Keeps(h, k), SameNodes(h, k)
  PROVE  k \in Like(g, X)
<1>1. Keeps(g, k)
  BY KeepsOn DEF Like
<1> QED
  BY <1>1 DEF Like, SameNodes, Well

(* So does one that leaves the statements alone.                           *)
LEMMA AlikeOn ==
  ASSUME NEW X, NEW g, NEW h \in Alike(g, X), NEW k, Well(k, X), Keeps(h, k), SameNodes(h, k),
         SameStms(h, k)
  PROVE  k \in Alike(g, X)
<1>1. h \in Like(g, X) /\ DOMAIN h.heap = DOMAIN g.heap
  BY DEF Alike, Like, SameNodes
<1>2. k \in Like(g, X)
  BY <1>1, LikeOn
<1> QED
  BY <1>1, <1>2 DEF Alike, SameStms

(* SplitBlock moves the outgoing edges to the new block: the graph stays   *)
(* sound.                                                                  *)
LEMMA MoveEdgesKeeps ==
  ASSUME NEW X, NEW g, Well(g, X), NEW b \in DOMAIN g.heap, g.heap[b].role = "code",
         NEW new \in DOMAIN g.heap, g.heap[new].role = "code", NEW h
  PROVE  h = MoveEdges(g, b, new) => h \in Alike(g, X)
<1>h. HAVE h = MoveEdges(g, b, new)
<1> USE <1>h
<1>1. PICK succ, k : succ = g.heap[b].succ /\ k = EdgesAdded(g, new, succ)
  OBVIOUS
<1>2. h = EdgesRemoved(k, b, succ)
  BY <1>1, Zenon DEF MoveEdges, EdgesAdded, EdgesRemoved
<1> HIDE <1>h
<1>3. succ \in Seq(Ends(g))
  BY <1>1, WellParts
<1>4. PICK n : /\ n \in Nat /\ DOMAIN succ = 1 .. n
               /\ \A i \in 1 .. n : succ[i] \in Ends(g)
  BY <1>3, SeqParts
<1>5. \A f \in Alike(g, X) : /\ Well(f, X) /\ DOMAIN f.heap = DOMAIN g.heap
                            /\ f.heap[b].role = "code" /\ f.heap[new].role = "code"
                            /\ Ends(g) = Ends(f)
  BY DEF Alike, Like, SameNodes, Ends
<1>6. k \in Alike(g, X)
  <2>1. ASSUME NEW f \in Alike(g, X), NEW i \in 1 .. n
        PROVE  AddEdge(f, new, succ[i]) \in Alike(g, X)
    <3>1. PICK e, x : e = AddEdge(f, new, x) /\ x = succ[i]
      OBVIOUS
    <3>2. Well(f, X) /\ new \in DOMAIN f.heap /\ f.heap[new].role # "exit" /\ x \in Ends(f)
          /\ f.heap[new].role # "entry"
      BY <1>4, <1>5, <3>1
    <3>3. Well(e, X) /\ Keeps(f, e) /\ SameNodes(f, e) /\ SameStms(f, e)
      BY <3>1, <3>2, AddEdgeKeeps DEF SameStms
    <3> QED
      BY <3>1, <3>3, AlikeOn
  <2>2. g \in Alike(g, X)
    BY LikeItself
  <2>3. EdgesAdded(g, new, succ) \in Alike(g, X)
    <3> QED
      BY <1>4, <2>1, <2>2, EdgesAddedIn
  <2> QED
    BY <1>1, <2>3
<1>7. h \in Alike(g, X)
  <2>1. ASSUME NEW f \in Alike(g, X), NEW i \in 1 .. n
        PROVE  RemoveEdge(f, b, succ[i]) \in Alike(g, X)
    <3>1. PICK e, x : e = RemoveEdge(f, b, x) /\ x = succ[i]
      OBVIOUS
    <3>2. Well(f, X) /\ b \in DOMAIN f.heap /\ f.heap[b].role # "entry" /\ x \in DOMAIN f.heap
      BY <1>4, <1>5, <3>1 DEF Ends
    <3>3. Well(e, X) /\ Keeps(f, e) /\ SameNodes(f, e) /\ SameStms(f, e)
      BY <3>1, <3>2, RemoveEdgeKeeps DEF SameStms
    <3> QED
      BY <3>1, <3>3, AlikeOn
  <2>2. EdgesRemoved(k, b, succ) \in Alike(g, X)
    <3> QED
      BY <1>4, <1>6, <2>1, EdgesRemovedIn
  <2> QED
    BY <1>2, <2>2
<1> QED
  BY <1>7

(* Statements with those of s among the indices S that are in T.           *)
StmsHeld(s, T) ==
    [S \in SUBSET (DOMAIN s) |->
        {h \in Seq(StmSet) : \A i \in S : i \in T => \E k \in DOMAIN h : h[k] = s[i]}]

(* A half gets the statements that are its own, and may pass by the others. *)
LEMMA HalfKept ==
  ASSUME NEW s \in Seq(StmSet), NEW T, NEW Q, Q = StmsHeld(s, T),
         NEW S \in SUBSET (DOMAIN s), NEW i \in S, NEW h \in Q[S \ {i}]
  PROVE  /\ Append(h, s[i]) \in Q[S]
         /\ i \notin T => h \in Q[S]
<1>1. S \ {i} \in SUBSET (DOMAIN s) /\ s[i] \in StmSet
  BY SeqParts
<1>2. /\ h \in Seq(StmSet)
      /\ \A j \in S \ {i} : j \in T => \E k \in DOMAIN h : h[k] = s[j]
  BY <1>1 DEF StmsHeld
<1>3. /\ Append(h, s[i]) \in Seq(StmSet) /\ Len(h) \in Nat
      /\ DOMAIN h = 1 .. Len(h)
      /\ DOMAIN Append(h, s[i]) = 1 .. Len(h) + 1
      /\ Append(h, s[i])[Len(h) + 1] = s[i]
      /\ \A k \in 1 .. Len(h) : Append(h, s[i])[k] = h[k]
  BY <1>1, <1>2, AppendParts, SeqParts
<1>4. \A j \in S : j \in T => \E k \in DOMAIN Append(h, s[i]) : Append(h, s[i])[k] = s[j]
  <2> SUFFICES ASSUME NEW j \in S, j \in T
               PROVE  \E k \in DOMAIN Append(h, s[i]) : Append(h, s[i])[k] = s[j]
    OBVIOUS
  <2>1. CASE j = i
    BY <1>3, <2>1
  <2>2. CASE j # i
    <3>1. PICK k \in DOMAIN h : h[k] = s[j]
      BY <1>2, <2>2
    <3> QED
      BY <1>3, <3>1
  <2> QED
    BY <2>1, <2>2
<1>5. i \notin T => \A j \in S : j \in T => \E k \in DOMAIN h : h[k] = s[j]
  BY <1>2
<1> QED
  BY <1>2, <1>3, <1>4, <1>5 DEF StmsHeld

(* Both halves of the statements of a block are statements, and what one    *)
(* does not hold is in the other.                                          *)
LEMMA StmsSplit ==
  ASSUME NEW s \in Seq(StmSet), NEW addr \in Int
  PROVE  /\ StmsBelow(s, addr) \in Seq(StmSet) /\ StmsFrom(s, addr) \in Seq(StmSet)
         /\ \A a : Tells(s, a) =>
               Tells(StmsBelow(s, addr), a) \/ Tells(StmsFrom(s, addr), a)
<1>1. PICK n : n \in Nat /\ DOMAIN s = 1 .. n /\ \A i \in 1 .. n : s[i] \in StmSet
  BY SeqParts
<1>2. <<>> \in Seq(StmSet)
  BY EmptySeq
<1>3. PICK B, A : /\ B = {i \in 1 .. n : s[i].addr < addr}
                  /\ A = {i \in 1 .. n : s[i].addr >= addr}
  OBVIOUS
<1>4. PICK Q, R : Q = StmsHeld(s, B) /\ R = StmsHeld(s, A)
  OBVIOUS
<1>5. <<>> \in Q[{}] /\ <<>> \in R[{}]
  BY <1>2, <1>4 DEF StmsHeld
<1>6. \A S \in SUBSET (1 .. n) : \A i \in S : \A h \in Q[S \ {i}] :
         (IF s[i].addr < addr THEN Append(h, s[i]) ELSE h) \in Q[S]
  <2> SUFFICES ASSUME NEW S \in SUBSET (1 .. n), NEW i \in S, NEW h \in Q[S \ {i}]
               PROVE  (IF s[i].addr < addr THEN Append(h, s[i]) ELSE h) \in Q[S]
    OBVIOUS
  <2>1. Append(h, s[i]) \in Q[S] /\ (i \notin B => h \in Q[S])
    BY <1>1, <1>4, HalfKept
  <2>2. i \in B <=> s[i].addr < addr
    BY <1>3
  <2> QED
    BY <2>1, <2>2
<1>7. \A S \in SUBSET (1 .. n) : \A i \in S : \A h \in R[S \ {i}] :
         (IF s[i].addr >= addr THEN Append(h, s[i]) ELSE h) \in R[S]
  <2> SUFFICES ASSUME NEW S \in SUBSET (1 .. n), NEW i \in S, NEW h \in R[S \ {i}]
               PROVE  (IF s[i].addr >= addr THEN Append(h, s[i]) ELSE h) \in R[S]
    OBVIOUS
  <2>1. Append(h, s[i]) \in R[S] /\ (i \notin A => h \in R[S])
    BY <1>1, <1>4, HalfKept
  <2>2. i \in A <=> s[i].addr >= addr
    BY <1>3
  <2> QED
    BY <2>1, <2>2
<1>8. StmsBelow(s, addr) \in Q[1 .. n]
  BY <1>1, <1>5, <1>6, StmsBelowFolded
<1>9. StmsFrom(s, addr) \in R[1 .. n]
  BY <1>1, <1>5, <1>7, StmsFromFolded
<1>10. PICK u, t : u = StmsBelow(s, addr) /\ t = StmsFrom(s, addr)
  OBVIOUS
<1>11. /\ u \in Seq(StmSet) /\ t \in Seq(StmSet)
       /\ \A i \in B : \E k \in DOMAIN u : u[k] = s[i]
       /\ \A i \in A : \E k \in DOMAIN t : t[k] = s[i]
  BY <1>1, <1>3, <1>4, <1>8, <1>9, <1>10 DEF StmsHeld
<1>12. ASSUME NEW a, Tells(s, a)
       PROVE  Tells(u, a) \/ Tells(t, a)
  <2>1. PICK i \in 1 .. n : s[i].addr = a /\ s[i].kind # "goto"
    BY <1>1, <1>12 DEF Tells
  <2>2. s[i].addr \in Int
    BY <1>1 DEF StmSet
  <2>3. i \in B \/ i \in A
    BY <1>3, <1>12, <2>2
  <2> QED
    BY <1>11, <2>1, <2>3 DEF Tells
<1> QED
  BY <1>10, <1>11, <1>12

(* The statements of a block are in the order of their addresses, begin at  *)
(* or behind the start of the block, and end before x -- but for a goto in  *)
(* the end, which may have been put into a block that it has just cut.      *)
InOrder(s)     == \A i, j \in DOMAIN s : i < j => s[i].addr <= s[j].addr
Starting(s, a) == \A i \in DOMAIN s : a <= s[i].addr
Under(s, x)    == \A i \in DOMAIN s : s[i].addr < x
Nearly(s, x)   == \A i \in DOMAIN s : s[i].addr < x \/ (i = Len(s) /\ s[i].kind = "goto")

Tidy(s, a, x) == InOrder(s) /\ Starting(s, a) /\ Nearly(s, x)

(* t has statements of s, in the same order.                               *)
Part(t, s) ==
    /\ \A k \in DOMAIN t : \E i \in DOMAIN s : t[k] = s[i]
    /\ \A k, l \in DOMAIN t : k < l =>
          \E i, j \in DOMAIN s : i < j /\ t[k] = s[i] /\ t[l] = s[j]

(* The statements of s among the indices S that are in T, in their order.   *)
StmsPicked(s, T) ==
    [S \in SUBSET (DOMAIN s) |->
        {h \in Seq(StmSet) :
            /\ \A k \in DOMAIN h : \E i \in S : i \in T /\ h[k] = s[i]
            /\ \A k, l \in DOMAIN h : k < l =>
                  \E i, j \in S : i < j /\ h[k] = s[i] /\ h[l] = s[j]}]

(* The last statement so far may be added, or passed by.                   *)
LEMMA PickedOn ==
  ASSUME NEW s \in Seq(StmSet), NEW T, NEW Q, Q = StmsPicked(s, T),
         NEW S \in SUBSET (DOMAIN s), NEW i \in S, \A j \in S : j <= i,
         NEW h \in Q[S \ {i}]
  PROVE  /\ i \in T => Append(h, s[i]) \in Q[S]
         /\ h \in Q[S]
<1>1. /\ S \ {i} \in SUBSET (DOMAIN s) /\ s[i] \in StmSet
      /\ \A j \in S \ {i} : j < i
  <2>1. S \subseteq Int
    BY SeqParts
  <2> QED
    BY <2>1, SeqParts
<1>2. /\ h \in Seq(StmSet)
      /\ \A k \in DOMAIN h : \E j \in S \ {i} : j \in T /\ h[k] = s[j]
      /\ \A k, l \in DOMAIN h : k < l =>
            \E j, m \in S \ {i} : j < m /\ h[k] = s[j] /\ h[l] = s[m]
  BY <1>1 DEF StmsPicked
<1>3. h \in Q[S]
  BY <1>2 DEF StmsPicked
<1>4. ASSUME i \in T
      PROVE  Append(h, s[i]) \in Q[S]
  <2>1. PICK t : t = Append(h, s[i])
    OBVIOUS
  <2>2. /\ t \in Seq(StmSet) /\ Len(h) \in Nat
        /\ DOMAIN h = 1 .. Len(h)
        /\ DOMAIN t = 1 .. Len(h) + 1
        /\ t[Len(h) + 1] = s[i]
        /\ \A k \in 1 .. Len(h) : t[k] = h[k]
    BY <1>1, <1>2, <2>1, AppendParts, SeqParts
  <2>3. ASSUME NEW k \in DOMAIN t
        PROVE  \E j \in S : j \in T /\ t[k] = s[j]
    <3>1. CASE k \in DOMAIN h
      BY <1>2, <2>2, <3>1
    <3>2. CASE k = Len(h) + 1
      BY <1>4, <2>2, <3>2
    <3> QED
      BY <2>2, <3>1, <3>2
  <2>4. ASSUME NEW k \in DOMAIN t, NEW l \in DOMAIN t, k < l
        PROVE  \E j, m \in S : j < m /\ t[k] = s[j] /\ t[l] = s[m]
    <3>1. k \in DOMAIN h /\ t[k] = h[k] /\ (l \in DOMAIN h \/ l = Len(h) + 1)
      BY <2>2, <2>4
    <3>2. CASE l \in DOMAIN h
      <4>1. PICK j, m \in S \ {i} : j < m /\ h[k] = s[j] /\ h[l] = s[m]
        BY <1>2, <2>4, <3>1, <3>2
      <4> QED
        BY <2>2, <3>1, <3>2, <4>1
    <3>3. CASE l = Len(h) + 1
      <4>1. PICK j \in S \ {i} : h[k] = s[j]
        BY <1>2, <3>1
      <4> QED
        BY <1>1, <2>2, <3>1, <3>3, <4>1
    <3> QED
      BY <3>1, <3>2, <3>3
  <2>5. t \in Q[S]
    BY <2>2, <2>3, <2>4 DEF StmsPicked
  <2> QED
    BY <2>1, <2>5
<1> QED
  BY <1>3, <1>4

(* Both halves have statements of the block, on their side of the address.  *)
LEMMA StmsCut ==
  ASSUME NEW s \in Seq(StmSet), NEW addr \in Int
  PROVE  /\ Part(StmsBelow(s, addr), s) /\ Under(StmsBelow(s, addr), addr)
         /\ Part(StmsFrom(s, addr), s) /\ Starting(StmsFrom(s, addr), addr)
<1>1. PICK n : n \in Nat /\ DOMAIN s = 1 .. n /\ \A i \in 1 .. n : s[i] \in StmSet
  BY SeqParts
<1>2. <<>> \in Seq(StmSet) /\ DOMAIN <<>> = {}
  BY EmptySeq
<1>3. PICK B, A : /\ B = {i \in 1 .. n : s[i].addr < addr}
                  /\ A = {i \in 1 .. n : s[i].addr >= addr}
  OBVIOUS
<1>4. PICK Q, R : Q = StmsPicked(s, B) /\ R = StmsPicked(s, A)
  OBVIOUS
<1>5. <<>> \in Q[{}] /\ <<>> \in R[{}]
  BY <1>2, <1>4 DEF StmsPicked
<1>6. \A S \in SUBSET (1 .. n) : \A i \in S : (\A j \in S : j <= i) =>
         \A h \in Q[S \ {i}] :
            (IF s[i].addr < addr THEN Append(h, s[i]) ELSE h) \in Q[S]
  <2> SUFFICES ASSUME NEW S \in SUBSET (1 .. n), NEW i \in S, \A j \in S : j <= i,
                      NEW h \in Q[S \ {i}]
               PROVE  (IF s[i].addr < addr THEN Append(h, s[i]) ELSE h) \in Q[S]
    OBVIOUS
  <2>1. (i \in B => Append(h, s[i]) \in Q[S]) /\ h \in Q[S]
    BY <1>1, <1>4, PickedOn
  <2>2. i \in B <=> s[i].addr < addr
    BY <1>3
  <2> QED
    BY <2>1, <2>2
<1>7. \A S \in SUBSET (1 .. n) : \A i \in S : (\A j \in S : j <= i) =>
         \A h \in R[S \ {i}] :
            (IF s[i].addr >= addr THEN Append(h, s[i]) ELSE h) \in R[S]
  <2> SUFFICES ASSUME NEW S \in SUBSET (1 .. n), NEW i \in S, \A j \in S : j <= i,
                      NEW h \in R[S \ {i}]
               PROVE  (IF s[i].addr >= addr THEN Append(h, s[i]) ELSE h) \in R[S]
    OBVIOUS
  <2>1. (i \in A => Append(h, s[i]) \in R[S]) /\ h \in R[S]
    BY <1>1, <1>4, PickedOn
  <2>2. i \in A <=> s[i].addr >= addr
    BY <1>3
  <2> QED
    BY <2>1, <2>2
<1>8. StmsBelow(s, addr) \in Q[1 .. n]
  BY <1>1, <1>5, <1>6, StmsBelowFolded
<1>9. StmsFrom(s, addr) \in R[1 .. n]
  BY <1>1, <1>5, <1>7, StmsFromFolded
<1>10. PICK u, t : u = StmsBelow(s, addr) /\ t = StmsFrom(s, addr)
  OBVIOUS
<1>11. /\ \A k \in DOMAIN u : \E i \in 1 .. n : i \in B /\ u[k] = s[i]
       /\ \A k, l \in DOMAIN u : k < l =>
             \E i, j \in 1 .. n : i < j /\ u[k] = s[i] /\ u[l] = s[j]
  BY <1>1, <1>4, <1>8, <1>10 DEF StmsPicked
<1>12. /\ \A k \in DOMAIN t : \E i \in 1 .. n : i \in A /\ t[k] = s[i]
       /\ \A k, l \in DOMAIN t : k < l =>
             \E i, j \in 1 .. n : i < j /\ t[k] = s[i] /\ t[l] = s[j]
  BY <1>1, <1>4, <1>9, <1>10 DEF StmsPicked
<1>13. Part(u, s) /\ Part(t, s)
  BY <1>1, <1>11, <1>12 DEF Part
<1>14. Under(u, addr)
  <2> SUFFICES ASSUME NEW k \in DOMAIN u PROVE u[k].addr < addr
    BY DEF Under
  <2>1. PICK i \in 1 .. n : i \in B /\ u[k] = s[i]
    BY <1>11
  <2> QED
    BY <1>3, <2>1
<1>15. Starting(t, addr)
  <2> SUFFICES ASSUME NEW k \in DOMAIN t PROVE addr <= t[k].addr
    BY DEF Starting
  <2>1. PICK i \in 1 .. n : i \in A /\ t[k] = s[i]
    BY <1>12
  <2>2. s[i].addr \in Int
    BY <1>1 DEF StmSet
  <2> QED
    BY <1>3, <2>1, <2>2
<1> QED
  BY <1>10, <1>13, <1>14, <1>15

(* Part of the statements is as tidy as the whole.                         *)
LEMMA PartTidy ==
  ASSUME NEW s \in Seq(StmSet), NEW t \in Seq(StmSet), Part(t, s)
  PROVE  /\ InOrder(s) => InOrder(t)
         /\ \A a : Starting(s, a) => Starting(t, a)
         /\ \A x : Under(s, x) => Under(t, x)
         /\ \A x : Nearly(s, x) => Nearly(t, x)
<1>1. /\ Len(s) \in Nat /\ DOMAIN s = 1 .. Len(s)
      /\ Len(t) \in Nat /\ DOMAIN t = 1 .. Len(t)
  BY SeqParts
<1>2. /\ \A k \in DOMAIN t : \E i \in DOMAIN s : t[k] = s[i]
      /\ \A k, l \in DOMAIN t : k < l =>
            \E i, j \in DOMAIN s : i < j /\ t[k] = s[i] /\ t[l] = s[j]
  BY DEF Part
<1>3. InOrder(s) => InOrder(t)
  <2> SUFFICES ASSUME InOrder(s), NEW k \in DOMAIN t, NEW l \in DOMAIN t, k < l
               PROVE  t[k].addr <= t[l].addr
    BY DEF InOrder
  <2>1. PICK i, j \in DOMAIN s : i < j /\ t[k] = s[i] /\ t[l] = s[j]
    BY <1>2
  <2> QED
    BY <2>1 DEF InOrder
<1>4. \A a : Starting(s, a) => Starting(t, a)
  BY <1>2 DEF Starting
<1>5. \A x : Under(s, x) => Under(t, x)
  BY <1>2 DEF Under
<1>6. \A x : Nearly(s, x) => Nearly(t, x)
  <2> SUFFICES ASSUME NEW x, Nearly(s, x), NEW k \in DOMAIN t
               PROVE  t[k].addr < x \/ (k = Len(t) /\ t[k].kind = "goto")
    BY DEF Nearly
  <2>1. CASE k = Len(t)
    <3>1. PICK i \in DOMAIN s : t[k] = s[i]
      BY <1>2
    <3> QED
      BY <2>1, <3>1 DEF Nearly
  <2>2. CASE k # Len(t)
    <3>1. Len(t) \in DOMAIN t /\ k < Len(t)
      BY <1>1, <2>2
    <3>2. PICK i, j \in DOMAIN s : i < j /\ t[k] = s[i] /\ t[Len(t)] = s[j]
      BY <1>2, <3>1
    <3>3. i # Len(s)
      BY <1>1, <3>2
    <3> QED
      BY <3>2, <3>3 DEF Nearly
  <2> QED
    BY <2>1, <2>2
<1> QED
  BY <1>3, <1>4, <1>5, <1>6

(* What MoveStatements leaves in a block that it splits: all of it, if the  *)
(* last statement is below the address.                                     *)
Falls(s, addr)    == s # <<>> /\ Last(s).addr >= addr
StmsLeft(s, addr) == IF Falls(s, addr) THEN StmsBelow(s, addr) ELSE s

(* Both halves of a tidy block are tidy, and the first one ends before the  *)
(* address.                                                                 *)
LEMMA SplitTidy ==
  ASSUME NEW s \in Seq(StmSet), NEW a \in Int, NEW x, NEW addr \in Int, Tidy(s, a, x)
  PROVE  /\ Part(StmsLeft(s, addr), s) /\ Part(StmsFrom(s, addr), s)
         /\ Tidy(StmsLeft(s, addr), a, addr) /\ Under(StmsLeft(s, addr), addr)
         /\ Tidy(StmsFrom(s, addr), addr, x)
<1>1. PICK u, v, t : /\ u = StmsBelow(s, addr) /\ t = StmsFrom(s, addr)
                     /\ v = StmsLeft(s, addr)
  OBVIOUS
<1>2. /\ u \in Seq(StmSet) /\ t \in Seq(StmSet)
      /\ Part(u, s) /\ Under(u, addr) /\ Part(t, s) /\ Starting(t, addr)
  BY <1>1, StmsSplit, StmsCut
<1>3. Tidy(t, addr, x)
  BY <1>2, PartTidy DEF Tidy
<1>4. Part(s, s)
  BY DEF Part
<1>5. v \in Seq(StmSet) /\ Part(v, s) /\ Under(v, addr)
  <2>1. CASE Falls(s, addr)
    BY <1>1, <1>2, <2>1 DEF StmsLeft
  <2>2. CASE ~Falls(s, addr)
    <3>1. v = s
      BY <1>1, <2>2 DEF StmsLeft
    <3>2. /\ Len(s) \in Nat /\ DOMAIN s = 1 .. Len(s) /\ (s = <<>> <=> Len(s) = 0)
          /\ \A i \in DOMAIN s : s[i].addr \in Int
      <4>1. /\ Len(s) \in Nat /\ DOMAIN s = 1 .. Len(s) /\ (s = <<>> <=> Len(s) = 0)
            /\ \A i \in DOMAIN s : s[i] \in StmSet
        BY SeqParts
      <4> QED
        BY <4>1 DEF StmSet
    <3>3. s # <<>> => s[Len(s)].addr < addr
      <4>1. Last(s) = s[Len(s)]
        BY DEF Last
      <4> QED
        BY <2>2, <3>2, <4>1 DEF Falls
    <3>4. ASSUME NEW i \in DOMAIN s
          PROVE  s[i].addr < addr
      <4>1. Len(s) \in DOMAIN s /\ s # <<>> /\ (i = Len(s) \/ i < Len(s))
        BY <3>2
      <4>2. s[i].addr <= s[Len(s)].addr
        BY <3>2, <4>1 DEF Tidy, InOrder
      <4> QED
        BY <3>2, <3>3, <4>1, <4>2
    <3> QED
      BY <1>4, <3>1, <3>4 DEF Under
  <2> QED
    BY <2>1, <2>2
<1>6. Tidy(v, a, addr)
  <2>1. InOrder(v) /\ Starting(v, a)
    BY <1>5, PartTidy DEF Tidy
  <2> QED
    BY <1>5, <2>1 DEF Tidy, Under, Nearly
<1> QED
  BY <1>1, <1>2, <1>3, <1>5, <1>6

(* The statements of both halves of a block that is split.                 *)
BothStms(k, b, new, s, t, falls) ==
    [k EXCEPT !.heap[b].stms = IF falls THEN s ELSE @, !.heap[new].stms = t]

(* The statements of two blocks are set one after the other.               *)
LEMMA TwoStms ==
  ASSUME NEW k \in Graphs, NEW b \in DOMAIN k.heap, NEW new \in DOMAIN k.heap, new # b,
         NEW s, NEW t, NEW falls, NEW u, u = (IF falls THEN s ELSE k.heap[b].stms)
  PROVE  BothStms(k, b, new, s, t, falls) = WithStms(WithStms(k, new, t), b, u)
<1>1. PICK H, P : H = k.heap /\ P = k.procs
  OBVIOUS
<1>2. PICK x, y : x = [H[b] EXCEPT !.stms = u] /\ y = [H[new] EXCEPT !.stms = t]
  OBVIOUS
<1>3. k = [heap |-> H, procs |-> P] /\ DOMAIN H = DOMAIN k.heap
      /\ H = [c \in DOMAIN H |-> H[c]]
  <2>1. k = [heap |-> k.heap, procs |-> k.procs] /\ k.heap \in Seq(BlockSet)
    BY GraphParts
  <2> QED
    BY <1>1, <2>1
<1>4. BothStms(k, b, new, s, t, falls) = [k EXCEPT !.heap = [[H EXCEPT ![b] = x] EXCEPT ![new] = y]]
  BY <1>1, <1>2 DEF BothStms
<1>5. WithStms(WithStms(k, new, t), b, u) =
         [k EXCEPT !.heap = [[H EXCEPT ![new] = y] EXCEPT ![b] = x]]
  <2>1. PICK l : l = WithStms(k, new, t)
    OBVIOUS
  <2>2. l = [heap |-> [H EXCEPT ![new] = y], procs |-> P]
    BY <1>1, <1>2, <1>3, <2>1 DEF WithStms
  <2>3. l.heap = [H EXCEPT ![new] = y] /\ l.procs = P /\ l.heap[b] = H[b]
    BY <1>3, <2>2
  <2>4. WithStms(l, b, u) = [heap |-> [l.heap EXCEPT ![b] = [l.heap[b] EXCEPT !.stms = u]],
                             procs |-> P]
    BY <2>2, <2>3 DEF WithStms
  <2> QED
    BY <1>2, <1>3, <2>1, <2>3, <2>4
<1>6. [[H EXCEPT ![b] = x] EXCEPT ![new] = y] = [[H EXCEPT ![new] = y] EXCEPT ![b] = x]
  BY <1>1, <1>3
<1> QED
  BY <1>4, <1>5, <1>6

(* The statements of b from addr on are those of new, the others are where  *)
(* they were.                                                               *)
StmsMoved(g, h, b, new, addr) ==
    \A c \in DOMAIN g.heap :
       h.heap[c].stms = IF c = b THEN StmsLeft(g.heap[b].stms, addr)
                        ELSE IF c = new THEN StmsFrom(g.heap[b].stms, addr)
                        ELSE g.heap[c].stms

(* SplitBlock moves statements to a block that has none yet, and adds an    *)
(* edge where the first half falls through: the graph stays sound.         *)
LEMMA MoveStatementsKeeps ==
  ASSUME NEW X, NEW g, Well(g, X), NEW b \in DOMAIN g.heap, g.heap[b].role = "code",
         NEW new \in DOMAIN g.heap, g.heap[new].role = "code", new # b,
         g.heap[new].stms = <<>>, NEW addr \in Int, NEW h
  PROVE  h = MoveStatements(g, b, new, addr) =>
         h \in Like(g, X) /\ StmsMoved(g, h, b, new, addr)
<1>h. HAVE h = MoveStatements(g, b, new, addr)
<1> USE <1>h
<1>1. PICK s, t, falls, k :
         /\ s = StmsBelow(Stms(g, b), addr)
         /\ t = StmsFrom(Stms(g, b), addr)
         /\ falls = (Stms(g, b) # <<>> /\ Last(Stms(g, b)).addr >= addr)
         /\ k = IF falls THEN AddEdge(g, b, new) ELSE g
  OBVIOUS
<1>2. h = BothStms(k, b, new, s, t, falls)
  BY <1>1, Zenon DEF MoveStatements, BothStms
<1> HIDE <1>h
<1>3. PICK u : u = (IF falls THEN s ELSE k.heap[b].stms)
  OBVIOUS
<1>5. /\ s \in Seq(StmSet) /\ t \in Seq(StmSet)
      /\ \A a : Tells(g.heap[b].stms, a) => Tells(s, a) \/ Tells(t, a)
  <2>1. Stms(g, b) \in Seq(StmSet) /\ Stms(g, b) = g.heap[b].stms
    BY WellParts DEF Stms
  <2> QED
    BY <1>1, <2>1, StmsSplit
<1>6. k \in Alike(g, X)
  <2>1. CASE falls
    <3>1. k = AddEdge(g, b, new)
      BY <1>1, <2>1
    <3>2. g.heap[b].role # "exit" /\ g.heap[b].role # "entry" /\ new \in Ends(g)
      BY DEF Ends
    <3>3. Well(k, X) /\ Keeps(g, k) /\ SameNodes(g, k) /\ SameStms(g, k)
      BY <3>1, <3>2, AddEdgeKeeps DEF SameStms
    <3> QED
      BY <3>3, LikeItself, AlikeOn
  <2>2. CASE ~falls
    BY <1>1, <2>2, LikeItself
  <2> QED
    BY <2>1, <2>2
<1>4. h = WithStms(WithStms(k, new, t), b, u)
  BY <1>2, <1>3, <1>6, TwoStms DEF Alike, Like, SameNodes
<1>7. /\ Well(k, X) /\ b \in DOMAIN k.heap /\ new \in DOMAIN k.heap
      /\ k.heap[b].role = "code" /\ k.heap[new].role = "code"
      /\ k.heap[b].stms = g.heap[b].stms /\ k.heap[new].stms = <<>>
      /\ k \in Like(g, X)
  BY <1>6 DEF Alike, Like, SameNodes, SameStms
<1>8. u \in Seq(StmSet)
  <2>1. k.heap[b].stms \in Seq(StmSet)
    BY <1>7, WellParts
  <2> QED
    BY <1>3, <1>5, <2>1
<1>9. PICK l : l = WithStms(k, new, t)
  OBVIOUS
<1>10. /\ Well(l, X) /\ Keeps(k, l) /\ SameNodes(k, l)
       /\ l.heap[b].stms = k.heap[b].stms /\ l.heap[new].stms = t
       /\ \A c \in DOMAIN k.heap : l.heap[c].stms = IF c = new THEN t ELSE k.heap[c].stms
  <2>1. MayTell(k, X, new)
    BY <1>7 DEF MayTell
  <2>2. StillTold(k, new, t)
    <3>1. \A a : ~Tells(<<>>, a)
      BY DEF Tells
    <3> QED
      BY <1>7, <3>1 DEF StillTold
  <2>3. Well(k, X) /\ new \in DOMAIN k.heap
    BY <1>7
  <2>4. /\ Well(l, X) /\ Keeps(k, l) /\ SameNodes(k, l)
        /\ \A c \in DOMAIN k.heap : l.heap[c].stms = IF c = new THEN t ELSE k.heap[c].stms
    BY <1>5, <1>9, <2>1, <2>2, <2>3, StmsChanged
  <2> QED
    BY <1>7, <2>4
<1>11. l \in Like(g, X)
  BY <1>7, <1>10, LikeOn
<1>12. /\ Well(h, X) /\ Keeps(l, h) /\ SameNodes(l, h)
       /\ \A c \in DOMAIN l.heap : h.heap[c].stms = IF c = b THEN u ELSE l.heap[c].stms
  <2>1. Well(l, X) /\ h = WithStms(l, b, u)
    BY <1>4, <1>9, <1>10
  <2>2. /\ b \in DOMAIN l.heap /\ l.heap[b].role = "code"
        /\ new \in DOMAIN l.heap /\ l.heap[new].role = "code"
    BY <1>7, <1>10 DEF SameNodes
  <2>3. MayTell(l, X, b)
    BY <2>2 DEF MayTell
  <2>4. StillTold(l, b, u)
    BY <1>3, <1>5, <1>7, <1>10, <2>2 DEF StillTold
  <2> QED
    BY <1>8, <2>1, <2>2, <2>3, <2>4, StmsChanged
<1>13. h \in Like(g, X)
  BY <1>11, <1>12, LikeOn
<1>14. u = StmsLeft(g.heap[b].stms, addr) /\ t = StmsFrom(g.heap[b].stms, addr)
  BY <1>1, <1>3, <1>7 DEF StmsLeft, Falls, Stms
<1>15. /\ DOMAIN k.heap = DOMAIN g.heap /\ DOMAIN l.heap = DOMAIN g.heap
       /\ \A c \in DOMAIN g.heap : k.heap[c].stms = g.heap[c].stms
  BY <1>6, <1>10 DEF Alike, Like, SameNodes, SameStms
<1>16. StmsMoved(g, h, b, new, addr)
  BY <1>10, <1>12, <1>14, <1>15 DEF StmsMoved
<1> QED
  BY <1>13, <1>16

-------------------------------------------------------------------------------
(* Blocks that are made. *)

(* A step that keeps the procedures of blocks keeps them on their lists.   *)
LEMMA KeepsLists ==
  ASSUME NEW X, NEW g, Well(g, X), NEW h, Keeps(g, h)
  PROVE  Lists(g, h)
BY DEF Keeps, Grows, Stays, Lists, Listed

(* The block is the newest, starts at the address, and its procedure lists  *)
(* it.                                                                      *)
BlockMade(g, h, addr) ==
    /\ Newest(h) = Len(g.heap) + 1
    /\ Newest(h) \in DOMAIN h.heap
    /\ Newest(h) \notin DOMAIN g.heap
    /\ h.heap[Newest(h)].role = "code"
    /\ h.heap[Newest(h)].addr = addr
    /\ Listed(h, Newest(h))

(* A new block of code leaves the graph sound.                             *)
LEMMA CodeBlockKeeps ==
  ASSUME NEW X, NEW g, Well(g, X), NEW proc \in DOMAIN g.procs,
         proc \in X.procs \/ Entered(g, proc), NEW addr \in Int, NEW h
  PROVE  h = NewBlock(g, "code", proc, addr) =>
         /\ Well(h, X) /\ Keeps(g, h) /\ BlockMade(g, h, addr) /\ h.heap[Newest(h)].proc = proc
         /\ h.heap[Newest(h)].stms = <<>> /\ SameStms(g, h)
<1>h. HAVE h = NewBlock(g, "code", proc, addr)
<1> USE <1>h
<1>1. /\ Well(h, X) /\ Keeps(g, h)
      /\ BlockAdded(g, h, NewRecord("code", proc, addr), proc)
      /\ Newest(h) = Len(g.heap) + 1
      /\ Newest(h) \in Ends(h)
      /\ h.heap[Newest(h)].role = "code"
      /\ h.heap[Newest(h)].proc = proc
      /\ h.heap[Newest(h)].addr = addr
  <2>1. "code" \in Inner
    BY DEF Inner
  <2> QED
    BY <2>1, NewBlockKeeps
<1> HIDE <1>h
<1>2. /\ Newest(h) \in h.procs[proc].blocks /\ Newest(h) \notin DOMAIN g.heap
      /\ proc \in DOMAIN h.procs
      /\ h.heap[Newest(h)].stms = <<>> /\ SameStms(g, h)
  <2>1. h.heap[Newest(h)] = NewRecord("code", proc, addr)
    BY <1>1 DEF BlockAdded
  <2>2. NewRecord("code", proc, addr).stms = <<>>
    BY DEF NewRecord
  <2>3. Newest(h) \in h.procs[proc].blocks /\ Newest(h) \notin DOMAIN g.heap
        /\ proc \in DOMAIN h.procs
    BY <1>1 DEF BlockAdded
  <2>4. SameStms(g, h)
    BY <1>1 DEF BlockAdded, SameStms
  <2> QED
    BY <2>1, <2>2, <2>3, <2>4
<1> QED
  BY <1>1, <1>2 DEF BlockMade, Listed, Ends

(* The statements of b from addr on are those of the newest block.         *)
StmsParted(g, h, b, addr) ==
    /\ h.heap[Newest(h)].stms = StmsFrom(g.heap[b].stms, addr)
    /\ h.heap[b].stms = StmsLeft(g.heap[b].stms, addr)
    /\ \A c \in DOMAIN g.heap \ {b} : h.heap[c].stms = g.heap[c].stms

(* SplitBlock leaves the graph sound, and gives the new block the          *)
(* procedure of the old one, and what it has from the address on.          *)
LEMMA SplitBlockKeeps ==
  ASSUME NEW X, NEW g, Well(g, X), NEW b \in DOMAIN g.heap, g.heap[b].role = "code",
         NEW addr \in Int, NEW h
  PROVE  h = SplitBlock(g, b, addr) =>
         /\ Well(h, X) /\ Keeps(g, h) /\ BlockMade(g, h, addr)
         /\ h.heap[Newest(h)].proc = g.heap[b].proc
         /\ StmsParted(g, h, b, addr)
<1>h. HAVE h = SplitBlock(g, b, addr)
<1> USE <1>h
<1>1. PICK n, k, l : /\ n = Newest(g) + 1
                     /\ k = NewBlock(g, "code", g.heap[b].proc, addr)
                     /\ l = MoveEdges(k, b, n)
  OBVIOUS
<1>2. h = MoveStatements(l, b, n, addr)
  BY <1>1 DEF SplitBlock
<1> HIDE <1>h
<1>3. PICK p : p = g.heap[b].proc /\ p \in DOMAIN g.procs /\ (p \in X.procs \/ Entered(g, p))
  BY WellParts DEF Well, EnteredFit, Inner
<1>4. /\ Well(k, X) /\ Keeps(g, k) /\ BlockMade(g, k, addr)
      /\ k.heap[Newest(k)].proc = p /\ k.heap[Newest(k)].stms = <<>>
      /\ SameStms(g, k)
  <2>1. k = NewBlock(g, "code", p, addr)
    BY <1>1, <1>3
  <2> QED
    BY <1>3, <2>1, CodeBlockKeeps
<1>5. /\ n = Newest(k) /\ b \in DOMAIN k.heap /\ n \in DOMAIN k.heap
      /\ k.heap[b].role = "code" /\ k.heap[n].role = "code"
      /\ n # b /\ k.heap[n].stms = <<>>
  BY <1>1, <1>4 DEF BlockMade, Keeps, Grows, Newest
<1>6. l \in Alike(k, X)
  <2>1. Well(k, X)
    BY <1>4
  <2> QED
    BY <1>1, <1>5, <2>1, MoveEdgesKeeps
<1>7. h \in Like(l, X) /\ StmsMoved(l, h, b, n, addr)
  <2>1. /\ Well(l, X) /\ b \in DOMAIN l.heap /\ l.heap[b].role = "code"
        /\ n \in DOMAIN l.heap /\ l.heap[n].role = "code"
        /\ n # b /\ l.heap[n].stms = <<>>
    BY <1>5, <1>6 DEF Alike, Like, SameNodes, SameStms
  <2> QED
    BY <1>2, <2>1, MoveStatementsKeeps
<1>8. h \in Like(k, X)
  BY <1>6, <1>7, LikeOn DEF Alike, Like
<1>9. Keeps(g, h)
  BY <1>4, <1>8, KeepsOn DEF Like
<1>10. BlockMade(g, h, addr) /\ h.heap[Newest(h)].proc = p
  BY <1>4, <1>5, <1>8 DEF Like, SameNodes, BlockMade, Newest, Listed
<1>11. /\ DOMAIN g.heap \subseteq DOMAIN l.heap /\ n \notin DOMAIN g.heap
       /\ n \in DOMAIN l.heap /\ n = Newest(h)
       /\ \A c \in DOMAIN g.heap : l.heap[c].stms = g.heap[c].stms
  <2>1. /\ DOMAIN l.heap = DOMAIN k.heap /\ DOMAIN g.heap \subseteq DOMAIN k.heap
        /\ \A c \in DOMAIN k.heap : l.heap[c].stms = k.heap[c].stms
        /\ \A c \in DOMAIN g.heap : k.heap[c].stms = g.heap[c].stms
    BY <1>4, <1>6 DEF Alike, Like, SameNodes, SameStms, Keeps, Grows
  <2>2. n \notin DOMAIN g.heap /\ n \in DOMAIN k.heap
    BY <1>4, <1>5 DEF BlockMade
  <2>3. n = Newest(h)
    BY <1>5, <1>8 DEF Like, SameNodes, Newest
  <2> QED
    BY <2>1, <2>2, <2>3
<1>12. StmsParted(g, h, b, addr)
  BY <1>7, <1>11 DEF StmsMoved, StmsParted
<1> QED
  BY <1>3, <1>8, <1>9, <1>10, <1>12 DEF Like

(* A list of blocks that changes. *)
ListChanged(g, h, p, B) ==
    /\ h.heap = g.heap
    /\ DOMAIN h.procs = DOMAIN g.procs
    /\ \A q \in DOMAIN g.procs :
          /\ h.procs[q].entry = g.procs[q].entry
          /\ h.procs[q].exit = g.procs[q].exit
          /\ h.procs[q].blocks = IF q = p THEN B ELSE g.procs[q].blocks

(* WithBlocks changes one list and nothing else.                           *)
LEMMA ListChangedIs ==
  ASSUME NEW g \in Graphs, NEW p \in DOMAIN g.procs, NEW B \in SUBSET Nat, NEW h
  PROVE  h = WithBlocks(g, p, B) => h \in Graphs /\ ListChanged(g, h, p, B)
<1>h. HAVE h = WithBlocks(g, p, B)
<1> USE <1>h
<1>1. PICK H, P : H = g.heap /\ P = g.procs
  OBVIOUS
<1>2. /\ g = [heap |-> H, procs |-> P]
      /\ H \in Seq(BlockSet)
      /\ DOMAIN P \in SUBSET Addresses
      /\ P \in [DOMAIN P -> ProcSet]
      /\ \A q \in DOMAIN P : P[q] \in ProcSet
  BY <1>1, GraphParts
<1>3. PICK y : y = [entry |-> P[p].entry, exit |-> P[p].exit, blocks |-> B]
  OBVIOUS
<1>4. y \in ProcSet
  BY <1>1, <1>2, <1>3 DEF ProcSet
<1>5. h = [heap |-> H, procs |-> [P EXCEPT ![p] = y]]
  <2>1. P[p] \in ProcSet /\ g = [heap |-> H, procs |-> P]
    BY <1>1, <1>2
  <2>2. WithBlocks(g, p, B) = [heap |-> H, procs |-> [P EXCEPT ![p] = y]]
    BY <1>3, <2>1, BlocksSet
  <2> QED
    BY <2>2
<1> HIDE <1>h
<1>6. [P EXCEPT ![p] = y] \in [DOMAIN P -> ProcSet]
  BY <1>1, <1>2, <1>4
<1>7. h \in Graphs
  BY <1>2, <1>5, <1>6, GraphMade
<1>8. h.heap = H /\ h.procs = [P EXCEPT ![p] = y]
  BY <1>5
<1>9. \A q \in DOMAIN P :
          /\ h.procs[q].entry = P[q].entry
          /\ h.procs[q].exit = P[q].exit
          /\ h.procs[q].blocks = IF q = p THEN B ELSE P[q].blocks
  BY <1>1, <1>3, <1>8
<1> QED
  BY <1>1, <1>7, <1>8, <1>9 DEF ListChanged

(* A block is taken from the list of its procedure. *)
LEMMA UnlistKeeps ==
  ASSUME NEW X, NEW g, Well(g, X), NEW p \in DOMAIN g.procs, NEW b, NEW h
  PROVE  h = WithBlocks(g, p, g.procs[p].blocks \ {b}) =>
         Well(h, X) /\ Grows(g, h) /\ ListChanged(g, h, p, g.procs[p].blocks \ {b})
<1>h. HAVE h = WithBlocks(g, p, g.procs[p].blocks \ {b})
<1> USE <1>h
<1>1. PICK B : B = g.procs[p].blocks \ {b}
  OBVIOUS
<1>2. B \in SUBSET Nat
  <2>1. g.procs[p] \in ProcSet
    BY GraphParts DEF Well
  <2> QED
    BY <1>1, <2>1 DEF ProcSet
<1>3. h = WithBlocks(g, p, B) /\ g \in Graphs
  BY <1>1 DEF Well
<1> HIDE <1>h
<1>4. h \in Graphs /\ ListChanged(g, h, p, B)
  BY <1>2, <1>3, ListChangedIs
<1>5. \A q \in DOMAIN g.procs : Entered(h, q) = Entered(g, q) /\ First(h, q) = First(g, q)
  BY <1>4 DEF ListChanged, Entered, First
<1>6. Grows(g, h)
  <2>1. ToldStays(g, h)
    BY <1>4, ToldAsBefore DEF ListChanged
  <2> QED
    BY <1>4, <1>5, <2>1 DEF ListChanged, Grows, ToldStays
<1>10. EntriesFit(h, X)
  BY <1>4, EntriesAsBefore DEF ListChanged
<1>7. BlocksFit(h)
  <2>1. Ends(h) = Ends(g) /\ Starts(h) = Starts(g)
    BY <1>4 DEF ListChanged, Ends, Starts
  <2>2. ASSUME NEW c \in DOMAIN h.heap
        PROVE  /\ h.heap[c].proc \in DOMAIN h.procs
               /\ h.heap[c].role = "entry" => c = h.procs[h.heap[c].proc].entry
               /\ h.heap[c].role = "exit"  => c = h.procs[h.heap[c].proc].exit
               /\ h.heap[c].succ \in Seq(Ends(h))
               /\ h.heap[c].pred \in Seq(Starts(h))
    BY <1>4, <2>1 DEF ListChanged, Well, BlocksFit
  <2> QED
    BY <2>2 DEF BlocksFit
<1>8. ProcsFit(h)
  BY <1>1, <1>4 DEF ListChanged, Well, ProcsFit
<1>9. EnteredFit(h, X)
  BY <1>4, <1>5, WellParts DEF ListChanged, Well, EnteredFit
<1> QED
  BY <1>1, <1>4, <1>6, <1>7, <1>8, <1>9, <1>10 DEF Well

-------------------------------------------------------------------------------
(* BlockCloner's copies and the edges between them. *)

(* One copy, and all of them.                                              *)
Copied(g, h, proc, x) ==
    LET h1 == NewBlock(h, "clone", proc, g.heap[x].addr)
    IN  [h1 EXCEPT !.heap[Newest(h1)].stms = Cloned(Stms(g, x))]

Copies(g, chain, proc) == FoldRight(LAMBDA x, h : Copied(g, h, proc, x), chain, g)

(* The copy of a block, the edge from it, and all the edges.               *)
CopyOf(g, chain, x) == Newest(g) + Len(chain) + 1 - SelectInSeq(chain, LAMBDA c : c = x)

Linked(g, chain, proc, h, x) ==
    LET s == g.heap[x].succ
    IN  AddEdge(h, CopyOf(g, chain, x), IF s # <<>> /\ Contains(chain, s[1])
                                        THEN CopyOf(g, chain, s[1]) ELSE h.procs[proc].exit)

Links(g, chain, proc, k) == FoldRight(LAMBDA x, h : Linked(g, chain, proc, h, x), chain, k)

(* The copies are made one after the other. *)
LEMMA CopiesFolded ==
  ASSUME NEW P, NEW g, NEW chain, NEW proc,
         NEW n \in Nat, DOMAIN chain = 1 .. n, g \in P[{}],
         \A S \in SUBSET (1 .. n) : \A i \in S : (\A j \in S : i <= j) =>
            \A h \in P[S \ {i}] : Copied(g, h, proc, chain[i]) \in P[S]
  PROVE  Copies(g, chain, proc) \in P[1 .. n]
<1> DEFINE op(h, i) == Copied(g, h, proc, chain[i])
           step(it) == [S \in SUBSET (1 .. n) |->
              IF S = {} THEN g ELSE op(it[S \ {Min(S)}], Min(S))]
           F == [S \in SUBSET (1 .. n) |-> [h \in P[S \ {Min(S)}] |-> op(h, Min(S))]]
<1>1. Copies(g, chain, proc) = (CHOOSE it : it = step(it))[1 .. n]
  BY Zenon DEF Copies, FoldRight, MapThenFoldSet
<1>2. \A S \in SUBSET (1 .. n) : \A i \in S : (\A j \in S : i <= j) =>
         \A h \in P[S \ {i}] : op(h, i) \in P[S]
  OBVIOUS
<1> HIDE DEF op
<1>12. ASSUME NEW S \in SUBSET (1 .. n), S # {}
       PROVE  \A j \in S : Min(S) <= j
  <2>1. S \in SUBSET Nat
    OBVIOUS
  <2> QED
    BY <1>12, <2>1, MinExists
<1>3. ASSUME NEW S \in SUBSET (1 .. n), S # {}
      PROVE  /\ Least(n)[S] = Min(S) /\ Min(S) \in S
             /\ \A h \in P[S \ {Min(S)}] : F[S][h] = op(h, Min(S)) /\ F[S][h] \in P[S]
  <2>1. Least(n)[S] = Min(S) /\ Min(S) \in S
    BY <1>3, LeastChosen DEF Least, Chooses
  <2>2. \A j \in S : Min(S) <= j
    BY <1>3, <1>12
  <2>3. \A h \in P[S \ {Min(S)}] : op(h, Min(S)) \in P[S]
    BY <1>2, <2>1, <2>2
  <2> QED
    BY <2>1, <2>3
<1> HIDE DEF F
<1>4. Chooses(n, Least(n))
  BY LeastChosen
<1>5. PICK it : Iterated(it, n, Least(n), g, F)
  BY <1>4, IterationExists
<1>6. \A S \in SUBSET (1 .. n) :
         it[S] = IF S = {} THEN g ELSE F[S][it[S \ {Least(n)[S]}]]
  BY <1>5, Zenon DEF Iterated
<1>7. \A S \in SUBSET (1 .. n) : it[S] \in P[S]
  <2>1. it[{}] \in P[{}]
    BY <1>6
  <2>2. \A S \in SUBSET (1 .. n) :
           S # {} /\ it[S \ {Least(n)[S]}] \in P[S \ {Least(n)[S]}] => it[S] \in P[S]
    <3> SUFFICES ASSUME NEW S \in SUBSET (1 .. n), S # {},
                        it[S \ {Least(n)[S]}] \in P[S \ {Least(n)[S]}]
                 PROVE  it[S] \in P[S]
      BY Zenon
    <3>1. it[S] = F[S][it[S \ {Least(n)[S]}]]
      BY <1>6
    <3>2. Least(n)[S] = Min(S)
      BY <1>3
    <3> QED
      BY <1>3, <3>1, <3>2
  <2> QED
    BY <1>4, <2>1, <2>2, IterationKeeps
<1>8. it = step(it)
  <2>1. \A S \in SUBSET (1 .. n) : S # {} =>
           F[S][it[S \ {Least(n)[S]}]] = op(it[S \ {Min(S)}], Min(S))
    BY <1>3, <1>7
  <2>2. \A S \in SUBSET (1 .. n) :
           (IF S = {} THEN g ELSE F[S][it[S \ {Least(n)[S]}]])
              = IF S = {} THEN g ELSE op(it[S \ {Min(S)}], Min(S))
    BY <2>1
  <2> QED
    BY <1>5, <2>2 DEF Iterated
<1>9. PICK c : c = step(c) /\ c = CHOOSE d : d = step(d)
  BY <1>8
<1>10. \A S \in SUBSET (1 .. n) :
         c[S] = IF S = {} THEN g ELSE op(c[S \ {Min(S)}], Min(S))
  BY <1>9, Zenon
<1>11. \A S \in SUBSET (1 .. n) : c[S] \in P[S]
  <2>1. c[{}] \in P[{}]
    BY <1>10
  <2>2. \A S \in SUBSET (1 .. n) :
           S # {} /\ c[S \ {Least(n)[S]}] \in P[S \ {Least(n)[S]}] => c[S] \in P[S]
    <3> SUFFICES ASSUME NEW S \in SUBSET (1 .. n), S # {},
                        c[S \ {Least(n)[S]}] \in P[S \ {Least(n)[S]}]
                 PROVE  c[S] \in P[S]
      BY Zenon
    <3>1. /\ c[S \ {Min(S)}] \in P[S \ {Min(S)}]
          /\ Min(S) \in S /\ \A j \in S : Min(S) <= j
      BY <1>3, <1>12
    <3>2. op(c[S \ {Min(S)}], Min(S)) \in P[S]
      BY <1>2, <3>1
    <3> QED
      BY <1>10, <3>2
  <2> QED
    BY <1>4, <2>1, <2>2, IterationKeeps
<1>13. c[1 .. n] \in P[1 .. n]
  BY <1>11
<1> QED
  BY <1>1, <1>9, <1>13

(* So are the edges. *)
LEMMA LinksIn ==
  ASSUME NEW P, NEW g, NEW chain, NEW proc, NEW k,
         NEW n \in Nat, DOMAIN chain = 1 .. n, k \in P,
         \A h \in P : \A i \in 1 .. n : Linked(g, chain, proc, h, chain[i]) \in P
  PROVE  Links(g, chain, proc, k) \in P
<1> DEFINE op(h, i) == Linked(g, chain, proc, h, chain[i])
           step(it) == [S \in SUBSET (1 .. n) |->
              IF S = {} THEN k ELSE op(it[S \ {Min(S)}], Min(S))]
           F == [S \in SUBSET (1 .. n) |-> [h \in P |-> op(h, Min(S))]]
<1>1. Links(g, chain, proc, k) = (CHOOSE it : it = step(it))[1 .. n]
  BY Zenon DEF Links, FoldRight, MapThenFoldSet
<1>2. \A h \in P : \A i \in 1 .. n : op(h, i) \in P
  OBVIOUS
<1> HIDE DEF op
<1>3. ASSUME NEW S \in SUBSET (1 .. n), S # {}
      PROVE  /\ Least(n)[S] = Min(S) /\ Min(S) \in 1 .. n
             /\ \A h \in P : F[S][h] = op(h, Min(S)) /\ F[S][h] \in P
  <2>1. Least(n)[S] = Min(S) /\ Min(S) \in 1 .. n
    BY <1>3, LeastChosen DEF Least, Chooses
  <2> QED
    BY <1>2, <2>1
<1> HIDE DEF F
<1>4. Chooses(n, Least(n))
  BY LeastChosen
<1>5. PICK it : /\ Iterated(it, n, Least(n), k, F)
                /\ \A S \in SUBSET (1 .. n) : it[S] \in P
  <2>1. \A S \in SUBSET (1 .. n) : S # {} => \A h \in P : F[S][h] \in P
    BY <1>3
  <2> QED
    BY <1>4, <2>1, FoldExists
<1>6. it = step(it)
  <2>1. \A S \in SUBSET (1 .. n) : it[S \ {Min(S)}] \in P
    BY <1>5
  <2>2. \A S \in SUBSET (1 .. n) :
           (IF S = {} THEN k ELSE F[S][it[S \ {Least(n)[S]}]])
              = IF S = {} THEN k ELSE op(it[S \ {Min(S)}], Min(S))
    BY <1>3, <2>1
  <2> QED
    BY <1>5, <2>2 DEF Iterated
<1>7. PICK c : c = step(c) /\ c = CHOOSE d : d = step(d)
  BY <1>6
<1>8. \A S \in SUBSET (1 .. n) :
         c[S] = IF S = {} THEN k ELSE op(c[S \ {Min(S)}], Min(S))
  BY <1>7, Zenon
<1>9. c[{}] \in P
  BY <1>8
<1>10. \A S \in SUBSET (1 .. n) : S # {} /\ c[S \ {Least(n)[S]}] \in P => c[S] \in P
  <2> SUFFICES ASSUME NEW S \in SUBSET (1 .. n), S # {}, c[S \ {Least(n)[S]}] \in P
               PROVE  c[S] \in P
    BY Zenon
  <2>1. c[S \ {Min(S)}] \in P /\ Min(S) \in 1 .. n
    BY <1>3
  <2>2. op(c[S \ {Min(S)}], Min(S)) \in P
    BY <1>2, <2>1
  <2> QED
    BY <1>8, <2>2
<1>11. c[1 .. n] \in P
  BY <1>4, <1>9, <1>10, FoldKeeps
<1> QED
  BY <1>1, <1>7, <1>11

(* The walk stays in the graph. *)
LEMMA ChainKeeps ==
  ASSUME NEW X, NEW g, Well(g, X), NEW b \in DOMAIN g.heap
  PROVE  Chain(g, b) \in Seq(DOMAIN g.heap) /\ Chain(g, b) # <<>> /\ Chain(g, b)[1] = b
<1>1. PICK D, P : D = DOMAIN g.heap /\ P = {s \in Seq(D) : s # <<>> /\ s[1] = b}
  OBVIOUS
<1>2. PICK n : n \in Nat /\ D = 1 .. n
  BY <1>1, WellParts
<1>3. <<b>> \in P
  <2>1. b \in D
    BY <1>1
  <2>3. <<b>> \in Seq(D)
    BY <2>1
  <2>2. <<b>> # <<>> /\ <<b>>[1] = b
    OBVIOUS
  <2> QED
    BY <1>1, <2>2, <2>3
<1>4. ASSUME NEW x \in D
      PROVE  NextInChain(g, x) \in D
  <2>1. g.heap[x].succ \in Seq(Ends(g)) /\ g.heap[x].proc \in DOMAIN g.procs
    BY <1>1, WellParts
  <2>2. ProcOf(g, x).exit \in D
    BY <1>1, <2>1 DEF Well, ProcsFit, ProcOf
  <2>3. g.heap[x].succ # <<>> => g.heap[x].succ[1] \in Ends(g)
    <3>1. PICK s : s = g.heap[x].succ
      OBVIOUS
    <3>2. Len(s) \in Nat /\ DOMAIN s = 1 .. Len(s) /\ (\A i \in DOMAIN s : s[i] \in Ends(g))
          /\ (s = <<>> <=> Len(s) = 0)
      BY <2>1, <3>1, SeqParts
    <3> QED
      BY <3>1, <3>2
  <2> QED
    BY <1>1, <2>2, <2>3 DEF NextInChain, Ends
<1>5. ASSUME NEW s \in P
      PROVE  ChainGrown(g, s) \in P
  <2>1. s \in Seq(D) /\ s # <<>>
    BY <1>1
  <2>2. Last(s) \in D
    <3>1. Len(s) \in Nat /\ DOMAIN s = 1 .. Len(s) /\ (\A i \in DOMAIN s : s[i] \in D)
          /\ (s = <<>> <=> Len(s) = 0)
      BY <2>1, SeqParts
    <3> QED
      BY <2>1, <3>1 DEF Last
  <2>3. PICK x : x = NextInChain(g, Last(s)) /\ x \in D
    BY <1>4, <2>2
  <2>4. Append(s, x) \in Seq(D) /\ Append(s, x) # <<>>
    BY <2>1, <2>3, AppendParts
  <2>6. s[1] = b /\ Append(s, x)[1] = b
    <3>1. s[1] = b /\ Len(s) \in Nat /\ Len(s) # 0
      BY <1>1, <2>1, SeqParts
    <3> QED
      BY <2>1, <2>3, <3>1
  <2>5. ChainGrown(g, s) = s \/ ChainGrown(g, s) = Append(s, x)
    BY <2>3 DEF ChainGrown
  <2> QED
    BY <1>1, <2>1, <2>4, <2>5, <2>6
<1>6. Chain(g, b) \in P
  <2>1. \A s \in P : \A i \in 1 .. n : ChainGrown(g, s) \in P
    BY <1>5
  <2>2. DOMAIN g.heap = 1 .. n
    BY <1>1, <1>2
  <2> QED
    BY <1>2, <1>3, <2>1, <2>2, ChainIn
<1> QED
  BY <1>1, <1>6

(* Copied statements are statements.                                       *)
LEMMA ClonedParts ==
  ASSUME NEW s \in Seq(StmSet)
  PROVE  Cloned(s) \in Seq(StmSet) /\ (s # <<>> => Cloned(s) # <<>>)
<1>1. Len(s) \in Nat /\ DOMAIN s = 1 .. Len(s) /\ \A i \in DOMAIN s : s[i] \in StmSet
  BY SeqParts
<1>2. \A i \in DOMAIN s : Stm(s[i].addr, "op", None) \in StmSet
  BY <1>1 DEF Stm, StmSet, Kinds
<1>3. \A i \in DOMAIN s : (IF s[i].kind = "branch" THEN Stm(s[i].addr, "op", None) ELSE s[i])
                             \in StmSet
  BY <1>1, <1>2
<1>4. PICK t : t = Cloned(s)
  OBVIOUS
<1>5. t \in [1 .. Len(s) -> StmSet]
  BY <1>1, <1>3, <1>4, Zenon DEF Cloned
<1>6. t \in Seq(StmSet) /\ (s # <<>> => t # <<>>)
  <2>1. t \in Seq(StmSet) /\ DOMAIN t = 1 .. Len(s)
    BY <1>1, <1>5
  <2>2. s # <<>> => 1 \in DOMAIN t
    BY <1>1, <2>1, SeqParts
  <2> QED
    BY <2>1, <2>2
<1> QED
  BY <1>4, <1>6

(* Graphs with m copies. *)
WithClones(g, X, proc, m) ==
    {h \in Graphs :
        /\ Well(h, X)
        /\ Keeps(g, h)
        /\ Len(h.heap) = Len(g.heap) + m
        /\ \A b \in DOMAIN h.heap \ DOMAIN g.heap :
              h.heap[b].role = "clone" /\ h.heap[b].proc = proc}

(* The newest block has statements.                                        *)
NewestTells(h) == h.heap[Newest(h)].stms # <<>>

(* Reassociates a sum, for the copies counted one by one.                  *)
LEMMA OneMore == \A q, m \in Nat : (q + m) + 1 = q + (m + 1)
OBVIOUS

(* One more copy leaves the graph sound, with one more clone.              *)
LEMMA CopiedKeeps ==
  ASSUME NEW X, NEW g, Well(g, X), NEW proc \in DOMAIN g.procs,
         proc \in X.procs \/ Entered(g, proc), NEW x \in DOMAIN g.heap,
         NEW m \in Nat, NEW f \in WithClones(g, X, proc, m)
  PROVE  /\ Copied(g, f, proc, x) \in WithClones(g, X, proc, m + 1)
         /\ Stms(g, x) # <<>> => NewestTells(Copied(g, f, proc, x))
<1>1. /\ f \in Graphs /\ Well(f, X) /\ Keeps(g, f) /\ Len(f.heap) = Len(g.heap) + m
      /\ \A b \in DOMAIN f.heap \ DOMAIN g.heap :
            f.heap[b].role = "clone" /\ f.heap[b].proc = proc
  BY DEF WithClones
<1>2. PICK a, s : /\ a = g.heap[x].addr /\ a \in Int
                  /\ s = Cloned(Stms(g, x)) /\ s \in Seq(StmSet)
                  /\ Stms(g, x) # <<>> => s # <<>>
  BY WellParts, ClonedParts DEF Stms
<1>3. PICK k, n : k = NewBlock(f, "clone", proc, a) /\ n = Newest(k)
  OBVIOUS
<1>4. PICK h : h = WithStms(k, n, s)
  OBVIOUS
<1>5. Copied(g, f, proc, x) = h
  BY <1>2, <1>3, <1>4, Zenon DEF Copied, WithStms
<1>6. proc \in DOMAIN f.procs /\ (proc \in X.procs \/ Entered(f, proc))
  BY <1>1 DEF Keeps, Grows
<1>7. /\ Well(k, X) /\ Keeps(f, k)
      /\ BlockAdded(f, k, NewRecord("clone", proc, a), proc)
      /\ n = Len(f.heap) + 1
      /\ n \in Ends(k)
      /\ k.heap[n].role = "clone"
      /\ k.heap[n].proc = proc
  <2>1. "clone" \in Inner /\ Well(f, X)
    BY <1>1 DEF Inner
  <2>2. k = NewBlock(f, "clone", proc, a)
    BY <1>3
  <2>3. /\ Well(k, X) /\ Keeps(f, k)
        /\ BlockAdded(f, k, NewRecord("clone", proc, a), proc)
        /\ Newest(k) = Len(f.heap) + 1
        /\ Newest(k) \in Ends(k)
        /\ k.heap[Newest(k)].role = "clone"
        /\ k.heap[Newest(k)].proc = proc
    <3> QED
      BY <1>2, <1>6, <2>1, <2>2, NewBlockKeeps
  <2> QED
    BY <1>3, <2>3
<1>8. /\ Len(k.heap) = Len(f.heap) + 1
      /\ DOMAIN k.heap = DOMAIN f.heap \cup {n}
      /\ \A b \in DOMAIN f.heap : k.heap[b] = f.heap[b]
  BY <1>7 DEF BlockAdded
<1>9. Well(h, X) /\ Keeps(k, h) /\ SameNodes(k, h) /\ h.heap[n].stms = s
  <2>1. Well(k, X) /\ n \in DOMAIN k.heap
    BY <1>7, <1>8
  <2>2. MayTell(k, X, n) /\ StillTold(k, n, s)
    BY <1>7 DEF MayTell, StillTold
  <2> QED
    BY <1>2, <1>4, <2>1, <2>2, StmsChanged
<1>10. Keeps(g, h)
  <2>1. Keeps(g, k)
    BY <1>1, <1>7, KeepsOn
  <2> QED
    BY <1>9, <2>1, KeepsOn
<1>11. Len(h.heap) = Len(g.heap) + (m + 1)
  <2>1. Len(g.heap) \in Nat
    BY WellParts
  <2> QED
    <3>1. Len(h.heap) = Len(k.heap)
      BY <1>9 DEF SameNodes
    <3>2. Len(k.heap) = Len(f.heap) + 1
      BY <1>8
    <3>3. Len(f.heap) = Len(g.heap) + m
      BY <1>1
    <3>4. PICK q : q = Len(g.heap) /\ q \in Nat
      BY <2>1
    <3>5. Len(h.heap) = (q + m) + 1
      BY <3>1, <3>2, <3>3, <3>4
    <3>6. (q + m) + 1 = q + (m + 1)
      BY <3>4, OneMore
    <3> QED
      BY <3>4, <3>5, <3>6
<1>12. \A b \in DOMAIN h.heap \ DOMAIN g.heap :
            h.heap[b].role = "clone" /\ h.heap[b].proc = proc
  <2> SUFFICES ASSUME NEW b \in DOMAIN h.heap \ DOMAIN g.heap
               PROVE  h.heap[b].role = "clone" /\ h.heap[b].proc = proc
    OBVIOUS
  <2>1. /\ b \in DOMAIN k.heap
        /\ h.heap[b].role = k.heap[b].role
        /\ h.heap[b].proc = k.heap[b].proc
    BY <1>9 DEF SameNodes
  <2>2. CASE b = n
    BY <1>7, <2>1, <2>2
  <2>3. CASE b # n
    <3>1. b \in DOMAIN f.heap /\ k.heap[b] = f.heap[b]
      BY <1>8, <2>1, <2>3
    <3> QED
      BY <1>1, <2>1, <3>1
  <2> QED
    BY <2>2, <2>3
<1>13. h \in Graphs
  BY <1>9 DEF Well
<1>14. Stms(g, x) # <<>> => NewestTells(h)
  BY <1>2, <1>3, <1>9 DEF NewestTells, Newest, SameNodes
<1> QED
  BY <1>5, <1>9, <1>10, <1>11, <1>12, <1>13, <1>14 DEF WithClones

(* So do the copies of a whole chain, of which the first is the newest.    *)
LEMMA CopiesKeep ==
  ASSUME NEW X, NEW g, Well(g, X), NEW proc \in DOMAIN g.procs,
         proc \in X.procs \/ Entered(g, proc), NEW chain \in Seq(DOMAIN g.heap)
  PROVE  /\ Copies(g, chain, proc) \in WithClones(g, X, proc, Len(chain))
         /\ chain # <<>> /\ Stms(g, chain[1]) # <<>> => NewestTells(Copies(g, chain, proc))
<1>1. PICK n : /\ n = Len(chain) /\ n \in Nat /\ DOMAIN chain = 1 .. n
               /\ \A i \in 1 .. n : chain[i] \in DOMAIN g.heap
  BY SeqParts
<1>2. PICK P : P = [S \in SUBSET (1 .. n) |->
                      {f \in WithClones(g, X, proc, Cardinality(S)) :
                          1 \in S /\ Stms(g, chain[1]) # <<>> => NewestTells(f)}]
  OBVIOUS
<1>3. IsFiniteSet(1 .. n) /\ Cardinality(1 .. n) = n
  <2>1. n \in Nat
    BY <1>1
  <2> QED
    BY <2>1, FS_Interval
<1>4. \A S \in SUBSET (1 .. n) :
         /\ Cardinality(S) \in Nat
         /\ \A i \in S : /\ S \ {i} \in SUBSET (1 .. n)
                         /\ Cardinality(S \ {i}) \in Nat
                         /\ Cardinality(S) = Cardinality(S \ {i}) + 1
  <2> SUFFICES ASSUME NEW S \in SUBSET (1 .. n)
               PROVE  /\ Cardinality(S) \in Nat
                      /\ \A i \in S : /\ S \ {i} \in SUBSET (1 .. n)
                                      /\ Cardinality(S \ {i}) \in Nat
                                      /\ Cardinality(S) = Cardinality(S \ {i}) + 1
    BY Zenon
  <2>1. IsFiniteSet(S)
    BY <1>3, FS_Subset
  <2>2. Cardinality(S) \in Nat
    BY <2>1, FS_CardinalityType
  <2>3. ASSUME NEW i \in S
        PROVE  /\ Cardinality(S \ {i}) \in Nat
               /\ Cardinality(S) = Cardinality(S \ {i}) + 1
    <3>1. IsFiniteSet(S \ {i}) /\ Cardinality(S \ {i}) = Cardinality(S) - 1
      BY <2>1, FS_RemoveElement
    <3>2. Cardinality(S \ {i}) \in Nat
      BY <3>1, FS_CardinalityType
    <3> QED
      BY <2>2, <3>1, <3>2
  <2> QED
    BY <2>2, <2>3
<1>5. g \in P[{}]
  <2>1. P[{}] = {f \in WithClones(g, X, proc, 0) :
                    1 \in {} /\ Stms(g, chain[1]) # <<>> => NewestTells(f)}
    BY <1>2, FS_EmptySet
  <2>2. Keeps(g, g) /\ Len(g.heap) = Len(g.heap) + 0 /\ g \in Graphs
    BY GrowsReflexive, WellParts
  <2> QED
    BY <2>1, <2>2 DEF WithClones
<1>6. ASSUME NEW S \in SUBSET (1 .. n), NEW i \in S, \A j \in S : i <= j,
             NEW f \in P[S \ {i}]
      PROVE  Copied(g, f, proc, chain[i]) \in P[S]
  <2>1. PICK m : /\ m = Cardinality(S \ {i}) /\ m \in Nat /\ Cardinality(S) = m + 1
                 /\ S \ {i} \in SUBSET (1 .. n)
    BY <1>4
  <2>2. f \in WithClones(g, X, proc, m)
    BY <1>2, <2>1
  <2>3. PICK x : x = chain[i] /\ x \in DOMAIN g.heap
    BY <1>1
  <2>4. /\ Copied(g, f, proc, x) \in WithClones(g, X, proc, m + 1)
        /\ Stms(g, x) # <<>> => NewestTells(Copied(g, f, proc, x))
    BY <2>1, <2>2, <2>3, CopiedKeeps
  <2>5. 1 \in S => i = 1
    BY <1>6
  <2>6. PICK h : h = Copied(g, f, proc, x)
    OBVIOUS
  <2>7. h \in WithClones(g, X, proc, Cardinality(S))
    BY <2>1, <2>4, <2>6
  <2>8. 1 \in S /\ Stms(g, chain[1]) # <<>> => NewestTells(h)
    BY <2>3, <2>4, <2>5, <2>6
  <2> QED
    BY <1>2, <2>3, <2>6, <2>7, <2>8
<1>7. Copies(g, chain, proc) \in P[1 .. n]
  <2>1. \A S \in SUBSET (1 .. n) : \A i \in S : (\A j \in S : i <= j) =>
           \A h \in P[S \ {i}] : Copied(g, h, proc, chain[i]) \in P[S]
    BY <1>6
  <2> QED
    BY <1>1, <1>5, <2>1, CopiesFolded
<1>8. chain # <<>> => 1 \in 1 .. n
  BY <1>1, SeqParts
<1> QED
  BY <1>1, <1>2, <1>3, <1>7, <1>8

(* The copy of a block of the chain is one of the new blocks. *)
LEMMA CopyOfParts ==
  ASSUME NEW g, g.heap \in Seq(BlockSet), NEW S, NEW chain \in Seq(S), NEW x, Contains(chain, x)
  PROVE  CopyOf(g, chain, x) \in Len(g.heap) + 1 .. Len(g.heap) + Len(chain)
<1>1. Len(g.heap) \in Nat /\ Len(chain) \in Nat
  BY SeqParts
<1>2. PICK I : I = {i \in 1 .. Len(chain) : chain[i] = x}
  OBVIOUS
<1>3. I \in SUBSET Nat /\ I # {}
  BY <1>1, <1>2 DEF Contains
<1>4. Min(I) \in I
  BY <1>3, MinExists
<1>5. SelectInSeq(chain, LAMBDA c : c = x) = Min(I)
  BY <1>2, <1>3 DEF SelectInSeq
<1>6. PICK m : m = Min(I) /\ m \in 1 .. Len(chain)
  BY <1>2, <1>4
<1>7. CopyOf(g, chain, x) = Len(g.heap) + Len(chain) + 1 - m
  BY <1>5, <1>6 DEF CopyOf, Newest
<1> QED
  BY <1>1, <1>6, <1>7

(* And so do the edges between the copies.                                 *)
LEMMA LinksKeep ==
  ASSUME NEW X, NEW g, Well(g, X), NEW proc \in DOMAIN g.procs,
         NEW chain \in Seq(DOMAIN g.heap),
         NEW k \in WithClones(g, X, proc, Len(chain))
  PROVE  /\ Links(g, chain, proc, k) \in WithClones(g, X, proc, Len(chain))
         /\ chain # <<>> /\ NewestTells(k) => NewestTells(Links(g, chain, proc, k))
<1>1. PICK n : /\ n = Len(chain) /\ n \in Nat /\ DOMAIN chain = 1 .. n
               /\ \A i \in 1 .. n : chain[i] \in DOMAIN g.heap
  BY SeqParts
<1>2. PICK P : P = {f \in WithClones(g, X, proc, n) :
                      chain # <<>> /\ NewestTells(k) => NewestTells(f)}
  OBVIOUS
<1>3. /\ g.heap \in Seq(BlockSet) /\ Len(g.heap) \in Nat
      /\ DOMAIN g.heap = 1 .. Len(g.heap)
  BY WellParts, GraphParts
<1>4. ASSUME NEW f \in P, NEW x, Contains(chain, x)
      PROVE  /\ CopyOf(g, chain, x) \in Ends(f)
             /\ CopyOf(g, chain, x) \in DOMAIN f.heap
             /\ f.heap[CopyOf(g, chain, x)].role = "clone"
  <2>1. PICK c : c = CopyOf(g, chain, x) /\ c \in Len(g.heap) + 1 .. Len(g.heap) + n
    <3>1. CopyOf(g, chain, x) \in Len(g.heap) + 1 .. Len(g.heap) + Len(chain)
      BY <1>3, <1>4, CopyOfParts
    <3> QED
      BY <1>1, <3>1
  <2>2. /\ Well(f, X) /\ Len(f.heap) = Len(g.heap) + n
        /\ \A b \in DOMAIN f.heap \ DOMAIN g.heap : f.heap[b].role = "clone"
    BY <1>2 DEF WithClones
  <2>3. DOMAIN f.heap = 1 .. Len(g.heap) + n
    BY <2>2, WellParts
  <2>4. c \in DOMAIN f.heap \ DOMAIN g.heap
    BY <1>1, <1>3, <2>1, <2>3
  <2> QED
    BY <2>1, <2>2, <2>4 DEF Ends
<1>5. ASSUME NEW f \in P, NEW i \in 1 .. n
      PROVE  Linked(g, chain, proc, f, chain[i]) \in P
  <2>1. PICK x, s : x = chain[i] /\ s = g.heap[x].succ
    OBVIOUS
  <2>2. Contains(chain, x)
    BY <1>1, <2>1 DEF Contains
  <2>3. PICK from, to : /\ from = CopyOf(g, chain, x)
                        /\ to = IF s # <<>> /\ Contains(chain, s[1])
                                THEN CopyOf(g, chain, s[1]) ELSE f.procs[proc].exit
    OBVIOUS
  <2>4. PICK h : h = AddEdge(f, from, to)
    OBVIOUS
  <2>5. Linked(g, chain, proc, f, chain[i]) = h
    BY <2>1, <2>3, <2>4, Zenon DEF Linked
  <2>6. /\ f \in Graphs /\ Well(f, X) /\ Keeps(g, f) /\ Len(f.heap) = Len(g.heap) + n
        /\ \A b \in DOMAIN f.heap \ DOMAIN g.heap :
              f.heap[b].role = "clone" /\ f.heap[b].proc = proc
    BY <1>2 DEF WithClones
  <2>7. /\ from \in DOMAIN f.heap
        /\ f.heap[from].role # "exit" /\ f.heap[from].role # "entry"
    BY <1>4, <2>2, <2>3
  <2>8. to \in Ends(f)
    <3>1. CASE s # <<>> /\ Contains(chain, s[1])
      BY <1>4, <2>3, <3>1
    <3>2. CASE ~(s # <<>> /\ Contains(chain, s[1]))
      <4>1. proc \in DOMAIN f.procs
        BY <2>6 DEF Keeps, Grows
      <4>2. f.procs[proc].exit \in DOMAIN f.heap /\ f.heap[f.procs[proc].exit].role = "exit"
        BY <2>6, <4>1 DEF Well, ProcsFit
      <4> QED
        BY <2>3, <3>2, <4>2 DEF Ends
    <3> QED
      BY <3>1, <3>2
  <2>9. /\ Well(h, X) /\ Keeps(f, h) /\ SameNodes(f, h)
        /\ \A c \in DOMAIN f.heap : h.heap[c].stms = f.heap[c].stms
    <3>1. Well(f, X)
      BY <2>6
    <3> QED
      BY <2>4, <2>7, <2>8, <3>1, AddEdgeKeeps
  <2>12. chain # <<>> /\ NewestTells(k) => NewestTells(h)
    <3>1. chain # <<>> => Newest(f) \in DOMAIN f.heap
      <4>1. DOMAIN f.heap = 1 .. Len(f.heap) /\ Len(f.heap) = Len(g.heap) + n
        BY <2>6, WellParts
      <4>2. chain # <<>> => n # 0
        BY <1>1, SeqParts
      <4> QED
        BY <1>1, <1>3, <4>1, <4>2 DEF Newest
    <3>2. chain # <<>> /\ NewestTells(k) => NewestTells(f)
      BY <1>2
    <3>3. Newest(h) = Newest(f)
      BY <2>9 DEF SameNodes, Newest
    <3> QED
      BY <2>9, <3>1, <3>2, <3>3 DEF NewestTells
  <2>10. Keeps(g, h)
    BY <2>6, <2>9, KeepsOn
  <2>11. h \in WithClones(g, X, proc, n)
    BY <2>6, <2>9, <2>10 DEF WithClones, SameNodes, Well
  <2> QED
    BY <1>2, <2>5, <2>11, <2>12
<1>6. k \in P
  BY <1>1, <1>2
<1>7. Links(g, chain, proc, k) \in P
  <2>1. \A h \in P : \A i \in 1 .. n : Linked(g, chain, proc, h, chain[i]) \in P
    BY <1>5
  <2> QED
    BY <1>1, <1>6, <2>1, LinksIn
<1> QED
  BY <1>1, <1>2, <1>7

(* The copy of a block is a new block of the procedure. *)
LEMMA CloneKeeps ==
  ASSUME NEW X, NEW g, Well(g, X), NEW b \in DOMAIN g.heap,
         NEW proc \in DOMAIN g.procs, proc \in X.procs \/ Entered(g, proc), NEW h
  PROVE  h = CloneBlock(g, b, proc) =>
         /\ Well(h, X) /\ Keeps(g, h)
         /\ Newest(h) \in DOMAIN h.heap
         /\ h.heap[Newest(h)].role = "clone"
         /\ h.heap[Newest(h)].proc = proc
         /\ Stms(g, b) # <<>> => h.heap[Newest(h)].stms # <<>>
<1>h. HAVE h = CloneBlock(g, b, proc)
<1> USE <1>h
<1>1. PICK chain : /\ chain = Chain(g, b)
                   /\ chain \in Seq(DOMAIN g.heap) /\ chain # <<>> /\ chain[1] = b
  <2> QED
    BY ChainKeeps
<1>2. PICK k : k = Copies(g, chain, proc)
  OBVIOUS
<1>3. h = Links(g, chain, proc, k)
  <2>1. CloneChain(g, chain, proc) = Links(g, chain, proc, Copies(g, chain, proc))
    BY Zenon DEF CloneChain, Links, Linked, Copies, Copied, CopyOf
  <2> QED
    BY <1>1, <1>2, <2>1 DEF CloneBlock
<1> HIDE <1>h
<1>4. k \in WithClones(g, X, proc, Len(chain)) /\ (Stms(g, b) # <<>> => NewestTells(k))
  BY <1>1, <1>2, CopiesKeep
<1>5. h \in WithClones(g, X, proc, Len(chain)) /\ (Stms(g, b) # <<>> => NewestTells(h))
  BY <1>1, <1>3, <1>4, LinksKeep
<1>6. /\ Well(h, X) /\ Keeps(g, h) /\ Len(h.heap) = Len(g.heap) + Len(chain)
      /\ \A c \in DOMAIN h.heap \ DOMAIN g.heap :
            h.heap[c].role = "clone" /\ h.heap[c].proc = proc
  BY <1>5 DEF WithClones
<1>7. Len(chain) \in Nat /\ Len(chain) # 0
  BY <1>1, SeqParts
<1>8. /\ DOMAIN h.heap = 1 .. Len(h.heap) /\ DOMAIN g.heap = 1 .. Len(g.heap)
      /\ Len(h.heap) \in Nat /\ Len(g.heap) \in Nat
  BY <1>6, WellParts
<1>9. Newest(h) \in DOMAIN h.heap \ DOMAIN g.heap
  BY <1>6, <1>7, <1>8 DEF Newest
<1> QED
  BY <1>5, <1>6, <1>9 DEF NewestTells

-------------------------------------------------------------------------------
(* Promotion. *)

(* The parts of PromoteBlock: the bound on its search, ...                 *)
EdgeCount(g) == FoldLeft(LAMBDA n, x : n + Len(x.succ), 1, g.heap)

(* A step of the depth-first search.                                        *)
VisitStep(g, proc, s) ==
    LET movable(x) == /\ g.heap[x].proc # proc
                      /\ x # ProcOf(g, x).exit
                      /\ ~IsEntered(g, x)
    IN  IF s.stack = <<>> THEN s
        ELSE LET x == Head(s.stack)
             IN  IF movable(x) /\ ~Contains(s.moved, x)
                 THEN [stack |-> g.heap[x].succ \o Tail(s.stack),
                       moved |-> Append(s.moved, x)]
                 ELSE [s EXCEPT !.stack = Tail(@)]

(* ... the whole search, and the blocks that move.                         *)
Visits(g, b, proc, q) ==
    FoldLeft(LAMBDA s, i : VisitStep(g, proc, s), [stack |-> <<b>>, moved |-> <<>>], q)

BlocksMoved(g, proc, q) == FoldLeft(LAMBDA h, x : MoveBlock(h, x, proc), g, q)

(* One edge of FixExitEdges, FixInboundEdges and FixOutboundEdges.          *)
ExitFixed(h, b, old, new, i) ==
    LET s == h.heap[b].succ[i]
    IN  IF s \in old
        THEN [h EXCEPT !.heap[s].pred = RemoveFirst(@, b),
                       !.heap[new].pred = Append(@, b),
                       !.heap[b].succ[i] = new]
        ELSE h

(* The loops over these edges, and over the blocks that have moved.        *)
ExitsFixed(g, b, old, new, q) ==
    FoldLeft(LAMBDA h, i : ExitFixed(h, b, old, new, i), g, q)

InboundFixed(g, h, b, proc, p) ==
    IF g.heap[p].proc # proc THEN FixInbound(h, b, proc, p) ELSE h

InboundsFixed(g, h0, b, proc, q) ==
    FoldLeft(LAMBDA h, p : InboundFixed(g, h, b, proc, p), h0, q)

PredTaken(g, h, b, proc, p) ==
    IF g.heap[p].proc # proc THEN [h EXCEPT !.heap[b].pred = RemoveFirst(@, p)] ELSE h

PredsTaken(g, h0, b, proc, q) ==
    FoldLeft(LAMBDA h, p : PredTaken(g, h, b, proc, p), h0, q)

OutboundFixed(h, b, i) ==
    LET s == h.heap[b].succ[i]
    IN  IF h.heap[s].proc = h.heap[b].proc \/ ~IsEntered(h, s) THEN h
        ELSE LET h1 == CallRetThunk(h, LastAddress(h, b),
                                    h.heap[b].proc, h.heap[s].proc)
                 t == Newest(h1)
             IN  [h1 EXCEPT !.heap[b].succ[i] = t,
                            !.heap[t].pred = Append(@, b),
                            !.heap[s].pred = RemoveFirst(@, b)]

OutboundsFixed(g, b, q) == FoldLeft(LAMBDA h, i : OutboundFixed(h, b, i), g, q)

BlockFixed(h, proc, x) ==
    FixOutboundEdges(FixInboundEdges(FixExitEdges(h, x, proc), x, proc), x)

BlocksFixed(g, proc, q) == FoldLeft(LAMBDA h, x : BlockFixed(h, proc, x), g, q)

(* The number of edges. *)
LEMMA EdgeCountIn ==
  ASSUME NEW P, NEW g,
         NEW n \in Nat, DOMAIN g.heap = 1 .. n, 1 \in P,
         \A h \in P : \A i \in 1 .. n : (h + Len(g.heap[i].succ)) \in P
  PROVE  EdgeCount(g) \in P
<1> DEFINE op(h, i) == (h + Len(g.heap[i].succ))
           step(it) == [S \in SUBSET (1 .. n) |->
              IF S = {} THEN 1 ELSE op(it[S \ {Max(S)}], Max(S))]
           F == [S \in SUBSET (1 .. n) |-> [h \in P |-> op(h, Max(S))]]
<1>1. EdgeCount(g) = (CHOOSE it : it = step(it))[1 .. n]
  BY Zenon DEF EdgeCount, FoldLeft, MapThenFoldSet
<1>2. \A h \in P : \A i \in 1 .. n : op(h, i) \in P
  OBVIOUS
<1> HIDE DEF op
<1>3. ASSUME NEW S \in SUBSET (1 .. n), S # {}
      PROVE  /\ Greatest(n)[S] = Max(S) /\ Max(S) \in 1 .. n
             /\ \A h \in P : F[S][h] = op(h, Max(S)) /\ F[S][h] \in P
  <2>1. Greatest(n)[S] = Max(S) /\ Max(S) \in 1 .. n
    BY <1>3, GreatestChosen DEF Greatest, Chooses
  <2> QED
    BY <1>2, <2>1
<1> HIDE DEF F
<1>4. Chooses(n, Greatest(n))
  BY GreatestChosen
<1>5. PICK it : /\ Iterated(it, n, Greatest(n), 1, F)
                /\ \A S \in SUBSET (1 .. n) : it[S] \in P
  <2>1. \A S \in SUBSET (1 .. n) : S # {} => \A h \in P : F[S][h] \in P
    BY <1>3
  <2> QED
    BY <1>4, <2>1, FoldExists
<1>6. it = step(it)
  <2>1. \A S \in SUBSET (1 .. n) : it[S \ {Max(S)}] \in P
    BY <1>5
  <2>2. \A S \in SUBSET (1 .. n) :
           (IF S = {} THEN 1 ELSE F[S][it[S \ {Greatest(n)[S]}]])
              = IF S = {} THEN 1 ELSE op(it[S \ {Max(S)}], Max(S))
    BY <1>3, <2>1
  <2> QED
    BY <1>5, <2>2 DEF Iterated
<1>7. PICK c : c = step(c) /\ c = CHOOSE d : d = step(d)
  BY <1>6
<1>8. \A S \in SUBSET (1 .. n) :
         c[S] = IF S = {} THEN 1 ELSE op(c[S \ {Max(S)}], Max(S))
  BY <1>7, Zenon
<1>9. c[{}] \in P
  BY <1>8
<1>10. \A S \in SUBSET (1 .. n) : S # {} /\ c[S \ {Greatest(n)[S]}] \in P => c[S] \in P
  <2> SUFFICES ASSUME NEW S \in SUBSET (1 .. n), S # {}, c[S \ {Greatest(n)[S]}] \in P
               PROVE  c[S] \in P
    BY Zenon
  <2>1. c[S \ {Max(S)}] \in P /\ Max(S) \in 1 .. n
    BY <1>3
  <2>2. op(c[S \ {Max(S)}], Max(S)) \in P
    BY <1>2, <2>1
  <2> QED
    BY <1>8, <2>2
<1>11. c[1 .. n] \in P
  BY <1>4, <1>9, <1>10, FoldKeeps
<1> QED
  BY <1>1, <1>7, <1>11

(* The search. *)
LEMMA VisitsFolded ==
  ASSUME NEW P, NEW g, NEW b, NEW proc, NEW q,
         NEW n \in Nat, DOMAIN q = 1 .. n, [stack |-> <<b>>, moved |-> <<>>] \in P[{}],
         \A S \in SUBSET (1 .. n) : \A i \in S : \A h \in P[S \ {i}] :
            VisitStep(g, proc, h) \in P[S]
  PROVE  Visits(g, b, proc, q) \in P[1 .. n]
<1> DEFINE op(h, i) == VisitStep(g, proc, h)
           step(it) == [S \in SUBSET (1 .. n) |->
              IF S = {} THEN [stack |-> <<b>>, moved |-> <<>>] ELSE op(it[S \ {Max(S)}], Max(S))]
           F == [S \in SUBSET (1 .. n) |-> [h \in P[S \ {Max(S)}] |-> op(h, Max(S))]]
<1>1. Visits(g, b, proc, q) = (CHOOSE it : it = step(it))[1 .. n]
  BY Zenon DEF Visits, FoldLeft, MapThenFoldSet
<1>2. \A S \in SUBSET (1 .. n) : \A i \in S : \A h \in P[S \ {i}] : op(h, i) \in P[S]
  OBVIOUS
<1> HIDE DEF op
<1>3. ASSUME NEW S \in SUBSET (1 .. n), S # {}
      PROVE  /\ Greatest(n)[S] = Max(S) /\ Max(S) \in S
             /\ \A h \in P[S \ {Max(S)}] : F[S][h] = op(h, Max(S)) /\ F[S][h] \in P[S]
  <2>1. Greatest(n)[S] = Max(S) /\ Max(S) \in S
    BY <1>3, GreatestChosen DEF Greatest, Chooses
  <2> QED
    BY <1>2, <2>1
<1> HIDE DEF F
<1>4. Chooses(n, Greatest(n))
  BY GreatestChosen
<1>5. PICK it : Iterated(it, n, Greatest(n), [stack |-> <<b>>, moved |-> <<>>], F)
  BY <1>4, IterationExists
<1>6. \A S \in SUBSET (1 .. n) :
         it[S] = IF S = {} THEN [stack |-> <<b>>, moved |-> <<>>] ELSE F[S][it[S \ {Greatest(n)[S]}]]
  BY <1>5, Zenon DEF Iterated
<1>7. \A S \in SUBSET (1 .. n) : it[S] \in P[S]
  <2>1. it[{}] \in P[{}]
    BY <1>6
  <2>2. \A S \in SUBSET (1 .. n) :
           S # {} /\ it[S \ {Greatest(n)[S]}] \in P[S \ {Greatest(n)[S]}] => it[S] \in P[S]
    <3> SUFFICES ASSUME NEW S \in SUBSET (1 .. n), S # {},
                        it[S \ {Greatest(n)[S]}] \in P[S \ {Greatest(n)[S]}]
                 PROVE  it[S] \in P[S]
      BY Zenon
    <3>1. it[S] = F[S][it[S \ {Greatest(n)[S]}]]
      BY <1>6
    <3>2. Greatest(n)[S] = Max(S)
      BY <1>3
    <3> QED
      BY <1>3, <3>1, <3>2
  <2> QED
    BY <1>4, <2>1, <2>2, IterationKeeps
<1>8. it = step(it)
  <2>1. \A S \in SUBSET (1 .. n) : S # {} =>
           F[S][it[S \ {Greatest(n)[S]}]] = op(it[S \ {Max(S)}], Max(S))
    BY <1>3, <1>7
  <2>2. \A S \in SUBSET (1 .. n) :
           (IF S = {} THEN [stack |-> <<b>>, moved |-> <<>>] ELSE F[S][it[S \ {Greatest(n)[S]}]])
              = IF S = {} THEN [stack |-> <<b>>, moved |-> <<>>] ELSE op(it[S \ {Max(S)}], Max(S))
    BY <2>1
  <2> QED
    BY <1>5, <2>2 DEF Iterated
<1>9. PICK c : c = step(c) /\ c = CHOOSE d : d = step(d)
  BY <1>8
<1>10. \A S \in SUBSET (1 .. n) :
         c[S] = IF S = {} THEN [stack |-> <<b>>, moved |-> <<>>] ELSE op(c[S \ {Max(S)}], Max(S))
  BY <1>9, Zenon
<1>11. \A S \in SUBSET (1 .. n) : c[S] \in P[S]
  <2>1. c[{}] \in P[{}]
    BY <1>10
  <2>2. \A S \in SUBSET (1 .. n) :
           S # {} /\ c[S \ {Greatest(n)[S]}] \in P[S \ {Greatest(n)[S]}] => c[S] \in P[S]
    <3> SUFFICES ASSUME NEW S \in SUBSET (1 .. n), S # {},
                        c[S \ {Greatest(n)[S]}] \in P[S \ {Greatest(n)[S]}]
                 PROVE  c[S] \in P[S]
      BY Zenon
    <3>1. c[S \ {Max(S)}] \in P[S \ {Max(S)}] /\ Max(S) \in S
      BY <1>3
    <3>2. op(c[S \ {Max(S)}], Max(S)) \in P[S]
      BY <1>2, <3>1
    <3> QED
      BY <1>10, <3>2
  <2> QED
    BY <1>4, <2>1, <2>2, IterationKeeps
<1>12. c[1 .. n] \in P[1 .. n]
  BY <1>11
<1> QED
  BY <1>1, <1>9, <1>12

(* Blocks that move one after the other. *)
LEMMA BlocksMovedFolded ==
  ASSUME NEW P, NEW g, NEW proc, NEW q,
         NEW n \in Nat, DOMAIN q = 1 .. n, g \in P[{}],
         \A S \in SUBSET (1 .. n) : \A i \in S : \A h \in P[S \ {i}] :
            MoveBlock(h, q[i], proc) \in P[S]
  PROVE  BlocksMoved(g, proc, q) \in P[1 .. n]
<1> DEFINE op(h, i) == MoveBlock(h, q[i], proc)
           step(it) == [S \in SUBSET (1 .. n) |->
              IF S = {} THEN g ELSE op(it[S \ {Max(S)}], Max(S))]
           F == [S \in SUBSET (1 .. n) |-> [h \in P[S \ {Max(S)}] |-> op(h, Max(S))]]
<1>1. BlocksMoved(g, proc, q) = (CHOOSE it : it = step(it))[1 .. n]
  BY Zenon DEF BlocksMoved, FoldLeft, MapThenFoldSet
<1>2. \A S \in SUBSET (1 .. n) : \A i \in S : \A h \in P[S \ {i}] : op(h, i) \in P[S]
  OBVIOUS
<1> HIDE DEF op
<1>3. ASSUME NEW S \in SUBSET (1 .. n), S # {}
      PROVE  /\ Greatest(n)[S] = Max(S) /\ Max(S) \in S
             /\ \A h \in P[S \ {Max(S)}] : F[S][h] = op(h, Max(S)) /\ F[S][h] \in P[S]
  <2>1. Greatest(n)[S] = Max(S) /\ Max(S) \in S
    BY <1>3, GreatestChosen DEF Greatest, Chooses
  <2> QED
    BY <1>2, <2>1
<1> HIDE DEF F
<1>4. Chooses(n, Greatest(n))
  BY GreatestChosen
<1>5. PICK it : Iterated(it, n, Greatest(n), g, F)
  BY <1>4, IterationExists
<1>6. \A S \in SUBSET (1 .. n) :
         it[S] = IF S = {} THEN g ELSE F[S][it[S \ {Greatest(n)[S]}]]
  BY <1>5, Zenon DEF Iterated
<1>7. \A S \in SUBSET (1 .. n) : it[S] \in P[S]
  <2>1. it[{}] \in P[{}]
    BY <1>6
  <2>2. \A S \in SUBSET (1 .. n) :
           S # {} /\ it[S \ {Greatest(n)[S]}] \in P[S \ {Greatest(n)[S]}] => it[S] \in P[S]
    <3> SUFFICES ASSUME NEW S \in SUBSET (1 .. n), S # {},
                        it[S \ {Greatest(n)[S]}] \in P[S \ {Greatest(n)[S]}]
                 PROVE  it[S] \in P[S]
      BY Zenon
    <3>1. it[S] = F[S][it[S \ {Greatest(n)[S]}]]
      BY <1>6
    <3>2. Greatest(n)[S] = Max(S)
      BY <1>3
    <3> QED
      BY <1>3, <3>1, <3>2
  <2> QED
    BY <1>4, <2>1, <2>2, IterationKeeps
<1>8. it = step(it)
  <2>1. \A S \in SUBSET (1 .. n) : S # {} =>
           F[S][it[S \ {Greatest(n)[S]}]] = op(it[S \ {Max(S)}], Max(S))
    BY <1>3, <1>7
  <2>2. \A S \in SUBSET (1 .. n) :
           (IF S = {} THEN g ELSE F[S][it[S \ {Greatest(n)[S]}]])
              = IF S = {} THEN g ELSE op(it[S \ {Max(S)}], Max(S))
    BY <2>1
  <2> QED
    BY <1>5, <2>2 DEF Iterated
<1>9. PICK c : c = step(c) /\ c = CHOOSE d : d = step(d)
  BY <1>8
<1>10. \A S \in SUBSET (1 .. n) :
         c[S] = IF S = {} THEN g ELSE op(c[S \ {Max(S)}], Max(S))
  BY <1>9, Zenon
<1>11. \A S \in SUBSET (1 .. n) : c[S] \in P[S]
  <2>1. c[{}] \in P[{}]
    BY <1>10
  <2>2. \A S \in SUBSET (1 .. n) :
           S # {} /\ c[S \ {Greatest(n)[S]}] \in P[S \ {Greatest(n)[S]}] => c[S] \in P[S]
    <3> SUFFICES ASSUME NEW S \in SUBSET (1 .. n), S # {},
                        c[S \ {Greatest(n)[S]}] \in P[S \ {Greatest(n)[S]}]
                 PROVE  c[S] \in P[S]
      BY Zenon
    <3>1. c[S \ {Max(S)}] \in P[S \ {Max(S)}] /\ Max(S) \in S
      BY <1>3
    <3>2. op(c[S \ {Max(S)}], Max(S)) \in P[S]
      BY <1>2, <3>1
    <3> QED
      BY <1>10, <3>2
  <2> QED
    BY <1>4, <2>1, <2>2, IterationKeeps
<1>12. c[1 .. n] \in P[1 .. n]
  BY <1>11
<1> QED
  BY <1>1, <1>9, <1>12

(* Edges to exits. *)
LEMMA ExitsFixedIn ==
  ASSUME NEW P, NEW g, NEW b, NEW old, NEW new, NEW q,
         NEW n \in Nat, DOMAIN q = 1 .. n, g \in P,
         \A h \in P : \A i \in 1 .. n : ExitFixed(h, b, old, new, q[i]) \in P
  PROVE  ExitsFixed(g, b, old, new, q) \in P
<1> DEFINE op(h, i) == ExitFixed(h, b, old, new, q[i])
           step(it) == [S \in SUBSET (1 .. n) |->
              IF S = {} THEN g ELSE op(it[S \ {Max(S)}], Max(S))]
           F == [S \in SUBSET (1 .. n) |-> [h \in P |-> op(h, Max(S))]]
<1>1. ExitsFixed(g, b, old, new, q) = (CHOOSE it : it = step(it))[1 .. n]
  BY Zenon DEF ExitsFixed, FoldLeft, MapThenFoldSet
<1>2. \A h \in P : \A i \in 1 .. n : op(h, i) \in P
  OBVIOUS
<1> HIDE DEF op
<1>3. ASSUME NEW S \in SUBSET (1 .. n), S # {}
      PROVE  /\ Greatest(n)[S] = Max(S) /\ Max(S) \in 1 .. n
             /\ \A h \in P : F[S][h] = op(h, Max(S)) /\ F[S][h] \in P
  <2>1. Greatest(n)[S] = Max(S) /\ Max(S) \in 1 .. n
    BY <1>3, GreatestChosen DEF Greatest, Chooses
  <2> QED
    BY <1>2, <2>1
<1> HIDE DEF F
<1>4. Chooses(n, Greatest(n))
  BY GreatestChosen
<1>5. PICK it : /\ Iterated(it, n, Greatest(n), g, F)
                /\ \A S \in SUBSET (1 .. n) : it[S] \in P
  <2>1. \A S \in SUBSET (1 .. n) : S # {} => \A h \in P : F[S][h] \in P
    BY <1>3
  <2> QED
    BY <1>4, <2>1, FoldExists
<1>6. it = step(it)
  <2>1. \A S \in SUBSET (1 .. n) : it[S \ {Max(S)}] \in P
    BY <1>5
  <2>2. \A S \in SUBSET (1 .. n) :
           (IF S = {} THEN g ELSE F[S][it[S \ {Greatest(n)[S]}]])
              = IF S = {} THEN g ELSE op(it[S \ {Max(S)}], Max(S))
    BY <1>3, <2>1
  <2> QED
    BY <1>5, <2>2 DEF Iterated
<1>7. PICK c : c = step(c) /\ c = CHOOSE d : d = step(d)
  BY <1>6
<1>8. \A S \in SUBSET (1 .. n) :
         c[S] = IF S = {} THEN g ELSE op(c[S \ {Max(S)}], Max(S))
  BY <1>7, Zenon
<1>9. c[{}] \in P
  BY <1>8
<1>10. \A S \in SUBSET (1 .. n) : S # {} /\ c[S \ {Greatest(n)[S]}] \in P => c[S] \in P
  <2> SUFFICES ASSUME NEW S \in SUBSET (1 .. n), S # {}, c[S \ {Greatest(n)[S]}] \in P
               PROVE  c[S] \in P
    BY Zenon
  <2>1. c[S \ {Max(S)}] \in P /\ Max(S) \in 1 .. n
    BY <1>3
  <2>2. op(c[S \ {Max(S)}], Max(S)) \in P
    BY <1>2, <2>1
  <2> QED
    BY <1>8, <2>2
<1>11. c[1 .. n] \in P
  BY <1>4, <1>9, <1>10, FoldKeeps
<1> QED
  BY <1>1, <1>7, <1>11

(* Edges that come in. *)
LEMMA InboundsFixedFolded ==
  ASSUME NEW P, NEW g, NEW h0, NEW b, NEW proc, NEW q,
         NEW n \in Nat, DOMAIN q = 1 .. n, h0 \in P[{}],
         \A S \in SUBSET (1 .. n) : \A i \in S : \A h \in P[S \ {i}] :
            InboundFixed(g, h, b, proc, q[i]) \in P[S]
  PROVE  InboundsFixed(g, h0, b, proc, q) \in P[1 .. n]
<1> DEFINE op(h, i) == InboundFixed(g, h, b, proc, q[i])
           step(it) == [S \in SUBSET (1 .. n) |->
              IF S = {} THEN h0 ELSE op(it[S \ {Max(S)}], Max(S))]
           F == [S \in SUBSET (1 .. n) |-> [h \in P[S \ {Max(S)}] |-> op(h, Max(S))]]
<1>1. InboundsFixed(g, h0, b, proc, q) = (CHOOSE it : it = step(it))[1 .. n]
  BY Zenon DEF InboundsFixed, FoldLeft, MapThenFoldSet
<1>2. \A S \in SUBSET (1 .. n) : \A i \in S : \A h \in P[S \ {i}] : op(h, i) \in P[S]
  OBVIOUS
<1> HIDE DEF op
<1>3. ASSUME NEW S \in SUBSET (1 .. n), S # {}
      PROVE  /\ Greatest(n)[S] = Max(S) /\ Max(S) \in S
             /\ \A h \in P[S \ {Max(S)}] : F[S][h] = op(h, Max(S)) /\ F[S][h] \in P[S]
  <2>1. Greatest(n)[S] = Max(S) /\ Max(S) \in S
    BY <1>3, GreatestChosen DEF Greatest, Chooses
  <2> QED
    BY <1>2, <2>1
<1> HIDE DEF F
<1>4. Chooses(n, Greatest(n))
  BY GreatestChosen
<1>5. PICK it : Iterated(it, n, Greatest(n), h0, F)
  BY <1>4, IterationExists
<1>6. \A S \in SUBSET (1 .. n) :
         it[S] = IF S = {} THEN h0 ELSE F[S][it[S \ {Greatest(n)[S]}]]
  BY <1>5, Zenon DEF Iterated
<1>7. \A S \in SUBSET (1 .. n) : it[S] \in P[S]
  <2>1. it[{}] \in P[{}]
    BY <1>6
  <2>2. \A S \in SUBSET (1 .. n) :
           S # {} /\ it[S \ {Greatest(n)[S]}] \in P[S \ {Greatest(n)[S]}] => it[S] \in P[S]
    <3> SUFFICES ASSUME NEW S \in SUBSET (1 .. n), S # {},
                        it[S \ {Greatest(n)[S]}] \in P[S \ {Greatest(n)[S]}]
                 PROVE  it[S] \in P[S]
      BY Zenon
    <3>1. it[S] = F[S][it[S \ {Greatest(n)[S]}]]
      BY <1>6
    <3>2. Greatest(n)[S] = Max(S)
      BY <1>3
    <3> QED
      BY <1>3, <3>1, <3>2
  <2> QED
    BY <1>4, <2>1, <2>2, IterationKeeps
<1>8. it = step(it)
  <2>1. \A S \in SUBSET (1 .. n) : S # {} =>
           F[S][it[S \ {Greatest(n)[S]}]] = op(it[S \ {Max(S)}], Max(S))
    BY <1>3, <1>7
  <2>2. \A S \in SUBSET (1 .. n) :
           (IF S = {} THEN h0 ELSE F[S][it[S \ {Greatest(n)[S]}]])
              = IF S = {} THEN h0 ELSE op(it[S \ {Max(S)}], Max(S))
    BY <2>1
  <2> QED
    BY <1>5, <2>2 DEF Iterated
<1>9. PICK c : c = step(c) /\ c = CHOOSE d : d = step(d)
  BY <1>8
<1>10. \A S \in SUBSET (1 .. n) :
         c[S] = IF S = {} THEN h0 ELSE op(c[S \ {Max(S)}], Max(S))
  BY <1>9, Zenon
<1>11. \A S \in SUBSET (1 .. n) : c[S] \in P[S]
  <2>1. c[{}] \in P[{}]
    BY <1>10
  <2>2. \A S \in SUBSET (1 .. n) :
           S # {} /\ c[S \ {Greatest(n)[S]}] \in P[S \ {Greatest(n)[S]}] => c[S] \in P[S]
    <3> SUFFICES ASSUME NEW S \in SUBSET (1 .. n), S # {},
                        c[S \ {Greatest(n)[S]}] \in P[S \ {Greatest(n)[S]}]
                 PROVE  c[S] \in P[S]
      BY Zenon
    <3>1. c[S \ {Max(S)}] \in P[S \ {Max(S)}] /\ Max(S) \in S
      BY <1>3
    <3>2. op(c[S \ {Max(S)}], Max(S)) \in P[S]
      BY <1>2, <3>1
    <3> QED
      BY <1>10, <3>2
  <2> QED
    BY <1>4, <2>1, <2>2, IterationKeeps
<1>12. c[1 .. n] \in P[1 .. n]
  BY <1>11
<1> QED
  BY <1>1, <1>9, <1>12

(* Predecessors that are taken away. *)
LEMMA PredsTakenFolded ==
  ASSUME NEW P, NEW g, NEW h0, NEW b, NEW proc, NEW q,
         NEW n \in Nat, DOMAIN q = 1 .. n, h0 \in P[{}],
         \A S \in SUBSET (1 .. n) : \A i \in S : \A h \in P[S \ {i}] :
            PredTaken(g, h, b, proc, q[i]) \in P[S]
  PROVE  PredsTaken(g, h0, b, proc, q) \in P[1 .. n]
<1> DEFINE op(h, i) == PredTaken(g, h, b, proc, q[i])
           step(it) == [S \in SUBSET (1 .. n) |->
              IF S = {} THEN h0 ELSE op(it[S \ {Max(S)}], Max(S))]
           F == [S \in SUBSET (1 .. n) |-> [h \in P[S \ {Max(S)}] |-> op(h, Max(S))]]
<1>1. PredsTaken(g, h0, b, proc, q) = (CHOOSE it : it = step(it))[1 .. n]
  BY Zenon DEF PredsTaken, FoldLeft, MapThenFoldSet
<1>2. \A S \in SUBSET (1 .. n) : \A i \in S : \A h \in P[S \ {i}] : op(h, i) \in P[S]
  OBVIOUS
<1> HIDE DEF op
<1>3. ASSUME NEW S \in SUBSET (1 .. n), S # {}
      PROVE  /\ Greatest(n)[S] = Max(S) /\ Max(S) \in S
             /\ \A h \in P[S \ {Max(S)}] : F[S][h] = op(h, Max(S)) /\ F[S][h] \in P[S]
  <2>1. Greatest(n)[S] = Max(S) /\ Max(S) \in S
    BY <1>3, GreatestChosen DEF Greatest, Chooses
  <2> QED
    BY <1>2, <2>1
<1> HIDE DEF F
<1>4. Chooses(n, Greatest(n))
  BY GreatestChosen
<1>5. PICK it : Iterated(it, n, Greatest(n), h0, F)
  BY <1>4, IterationExists
<1>6. \A S \in SUBSET (1 .. n) :
         it[S] = IF S = {} THEN h0 ELSE F[S][it[S \ {Greatest(n)[S]}]]
  BY <1>5, Zenon DEF Iterated
<1>7. \A S \in SUBSET (1 .. n) : it[S] \in P[S]
  <2>1. it[{}] \in P[{}]
    BY <1>6
  <2>2. \A S \in SUBSET (1 .. n) :
           S # {} /\ it[S \ {Greatest(n)[S]}] \in P[S \ {Greatest(n)[S]}] => it[S] \in P[S]
    <3> SUFFICES ASSUME NEW S \in SUBSET (1 .. n), S # {},
                        it[S \ {Greatest(n)[S]}] \in P[S \ {Greatest(n)[S]}]
                 PROVE  it[S] \in P[S]
      BY Zenon
    <3>1. it[S] = F[S][it[S \ {Greatest(n)[S]}]]
      BY <1>6
    <3>2. Greatest(n)[S] = Max(S)
      BY <1>3
    <3> QED
      BY <1>3, <3>1, <3>2
  <2> QED
    BY <1>4, <2>1, <2>2, IterationKeeps
<1>8. it = step(it)
  <2>1. \A S \in SUBSET (1 .. n) : S # {} =>
           F[S][it[S \ {Greatest(n)[S]}]] = op(it[S \ {Max(S)}], Max(S))
    BY <1>3, <1>7
  <2>2. \A S \in SUBSET (1 .. n) :
           (IF S = {} THEN h0 ELSE F[S][it[S \ {Greatest(n)[S]}]])
              = IF S = {} THEN h0 ELSE op(it[S \ {Max(S)}], Max(S))
    BY <2>1
  <2> QED
    BY <1>5, <2>2 DEF Iterated
<1>9. PICK c : c = step(c) /\ c = CHOOSE d : d = step(d)
  BY <1>8
<1>10. \A S \in SUBSET (1 .. n) :
         c[S] = IF S = {} THEN h0 ELSE op(c[S \ {Max(S)}], Max(S))
  BY <1>9, Zenon
<1>11. \A S \in SUBSET (1 .. n) : c[S] \in P[S]
  <2>1. c[{}] \in P[{}]
    BY <1>10
  <2>2. \A S \in SUBSET (1 .. n) :
           S # {} /\ c[S \ {Greatest(n)[S]}] \in P[S \ {Greatest(n)[S]}] => c[S] \in P[S]
    <3> SUFFICES ASSUME NEW S \in SUBSET (1 .. n), S # {},
                        c[S \ {Greatest(n)[S]}] \in P[S \ {Greatest(n)[S]}]
                 PROVE  c[S] \in P[S]
      BY Zenon
    <3>1. c[S \ {Max(S)}] \in P[S \ {Max(S)}] /\ Max(S) \in S
      BY <1>3
    <3>2. op(c[S \ {Max(S)}], Max(S)) \in P[S]
      BY <1>2, <3>1
    <3> QED
      BY <1>10, <3>2
  <2> QED
    BY <1>4, <2>1, <2>2, IterationKeeps
<1>12. c[1 .. n] \in P[1 .. n]
  BY <1>11
<1> QED
  BY <1>1, <1>9, <1>12

(* Edges that go out. *)
LEMMA OutboundsFixedIn ==
  ASSUME NEW P, NEW g, NEW b, NEW q,
         NEW n \in Nat, DOMAIN q = 1 .. n, g \in P,
         \A h \in P : \A i \in 1 .. n : OutboundFixed(h, b, q[i]) \in P
  PROVE  OutboundsFixed(g, b, q) \in P
<1> DEFINE op(h, i) == OutboundFixed(h, b, q[i])
           step(it) == [S \in SUBSET (1 .. n) |->
              IF S = {} THEN g ELSE op(it[S \ {Max(S)}], Max(S))]
           F == [S \in SUBSET (1 .. n) |-> [h \in P |-> op(h, Max(S))]]
<1>1. OutboundsFixed(g, b, q) = (CHOOSE it : it = step(it))[1 .. n]
  BY Zenon DEF OutboundsFixed, FoldLeft, MapThenFoldSet
<1>2. \A h \in P : \A i \in 1 .. n : op(h, i) \in P
  OBVIOUS
<1> HIDE DEF op
<1>3. ASSUME NEW S \in SUBSET (1 .. n), S # {}
      PROVE  /\ Greatest(n)[S] = Max(S) /\ Max(S) \in 1 .. n
             /\ \A h \in P : F[S][h] = op(h, Max(S)) /\ F[S][h] \in P
  <2>1. Greatest(n)[S] = Max(S) /\ Max(S) \in 1 .. n
    BY <1>3, GreatestChosen DEF Greatest, Chooses
  <2> QED
    BY <1>2, <2>1
<1> HIDE DEF F
<1>4. Chooses(n, Greatest(n))
  BY GreatestChosen
<1>5. PICK it : /\ Iterated(it, n, Greatest(n), g, F)
                /\ \A S \in SUBSET (1 .. n) : it[S] \in P
  <2>1. \A S \in SUBSET (1 .. n) : S # {} => \A h \in P : F[S][h] \in P
    BY <1>3
  <2> QED
    BY <1>4, <2>1, FoldExists
<1>6. it = step(it)
  <2>1. \A S \in SUBSET (1 .. n) : it[S \ {Max(S)}] \in P
    BY <1>5
  <2>2. \A S \in SUBSET (1 .. n) :
           (IF S = {} THEN g ELSE F[S][it[S \ {Greatest(n)[S]}]])
              = IF S = {} THEN g ELSE op(it[S \ {Max(S)}], Max(S))
    BY <1>3, <2>1
  <2> QED
    BY <1>5, <2>2 DEF Iterated
<1>7. PICK c : c = step(c) /\ c = CHOOSE d : d = step(d)
  BY <1>6
<1>8. \A S \in SUBSET (1 .. n) :
         c[S] = IF S = {} THEN g ELSE op(c[S \ {Max(S)}], Max(S))
  BY <1>7, Zenon
<1>9. c[{}] \in P
  BY <1>8
<1>10. \A S \in SUBSET (1 .. n) : S # {} /\ c[S \ {Greatest(n)[S]}] \in P => c[S] \in P
  <2> SUFFICES ASSUME NEW S \in SUBSET (1 .. n), S # {}, c[S \ {Greatest(n)[S]}] \in P
               PROVE  c[S] \in P
    BY Zenon
  <2>1. c[S \ {Max(S)}] \in P /\ Max(S) \in 1 .. n
    BY <1>3
  <2>2. op(c[S \ {Max(S)}], Max(S)) \in P
    BY <1>2, <2>1
  <2> QED
    BY <1>8, <2>2
<1>11. c[1 .. n] \in P
  BY <1>4, <1>9, <1>10, FoldKeeps
<1> QED
  BY <1>1, <1>7, <1>11

(* The edges of the blocks that moved. *)
LEMMA BlocksFixedIn ==
  ASSUME NEW P, NEW g, NEW proc, NEW q,
         NEW n \in Nat, DOMAIN q = 1 .. n, g \in P,
         \A h \in P : \A i \in 1 .. n : BlockFixed(h, proc, q[i]) \in P
  PROVE  BlocksFixed(g, proc, q) \in P
<1> DEFINE op(h, i) == BlockFixed(h, proc, q[i])
           step(it) == [S \in SUBSET (1 .. n) |->
              IF S = {} THEN g ELSE op(it[S \ {Max(S)}], Max(S))]
           F == [S \in SUBSET (1 .. n) |-> [h \in P |-> op(h, Max(S))]]
<1>1. BlocksFixed(g, proc, q) = (CHOOSE it : it = step(it))[1 .. n]
  BY Zenon DEF BlocksFixed, FoldLeft, MapThenFoldSet
<1>2. \A h \in P : \A i \in 1 .. n : op(h, i) \in P
  OBVIOUS
<1> HIDE DEF op
<1>3. ASSUME NEW S \in SUBSET (1 .. n), S # {}
      PROVE  /\ Greatest(n)[S] = Max(S) /\ Max(S) \in 1 .. n
             /\ \A h \in P : F[S][h] = op(h, Max(S)) /\ F[S][h] \in P
  <2>1. Greatest(n)[S] = Max(S) /\ Max(S) \in 1 .. n
    BY <1>3, GreatestChosen DEF Greatest, Chooses
  <2> QED
    BY <1>2, <2>1
<1> HIDE DEF F
<1>4. Chooses(n, Greatest(n))
  BY GreatestChosen
<1>5. PICK it : /\ Iterated(it, n, Greatest(n), g, F)
                /\ \A S \in SUBSET (1 .. n) : it[S] \in P
  <2>1. \A S \in SUBSET (1 .. n) : S # {} => \A h \in P : F[S][h] \in P
    BY <1>3
  <2> QED
    BY <1>4, <2>1, FoldExists
<1>6. it = step(it)
  <2>1. \A S \in SUBSET (1 .. n) : it[S \ {Max(S)}] \in P
    BY <1>5
  <2>2. \A S \in SUBSET (1 .. n) :
           (IF S = {} THEN g ELSE F[S][it[S \ {Greatest(n)[S]}]])
              = IF S = {} THEN g ELSE op(it[S \ {Max(S)}], Max(S))
    BY <1>3, <2>1
  <2> QED
    BY <1>5, <2>2 DEF Iterated
<1>7. PICK c : c = step(c) /\ c = CHOOSE d : d = step(d)
  BY <1>6
<1>8. \A S \in SUBSET (1 .. n) :
         c[S] = IF S = {} THEN g ELSE op(c[S \ {Max(S)}], Max(S))
  BY <1>7, Zenon
<1>9. c[{}] \in P
  BY <1>8
<1>10. \A S \in SUBSET (1 .. n) : S # {} /\ c[S \ {Greatest(n)[S]}] \in P => c[S] \in P
  <2> SUFFICES ASSUME NEW S \in SUBSET (1 .. n), S # {}, c[S \ {Greatest(n)[S]}] \in P
               PROVE  c[S] \in P
    BY Zenon
  <2>1. c[S \ {Max(S)}] \in P /\ Max(S) \in 1 .. n
    BY <1>3
  <2>2. op(c[S \ {Max(S)}], Max(S)) \in P
    BY <1>2, <2>1
  <2> QED
    BY <1>8, <2>2
<1>11. c[1 .. n] \in P
  BY <1>4, <1>9, <1>10, FoldKeeps
<1> QED
  BY <1>1, <1>7, <1>11

(* The model's operators are these. *)
LEMMA PromotionParts ==
  ASSUME NEW g, NEW b, NEW proc
  PROVE  /\ Promoted(g, b, proc) = Visits(g, b, proc, [i \in 1 .. EdgeCount(g) |-> i]).moved
         /\ FixExitEdges(g, b, proc) =
               ExitsFixed(g, b, {x \in {ProcOf(g, x).exit : x \in DOMAIN g.heap}
                                            \cap ToSet(g.heap[b].succ) :
                                    g.heap[x].proc # proc},
                          g.procs[proc].exit, [i \in 1 .. Len(g.heap[b].succ) |-> i])
         /\ FixInboundEdges(g, b, proc) =
               PredsTaken(g, InboundsFixed(g, g, b, proc, g.heap[b].pred),
                          b, proc, g.heap[b].pred)
         /\ FixOutboundEdges(g, b) =
               OutboundsFixed(g, b, [i \in 1 .. Len(g.heap[b].succ) |-> i])
         /\ Promote(g, b, proc) =
               BlocksFixed(BlocksMoved(g, proc, Promoted(g, b, proc)), proc,
                           Promoted(g, b, proc))
<1>1. Promoted(g, b, proc) = Visits(g, b, proc, [i \in 1 .. EdgeCount(g) |-> i]).moved
  BY Zenon DEF Promoted, Visits, VisitStep, EdgeCount
<1>2. FixExitEdges(g, b, proc) =
         ExitsFixed(g, b, {x \in {ProcOf(g, x).exit : x \in DOMAIN g.heap}
                                      \cap ToSet(g.heap[b].succ) :
                              g.heap[x].proc # proc},
                    g.procs[proc].exit, [i \in 1 .. Len(g.heap[b].succ) |-> i])
  BY Zenon DEF FixExitEdges, ExitsFixed, ExitFixed
<1>3. FixInboundEdges(g, b, proc) =
         PredsTaken(g, InboundsFixed(g, g, b, proc, g.heap[b].pred),
                    b, proc, g.heap[b].pred)
  BY Zenon DEF FixInboundEdges, PredsTaken, PredTaken, InboundsFixed, InboundFixed
<1>4. FixOutboundEdges(g, b) =
         OutboundsFixed(g, b, [i \in 1 .. Len(g.heap[b].succ) |-> i])
  BY Zenon DEF FixOutboundEdges, OutboundsFixed, OutboundFixed
<1>5. Promote(g, b, proc) =
         BlocksFixed(BlocksMoved(g, proc, Promoted(g, b, proc)), proc,
                     Promoted(g, b, proc))
  BY Zenon DEF Promote, BlocksFixed, BlockFixed, BlocksMoved
<1> QED
  BY <1>1, <1>2, <1>3, <1>4, <1>5

(* The blocks that may be promoted. *)
Movers(g) == {b \in DOMAIN g.heap : g.heap[b].role \in Inner}

(* Those that another procedure holds, and is not entered at.               *)
Movable(g, proc) ==
    {b \in Movers(g) : g.heap[b].proc # proc /\ ~IsEntered(g, b)}

(* The states of the search, and those in which it has begun with b.        *)
Searches(g, proc) == [stack : Seq(Ends(g)), moved : Seq(Movable(g, proc))]

Begun(g, b, proc) ==
    {s \in Searches(g, proc) : b \in Movable(g, proc) => Contains(s.moved, b)}

(* A step of the search stays within the blocks that may move: an exit is   *)
(* the exit of its procedure, and no edge leads to an entry.                *)
LEMMA VisitStepKeeps ==
  ASSUME NEW X, NEW g, Well(g, X), NEW proc, NEW s \in Searches(g, proc)
  PROVE  /\ VisitStep(g, proc, s) \in Searches(g, proc)
         /\ \A b : Contains(s.moved, b) => Contains(VisitStep(g, proc, s).moved, b)
         /\ \A b \in Movable(g, proc) :
               s.stack = <<b>> => Contains(VisitStep(g, proc, s).moved, b)
<1>1. s.stack \in Seq(Ends(g)) /\ s.moved \in Seq(Movable(g, proc))
  BY DEF Searches
<1>v. PICK t : t = VisitStep(g, proc, s)
  OBVIOUS
<1>2. CASE s.stack = <<>>
  <2>1. t = s
    BY <1>2, <1>v, Zenon DEF VisitStep
  <2>2. \A b : <<>> # <<b>>
    OBVIOUS
  <2> QED
    BY <1>2, <1>v, <2>1, <2>2
<1>3. CASE s.stack # <<>>
  <2>1. PICK x, u, n : x = Head(s.stack) /\ u = Tail(s.stack) /\ n = g.heap[x].succ
    OBVIOUS
  <2>2. x \in Ends(g) /\ u \in Seq(Ends(g))
    BY <1>1, <1>3, <2>1, HeadTailProperties
  <2>3. n \in Seq(Ends(g))
    BY <2>1, <2>2, WellParts DEF Ends
  <2>6. \A b : s.stack = <<b>> => x = b
    BY <2>1
  <2>m. PICK m : m = (/\ g.heap[x].proc # proc
                      /\ x # ProcOf(g, x).exit
                      /\ ~IsEntered(g, x))
    OBVIOUS
  <2>7. x \in Movable(g, proc) => m
    <3> SUFFICES ASSUME x \in Movable(g, proc) PROVE x # ProcOf(g, x).exit
      BY <2>m DEF Movable
    <3>1. x \in DOMAIN g.heap /\ g.heap[x].role \in Inner /\ g.heap[x].proc \in DOMAIN g.procs
      BY WellParts DEF Movable, Movers
    <3>2. g.heap[g.procs[g.heap[x].proc].exit].role = "exit"
      BY <3>1 DEF Well, ProcsFit
    <3> QED
      BY <3>1, <3>2 DEF ProcOf, Inner
  <2>4. CASE ~(m /\ ~Contains(s.moved, x))
    <3>1. t = [s EXCEPT !.stack = u]
      BY <1>3, <1>v, <2>1, <2>4, <2>m, Zenon DEF VisitStep
    <3>2. t \in Searches(g, proc) /\ t.moved = s.moved
      BY <1>1, <2>2, <3>1 DEF Searches
    <3>3. ASSUME NEW b \in Movable(g, proc), s.stack = <<b>>
          PROVE  Contains(s.moved, b)
      BY <2>4, <2>6, <2>7, <3>3
    <3> QED
      BY <1>v, <3>2, <3>3
  <2>5. CASE m /\ ~Contains(s.moved, x)
    <3>1. t = [stack |-> n \o u, moved |-> Append(s.moved, x)]
      BY <1>3, <1>v, <2>1, <2>5, <2>m, Zenon DEF VisitStep
    <3>2. n \o u \in Seq(Ends(g))
      BY <2>2, <2>3, ConcatProperties
    <3>3. x \in Movable(g, proc)
      <4>1. x \in DOMAIN g.heap /\ g.heap[x].role # "entry" /\ g.heap[x].role \in Roles
        BY <2>2, WellParts DEF Ends
      <4>2. g.heap[x].role # "exit"
        BY <2>5, <2>m, <4>1 DEF Well, BlocksFit, ProcOf
      <4>3. x \in Movers(g)
        BY <4>1, <4>2 DEF Movers, Roles, Inner
      <4> QED
        BY <2>5, <2>m, <4>3 DEF Movable
    <3>4. /\ Append(s.moved, x) \in Seq(Movable(g, proc))
          /\ Contains(Append(s.moved, x), x)
          /\ \A b : Contains(s.moved, b) => Contains(Append(s.moved, x), b)
      <4>1. /\ Append(s.moved, x) \in Seq(Movable(g, proc))
            /\ DOMAIN Append(s.moved, x) = 1 .. Len(s.moved) + 1
            /\ Len(Append(s.moved, x)) = Len(s.moved) + 1
            /\ Append(s.moved, x)[Len(s.moved) + 1] = x
            /\ \A i \in 1 .. Len(s.moved) : Append(s.moved, x)[i] = s.moved[i]
            /\ Len(s.moved) \in Nat /\ DOMAIN s.moved = 1 .. Len(s.moved)
        BY <1>1, <3>3, AppendParts, SeqParts
      <4> QED
        BY <4>1 DEF Contains
    <3>5. t.stack = n \o u /\ t.moved = Append(s.moved, x)
      BY <3>1
    <3>6. t \in Searches(g, proc)
      BY <3>1, <3>2, <3>4 DEF Searches
    <3>7. \A b : s.stack = <<b>> => Contains(t.moved, b)
      BY <2>6, <3>4, <3>5
    <3> QED
      BY <1>v, <3>4, <3>5, <3>6, <3>7
  <2> QED
    BY <2>4, <2>5
<1> QED
  BY <1>2, <1>3

(* The number of edges, with the one that leads to the search.              *)
LEMMA EdgeCountIsNat ==
  ASSUME NEW X, NEW g, Well(g, X)
  PROVE  EdgeCount(g) \in Nat \ {0}
<1>1. Len(g.heap) \in Nat /\ DOMAIN g.heap = 1 .. Len(g.heap)
  BY WellParts
<1>2. \A h \in Nat \ {0} : \A i \in 1 .. Len(g.heap) :
         (h + Len(g.heap[i].succ)) \in Nat \ {0}
  <2> SUFFICES ASSUME NEW h \in Nat \ {0}, NEW i \in 1 .. Len(g.heap)
               PROVE  (h + Len(g.heap[i].succ)) \in Nat \ {0}
    OBVIOUS
  <2>1. Len(g.heap[i].succ) \in Nat
    BY <1>1, WellParts, LenProperties
  <2> QED
    BY <2>1
<1>3. 1 \in Nat \ {0}
  OBVIOUS
<1> QED
  BY <1>1, <1>2, <1>3, EdgeCountIn

(* Promotion moves neither entries nor exits, nor what a procedure is        *)
(* entered at; a block that can move, does.                                 *)
LEMMA PromotedKeeps ==
  ASSUME NEW X, NEW g, Well(g, X), NEW b \in Movers(g), NEW proc
  PROVE  /\ Promoted(g, b, proc) \in Seq(Movable(g, proc))
         /\ b \in Movable(g, proc) => Contains(Promoted(g, b, proc), b)
<1>1. PICK n, q : n = EdgeCount(g) /\ q = [i \in 1 .. n |-> i]
  OBVIOUS
<1>2. n \in Nat /\ DOMAIN q = 1 .. n /\ n # 0
  BY <1>1, EdgeCountIsNat
<1>3. PICK P : P = [S \in SUBSET (1 .. n) |->
                      IF S = {} THEN {[stack |-> <<b>>, moved |-> <<>>]} ELSE Begun(g, b, proc)]
  OBVIOUS
<1>4. /\ [stack |-> <<b>>, moved |-> <<>>] \in P[{}]
      /\ [stack |-> <<b>>, moved |-> <<>>] \in Searches(g, proc)
  <2>1. b \in Ends(g)
    BY DEF Movers, Inner, Ends
  <2>2. <<b>> \in Seq(Ends(g))
    BY <2>1
  <2>3. <<>> \in Seq(Movable(g, proc))
    OBVIOUS
  <2> QED
    BY <1>3, <2>2, <2>3 DEF Searches
<1>5. \A S \in SUBSET (1 .. n) : \A i \in S : \A s \in P[S \ {i}] :
         VisitStep(g, proc, s) \in P[S]
  <2> SUFFICES ASSUME NEW S \in SUBSET (1 .. n), NEW i \in S, NEW s \in P[S \ {i}]
               PROVE  VisitStep(g, proc, s) \in P[S]
    OBVIOUS
  <2>1. P[S] = Begun(g, b, proc) /\ S \ {i} \in SUBSET (1 .. n)
    BY <1>3
  <2>2. s = [stack |-> <<b>>, moved |-> <<>>] \/ s \in Begun(g, b, proc)
    BY <1>3, <2>1
  <2>3. CASE s = [stack |-> <<b>>, moved |-> <<>>]
    <3>1. s \in Searches(g, proc) /\ s.stack = <<b>>
      BY <1>4, <2>3
    <3> QED
      BY <2>1, <3>1, VisitStepKeeps DEF Begun
  <2>4. CASE s \in Begun(g, b, proc)
    <3>1. s \in Searches(g, proc) /\ (b \in Movable(g, proc) => Contains(s.moved, b))
      BY <2>4 DEF Begun
    <3> QED
      BY <2>1, <3>1, VisitStepKeeps DEF Begun
  <2> QED
    BY <2>2, <2>3, <2>4
<1>6. Visits(g, b, proc, q) \in P[1 .. n]
  BY <1>2, <1>4, <1>5, VisitsFolded
<1>7. Visits(g, b, proc, q) \in Begun(g, b, proc)
  <2>1. 1 \in 1 .. n
    BY <1>2
  <2> QED
    BY <1>3, <1>6, <2>1
<1>8. Promoted(g, b, proc) = Visits(g, b, proc, q).moved
  BY <1>1, PromotionParts
<1> QED
  BY <1>7, <1>8 DEF Searches, Begun

(* The procedure of one block is set.                                      *)
WithProc(g, b, proc) == [g EXCEPT !.heap[b].proc = proc]

(* WithProc changes the procedure of one block and nothing else.           *)
LEMMA ProcPut ==
  ASSUME NEW g \in Graphs, NEW b \in DOMAIN g.heap, NEW proc \in Addresses, NEW h
  PROVE  h = WithProc(g, b, proc) =>
         /\ h \in Graphs
         /\ h.procs = g.procs
         /\ DOMAIN h.heap = DOMAIN g.heap
         /\ \A c \in DOMAIN g.heap :
               /\ h.heap[c].role = g.heap[c].role
               /\ h.heap[c].addr = g.heap[c].addr
               /\ h.heap[c].proc = IF c = b THEN proc ELSE g.heap[c].proc
               /\ h.heap[c].stms = g.heap[c].stms
               /\ h.heap[c].succ = g.heap[c].succ
               /\ h.heap[c].pred = g.heap[c].pred
<1>h. HAVE h = WithProc(g, b, proc)
<1> USE <1>h
<1>1. PICK x : x = g.heap[b] /\ x \in BlockSet
  BY GraphParts
<1>2. PICK y : y = [role |-> x.role, proc |-> proc, addr |-> x.addr,
                    stms |-> x.stms, succ |-> x.succ, pred |-> x.pred]
  OBVIOUS
<1>3. y \in BlockSet
  BY <1>1, <1>2, BlockParts DEF BlockSet
<1>4. [x EXCEPT !.proc = proc] = y
  <2> HIDE <1>h
  <2> QED
    BY <1>1, <1>2, SMTT(30) DEF BlockSet
<1>5. h = [heap |-> [g.heap EXCEPT ![b] = y], procs |-> g.procs]
  BY <1>1, <1>4 DEF Graphs, WithProc
<1>6. /\ h \in Graphs
      /\ h.procs = g.procs
      /\ DOMAIN h.heap = DOMAIN g.heap
      /\ \A c \in DOMAIN g.heap : h.heap[c] = IF c = b THEN y ELSE g.heap[c]
  <2> HIDE <1>h
  <2> QED
    BY <1>3, <1>5, BlockPut
<1> QED
  BY <1>1, <1>2, <1>6

(* MoveBlock, as two lists and a field that change.                        *)
LEMMA MoveBlockParts ==
  ASSUME NEW g, NEW b, NEW proc, NEW old, old = g.heap[b].proc,
         NEW B, B = g.procs[old].blocks \ {b}, NEW C, C = g.procs[proc].blocks \cup {b},
         NEW k, k = WithBlocks(g, old, B), NEW m, m = WithBlocks(k, proc, C)
  PROVE  MoveBlock(g, b, proc) = WithProc(m, b, proc)
BY Zenon DEF WithBlocks, MoveBlock, WithProc

(* A block that moves is taken from one list and put on the other.          *)
LEMMA MoveBlockKeeps ==
  ASSUME NEW X, NEW g, Well(g, X), NEW b \in Movers(g),
         NEW proc \in DOMAIN g.procs, Entered(g, proc), NEW h
  PROVE  h = MoveBlock(g, b, proc) =>
         /\ Well(h, X) /\ Grows(g, h) /\ Lists(g, h)
         /\ DOMAIN h.heap = DOMAIN g.heap
         /\ \A c \in DOMAIN g.heap : h.heap[c].proc = IF c = b THEN proc ELSE g.heap[c].proc
         /\ Listed(h, b)
<1>h. HAVE h = MoveBlock(g, b, proc)
<1> USE <1>h
<1>1. PICK old, B, C, k, m :
         /\ old = g.heap[b].proc
         /\ B = g.procs[old].blocks \ {b}
         /\ C = g.procs[proc].blocks \cup {b}
         /\ k = WithBlocks(g, old, B)
         /\ m = WithBlocks(k, proc, C)
  OBVIOUS
<1>2. h = WithProc(m, b, proc)
  <2>1. MoveBlock(g, b, proc) = WithProc(m, b, proc)
    <3> HIDE <1>h
    <3> QED
      BY <1>1, MoveBlockParts
  <2> QED
    BY <2>1
<1> HIDE <1>h
<1>3. /\ b \in DOMAIN g.heap /\ g.heap[b].role \in Inner
      /\ g \in Graphs /\ b \in Nat /\ old \in DOMAIN g.procs
      /\ proc \in Addresses
  <2>1. DOMAIN g.procs \subseteq Addresses
    BY GraphParts, SMTT(30) DEF Well
  <2> QED
    BY <1>1, <2>1, WellParts DEF Movers
<1>4. B \in SUBSET Nat /\ C \in SUBSET Nat
  <2>1. g.procs[old] \in ProcSet /\ g.procs[proc] \in ProcSet
    BY <1>3, GraphParts, SMTT(30)
  <2> QED
    BY <1>1, <1>3, <2>1 DEF ProcSet
<1>5. k \in Graphs /\ ListChanged(g, k, old, B)
  BY <1>1, <1>3, <1>4, ListChangedIs, SMTT(30)
<1>6. m \in Graphs /\ ListChanged(k, m, proc, C)
  <2>1. proc \in DOMAIN k.procs
    BY <1>5 DEF ListChanged
  <2> QED
    BY <1>1, <1>4, <1>5, <2>1, ListChangedIs, Zenon
<1>7. m.heap = g.heap
  BY <1>5, <1>6 DEF ListChanged
<1>8. /\ h \in Graphs
      /\ h.procs = m.procs
      /\ DOMAIN h.heap = DOMAIN g.heap
      /\ \A c \in DOMAIN g.heap :
            /\ h.heap[c].role = g.heap[c].role
            /\ h.heap[c].addr = g.heap[c].addr
            /\ h.heap[c].proc = IF c = b THEN proc ELSE g.heap[c].proc
            /\ h.heap[c].stms = g.heap[c].stms
            /\ h.heap[c].succ = g.heap[c].succ
            /\ h.heap[c].pred = g.heap[c].pred
  BY <1>2, <1>3, <1>6, <1>7, ProcPut
<1>9. /\ DOMAIN h.procs = DOMAIN g.procs
      /\ \A q \in DOMAIN g.procs :
            /\ h.procs[q].entry = g.procs[q].entry
            /\ h.procs[q].exit = g.procs[q].exit
            /\ h.procs[q].blocks = IF q = proc THEN C
                                   ELSE IF q = old THEN B ELSE g.procs[q].blocks
  BY <1>5, <1>6, <1>8 DEF ListChanged
<1>10. \A q \in DOMAIN g.procs : g.procs[q].entry \in DOMAIN g.heap
  BY DEF Well, ProcsFit
<1>11. \A q \in DOMAIN g.procs : Entered(h, q) = Entered(g, q) /\ First(h, q) = First(g, q)
  BY <1>8, <1>9, <1>10 DEF Entered, First
<1>12. Grows(g, h)
  <2>1. ToldStays(g, h)
    BY <1>8, ToldAsBefore
  <2> QED
    BY <1>8, <1>9, <1>11, <2>1 DEF Grows, ToldStays
<1>17. EntriesFit(h, X)
  BY <1>8, EntriesAsBefore
<1>18. Shut(g, h)
  BY <1>9, <1>11 DEF Shut
<1>13. Lists(g, h)
  <2> SUFFICES ASSUME NEW c \in DOMAIN g.heap, Listed(g, c)
               PROVE  Listed(h, c)
    BY <1>8, <1>18, SMTT(30) DEF Lists
  <2>1. CASE c = b
    BY <1>1, <1>3, <1>8, <1>9, <2>1, ZenonT(30) DEF Listed
  <2>2. CASE c # b
    <3>1. g.heap[c].proc \in DOMAIN g.procs /\ h.heap[c].proc = g.heap[c].proc
      BY <1>8, <2>2, WellParts
    <3> QED
      BY <1>1, <1>9, <2>2, <3>1 DEF Listed
  <2> QED
    BY <2>1, <2>2
<1>14. BlocksFit(h)
  <2>1. Ends(h) = Ends(g) /\ Starts(h) = Starts(g)
    BY <1>8 DEF Ends, Starts
  <2>2. ASSUME NEW c \in DOMAIN h.heap
        PROVE  /\ h.heap[c].proc \in DOMAIN h.procs
               /\ h.heap[c].role = "entry" => c = h.procs[h.heap[c].proc].entry
               /\ h.heap[c].role = "exit"  => c = h.procs[h.heap[c].proc].exit
               /\ h.heap[c].succ \in Seq(Ends(h))
               /\ h.heap[c].pred \in Seq(Starts(h))
    <3>1. /\ g.heap[c].proc \in DOMAIN g.procs
          /\ g.heap[c].role = "entry" => c = g.procs[g.heap[c].proc].entry
          /\ g.heap[c].role = "exit"  => c = g.procs[g.heap[c].proc].exit
          /\ g.heap[c].succ \in Seq(Ends(g))
          /\ g.heap[c].pred \in Seq(Starts(g))
      BY <1>8, <2>2 DEF Well, BlocksFit
    <3> QED
      BY <1>3, <1>8, <1>9, <2>1, <3>1, SMTT(30) DEF Inner
  <2> QED
    BY <2>2 DEF BlocksFit
<1>15. ProcsFit(h)
  <2> SUFFICES ASSUME NEW q \in DOMAIN h.procs
               PROVE  /\ h.procs[q].entry \in DOMAIN h.heap
                      /\ h.heap[h.procs[q].entry].role = "entry"
                      /\ h.heap[h.procs[q].entry].proc = q
                      /\ h.procs[q].exit \in DOMAIN h.heap
                      /\ h.heap[h.procs[q].exit].role = "exit"
                      /\ h.heap[h.procs[q].exit].proc = q
                      /\ \A c \in h.procs[q].blocks :
                            c \in DOMAIN h.heap /\ h.heap[c].proc = q
    BY DEF ProcsFit
  <2>1. /\ g.procs[q].entry \in DOMAIN g.heap
        /\ g.heap[g.procs[q].entry].role = "entry"
        /\ g.heap[g.procs[q].entry].proc = q
        /\ g.procs[q].exit \in DOMAIN g.heap
        /\ g.heap[g.procs[q].exit].role = "exit"
        /\ g.heap[g.procs[q].exit].proc = q
        /\ \A c \in g.procs[q].blocks : c \in DOMAIN g.heap /\ g.heap[c].proc = q
    BY <1>9 DEF Well, ProcsFit
  <2>2. ASSUME NEW c \in h.procs[q].blocks
        PROVE  c \in DOMAIN h.heap /\ h.heap[c].proc = q
    <3>1. CASE c = b
      <4>1. q = proc
        BY <1>1, <1>9, <2>1, <2>2, <3>1
      <4> QED
        BY <1>3, <1>8, <3>1, <4>1, Zenon
    <3>2. CASE c # b
      <4>1. c \in g.procs[q].blocks
        BY <1>1, <1>9, <2>2, <3>2
      <4> QED
        BY <1>8, <2>1, <3>2, <4>1, SMTT(30)
    <3> QED
      BY <3>1, <3>2
  <2> QED
    BY <1>3, <1>8, <1>9, <2>1, <2>2 DEF Inner
<1>16. EnteredFit(h, X)
  <2> SUFFICES ASSUME NEW c \in DOMAIN h.heap, h.heap[c].role \in Inner
               PROVE  h.heap[c].proc \in X.procs \/ Entered(h, h.heap[c].proc)
    BY DEF EnteredFit
  <2>1. g.heap[c].proc \in X.procs \/ Entered(g, g.heap[c].proc)
    BY <1>8 DEF Well, EnteredFit
  <2>2. g.heap[c].proc \in DOMAIN g.procs
    BY <1>8, WellParts
  <2> QED
    BY <1>8, <1>11, <2>1, <2>2
<1>19. Listed(h, b)
  BY <1>1, <1>3, <1>8, <1>9, ZenonT(30) DEF Listed
<1> QED
  BY <1>8, <1>12, <1>13, <1>14, <1>15, <1>16, <1>17, <1>19 DEF Well

(* Edges start in blocks that are entered, and still do in a later graph.   *)
LEMMA StartsEntered ==
  ASSUME NEW X, NEW g, Well(g, X), NEW b \in Starts(g)
  PROVE  /\ b \in DOMAIN g.heap /\ g.heap[b].role # "exit"
         /\ g.heap[b].proc \in DOMAIN g.procs
         /\ g.heap[b].proc \in X.procs \/ Entered(g, g.heap[b].proc)
<1>1. /\ b \in DOMAIN g.heap /\ g.heap[b].role # "exit"
      /\ g.heap[b].role = "entry" => g.heap[b].succ # <<>>
  BY DEF Starts
<1>2. g.heap[b].proc \in DOMAIN g.procs /\ g.heap[b].role \in Roles
  BY <1>1, WellParts
<1>3. CASE g.heap[b].role = "entry"
  BY <1>1, <1>2, <1>3 DEF Well, BlocksFit, Entered
<1>4. CASE g.heap[b].role \in Inner
  BY <1>1, <1>2, <1>4 DEF Well, EnteredFit
<1> QED
  BY <1>1, <1>2, <1>3, <1>4 DEF Roles, Inner

(* Where the procedures of the blocks stay, so do the ends an edge may     *)
(* come from.                                                              *)
LEMMA StartsStay ==
  ASSUME NEW X, NEW g, Well(g, X), NEW h, Grows(g, h),
         \A b \in DOMAIN g.heap : h.heap[b].proc = g.heap[b].proc
  PROVE  Starts(g) \subseteq Starts(h)
<1> SUFFICES ASSUME NEW b \in Starts(g)
             PROVE  b \in Starts(h)
  OBVIOUS
<1>1. /\ b \in DOMAIN g.heap /\ g.heap[b].role # "exit"
      /\ g.heap[b].role = "entry" => g.heap[b].succ # <<>>
  BY DEF Starts
<1>2. b \in DOMAIN h.heap /\ h.heap[b].role = g.heap[b].role
  BY <1>1 DEF Grows
<1>3. CASE g.heap[b].role = "entry"
  <2>1. PICK p : p = g.heap[b].proc /\ p \in DOMAIN g.procs /\ b = g.procs[p].entry
    BY <1>1, <1>3, SMTT(30) DEF Well, BlocksFit
  <2>2. Entered(g, p) /\ h.procs[p].entry = b
    BY <1>1, <1>3, <2>1, ZenonT(30) DEF Entered, Grows
  <2>3. Entered(h, p)
    BY <2>1, <2>2, Zenon DEF Grows
  <2> QED
    BY <1>1, <1>2, <2>2, <2>3 DEF Entered, Starts
<1> QED
  BY <1>1, <1>2, <1>3 DEF Starts

(* Where successors stay the same, edges start where they did.              *)
LEMMA SameStarts ==
  ASSUME NEW g, NEW h, SameNodes(g, h),
         \A c \in DOMAIN g.heap : h.heap[c].succ = g.heap[c].succ
  PROVE  Starts(h) = Starts(g)
BY DEF SameNodes, Starts

(* Integers are closed under sum and difference.                           *)
LEMMA Difference ==
  ASSUME NEW x \in Int, NEW y \in Int, NEW z \in Int, NEW d, d = x + y - z
  PROVE  d \in Int
OBVIOUS

(* The address of a block's last instruction is a number.                  *)
LEMMA LastAddressIsInt ==
  ASSUME NEW X, NEW g, Well(g, X), NEW b \in DOMAIN g.heap
  PROVE  LastAddress(g, b) \in Int
<1>1. PICK s, a : s = g.heap[b].stms /\ a = g.heap[b].addr /\ s \in Seq(StmSet) /\ a \in Int
  BY WellParts
<1>2. CASE s = <<>>
  BY <1>1, <1>2 DEF LastAddress, Stms, None
<1>3. CASE s # <<>>
  <2>1. 1 \in DOMAIN s /\ Len(s) \in DOMAIN s
    BY <1>1, <1>3, SeqParts
  <2>2. s[1] \in StmSet /\ s[Len(s)] \in StmSet
    BY <1>1, <2>1, SeqParts
  <2>3. s[1].addr \in Int /\ s[Len(s)].addr \in Int
    BY <2>2 DEF StmSet
  <2>4. LastAddress(g, b) = a + s[Len(s)].addr - s[1].addr
    BY <1>1, <1>3 DEF LastAddress, Stms, Last, Head
  <2> QED
    BY <1>1, <2>3, <2>4, Difference
<1> QED
  BY <1>2, <1>3

(* Two sequences with one domain have one length.                          *)
LEMMA SameBounds ==
  ASSUME NEW m \in Nat, NEW n \in Nat, 1 .. m = 1 .. n
  PROVE  m = n
<1>1. m <= n
  <2>1. CASE m = 0
    BY <2>1
  <2>2. CASE m # 0
    <3>1. m \in 1 .. m
      BY <2>2
    <3> QED
      BY <3>1
  <2> QED
    BY <2>1, <2>2
<1>2. n <= m
  <2>1. CASE n = 0
    BY <2>1
  <2>2. CASE n # 0
    <3>1. n \in 1 .. n
      BY <2>2
    <3> QED
      BY <3>1
  <2> QED
    BY <2>1, <2>2
<1> QED
  BY <1>1, <1>2

(* One element is replaced.                                                *)
PutAt(s, i, e) == [s EXCEPT ![i] = e]

(* Replacing one element keeps the length of a sequence.                   *)
LEMMA PutAtParts ==
  ASSUME NEW S, NEW s \in Seq(S), NEW i \in DOMAIN s, NEW e \in S
  PROVE  PutAt(s, i, e) \in Seq(S) /\ PutAt(s, i, e) # <<>> /\ Len(PutAt(s, i, e)) = Len(s)
<1>1. PICK t : t = PutAt(s, i, e)
  OBVIOUS
<1>2. t \in Seq(S) /\ t # <<>> /\ DOMAIN t = DOMAIN s
  BY <1>1, ExceptParts DEF PutAt
<1>3. /\ DOMAIN t = 1 .. Len(t) /\ DOMAIN s = 1 .. Len(s)
      /\ Len(t) \in Nat /\ Len(s) \in Nat
  BY <1>2, SeqParts, SMTT(30)
<1>4. Len(t) = Len(s)
  <2>1. 1 .. Len(t) = 1 .. Len(s)
    BY <1>2, <1>3, ZenonT(30)
  <2> QED
    BY <1>3, <2>1, SameBounds, ZenonT(30)
<1> QED
  BY <1>1, <1>2, <1>4

(* An edge to an exit is turned to the exit of the new procedure.           *)
ExitTurned(g, b, s, new, i) ==
    [g EXCEPT !.heap[s].pred = RemoveFirst(@, b),
              !.heap[new].pred = Append(@, b),
              !.heap[b].succ[i] = new]

(* A name for a list with one more element, as EdgePut takes it.           *)
Joined(s, e) == Append(s, e)

(* ExitTurned, as three lists that are replaced.                           *)
LEMMA ExitTurnedParts ==
  ASSUME NEW g, NEW b, NEW s, NEW new, NEW i,
         NEW P, P = RemoveFirst(g.heap[s].pred, b),
         NEW Q, Q = Joined(g.heap[new].pred, b),
         NEW k, k = WithPred(g, s, P), NEW m, m = WithPred(k, new, Q),
         NEW S, S = PutAt(m.heap[b].succ, i, new)
  PROVE  ExitTurned(g, b, s, new, i) = WithSucc(m, b, S)
BY DEF ExitTurned, WithPred, WithSucc, PutAt, Joined

(* Turning an edge from one exit to another leaves the graph sound.        *)
LEMMA ExitTurnedKeeps ==
  ASSUME NEW X, NEW g, Well(g, X), NEW b \in Movers(g), NEW i \in DOMAIN g.heap[b].succ,
         NEW s \in DOMAIN g.heap, NEW new \in Ends(g), s # new, NEW h
  PROVE  h = ExitTurned(g, b, s, new, i) =>
         Well(h, X) /\ Keeps(g, h) /\ Len(h.heap[b].succ) = Len(g.heap[b].succ)
<1>h. HAVE h = ExitTurned(g, b, s, new, i)
<1> USE <1>h
<1>1. PICK P, Q, k, m, S :
         /\ P = RemoveFirst(g.heap[s].pred, b)
         /\ Q = Joined(g.heap[new].pred, b)
         /\ k = WithPred(g, s, P)
         /\ m = WithPred(k, new, Q)
         /\ S = PutAt(m.heap[b].succ, i, new)
  OBVIOUS
<1>2. h = WithSucc(m, b, S)
  <2>1. ExitTurned(g, b, s, new, i) = WithSucc(m, b, S)
    <3> HIDE <1>h
    <3> QED
      BY <1>1, ExitTurnedParts
  <2> QED
    BY <2>1
<1> HIDE <1>h
<1>3. /\ b \in DOMAIN g.heap /\ b \in Starts(g) /\ new \in DOMAIN g.heap
  BY DEF Movers, Inner, Starts, Ends
<1>4. P \in Seq(Starts(g)) /\ Q \in Seq(Starts(g))
  <2>1. g.heap[s].pred \in Seq(Starts(g)) /\ g.heap[new].pred \in Seq(Starts(g))
    BY <1>3, WellParts
  <2>2. P \in Seq(Starts(g))
    BY <1>1, <2>1, RemoveFirstParts, SMTT(30)
  <2>3. Q \in Seq(Starts(g))
    BY <1>1, <1>3, <2>1, AppendParts, SMTT(30) DEF Joined
  <2> QED
    BY <2>2, <2>3
<1>e. \A e \in DOMAIN g.heap :
         g.heap[e].role = "entry" =>
            Fewer(g.heap[s].pred, P, e) /\ Fewer(g.heap[new].pred, Q, e)
  <2>1. /\ g.heap[s].pred \in Seq(Starts(g)) /\ g.heap[new].pred \in Seq(Starts(g))
        /\ g.heap[b].role # "entry"
    BY <1>3, WellParts DEF Movers, Inner
  <2>2. \A e : Fewer(g.heap[s].pred, P, e)
    BY <1>1, <2>1, RemoveFirstFewer
  <2>3. \A e : e # b => Fewer(g.heap[new].pred, Q, e)
    BY <1>1, <1>3, <2>1, AppendFewer DEF Joined
  <2> QED
    BY <2>1, <2>2, <2>3
<1>5. /\ Well(k, X) /\ Keeps(g, k) /\ SameNodes(g, k)
      /\ \A c \in DOMAIN g.heap : /\ k.heap[c].succ = g.heap[c].succ
                                  /\ c # s => k.heap[c].pred = g.heap[c].pred
  <2>1. k = WithPred(g, s, P) /\ P \in Seq(Starts(g))
    BY <1>1, <1>4
  <2>2. \A e \in DOMAIN g.heap : g.heap[e].role = "entry" => Fewer(g.heap[s].pred, P, e)
    BY <1>e
  <2> QED
    BY <2>1, <2>2, PredPut
<1>6. Starts(k) = Starts(g)
  BY <1>5, SameStarts
<1>7. /\ Well(m, X) /\ Keeps(k, m) /\ SameNodes(k, m)
      /\ \A c \in DOMAIN k.heap : m.heap[c].succ = k.heap[c].succ
  <2>1. new \in DOMAIN k.heap /\ Q \in Seq(Starts(k))
    BY <1>3, <1>4, <1>5, <1>6, SMTT(30) DEF SameNodes
  <2>2. m = WithPred(k, new, Q) /\ Well(k, X)
    BY <1>1, <1>5
  <2>3. \A e \in DOMAIN k.heap :
           k.heap[e].role = "entry" => Fewer(k.heap[new].pred, Q, e)
    BY <1>3, <1>5, <1>e DEF SameNodes
  <2> QED
    BY <2>1, <2>2, <2>3, PredPut
<1>8. /\ b \in DOMAIN m.heap /\ m.heap[b].succ = g.heap[b].succ
      /\ Ends(m) = Ends(g)
  BY <1>3, <1>5, <1>7 DEF SameNodes, Ends
<1>9. /\ S \in Seq(Ends(m)) /\ S # <<>> /\ Len(S) = Len(g.heap[b].succ)
  <2>1. g.heap[b].succ \in Seq(Ends(g))
    BY <1>3, WellParts
  <2>2. S = PutAt(g.heap[b].succ, i, new)
    BY <1>1, <1>8
  <2> QED
    BY <1>8, <2>1, <2>2, PutAtParts
<1>10. /\ Well(h, X) /\ Keeps(m, h) /\ SameNodes(m, h)
       /\ \A c \in DOMAIN m.heap : h.heap[c].succ = IF c = b THEN S ELSE m.heap[c].succ
  <2>1. m.heap[b].role # "entry"
    BY <1>3, <1>5, <1>7 DEF SameNodes, Movers, Inner
  <2> QED
    BY <1>2, <1>7, <1>8, <1>9, <2>1, SuccPut
<1>11. Keeps(g, h)
  <2>1. Keeps(g, m)
    BY <1>5, <1>7, KeepsOn
  <2> QED
    BY <1>10, <2>1, KeepsOn
<1> QED
  BY <1>8, <1>9, <1>10, <1>11

(* The graphs of a fold over the edges of a block.                          *)
Fixing(g, X, b, n) ==
    {h \in Graphs : Well(h, X) /\ Keeps(g, h) /\ Len(h.heap[b].succ) = n}

(* What a step of the loops of PromoteBlock may rely on, and what it must  *)
(* show of its own result.                                                 *)
LEMMA FixingStep ==
  ASSUME NEW X, NEW g, Well(g, X), NEW b \in Movers(g), NEW n,
         NEW h \in Fixing(g, X, b, n)
  PROVE  /\ Well(h, X) /\ Keeps(g, h) /\ b \in Movers(h) /\ n \in Nat
         /\ DOMAIN h.heap[b].succ = 1 .. n
         /\ \A k : Well(k, X) /\ Keeps(h, k) /\ Len(k.heap[b].succ) = n
                   => k \in Fixing(g, X, b, n)
<1>1. Well(h, X) /\ Keeps(g, h) /\ Len(h.heap[b].succ) = n
  BY DEF Fixing
<1>2. b \in Movers(h)
  BY <1>1 DEF Movers, Keeps, Grows
<1>3. DOMAIN h.heap[b].succ = 1 .. n /\ n \in Nat
  <2>1. h.heap[b].succ \in Seq(Ends(h))
    BY <1>1, <1>2, WellParts DEF Movers
  <2> QED
    BY <1>1, <2>1, SeqParts
<1>4. \A k : Well(k, X) /\ Keeps(h, k) => Keeps(g, k) /\ k \in Graphs
  BY <1>1, KeepsOn DEF Well
<1> QED
  BY <1>1, <1>2, <1>3, <1>4 DEF Fixing

(* The loops of PromoteBlock start from the graph itself.                  *)
LEMMA FixingItself ==
  ASSUME NEW X, NEW g, Well(g, X), NEW b \in Movers(g), NEW n, n = Len(g.heap[b].succ)
  PROVE  n \in Nat /\ g \in Fixing(g, X, b, n)
<1>1. g \in Fixing(g, X, b, n)
  BY GrowsReflexive DEF Fixing, Well
<1>2. n \in Nat
  BY <1>1, FixingStep
<1> QED
  BY <1>1, <1>2

(* FixExitEdges *)
LEMMA ExitFixedKeeps ==
  ASSUME NEW X, NEW g, Well(g, X), NEW b \in Movers(g), NEW n,
         NEW h \in Fixing(g, X, b, n), NEW old \in SUBSET DOMAIN g.heap,
         NEW new \in Ends(g), new \notin old, NEW i \in 1 .. n
  PROVE  ExitFixed(h, b, old, new, i) \in Fixing(g, X, b, n)
<1>1. /\ Well(h, X) /\ Keeps(g, h) /\ b \in Movers(h)
      /\ DOMAIN h.heap[b].succ = 1 .. n
      /\ \A k : Well(k, X) /\ Keeps(h, k) /\ Len(k.heap[b].succ) = n
                => k \in Fixing(g, X, b, n)
  BY FixingStep
<1>2. PICK s, k : s = h.heap[b].succ[i] /\ k = ExitTurned(h, b, s, new, i)
  OBVIOUS
<1>3. CASE s \in old
  <2>1. ExitFixed(h, b, old, new, i) = k
    BY <1>2, <1>3, Zenon DEF ExitFixed, ExitTurned
  <2>2. s \in DOMAIN h.heap /\ new \in Ends(h) /\ s # new
    BY <1>1, <1>3 DEF Keeps, Grows, Ends
  <2>3. Len(h.heap[b].succ) = n
    BY DEF Fixing
  <2>4. i \in DOMAIN h.heap[b].succ
    BY <1>1
  <2>5. Well(h, X) /\ b \in Movers(h) /\ k = ExitTurned(h, b, s, new, i)
    BY <1>1, <1>2
  <2>6. Well(k, X) /\ Keeps(h, k) /\ Len(k.heap[b].succ) = Len(h.heap[b].succ)
    <3> HIDE <1>3
    <3> QED
      BY <2>2, <2>4, <2>5, ExitTurnedKeeps
  <2> QED
    BY <1>1, <2>1, <2>3, <2>6
<1>4. CASE s \notin old
  <2>1. ExitFixed(h, b, old, new, i) = h
    BY <1>2, <1>4, Zenon DEF ExitFixed
  <2> QED
    BY <2>1
<1> QED
  BY <1>3, <1>4

(* FixExitEdges, for every successor in turn, leaves the graph sound.      *)
LEMMA FixExitEdgesKeeps ==
  ASSUME NEW X, NEW g, Well(g, X), NEW b \in Movers(g), NEW proc \in DOMAIN g.procs,
         NEW h
  PROVE  h = FixExitEdges(g, b, proc) => Well(h, X) /\ Keeps(g, h)
<1>h. HAVE h = FixExitEdges(g, b, proc)
<1> USE <1>h
<1>1. PICK n, q, old, new :
         /\ n = Len(g.heap[b].succ)
         /\ q = [i \in 1 .. n |-> i]
         /\ old = {x \in {ProcOf(g, x).exit : x \in DOMAIN g.heap}
                             \cap ToSet(g.heap[b].succ) : g.heap[x].proc # proc}
         /\ new = g.procs[proc].exit
  OBVIOUS
<1>2. h = ExitsFixed(g, b, old, new, q)
  BY <1>1, PromotionParts, Zenon
<1> HIDE <1>h
<1>3. n \in Nat /\ g \in Fixing(g, X, b, n) /\ DOMAIN q = 1 .. n
  BY <1>1, FixingItself
<1>4. new \in Ends(g) /\ new \notin old
  BY <1>1 DEF Well, ProcsFit, Ends
<1>5. old \in SUBSET DOMAIN g.heap
  <2>1. \A x \in DOMAIN g.heap : ProcOf(g, x).exit \in DOMAIN g.heap
    BY DEF Well, BlocksFit, ProcsFit, ProcOf
  <2> QED
    BY <1>1, <2>1
<1>6. \A k \in Fixing(g, X, b, n) : \A i \in 1 .. n :
         ExitFixed(k, b, old, new, q[i]) \in Fixing(g, X, b, n)
  <2> SUFFICES ASSUME NEW k \in Fixing(g, X, b, n), NEW i \in 1 .. n
               PROVE  ExitFixed(k, b, old, new, q[i]) \in Fixing(g, X, b, n)
    OBVIOUS
  <2>1. q[i] = i
    BY <1>1
  <2>2. ExitFixed(k, b, old, new, i) \in Fixing(g, X, b, n)
    BY <1>4, <1>5, ExitFixedKeeps
  <2> QED
    BY <2>1, <2>2
<1>7. ExitsFixed(g, b, old, new, q) \in Fixing(g, X, b, n)
  BY <1>3, <1>6, ExitsFixedIn
<1> QED
  BY <1>2, <1>7 DEF Fixing

(* FixInboundEdges *)
LEMMA FixInboundKeeps ==
  ASSUME NEW X, NEW g, Well(g, X), NEW b \in Movers(g), b \in X.blocks,
         NEW proc \in Addresses, NEW from \in Starts(g), Contains(g.heap[b].pred, from),
         g.heap[from].role = "entry" => g.heap[from].stms = <<>>, NEW h
  PROVE  h = FixInbound(g, b, proc, from) =>
         /\ Well(h, X) /\ Keeps(g, h)
         /\ h.heap[b].pred = g.heap[b].pred
         /\ \A c \in DOMAIN g.heap : c # from => h.heap[c].stms = g.heap[c].stms
<1>h. HAVE h = FixInbound(g, b, proc, from)
<1> USE <1>h
<1>1. PICK a, p, k, t :
         /\ a = LastAddress(g, from)
         /\ p = g.heap[from].proc
         /\ k = CallRetThunk(g, a, p, proc)
         /\ t = Newest(g) + 1
  OBVIOUS
<1>2. /\ from \in DOMAIN g.heap /\ g.heap[from].role # "exit"
      /\ p \in DOMAIN g.procs
      /\ p \in X.procs \/ Entered(g, p)
  BY <1>1, StartsEntered
<1>b. b \in DOMAIN g.heap /\ b \in Ends(g) /\ g.heap[b].role # "exit" /\ g.heap[b].role \in Inner
  BY DEF Movers, Inner, Ends
<1>3. proc \in Addresses \cup {None}
  OBVIOUS
<1>4. CASE Stms(g, from) # <<>>
  <2>1. PICK s, m, e : /\ s = ReplaceAll(k.heap[from].succ, b, t)
                       /\ m = WithSucc(k, from, s)
                       /\ e = Joined(k.heap[t].pred, from)
    OBVIOUS
  <2>2. h = WithPred(m, t, e)
    <3>1. h = Redirect(k, from, b, t)
      BY <1>1, <1>4, Zenon DEF FixInbound
    <3> HIDE <1>h, <1>4
    <3>2. Redirect(k, from, b, t) = WithPred(m, t, e)
      BY <2>1 DEF Redirect, WithSucc, WithPred, Joined
    <3> QED
      BY <3>1, <3>2
  <2> HIDE <1>h
  <2>3. a \in Int
    BY <1>1, <1>2, LastAddressIsInt
  <2>4. Well(k, X) /\ Keeps(g, k) /\ ThunkAdded(g, k, p)
    <3>1. k = CallRetThunk(g, a, p, proc)
      BY <1>1
    <3> HIDE <1>4
    <3> QED
      BY <1>2, <1>3, <2>3, <3>1, ThunkKeeps
  <2>5. t = Newest(k) /\ t \in Ends(k) /\ t \in DOMAIN k.heap
    BY <1>1, <2>4 DEF ThunkAdded, Newest, Ends
  <2>6. from \in DOMAIN k.heap /\ from \in Starts(k)
    <3>1. Starts(g) \subseteq Starts(k)
      BY <2>4, StartsStay DEF Keeps, Stays
    <3> QED
      BY <3>1 DEF Starts
  <2>7. s \in Seq(Ends(k)) /\ k.heap[from].role # "entry"
    <3>1. k.heap[from].succ \in Seq(Ends(k))
      BY <2>4, <2>6, WellParts
    <3>2. k.heap[from].role = g.heap[from].role /\ g.heap[from].role # "entry"
      BY <1>2, <1>4, <2>4 DEF Keeps, Grows, Stms
    <3> QED
      BY <2>1, <2>5, <3>1, <3>2, ReplaceAllParts
  <2>8. /\ Well(m, X) /\ Keeps(k, m) /\ SameNodes(k, m)
        /\ \A c \in DOMAIN k.heap : /\ m.heap[c].pred = k.heap[c].pred
                                    /\ m.heap[c].stms = k.heap[c].stms
    <3>1. Well(k, X) /\ m = WithSucc(k, from, s)
      BY <2>1, <2>4
    <3> HIDE <1>4
    <3> QED
      BY <2>6, <2>7, <3>1, SuccPut
  <2>9. t \in DOMAIN m.heap /\ e \in Seq(Starts(m))
    <3>1. Starts(k) \subseteq Starts(m)
      BY <2>4, <2>8, StartsStay DEF Keeps, Stays
    <3>2. t \in DOMAIN m.heap
      BY <2>5, <2>8 DEF SameNodes
    <3>3. k.heap[t].pred \in Seq(Starts(m)) /\ from \in Starts(m)
      <4>1. m.heap[t].pred \in Seq(Starts(m))
        BY <2>8, <3>2, WellParts
      <4> QED
        BY <2>5, <2>6, <2>8, <3>1, <4>1
    <3> QED
      BY <2>1, <3>2, <3>3, AppendParts DEF Joined
  <2>10. /\ Well(h, X) /\ Keeps(m, h)
         /\ \A c \in DOMAIN m.heap : /\ c # t => h.heap[c].pred = m.heap[c].pred
                                     /\ h.heap[c].stms = m.heap[c].stms
    <3>1. Well(m, X)
      BY <2>8
    <3>2. \A d \in DOMAIN m.heap :
             m.heap[d].role = "entry" => Fewer(m.heap[t].pred, e, d)
      <4>1. m.heap[from].role # "entry" /\ k.heap[t].pred \in Seq(Nat) /\ from \in Nat
        BY <2>4, <2>5, <2>6, <2>7, <2>8, WellParts DEF SameNodes
      <4>2. \A d : d # from => Fewer(k.heap[t].pred, e, d)
        BY <2>1, <4>1, AppendFewer DEF Joined
      <4> QED
        BY <2>5, <2>8, <4>1, <4>2
    <3> HIDE <1>4
    <3> QED
      BY <2>2, <2>9, <3>1, <3>2, PredPut
  <2>11. Keeps(g, m)
    BY <2>4, <2>8, KeepsOn
  <2>12. Keeps(g, h)
    BY <2>10, <2>11, KeepsOn
  <2>13. ASSUME NEW c \in DOMAIN g.heap
         PROVE  /\ h.heap[c].stms = g.heap[c].stms
                /\ g.heap[c].role # "exit" => h.heap[c].pred = g.heap[c].pred
    <3>1. c \in DOMAIN k.heap /\ c # t
      BY <2>4, <2>5 DEF ThunkAdded
    <3>2. c \in DOMAIN m.heap
      BY <2>8, <3>1 DEF SameNodes
    <3>3. /\ k.heap[c].stms = g.heap[c].stms
          /\ g.heap[c].role # "exit" => k.heap[c].pred = g.heap[c].pred
      BY <2>4, <2>5, <3>1 DEF ThunkAdded, Apart
    <3> QED
      BY <2>8, <2>10, <3>1, <3>2, <3>3
  <2> QED
    BY <1>b, <2>10, <2>12, <2>13
<1>5. CASE Stms(g, from) = <<>>
  <2>1. h = CallAndReturn(g, from, g.heap[from].addr, proc)
    BY <1>5, Zenon DEF FixInbound
  <2> HIDE <1>h
  <2>2. g.heap[from].addr \in Int
    BY <1>2, WellParts
  <2>3. MayTell(g, X, from)
    <3>1. g.heap[from].role = "entry" => g.heap[from].succ # <<>>
      BY DEF Starts
    <3>2. \A c \in DOMAIN g.heap :
             g.heap[from].role = "entry" /\ g.heap[c].role \in Inner
                /\ Contains(g.heap[c].pred, from) => g.heap[from].succ[1] = c
      BY <1>2 DEF Well, EntriesFit
    <3>3. g.heap[from].role = "entry" => g.heap[from].succ[1] = b
      BY <1>b, <3>2
    <3> QED
      BY <3>1, <3>2, <3>3 DEF MayTell
  <2> HIDE <1>5
  <2>4. Well(h, X) /\ Keeps(g, h) /\ Apart(g, h, from)
    BY <1>2, <1>3, <2>1, <2>2, <2>3, CallAndReturnKeeps
  <2> QED
    BY <1>b, <2>4 DEF Apart
<1> QED
  BY <1>4, <1>5

(* The graphs of the first loop of FixInboundEdges: of the predecessors q   *)
(* of b, those at S have been seen to.  An entry has no statement until it   *)
(* is, nor after that if it is the procedure's own.                         *)
CutOff(g, Y, b, proc, q, S) ==
    {k \in Graphs :
        /\ Well(k, Y) /\ Keeps(g, k) /\ k.heap[b].pred = q
        /\ \A i \in DOMAIN q :
              g.heap[q[i]].role = "entry" /\ (i \notin S \/ g.heap[q[i]].proc = proc)
                 => k.heap[q[i]].stms = <<>>}

(* The first loop seen to one more predecessor.                            *)
LEMMA CutOffOn ==
  ASSUME NEW Y, NEW g, Well(g, Y), NEW b \in Movers(g), b \in Y.blocks, NEW proc \in Addresses,
         NEW q, q = g.heap[b].pred,
         \A e \in DOMAIN g.heap : g.heap[e].role = "entry" => Once(q, e),
         NEW S \in SUBSET DOMAIN q, NEW i \in S, NEW k \in CutOff(g, Y, b, proc, q, S \ {i})
  PROVE  InboundFixed(g, k, b, proc, q[i]) \in CutOff(g, Y, b, proc, q, S)
<1>1. /\ Well(k, Y) /\ Keeps(g, k) /\ k.heap[b].pred = q /\ k \in Graphs
      /\ \A j \in DOMAIN q :
            g.heap[q[j]].role = "entry" /\ (j \notin S \ {i} \/ g.heap[q[j]].proc = proc)
               => k.heap[q[j]].stms = <<>>
  BY DEF CutOff
<1>2. CASE g.heap[q[i]].proc = proc
  <2>1. InboundFixed(g, k, b, proc, q[i]) = k
    BY <1>2 DEF InboundFixed
  <2> QED
    BY <1>1, <2>1 DEF CutOff
<1>3. CASE g.heap[q[i]].proc # proc
  <2>1. PICK p, l : p = q[i] /\ l = FixInbound(k, b, proc, p)
    OBVIOUS
  <2>2. InboundFixed(g, k, b, proc, q[i]) = l
    BY <1>3, <2>1 DEF InboundFixed
  <2>3. q \in Seq(Starts(g)) /\ DOMAIN q = 1 .. Len(q) /\ \A j \in DOMAIN q : q[j] \in Starts(g)
    <3>1. q \in Seq(Starts(g))
      BY WellParts DEF Movers
    <3> QED
      BY <3>1, SeqParts
  <2>4. /\ p \in Starts(g) /\ p \in DOMAIN g.heap /\ p \in Starts(k)
        /\ k.heap[p].role = g.heap[p].role
    <3>1. Starts(g) \subseteq Starts(k)
      BY <1>1, StartsStay DEF Keeps, Stays
    <3>2. p \in Starts(g) /\ p \in DOMAIN g.heap
      BY <2>1, <2>3 DEF Starts
    <3> QED
      BY <1>1, <3>1, <3>2 DEF Keeps, Grows
  <2>5. /\ b \in Movers(k) /\ Contains(k.heap[b].pred, p)
        /\ k.heap[p].role = "entry" => k.heap[p].stms = <<>>
    <3>1. b \in Movers(k)
      BY <1>1 DEF Movers, Keeps, Grows
    <3>2. Contains(q, p)
      BY <2>1, <2>3 DEF Contains
    <3>3. k.heap[p].role = "entry" => k.heap[p].stms = <<>>
      BY <1>1, <2>1, <2>4
    <3> QED
      BY <1>1, <3>1, <3>2, <3>3
  <2>6. /\ Well(l, Y) /\ Keeps(k, l)
        /\ l.heap[b].pred = k.heap[b].pred
        /\ \A c \in DOMAIN k.heap : c # p => l.heap[c].stms = k.heap[c].stms
    <3>1. Well(k, Y) /\ p \in Starts(k) /\ l = FixInbound(k, b, proc, p)
      BY <1>1, <2>1, <2>4
    <3> QED
      BY <2>5, <3>1, FixInboundKeeps
  <2>7. Keeps(g, l) /\ l \in Graphs
    BY <1>1, <2>6, KeepsOn DEF Well
  <2>8. ASSUME NEW j \in DOMAIN q, g.heap[q[j]].role = "entry",
               j \notin S \/ g.heap[q[j]].proc = proc
        PROVE  l.heap[q[j]].stms = <<>>
    <3>1. q[j] \in DOMAIN g.heap /\ q[j] \in DOMAIN k.heap
      BY <1>1, <2>3 DEF Starts, Keeps, Grows
    <3>2. q[j] # p
      <4>1. CASE g.heap[q[j]].proc = proc
        BY <1>3, <2>1, <4>1
      <4>2. CASE j \notin S
        <5>1. Once(q, q[j])
          BY <2>8, <3>1
        <5> QED
          BY <2>1, <4>2, <5>1 DEF Once
      <4> QED
        BY <2>8, <4>1, <4>2
    <3>3. k.heap[q[j]].stms = <<>>
      BY <1>1, <2>8
    <3> QED
      BY <2>6, <3>1, <3>2, <3>3
  <2>9. l \in CutOff(g, Y, b, proc, q, S)
    BY <1>1, <2>6, <2>7, <2>8 DEF CutOff
  <2> QED
    BY <2>2, <2>9
<1> QED
  BY <1>2, <1>3

(* The graphs of its second loop: foreign entries at S have gone from the    *)
(* predecessors of b.                                                      *)
TakenFrom(g, m, Y, b, proc, q, S) ==
    {k \in Graphs :
        /\ Well(k, Y) /\ Keeps(m, k)
        /\ \A e : Fewer(q, k.heap[b].pred, e)
        /\ \A i \in S : g.heap[q[i]].role = "entry" /\ g.heap[q[i]].proc # proc
                            => ~Contains(k.heap[b].pred, q[i])
        /\ \A c \in DOMAIN g.heap : k.heap[c].stms = m.heap[c].stms}

(* The second loop seen to one more predecessor.                           *)
LEMMA TakenOn ==
  ASSUME NEW Y, NEW g, NEW m, Well(g, Y), Keeps(g, m), NEW b \in Movers(g), NEW proc,
         NEW q, q = g.heap[b].pred,
         \A e \in DOMAIN g.heap : g.heap[e].role = "entry" => Once(q, e),
         NEW S \in SUBSET DOMAIN q, NEW i \in S,
         NEW k \in TakenFrom(g, m, Y, b, proc, q, S \ {i})
  PROVE  PredTaken(g, k, b, proc, q[i]) \in TakenFrom(g, m, Y, b, proc, q, S)
<1>1. /\ Well(k, Y) /\ Keeps(m, k) /\ k \in Graphs
      /\ \A e : Fewer(q, k.heap[b].pred, e)
      /\ \A j \in S \ {i} : g.heap[q[j]].role = "entry" /\ g.heap[q[j]].proc # proc
                            => ~Contains(k.heap[b].pred, q[j])
      /\ \A c \in DOMAIN g.heap : k.heap[c].stms = m.heap[c].stms
  BY DEF TakenFrom
<1>2. CASE g.heap[q[i]].proc = proc
  <2>1. PredTaken(g, k, b, proc, q[i]) = k
    BY <1>2 DEF PredTaken
  <2> QED
    BY <1>1, <1>2, <2>1 DEF TakenFrom
<1>3. CASE g.heap[q[i]].proc # proc
  <2>1. PICK s, l : s = RemoveFirst(k.heap[b].pred, q[i]) /\ l = WithPred(k, b, s)
    OBVIOUS
  <2>2. PredTaken(g, k, b, proc, q[i]) = l
    BY <1>3, <2>1 DEF PredTaken, WithPred
  <2>3. /\ b \in DOMAIN g.heap /\ b \in DOMAIN k.heap
        /\ DOMAIN g.heap \subseteq DOMAIN m.heap /\ DOMAIN m.heap \subseteq DOMAIN k.heap
    BY <1>1 DEF Movers, Keeps, Grows
  <2>4. s \in Seq(Starts(k)) /\ k.heap[b].pred \in Seq(Starts(k))
    BY <1>1, <2>1, <2>3, WellParts, RemoveFirstParts
  <2>5. /\ \A d : Fewer(k.heap[b].pred, s, d)
        /\ Once(k.heap[b].pred, q[i]) => ~Contains(s, q[i])
    BY <2>1, <2>4, RemoveFirstFewer
  <2>6. /\ Well(l, Y) /\ Keeps(k, l)
        /\ \A c \in DOMAIN k.heap : l.heap[c].stms = k.heap[c].stms
        /\ l.heap[b].pred = s
    <3>1. \A e \in DOMAIN k.heap : Fewer(k.heap[b].pred, s, e)
      BY <2>5
    <3>2. Well(k, Y) /\ b \in DOMAIN k.heap /\ s \in Seq(Starts(k))
      BY <1>1, <2>3, <2>4
    <3>3. l = WithPred(k, b, s) =>
             /\ Well(l, Y) /\ Keeps(k, l)
             /\ \A c \in DOMAIN k.heap :
                   /\ l.heap[c].stms = k.heap[c].stms
                   /\ l.heap[c].pred = IF c = b THEN s ELSE k.heap[c].pred
      BY <3>1, <3>2, PredPut
    <3> QED
      BY <2>1, <3>2, <3>3
  <2>7. Keeps(m, l) /\ l \in Graphs
    BY <1>1, <2>6, KeepsOn DEF Well
  <2>8. \A e : Fewer(q, s, e)
    BY <1>1, <2>5 DEF Fewer
  <2>9. ASSUME NEW j \in S, g.heap[q[j]].role = "entry", g.heap[q[j]].proc # proc
        PROVE  ~Contains(s, q[j])
    <3>1. q[j] \in DOMAIN g.heap
      <4>1. q \in Seq(Starts(g))
        BY <2>3, WellParts
      <4>2. q[j] \in Starts(g)
        BY <4>1, SeqParts
      <4> QED
        BY <4>2 DEF Starts
    <3>2. CASE j = i
      <4>1. Once(q, q[i])
        BY <2>9, <3>1, <3>2
      <4>2. Once(k.heap[b].pred, q[i])
        BY <1>1, <3>1, <3>2, <4>1 DEF Fewer
      <4> QED
        BY <2>5, <3>2, <4>2
    <3>3. CASE j # i
      <4>1. ~Contains(k.heap[b].pred, q[j])
        BY <1>1, <2>9, <3>3
      <4> QED
        BY <2>5, <4>1 DEF Fewer
    <3> QED
      BY <3>2, <3>3
  <2>10. l \in TakenFrom(g, m, Y, b, proc, q, S)
    BY <1>1, <2>3, <2>6, <2>7, <2>8, <2>9 DEF TakenFrom
  <2> QED
    BY <2>2, <2>10
<1> QED
  BY <1>2, <1>3

(* FixInboundEdges, for every predecessor in turn, leaves the graph sound: *)
(* an entry into which it puts a call is no predecessor of b afterwards.    *)
LEMMA FixInboundEdgesKeeps ==
  ASSUME NEW X, NEW g, Well(g, X), NEW b \in Movers(g), b \notin X.blocks,
         NEW proc \in DOMAIN g.procs, NEW h
  PROVE  h = FixInboundEdges(g, b, proc) => Well(h, X) /\ Keeps(g, h)
<1>h. HAVE h = FixInboundEdges(g, b, proc)
<1> USE <1>h
<1>1. PICK q, n, m, Y : /\ q = g.heap[b].pred /\ n = Len(q)
                        /\ m = InboundsFixed(g, g, b, proc, q)
                        /\ Y = Excuses(X.procs, X.blocks \cup {b})
  OBVIOUS
<1>2. h = PredsTaken(g, m, b, proc, q)
  BY <1>1, PromotionParts
<1> HIDE <1>h
<1>3. /\ b \in DOMAIN g.heap /\ g.heap[b].role \in Inner /\ proc \in Addresses
      /\ q \in Seq(Starts(g)) /\ n \in Nat /\ DOMAIN q = 1 .. n
      /\ \A i \in 1 .. n : q[i] \in DOMAIN g.heap /\ Contains(q, q[i])
  <2>1. b \in DOMAIN g.heap /\ g.heap[b].role \in Inner
    BY DEF Movers
  <2>2. proc \in Addresses
    BY GraphParts DEF Well
  <2>3. q \in Seq(Starts(g))
    BY <1>1, <2>1, WellParts
  <2>4. n \in Nat /\ DOMAIN q = 1 .. n /\ \A i \in 1 .. n : q[i] \in Starts(g)
    BY <1>1, <2>3, SeqParts
  <2>5. \A i \in 1 .. n : Contains(q, q[i])
    BY <1>1, <2>4 DEF Contains
  <2> QED
    BY <1>1, <2>1, <2>2, <2>3, <2>4, <2>5 DEF Starts
<1>4. Y.procs = X.procs /\ Y.blocks = X.blocks \cup {b}
  BY <1>1 DEF Excuses
<1>5. Well(g, Y)
  BY <1>4 DEF Well, EnteredFit, EntriesFit
<1>6. \A e \in DOMAIN g.heap : g.heap[e].role = "entry" =>
         /\ Once(q, e)
         /\ Contains(q, e) => g.heap[e].stms = <<>>
  <2> SUFFICES ASSUME NEW e \in DOMAIN g.heap, g.heap[e].role = "entry"
               PROVE  Once(q, e) /\ (Contains(q, e) => g.heap[e].stms = <<>>)
    OBVIOUS
  <2>1. Contains(q, e) => Once(q, e) /\ g.heap[e].stms = <<>>
    BY <1>1, <1>3 DEF Well, EntriesFit
  <2>2. ~Contains(q, e) => Once(q, e)
    BY <1>1, <1>3 DEF Once, Contains
  <2> QED
    BY <2>1, <2>2
<1>7. PICK P, R :
         /\ P = [S \in SUBSET (1 .. n) |-> CutOff(g, Y, b, proc, q, S)]
         /\ R = [S \in SUBSET (1 .. n) |-> TakenFrom(g, m, Y, b, proc, q, S)]
  OBVIOUS
<1>8. g \in P[{}]
  <2>1. g \in CutOff(g, Y, b, proc, q, {})
    BY <1>1, <1>3, <1>5, <1>6, GrowsReflexive DEF CutOff, Well
  <2> QED
    BY <1>7, <2>1
<1>9. \A S \in SUBSET (1 .. n) : \A i \in S : \A k \in P[S \ {i}] :
         InboundFixed(g, k, b, proc, q[i]) \in P[S]
  <2> SUFFICES ASSUME NEW S \in SUBSET (1 .. n), NEW i \in S, NEW k \in P[S \ {i}]
               PROVE  InboundFixed(g, k, b, proc, q[i]) \in P[S]
    OBVIOUS
  <2>1. k \in CutOff(g, Y, b, proc, q, S \ {i}) /\ S \in SUBSET DOMAIN q
    BY <1>3, <1>7
  <2>2. b \in Y.blocks /\ \A e \in DOMAIN g.heap : g.heap[e].role = "entry" => Once(q, e)
    BY <1>4, <1>6
  <2>3. InboundFixed(g, k, b, proc, q[i]) \in CutOff(g, Y, b, proc, q, S)
    BY <1>1, <1>3, <1>5, <2>1, <2>2, CutOffOn
  <2> QED
    BY <1>7, <2>3
<1>10. m \in CutOff(g, Y, b, proc, q, 1 .. n)
  <2>1. m \in P[1 .. n]
    BY <1>1, <1>3, <1>8, <1>9, InboundsFixedFolded
  <2> QED
    BY <1>7, <2>1
<1>11. /\ Well(m, Y) /\ Keeps(g, m) /\ m.heap[b].pred = q
       /\ \A i \in 1 .. n : g.heap[q[i]].role = "entry" /\ g.heap[q[i]].proc = proc
              => m.heap[q[i]].stms = <<>>
  BY <1>3, <1>10 DEF CutOff
<1>12. m \in R[{}]
  <2>1. m \in TakenFrom(g, m, Y, b, proc, q, {})
    BY <1>11, GrowsReflexive, FewerItself DEF TakenFrom, Well
  <2> QED
    BY <1>7, <2>1
<1>13. \A S \in SUBSET (1 .. n) : \A i \in S : \A k \in R[S \ {i}] :
          PredTaken(g, k, b, proc, q[i]) \in R[S]
  <2> SUFFICES ASSUME NEW S \in SUBSET (1 .. n), NEW i \in S, NEW k \in R[S \ {i}]
               PROVE  PredTaken(g, k, b, proc, q[i]) \in R[S]
    OBVIOUS
  <2>1. k \in TakenFrom(g, m, Y, b, proc, q, S \ {i}) /\ S \in SUBSET DOMAIN q
    BY <1>3, <1>7
  <2>2. \A e \in DOMAIN g.heap : g.heap[e].role = "entry" => Once(q, e)
    BY <1>6
  <2>3. PredTaken(g, k, b, proc, q[i]) \in TakenFrom(g, m, Y, b, proc, q, S)
    BY <1>1, <1>5, <1>11, <2>1, <2>2, TakenOn
  <2> QED
    BY <1>7, <2>3
<1>14. h \in TakenFrom(g, m, Y, b, proc, q, 1 .. n)
  <2>1. h \in R[1 .. n]
    BY <1>2, <1>3, <1>12, <1>13, PredsTakenFolded
  <2> QED
    BY <1>7, <2>1
<1>15. /\ Well(h, Y) /\ Keeps(m, h)
       /\ \A e : Fewer(q, h.heap[b].pred, e)
       /\ \A i \in 1 .. n : g.heap[q[i]].role = "entry" /\ g.heap[q[i]].proc # proc
                            => ~Contains(h.heap[b].pred, q[i])
       /\ \A c \in DOMAIN g.heap : h.heap[c].stms = m.heap[c].stms
  BY <1>14 DEF TakenFrom
<1>16. Keeps(g, h)
  BY <1>11, <1>15, KeepsOn
<1>17. ASSUME NEW e \in DOMAIN h.heap, h.heap[e].role = "entry", Contains(h.heap[b].pred, e)
       PROVE  h.heap[e].stms = <<>>
  <2>1. Contains(q, e)
    BY <1>15, <1>17 DEF Fewer
  <2>2. PICK i \in 1 .. n : q[i] = e
    BY <1>1, <1>3, <2>1 DEF Contains
  <2>3. e \in DOMAIN g.heap
    BY <1>3, <2>2
  <2>4. g.heap[e].role = "entry"
    BY <1>16, <1>17, <2>3 DEF Keeps, Grows
  <2>5. g.heap[e].proc = proc
    BY <1>15, <1>17, <2>2, <2>4
  <2> QED
    BY <1>11, <1>15, <2>2, <2>3, <2>4, <2>5
<1>18. EntriesFit(h, X)
  BY <1>4, <1>15, <1>17 DEF Well, EntriesFit
<1>19. Well(h, X)
  BY <1>4, <1>15, <1>18 DEF Well, EnteredFit
<1> QED
  BY <1>16, <1>19

(* An edge into another procedure goes to a thunk instead.                  *)
ThunkPut(k, b, s, t, i) ==
    [k EXCEPT !.heap[b].succ[i] = t,
              !.heap[t].pred = Append(@, b),
              !.heap[s].pred = RemoveFirst(@, b)]

(* ThunkPut, as three lists that are replaced.                             *)
LEMMA ThunkPutParts ==
  ASSUME NEW k, NEW b, NEW s, NEW t, NEW i,
         NEW S, S = PutAt(k.heap[b].succ, i, t),
         NEW P, P = Joined(k.heap[t].pred, b),
         NEW Q, Q = RemoveFirst(k.heap[s].pred, b),
         NEW l, l = WithSucc(k, b, S), NEW m, m = WithPred(l, t, P)
  PROVE  ThunkPut(k, b, s, t, i) = WithPred(m, s, Q)
BY DEF ThunkPut, WithPred, WithSucc, PutAt, Joined

(* Leading an edge through a thunk leaves the graph sound.                 *)
LEMMA ThunkPutKeeps ==
  ASSUME NEW X, NEW k, Well(k, X), NEW b \in Movers(k), NEW i \in DOMAIN k.heap[b].succ,
         NEW s \in DOMAIN k.heap, NEW t \in Ends(k), s # t, NEW h
  PROVE  h = ThunkPut(k, b, s, t, i) =>
         Well(h, X) /\ Keeps(k, h) /\ Len(h.heap[b].succ) = Len(k.heap[b].succ)
<1>h. HAVE h = ThunkPut(k, b, s, t, i)
<1> USE <1>h
<1>1. PICK S, P, Q, l, m :
         /\ S = PutAt(k.heap[b].succ, i, t)
         /\ P = Joined(k.heap[t].pred, b)
         /\ Q = RemoveFirst(k.heap[s].pred, b)
         /\ l = WithSucc(k, b, S)
         /\ m = WithPred(l, t, P)
  OBVIOUS
<1>2. h = WithPred(m, s, Q)
  <2>1. ThunkPut(k, b, s, t, i) = WithPred(m, s, Q)
    <3> HIDE <1>h
    <3> QED
      BY <1>1, ThunkPutParts
  <2> QED
    BY <2>1
<1> HIDE <1>h
<1>3. b \in DOMAIN k.heap /\ b \in Starts(k) /\ t \in DOMAIN k.heap
  BY DEF Movers, Inner, Starts, Ends
<1>4. S \in Seq(Ends(k)) /\ S # <<>> /\ Len(S) = Len(k.heap[b].succ)
  <2>1. k.heap[b].succ \in Seq(Ends(k))
    BY <1>3, WellParts
  <2> QED
    BY <1>1, <2>1, PutAtParts
<1>5. P \in Seq(Starts(k)) /\ Q \in Seq(Starts(k))
  <2>1. k.heap[s].pred \in Seq(Starts(k)) /\ k.heap[t].pred \in Seq(Starts(k))
    BY <1>3, WellParts
  <2>2. P \in Seq(Starts(k))
    BY <1>1, <1>3, <2>1, AppendParts DEF Joined
  <2>3. Q \in Seq(Starts(k))
    BY <1>1, <2>1, RemoveFirstParts
  <2> QED
    BY <2>2, <2>3
<1>e. \A e \in DOMAIN k.heap :
         k.heap[e].role = "entry" =>
            Fewer(k.heap[t].pred, P, e) /\ Fewer(k.heap[s].pred, Q, e)
  <2>1. /\ k.heap[s].pred \in Seq(Starts(k)) /\ k.heap[t].pred \in Seq(Starts(k))
        /\ k.heap[b].role # "entry"
    BY <1>3, WellParts DEF Movers, Inner
  <2>2. \A e : Fewer(k.heap[s].pred, Q, e)
    BY <1>1, <2>1, RemoveFirstFewer
  <2>3. \A e : e # b => Fewer(k.heap[t].pred, P, e)
    BY <1>1, <1>3, <2>1, AppendFewer DEF Joined
  <2> QED
    BY <2>1, <2>2, <2>3
<1>6. /\ Well(l, X) /\ Keeps(k, l) /\ SameNodes(k, l)
      /\ \A c \in DOMAIN k.heap : /\ l.heap[c].succ = IF c = b THEN S ELSE k.heap[c].succ
                                  /\ l.heap[c].pred = k.heap[c].pred
  <2>1. k.heap[b].role # "entry"
    BY <1>3 DEF Movers, Inner
  <2>2. l = WithSucc(k, b, S)
    BY <1>1
  <2> QED
    BY <1>3, <1>4, <2>1, <2>2, SuccPut
<1>7. Starts(k) \subseteq Starts(l)
  BY <1>6, StartsStay DEF Keeps, Stays
<1>8. P \in Seq(Starts(l)) /\ Q \in Seq(Starts(l))
  BY <1>5, <1>7, SeqMonotonic
<1>9. /\ Well(m, X) /\ Keeps(l, m) /\ SameNodes(l, m)
      /\ \A c \in DOMAIN l.heap : /\ m.heap[c].succ = l.heap[c].succ
                                  /\ c # t => m.heap[c].pred = l.heap[c].pred
  <2>1. t \in DOMAIN l.heap
    BY <1>3, <1>6 DEF SameNodes
  <2>2. m = WithPred(l, t, P) /\ Well(l, X)
    BY <1>1, <1>6
  <2>3. \A e \in DOMAIN l.heap :
           l.heap[e].role = "entry" => Fewer(l.heap[t].pred, P, e)
    BY <1>3, <1>6, <1>e DEF SameNodes
  <2> QED
    BY <1>8, <2>1, <2>2, <2>3, PredPut
<1>10. s \in DOMAIN m.heap /\ Q \in Seq(Starts(m))
  <2>1. Starts(m) = Starts(l)
    BY <1>9, SameStarts
  <2> QED
    BY <1>6, <1>8, <1>9, <2>1 DEF SameNodes
<1>11. /\ Well(h, X) /\ Keeps(m, h)
       /\ \A c \in DOMAIN m.heap : h.heap[c].succ = m.heap[c].succ
  <2>1. Well(m, X)
    BY <1>9
  <2>2. \A e \in DOMAIN m.heap :
           m.heap[e].role = "entry" => Fewer(m.heap[s].pred, Q, e)
    BY <1>6, <1>9, <1>e DEF SameNodes
  <2> QED
    BY <1>2, <1>10, <2>1, <2>2, PredPut
<1>12. Keeps(k, h)
  <2>1. Keeps(k, m)
    BY <1>6, <1>9, KeepsOn
  <2> QED
    BY <1>11, <2>1, KeepsOn
<1>13. h.heap[b].succ = S
  BY <1>3, <1>6, <1>9, <1>11 DEF SameNodes
<1> QED
  BY <1>4, <1>11, <1>12, <1>13

(* FixOutboundEdges *)
LEMMA OutboundFixedKeeps ==
  ASSUME NEW X, NEW g, Well(g, X), NEW b \in Movers(g), NEW n,
         NEW h \in Fixing(g, X, b, n), NEW i \in 1 .. n
  PROVE  OutboundFixed(h, b, i) \in Fixing(g, X, b, n)
<1>1. /\ Well(h, X) /\ Keeps(g, h) /\ b \in Movers(h)
      /\ DOMAIN h.heap[b].succ = 1 .. n
      /\ \A k : Well(k, X) /\ Keeps(h, k) /\ Len(k.heap[b].succ) = n
                => k \in Fixing(g, X, b, n)
  BY FixingStep
<1>2. PICK s, a, p, c, k, t, m :
         /\ s = h.heap[b].succ[i]
         /\ a = LastAddress(h, b)
         /\ p = h.heap[b].proc
         /\ c = h.heap[s].proc
         /\ k = CallRetThunk(h, a, p, c)
         /\ t = Newest(k)
         /\ m = ThunkPut(k, b, s, t, i)
  OBVIOUS
<1>3. OutboundFixed(h, b, i) = h \/ OutboundFixed(h, b, i) = m
  BY <1>2, Zenon DEF OutboundFixed, ThunkPut
<1>4. m \in Fixing(g, X, b, n)
  <2>1. /\ b \in DOMAIN h.heap /\ p \in DOMAIN h.procs
        /\ p \in X.procs \/ Entered(h, p)
    BY <1>1, <1>2, WellParts, Zenon DEF Movers, Well, EnteredFit
  <2>2. s \in DOMAIN h.heap
    <3>1. h.heap[b].succ \in Seq(Ends(h))
      BY <1>1, <2>1, WellParts, SMTT(30)
    <3>2. s \in Ends(h)
      BY <1>1, <1>2, <3>1, SeqParts, ZenonT(30)
    <3> QED
      BY <3>2 DEF Ends
  <2>3. c \in Addresses \cup {None}
    <3>1. DOMAIN h.procs \subseteq Addresses
      BY <1>1, GraphParts, SMTT(30) DEF Well
    <3> QED
      BY <1>1, <1>2, <2>2, <3>1, WellParts, Zenon
  <2>4. a \in Int
    BY <1>1, <1>2, <2>1, LastAddressIsInt, Zenon
  <2>5. Well(k, X) /\ Keeps(h, k) /\ ThunkAdded(h, k, p)
    <3>1. Well(h, X) /\ k = CallRetThunk(h, a, p, c)
      BY <1>1, <1>2, Zenon
    <3> QED
      BY <2>1, <2>3, <2>4, <3>1, ThunkKeeps, SMTT(30)
  <2>6. /\ t \in Ends(k) /\ s \in DOMAIN k.heap /\ s # t /\ b \in Movers(k)
        /\ k.heap[b].succ = h.heap[b].succ
    <3>1. t \in Ends(k) /\ t \notin DOMAIN h.heap /\ k.heap[b].succ = h.heap[b].succ
      BY <1>2, <2>1, <2>5, Zenon DEF ThunkAdded
    <3>2. s \in DOMAIN k.heap /\ b \in Movers(k)
      BY <1>1, <2>2, <2>5 DEF Keeps, Grows, Movers
    <3> QED
      BY <2>2, <3>1, <3>2, SMTT(30)
  <2>7. i \in DOMAIN k.heap[b].succ
    BY <1>1, <2>6
  <2>8. Well(m, X) /\ Keeps(k, m) /\ Len(m.heap[b].succ) = Len(k.heap[b].succ)
    <3>1. m = ThunkPut(k, b, s, t, i)
      BY <1>2, Zenon
    <3> QED
      BY <2>5, <2>6, <2>7, <3>1, ThunkPutKeeps, SMTT(30)
  <2>9. Len(m.heap[b].succ) = n
    BY <2>6, <2>8 DEF Fixing
  <2>10. Keeps(h, m)
    BY <2>5, <2>8, KeepsOn
  <2> QED
    BY <1>1, <2>8, <2>9, <2>10
<1> QED
  BY <1>3, <1>4

(* FixOutboundEdges, for every successor in turn, leaves the graph sound.  *)
LEMMA FixOutboundEdgesKeeps ==
  ASSUME NEW X, NEW g, Well(g, X), NEW b \in Movers(g), NEW h
  PROVE  h = FixOutboundEdges(g, b) => Well(h, X) /\ Keeps(g, h)
<1>h. HAVE h = FixOutboundEdges(g, b)
<1> USE <1>h
<1>1. PICK n, q : n = Len(g.heap[b].succ) /\ q = [i \in 1 .. n |-> i]
  OBVIOUS
<1>2. h = OutboundsFixed(g, b, q)
  BY <1>1, PromotionParts
<1> HIDE <1>h
<1>3. n \in Nat /\ g \in Fixing(g, X, b, n) /\ DOMAIN q = 1 .. n
  BY <1>1, FixingItself
<1>4. \A k \in Fixing(g, X, b, n) : \A i \in 1 .. n :
         OutboundFixed(k, b, q[i]) \in Fixing(g, X, b, n)
  <2> SUFFICES ASSUME NEW k \in Fixing(g, X, b, n), NEW i \in 1 .. n
               PROVE  OutboundFixed(k, b, q[i]) \in Fixing(g, X, b, n)
    OBVIOUS
  <2>1. q[i] = i
    BY <1>1
  <2>2. OutboundFixed(k, b, i) \in Fixing(g, X, b, n)
    BY OutboundFixedKeeps
  <2> QED
    BY <2>1, <2>2
<1>5. OutboundsFixed(g, b, q) \in Fixing(g, X, b, n)
  BY <1>3, <1>4, OutboundsFixedIn
<1> QED
  BY <1>2, <1>5 DEF Fixing

(* Promotion keeps graphs well formed, and moves blocks with their lists.   *)
LEMMA BlockFixedKeeps ==
  ASSUME NEW X, NEW g, Well(g, X), NEW b \in Movers(g), b \notin X.blocks,
         NEW proc \in DOMAIN g.procs, NEW h
  PROVE  h = BlockFixed(g, proc, b) => Well(h, X) /\ Keeps(g, h)
<1>h. HAVE h = BlockFixed(g, proc, b)
<1> USE <1>h
<1>1. PICK k, m : k = FixExitEdges(g, b, proc) /\ m = FixInboundEdges(k, b, proc)
  OBVIOUS
<1>2. h = FixOutboundEdges(m, b)
  BY <1>1 DEF BlockFixed
<1> HIDE <1>h
<1>3. Well(k, X) /\ Keeps(g, k)
  BY <1>1, FixExitEdgesKeeps
<1>4. b \in Movers(k) /\ proc \in DOMAIN k.procs
  BY <1>3 DEF Movers, Keeps, Grows
<1>5. Well(m, X) /\ Keeps(k, m)
  <2> QED
    BY <1>1, <1>3, <1>4, FixInboundEdgesKeeps
<1>6. b \in Movers(m)
  BY <1>4, <1>5 DEF Movers, Keeps, Grows
<1>7. Well(h, X) /\ Keeps(m, h)
  <2> QED
    BY <1>2, <1>5, <1>6, FixOutboundEdgesKeeps
<1>8. Keeps(g, m)
  BY <1>3, <1>5, KeepsOn
<1> QED
  BY <1>7, <1>8, KeepsOn

(* The sound graphs that have grown from g and lost no block.              *)
Grown(g, X) == {h \in Graphs : Well(h, X) /\ Grows(g, h) /\ Lists(g, h)}

(* A further change that loses no block stays among the graphs grown from  *)
(* g.                                                                      *)
LEMMA GrownOn ==
  ASSUME NEW X, NEW g, Well(g, X), NEW h \in Grown(g, X),
         NEW k, Well(k, X), Grows(h, k), Lists(h, k)
  PROVE  k \in Grown(g, X)
<1>1. Grows(g, h) /\ Lists(g, h)
  BY DEF Grown
<1>2. Grows(g, k)
  BY <1>1, GrowsOn
<1>4. Shut(g, k)
  BY <1>1 DEF Lists, Grows, Shut
<1>3. Lists(g, k)
  BY <1>1, <1>4 DEF Lists, Grows
<1> QED
  BY <1>2, <1>3 DEF Grown, Well

(* Blocks have moved to proc: those that may and are listed there now.      *)
Moved(g, h, proc) ==
    \A c \in DOMAIN g.heap :
       \/ h.heap[c].proc = g.heap[c].proc
       \/ c \in Movable(g, proc) /\ h.heap[c].proc = proc /\ Listed(h, c)

(* The graphs in which the blocks of q at S are moved.                      *)
MovedBy(g, X, proc, q, S) ==
    {h \in Grown(g, X) :
        /\ \A c \in DOMAIN g.heap :
              h.heap[c].proc = g.heap[c].proc \/ \E i \in S : q[i] = c
        /\ \A i \in S : h.heap[q[i]].proc = proc /\ Listed(h, q[i])}

(* One more of them is moved. *)
LEMMA MovedOn ==
  ASSUME NEW X, NEW g, Well(g, X), NEW proc \in DOMAIN g.procs, Entered(g, proc),
         NEW q \in Seq(Movers(g)), NEW S \in SUBSET DOMAIN q, NEW i \in S,
         NEW k \in MovedBy(g, X, proc, q, S \ {i})
  PROVE  MoveBlock(k, q[i], proc) \in MovedBy(g, X, proc, q, S)
<1>1. PICK l, b : b = q[i] /\ l = MoveBlock(k, b, proc)
  OBVIOUS
<1>2. /\ k \in Grown(g, X) /\ Well(k, X) /\ Grows(g, k)
      /\ \A c \in DOMAIN g.heap :
            k.heap[c].proc = g.heap[c].proc \/ \E j \in S \ {i} : q[j] = c
      /\ \A j \in S \ {i} : k.heap[q[j]].proc = proc /\ Listed(k, q[j])
  BY DEF MovedBy, Grown
<1>3. /\ \A j \in S : q[j] \in DOMAIN k.heap
      /\ b \in Movers(k) /\ proc \in DOMAIN k.procs /\ Entered(k, proc)
      /\ DOMAIN g.heap \subseteq DOMAIN k.heap
  <2>1. \A j \in S : q[j] \in Movers(g)
    BY SeqParts
  <2>2. DOMAIN g.heap \subseteq DOMAIN k.heap /\ proc \in DOMAIN k.procs /\ Entered(k, proc)
    BY <1>2 DEF Grows
  <2> QED
    BY <1>1, <1>2, <2>1, <2>2 DEF Movers, Grows
<1>4. /\ Well(l, X) /\ Grows(k, l) /\ Lists(k, l)
      /\ \A c \in DOMAIN k.heap : l.heap[c].proc = IF c = b THEN proc ELSE k.heap[c].proc
      /\ Listed(l, b)
  <2>1. Well(k, X) /\ b \in Movers(k) /\ proc \in DOMAIN k.procs /\ Entered(k, proc)
    BY <1>2, <1>3
  <2> QED
    BY <1>1, <2>1, MoveBlockKeeps
<1>5. l \in Grown(g, X)
  BY <1>2, <1>4, GrownOn
<1>6. \A c \in DOMAIN g.heap : l.heap[c].proc = g.heap[c].proc \/ \E j \in S : q[j] = c
  BY <1>1, <1>2, <1>3, <1>4
<1>7. \A j \in S : l.heap[q[j]].proc = proc /\ Listed(l, q[j])
  BY <1>1, <1>2, <1>3, <1>4 DEF Lists
<1> QED
  BY <1>1, <1>5, <1>6, <1>7 DEF MovedBy

(* PromoteBlock moves the block from one list to the other and mends the   *)
(* edges on both sides: the graph stays sound and loses no block, and b is  *)
(* moved unless it is where a procedure is entered.                        *)
LEMMA PromoteKeeps ==
  ASSUME NEW X, X.blocks = {}, NEW g, Well(g, X), NEW b \in Movers(g),
         NEW proc \in DOMAIN g.procs, Entered(g, proc), NEW h
  PROVE  h = Promote(g, b, proc) =>
         /\ Well(h, X) /\ Grows(g, h) /\ Lists(g, h) /\ Moved(g, h, proc)
         /\ b \in Movable(g, proc) => h.heap[b].proc = proc /\ Listed(h, b)
<1>h. HAVE h = Promote(g, b, proc)
<1> USE <1>h
<1>1. PICK q, n, m : /\ q = Promoted(g, b, proc) /\ n = Len(q)
                     /\ m = BlocksMoved(g, proc, q)
  OBVIOUS
<1>2. h = BlocksFixed(m, proc, q)
  BY <1>1, PromotionParts
<1> HIDE <1>h
<1>3. /\ q \in Seq(Movers(g)) /\ n \in Nat /\ DOMAIN q = 1 .. n
      /\ \A i \in 1 .. n : q[i] \in Movable(g, proc) /\ q[i] \in Movers(g)
      /\ b \in Movable(g, proc) => Contains(q, b)
  <2>1. q \in Seq(Movable(g, proc)) /\ (b \in Movable(g, proc) => Contains(q, b))
    BY <1>1, PromotedKeeps
  <2>2. n \in Nat /\ DOMAIN q = 1 .. n /\ \A i \in 1 .. n : q[i] \in Movable(g, proc)
    BY <1>1, <2>1, SeqParts
  <2>3. q \in Seq(Movers(g)) /\ \A i \in 1 .. n : q[i] \in Movers(g)
    BY <2>1, <2>2 DEF Movable
  <2> QED
    BY <2>1, <2>2, <2>3
<1>4. PICK P : P = [S \in SUBSET (1 .. n) |-> MovedBy(g, X, proc, q, S)]
  OBVIOUS
<1>5. g \in P[{}]
  <2>1. g \in Graphs /\ Grows(g, g) /\ Lists(g, g)
    BY GrowsReflexive DEF Well, Lists, Keeps, Stays
  <2>2. g \in MovedBy(g, X, proc, q, {})
    BY <2>1 DEF Grown, MovedBy
  <2> QED
    BY <1>4, <2>2
<1>6. \A S \in SUBSET (1 .. n) : \A i \in S : \A k \in P[S \ {i}] :
         MoveBlock(k, q[i], proc) \in P[S]
  <2> SUFFICES ASSUME NEW S \in SUBSET (1 .. n), NEW i \in S, NEW k \in P[S \ {i}]
               PROVE  MoveBlock(k, q[i], proc) \in P[S]
    OBVIOUS
  <2>1. k \in MovedBy(g, X, proc, q, S \ {i}) /\ S \in SUBSET DOMAIN q
    BY <1>3, <1>4
  <2>2. MoveBlock(k, q[i], proc) \in MovedBy(g, X, proc, q, S)
    BY <1>3, <2>1, MovedOn
  <2> QED
    BY <1>4, <2>2
<1>7. m \in MovedBy(g, X, proc, q, 1 .. n)
  <2>1. m \in P[1 .. n]
    BY <1>1, <1>3, <1>5, <1>6, BlocksMovedFolded
  <2> QED
    BY <1>4, <2>1
<1>8. PICK R : R = {k \in Grown(g, X) :
                       /\ DOMAIN m.heap \subseteq DOMAIN k.heap
                       /\ \A c \in DOMAIN m.heap :
                             /\ k.heap[c].proc = m.heap[c].proc
                             /\ Listed(m, c) => Listed(k, c)}
  OBVIOUS
<1>9. m \in R
  BY <1>7, <1>8 DEF MovedBy
<1>10. \A k \in R : \A i \in 1 .. n : BlockFixed(k, proc, q[i]) \in R
  <2> SUFFICES ASSUME NEW k \in R, NEW i \in 1 .. n
               PROVE  BlockFixed(k, proc, q[i]) \in R
    OBVIOUS
  <2>1. PICK l : l = BlockFixed(k, proc, q[i])
    OBVIOUS
  <2>2. /\ k \in Grown(g, X) /\ Well(k, X) /\ Grows(g, k)
        /\ DOMAIN m.heap \subseteq DOMAIN k.heap
        /\ \A c \in DOMAIN m.heap :
              /\ k.heap[c].proc = m.heap[c].proc
              /\ Listed(m, c) => Listed(k, c)
    BY <1>8 DEF Grown
  <2>3. q[i] \in Movers(k) /\ q[i] \notin X.blocks /\ proc \in DOMAIN k.procs
    BY <1>3, <2>2 DEF Grows, Movers
  <2>4. Well(l, X) /\ Keeps(k, l)
    BY <2>1, <2>2, <2>3, BlockFixedKeeps
  <2>5. Grows(k, l) /\ Lists(k, l)
    BY <2>2, <2>4, KeepsLists DEF Keeps
  <2>6. l \in Grown(g, X)
    BY <2>2, <2>4, <2>5, GrownOn
  <2>7. /\ DOMAIN k.heap \subseteq DOMAIN l.heap
        /\ \A c \in DOMAIN k.heap : l.heap[c].proc = k.heap[c].proc
    BY <2>4 DEF Keeps, Grows, Stays
  <2> QED
    BY <1>8, <2>1, <2>2, <2>5, <2>6, <2>7 DEF Lists
<1>11. h \in R
  BY <1>2, <1>3, <1>9, <1>10, BlocksFixedIn
<1>12. /\ h \in Grown(g, X) /\ m \in Grown(g, X)
       /\ \A c \in DOMAIN m.heap :
             /\ h.heap[c].proc = m.heap[c].proc
             /\ Listed(m, c) => Listed(h, c)
       /\ \A c \in DOMAIN g.heap :
             m.heap[c].proc = g.heap[c].proc \/ \E i \in 1 .. n : q[i] = c
       /\ \A i \in 1 .. n : m.heap[q[i]].proc = proc /\ Listed(m, q[i])
  BY <1>7, <1>8, <1>11 DEF MovedBy
<1>13. DOMAIN g.heap \subseteq DOMAIN m.heap
  BY <1>12 DEF Grown, Grows
<1>14. \A i \in 1 .. n : q[i] \in DOMAIN m.heap /\ h.heap[q[i]].proc = proc /\ Listed(h, q[i])
  BY <1>3, <1>12, <1>13 DEF Movers
<1>15. Moved(g, h, proc)
  BY <1>3, <1>12, <1>13, <1>14 DEF Moved
<1>16. b \in Movable(g, proc) => h.heap[b].proc = proc /\ Listed(h, b)
  BY <1>1, <1>3, <1>14 DEF Contains
<1> QED
  BY <1>12, <1>15, <1>16 DEF Grown

-------------------------------------------------------------------------------
(* The beginning and the end. *)

(* The statements without a goto at the end.                               *)
NoGotos(stms) ==
    IF stms # <<>> /\ Last(stms).kind = "goto" THEN Front(stms) ELSE stms

(* What is left without a last goto is a sequence of statements, and tells  *)
(* what all of them did.                                                    *)
LEMMA NoGotosKeeps ==
  ASSUME NEW s \in Seq(StmSet)
  PROVE  /\ NoGotos(s) \in Seq(StmSet)
         /\ NoGotos(s) # <<>> => s # <<>>
         /\ \A a : Tells(s, a) => Tells(NoGotos(s), a)
         /\ \A i \in DOMAIN NoGotos(s) :
               /\ i \in DOMAIN s /\ NoGotos(s)[i] = s[i]
               /\ ~(i = Len(s) /\ s[i].kind = "goto")
<1>1. CASE s = <<>> \/ Last(s).kind # "goto"
  <2>1. NoGotos(s) = s
    BY <1>1, Zenon DEF NoGotos
  <2>2. ASSUME NEW i \in DOMAIN s, i = Len(s), s[i].kind = "goto"
        PROVE  FALSE
    <3>1. s # <<>>
      BY EmptySeq
    <3> QED
      BY <1>1, <2>2, <3>1 DEF Last
  <2> QED
    BY <2>1, <2>2
<1>2. CASE s # <<>> /\ Last(s).kind = "goto"
  <2>1. NoGotos(s) = SubSeq(s, 1, Len(s) - 1)
    BY <1>2, Zenon DEF NoGotos, Front
  <2>2. Len(s) \in Nat \ {0}
    BY <1>2, SeqParts
  <2>3. \A i \in 1 .. Len(s) - 1 : s[i] \in StmSet
    BY <2>2, ElementOfSeq
  <2>4. PICK t : t = SubSeq(s, 1, Len(s) - 1)
    OBVIOUS
  <2>5. /\ t \in Seq(StmSet) /\ Len(t) = Len(s) - 1
        /\ \A i \in 1 .. Len(s) - 1 : t[i] = s[i]
    <3>1. PICK n \in Nat : n = Len(s) - 1
      BY <2>2
    <3>2. \A i \in 1 .. n : s[i] \in StmSet
      BY <2>3, <3>1
    <3>3. /\ t \in Seq(StmSet) /\ Len(t) = IF 1 <= n THEN n - 1 + 1 ELSE 0
          /\ \A i \in 1 .. n - 1 + 1 : t[i] = s[1 + i - 1]
      BY <2>4, <3>1, <3>2, SubSeqProperties
    <3>4. Len(t) = n
      BY <3>3
    <3>5. n - 1 + 1 = n /\ \A i \in 1 .. n : 1 + i - 1 = i
      OBVIOUS
    <3>6. \A i \in 1 .. n : t[i] = s[i]
      BY <3>3, <3>5
    <3> QED
      BY <3>1, <3>3, <3>4, <3>6
  <2>6. DOMAIN t = 1 .. Len(s) - 1 /\ DOMAIN s = 1 .. Len(s)
    BY <2>5, SeqParts
  <2>7. s[Len(s)].kind = "goto"
    BY <1>2 DEF Last
  <2>8. \A a : Tells(s, a) => Tells(t, a)
    BY <2>2, <2>5, <2>6, <2>7 DEF Tells
  <2>9. \A i \in DOMAIN t : i \in DOMAIN s /\ t[i] = s[i] /\ i # Len(s)
    BY <2>2, <2>5, <2>6
  <2> QED
    BY <1>2, <2>1, <2>4, <2>5, <2>8, <2>9
<1> QED
  BY <1>1, <1>2

(* They are a part of those there were, which leaves out what may go beyond *)
(* the end of the block.                                                    *)
LEMMA NoGotosParts ==
  ASSUME NEW s \in Seq(StmSet)
  PROVE  /\ Part(NoGotos(s), s)
         /\ \A x : Nearly(s, x) => Under(NoGotos(s), x)
<1>1. PICK t : t = NoGotos(s)
  OBVIOUS
<1>2. \A i \in DOMAIN t :
         i \in DOMAIN s /\ t[i] = s[i] /\ ~(i = Len(s) /\ s[i].kind = "goto")
  BY <1>1, NoGotosKeeps
<1>3. Part(t, s)
  BY <1>2 DEF Part
<1>4. \A x : Nearly(s, x) => Under(t, x)
  BY <1>2 DEF Nearly, Under
<1> QED
  BY <1>1, <1>3, <1>4

(* A block whose last goto is taken away, if it is listed.                  *)
Tidied(x, listed) == IF listed THEN [x EXCEPT !.stms = NoGotos(@)] ELSE x

(* A tidied block differs in its statements only.                          *)
LEMMA TidiedParts ==
  ASSUME NEW x \in BlockSet, NEW listed \in BOOLEAN, NEW y
  PROVE  y = Tidied(x, listed) =>
         /\ y \in BlockSet
         /\ y.role = x.role /\ y.proc = x.proc /\ y.addr = x.addr
         /\ y.succ = x.succ /\ y.pred = x.pred
         /\ y.stms # <<>> => x.stms # <<>>
         /\ \A a : Tells(x.stms, a) => Tells(y.stms, a)
         /\ listed => y.stms = NoGotos(x.stms)
<1>h. HAVE y = Tidied(x, listed)
<1> USE <1>h
<1>1. PICK s : s = NoGotos(x.stms)
  OBVIOUS
<1>2. /\ x.stms \in Seq(StmSet) /\ s \in Seq(StmSet)
      /\ s # <<>> => x.stms # <<>>
      /\ \A a : Tells(x.stms, a) => Tells(s, a)
  BY <1>1, BlockParts, NoGotosKeeps
<1>3. CASE y = x /\ ~listed
  BY <1>3
<1>4. CASE y = [x EXCEPT !.stms = s]
  <2>1. y = [role |-> x.role, proc |-> x.proc, addr |-> x.addr,
             stms |-> s, succ |-> x.succ, pred |-> x.pred]
    <3> HIDE <1>h
    <3> QED
      BY <1>4, FieldPut
  <2> HIDE <1>h, <1>4
  <2> QED
    BY <1>1, <1>2, <2>1, BlockParts DEF BlockSet
<1> QED
  BY <1>1, <1>3, <1>4 DEF Tidied

(* RemoveRedundantGotos, written out for every block.                      *)
LEMMA GotosRemoved ==
  ASSUME NEW g, g \in Graphs, NEW H
  PROVE  H = [b \in DOMAIN g.heap |-> Tidied(g.heap[b],
                b \in UNION {g.procs[p].blocks : p \in DOMAIN g.procs})] =>
         RemoveRedundantGotos(g) = [heap |-> H, procs |-> g.procs]
<1>h. HAVE H = [b \in DOMAIN g.heap |-> Tidied(g.heap[b],
                   b \in UNION {g.procs[p].blocks : p \in DOMAIN g.procs})]
<1> USE <1>h
<1> DEFINE I == [b \in DOMAIN g.heap |-> Tidied(g.heap[b],
                    b \in UNION {g.procs[p].blocks : p \in DOMAIN g.procs})]
<1>a. RemoveRedundantGotos(g) = [g EXCEPT !.heap = I]
  <2> HIDE <1>h
  <2> QED
    BY Zenon DEF RemoveRedundantGotos, Tidied, NoGotos
<1>b. H = I
  OBVIOUS
<1> HIDE DEF I
<1> HIDE <1>h
<1>1. RemoveRedundantGotos(g) = [g EXCEPT !.heap = H]
  BY <1>a, <1>b
<1>2. g = [heap |-> g.heap, procs |-> g.procs]
  BY GraphParts
<1> QED
  BY <1>1, <1>2

(* RemoveRedundantGotos leaves the graph sound.                            *)
LEMMA RemoveRedundantGotosKeeps ==
  ASSUME NEW X, NEW g, Well(g, X), NEW h
  PROVE  h = RemoveRedundantGotos(g) =>
         /\ Well(h, X) /\ Keeps(g, h)
         /\ \A b \in DOMAIN g.heap :
               Listed(g, b) => h.heap[b].stms = NoGotos(g.heap[b].stms)
<1>h. HAVE h = RemoveRedundantGotos(g)
<1> USE <1>h
<1>1. PICK H : H = [b \in DOMAIN g.heap |-> Tidied(g.heap[b],
                       b \in UNION {g.procs[p].blocks : p \in DOMAIN g.procs})]
  OBVIOUS
<1>2. h = [heap |-> H, procs |-> g.procs]
  BY <1>1, GotosRemoved, Zenon DEF Well
<1> HIDE <1>h
<1>3. ASSUME NEW b \in DOMAIN g.heap
      PROVE  /\ H[b] \in BlockSet
             /\ H[b].role = g.heap[b].role /\ H[b].proc = g.heap[b].proc
             /\ H[b].addr = g.heap[b].addr
             /\ H[b].succ = g.heap[b].succ /\ H[b].pred = g.heap[b].pred
             /\ H[b].stms # <<>> => g.heap[b].stms # <<>>
             /\ \A a : Tells(g.heap[b].stms, a) => Tells(H[b].stms, a)
             /\ Listed(g, b) => H[b].stms = NoGotos(g.heap[b].stms)
  <2>1. PICK listed, y, x : /\ x = g.heap[b] /\ y = Tidied(x, listed) /\ H[b] = y
                            /\ listed = (b \in UNION {g.procs[p].blocks : p \in DOMAIN g.procs})
    BY <1>1
  <2>4. Listed(g, b) => listed
    BY <2>1 DEF Listed
  <2>2. x \in BlockSet
    BY <2>1, WellParts
  <2>3. /\ y \in BlockSet
        /\ y.role = x.role /\ y.proc = x.proc /\ y.addr = x.addr
        /\ y.succ = x.succ /\ y.pred = x.pred
        /\ y.stms # <<>> => x.stms # <<>>
        /\ \A a : Tells(x.stms, a) => Tells(y.stms, a)
        /\ listed => y.stms = NoGotos(x.stms)
    <3>1. listed \in BOOLEAN /\ y = Tidied(x, listed)
      BY <2>1
    <3> QED
      BY <2>2, <3>1, TidiedParts
  <2>6. Listed(g, b) => y.stms = NoGotos(x.stms)
    BY <2>3, <2>4, Zenon
  <2>5. H[b] = y /\ x = g.heap[b]
    BY <2>1
  <2> QED
    BY <2>3, <2>5, <2>6, Zenon
<1>4. DOMAIN H = DOMAIN g.heap /\ DOMAIN g.heap = 1 .. Len(g.heap) /\ Len(g.heap) \in Nat
  BY <1>1, WellParts
<1>5. H \in [1 .. Len(g.heap) -> BlockSet]
  <2>1. H = [b \in 1 .. Len(g.heap) |-> H[b]]
    BY <1>1, <1>4
  <2> QED
    BY <1>3, <1>4, <2>1
<1>6. H \in Seq(BlockSet) /\ Len(H) = Len(g.heap)
  BY <1>4, <1>5
<1>7. h \in Graphs
  <2>1. PICK D : D = DOMAIN g.procs /\ D \in SUBSET Addresses /\ g.procs \in [D -> ProcSet]
    BY GraphParts DEF Well
  <2> QED
    BY <1>2, <1>6, <2>1, GraphMade
<1>8. SameNodes(g, h)
  BY <1>2, <1>3, <1>4, <1>6 DEF SameNodes
<1>9. \A c \in DOMAIN g.heap : /\ h.heap[c].succ = g.heap[c].succ
                             /\ h.heap[c].pred = g.heap[c].pred
  BY <1>2, <1>3
<1>10. EntriesKept(g, h)
  BY <1>9 DEF EntriesKept
<1>11. \A c \in DOMAIN g.heap : h.heap[c].pred \in Seq(Starts(h))
  BY <1>8, <1>9, <1>10, PredKept
<1>12. \A c \in DOMAIN g.heap : h.heap[c].succ \in Seq(Ends(g))
  BY <1>9, WellParts
<1>13. EntriesFit(h, X)
  <2>1. \A c \in DOMAIN g.heap : h.heap[c].stms # <<>> => g.heap[c].stms # <<>>
    BY <1>2, <1>3
  <2> QED
    BY <1>8, <1>9, <2>1 DEF Well, EntriesFit, SameNodes
<1>14. ToldStays(g, h)
  BY <1>2, <1>3, <1>8 DEF ToldStays, Told, SameNodes
<1>15. EntriesShut(g, h)
  BY <1>9 DEF EntriesShut
<1>16. Well(h, X) /\ Keeps(g, h)
  BY <1>7, <1>8, <1>10, <1>11, <1>12, <1>13, <1>14, <1>15, EdgesChanged
<1>17. \A b \in DOMAIN g.heap : Listed(g, b) => h.heap[b].stms = NoGotos(g.heap[b].stms)
  BY <1>2, <1>3
<1> QED
  BY <1>16, <1>17

(* The graph before any symbol is known, and with the procedures of the    *)
(* symbols.                                                                *)
NoGraph == [heap |-> <<>>, procs |-> <<>>]

ProceduresMade(q) == FoldLeft(EnsureProcedure, NoGraph, q)

(* The procedures of the symbols. *)
LEMMA ProceduresMadeIn ==
  ASSUME NEW P, NEW q,
         NEW n \in Nat, DOMAIN q = 1 .. n, NoGraph \in P,
         \A h \in P : \A i \in 1 .. n : EnsureProcedure(h, q[i]) \in P
  PROVE  ProceduresMade(q) \in P
<1> DEFINE op(h, i) == EnsureProcedure(h, q[i])
           step(it) == [S \in SUBSET (1 .. n) |->
              IF S = {} THEN NoGraph ELSE op(it[S \ {Max(S)}], Max(S))]
           F == [S \in SUBSET (1 .. n) |-> [h \in P |-> op(h, Max(S))]]
<1>1. ProceduresMade(q) = (CHOOSE it : it = step(it))[1 .. n]
  BY Zenon DEF ProceduresMade, FoldLeft, MapThenFoldSet
<1>2. \A h \in P : \A i \in 1 .. n : op(h, i) \in P
  OBVIOUS
<1> HIDE DEF op
<1>3. ASSUME NEW S \in SUBSET (1 .. n), S # {}
      PROVE  /\ Greatest(n)[S] = Max(S) /\ Max(S) \in 1 .. n
             /\ \A h \in P : F[S][h] = op(h, Max(S)) /\ F[S][h] \in P
  <2>1. Greatest(n)[S] = Max(S) /\ Max(S) \in 1 .. n
    BY <1>3, GreatestChosen DEF Greatest, Chooses
  <2> QED
    BY <1>2, <2>1
<1> HIDE DEF F
<1>4. Chooses(n, Greatest(n))
  BY GreatestChosen
<1>5. PICK it : /\ Iterated(it, n, Greatest(n), NoGraph, F)
                /\ \A S \in SUBSET (1 .. n) : it[S] \in P
  <2>1. \A S \in SUBSET (1 .. n) : S # {} => \A h \in P : F[S][h] \in P
    BY <1>3
  <2> QED
    BY <1>4, <2>1, FoldExists
<1>6. it = step(it)
  <2>1. \A S \in SUBSET (1 .. n) : it[S \ {Max(S)}] \in P
    BY <1>5
  <2>2. \A S \in SUBSET (1 .. n) :
           (IF S = {} THEN NoGraph ELSE F[S][it[S \ {Greatest(n)[S]}]])
              = IF S = {} THEN NoGraph ELSE op(it[S \ {Max(S)}], Max(S))
    BY <1>3, <2>1
  <2> QED
    BY <1>5, <2>2 DEF Iterated
<1>7. PICK c : c = step(c) /\ c = CHOOSE d : d = step(d)
  BY <1>6
<1>8. \A S \in SUBSET (1 .. n) :
         c[S] = IF S = {} THEN NoGraph ELSE op(c[S \ {Max(S)}], Max(S))
  BY <1>7, Zenon
<1>9. c[{}] \in P
  BY <1>8
<1>10. \A S \in SUBSET (1 .. n) : S # {} /\ c[S \ {Greatest(n)[S]}] \in P => c[S] \in P
  <2> SUFFICES ASSUME NEW S \in SUBSET (1 .. n), S # {}, c[S \ {Greatest(n)[S]}] \in P
               PROVE  c[S] \in P
    BY Zenon
  <2>1. c[S \ {Max(S)}] \in P /\ Max(S) \in 1 .. n
    BY <1>3
  <2>2. op(c[S \ {Max(S)}], Max(S)) \in P
    BY <1>2, <2>1
  <2> QED
    BY <1>8, <2>2
<1>11. c[1 .. n] \in P
  BY <1>4, <1>9, <1>10, FoldKeeps
<1> QED
  BY <1>1, <1>7, <1>11

(* The empty graph is sound.                                               *)
LEMMA NoGraphIsWell == Well(NoGraph, Settled)
<1>1. <<>> \in Seq(BlockSet)
  OBVIOUS
<1>2. <<>> \in [{} -> ProcSet] /\ DOMAIN <<>> = {}
  OBVIOUS
<1>3. PICK H, P : H = <<>> /\ P = <<>>
  OBVIOUS
<1>4. H \in Seq(BlockSet) /\ {} \in SUBSET Addresses /\ P \in [{} -> ProcSet]
  BY <1>1, <1>2, <1>3
<1>5. NoGraph = [heap |-> H, procs |-> P]
  BY <1>3 DEF NoGraph
<1>6. NoGraph \in Graphs
  BY <1>4, <1>5, GraphMade
<1>7. DOMAIN NoGraph.heap = {} /\ DOMAIN NoGraph.procs = {}
  BY <1>2 DEF NoGraph
<1> QED
  BY <1>6, <1>7 DEF Well, BlocksFit, ProcsFit, EnteredFit, EntriesFit

(* The procedures of the symbols make a sound graph, in which none of them *)
(* is entered.                                                             *)
LEMMA ProceduresMadeKeeps ==
  ASSUME NEW n \in Nat, NEW q \in [1 .. n -> Addresses]
  PROVE  /\ Well(ProceduresMade(q), Settled)
         /\ \A p \in DOMAIN ProceduresMade(q).procs :
               ~Entered(ProceduresMade(q), p) /\ \E i \in 1 .. n : q[i] = p
<1> DEFINE Fresh(h) == \A p \in DOMAIN h.procs : ~Entered(h, p) /\ \E i \in 1 .. n : q[i] = p
           P == {h \in Graphs : Well(h, Settled) /\ Fresh(h)}
<1>1. NoGraph \in P
  <2>1. Fresh(NoGraph)
    BY DEF NoGraph
  <2> QED
    BY <2>1, NoGraphIsWell DEF Well
<1>2. \A h \in P : \A i \in 1 .. n : EnsureProcedure(h, q[i]) \in P
  <2> SUFFICES ASSUME NEW h \in P, NEW i \in 1 .. n
               PROVE  EnsureProcedure(h, q[i]) \in P
    OBVIOUS
  <2>1. Well(h, Settled) /\ q[i] \in Addresses
    OBVIOUS
  <2>2. PICK k : k = EnsureProcedure(h, q[i])
    OBVIOUS
  <2>3. Well(k, Settled) /\ Grows(h, k) /\ ProcedureMade(h, k, q[i])
    <3> HIDE DEF P
    <3> QED
      BY <2>1, <2>2, EnsureProcedureKeeps
  <2>4. Fresh(k)
    <3>1. \A p \in DOMAIN h.procs : k.procs[p].entry = h.procs[p].entry
                                   /\ h.procs[p].entry \in DOMAIN h.heap
      BY <2>1, <2>3 DEF Well, ProcsFit, Grows
    <3> QED
      BY <2>3, <3>1 DEF ProcedureMade, Entered
  <2> QED
    BY <2>2, <2>3, <2>4 DEF Well
<1> HIDE DEF P
<1>3. DOMAIN q = 1 .. n
  OBVIOUS
<1>4. ProceduresMade(q) \in P
  BY <1>1, <1>2, <1>3, ProceduresMadeIn
<1> QED
  BY <1>4 DEF P

===============================================================================
