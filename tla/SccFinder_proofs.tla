---------------------------- MODULE SccFinder_proofs ----------------------------
(***************************************************************************)
(* Proofs about Tarjan's algorithm as SccFinder.FindAll has it, for graphs *)
(* of any size, with loops and in any order of the successors.             *)
(*                                                                         *)
(* A turn of the inner loop is taken in two halves: the frame on top of    *)
(* the call stack is entered or takes over the low-link of the successor   *)
(* it has come back from, and then it descends, retreats or emits.  What   *)
(* holds between turns holds between the halves too, so that it is stated  *)
(* of four values - the nodes found, the stack, the low-links and the call *)
(* stack - and each half has a lemma of its own.                           *)
(***************************************************************************)
EXTENDS SccFinder, FiniteSetTheorems, SequenceTheorems, TLAPS

Frame == [node : Nodes, entered : BOOLEAN, todo : SUBSET Nodes, at : Nodes,
          num : Nat]

(* The frames whose node has been pushed on the stack.                      *)
Entered(cs) == {k \in 1 .. Len(cs) : cs[k].entered}

(* The edge from x to y is behind the enumerators of the frames of x.       *)
Done(x, y, cs) ==
    /\ y \in Successors(x)
    /\ \A l \in Entered(cs) : cs[l].node = x => y \notin cs[l].todo

(* Frame f knows of a node that is below num on the stack, by its low-link  *)
(* or by that of the successor it is about to come back from.               *)
LowerThan(f, num, lo) ==
    \/ lo[f.node] < num
    \/ f.at \in DOMAIN lo /\ lo[f.at] < num

-------------------------------------------------------------------------------
(* The invariant, part by part.                                             *)
Typed(found, st, lo, cs) ==
    /\ found \subseteq Nodes
    /\ st \in Seq(Nodes)
    /\ lo \in [DOMAIN lo -> 0 .. NumNodes]
    /\ DOMAIN lo \subseteq Nodes
    /\ cs \in Seq(Frame)

Once(st) == \A i, j \in 1 .. Len(st) : st[i] = st[j] => i = j

(* The visited nodes are those found, marked with the number of nodes, and  *)
(* those on the stack, numbered below that.                                 *)
Marked(found, st, lo) ==
    /\ found \subseteq DOMAIN lo
    /\ \A n \in DOMAIN lo : n \in found <=> lo[n] = NumNodes
    /\ \A n \in DOMAIN lo : n \in found <=> \A i \in 1 .. Len(st) : st[i] # n
    /\ \A i \in 1 .. Len(st) : st[i] \in DOMAIN lo /\ lo[st[i]] < Count(lo)

(* Only the frame on top may have to be entered; the others stand on the    *)
(* successor whose frame is above them.                                     *)
Linked(lo, cs) ==
    \A k \in 1 .. Len(cs) :
        /\ k < Len(cs) => cs[k].entered /\ cs[k].at = cs[k + 1].node
        /\ cs[k].entered => cs[k].num < Count(lo)
        /\ cs[k].entered /\ k = Len(cs) => cs[k].at \in DOMAIN lo
        /\ ~cs[k].entered => cs[k].num = Count(lo) /\ cs[k].at = cs[k].node

(* The nodes of the frames are on the stack, in the same order.             *)
OnPath(st, lo, cs) ==
    /\ \A k \in Entered(cs) : \E p \in 1 .. Len(st) : st[p] = cs[k].node
    /\ \A k \in Entered(cs) : lo[cs[k].node] <= cs[k].num
    /\ \A k, l \in Entered(cs), p, q \in 1 .. Len(st) :
          k < l /\ st[p] = cs[k].node /\ st[q] = cs[l].node
             => p < q /\ cs[k].num < cs[l].num

(* What lies below the node of a frame has a lower low-link than its number.*)
Below(st, lo, cs) ==
    \A k \in Entered(cs), p, m \in 1 .. Len(st) :
        st[p] = cs[k].node /\ m < p => lo[st[m]] < cs[k].num

(* An edge from at or above the node of a frame to below it is not lost:    *)
(* that frame or one above it knows of it.                                  *)
EdgesDown(st, lo, cs) ==
    \A k \in Entered(cs), p, i, m \in 1 .. Len(st) :
        st[p] = cs[k].node /\ p <= i /\ m < p /\ Done(st[i], st[m], cs)
            => \E j \in Entered(cs) : k <= j /\ LowerThan(cs[j], cs[k].num, lo)

(* What the enumerators have given has been visited, but for the node of    *)
(* the next frame; a node without a frame is through with its successors.   *)
Explored(st, lo, cs) ==
    /\ \A k \in Entered(cs) : \A y \in Successors(cs[k].node) \ cs[k].todo :
          y \in DOMAIN lo \/ y = cs[k].at
    /\ \A i \in 1 .. Len(st) :
          (\A k \in Entered(cs) : cs[k].node # st[i]) =>
              Successors(st[i]) \subseteq DOMAIN lo

(* The stack is the work of the first frame: it ends when that frame does.  *)
Bottom(st, lo, cs) ==
    /\ Len(cs) = 0 => Len(st) = 0
    /\ Len(cs) > 0 =>
          /\ \A i \in 1 .. Len(st) : cs[1].num <= lo[st[i]]
          /\ cs[1].entered => Len(st) > 0 /\ st[1] = cs[1].node
          /\ ~cs[1].entered => Len(st) = 0

Sound(found, st, lo, cs) ==
    /\ Typed(found, st, lo, cs)
    /\ Once(st)
    /\ Marked(found, st, lo)
    /\ Linked(lo, cs)
    /\ OnPath(st, lo, cs)
    /\ Below(st, lo, cs)
    /\ EdgesDown(st, lo, cs)
    /\ Explored(st, lo, cs)
    /\ Bottom(st, lo, cs)

-------------------------------------------------------------------------------
(* Front and Last, by their elements.                                       *)
LEMMA FrontLast ==
  ASSUME NEW S, NEW s \in Seq(S), s # <<>>
  PROVE  /\ Len(s) \in Nat \ {0}
         /\ Last(s) = s[Len(s)]
         /\ Last(s) \in S
         /\ Front(s) \in Seq(S)
         /\ Len(Front(s)) = Len(s) - 1
         /\ \A i \in 1 .. Len(s) - 1 : Front(s)[i] = s[i]
<1>1. Len(s) \in Nat /\ Len(s) # 0
  BY EmptySeq
<1>2. \A i \in 1 .. Len(s) - 1 : s[i] \in S
  BY <1>1, ElementOfSeq
<1> DEFINE k == Len(s) - 1
<1>3. k \in Int /\ 1 \in Int /\ Front(s) = SubSeq(s, 1, k)
  BY <1>1 DEF Front
<1>4. /\ SubSeq(s, 1, k) \in Seq(S)
      /\ Len(SubSeq(s, 1, k)) = IF 1 <= k THEN k - 1 + 1 ELSE 0
      /\ \A i \in 1 .. k - 1 + 1 : SubSeq(s, 1, k)[i] = s[1 + i - 1]
  <2>1. \A i \in 1 .. k : s[i] \in S
    BY <1>2
  <2> HIDE DEF k
  <2> QED
    BY <1>3, <2>1, SubSeqProperties
<1>5. Last(s) = s[Len(s)] /\ Last(s) \in S
  BY <1>1, ElementOfSeq DEF Last
<1>6. Len(Front(s)) = Len(s) - 1
  <2> HIDE DEF k
  <2>1. k \in Int /\ k >= 0 /\ k = Len(s) - 1
    BY <1>1 DEF k
  <2> QED
    BY <1>3, <1>4, <2>1
<1>7. \A i \in 1 .. Len(s) - 1 : Front(s)[i] = s[i]
  BY <1>1, <1>3, <1>4
<1> QED
  BY <1>1, <1>3, <1>4, <1>5, <1>6, <1>7

(* There are no more low-links than nodes ...                               *)
LEMMA CountBound ==
  ASSUME NEW lo, DOMAIN lo \subseteq Nodes
  PROVE  /\ IsFiniteSet(DOMAIN lo)
         /\ Count(lo) \in Nat
         /\ Count(lo) <= NumNodes
<1>1. IsFiniteSet(Nodes) /\ Cardinality(Nodes) = NumNodes
  BY NumNodesAssumption, FS_Interval DEF Nodes
<1> QED
  BY <1>1, FS_Subset, FS_CardinalityType DEF Count

(* ... and one more for each node that is entered.                          *)
LEMMA CountGrows ==
  ASSUME NEW lo, DOMAIN lo \subseteq Nodes, NEW l2, NEW x \in Nodes,
         x \notin DOMAIN lo, DOMAIN l2 = DOMAIN lo \cup {x}
  PROVE  /\ Count(l2) = Count(lo) + 1
         /\ Count(lo) < NumNodes
<1>1. Count(l2) = Count(lo) + 1
  BY CountBound, FS_AddElement DEF Count
<1>2. Count(l2) <= NumNodes /\ Count(lo) \in Nat
  <2>1. DOMAIN l2 \subseteq Nodes
    OBVIOUS
  <2> QED
    BY <2>1, CountBound
<1> QED
  BY <1>1, <1>2, NumNodesAssumption

-------------------------------------------------------------------------------
(* First half of a turn, the frame on top has still to be entered: its node *)
(* x is pushed, is given the number of the frame, and has everything to do. *)
Enters(st, lo, cs, top, x, s2, l2, c2) ==
    /\ top \in Nat /\ top > 0 /\ top = Len(cs) /\ ~cs[top].entered
    /\ x = cs[top].node /\ x \notin DOMAIN lo
    /\ s2 = Append(st, x)
    /\ l2 = [n \in DOMAIN lo \cup {x} |->
               IF n = x THEN cs[top].num ELSE lo[n]]
    /\ c2 \in Seq(Frame) /\ Len(c2) = top
    /\ \A k \in 1 .. top - 1 : c2[k] = cs[k]
    /\ c2[top].node = x /\ c2[top].entered /\ c2[top].num = cs[top].num
    /\ c2[top].todo = Successors(x) /\ c2[top].at = cs[top].at

(* Entering the node on top keeps the invariant, and its low-link is its own.*)
LEMMA EnterSound ==
  ASSUME NEW found, NEW st, NEW lo, NEW cs, Sound(found, st, lo, cs),
         NEW top, NEW x, NEW s2, NEW l2, NEW c2,
         Enters(st, lo, cs, top, x, s2, l2, c2)
  PROVE  Sound(found, s2, l2, c2) /\ l2[x] <= l2[c2[top].at]
<1> USE DEF Enters
<1> DEFINE num == cs[top].num
<1>1. /\ x \in Nodes
      /\ num \in Nat
      /\ \A k \in 1 .. top : cs[k].num \in Nat
  <2>1. \A k \in 1 .. top : cs[k] \in Frame /\ c2[k] \in Frame
    BY ElementOfSeq DEF Sound, Typed
  <2> QED
    BY <2>1 DEF Frame
<1>2. /\ Len(st) \in Nat
      /\ \A i \in 1 .. Len(st) : st[i] \in Nodes
      /\ s2 \in Seq(Nodes)
      /\ Len(s2) = Len(st) + 1
      /\ \A i \in 1 .. Len(st) : s2[i] = st[i]
      /\ s2[Len(st) + 1] = x
  BY <1>1, AppendProperties, ElementOfSeq, LenProperties DEF Sound, Typed
<1>3. /\ num = Count(lo)
      /\ Count(lo) \in Nat
      /\ Count(l2) = Count(lo) + 1
      /\ Count(lo) < NumNodes
      /\ cs[top].at = x
  <2>1. num = Count(lo) /\ cs[top].at = x
    BY DEF Sound, Linked
  <2>2. DOMAIN lo \subseteq Nodes
    BY DEF Sound, Typed
  <2>3. DOMAIN l2 = DOMAIN lo \cup {x}
    OBVIOUS
  <2>4. Count(l2) = Count(lo) + 1 /\ Count(lo) < NumNodes
    BY <1>1, <2>2, <2>3, CountGrows
  <2>5. Count(lo) \in Nat
    BY <2>2, CountBound
  <2> QED
    BY <2>1, <2>4, <2>5
<1>4. /\ DOMAIN l2 = DOMAIN lo \cup {x}
      /\ l2[x] = num
      /\ \A n \in DOMAIN lo : l2[n] = lo[n] /\ lo[n] \in 0 .. NumNodes
  BY DEF Sound, Typed
\* The frames that have been entered are those from before and the top.
<1>5. /\ Entered(c2) = Entered(cs) \cup {top}
      /\ Entered(cs) \subseteq 1 .. top - 1
      /\ \A k \in Entered(cs) : c2[k] = cs[k] /\ cs[k].num \in Nat
  <2>1. Entered(cs) \subseteq 1 .. top - 1
    BY DEF Entered
  <2>2. \A k \in Entered(cs) : c2[k] = cs[k] /\ cs[k].num \in Nat
    BY <1>1, <2>1
  <2> QED
    BY <2>1, <2>2 DEF Entered
<1>6. \A i \in 1 .. Len(st) : /\ st[i] \in DOMAIN lo
                              /\ st[i] # x
                              /\ lo[st[i]] < Count(lo)
  BY DEF Sound, Marked
<1>7. \A k \in Entered(cs) : cs[k].node \in DOMAIN lo /\ cs[k].node # x
  BY <1>6 DEF Sound, OnPath
<1>8. \A k \in Entered(cs) : cs[k].num < num
  BY <1>3, <1>5 DEF Sound, Linked
<1> HIDE DEF num
<1>a. Typed(found, s2, l2, c2)
  <2>1. l2 \in [DOMAIN l2 -> 0 .. NumNodes]
    BY <1>1, <1>3, <1>4, NumNodesAssumption
  <2> QED
    BY <1>1, <1>2, <1>4, <2>1 DEF Sound, Typed
<1>b. Once(s2)
  BY <1>2, <1>6 DEF Sound, Once
<1>c. Marked(found, s2, l2)
  <2>1. x \notin found
    BY DEF Sound, Marked
  <2>2. \A n \in DOMAIN l2 : n \in found <=> l2[n] = NumNodes
    BY <1>1, <1>3, <1>4, <2>1, NumNodesAssumption DEF Sound, Marked
  <2>3. \A n \in DOMAIN l2 : n \in found <=> \A i \in 1 .. Len(s2) : s2[i] # n
    <3>1. CASE \A n \in DOMAIN lo : n # x
      BY <1>2, <1>4, <2>1, <3>1 DEF Sound, Marked
    <3> QED
      BY <3>1
  <2>4. \A i \in 1 .. Len(s2) : s2[i] \in DOMAIN l2 /\ l2[s2[i]] < Count(l2)
    BY <1>2, <1>3, <1>4, <1>6, NumNodesAssumption
  <2> QED
    BY <1>4, <2>2, <2>3, <2>4 DEF Sound, Marked
<1>d. Linked(l2, c2)
  <2> SUFFICES ASSUME NEW k \in 1 .. top
               PROVE  /\ k < top => c2[k].entered /\ c2[k].at = c2[k + 1].node
                      /\ c2[k].entered => c2[k].num < Count(l2)
                      /\ c2[k].entered /\ k = top => c2[k].at \in DOMAIN l2
                      /\ ~c2[k].entered => c2[k].num = Count(l2)
                                           /\ c2[k].at = c2[k].node
    BY DEF Linked
  <2>1. CASE k = top
    BY <1>3, <1>4, <2>1 DEF num
  <2>2. CASE k < top
    <3>1. /\ k \in 1 .. top - 1
          /\ cs[k].entered
          /\ cs[k].at = cs[k + 1].node
          /\ cs[k].num < Count(lo)
          /\ cs[k].num \in Nat
      <4>1. k \in 1 .. Len(cs) /\ k < Len(cs) /\ k \in 1 .. top - 1
        BY <2>2
      <4>2. /\ cs[k].entered
            /\ cs[k].at = cs[k + 1].node
            /\ cs[k].num < Count(lo)
        BY <4>1 DEF Sound, Linked
      <4> QED
        BY <1>1, <4>1, <4>2
    <3>2. c2[k + 1].node = cs[k + 1].node
      BY <2>2
    <3> QED
      BY <1>3, <2>2, <3>1, <3>2
  <2> QED
    BY <2>1, <2>2
<1>e. OnPath(s2, l2, c2)
  <2>1. ASSUME NEW k \in Entered(c2)
        PROVE  \E p \in 1 .. Len(s2) : s2[p] = c2[k].node
    <3>1. CASE k = top
      BY <1>2, <3>1
    <3>2. CASE k \in Entered(cs)
      <4>1. PICK p \in 1 .. Len(st) : st[p] = cs[k].node
        BY <3>2 DEF Sound, OnPath
      <4> QED
        BY <1>2, <1>5, <3>2, <4>1
    <3> QED
      BY <1>5, <3>1, <3>2
  <2>2. \A k \in Entered(c2) : l2[c2[k].node] <= c2[k].num
    BY <1>1, <1>4, <1>5, <1>7 DEF Sound, OnPath, num
  <2>3. ASSUME NEW k \in Entered(c2), NEW l \in Entered(c2),
               NEW p \in 1 .. Len(s2), NEW q \in 1 .. Len(s2),
               k < l, s2[p] = c2[k].node, s2[q] = c2[l].node
        PROVE  p < q /\ c2[k].num < c2[l].num
    <3>1. k \in Entered(cs) /\ p \in 1 .. Len(st) /\ st[p] = cs[k].node
      BY <1>2, <1>5, <1>7, <2>3
    <3>2. CASE l = top
      <4>1. q = Len(st) + 1
        BY <1>2, <1>6, <2>3, <3>2
      <4> QED
        BY <1>2, <1>5, <1>8, <3>1, <3>2, <4>1 DEF num
    <3>3. CASE l \in Entered(cs)
      <4>1. q \in 1 .. Len(st) /\ st[q] = cs[l].node
        BY <1>2, <1>5, <1>7, <2>3, <3>3
      <4>2. p < q /\ cs[k].num < cs[l].num
        BY <2>3, <3>1, <3>3, <4>1 DEF Sound, OnPath
      <4>3. c2[k] = cs[k] /\ c2[l] = cs[l]
        BY <1>5, <3>1, <3>3
      <4> QED
        BY <4>2, <4>3
    <3> QED
      BY <1>5, <3>2, <3>3
  <2> QED
    BY <2>1, <2>2, <2>3 DEF OnPath
<1>f. Below(s2, l2, c2)
  <2> SUFFICES ASSUME NEW k \in Entered(c2),
                      NEW p \in 1 .. Len(s2), NEW m \in 1 .. Len(s2),
                      s2[p] = c2[k].node, m < p
               PROVE  l2[s2[m]] < c2[k].num
    BY DEF Below
  <2>1. m \in 1 .. Len(st) /\ l2[s2[m]] = lo[st[m]]
    BY <1>2, <1>4, <1>6
  <2>2. CASE k = top
    BY <1>3, <1>6, <2>1, <2>2 DEF num
  <2>3. CASE k \in Entered(cs)
    <3>1. p \in 1 .. Len(st) /\ st[p] = cs[k].node
      BY <1>2, <1>5, <1>7, <2>3
    <3> QED
      BY <1>5, <2>1, <2>3, <3>1 DEF Sound, Below
  <2> QED
    BY <1>5, <2>2, <2>3
<1>g. EdgesDown(s2, l2, c2)
  <2> SUFFICES ASSUME NEW k \in Entered(c2), NEW p \in 1 .. Len(s2),
                      NEW i \in 1 .. Len(s2), NEW m \in 1 .. Len(s2),
                      s2[p] = c2[k].node, p <= i, m < p, Done(s2[i], s2[m], c2)
               PROVE  \E j \in Entered(c2) :
                          k <= j /\ LowerThan(c2[j], c2[k].num, l2)
    BY DEF EdgesDown
  \* Of the new node no edge is done yet.
  <2>1. s2[i] # x
    <3>1. \A y : ~Done(x, y, c2)
      BY <1>5 DEF Done
    <3> QED
      BY <3>1
  <2>2. /\ i \in 1 .. Len(st) /\ s2[i] = st[i]
        /\ p \in 1 .. Len(st) /\ s2[p] = st[p]
        /\ m \in 1 .. Len(st) /\ s2[m] = st[m]
    BY <1>2, <2>1
  <2>3. k \in Entered(cs) /\ c2[k] = cs[k]
    BY <1>5, <1>6, <2>2
  <2>4. Done(st[i], st[m], cs)
    BY <1>5, <2>2 DEF Done
  <2>5. PICK j \in Entered(cs) : k <= j /\ LowerThan(cs[j], cs[k].num, lo)
    BY <2>2, <2>3, <2>4 DEF Sound, EdgesDown
  <2>6. LowerThan(c2[j], c2[k].num, l2)
    <3>1. c2[j] = cs[j] /\ c2[k] = cs[k] /\ cs[j].node \in DOMAIN lo
      BY <1>5, <1>7, <2>3
    <3>2. l2[cs[j].node] = lo[cs[j].node]
      BY <1>4, <3>1
    <3>3. cs[j].at \in DOMAIN lo =>
             cs[j].at \in DOMAIN l2 /\ l2[cs[j].at] = lo[cs[j].at]
      BY <1>4
    <3> QED
      BY <2>5, <3>1, <3>2, <3>3 DEF LowerThan
  <2> QED
    BY <1>5, <2>5, <2>6
<1>h. Explored(s2, l2, c2)
  <2>1. \A k \in Entered(c2) :
           \A y \in Successors(c2[k].node) \ c2[k].todo :
               y \in DOMAIN l2 \/ y = c2[k].at
    BY <1>4, <1>5 DEF Sound, Explored
  <2>2. ASSUME NEW i \in 1 .. Len(s2),
               \A k \in Entered(c2) : c2[k].node # s2[i]
        PROVE  Successors(s2[i]) \subseteq DOMAIN l2
    <3>1. i \in 1 .. Len(st) /\ s2[i] = st[i]
      BY <1>2, <1>5, <2>2
    <3>2. \A k \in Entered(cs) : cs[k].node # st[i]
      BY <1>5, <2>2, <3>1
    <3>3. Successors(st[i]) \subseteq DOMAIN lo
      BY <3>1, <3>2 DEF Sound, Explored
    <3> QED
      BY <1>4, <3>1, <3>3
  <2> QED
    BY <2>1, <2>2 DEF Explored
<1>i. Bottom(s2, l2, c2)
  <2>1. c2[1].num = cs[1].num /\ c2[1].node = cs[1].node /\ c2[1].entered
    <3>1. CASE top = 1
      BY <3>1
    <3>2. CASE top > 1
      BY <3>2 DEF Sound, Linked
    <3> QED
      BY <3>1, <3>2
  <2>2. cs[1].num <= num /\ cs[1].num \in Nat
    <3>1. CASE top = 1
      BY <1>1, <3>1 DEF num
    <3>2. CASE top > 1
      <4>1. 1 \in Entered(cs)
        BY <3>2 DEF Entered, Sound, Linked
      <4> QED
        BY <1>1, <1>5, <1>8, <4>1 DEF num
    <3> QED
      BY <3>1, <3>2
  <2>3. \A i \in 1 .. Len(s2) : cs[1].num <= l2[s2[i]]
    BY <1>2, <1>4, <1>6, <2>2 DEF Sound, Bottom
  <2>4. s2[1] = cs[1].node
    <3>1. CASE top = 1
      BY <1>2, <3>1 DEF Sound, Bottom
    <3>2. CASE top > 1
      BY <1>2, <3>2 DEF Sound, Bottom, Linked
    <3> QED
      BY <3>1, <3>2
  <2>5. Len(s2) > 0 /\ Len(c2) # 0
    BY <1>2
  <2> QED
    BY <2>1, <2>3, <2>4, <2>5 DEF Bottom
<1>j. l2[x] <= l2[c2[top].at]
  BY <1>1, <1>3, <1>4 DEF num
<1> QED
  BY <1>a, <1>b, <1>c, <1>d, <1>e, <1>f, <1>g, <1>h, <1>i, <1>j DEF Sound

-------------------------------------------------------------------------------
(* First half of a turn, the frame on top comes back from a successor.      *)
LEMMA AbsorbSound ==
  ASSUME NEW found, NEW st, NEW lo, NEW cs, Sound(found, st, lo, cs),
         NEW top \in Nat, top > 0, top = Len(cs), cs[top].entered,
         NEW x, x = cs[top].node,
         NEW l2, l2 = [lo EXCEPT ![x] = Min({lo[x], lo[cs[top].at]})]
  PROVE  Sound(found, st, l2, cs) /\ l2[x] <= l2[cs[top].at]
<1> DEFINE at == cs[top].at
<1>1. /\ Len(st) \in Nat
      /\ \A k \in 1 .. top : cs[k].num \in Nat
      /\ \A n \in DOMAIN lo : lo[n] \in Nat /\ lo[n] <= NumNodes
      /\ Count(lo) \in Nat
      /\ Count(lo) <= NumNodes
  <2>1. \A k \in 1 .. top : cs[k] \in Frame
    BY ElementOfSeq DEF Sound, Typed
  <2>2. DOMAIN lo \subseteq Nodes
    BY DEF Sound, Typed
  <2> QED
    BY <2>1, <2>2, CountBound, LenProperties, NumNodesAssumption
       DEF Sound, Typed, Frame
<1>2. at \in DOMAIN lo
  BY DEF Sound, Linked
<1>3. PICK p0 \in 1 .. Len(st) : st[p0] = x
  BY DEF Sound, OnPath, Entered
<1>4. x \in DOMAIN lo /\ lo[x] < Count(lo)
  BY <1>3 DEF Sound, Marked
<1>5. /\ l2[x] \in Nat
      /\ l2[x] <= NumNodes
      /\ l2[x] <= lo[x]
      /\ l2[x] <= lo[at]
      /\ l2[x] = lo[x] \/ l2[x] = lo[at]
  <2> DEFINE S == {lo[x], lo[at]}
  <2>1. /\ lo[x] \in Nat /\ lo[x] <= NumNodes
        /\ lo[at] \in Nat /\ lo[at] <= NumNodes
    BY <1>1, <1>2, <1>4
  <2>2. \E y \in S : \A z \in S : y <= z
    BY <2>1, NumNodesAssumption
  <2>3. Min(S) \in S /\ \A z \in S : Min(S) <= z
    BY <2>2 DEF Min
  <2>4. l2[x] = Min(S)
    BY <1>4
  <2> HIDE DEF S
  <2>5. lo[x] \in S /\ lo[at] \in S /\ (Min(S) = lo[x] \/ Min(S) = lo[at])
    BY <2>3 DEF S
  <2> QED
    BY <2>1, <2>3, <2>4, <2>5
<1>6. /\ DOMAIN l2 = DOMAIN lo
      /\ \A n \in DOMAIN lo : n # x => l2[n] = lo[n]
  OBVIOUS
<1>7. \A n \in DOMAIN lo : /\ l2[n] \in Nat
                             /\ l2[n] <= NumNodes
                             /\ l2[n] <= lo[n]
  <2> SUFFICES ASSUME NEW n \in DOMAIN lo
               PROVE  /\ l2[n] \in Nat
                      /\ l2[n] <= NumNodes
                      /\ l2[n] <= lo[n]
    OBVIOUS
  <2>1. CASE n = x
    BY <1>5, <2>1
  <2>2. CASE n # x
    BY <1>1, <1>6, <2>2
  <2> QED
    BY <2>1, <2>2
<1>8. Count(l2) = Count(lo)
  BY <1>6 DEF Count
<1>9. \A i \in 1 .. Len(st) : st[i] \in DOMAIN lo /\ lo[st[i]] < Count(lo)
  BY DEF Sound, Marked
<1>10. \A k \in Entered(cs) : k \in 1 .. top /\ cs[k].node \in DOMAIN lo
  BY <1>9 DEF Sound, OnPath, Entered
<1> HIDE DEF at
<1>a. Typed(found, st, l2, cs)
  <2>1. l2 \in [DOMAIN l2 -> 0 .. NumNodes]
    <3>1. \A n \in DOMAIN l2 : l2[n] \in 0 .. NumNodes
      <4>1. ASSUME NEW v \in Nat, v <= NumNodes PROVE v \in 0 .. NumNodes
        BY <4>1, NumNodesAssumption
      <4> QED
        BY <1>6, <1>7, <4>1
    <3>2. l2 = [n \in DOMAIN l2 |-> l2[n]]
      OBVIOUS
    <3> QED
      BY <3>1, <3>2
  <2> QED
    BY <1>6, <2>1 DEF Sound, Typed
<1>b. Once(st)
  BY DEF Sound
<1>c. Marked(found, st, l2)
  <2>1. x \notin found /\ l2[x] # NumNodes
    BY <1>1, <1>3, <1>4, <1>5, NumNodesAssumption DEF Sound, Marked
  <2>2. \A n \in DOMAIN l2 : n \in found <=> l2[n] = NumNodes
    BY <1>6, <2>1 DEF Sound, Marked
  <2>3. \A i \in 1 .. Len(st) : st[i] \in DOMAIN l2 /\ l2[st[i]] < Count(l2)
    <3> SUFFICES ASSUME NEW i \in 1 .. Len(st)
                 PROVE  st[i] \in DOMAIN l2 /\ l2[st[i]] < Count(l2)
      OBVIOUS
    <3>1. /\ st[i] \in DOMAIN lo
          /\ lo[st[i]] < Count(lo)
          /\ lo[st[i]] \in Nat
          /\ l2[st[i]] \in Nat
          /\ l2[st[i]] <= lo[st[i]]
      BY <1>1, <1>7, <1>9
    <3> QED
      BY <1>1, <1>6, <1>8, <3>1
  <2> QED
    BY <1>6, <2>2, <2>3 DEF Sound, Marked
<1>d. Linked(l2, cs)
  BY <1>6, <1>8 DEF Sound, Linked
<1>e. OnPath(st, l2, cs)
  <2>1. ASSUME NEW k \in Entered(cs) PROVE l2[cs[k].node] <= cs[k].num
    <3>1. lo[cs[k].node] <= cs[k].num
      BY DEF Sound, OnPath
    <3>2. /\ cs[k].num \in Nat
          /\ lo[cs[k].node] \in Nat
          /\ l2[cs[k].node] \in Nat
          /\ l2[cs[k].node] <= lo[cs[k].node]
      BY <1>1, <1>7, <1>10
    <3> QED
      BY <3>1, <3>2
  <2> QED
    BY <2>1 DEF Sound, OnPath
<1>f. Below(st, l2, cs)
  <2> SUFFICES ASSUME NEW k \in Entered(cs),
                      NEW p \in 1 .. Len(st), NEW m \in 1 .. Len(st),
                      st[p] = cs[k].node, m < p
               PROVE  l2[st[m]] < cs[k].num
    BY DEF Below
  <2>1. lo[st[m]] < cs[k].num
    BY DEF Sound, Below
  <2>2. /\ cs[k].num \in Nat
        /\ lo[st[m]] \in Nat
        /\ l2[st[m]] \in Nat
        /\ l2[st[m]] <= lo[st[m]]
    BY <1>1, <1>7, <1>9, <1>10
  <2> QED
    BY <2>1, <2>2
<1>g. EdgesDown(st, l2, cs)
  \* What is known to be low only gets lower.
  <2>1. ASSUME NEW j \in Entered(cs), NEW k \in Entered(cs),
               LowerThan(cs[j], cs[k].num, lo)
        PROVE  LowerThan(cs[j], cs[k].num, l2)
    <3>1. \A n \in DOMAIN lo : lo[n] < cs[k].num => l2[n] < cs[k].num
      <4> SUFFICES ASSUME NEW n \in DOMAIN lo, lo[n] < cs[k].num
                   PROVE  l2[n] < cs[k].num
        OBVIOUS
      <4>1. /\ lo[n] \in Nat
            /\ l2[n] \in Nat
            /\ l2[n] <= lo[n]
            /\ cs[k].num \in Nat
        BY <1>1, <1>7, <1>10
      <4> QED
        BY <4>1
    <3> QED
      BY <1>6, <1>10, <2>1, <3>1 DEF LowerThan
  <2> QED
    BY <2>1 DEF Sound, EdgesDown
<1>h. Explored(st, l2, cs)
  BY <1>6 DEF Sound, Explored
<1>i. Bottom(st, l2, cs)
  <2>1. ASSUME NEW i \in 1 .. Len(st) PROVE cs[1].num <= l2[st[i]]
    <3>1. cs[1].num <= lo[st[i]]
      BY DEF Sound, Bottom
    <3>2. CASE st[i] # x
      BY <1>6, <1>9, <3>1, <3>2
    <3>3. CASE st[i] = x /\ at \in found
      \* The successor has its component: its mark is above every number.
      <4>1. lo[at] = NumNodes
        BY <1>2, <3>3 DEF Sound, Marked
      <4>2. lo[x] <= lo[at] /\ lo[x] \in Nat /\ l2[x] \in Nat
        BY <1>1, <1>4, <1>7, <4>1
      <4>3. l2[x] = lo[x]
        BY <1>1, <1>2, <1>5, <4>1, <4>2, NumNodesAssumption
      <4> QED
        BY <3>1, <3>3, <4>3
    <3>4. CASE st[i] = x /\ at \notin found
      <4>1. PICK q \in 1 .. Len(st) : st[q] = at
        BY <1>2, <3>4 DEF Sound, Marked
      <4>2. cs[1].num <= lo[at]
        BY <4>1 DEF Sound, Bottom
      <4> QED
        BY <1>5, <3>1, <3>4, <4>2
    <3> QED
      BY <3>2, <3>3, <3>4
  <2> QED
    BY <2>1 DEF Sound, Bottom
<1>j. l2[x] <= l2[at]
  <2>1. CASE at = x
    BY <1>5, <2>1
  <2>2. CASE at # x
    BY <1>2, <1>5, <1>6, <2>2
  <2> QED
    BY <2>1, <2>2
<1> QED
  BY <1>a, <1>b, <1>c, <1>d, <1>e, <1>f, <1>g, <1>h, <1>i, <1>j DEF Sound, at

-------------------------------------------------------------------------------
(* Second half of a turn: down to a successor, whose frame has still to be  *)
(* entered.                                                                 *)
Descends(lo, cs, top, x, succ, c2) ==
    /\ top \in Nat /\ top > 0 /\ top = Len(cs) /\ cs[top].entered
    /\ x = cs[top].node /\ lo[x] <= lo[cs[top].at]
    /\ succ \in cs[top].todo
    /\ c2 \in Seq(Frame) /\ Len(c2) = top + 1
    /\ \A k \in 1 .. top - 1 : c2[k] = cs[k]
    /\ c2[top].node = x /\ c2[top].entered /\ c2[top].num = cs[top].num
    /\ c2[top].todo = cs[top].todo \ {succ} /\ c2[top].at = succ
    /\ c2[top + 1].node = succ /\ ~c2[top + 1].entered
    /\ c2[top + 1].num = Count(lo) /\ c2[top + 1].at = succ

(* Going down keeps the invariant: an edge to below is known by its low-link.*)
LEMMA DescendSound ==
  ASSUME NEW found, NEW st, NEW lo, NEW cs, Sound(found, st, lo, cs),
         NEW top, NEW x, NEW succ, NEW c2, Descends(lo, cs, top, x, succ, c2)
  PROVE  Sound(found, st, lo, c2)
<1> USE DEF Descends
<1>1. /\ Len(st) \in Nat
      /\ \A k \in 1 .. top : cs[k].num \in Nat
      /\ \A n \in DOMAIN lo : lo[n] \in Nat
  <2>1. \A k \in 1 .. top : cs[k] \in Frame
    BY ElementOfSeq DEF Sound, Typed
  <2> QED
    BY <2>1, LenProperties DEF Sound, Typed, Frame
<1>2. /\ Entered(c2) = Entered(cs)
      /\ Entered(cs) \subseteq 1 .. top
      /\ top \in Entered(cs)
  BY DEF Entered
<1>3. \A k \in Entered(cs) : /\ c2[k].node = cs[k].node
                             /\ c2[k].num = cs[k].num
                             /\ k # top => c2[k] = cs[k]
  BY <1>2
<1>4. cs[top].at \in DOMAIN lo
  BY DEF Sound, Linked
<1>5. \A i \in 1 .. Len(st) : st[i] \in DOMAIN lo
  BY DEF Sound, Marked
<1>6. \A k \in Entered(cs) : cs[k].node \in DOMAIN lo
  BY <1>5 DEF Sound, OnPath
<1>d. Linked(lo, c2)
  <2> SUFFICES ASSUME NEW k \in 1 .. top + 1
               PROVE  /\ k < top + 1 => c2[k].entered
                                        /\ c2[k].at = c2[k + 1].node
                      /\ c2[k].entered => c2[k].num < Count(lo)
                      /\ c2[k].entered /\ k = top + 1 =>
                            c2[k].at \in DOMAIN lo
                      /\ ~c2[k].entered => c2[k].num = Count(lo)
                                           /\ c2[k].at = c2[k].node
    BY DEF Linked
  <2>1. CASE k = top + 1
    BY <2>1
  <2>2. CASE k = top
    <3>1. cs[top].num < Count(lo)
      BY DEF Sound, Linked
    <3> QED
      BY <2>2, <3>1
  <2>3. CASE k < top
    <3>1. /\ k \in 1 .. top - 1
          /\ cs[k].entered
          /\ cs[k].at = cs[k + 1].node
          /\ cs[k].num < Count(lo)
      <4>1. k \in 1 .. Len(cs) /\ k < Len(cs) /\ k \in 1 .. top - 1
        BY <2>3
      <4> QED
        BY <4>1 DEF Sound, Linked
    <3>2. c2[k + 1].node = cs[k + 1].node
      <4>1. CASE k + 1 = top
        BY <4>1
      <4>2. CASE k + 1 < top
        BY <2>3, <4>2
      <4> QED
        BY <2>3, <4>1, <4>2
    <3> QED
      BY <2>3, <3>1, <3>2
  <2> QED
    BY <2>1, <2>2, <2>3
<1>e. OnPath(st, lo, c2)
  <2>1. /\ \A k \in Entered(c2) : \E p \in 1 .. Len(st) : st[p] = c2[k].node
        /\ \A k \in Entered(c2) : lo[c2[k].node] <= c2[k].num
    BY <1>2, <1>3 DEF Sound, OnPath
  <2>2. ASSUME NEW k \in Entered(c2), NEW l \in Entered(c2),
               NEW p \in 1 .. Len(st), NEW q \in 1 .. Len(st),
               k < l, st[p] = c2[k].node, st[q] = c2[l].node
        PROVE  p < q /\ c2[k].num < c2[l].num
    <3>1. /\ k \in Entered(cs) /\ st[p] = cs[k].node /\ c2[k].num = cs[k].num
          /\ l \in Entered(cs) /\ st[q] = cs[l].node /\ c2[l].num = cs[l].num
      BY <1>2, <1>3, <2>2
    <3>2. p < q /\ cs[k].num < cs[l].num
      BY <2>2, <3>1 DEF Sound, OnPath
    <3> QED
      BY <3>1, <3>2
  <2> QED
    BY <2>1, <2>2 DEF OnPath
<1>f. Below(st, lo, c2)
  BY <1>2, <1>3 DEF Sound, Below
<1>g. EdgesDown(st, lo, c2)
  <2> SUFFICES ASSUME NEW k \in Entered(cs), NEW p \in 1 .. Len(st),
                      NEW i \in 1 .. Len(st), NEW m \in 1 .. Len(st),
                      st[p] = cs[k].node, p <= i, m < p, Done(st[i], st[m], c2)
               PROVE  \E j \in Entered(cs) :
                          k <= j /\ LowerThan(c2[j], cs[k].num, lo)
    BY <1>2, <1>3 DEF EdgesDown
  <2>1. k <= top
    BY <1>2
  <2>2. CASE Done(st[i], st[m], cs)
    <3>1. PICK j \in Entered(cs) : k <= j /\ LowerThan(cs[j], cs[k].num, lo)
      BY <2>2 DEF Sound, EdgesDown
    <3>2. CASE j # top
      BY <1>3, <3>1, <3>2
    <3>3. CASE j = top
      \* It has taken over what it knew by the last successor.
      <4>1. lo[x] < cs[k].num
        <5>1. lo[x] < cs[k].num \/ lo[cs[top].at] < cs[k].num
          BY <3>1, <3>3 DEF LowerThan
        <5>2. /\ lo[x] \in Nat
              /\ lo[cs[top].at] \in Nat
              /\ cs[k].num \in Nat
          BY <1>1, <1>2, <1>4, <1>6
        <5> QED
          BY <5>1, <5>2
      <4> QED
        BY <1>2, <2>1, <4>1 DEF LowerThan
    <3> QED
      BY <3>2, <3>3
  <2>3. CASE ~Done(st[i], st[m], cs)
    \* The edge is the one that is gone down.
    <3>1. st[m] = succ
      <4>1. \A y : Done(x, y, c2) /\ y # succ => Done(x, y, cs)
        BY <1>2, <1>3 DEF Done
      <4>2. \A z, y : z # x /\ Done(z, y, c2) => Done(z, y, cs)
        BY <1>2, <1>3 DEF Done
      <4> QED
        BY <2>3, <4>1, <4>2
    <3>2. lo[st[m]] < cs[k].num
      BY DEF Sound, Below
    <3>3. LowerThan(c2[top], cs[k].num, lo)
      BY <1>5, <3>1, <3>2 DEF LowerThan
    <3> QED
      BY <1>2, <2>1, <3>3
  <2> QED
    BY <2>2, <2>3
<1>h. Explored(st, lo, c2)
  <2>1. ASSUME NEW k \in Entered(cs),
               NEW y \in Successors(c2[k].node) \ c2[k].todo
        PROVE  y \in DOMAIN lo \/ y = c2[k].at
    <3>1. CASE k # top
      BY <1>3, <3>1 DEF Sound, Explored
    <3>2. CASE k = top /\ y # succ
      <4>1. y \in Successors(cs[top].node) \ cs[top].todo
        BY <1>2, <1>3, <3>2
      <4> QED
        BY <1>2, <1>4, <4>1 DEF Sound, Explored
    <3>3. CASE k = top /\ y = succ
      BY <3>3
    <3> QED
      BY <3>1, <3>2, <3>3
  <2>2. \A i \in 1 .. Len(st) :
           (\A k \in Entered(c2) : c2[k].node # st[i]) =>
               Successors(st[i]) \subseteq DOMAIN lo
    BY <1>2, <1>3 DEF Sound, Explored
  <2> QED
    BY <1>2, <2>1, <2>2 DEF Explored
<1>i. Bottom(st, lo, c2)
  <2>1. /\ c2[1].num = cs[1].num
        /\ c2[1].node = cs[1].node
        /\ c2[1].entered
        /\ cs[1].entered
    <3>1. CASE top = 1
      BY <3>1
    <3>2. CASE top > 1
      BY <3>2 DEF Sound, Linked
    <3> QED
      BY <3>1, <3>2
  <2>2. Len(c2) # 0 /\ Len(c2) > 0 /\ Len(cs) > 0
    OBVIOUS
  <2> QED
    BY <2>1, <2>2 DEF Sound, Bottom
<1> QED
  BY <1>d, <1>e, <1>f, <1>g, <1>h, <1>i DEF Sound, Typed

-------------------------------------------------------------------------------
(* Second half of a turn: the node is not the start of a component, and its *)
(* frame goes.  It cannot be the first one.                                 *)
LEMMA RetreatSound ==
  ASSUME NEW found, NEW st, NEW lo, NEW cs, Sound(found, st, lo, cs),
         NEW top \in Nat, top > 0, top = Len(cs), cs[top].entered,
         NEW x, x = cs[top].node, lo[x] <= lo[cs[top].at],
         cs[top].todo = {}, lo[x] # cs[top].num,
         NEW c2 \in Seq(Frame), Len(c2) = top - 1,
         \A k \in 1 .. top - 1 : c2[k] = cs[k]
  PROVE  Sound(found, st, lo, c2) /\ top > 1
<1>1. /\ Len(st) \in Nat
      /\ \A k \in 1 .. top : cs[k].num \in Nat
      /\ \A n \in DOMAIN lo : lo[n] \in Nat
  <2>1. \A k \in 1 .. top : cs[k] \in Frame
    BY ElementOfSeq DEF Sound, Typed
  <2> QED
    BY <2>1, LenProperties DEF Sound, Typed, Frame
<1>2. /\ Entered(c2) = Entered(cs) \ {top}
      /\ Entered(cs) \subseteq 1 .. top
      /\ top \in Entered(cs)
      /\ \A k \in Entered(c2) : c2[k] = cs[k]
  BY DEF Entered
<1>3. cs[top].at \in DOMAIN lo
  BY DEF Sound, Linked
<1>4. \A i \in 1 .. Len(st) : st[i] \in DOMAIN lo
  BY DEF Sound, Marked
<1>5. \A k \in Entered(cs) : cs[k].node \in DOMAIN lo
  BY <1>4 DEF Sound, OnPath
<1>6. top > 1
  <2> SUFFICES ASSUME top = 1 PROVE FALSE
    OBVIOUS
  <2>1. Len(st) > 0 /\ st[1] = x
    BY DEF Sound, Bottom
  <2>2. cs[1].num <= lo[x]
    BY <1>1, <2>1 DEF Sound, Bottom
  <2>3. lo[x] <= cs[1].num
    BY <1>2 DEF Sound, OnPath
  <2> QED
    BY <1>1, <1>2, <1>5, <2>2, <2>3
<1>7. /\ top - 1 \in Entered(cs)
      /\ top - 1 \in Entered(c2)
      /\ c2[top - 1].at = x
  BY <1>6 DEF Sound, Linked, Entered
<1>8. x \in DOMAIN lo
  BY <1>2, <1>5
<1>d. Linked(lo, c2)
  <2> SUFFICES ASSUME NEW k \in 1 .. top - 1
               PROVE  /\ k < top - 1 => c2[k].entered
                                        /\ c2[k].at = c2[k + 1].node
                      /\ c2[k].entered => c2[k].num < Count(lo)
                      /\ c2[k].entered /\ k = top - 1 =>
                            c2[k].at \in DOMAIN lo
                      /\ ~c2[k].entered => c2[k].num = Count(lo)
                                           /\ c2[k].at = c2[k].node
    BY DEF Linked
  <2>1. cs[k].entered /\ cs[k].at = cs[k + 1].node /\ cs[k].num < Count(lo)
    BY DEF Sound, Linked
  <2>2. k < top - 1 => c2[k + 1] = cs[k + 1]
    OBVIOUS
  <2>3. k = top - 1 => c2[k].at \in DOMAIN lo
    BY <1>7, <1>8
  <2> QED
    BY <2>1, <2>2, <2>3
<1>e. OnPath(st, lo, c2)
  <2>1. /\ \A k \in Entered(c2) : \E p \in 1 .. Len(st) : st[p] = c2[k].node
        /\ \A k \in Entered(c2) : lo[c2[k].node] <= c2[k].num
    <3>1. \A k \in Entered(c2) : k \in Entered(cs) /\ c2[k] = cs[k]
      BY <1>2
    <3>2. \A k \in Entered(cs) : \E p \in 1 .. Len(st) : st[p] = cs[k].node
      BY DEF Sound, OnPath
    <3>3. \A k \in Entered(cs) : lo[cs[k].node] <= cs[k].num
      BY DEF Sound, OnPath
    <3> QED
      BY <3>1, <3>2, <3>3
  <2>2. ASSUME NEW k \in Entered(c2), NEW l \in Entered(c2),
               NEW p \in 1 .. Len(st), NEW q \in 1 .. Len(st),
               k < l, st[p] = c2[k].node, st[q] = c2[l].node
        PROVE  p < q /\ c2[k].num < c2[l].num
    <3>1. /\ k \in Entered(cs) /\ st[p] = cs[k].node /\ c2[k].num = cs[k].num
          /\ l \in Entered(cs) /\ st[q] = cs[l].node /\ c2[l].num = cs[l].num
      BY <1>2, <2>2
    <3>2. p < q /\ cs[k].num < cs[l].num
      BY <2>2, <3>1 DEF Sound, OnPath
    <3> QED
      BY <3>1, <3>2
  <2> QED
    BY <2>1, <2>2 DEF OnPath
<1>f. Below(st, lo, c2)
  BY <1>2 DEF Sound, Below
<1>g. EdgesDown(st, lo, c2)
  <2> SUFFICES ASSUME NEW k \in Entered(c2), NEW p \in 1 .. Len(st),
                      NEW i \in 1 .. Len(st), NEW m \in 1 .. Len(st),
                      st[p] = c2[k].node, p <= i, m < p, Done(st[i], st[m], c2)
               PROVE  \E j \in Entered(c2) :
                          k <= j /\ LowerThan(c2[j], c2[k].num, lo)
    BY DEF EdgesDown
  <2>1. Done(st[i], st[m], cs)
    BY <1>2 DEF Done
  <2>2. PICK j \in Entered(cs) : k <= j /\ LowerThan(cs[j], cs[k].num, lo)
    BY <1>2, <2>1 DEF Sound, EdgesDown
  <2>3. CASE j # top
    BY <1>2, <2>2, <2>3
  <2>4. CASE j = top
    \* What the frame knew is known through the frame below it.
    <3>1. lo[x] < cs[k].num
      <4>1. lo[x] < cs[k].num \/ lo[cs[top].at] < cs[k].num
        BY <2>2, <2>4 DEF LowerThan
      <4>2. /\ lo[x] \in Nat
            /\ lo[cs[top].at] \in Nat
            /\ cs[k].num \in Nat
        BY <1>1, <1>2, <1>3, <1>8
      <4> QED
        BY <4>1, <4>2
    <3>2. k <= top - 1
      BY <1>2
    <3> QED
      BY <1>2, <1>7, <1>8, <3>1, <3>2 DEF LowerThan
  <2> QED
    BY <2>3, <2>4
<1>h. Explored(st, lo, c2)
  <2>1. Successors(x) \subseteq DOMAIN lo
    BY <1>2, <1>3 DEF Sound, Explored
  <2>2. ASSUME NEW i \in 1 .. Len(st),
               \A k \in Entered(c2) : c2[k].node # st[i]
        PROVE  Successors(st[i]) \subseteq DOMAIN lo
    <3>1. CASE st[i] = x
      BY <2>1, <3>1
    <3>2. CASE st[i] # x
      <4>1. \A k \in Entered(cs) : cs[k].node # st[i]
        BY <1>2, <2>2, <3>2
      <4> QED
        BY <4>1 DEF Sound, Explored
    <3> QED
      BY <3>1, <3>2
  <2>3. \A k \in Entered(c2) :
           \A y \in Successors(c2[k].node) \ c2[k].todo :
               y \in DOMAIN lo \/ y = c2[k].at
    BY <1>2 DEF Sound, Explored
  <2> QED
    BY <2>2, <2>3 DEF Explored
<1>i. Bottom(st, lo, c2)
  <2>1. c2[1] = cs[1] /\ Len(c2) > 0 /\ Len(cs) > 0
    BY <1>6
  <2> QED
    BY <2>1 DEF Sound, Bottom
<1> QED
  BY <1>6, <1>d, <1>e, <1>f, <1>g, <1>h, <1>i DEF Sound, Typed

-------------------------------------------------------------------------------
(* What is popped is the stack from the node up, and as many nodes go as    *)
(* the component has.                                                       *)
LEMMA Popped ==
  ASSUME NEW st \in Seq(Nodes), Once(st), NEW p \in 1 .. Len(st)
  PROVE  LET comp == UpTo(st[p], st)
             s2   == SubSeq(st, 1, Len(st) - Cardinality(comp))
         IN
         /\ comp \subseteq Nodes
         /\ \A n : n \in comp <=> \E i \in p .. Len(st) : st[i] = n
         /\ s2 \in Seq(Nodes)
         /\ Len(s2) = p - 1
         /\ \A i \in 1 .. p - 1 : s2[i] = st[i]
<1> DEFINE comp == UpTo(st[p], st)
           s2   == SubSeq(st, 1, Len(st) - Cardinality(comp))
<1>1. /\ Len(st) \in Nat
      /\ DOMAIN st = 1 .. Len(st)
      /\ \A i \in 1 .. Len(st) : st[i] \in Nodes
  BY LenProperties, ElementOfSeq
<1>2. comp = {st[i] : i \in p .. Len(st)}
  <2>1. {j \in DOMAIN st : \E k \in 1 .. j : st[k] = st[p]} = p .. Len(st)
    BY <1>1 DEF Once
  <2> QED
    BY <2>1 DEF UpTo
<1>3. Cardinality(comp) = Len(st) - p + 1
  <2> DEFINE f == [i \in p .. Len(st) |-> st[i]]
  <2>1. f \in Bijection(p .. Len(st), comp)
    <3>1. f \in [p .. Len(st) -> comp]
      BY <1>2
    <3>2. \A a, b \in p .. Len(st) : f[a] = f[b] => a = b
      BY <1>1 DEF Once
    <3>3. \A n \in comp : \E i \in p .. Len(st) : f[i] = n
      BY <1>2
    <3> QED
      BY <3>1, <3>2, <3>3
         DEF Bijection, Injection, Surjection, IsInjective
  <2>2. /\ IsFiniteSet(p .. Len(st))
        /\ Cardinality(p .. Len(st)) = Len(st) - p + 1
    <3>1. p \in Int /\ Len(st) \in Int /\ ~(p > Len(st))
      BY <1>1
    <3> QED
      BY <3>1, FS_Interval
  <2>3. ExistsBijection(p .. Len(st), comp)
    BY <2>1 DEF ExistsBijection
  <2> QED
    BY <2>2, <2>3, FS_Bijection
<1> DEFINE k == p - 1
<1>5. k \in Int /\ k >= 0 /\ k = p - 1 /\ \A i \in 1 .. k : st[i] \in Nodes
  BY <1>1
<1>4. s2 = SubSeq(st, 1, k)
  <2> HIDE DEF comp
  <2>1. Len(st) - Cardinality(comp) = k
    BY <1>1, <1>3
  <2> QED
    BY <2>1
<1> HIDE DEF k, s2, comp
<1>6. /\ SubSeq(st, 1, k) \in Seq(Nodes)
      /\ Len(SubSeq(st, 1, k)) = IF 1 <= k THEN k - 1 + 1 ELSE 0
      /\ \A i \in 1 .. k - 1 + 1 : SubSeq(st, 1, k)[i] = st[1 + i - 1]
  BY <1>5, SubSeqProperties
<1>7. s2 \in Seq(Nodes) /\ Len(s2) = k
  BY <1>4, <1>5, <1>6
<1>8. \A i \in 1 .. k : s2[i] = st[i]
  BY <1>4, <1>5, <1>6
<1>9. /\ comp \subseteq Nodes
      /\ \A n : n \in comp <=> \E i \in p .. Len(st) : st[i] = n
  BY <1>1, <1>2
<1>10. Len(s2) = p - 1 /\ \A i \in 1 .. p - 1 : s2[i] = st[i]
  BY <1>5, <1>7, <1>8
<1> QED
  BY <1>7, <1>9, <1>10 DEF s2, comp

(* Second half of a turn: the node x is the start of a component, which     *)
(* comes off the stack from its place p up, is marked, and takes the frame  *)
(* with it.  Its successors are in it or were found before.                 *)
Emits(st, lo, cs, top, x, p, comp, s2, l2, c2) ==
    /\ top \in Nat /\ top > 0 /\ top = Len(cs) /\ cs[top].entered
    /\ x = cs[top].node /\ lo[x] <= lo[cs[top].at]
    /\ cs[top].todo = {} /\ lo[x] = cs[top].num
    /\ p \in 1 .. Len(st) /\ st[p] = x
    /\ comp \in SUBSET Nodes
    /\ \A n : n \in comp <=> \E i \in p .. Len(st) : st[i] = n
    /\ s2 \in Seq(Nodes) /\ Len(s2) = p - 1
    /\ \A i \in 1 .. p - 1 : s2[i] = st[i]
    /\ l2 = Mark(comp, lo)
    /\ c2 \in Seq(Frame) /\ Len(c2) = top - 1
    /\ \A k \in 1 .. top - 1 : c2[k] = cs[k]

(* Emitting a component keeps the invariant: no edge leads from it to below.*)
LEMMA EmitSound ==
  ASSUME NEW found, NEW st, NEW lo, NEW cs, Sound(found, st, lo, cs),
         NEW top, NEW x, NEW p, NEW comp, NEW s2, NEW l2, NEW c2,
         Emits(st, lo, cs, top, x, p, comp, s2, l2, c2)
  PROVE  /\ Sound(found \cup comp, s2, l2, c2)
         /\ x \in comp
         /\ comp \cap found = {}
         /\ \A n \in comp : Successors(n) \subseteq comp \cup found
<1> USE DEF Emits
<1>1. /\ Len(st) \in Nat
      /\ \A k \in 1 .. top : cs[k].num \in Nat
      /\ \A n \in DOMAIN lo : lo[n] \in Nat
      /\ Count(lo) \in Nat
      /\ Count(lo) <= NumNodes
  <2>1. \A k \in 1 .. top : cs[k] \in Frame
    BY ElementOfSeq DEF Sound, Typed
  <2>2. DOMAIN lo \subseteq Nodes
    BY DEF Sound, Typed
  <2> QED
    BY <2>1, <2>2, CountBound, LenProperties DEF Sound, Typed, Frame
<1>2. /\ Entered(c2) = Entered(cs) \ {top}
      /\ Entered(cs) \subseteq 1 .. top
      /\ top \in Entered(cs)
      /\ \A k \in Entered(c2) : c2[k] = cs[k] /\ k < top
  BY DEF Entered
<1>3. st[p] = x /\ p \in 1 .. Len(st)
  OBVIOUS
<1>4. /\ \A n : n \in comp <=> \E i \in p .. Len(st) : st[i] = n
      /\ s2 \in Seq(Nodes)
      /\ Len(s2) = p - 1
      /\ \A i \in 1 .. p - 1 : s2[i] = st[i]
  OBVIOUS
<1>5. \A i \in 1 .. Len(st) : /\ st[i] \in DOMAIN lo
                              /\ lo[st[i]] < Count(lo)
                              /\ st[i] \notin found
  BY DEF Sound, Marked
<1>6. /\ x \in comp
      /\ comp \subseteq DOMAIN lo
      /\ comp \cap found = {}
  <2>1. x \in comp
    BY <1>1, <1>3, <1>4
  <2>2. \A i \in p .. Len(st) : i \in 1 .. Len(st)
    BY <1>1
  <2>3. \A n \in comp : n \in DOMAIN lo /\ n \notin found
    BY <1>4, <1>5, <2>2
  <2> QED
    BY <2>1, <2>3
<1>7. \A i \in 1 .. Len(st) : st[i] \in comp <=> i >= p
  <2>1. ASSUME NEW i \in 1 .. Len(st), st[i] \in comp PROVE i >= p
    <3>1. PICK j \in p .. Len(st) : st[j] = st[i]
      BY <1>4, <2>1
    <3>2. j \in 1 .. Len(st)
      BY <1>1
    <3> QED
      BY <3>1, <3>2 DEF Sound, Once
  <2>2. ASSUME NEW i \in 1 .. Len(st), i >= p PROVE st[i] \in comp
    <3>1. i \in p .. Len(st)
      BY <1>1, <2>2
    <3> QED
      BY <1>4, <3>1
  <2> QED
    BY <2>1, <2>2
<1>8. /\ DOMAIN l2 = DOMAIN lo
      /\ \A n \in DOMAIN lo : l2[n] = IF n \in comp THEN NumNodes ELSE lo[n]
      /\ Count(l2) = Count(lo)
  BY DEF Mark, Count
<1>9. cs[top].at \in DOMAIN lo
  BY DEF Sound, Linked
\* The frames that stay are below the component on the stack.
<1>10. ASSUME NEW k \in Entered(cs), k < top
       PROVE  /\ cs[k].num < lo[x]
              /\ cs[k].node \in DOMAIN lo
              /\ cs[k].node \notin comp
              /\ \A q \in 1 .. Len(st) : st[q] = cs[k].node => q < p
  <2>1. PICK q \in 1 .. Len(st) : st[q] = cs[k].node
    BY DEF Sound, OnPath
  <2>2. q < p /\ cs[k].num < cs[top].num
    BY <1>2, <1>3, <1>10, <2>1 DEF Sound, OnPath
  <2>3. \A r \in 1 .. Len(st) : st[r] = cs[k].node => r < p
    BY <1>2, <1>3, <1>10 DEF Sound, OnPath
  <2> QED
    BY <1>5, <1>7, <2>1, <2>2, <2>3
<1>11. \A i \in p .. Len(st) : Successors(st[i]) \subseteq DOMAIN lo
  <2> SUFFICES ASSUME NEW i \in p .. Len(st)
               PROVE  Successors(st[i]) \subseteq DOMAIN lo
    OBVIOUS
  <2>1. CASE i = p
    <3>1. \A y \in Successors(x) : y \in DOMAIN lo \/ y = cs[top].at
      BY <1>2 DEF Sound, Explored
    <3> QED
      BY <1>3, <1>9, <2>1, <3>1
  <2>2. CASE i # p
    <3>1. i \in 1 .. Len(st) /\ st[i] # x
      BY <1>1, <1>3, <2>2 DEF Sound, Once
    <3>2. \A k \in Entered(cs) : cs[k].node # st[i]
      <4> SUFFICES ASSUME NEW k \in Entered(cs), cs[k].node = st[i]
                   PROVE  FALSE
        OBVIOUS
      <4>1. k < top
        BY <1>2, <3>1
      <4> QED
        BY <1>10, <3>1, <4>1
    <3> QED
      BY <3>1, <3>2 DEF Sound, Explored
  <2> QED
    BY <2>1, <2>2
\* No edge leads from the component to below it: the low-link would say so.
<1>12. \A n \in comp : Successors(n) \subseteq comp \cup found
  <2> SUFFICES ASSUME NEW i \in p .. Len(st), NEW y \in Successors(st[i]),
                      y \notin found
               PROVE  y \in comp
    BY <1>4
  <2>1. PICK m \in 1 .. Len(st) : st[m] = y
    BY <1>11 DEF Sound, Marked
  <2>2. i \in 1 .. Len(st) /\ p <= i
    BY <1>1
  <2>3. CASE m < p
    <3>1. Done(st[i], st[m], cs)
      <4>1. ASSUME NEW l \in Entered(cs), cs[l].node = st[i]
            PROVE  st[m] \notin cs[l].todo
        <5>1. l = top
          BY <1>2, <1>10, <2>2, <4>1
        <5> QED
          BY <5>1
      <4> QED
        BY <2>1, <4>1 DEF Done
    <3>2. PICK j \in Entered(cs) : /\ top <= j
                                   /\ LowerThan(cs[j], cs[top].num, lo)
      BY <1>2, <1>3, <2>2, <2>3, <3>1 DEF Sound, EdgesDown
    <3>3. j = top
      BY <1>2, <3>2
    <3>4. lo[x] < cs[top].num \/ lo[cs[top].at] < cs[top].num
      BY <3>2, <3>3 DEF LowerThan
    <3>5. /\ lo[x] \in Nat
          /\ lo[cs[top].at] \in Nat
      BY <1>1, <1>6, <1>9
    <3> QED
      BY <3>4, <3>5
  <2>4. CASE m >= p
    BY <1>7, <2>1, <2>4
  <2> QED
    BY <2>3, <2>4
<1>a. Typed(found \cup comp, s2, l2, c2)
  <2>1. l2 \in [DOMAIN l2 -> 0 .. NumNodes]
    <3>1. \A n \in DOMAIN lo : lo[n] \in 0 .. NumNodes
      BY DEF Sound, Typed
    <3>2. \A n \in DOMAIN l2 : l2[n] \in 0 .. NumNodes
      <4>1. NumNodes \in 0 .. NumNodes
        BY NumNodesAssumption
      <4> QED
        BY <1>8, <3>1, <4>1
    <3>3. l2 = [n \in DOMAIN l2 |-> l2[n]]
      BY DEF Mark
    <3> QED
      BY <3>2, <3>3
  <2> QED
    BY <1>4, <1>8, <2>1 DEF Sound, Typed
<1>b. Once(s2)
  <2>1. \A i \in 1 .. Len(s2) : i \in 1 .. Len(st) /\ s2[i] = st[i]
    BY <1>1, <1>4
  <2> QED
    BY <2>1 DEF Sound, Once
<1>c. Marked(found \cup comp, s2, l2)
  <2>1. found \cup comp \subseteq DOMAIN l2
    BY <1>6, <1>8 DEF Sound, Marked
  <2>2. \A n \in DOMAIN l2 : n \in found \cup comp <=> l2[n] = NumNodes
    BY <1>8 DEF Sound, Marked
  <2>3. ASSUME NEW n \in DOMAIN l2
        PROVE  n \in found \cup comp <=> \A i \in 1 .. Len(s2) : s2[i] # n
    <3>1. CASE n \in found \cup comp
      <4>1. \A i \in 1 .. Len(st) : i < p => st[i] # n
        BY <1>5, <1>7, <3>1
      <4> QED
        BY <1>4, <3>1, <4>1
    <3>2. CASE n \notin found \cup comp
      <4>1. PICK i \in 1 .. Len(st) : st[i] = n
        BY <1>8, <3>2 DEF Sound, Marked
      <4>2. i < p
        BY <1>7, <3>2, <4>1
      <4> QED
        BY <1>4, <3>2, <4>1, <4>2
    <3> QED
      BY <3>1, <3>2
  <2>4. \A i \in 1 .. Len(s2) : s2[i] \in DOMAIN l2 /\ l2[s2[i]] < Count(l2)
    <3> SUFFICES ASSUME NEW i \in 1 .. p - 1
                 PROVE  st[i] \in DOMAIN l2 /\ l2[st[i]] < Count(l2)
      BY <1>4
    <3>1. i \in 1 .. Len(st) /\ st[i] \notin comp
      BY <1>1, <1>7
    <3> QED
      BY <1>5, <1>8, <3>1
  <2> QED
    BY <2>1, <2>2, <2>3, <2>4 DEF Marked
<1>d. Linked(l2, c2)
  <2> SUFFICES ASSUME NEW k \in 1 .. top - 1
               PROVE  /\ k < top - 1 => c2[k].entered
                                        /\ c2[k].at = c2[k + 1].node
                      /\ c2[k].entered => c2[k].num < Count(l2)
                      /\ c2[k].entered /\ k = top - 1 =>
                            c2[k].at \in DOMAIN l2
                      /\ ~c2[k].entered => c2[k].num = Count(l2)
                                           /\ c2[k].at = c2[k].node
    BY DEF Linked
  <2>0. k \in 1 .. Len(cs) /\ k < Len(cs)
    OBVIOUS
  <2>1. cs[k].entered /\ cs[k].at = cs[k + 1].node /\ cs[k].num < Count(lo)
    BY <2>0 DEF Sound, Linked
  <2>2. k < top - 1 => c2[k + 1] = cs[k + 1]
    OBVIOUS
  <2>3. k = top - 1 => cs[k].at \in DOMAIN lo
    BY <1>6, <2>1
  <2> QED
    BY <1>8, <2>1, <2>2, <2>3
<1>e. OnPath(s2, l2, c2)
  <2>1. ASSUME NEW k \in Entered(c2)
        PROVE  /\ \E q \in 1 .. Len(s2) : s2[q] = c2[k].node
               /\ l2[c2[k].node] <= c2[k].num
    <3>1. k \in Entered(cs) /\ k < top /\ c2[k] = cs[k]
      BY <1>2
    <3>2. PICK q \in 1 .. Len(st) : st[q] = cs[k].node
      BY <3>1 DEF Sound, OnPath
    <3>3. q \in 1 .. p - 1
      BY <1>10, <3>1, <3>2
    <3>4. lo[cs[k].node] <= cs[k].num
      BY <3>1 DEF Sound, OnPath
    <3> QED
      BY <1>4, <1>8, <1>10, <3>1, <3>2, <3>3, <3>4
  <2>2. ASSUME NEW k \in Entered(c2), NEW l \in Entered(c2),
               NEW q \in 1 .. Len(s2), NEW r \in 1 .. Len(s2),
               k < l, s2[q] = c2[k].node, s2[r] = c2[l].node
        PROVE  q < r /\ c2[k].num < c2[l].num
    <3>1. /\ k \in Entered(cs) /\ st[q] = cs[k].node /\ c2[k].num = cs[k].num
          /\ l \in Entered(cs) /\ st[r] = cs[l].node /\ c2[l].num = cs[l].num
          /\ q \in 1 .. Len(st) /\ r \in 1 .. Len(st)
      <4>1. /\ q \in 1 .. p - 1 /\ r \in 1 .. p - 1
            /\ s2[q] = st[q] /\ s2[r] = st[r]
        BY <1>4
      <4>2. q \in 1 .. Len(st) /\ r \in 1 .. Len(st)
        <5>1. 1 .. p - 1 \subseteq 1 .. Len(st)
          BY <1>1
        <5> QED
          BY <4>1, <5>1
      <4>3. /\ k \in Entered(cs) /\ c2[k] = cs[k]
            /\ l \in Entered(cs) /\ c2[l] = cs[l]
        BY <1>2
      <4> QED
        BY <2>2, <4>1, <4>2, <4>3
    <3>2. q < r /\ cs[k].num < cs[l].num
      BY <2>2, <3>1 DEF Sound, OnPath
    <3> QED
      BY <3>1, <3>2
  <2>3. \A k \in Entered(c2) : \E q \in 1 .. Len(s2) : s2[q] = c2[k].node
    BY <2>1
  <2>4. \A k \in Entered(c2) : l2[c2[k].node] <= c2[k].num
    BY <2>1
  <2>5. \A k, l \in Entered(c2), q, r \in 1 .. Len(s2) :
           k < l /\ s2[q] = c2[k].node /\ s2[r] = c2[l].node
              => q < r /\ c2[k].num < c2[l].num
    BY <2>2
  <2> QED
    BY <2>3, <2>4, <2>5 DEF OnPath
<1>f. Below(s2, l2, c2)
  <2> SUFFICES ASSUME NEW k \in Entered(c2),
                      NEW q \in 1 .. p - 1, NEW m \in 1 .. p - 1,
                      st[q] = c2[k].node, m < q
               PROVE  l2[st[m]] < c2[k].num
    BY <1>4 DEF Below
  <2>1. q \in 1 .. Len(st) /\ m \in 1 .. Len(st) /\ st[m] \notin comp
    BY <1>1, <1>7
  <2>2. lo[st[m]] < cs[k].num
    BY <1>2, <2>1 DEF Sound, Below
  <2> QED
    BY <1>2, <1>5, <1>8, <2>1, <2>2
<1>g. EdgesDown(s2, l2, c2)
  <2> SUFFICES ASSUME NEW k \in Entered(c2), NEW q \in 1 .. p - 1,
                      NEW i \in 1 .. p - 1, NEW m \in 1 .. p - 1,
                      st[q] = c2[k].node, q <= i, m < q, Done(st[i], st[m], c2)
               PROVE  \E j \in Entered(c2) :
                          k <= j /\ LowerThan(c2[j], c2[k].num, l2)
    BY <1>4 DEF EdgesDown
  <2>1. /\ q \in 1 .. Len(st) /\ i \in 1 .. Len(st) /\ m \in 1 .. Len(st)
        /\ st[i] # x
        /\ k \in Entered(cs) /\ k < top /\ c2[k] = cs[k]
    <3>1. q \in 1 .. Len(st) /\ i \in 1 .. Len(st) /\ m \in 1 .. Len(st)
      <4>1. 1 .. p - 1 \subseteq 1 .. Len(st)
        BY <1>1
      <4> QED
        BY <4>1
    <3>2. st[i] \notin comp
      BY <1>7, <3>1
    <3> QED
      BY <1>2, <1>6, <3>1, <3>2
  <2>2. Done(st[i], st[m], cs)
    BY <1>2, <2>1 DEF Done
  <2>3. PICK j \in Entered(cs) : k <= j /\ LowerThan(cs[j], cs[k].num, lo)
    BY <2>1, <2>2 DEF Sound, EdgesDown
  <2>4. /\ cs[k].num < lo[x]
        /\ lo[x] <= lo[cs[top].at]
        /\ lo[x] \in Nat /\ lo[cs[top].at] \in Nat /\ cs[k].num \in Nat
    BY <1>1, <1>2, <1>6, <1>9, <1>10, <2>1
  \* The frame that goes knows of nothing below the frames that stay.
  <2>5. j < top
    <3> SUFFICES ASSUME j = top PROVE FALSE
      BY <1>2
    <3>1. lo[x] < cs[k].num \/ lo[cs[top].at] < cs[k].num
      BY <2>3 DEF LowerThan
    <3>2. ASSUME NEW a \in Nat, NEW b \in Nat, NEW c \in Nat, a <= b, c < a
          PROVE  ~(a < c \/ b < c)
      BY <3>2
    <3> QED
      BY <2>4, <3>1, <3>2
  <2>6. j \in Entered(c2) /\ c2[j] = cs[j]
    BY <1>2, <2>5
  <2>7. CASE lo[cs[j].node] < cs[k].num
    BY <1>8, <1>10, <2>1, <2>3, <2>5, <2>6, <2>7 DEF LowerThan
  <2>8. CASE cs[j].at \in DOMAIN lo /\ lo[cs[j].at] < cs[k].num
    <3>1. cs[j].at = cs[j + 1].node /\ j + 1 \in Entered(cs)
      <4>1. j \in 1 .. Len(cs) /\ j < Len(cs) /\ j + 1 \in 1 .. Len(cs)
        BY <1>2, <2>5
      <4>2. cs[j + 1].entered
        <5>1. CASE j + 1 = top
          BY <5>1
        <5>2. CASE j + 1 < top
          BY <4>1, <5>2 DEF Sound, Linked
        <5> QED
          BY <4>1, <5>1, <5>2
      <4> QED
        BY <4>1, <4>2 DEF Sound, Linked, Entered
    <3>2. j + 1 # top
      <4> SUFFICES ASSUME j + 1 = top PROVE FALSE
        OBVIOUS
      <4>1. cs[j].at = x
        BY <3>1
      <4>2. lo[x] < cs[k].num
        BY <2>8, <4>1
      <4>3. ASSUME NEW a \in Nat, NEW b \in Nat, a < b PROVE ~(b < a)
        BY <4>3
      <4> QED
        BY <2>4, <4>2, <4>3
    <3>3. j + 1 < top
      BY <1>2, <3>1, <3>2
    <3>4. cs[j].at \notin comp
      BY <1>10, <3>1, <3>3
    <3>5. cs[j].at \in DOMAIN l2 /\ l2[cs[j].at] < cs[k].num
      BY <1>8, <2>8, <3>4
    <3>6. LowerThan(c2[j], c2[k].num, l2)
      BY <2>1, <2>6, <3>5 DEF LowerThan
    <3> QED
      BY <2>3, <2>6, <3>6
  <2> QED
    BY <2>3, <2>7, <2>8 DEF LowerThan
<1>h. Explored(s2, l2, c2)
  <2>1. \A k \in Entered(c2) :
           \A y \in Successors(c2[k].node) \ c2[k].todo :
               y \in DOMAIN l2 \/ y = c2[k].at
    BY <1>2, <1>8 DEF Sound, Explored
  <2>2. ASSUME NEW i \in 1 .. Len(s2),
               \A k \in Entered(c2) : c2[k].node # s2[i]
        PROVE  Successors(s2[i]) \subseteq DOMAIN l2
    <3>1. i \in 1 .. Len(st) /\ s2[i] = st[i] /\ st[i] # x
      <4>1. i \in 1 .. p - 1 /\ s2[i] = st[i]
        BY <1>4
      <4>2. i \in 1 .. Len(st)
        BY <1>1, <4>1
      <4>3. st[i] \notin comp
        BY <1>7, <4>1, <4>2
      <4> QED
        BY <1>6, <4>1, <4>2, <4>3
    <3>2. \A k \in Entered(cs) : cs[k].node # st[i]
      <4>1. \A k \in Entered(c2) : cs[k].node # st[i]
        BY <1>2, <2>2, <3>1
      <4> QED
        BY <1>2, <3>1, <4>1
    <3>3. Successors(st[i]) \subseteq DOMAIN lo
      BY <3>1, <3>2 DEF Sound, Explored
    <3> QED
      BY <1>8, <3>1, <3>3
  <2> QED
    BY <2>1, <2>2 DEF Explored
<1>i. Bottom(s2, l2, c2)
  <2>1. CASE top = 1
    <3>1. st[1] = x /\ Len(st) > 0
      BY <2>1 DEF Sound, Bottom
    <3>2. p = 1
      BY <1>1, <1>3, <3>1 DEF Sound, Once
    <3> QED
      BY <1>4, <2>1, <3>2 DEF Bottom
  <2>2. CASE top > 1
    <3>1. cs[1].entered /\ c2[1] = cs[1] /\ 1 \in Entered(cs)
      BY <2>2 DEF Sound, Linked, Entered
    <3>2. Len(st) > 0 /\ st[1] = cs[1].node
      BY <2>2, <3>1 DEF Sound, Bottom
    <3>3. p > 1
      BY <1>1, <1>10, <2>2, <3>1, <3>2
    <3>4. ASSUME NEW i \in 1 .. Len(s2) PROVE cs[1].num <= l2[s2[i]]
      <4>1. i \in 1 .. Len(st) /\ s2[i] = st[i] /\ st[i] \notin comp
        <5>1. i \in 1 .. p - 1 /\ s2[i] = st[i]
          BY <1>4
        <5>2. i \in 1 .. Len(st) /\ ~(i >= p)
          BY <1>1, <5>1
        <5> QED
          BY <1>7, <5>1, <5>2
      <4>2. cs[1].num <= lo[st[i]]
        BY <2>2, <4>1 DEF Sound, Bottom
      <4> QED
        BY <1>5, <1>8, <4>1, <4>2
    <3>5. Len(s2) > 0 /\ s2[1] = st[1] /\ Len(c2) # 0
      <4>1. p \in Nat /\ 1 \in 1 .. p - 1
        BY <1>1, <3>3
      <4>2. Len(s2) > 0
        BY <1>4, <3>3, <4>1
      <4>3. s2[1] = st[1]
        BY <1>4, <4>1
      <4> QED
        BY <2>2, <4>1, <4>2, <4>3
    <3> QED
      BY <3>1, <3>2, <3>4, <3>5 DEF Bottom
  <2> QED
    BY <2>1, <2>2
<1> QED
  BY <1>4, <1>6, <1>12, <1>a, <1>b, <1>c, <1>d, <1>e, <1>f, <1>g, <1>h, <1>i
     DEF Sound

-------------------------------------------------------------------------------
(* The outer loop starts a call stack.                                      *)
LEMMA PushSound ==
  ASSUME NEW found, NEW st, NEW lo, NEW cs, Sound(found, st, lo, cs),
         Len(cs) = 0,
         NEW c2 \in Seq(Frame), Len(c2) = 1,
         ~c2[1].entered, c2[1].num = Count(lo), c2[1].at = c2[1].node
  PROVE  Sound(found, st, lo, c2)
<1>1. Len(st) = 0
  BY DEF Sound, Bottom
<1>2. Entered(c2) = {}
  BY DEF Entered
<1>3. Linked(lo, c2)
  BY DEF Linked
<1>4. OnPath(st, lo, c2) /\ Below(st, lo, c2) /\ EdgesDown(st, lo, c2)
  BY <1>2 DEF OnPath, Below, EdgesDown
<1>5. Explored(st, lo, c2) /\ Bottom(st, lo, c2)
  BY <1>1, <1>2 DEF Explored, Bottom
<1> QED
  BY <1>3, <1>4, <1>5 DEF Sound, Typed

(* A frame that had still to be entered goes, because its node has been     *)
(* visited from elsewhere.                                                  *)
LEMMA SkipSound ==
  ASSUME NEW found, NEW st, NEW lo, NEW cs, Sound(found, st, lo, cs),
         NEW top \in Nat, top > 0, top = Len(cs), ~cs[top].entered,
         cs[top].node \in DOMAIN lo,
         NEW c2 \in Seq(Frame), Len(c2) = top - 1,
         \A k \in 1 .. top - 1 : c2[k] = cs[k]
  PROVE  Sound(found, st, lo, c2)
<1>1. /\ Entered(c2) = Entered(cs)
      /\ \A k \in Entered(cs) : c2[k] = cs[k]
  BY DEF Entered
<1>2. Linked(lo, c2)
  <2> SUFFICES ASSUME NEW k \in 1 .. top - 1
               PROVE  /\ k < top - 1 => c2[k].entered
                                        /\ c2[k].at = c2[k + 1].node
                      /\ c2[k].entered => c2[k].num < Count(lo)
                      /\ c2[k].entered /\ k = top - 1 =>
                            c2[k].at \in DOMAIN lo
                      /\ ~c2[k].entered => c2[k].num = Count(lo)
                                           /\ c2[k].at = c2[k].node
    BY DEF Linked
  <2>1. k \in 1 .. Len(cs) /\ k < Len(cs)
    OBVIOUS
  <2>2. cs[k].entered /\ cs[k].at = cs[k + 1].node /\ cs[k].num < Count(lo)
    BY <2>1 DEF Sound, Linked
  <2>3. k < top - 1 => c2[k + 1] = cs[k + 1]
    OBVIOUS
  <2> QED
    BY <2>2, <2>3
<1>3. OnPath(st, lo, c2)
  <2>1. /\ \A k \in Entered(c2) : \E p \in 1 .. Len(st) : st[p] = c2[k].node
        /\ \A k \in Entered(c2) : lo[c2[k].node] <= c2[k].num
    BY <1>1 DEF Sound, OnPath
  <2>2. \A k, l \in Entered(c2), p, q \in 1 .. Len(st) :
           k < l /\ st[p] = c2[k].node /\ st[q] = c2[l].node
              => p < q /\ c2[k].num < c2[l].num
    BY <1>1 DEF Sound, OnPath
  <2> QED
    BY <2>1, <2>2 DEF OnPath
<1>4. Below(st, lo, c2)
  BY <1>1 DEF Sound, Below
<1>5. EdgesDown(st, lo, c2)
  <2>1. \A y, z : Done(y, z, c2) => Done(y, z, cs)
    BY <1>1 DEF Done
  <2> QED
    BY <1>1, <2>1 DEF Sound, EdgesDown
<1>6. Explored(st, lo, c2)
  BY <1>1 DEF Sound, Explored
<1>7. Bottom(st, lo, c2)
  <2>1. CASE top = 1
    BY <2>1 DEF Sound, Bottom
  <2>2. CASE top > 1
    <3>1. c2[1] = cs[1] /\ Len(cs) > 0 /\ Len(c2) # 0
      BY <2>2
    <3> QED
      BY <3>1 DEF Sound, Bottom
  <2> QED
    BY <2>1, <2>2
<1> QED
  BY <1>2, <1>3, <1>4, <1>5, <1>6, <1>7 DEF Sound, Typed

-------------------------------------------------------------------------------
(* Nodes that the outer loop will still come to, has been through, or is at.*)
Remaining ==
    \A n \in Nodes :
        \/ \E i \in 1 .. Len(pending) : pending[i] = n
        \/ n \in DOMAIN low
        \/ Len(callstack) > 0 /\ callstack[1].node = n

(* No node has two components, and the successors of a component are in it  *)
(* or in one that was found before.                                         *)
CalleesFirst ==
    /\ \A i, j \in 1 .. Len(result) : i # j => result[i] \cap result[j] = {}
    /\ \A i \in 1 .. Len(result) : \A n \in result[i] : \A m \in Successors(n) :
          \E j \in 1 .. i : m \in result[j]

Whole ==
    /\ graph \in SUBSET (Nodes \X Nodes)
    /\ result \in Seq(SUBSET Nodes)
    /\ pending \in Seq(Nodes)
    /\ Sound(Found, stack, low, callstack)
    /\ Remaining
    /\ CalleesFirst

(* The graph does not change, so that of the values after a step Sound says *)
(* what it says after the step.                                             *)
LEMMA SoundNext ==
  ASSUME graph' = graph, Sound(Found', stack', low', callstack')
  PROVE  Sound(Found, stack, low, callstack)'
BY DEF Sound, EdgesDown, Explored, Done, Successors

(* FindAll starts with nothing visited and every node to look at.           *)
LEMMA InitWhole == Init => Whole
<1> SUFFICES ASSUME Init PROVE Whole
  OBVIOUS
<1>1. result = <<>> /\ stack = <<>> /\ callstack = <<>> /\ low = <<>>
  BY DEF Init, OrderInit
<1>2. graph \in SUBSET (Nodes \X Nodes)
  BY DEF Init, OrderInit
<1>3. /\ pending \in Seq(Nodes)
      /\ Len(pending) = NumNodes
      /\ \A i \in 1 .. Len(pending) : pending[i] = i
  BY NumNodesAssumption DEF Init, Nodes
<1>4. Found = {}
  BY <1>1 DEF Found
<1>5. DOMAIN low = {} /\ low \in [DOMAIN low -> 0 .. NumNodes]
  BY <1>1
<1>6. Entered(callstack) = {} /\ Len(stack) = 0 /\ Len(callstack) = 0
  BY <1>1 DEF Entered
<1>7. Sound(Found, stack, low, callstack)
  <2>1. Typed(Found, stack, low, callstack)
    BY <1>1, <1>4, <1>5 DEF Typed
  <2>2. Once(stack) /\ Marked(Found, stack, low) /\ Linked(low, callstack)
    BY <1>4, <1>5, <1>6 DEF Once, Marked, Linked
  <2>3. OnPath(stack, low, callstack) /\ Below(stack, low, callstack)
    BY <1>6 DEF OnPath, Below
  <2>4. EdgesDown(stack, low, callstack) /\ Explored(stack, low, callstack)
    BY <1>6 DEF EdgesDown, Explored
  <2>5. Bottom(stack, low, callstack)
    BY <1>6 DEF Bottom
  <2> QED
    BY <2>1, <2>2, <2>3, <2>4, <2>5 DEF Sound
<1>8. Remaining
  BY <1>3 DEF Remaining, Nodes
<1>9. CalleesFirst /\ result \in Seq(SUBSET Nodes)
  BY <1>1 DEF CalleesFirst
<1> QED
  BY <1>2, <1>3, <1>7, <1>8, <1>9 DEF Whole

-------------------------------------------------------------------------------
(* The call stack between the two halves of a turn.                         *)
Halfway ==
    Append(Rest, [Top EXCEPT !.entered = TRUE, !.todo = TodoOnTurn(Top)])

(* The frame on top, and what lies below it.                                *)
LEMMA TopOfStack ==
  ASSUME Whole, callstack # <<>>
  PROVE  /\ Len(callstack) \in Nat /\ Len(callstack) > 0
         /\ Top = callstack[Len(callstack)]
         /\ Top \in Frame
         /\ Rest \in Seq(Frame)
         /\ Len(Rest) = Len(callstack) - 1
         /\ \A i \in 1 .. Len(callstack) - 1 : Rest[i] = callstack[i]
<1>1. callstack \in Seq(Frame)
  BY DEF Whole, Sound, Typed
<1>2. Len(callstack) \in Nat \ {0}
  BY <1>1, EmptySeq
<1> QED
  BY <1>1, <1>2, FrontLast DEF Top, Rest

(* The frame on top, between the halves.                                    *)
LEMMA HalfwayShape ==
  ASSUME Whole, callstack # <<>>
  PROVE  LET top == Len(callstack)
         IN  /\ Halfway \in Seq(Frame)
             /\ Len(Halfway) = top
             /\ \A i \in 1 .. top - 1 : Halfway[i] = callstack[i]
             /\ Halfway[top].node = Top.node
             /\ Halfway[top].entered
             /\ Halfway[top].todo = TodoOnTurn(Top)
             /\ Halfway[top].at = Top.at
             /\ Halfway[top].num = Top.num
<1> DEFINE f == [Top EXCEPT !.entered = TRUE, !.todo = TodoOnTurn(Top)]
<1>1. TodoOnTurn(Top) \in SUBSET Nodes
  BY TopOfStack DEF TodoOnTurn, Frame, Successors
<1>2. /\ f \in Frame
      /\ f.node = Top.node
      /\ f.entered
      /\ f.todo = TodoOnTurn(Top)
      /\ f.at = Top.at
      /\ f.num = Top.num
  BY <1>1, TopOfStack DEF Frame
<1>3. Halfway = Append(Rest, f)
  BY DEF Halfway
<1> HIDE DEF f
<1>4. /\ Halfway \in Seq(Frame)
      /\ Len(Halfway) = Len(Rest) + 1
      /\ \A i \in 1 .. Len(Rest) : Halfway[i] = Rest[i]
      /\ Halfway[Len(Rest) + 1] = f
  BY <1>2, <1>3, TopOfStack, AppendProperties
<1>5. /\ Len(callstack) \in Nat
      /\ Len(Rest) = Len(callstack) - 1
      /\ \A i \in 1 .. Len(callstack) - 1 : Rest[i] = callstack[i]
  BY TopOfStack
<1>6. Len(Halfway) = Len(callstack) /\ Halfway[Len(callstack)] = f
  BY <1>4, <1>5
<1>7. \A i \in 1 .. Len(callstack) - 1 : Halfway[i] = callstack[i]
  BY <1>4, <1>5
<1> QED
  BY <1>2, <1>4, <1>6, <1>7

(* The first half of every turn.                                            *)
LEMMA HalfTurn ==
  ASSUME Whole, Turning
  PROVE  /\ Sound(Found, StackOnTurn(Top), LowOnTurn(Top), Halfway)
         /\ LowOnTurn(Top)[Top.node] <= LowOnTurn(Top)[Top.at]
<1> DEFINE top == Len(callstack)
<1>1. callstack # <<>> /\ Sound(Found, stack, low, callstack)
  BY DEF Whole, Turning
<1>2. top \in Nat /\ top > 0 /\ Top = callstack[top] /\ top = Len(callstack)
  BY <1>1, TopOfStack
<1>3. /\ Halfway \in Seq(Frame)
      /\ Len(Halfway) = top
      /\ \A i \in 1 .. top - 1 : Halfway[i] = callstack[i]
      /\ Halfway[top].node = Top.node
      /\ Halfway[top].entered
      /\ Halfway[top].todo = TodoOnTurn(Top)
      /\ Halfway[top].at = Top.at
      /\ Halfway[top].num = Top.num
  BY <1>1, HalfwayShape
<1> HIDE DEF top
<1>4. CASE Top.entered
  <2>1. Halfway = callstack
    <3>1. callstack \in Seq(Frame) /\ Top \in Frame
      BY <1>1, TopOfStack DEF Sound, Typed
    <3>2. [Top EXCEPT !.entered = TRUE, !.todo = Top.todo] = Top
      BY <1>4, <3>1 DEF Frame
    <3>3. Halfway = Append(Rest, Top)
      BY <1>4, <3>2 DEF Halfway, TodoOnTurn
    <3>4. Halfway[Len(Rest) + 1] = Top
      BY <1>1, <3>1, <3>3, TopOfStack, AppendProperties
    <3>5. Len(Rest) + 1 = top
      BY <1>1, <1>2, TopOfStack DEF top
    <3>6. \A i \in 1 .. top : Halfway[i] = callstack[i]
      BY <1>2, <1>3, <3>4, <3>5
    <3> QED
      BY <1>2, <1>3, <3>1, <3>6, SeqEqual
  <2>2. /\ StackOnTurn(Top) = stack
        /\ LowOnTurn(Top) =
              [low EXCEPT ![Top.node] = Min({low[Top.node], low[Top.at]})]
    BY <1>4 DEF StackOnTurn, LowOnTurn
  <2> DEFINE x == Top.node
             l2 == LowOnTurn(Top)
  <2>3. /\ Sound(Found, stack, low, callstack)
        /\ top \in Nat /\ top > 0 /\ top = Len(callstack)
        /\ callstack[top].entered
        /\ x = callstack[top].node
        /\ l2 = [low EXCEPT ![x] = Min({low[x], low[callstack[top].at]})]
    BY <1>1, <1>2, <1>4, <2>2
  <2> HIDE DEF x, l2
  <2>4. Sound(Found, stack, l2, callstack) /\ l2[x] <= l2[callstack[top].at]
    BY <2>3, AbsorbSound
  <2> QED
    BY <1>2, <2>1, <2>2, <2>4 DEF x, l2
<1>5. CASE ~Top.entered
  <2>1. Top.node \notin DOMAIN low
    BY <1>5 DEF Turning, Visited
  <2>2. /\ StackOnTurn(Top) = Append(stack, Top.node)
        /\ LowOnTurn(Top) =
              [n \in DOMAIN low \cup {Top.node} |->
                  IF n = Top.node THEN Top.num ELSE low[n]]
        /\ TodoOnTurn(Top) = Successors(Top.node)
    BY <1>5 DEF StackOnTurn, LowOnTurn, TodoOnTurn
  <2> DEFINE x  == Top.node
             s2 == StackOnTurn(Top)
             l2 == LowOnTurn(Top)
             c2 == Halfway
  <2>3. Enters(stack, low, callstack, top, x, s2, l2, c2)
    BY <1>1, <1>2, <1>3, <1>5, <2>1, <2>2 DEF Enters
  <2> HIDE DEF x, s2, l2, c2
  <2>4. Sound(Found, s2, l2, c2) /\ l2[x] <= l2[c2[top].at]
    BY <1>1, <2>3, EnterSound
  <2> QED
    BY <1>3, <2>4 DEF x, s2, l2, c2
<1> QED
  BY <1>4, <1>5

(* Visited nodes stay visited.                                              *)
LEMMA LowGrows ==
  ASSUME Whole, Turning
  PROVE  /\ DOMAIN low \subseteq DOMAIN LowOnTurn(Top)
         /\ Top.node \in DOMAIN LowOnTurn(Top)
<1>1. CASE Top.entered
  <2>1. Sound(Found, stack, low, callstack) /\ callstack # <<>>
    BY DEF Whole, Turning
  <2>2. Len(callstack) \in Entered(callstack) /\ Top = callstack[Len(callstack)]
    BY <1>1, <2>1, TopOfStack DEF Entered
  <2>3. Top.node \in DOMAIN low
    BY <2>1, <2>2 DEF Sound, OnPath, Marked
  <2> QED
    BY <1>1, <2>3 DEF LowOnTurn
<1>2. CASE ~Top.entered
  BY <1>2 DEF LowOnTurn
<1> QED
  BY <1>1, <1>2

-------------------------------------------------------------------------------
(* The actions, one by one.                                                 *)
LEMMA WholePushNode == Whole /\ PushNode => Whole'
<1> SUFFICES ASSUME Whole, PushNode PROVE Whole'
  OBVIOUS
<1> DEFINE n == Head(pending)
<1>1. /\ pending \in Seq(Nodes) /\ pending # <<>>
      /\ Sound(Found, stack, low, callstack)
      /\ callstack = <<>>
      /\ UNCHANGED <<graph, result, stack, low>>
      /\ callstack' = <<Fresh(n, Count(low))>>
      /\ pending' = Tail(pending)
  BY DEF Whole, PushNode
<1>2. /\ n \in Nodes
      /\ pending' \in Seq(Nodes)
      /\ Len(pending') = Len(pending) - 1
      /\ \A i \in 1 .. Len(pending') : pending'[i] = pending[i + 1]
      /\ n = pending[1]
      /\ Len(pending) \in Nat /\ Len(pending) > 0
  BY <1>1, HeadTailProperties, EmptySeq
<1> HIDE DEF n
<1>3. Count(low) \in Nat
  BY <1>1, CountBound DEF Sound, Typed
<1>4. Fresh(n, Count(low)) \in Frame
  BY <1>2, <1>3 DEF Fresh, Frame
<1>5. /\ callstack' \in Seq(Frame)
      /\ Len(callstack') = 1
      /\ callstack'[1] = Fresh(n, Count(low))
  BY <1>1, <1>4
<1>6. Sound(Found', stack', low', callstack')
  <2>1. Found' = Found
    BY <1>1 DEF Found
  <2>2. /\ ~callstack'[1].entered
        /\ callstack'[1].num = Count(low)
        /\ callstack'[1].at = callstack'[1].node
    BY <1>5 DEF Fresh
  <2>3. Len(callstack) = 0
    BY <1>1
  <2>4. Sound(Found, stack, low, callstack')
    BY <1>1, <1>5, <2>2, <2>3, PushSound
  <2> QED
    BY <1>1, <2>1, <2>4
<1>7. Remaining'
  <2> SUFFICES ASSUME NEW m \in Nodes
               PROVE  \/ \E i \in 1 .. Len(pending') : pending'[i] = m
                      \/ m \in DOMAIN low'
                      \/ Len(callstack') > 0 /\ callstack'[1].node = m
    BY DEF Remaining
  <2>1. CASE m \in DOMAIN low
    BY <1>1, <2>1
  <2>2. CASE m = n
    BY <1>5, <2>2 DEF Fresh
  <2>3. CASE m \notin DOMAIN low /\ m # n
    <3>1. Len(callstack) = 0
      BY <1>1
    <3>2. PICK i \in 1 .. Len(pending) : pending[i] = m
      BY <2>3, <3>1 DEF Whole, Remaining
    <3>3. i - 1 \in 1 .. Len(pending') /\ pending'[i - 1] = m
      BY <1>2, <2>3, <3>2
    <3> QED
      BY <3>3
  <2> QED
    BY <2>1, <2>2, <2>3
<1>8. CalleesFirst'
  BY <1>1 DEF Whole, CalleesFirst, Successors
<1>9. Sound(Found, stack, low, callstack)'
  BY <1>1, <1>6, SoundNext
<1> QED
  BY <1>1, <1>2, <1>7, <1>8, <1>9 DEF Whole

(* The inner loop pops a frame whose node is visited.                       *)
LEMMA WholeSkip == Whole /\ Skip => Whole'
<1> SUFFICES ASSUME Whole, Skip PROVE Whole'
  OBVIOUS
<1> DEFINE top == Len(callstack)
<1>1. /\ Sound(Found, stack, low, callstack)
      /\ callstack # <<>>
      /\ ~Top.entered
      /\ Top.node \in DOMAIN low
      /\ UNCHANGED <<graph, result, stack, low, pending>>
      /\ callstack' = Rest
  BY DEF Whole, Skip, Visited
<1>2. /\ top \in Nat /\ top > 0 /\ top = Len(callstack)
      /\ Top = callstack[top]
      /\ callstack' \in Seq(Frame)
      /\ Len(callstack') = top - 1
      /\ \A i \in 1 .. top - 1 : callstack'[i] = callstack[i]
  BY <1>1, TopOfStack
<1> HIDE DEF top
<1>3. Sound(Found', stack', low', callstack')
  <2>1. Found' = Found
    BY <1>1 DEF Found
  <2>2. Sound(Found, stack, low, callstack')
    BY <1>1, <1>2, SkipSound
  <2> QED
    BY <1>1, <2>1, <2>2
<1>4. Remaining'
  <2> SUFFICES ASSUME NEW m \in Nodes
               PROVE  \/ \E i \in 1 .. Len(pending') : pending'[i] = m
                      \/ m \in DOMAIN low'
                      \/ Len(callstack') > 0 /\ callstack'[1].node = m
    BY DEF Remaining
  <2>1. CASE Len(callstack) > 0 /\ callstack[1].node = m
    <3>1. CASE top = 1
      BY <1>1, <1>2, <2>1, <3>1
    <3>2. CASE top > 1
      BY <1>2, <2>1, <3>2
    <3> QED
      BY <1>2, <3>1, <3>2
  <2>2. CASE ~(Len(callstack) > 0 /\ callstack[1].node = m)
    BY <1>1, <2>2 DEF Whole, Remaining
  <2> QED
    BY <2>1, <2>2
<1>5. CalleesFirst'
  BY <1>1 DEF Whole, CalleesFirst, Successors
<1>6. Sound(Found, stack, low, callstack)'
  BY <1>1, <1>3, SoundNext
<1> QED
  BY <1>1, <1>4, <1>5, <1>6 DEF Whole

(* What a turn has to show apart from its own part of the invariant.        *)
LEMMA TurnRemaining ==
  ASSUME Whole, Turning, pending' = pending,
         DOMAIN low' = DOMAIN LowOnTurn(Top),
         \/ Len(callstack) = 1
         \/ Len(callstack') > 0 /\ callstack'[1].node = callstack[1].node
  PROVE  Remaining'
<1> SUFFICES ASSUME NEW m \in Nodes
             PROVE  \/ \E i \in 1 .. Len(pending') : pending'[i] = m
                    \/ m \in DOMAIN low'
                    \/ Len(callstack') > 0 /\ callstack'[1].node = m
  BY DEF Remaining
<1>1. callstack # <<>>
  BY DEF Turning
<1>2. /\ Top = callstack[Len(callstack)]
      /\ Top.node \in DOMAIN low'
      /\ DOMAIN low \subseteq DOMAIN low'
  BY <1>1, TopOfStack, LowGrows
<1>3. CASE Len(callstack) > 0 /\ callstack[1].node = m
  BY <1>2, <1>3
<1>4. CASE ~(Len(callstack) > 0 /\ callstack[1].node = m)
  BY <1>2, <1>4 DEF Whole, Remaining
<1> QED
  BY <1>3, <1>4

(* The inner loop goes down to any successor that is left.                  *)
LEMMA WholeDescend ==
  ASSUME Whole, NEW succ \in Nodes, Descend(succ)
  PROVE  Whole'
<1> DEFINE top == Len(callstack)
           x   == Top.node
           st  == StackOnTurn(Top)
           lo  == LowOnTurn(Top)
           cs  == Halfway
           f   == [Top EXCEPT !.entered = TRUE,
                              !.todo = TodoOnTurn(Top) \ {succ}, !.at = succ]
           g   == Fresh(succ, Count(lo))
           c2  == Rest \o <<f, g>>
<1>1. /\ Turning /\ callstack # <<>>
      /\ succ \in TodoOnTurn(Top)
      /\ low' = lo /\ stack' = st /\ callstack' = c2
      /\ UNCHANGED <<graph, result, pending>>
  BY DEF Descend, Turning
<1>2. /\ top \in Nat /\ top > 0
      /\ Top = callstack[top]
      /\ Top \in Frame
      /\ Rest \in Seq(Frame)
      /\ Len(Rest) = top - 1
      /\ \A i \in 1 .. top - 1 : Rest[i] = callstack[i]
  BY <1>1, TopOfStack
<1>3. /\ Sound(Found, st, lo, cs)
      /\ lo[x] <= lo[Top.at]
  BY <1>1, HalfTurn
<1>4. /\ cs \in Seq(Frame)
      /\ Len(cs) = top
      /\ \A i \in 1 .. top - 1 : cs[i] = callstack[i]
      /\ cs[top].node = x
      /\ cs[top].entered
      /\ cs[top].todo = TodoOnTurn(Top)
      /\ cs[top].at = Top.at
      /\ cs[top].num = Top.num
  BY <1>1, HalfwayShape
<1>5. Count(lo) \in Nat
  BY <1>3, CountBound DEF Sound, Typed
<1>6. /\ f \in Frame /\ f.node = x /\ f.entered /\ f.num = Top.num
      /\ f.todo = TodoOnTurn(Top) \ {succ} /\ f.at = succ
  <2>1. TodoOnTurn(Top) \in SUBSET Nodes
    BY <1>2 DEF TodoOnTurn, Frame, Successors
  <2> QED
    BY <1>2, <2>1 DEF Frame
<1>7. /\ g \in Frame /\ g.node = succ /\ ~g.entered
      /\ g.num = Count(lo) /\ g.at = succ
  BY <1>5 DEF Fresh, Frame
<1> HIDE DEF f, g
<1>8. /\ c2 \in Seq(Frame)
      /\ Len(c2) = top + 1
      /\ \A i \in 1 .. top - 1 : c2[i] = callstack[i]
      /\ c2[top] = f
      /\ c2[top + 1] = g
  <2>1. /\ <<f, g>> \in Seq(Frame)
        /\ Len(<<f, g>>) = 2
        /\ <<f, g>>[1] = f
        /\ <<f, g>>[2] = g
    BY <1>6, <1>7
  <2> DEFINE p == <<f, g>>
  <2> HIDE DEF p
  <2>2. /\ Rest \o p \in Seq(Frame)
        /\ Len(Rest \o p) = Len(Rest) + Len(p)
        /\ \A i \in 1 .. Len(Rest) + Len(p) :
              (Rest \o p)[i] = IF i <= Len(Rest) THEN Rest[i]
                               ELSE p[i - Len(Rest)]
    BY <1>2, <2>1, ConcatProperties DEF p
  <2>3. Len(p) = 2 /\ p[1] = f /\ p[2] = g /\ c2 = Rest \o p
    BY <2>1 DEF p
  <2>4. (Rest \o p)[top] = f /\ (Rest \o p)[top + 1] = g
    BY <1>2, <2>2, <2>3
  <2> QED
    BY <1>2, <2>2, <2>3, <2>4
<1> HIDE DEF top, x, st, lo, cs, c2
<1>9. Sound(Found, st, lo, c2)
  <2>1. Descends(lo, cs, top, x, succ, c2)
    BY <1>1, <1>2, <1>3, <1>4, <1>6, <1>7, <1>8 DEF Descends, top
  <2> QED
    BY <1>3, <2>1, DescendSound
<1>10. Sound(Found', stack', low', callstack')
  <2>1. Found' = Found
    BY <1>1 DEF Found
  <2> QED
    BY <1>1, <1>9, <2>1
<1>11. Remaining'
  <2>1. Len(callstack') > 0 /\ callstack'[1].node = callstack[1].node
    BY <1>1, <1>2, <1>6, <1>8 DEF x
  <2> QED
    BY <1>1, <2>1, TurnRemaining DEF lo
<1>12. CalleesFirst'
  BY <1>1 DEF Whole, CalleesFirst, Successors
<1>13. Sound(Found, stack, low, callstack)'
  BY <1>1, <1>10, SoundNext
<1> QED
  BY <1>1, <1>11, <1>12, <1>13 DEF Whole

(* The inner loop leaves a node that is not the start of a component.       *)
LEMMA WholeRetreat == Whole /\ Retreat => Whole'
<1> SUFFICES ASSUME Whole, Retreat PROVE Whole'
  OBVIOUS
<1> DEFINE top == Len(callstack)
           x   == Top.node
           st  == StackOnTurn(Top)
           lo  == LowOnTurn(Top)
           cs  == Halfway
<1>1. /\ Turning /\ callstack # <<>>
      /\ TodoOnTurn(Top) = {}
      /\ lo[x] # Top.num
      /\ low' = lo /\ stack' = st /\ callstack' = Rest
      /\ UNCHANGED <<graph, result, pending>>
  BY DEF Retreat, Turning
<1>2. /\ top \in Nat /\ top > 0 /\ top = Len(callstack)
      /\ Top = callstack[top]
      /\ Rest \in Seq(Frame)
      /\ Len(Rest) = top - 1
      /\ \A i \in 1 .. top - 1 : Rest[i] = callstack[i]
  BY <1>1, TopOfStack
<1>3. /\ Sound(Found, st, lo, cs)
      /\ lo[x] <= lo[Top.at]
  BY <1>1, HalfTurn
<1>4. /\ Len(cs) = top
      /\ \A i \in 1 .. top - 1 : cs[i] = callstack[i]
      /\ cs[top].node = x
      /\ cs[top].entered
      /\ cs[top].todo = TodoOnTurn(Top)
      /\ cs[top].at = Top.at
      /\ cs[top].num = Top.num
  BY <1>1, HalfwayShape
<1> HIDE DEF top, x, st, lo, cs
<1>5. Sound(Found, st, lo, Rest) /\ top > 1
  <2>1. /\ lo[x] <= lo[cs[top].at]
        /\ cs[top].todo = {}
        /\ lo[x] # cs[top].num
        /\ \A k \in 1 .. top - 1 : Rest[k] = cs[k]
    BY <1>1, <1>2, <1>3, <1>4
  <2> QED
    BY <1>2, <1>3, <1>4, <2>1, RetreatSound
<1>6. Sound(Found', stack', low', callstack')
  <2>1. Found' = Found
    BY <1>1 DEF Found
  <2> QED
    BY <1>1, <1>5, <2>1
<1>7. Remaining'
  <2>1. Len(callstack') > 0 /\ callstack'[1].node = callstack[1].node
    BY <1>1, <1>2, <1>5
  <2> QED
    BY <1>1, <2>1, TurnRemaining DEF lo
<1>8. CalleesFirst'
  BY <1>1 DEF Whole, CalleesFirst, Successors
<1>9. Sound(Found, stack, low, callstack)'
  BY <1>1, <1>6, SoundNext
<1> QED
  BY <1>1, <1>7, <1>8, <1>9 DEF Whole

(* A component that comes out last adds itself to what has been found, and  *)
(* keeps the components disjoint and their successors behind them.          *)
LEMMA ResultGrows ==
  ASSUME result \in Seq(SUBSET Nodes), CalleesFirst, graph' = graph,
         NEW comp \in SUBSET Nodes, result' = Append(result, comp),
         comp \cap Found = {},
         \A n \in comp : Successors(n) \subseteq comp \cup Found
  PROVE  /\ result' \in Seq(SUBSET Nodes)
         /\ Found' = Found \cup comp
         /\ CalleesFirst'
<1> DEFINE last == Len(result) + 1
<1>1. /\ Len(result) \in Nat
      /\ DOMAIN result = 1 .. Len(result)
      /\ result' \in Seq(SUBSET Nodes)
      /\ Len(result') = last
      /\ \A i \in 1 .. Len(result) : result'[i] = result[i]
      /\ result'[last] = comp
  BY LenProperties, AppendProperties
<1>2. DOMAIN result' = 1 .. last
  BY <1>1, LenProperties
<1>3. 1 .. last = 1 .. Len(result) \cup {last}
  BY <1>1
<1>4. Found = UNION {result[i] : i \in 1 .. Len(result)}
  BY <1>1 DEF Found
<1>5. Found' = UNION {result'[i] : i \in 1 .. last}
  BY <1>2 DEF Found
<1>6. \A i \in 1 .. last : i \in 1 .. Len(result) \/ i = last
  BY <1>3
<1>7. last \in 1 .. last /\ 1 .. Len(result) \subseteq 1 .. last
  BY <1>1
<1>8. \A i \in 1 .. Len(result) : result[i] \subseteq Found /\ i < last
  BY <1>1, <1>4
<1>9. \A m \in Found : \E j \in 1 .. Len(result) : m \in result[j]
  BY <1>4
<1> HIDE DEF last
<1>a. Found' = Found \cup comp
  <2>1. \A n : n \in Found' <=> \E i \in 1 .. last : n \in result'[i]
    BY <1>5
  <2>2. ASSUME NEW n \in Found' PROVE n \in Found \cup comp
    <3>1. PICK i \in 1 .. last : n \in result'[i]
      BY <2>1, <2>2
    <3>2. CASE i = last
      BY <1>1, <3>1, <3>2
    <3>3. CASE i \in 1 .. Len(result)
      BY <1>1, <1>8, <3>1, <3>3
    <3> QED
      BY <1>6, <3>2, <3>3
  <2>3. ASSUME NEW n \in comp PROVE n \in Found'
    BY <1>1, <1>7, <2>1
  <2>4. ASSUME NEW n \in Found PROVE n \in Found'
    <3>1. PICK i \in 1 .. Len(result) : n \in result[i]
      BY <1>9
    <3> QED
      BY <1>1, <1>7, <2>1, <3>1
  <2> QED
    BY <2>2, <2>3, <2>4
<1>b. ASSUME NEW i \in 1 .. last, NEW j \in 1 .. last, i # j
      PROVE  result'[i] \cap result'[j] = {}
  <2>1. CASE i \in 1 .. Len(result) /\ j \in 1 .. Len(result)
    BY <1>1, <1>b, <2>1 DEF CalleesFirst
  <2>2. CASE i = last /\ j \in 1 .. Len(result)
    BY <1>1, <1>8, <2>2
  <2>3. CASE j = last /\ i \in 1 .. Len(result)
    BY <1>1, <1>8, <2>3
  <2> QED
    BY <1>6, <1>b, <2>1, <2>2, <2>3
<1>c. ASSUME NEW i \in 1 .. last, NEW n \in result'[i], NEW m \in Successors(n)
      PROVE  \E j \in 1 .. i : m \in result'[j]
  <2>1. CASE i \in 1 .. Len(result)
    <3>1. n \in result[i]
      BY <1>1, <1>c, <2>1
    <3>2. PICK j \in 1 .. i : m \in result[j]
      BY <1>c, <2>1, <3>1 DEF CalleesFirst
    <3>3. j \in 1 .. Len(result)
      BY <1>1, <2>1
    <3> QED
      BY <1>1, <3>2, <3>3
  <2>2. CASE i = last
    <3>1. n \in comp
      BY <1>1, <1>c, <2>2
    <3>2. m \in comp \/ m \in Found
      BY <1>c, <3>1
    <3>3. CASE m \in comp
      BY <1>1, <1>7, <2>2, <3>3
    <3>4. CASE m \in Found
      <4>1. PICK j \in 1 .. Len(result) : m \in result[j]
        BY <1>9, <3>4
      <4> QED
        BY <1>1, <1>7, <2>2, <4>1
    <3> QED
      BY <3>2, <3>3, <3>4
  <2> QED
    BY <1>6, <2>1, <2>2
<1>d. CalleesFirst'
  <2>1. \A n : Successors(n)' = Successors(n)
    BY DEF Successors
  <2> QED
    BY <1>1, <1>b, <1>c, <2>1 DEF CalleesFirst
<1> QED
  BY <1>1, <1>a, <1>d

(* The inner loop emits a component.                                        *)
LEMMA WholeEmitComponent == Whole /\ EmitComponent => Whole'
<1> SUFFICES ASSUME Whole, EmitComponent PROVE Whole'
  OBVIOUS
<1> DEFINE top  == Len(callstack)
           x    == Top.node
           st   == StackOnTurn(Top)
           lo   == LowOnTurn(Top)
           cs   == Halfway
           comp == UpTo(x, st)
           s2   == SubSeq(st, 1, Len(st) - Cardinality(comp))
           l2   == Mark(comp, lo)
<1>1. /\ Turning /\ callstack # <<>>
      /\ TodoOnTurn(Top) = {}
      /\ lo[x] = Top.num
      /\ result' = Append(result, comp)
      /\ stack' = s2
      /\ low' = l2
      /\ callstack' = Rest
      /\ UNCHANGED <<graph, pending>>
  BY DEF EmitComponent, Turning
<1>2. /\ top \in Nat /\ top > 0 /\ top = Len(callstack)
      /\ Top = callstack[top]
      /\ Rest \in Seq(Frame)
      /\ Len(Rest) = top - 1
      /\ \A i \in 1 .. top - 1 : Rest[i] = callstack[i]
  BY <1>1, TopOfStack
<1>3. /\ Sound(Found, st, lo, cs)
      /\ lo[x] <= lo[Top.at]
  BY <1>1, HalfTurn
<1>4. /\ Len(cs) = top
      /\ \A i \in 1 .. top - 1 : cs[i] = callstack[i]
      /\ cs[top].node = x
      /\ cs[top].entered
      /\ cs[top].todo = TodoOnTurn(Top)
      /\ cs[top].at = Top.at
      /\ cs[top].num = Top.num
  BY <1>1, HalfwayShape
<1>5. DOMAIN l2 = DOMAIN lo
  BY DEF Mark
<1> HIDE DEF top, x, st, lo, cs
<1>6. PICK p \in 1 .. Len(st) : st[p] = x
  <2>1. top \in Entered(cs)
    BY <1>2, <1>4 DEF Entered
  <2> QED
    BY <1>3, <1>4, <2>1 DEF Sound, OnPath
<1>7. /\ comp \in SUBSET Nodes
      /\ \A n : n \in comp <=> \E i \in p .. Len(st) : st[i] = n
      /\ s2 \in Seq(Nodes)
      /\ Len(s2) = p - 1
      /\ \A i \in 1 .. p - 1 : s2[i] = st[i]
  <2>1. st \in Seq(Nodes) /\ Once(st)
    BY <1>3 DEF Sound, Typed
  <2> QED
    BY <1>6, <2>1, Popped
<1> HIDE DEF comp, s2
<1>8. l2 = Mark(comp, lo)
  OBVIOUS
<1> HIDE DEF l2
<1>9. /\ Sound(Found \cup comp, s2, l2, Rest)
      /\ comp \cap Found = {}
      /\ \A n \in comp : Successors(n) \subseteq comp \cup Found
  <2>1. Emits(st, lo, cs, top, x, p, comp, s2, l2, Rest)
    BY <1>1, <1>2, <1>3, <1>4, <1>6, <1>7, <1>8 DEF Emits
  <2> QED
    BY <1>3, <2>1, EmitSound
<1>10. /\ result' \in Seq(SUBSET Nodes)
       /\ Found' = Found \cup comp
       /\ CalleesFirst'
  BY <1>1, <1>7, <1>9, ResultGrows DEF Whole
<1>11. Remaining'
  <2>1. CASE top = 1
    BY <1>1, <1>2, <1>5, <2>1, TurnRemaining DEF lo, l2
  <2>2. CASE top > 1
    <3>1. Len(callstack') > 0 /\ callstack'[1].node = callstack[1].node
      BY <1>1, <1>2, <2>2
    <3> QED
      BY <1>1, <1>5, <3>1, TurnRemaining DEF lo, l2
  <2> QED
    BY <1>2, <2>1, <2>2
<1>12. Sound(Found, stack, low, callstack)'
  BY <1>1, <1>9, <1>10, SoundNext
<1> QED
  BY <1>1, <1>10, <1>11, <1>12 DEF Whole

-------------------------------------------------------------------------------
(* Every step of FindAll keeps the invariant.                               *)
LEMMA WholeStep == Whole /\ [Next]_vars => Whole'
<1>1. ASSUME Whole, UNCHANGED vars PROVE Whole'
  <2>1. UNCHANGED <<graph, result, stack, low, callstack, pending>>
    BY <1>1 DEF vars
  <2>2. Found' = Found
    BY <2>1 DEF Found
  <2>3. Sound(Found, stack, low, callstack)'
    BY <1>1, <2>1, <2>2, SoundNext DEF Whole
  <2>4. Remaining'
    BY <1>1, <2>1 DEF Whole, Remaining
  <2>5. CalleesFirst'
    BY <1>1, <2>1 DEF Whole, CalleesFirst, Successors
  <2> QED
    BY <1>1, <2>1, <2>3, <2>4, <2>5 DEF Whole
<1> QED
  BY <1>1, WholePushNode, WholeSkip, WholeDescend, WholeRetreat,
     WholeEmitComponent DEF Next

(* The whole invariant of the algorithm holds between any two turns.        *)
THEOREM FindAllInvariant == Spec => []Whole
BY InitWhole, WholeStep, PTL DEF Spec

-------------------------------------------------------------------------------
(* Types, for a graph of any size: no node is on the stack twice, and only  *)
(* the frame on top may have to be entered.                                 *)
THEOREM TypeCorrect == Spec => []TypeOK
<1>1. Whole => TypeOK
  <2> SUFFICES ASSUME Whole PROVE TypeOK
    OBVIOUS
  <2>1. Sound(Found, stack, low, callstack)
    BY DEF Whole
  <2>2. /\ DOMAIN result = 1 .. Len(result)
        /\ DOMAIN stack = 1 .. Len(stack)
        /\ DOMAIN callstack = 1 .. Len(callstack)
    BY <2>1, LenProperties DEF Whole, Sound, Typed
  <2>3. \A i \in DOMAIN result : result[i] \in SUBSET Nodes
    BY <2>2, ElementOfSeq DEF Whole
  <2>4. \A i \in DOMAIN stack : stack[i] \in Nodes
    BY <2>1, <2>2, ElementOfSeq DEF Sound, Typed
  <2>5. IsInjective(stack)
    BY <2>1, <2>2 DEF Sound, Once, IsInjective
  <2>6. ASSUME NEW i \in DOMAIN callstack
        PROVE  /\ callstack[i].node \in Nodes
               /\ i < Len(callstack) => callstack[i].entered
               /\ callstack[i].entered => Visited(callstack[i].node)
    <3>1. callstack[i] \in Frame
      BY <2>1, <2>2, ElementOfSeq DEF Sound, Typed
    <3>2. i < Len(callstack) => callstack[i].entered
      BY <2>1, <2>2 DEF Sound, Linked
    <3>3. callstack[i].entered => callstack[i].node \in DOMAIN low
      BY <2>1, <2>2 DEF Sound, OnPath, Marked, Entered
    <3> QED
      BY <3>1, <3>2, <3>3 DEF Frame, Visited
  <2>7. low \in [DOMAIN low -> 0 .. NumNodes] /\ DOMAIN low \subseteq Nodes
    BY <2>1 DEF Sound, Typed
  <2> QED
    BY <2>3, <2>4, <2>5, <2>6, <2>7 DEF TypeOK, Whole
<1> QED
  BY <1>1, FindAllInvariant, PTL

(* The mark of the nodes that have their component is never taken for a     *)
(* low-link, and no low-link for the mark, for a graph of any size.         *)
THEOREM MarksAreSafe == Spec => []LowMarksFound
<1>1. Whole => LowMarksFound
  <2> SUFFICES ASSUME Whole PROVE LowMarksFound
    OBVIOUS
  <2>1. Marked(Found, stack, low) /\ stack \in Seq(Nodes)
    BY DEF Whole, Sound, Typed
  <2>2. DOMAIN stack = 1 .. Len(stack)
    BY <2>1, LenProperties
  <2> QED
    BY <2>1, <2>2 DEF Marked, LowMarksFound
<1> QED
  BY <1>1, FindAllInvariant, PTL

(* When FindAll returns every node has its component.                       *)
THEOREM NoNodeForgotten == Spec => []AllFound
<1>1. Whole => AllFound
  <2> SUFFICES ASSUME Whole, Returned PROVE Found = Nodes
    BY DEF AllFound
  <2>1. /\ Sound(Found, stack, low, callstack)
        /\ Len(callstack) = 0 /\ Len(pending) = 0
    BY DEF Whole, Returned
  <2>2. Len(stack) = 0
    BY <2>1 DEF Sound, Bottom
  <2>3. Nodes \subseteq DOMAIN low
    BY <2>1 DEF Whole, Remaining
  <2>4. Found \subseteq Nodes
    BY <2>1 DEF Sound, Typed
  <2>5. \A n \in DOMAIN low : n \in Found
    BY <2>1, <2>2 DEF Sound, Marked
  <2> QED
    BY <2>3, <2>4, <2>5
<1> QED
  BY <1>1, FindAllInvariant, PTL

(* When FindAll has returned, the graph that Condense makes of the result   *)
(* is acyclic, and its nodes are numbered callees first, which the          *)
(* schedulers of the analysis take for granted: for a graph of any size,    *)
(* with recursive procedures and with the edges in any order.               *)
THEOREM CalleesAreNumberedFirst == Spec => []CondensationDescends
<1>1. Whole /\ AllFound => CondensationDescends
  <2> SUFFICES ASSUME Whole, AllFound, Returned,
                      NEW d \in graph, Mapping(d[1]) # Mapping(d[2])
               PROVE  Mapping(d[2]) < Mapping(d[1])
    BY DEF CondensationDescends, CondensationEdges
  <2>1. /\ d[1] \in Nodes /\ d[2] \in Nodes /\ d = <<d[1], d[2]>>
        /\ d[2] \in Successors(d[1])
    BY DEF Whole, Successors
  <2>2. Len(result) \in Nat /\ DOMAIN result = 1 .. Len(result)
    BY LenProperties DEF Whole
  <2>3. \A n \in Nodes : \E i \in 1 .. Len(result) : n \in result[i]
    BY <2>2 DEF AllFound, Found
  <2>4. ASSUME NEW n, NEW i \in 1 .. Len(result), n \in result[i]
        PROVE  Mapping(n) = i
    <3>1. \A j \in 1 .. Len(result) : n \in result[j] => j = i
      BY <2>4 DEF Whole, CalleesFirst
    <3> QED
      BY <2>2, <2>4, <3>1 DEF Mapping
  <2>5. PICK i \in 1 .. Len(result) : d[1] \in result[i]
    BY <2>1, <2>3
  <2>6. PICK j \in 1 .. i : d[2] \in result[j]
    BY <2>1, <2>5 DEF Whole, CalleesFirst
  <2>7. j \in 1 .. Len(result)
    BY <2>2
  <2>8. Mapping(d[1]) = i /\ Mapping(d[2]) = j
    BY <2>4, <2>5, <2>6, <2>7
  <2> QED
    BY <2>2, <2>8
<1> QED
  BY <1>1, FindAllInvariant, NoNodeForgotten, PTL

===============================================================================
