------------------------ MODULE AbstractScanner_proofs ------------------------
(***************************************************************************)
(* Lemmas about the blocks that scanners share: what a block is made of,   *)
(* and what splitting two of them leaves behind, whatever the image holds. *)
(***************************************************************************)
EXTENDS AbstractScanner, SequenceTheorems, FiniteSetTheorems,
        WellFoundedInduction, TLAPS

-------------------------------------------------------------------------------
(* Least and greatest numbers. *)

(* A set of numbers that is not empty has a least member.                   *)
LEMMA LeastExists ==
  ASSUME NEW T \in SUBSET Nat, T # {}
  PROVE  \E m \in T : \A x \in T : m <= x
<1> DEFINE R == OpToRel(<, Nat)
<1>1. PICK m \in T : \A x \in T : <<x, m>> \notin R
  BY NatLessThanWellFounded, WFMin
<1>2. ASSUME NEW x \in T, x < m PROVE FALSE
  <2>1. <<x, m>> \in R
    BY <1>2 DEF OpToRel
  <2> QED
    BY <1>1, <2>1
<1>3. \A x \in T : x \in Nat
  OBVIOUS
<1> QED
  BY <1>2, <1>3

(* With a bound it has a greatest one.                                      *)
LEMMA GreatestExists ==
  ASSUME NEW n \in Nat, NEW T \in SUBSET (0 .. n), T # {}
  PROVE  \E m \in T : \A x \in T : x <= m
<1> DEFINE U == {n - x : x \in T}
<1>1. U \in SUBSET Nat /\ U # {}
  OBVIOUS
<1>2. PICK u \in U : \A x \in U : u <= x
  BY <1>1, LeastExists
<1>3. PICK m \in T : u = n - m
  OBVIOUS
<1>4. ASSUME NEW x \in T PROVE x <= m
  <2>1. u <= n - x
    BY <1>2
  <2> QED
    BY <1>3, <2>1
<1> QED
  BY <1>4

(* Max gives it.                                                            *)
LEMMA MaxIsGreatest ==
  ASSUME NEW n \in Nat, NEW T \in SUBSET (0 .. n), T # {}
  PROVE  Max(T) \in T /\ \A x \in T : x <= Max(T)
<1>1. PICK m \in T : \A x \in T : x <= m
  BY GreatestExists
<1>2. \A x \in T : m >= x
  BY <1>1
<1> QED
  BY <1>2 DEF Max

(* Min gives the lesser of two lengths.                                     *)
LEMMA MinOfTwo ==
  ASSUME NEW m \in Nat, NEW n \in Nat
  PROVE  Min({m, n}) = IF m <= n THEN m ELSE n
<1> DEFINE l == IF m <= n THEN m ELSE n
<1>1. l \in {m, n} /\ \A y \in {m, n} : l <= y
  OBVIOUS
<1>2. /\ Min({m, n}) \in {m, n}
      /\ \A y \in {m, n} : Min({m, n}) <= y
  BY <1>1 DEF Min
<1> QED
  BY <1>2

-------------------------------------------------------------------------------
(* What a block is made of. *)

(* Execution runs through the instruction, or the block ends with it.       *)
RunsOn(a) == code[a].op \in {"linear", "padding"}
Stops(a)  ==
    code[a].op \in {"goto", "branch", "call", "return", "resume", "halt"}

(* Padding and other instructions do not share a block.                     *)
Boundary(a, n) ==
    /\ n \in DOMAIN code
    /\ code[n].op \in {"goto", "branch", "call", "return", "resume",
                       "linear", "padding"}
    /\ (code[n].op = "padding") # (code[a].op = "padding")

(* Instructions one after another, as far as control runs through them.     *)
Chain(s) ==
    /\ s \in Seq(Addresses)
    /\ \A i \in 1 .. Len(s) : s[i] \in DOMAIN code
    /\ \A i \in 1 .. Len(s) - 1 :
          /\ RunsOn(s[i])
          /\ s[i + 1] = After(s[i])
          /\ ~Boundary(s[i], s[i + 1])

IsBlock(s) == /\ Chain(s)
              /\ s # <<>>
              /\ RunsOn(Last(s)) \/ Stops(Last(s))

(* Behind the block control goes elsewhere, or on with another block.       *)
Falls(s, starts) ==
    \/ Stops(Last(s))
    \/ After(Last(s)) \in starts
    \/ Boundary(Last(s), After(Last(s)))

CodeFits == \A a \in DOMAIN code : a \in Addresses /\ code[a] \in InstructionsAt(a)

(* An instruction leads forward, inside the image or right behind it.       *)
LEMMA AfterFits ==
  ASSUME CodeFits, NEW a \in DOMAIN code
  PROVE  /\ a \in Nat
         /\ After(a) \in 1 .. Beyond
         /\ a < After(a)
         /\ code[a].op \in AllOps
         /\ a # Beyond
<1>1. a \in Addresses /\ code[a] \in InstructionsAt(a)
  BY DEF CodeFits
<1>2. PICK op \in Ops : /\ code[a] \in [op : {op}, to : Targets(op), length : Lengths(op)]
                        /\ a + code[a].length <= Beyond
  BY <1>1 DEF InstructionsAt
<1>3. code[a].op \in AllOps /\ code[a].length \in Nat \ {0}
  BY <1>2, ScannerAssumption DEF Lengths
<1> QED
  BY <1>1, <1>2, <1>3, ScannerAssumption DEF After, Addresses, Beyond

(* The addresses of a chain climb.                                          *)
LEMMA ChainClimbs ==
  ASSUME CodeFits, NEW s, Chain(s),
         NEW i \in 1 .. Len(s), NEW j \in 1 .. Len(s), i < j
  PROVE  s[i] < s[j]
<1> DEFINE T == {k \in 1 .. Len(s) : i < k /\ ~(s[i] < s[k])}
<1>1. Len(s) \in Nat
  BY LenProperties DEF Chain
<1>2. \A k \in 1 .. Len(s) : s[k] \in Nat
  BY AfterFits DEF Chain
<1> SUFFICES ASSUME T # {} PROVE FALSE
  OBVIOUS
<1>3. PICK m \in T : \A x \in T : m <= x
  <2>1. T \in SUBSET Nat
    BY <1>1
  <2> QED
    BY <2>1, LeastExists
<1>4. /\ m - 1 \in 1 .. Len(s) - 1
      /\ m - 1 \in 1 .. Len(s)
      /\ (m - 1) + 1 = m
      /\ m - 1 \notin T
  BY <1>1, <1>3
<1>5. m - 1 = i \/ s[i] < s[m - 1]
  BY <1>1, <1>3, <1>4
<1>6. s[m - 1] \in DOMAIN code
  BY <1>4 DEF Chain
<1>6a. s[m] = After(s[m - 1])
  BY <1>4 DEF Chain
<1>7. s[m - 1] < s[m]
  BY <1>6, <1>6a, AfterFits
<1> QED
  BY <1>1, <1>2, <1>3, <1>4, <1>5, <1>7

(* So they are all different.                                               *)
LEMMA ChainInjective ==
  ASSUME CodeFits, NEW s, Chain(s),
         NEW i \in 1 .. Len(s), NEW j \in 1 .. Len(s), s[i] = s[j]
  PROVE  i = j
<1>1. Len(s) \in Nat
  BY LenProperties DEF Chain
<1>2. s[i] \in Nat /\ s[j] \in Nat
  BY AfterFits DEF Chain
<1>3. CASE i < j
  BY <1>2, <1>3, ChainClimbs
<1>4. CASE j < i
  BY <1>2, <1>4, ChainClimbs
<1> QED
  BY <1>1, <1>3, <1>4

(* What the last instruction of a block is.                                 *)
LEMMA BlockEnds ==
  ASSUME NEW s, IsBlock(s)
  PROVE  /\ Len(s) \in Nat
         /\ Len(s) \in 1 .. Len(s)
         /\ DOMAIN s = 1 .. Len(s)
         /\ Last(s) = s[Len(s)]
         /\ Last(s) \in DOMAIN code
         /\ Head(s) = s[1]
         /\ 1 \in 1 .. Len(s)
         /\ \A i \in 1 .. Len(s) : RunsOn(s[i]) \/ Stops(s[i])
         /\ \A i \in 1 .. Len(s) : Stops(s[i]) => i = Len(s)
<1>1. Len(s) \in Nat /\ Len(s) # 0
  BY EmptySeq, LenProperties DEF IsBlock, Chain
<1>2. \A i \in 1 .. Len(s) : i # Len(s) => i \in 1 .. Len(s) - 1
  BY <1>1
<1>3. \A i \in 1 .. Len(s) : i # Len(s) => RunsOn(s[i])
  BY <1>2 DEF IsBlock, Chain
<1>4. \A i \in 1 .. Len(s) : RunsOn(s[i]) \/ Stops(s[i])
  BY <1>3 DEF IsBlock, Last
<1>5. \A i \in 1 .. Len(s) : Stops(s[i]) => i = Len(s)
  BY <1>3 DEF RunsOn, Stops
<1>6. Head(s) = s[1] /\ DOMAIN s = 1 .. Len(s)
  BY HeadTailProperties, LenProperties DEF IsBlock, Chain
<1>7. Len(s) \in 1 .. Len(s) /\ 1 \in 1 .. Len(s)
  BY <1>1
<1>8. s[Len(s)] \in DOMAIN code
  BY <1>7 DEF IsBlock, Chain
<1> QED
  BY <1>1, <1>4, <1>5, <1>6, <1>7, <1>8 DEF Last

-------------------------------------------------------------------------------
(* Maps. *)

(* One entry is replaced if it is still what it was taken for.              *)
LEMMA TryUpdateIs ==
  ASSUME NEW f, NEW k, NEW new, NEW old, NEW g, g = TryUpdate(f, k, new, old)
  PROVE  /\ DOMAIN g = DOMAIN f
         /\ \A x \in DOMAIN f : g[x] = IF x = k /\ f[k] = old THEN new ELSE f[x]
BY DEF TryUpdate, Set

(* An entry is added unless there is one.                                   *)
LEMMA TryAddIs ==
  ASSUME NEW f, NEW k, NEW v, NEW g, g = TryAdd(f, k, v)
  PROVE  /\ DOMAIN g = DOMAIN f \cup {k}
         /\ \A x \in DOMAIN f : g[x] = f[x]
         /\ k \notin DOMAIN f => g[k] = v
BY DEF TryAdd, Set

-------------------------------------------------------------------------------
(* Parts of blocks. *)

(* What two blocks share is the longest tail of both that is the same.      *)
LEMMA SharedIs ==
  ASSUME NEW s, NEW t, IsBlock(s), IsBlock(t)
  PROVE  /\ Shared(s, t) \in 0 .. Len(s)
         /\ Shared(s, t) \in 0 .. Len(t)
         /\ \A j \in 0 .. Shared(s, t) - 1 : s[Len(s) - j] = t[Len(t) - j]
         /\ Shared(s, t) < Len(s) /\ Shared(s, t) < Len(t)
               => s[Len(s) - Shared(s, t)] # t[Len(t) - Shared(s, t)]
         /\ Last(s) = Last(t) => Shared(s, t) # 0
<1> DEFINE m == Min({Len(s), Len(t)})
           Same(k) == \A j \in 0 .. k - 1 : s[Len(s) - j] = t[Len(t) - j]
           T == {k \in 0 .. m : Same(k)}
           n == Max(T)
<1>1. Len(s) \in Nat /\ Len(t) \in Nat
  BY BlockEnds
<1>2. m = IF Len(s) <= Len(t) THEN Len(s) ELSE Len(t)
  BY <1>1, MinOfTwo
<1>3. m \in Nat /\ m <= Len(s) /\ m <= Len(t)
  BY <1>1, <1>2
<1>4. 0 \in T
  BY <1>3
<1> HIDE DEF m
<1>5. n \in T /\ \A k \in T : k <= n
  BY <1>3, <1>4, MaxIsGreatest
<1> HIDE DEF n
<1>6. n \in 0 .. m /\ Same(n)
  BY <1>5
<1>7. Shared(s, t) = n
  BY DEF Shared, m, n
<1>8. ASSUME n < Len(s), n < Len(t), s[Len(s) - n] = t[Len(t) - n]
      PROVE  FALSE
  <2>1. n + 1 \in 0 .. m
    BY <1>1, <1>2, <1>6, <1>8
  <2>2. Same(n + 1)
    BY <1>6, <1>8
  <2> QED
    BY <1>5, <1>6, <2>1, <2>2
<1>9. ASSUME Last(s) = Last(t), n = 0 PROVE FALSE
  <2>1. /\ s[Len(s) - n] = t[Len(t) - n]
        /\ n < Len(s)
        /\ n < Len(t)
    BY <1>9, BlockEnds
  <2> QED
    BY <1>8, <2>1
<1> QED
  BY <1>3, <1>6, <1>7, <1>8, <1>9

(* The front part of a block is a block that falls into the rest.           *)
LEMMA ChopIs ==
  ASSUME NEW s, IsBlock(s), NEW n \in 1 .. Len(s) - 1
  PROVE  /\ IsBlock(Chop(s, n))
         /\ Len(Chop(s, n)) = n
         /\ \A i \in 1 .. n : Chop(s, n)[i] = s[i]
         /\ Last(Chop(s, n)) = s[n]
         /\ Head(Chop(s, n)) = s[1]
         /\ RunsOn(s[n])
         /\ After(s[n]) = s[n + 1]
         /\ n \in 1 .. Len(s) /\ n + 1 \in 1 .. Len(s)
<1> DEFINE c == Chop(s, n)
<1>1. /\ Len(s) \in Nat
      /\ n \in Nat /\ n # 0
      /\ \A i \in 1 .. n : i \in 1 .. Len(s)
      /\ n \in 1 .. Len(s) /\ n + 1 \in 1 .. Len(s)
      /\ n \in 1 .. n /\ 1 \in 1 .. n
      /\ \A i \in 1 .. n - 1 : i \in 1 .. n /\ i + 1 \in 1 .. n
      /\ \A i \in 1 .. n - 1 : i \in 1 .. Len(s) - 1
  BY BlockEnds
<1>2. s \in Seq(Addresses)
  BY DEF IsBlock, Chain
<1>3. \A i \in 1 .. n : s[i] \in Addresses
  BY <1>1, <1>2, ElementOfSeq
<1>4. /\ c \in Seq(Addresses)
      /\ Len(c) = n
      /\ \A i \in 1 .. n : c[i] = s[i]
  <2>1. /\ c \in Seq(Addresses)
        /\ Len(c) = IF 1 <= n THEN n - 1 + 1 ELSE 0
        /\ \A i \in 1 .. n - 1 + 1 : c[i] = s[1 + i - 1]
    BY <1>1, <1>3, SubSeqProperties DEF Chop
  <2> QED
    BY <1>1, <2>1
<1> HIDE DEF c
<1>5. RunsOn(s[n]) /\ After(s[n]) = s[n + 1]
  BY <1>1 DEF IsBlock, Chain
<1>6. c # <<>>
  BY <1>1, <1>4, EmptySeq
<1>7. Last(c) = s[n] /\ Head(c) = s[1]
  BY <1>1, <1>4, <1>6, HeadTailProperties DEF Last
<1>8. Chain(c)
  <2>1. \A i \in 1 .. n : c[i] \in DOMAIN code
    BY <1>1, <1>4 DEF IsBlock, Chain
  <2>2. \A i \in 1 .. n - 1 : /\ RunsOn(c[i])
                              /\ c[i + 1] = After(c[i])
                              /\ ~Boundary(c[i], c[i + 1])
    BY <1>1, <1>4 DEF IsBlock, Chain
  <2> QED
    BY <1>4, <2>1, <2>2 DEF Chain
<1> QED
  BY <1>1, <1>4, <1>5, <1>6, <1>7, <1>8 DEF IsBlock, c

(* The rest is a block too, and ends where the whole did.                   *)
LEMMA RestIs ==
  ASSUME NEW s, IsBlock(s), NEW n \in 1 .. Len(s) - 1
  PROVE  LET rest == SubSeq(s, n + 1, Len(s))
         IN  /\ IsBlock(rest)
             /\ Len(rest) = Len(s) - n
             /\ \A i \in 1 .. Len(s) - n : rest[i] = s[n + i]
             /\ Last(rest) = Last(s)
<1> DEFINE c == SubSeq(s, n + 1, Len(s))
           m == Len(s) - n
<1>0. /\ Len(s) \in Nat
      /\ n \in Nat
      /\ n < Len(s)
  BY BlockEnds
<1>1. /\ Len(s) \in Nat
      /\ n \in Nat
      /\ m \in Nat /\ m # 0
      /\ \A i \in 1 .. m : n + i \in 1 .. Len(s)
      /\ m \in 1 .. m
      /\ n + m = Len(s)
      /\ \A i \in 1 .. m - 1 : i \in 1 .. m /\ i + 1 \in 1 .. m
      /\ \A i \in 1 .. m - 1 : n + i \in 1 .. Len(s) - 1 /\ (n + i) + 1 = n + (i + 1)
      /\ \A i \in n + 1 .. Len(s) : i \in 1 .. Len(s)
  BY BlockEnds
<1>2. s \in Seq(Addresses)
  BY DEF IsBlock, Chain
<1>3. \A i \in n + 1 .. Len(s) : s[i] \in Addresses
  BY <1>1, <1>2, ElementOfSeq
<1>4. /\ c \in Seq(Addresses)
      /\ Len(c) = m
      /\ \A i \in 1 .. m : c[i] = s[n + i]
  <2> DEFINE lo == n + 1
             hi == Len(s)
  <2>1. /\ lo \in Int /\ hi \in Int
        /\ lo <= hi
        /\ hi - lo + 1 = m
    BY <1>0
  <2>1a. \A i \in 1 .. m : lo + i - 1 = n + i
    BY <1>0
  <2>1b. \A i \in lo .. hi : s[i] \in Addresses
    BY <1>3
  <2>2. c = SubSeq(s, lo, hi)
    OBVIOUS
  <2> HIDE DEF lo, hi, c, m
  <2>3. /\ c \in Seq(Addresses)
        /\ Len(c) = IF lo <= hi THEN hi - lo + 1 ELSE 0
        /\ \A i \in 1 .. hi - lo + 1 : c[i] = s[lo + i - 1]
    BY <2>1, <2>1b, <2>2, SubSeqProperties
  <2> QED
    BY <2>1, <2>1a, <2>3
<1> HIDE DEF c, m
<1>5. c # <<>>
  BY <1>1, <1>4, EmptySeq
<1>6. Last(c) = Last(s)
  BY <1>1, <1>4 DEF Last
<1>7. Chain(c)
  <2>1. \A i \in 1 .. m : c[i] \in DOMAIN code
    BY <1>1, <1>4 DEF IsBlock, Chain
  <2>2. \A i \in 1 .. m - 1 : /\ RunsOn(c[i])
                              /\ c[i + 1] = After(c[i])
                              /\ ~Boundary(c[i], c[i + 1])
    <3> TAKE i \in 1 .. m - 1
    <3>1. /\ RunsOn(s[n + i])
          /\ s[(n + i) + 1] = After(s[n + i])
          /\ ~Boundary(s[n + i], s[(n + i) + 1])
      BY <1>1 DEF IsBlock, Chain
    <3> QED
      BY <1>1, <1>4, <3>1
  <2> QED
    BY <1>4, <2>1, <2>2 DEF Chain
<1>8. IsBlock(c)
  BY <1>5, <1>6, <1>7 DEF IsBlock
<1> QED
  BY <1>1, <1>4, <1>6, <1>8 DEF c, m

-------------------------------------------------------------------------------
(* The blocks that were found. *)

Instrs(b) == blocks[b].instrs
Body(b)   == ToSet(Instrs(b))

(* From these addresses control runs into something that is no instruction. *)
Doomed(D) ==
    \A a \in D :
       \/ a = Beyond
       \/ /\ a \in DOMAIN code
          /\ \/ code[a].op = "invalid"
             \/ RunsOn(a) /\ After(a) \in D /\ ~Boundary(a, After(a))

(* A block is a chain from its address that falls into another one unless   *)
(* control leaves it; a bad one starts where control is doomed.             *)
BlocksFit ==
    /\ CodeFits
    /\ DOMAIN blocks \subseteq 1 .. Beyond
    /\ \A b \in DOMAIN blocks :
          /\ blocks[b].valid \in BOOLEAN
          /\ blocks[b] = [instrs |-> Instrs(b), valid |-> blocks[b].valid]
    /\ \A b \in ValidBlocks : /\ IsBlock(Instrs(b))
                              /\ Instrs(b)[1] = b
                              /\ Falls(Instrs(b), ValidBlocks)
    /\ \E D \in SUBSET (1 .. Beyond) :
          Doomed(D) /\ DOMAIN blocks \ ValidBlocks \subseteq D

(* The blocks of S fall into one another.                                   *)
Closed(S) ==
    /\ CodeFits
    /\ \A b \in S : IsBlock(Instrs(b)) /\ Instrs(b)[1] = b /\ Falls(Instrs(b), S)

(* Membership in a block, by index.                                         *)
LEMMA InBlock ==
  ASSUME NEW s, IsBlock(s)
  PROVE  \A x : x \in ToSet(s) <=> \E i \in 1 .. Len(s) : s[i] = x
<1>1. DOMAIN s = 1 .. Len(s)
  BY BlockEnds
<1> QED
  BY <1>1 DEF ToSet

(* Where control runs on from an instruction of such a block there is       *)
(* another one, of the same block or the first of the next.                 *)
LEMMA FlowsOn ==
  ASSUME NEW S, Closed(S), NEW c \in S, NEW x \in Body(c),
         RunsOn(x), ~Boundary(x, After(x))
  PROVE  /\ x # LastOf(c) => After(x) \in Body(c)
         /\ x = LastOf(c) => After(x) \in S
<1>1. IsBlock(Instrs(c)) /\ Falls(Instrs(c), S)
  BY DEF Closed
<1>2. PICK i \in 1 .. Len(Instrs(c)) : Instrs(c)[i] = x
  BY <1>1, InBlock DEF Body
<1>3. ASSUME x # LastOf(c) PROVE After(x) \in Body(c)
  <2>1. i # Len(Instrs(c)) /\ Len(Instrs(c)) \in Nat
    BY <1>1, <1>2, <1>3, BlockEnds DEF LastOf, Instrs
  <2>2. i \in 1 .. Len(Instrs(c)) - 1 /\ i + 1 \in 1 .. Len(Instrs(c))
    BY <2>1
  <2>3. Instrs(c)[i + 1] = After(x)
    BY <1>1, <1>2, <2>2 DEF IsBlock, Chain
  <2> QED
    BY <1>1, <2>2, <2>3, InBlock DEF Body
<1>4. ASSUME x = LastOf(c) PROVE After(x) \in S
  <2>1. Last(Instrs(c)) = x
    BY <1>4 DEF LastOf, Instrs
  <2>2. ~Stops(x)
    BY DEF RunsOn, Stops
  <2> QED
    BY <1>1, <2>1, <2>2 DEF Falls
<1> QED
  BY <1>3, <1>4

(* A block contains its own address.                                        *)
LEMMA StartInBody ==
  ASSUME NEW S, Closed(S), NEW c \in S
  PROVE  c \in Body(c) /\ LastOf(c) \in Body(c) /\ LastOf(c) \in DOMAIN code
<1>1. IsBlock(Instrs(c)) /\ Instrs(c)[1] = c
  BY DEF Closed
<1> QED
  BY <1>1, InBlock, BlockEnds DEF Body, LastOf, Instrs

(* The blocks that are valid are closed.                                    *)
LEMMA ValidAreClosed == BlocksFit => Closed(ValidBlocks)
BY DEF BlocksFit, Closed

(* No instruction of a valid block is doomed.                               *)
LEMMA NotDoomed ==
  ASSUME BlocksFit, NEW D \in SUBSET (1 .. Beyond), Doomed(D),
         NEW b \in ValidBlocks, NEW x \in Body(b)
  PROVE  x \notin D
<1> DEFINE T == {y \in D : \E c \in ValidBlocks : y \in Body(c)}
<1> SUFFICES ASSUME T # {} PROVE FALSE
  OBVIOUS
<1>1. PICK m \in T : \A y \in T : y <= m
  <2>1. Beyond \in Nat
    BY ScannerAssumption DEF Beyond
  <2>2. \A y \in 1 .. Beyond : y \in 0 .. Beyond
    BY <2>1
  <2>3. T \in SUBSET (0 .. Beyond)
    BY <2>2
  <2> QED
    BY <2>1, <2>3, GreatestExists
<1>2. PICK c \in ValidBlocks : m \in Body(c)
  OBVIOUS
<1>3. Closed(ValidBlocks) /\ CodeFits
  BY ValidAreClosed DEF BlocksFit
<1>4. IsBlock(Instrs(c))
  BY <1>3 DEF Closed
<1>5. PICK i \in 1 .. Len(Instrs(c)) : Instrs(c)[i] = m
  BY <1>2, <1>4, InBlock DEF Body
<1>6. m \in DOMAIN code /\ (RunsOn(m) \/ Stops(m))
  <2>1. m \in DOMAIN code
    BY <1>4, <1>5 DEF IsBlock, Chain
  <2>2. RunsOn(m) \/ Stops(m)
    BY <1>4, <1>5, BlockEnds
  <2> QED
    BY <2>1, <2>2
<1>7. m # Beyond /\ m < After(m) /\ m \in Nat /\ After(m) \in Nat
  BY <1>3, <1>6, AfterFits
<1>8. m \in D
  OBVIOUS
<1>9. RunsOn(m) /\ After(m) \in D /\ ~Boundary(m, After(m))
  <2>1. code[m].op # "invalid"
    BY <1>6 DEF RunsOn, Stops
  <2>2. ~Stops(m) \/ ~RunsOn(m)
    BY DEF RunsOn, Stops
  <2> QED
    BY <1>7, <1>8, <2>1 DEF Doomed
<1>10. \E d \in ValidBlocks : After(m) \in Body(d)
  BY <1>2, <1>3, <1>9, FlowsOn, StartInBody
<1>11. After(m) \in T
  BY <1>9, <1>10
<1>12. After(m) <= m
  BY <1>1, <1>11
<1> QED
  BY <1>7, <1>12

(* Whatever is a chain of instructions from a valid block on is covered by  *)
(* valid blocks. *)
SpansCovered ==
    BlocksFit =>
       \A s : IsBlock(s) /\ s[1] \in ValidBlocks
                 => \A x \in ToSet(s) : \E c \in ValidBlocks : x \in Body(c)

(* That is so in every state.                                               *)
LEMMA SpanCovered == SpansCovered
<1> SUFFICES ASSUME BlocksFit, NEW s, IsBlock(s), s[1] \in ValidBlocks
             PROVE  \A x \in ToSet(s) : \E c \in ValidBlocks : x \in Body(c)
  BY DEF SpansCovered
<1> DEFINE In(x) == \E c \in ValidBlocks : x \in Body(c)
           T == {i \in 1 .. Len(s) : ~In(s[i])}
<1>1. Closed(ValidBlocks) /\ CodeFits
  BY ValidAreClosed DEF BlocksFit
<1>2. Len(s) \in Nat
  BY BlockEnds
<1>3. ASSUME T # {} PROVE FALSE
  <2>1. PICK m \in T : \A y \in T : m <= y
    <3>1. T \in SUBSET Nat
      BY <1>2
    <3> QED
      BY <1>3, <3>1, LeastExists
  <2>2. m # 1
    BY <1>1, StartInBody
  <2>3. /\ m - 1 \in 1 .. Len(s) - 1
        /\ m - 1 \in 1 .. Len(s)
        /\ (m - 1) + 1 = m
        /\ ~(m <= m - 1)
    BY <1>2, <2>1, <2>2
  <2>4. PICK c \in ValidBlocks : s[m - 1] \in Body(c)
    BY <2>1, <2>3
  <2>5. /\ RunsOn(s[m - 1])
        /\ s[m] = After(s[m - 1])
        /\ ~Boundary(s[m - 1], s[m])
    BY <2>3 DEF IsBlock, Chain
  <2>6. In(s[m])
    BY <1>1, <2>4, <2>5, FlowsOn, StartInBody
  <2> QED
    BY <2>1, <2>6
<1> QED
  BY <1>3, InBlock

-------------------------------------------------------------------------------
(* The edges. *)

EdgeMap(s)    == \A b \in DOMAIN s : s[b] \in Seq(1 .. Beyond)
EdgesOf(s, b) == IF b \in DOMAIN s THEN ToSet(s[b]) ELSE {}

(* The members of a sequence with an element added, or another sequence.    *)
LEMMA ToSetAppended ==
  ASSUME NEW T, NEW s \in Seq(T), NEW e \in T
  PROVE  ToSet(Append(s, e)) = ToSet(s) \cup {e}
<1>1. /\ Len(s) \in Nat
      /\ DOMAIN s = 1 .. Len(s)
      /\ Append(s, e) \in Seq(T)
      /\ Len(Append(s, e)) = Len(s) + 1
      /\ \A i \in 1 .. Len(s) : Append(s, e)[i] = s[i]
      /\ Append(s, e)[Len(s) + 1] = e
  BY AppendProperties, LenProperties
<1>2. DOMAIN Append(s, e) = 1 .. Len(s) + 1
  BY <1>1, LenProperties
<1> QED
  BY <1>1, <1>2 DEF ToSet

(* There is nothing in an empty sequence.                                  *)
LEMMA EmptyToSet == ToSet(<<>>) = {}
BY EmptySeq, LenProperties DEF ToSet

(* Two sequences joined have the members of both.                           *)
LEMMA ToSetConcat ==
  ASSUME NEW T, NEW s \in Seq(T), NEW t \in Seq(T)
  PROVE  ToSet(s \o t) = ToSet(s) \cup ToSet(t)
<1> DEFINE c == s \o t
<1>1. /\ Len(s) \in Nat /\ Len(t) \in Nat
      /\ DOMAIN s = 1 .. Len(s) /\ DOMAIN t = 1 .. Len(t)
      /\ c \in Seq(T)
      /\ Len(c) = Len(s) + Len(t)
      /\ \A i \in 1 .. Len(s) + Len(t) :
            c[i] = IF i <= Len(s) THEN s[i] ELSE t[i - Len(s)]
  BY ConcatProperties, LenProperties
<1>2. DOMAIN c = 1 .. Len(s) + Len(t)
  BY <1>1, LenProperties
<1> HIDE DEF c
<1>3. ASSUME NEW i \in 1 .. Len(s) PROVE i \in DOMAIN c /\ c[i] = s[i]
  BY <1>1, <1>2
<1>4. ASSUME NEW i \in 1 .. Len(t)
      PROVE  Len(s) + i \in DOMAIN c /\ c[Len(s) + i] = t[i]
  <2>1. /\ Len(s) + i \in 1 .. Len(s) + Len(t)
        /\ ~(Len(s) + i <= Len(s))
        /\ (Len(s) + i) - Len(s) = i
    BY <1>1
  <2> QED
    BY <1>1, <1>2, <2>1
<1>5. ASSUME NEW i \in DOMAIN c PROVE c[i] \in ToSet(s) \cup ToSet(t)
  <2>1. CASE i <= Len(s)
    BY <1>1, <1>2, <2>1 DEF ToSet
  <2>2. CASE ~(i <= Len(s))
    <3>1. i - Len(s) \in 1 .. Len(t)
      BY <1>1, <1>2, <2>2
    <3> QED
      BY <1>1, <1>2, <2>2, <3>1 DEF ToSet
  <2> QED
    BY <2>1, <2>2
<1>6. \A x \in ToSet(s) \cup ToSet(t) : x \in ToSet(c)
  <2>1. \A x \in ToSet(s) : x \in ToSet(c)
    BY <1>1, <1>3 DEF ToSet
  <2>2. \A x \in ToSet(t) : x \in ToSet(c)
    BY <1>1, <1>4 DEF ToSet
  <2> QED
    BY <2>1, <2>2
<1> QED
  BY <1>5, <1>6 DEF ToSet, c

(* An edge is added to those the block has.                                 *)
LEMMA WithEdgeMap ==
  ASSUME NEW s, EdgeMap(s), NEW from, NEW to \in 1 .. Beyond,
         NEW g, g = WithEdge(s, from, to)
  PROVE  EdgeMap(g) /\ DOMAIN g = DOMAIN s \cup {from}
<1> DEFINE t == IF from \in DOMAIN s THEN s[from] ELSE <<>>
           u == Append(t, to)
<1>1. t \in Seq(1 .. Beyond)
  BY EmptySeq DEF EdgeMap
<1>2. u \in Seq(1 .. Beyond)
  BY <1>1, AppendProperties
<1>3. /\ DOMAIN g = DOMAIN s \cup {from}
      /\ g[from] = u
      /\ \A b \in DOMAIN s : b # from => g[b] = s[b]
  BY DEF WithEdge, Set
<1> HIDE DEF t, u
<1> QED
  BY <1>2, <1>3 DEF EdgeMap

(* Nobody else gets it.                                                     *)
LEMMA WithEdgeEdges ==
  ASSUME NEW s, EdgeMap(s), NEW from, NEW to \in 1 .. Beyond,
         NEW g, g = WithEdge(s, from, to)
  PROVE  /\ EdgesOf(g, from) = EdgesOf(s, from) \cup {to}
         /\ \A b : b # from => EdgesOf(g, b) = EdgesOf(s, b)
<1> DEFINE t == IF from \in DOMAIN s THEN s[from] ELSE <<>>
           u == Append(t, to)
           R == 1 .. Beyond
<1>1. t \in Seq(R) /\ ToSet(t) = EdgesOf(s, from) /\ to \in R
  BY EmptyToSet, EmptySeq DEF EdgeMap, EdgesOf
<1>2. /\ DOMAIN g = DOMAIN s \cup {from}
      /\ g[from] = u
      /\ \A b \in DOMAIN s : b # from => g[b] = s[b]
  BY DEF WithEdge, Set
<1> HIDE DEF R, t
<1>3. ToSet(u) = ToSet(t) \cup {to}
  BY <1>1, ToSetAppended
<1> HIDE DEF u
<1>4. EdgesOf(g, from) = EdgesOf(s, from) \cup {to}
  BY <1>1, <1>2, <1>3 DEF EdgesOf
<1>5. \A b : b # from => EdgesOf(g, b) = EdgesOf(s, b)
  BY <1>2 DEF EdgesOf
<1> QED
  BY <1>4, <1>5

(* So are several.                                                         *)
LEMMA WithEdgesMap ==
  ASSUME NEW s, EdgeMap(s), NEW from, NEW tos \in Seq(1 .. Beyond),
         NEW g, g = WithEdges(s, from, tos)
  PROVE  /\ EdgeMap(g)
         /\ DOMAIN g \subseteq DOMAIN s \cup {from}
         /\ DOMAIN s \subseteq DOMAIN g
         /\ tos # <<>> => from \in DOMAIN g
<1>1. CASE tos = <<>>
  BY <1>1 DEF WithEdges
<1>2. CASE tos # <<>>
  <2> DEFINE t == IF from \in DOMAIN s THEN s[from] ELSE <<>>
             u == t \o tos
  <2>1. t \in Seq(1 .. Beyond)
    BY EmptySeq DEF EdgeMap
  <2>2. u \in Seq(1 .. Beyond)
    BY <2>1, ConcatProperties
  <2>3. /\ DOMAIN g = DOMAIN s \cup {from}
        /\ g[from] = u
        /\ \A b \in DOMAIN s : b # from => g[b] = s[b]
    BY <1>2 DEF WithEdges, Set
  <2> HIDE DEF t, u
  <2> QED
    BY <1>2, <2>2, <2>3 DEF EdgeMap
<1> QED
  BY <1>1, <1>2

(* Nobody else gets them.                                                   *)
LEMMA WithEdgesEdges ==
  ASSUME NEW s, EdgeMap(s), NEW from, NEW tos \in Seq(1 .. Beyond),
         NEW g, g = WithEdges(s, from, tos)
  PROVE  /\ EdgesOf(g, from) = EdgesOf(s, from) \cup ToSet(tos)
         /\ \A b : b # from => EdgesOf(g, b) = EdgesOf(s, b)
<1>1. CASE tos = <<>>
  BY <1>1, EmptyToSet DEF WithEdges
<1>2. CASE tos # <<>>
  <2> DEFINE t == IF from \in DOMAIN s THEN s[from] ELSE <<>>
             u == t \o tos
  <2>1. t \in Seq(1 .. Beyond) /\ ToSet(t) = EdgesOf(s, from)
    BY EmptyToSet, EmptySeq DEF EdgeMap, EdgesOf
  <2>2. ToSet(u) = ToSet(t) \cup ToSet(tos)
    BY <2>1, ToSetConcat
  <2>3. /\ DOMAIN g = DOMAIN s \cup {from}
        /\ g[from] = u
        /\ \A b \in DOMAIN s : b # from => g[b] = s[b]
    BY <1>2 DEF WithEdges, Set
  <2> HIDE DEF t, u
  <2>4. EdgesOf(g, from) = EdgesOf(s, from) \cup ToSet(tos)
    BY <2>1, <2>2, <2>3 DEF EdgesOf
  <2>5. \A b : b # from => EdgesOf(g, b) = EdgesOf(s, b)
    BY <2>3 DEF EdgesOf
  <2> QED
    BY <2>4, <2>5
<1> QED
  BY <1>1, <1>2

(* The edges of one block become those of another, unless that has some.    *)
LEMMA StealEdgesIs ==
  ASSUME NEW s, EdgeMap(s), NEW from, NEW to, from # to,
         NEW g, g = StealEdges(s, from, to)
  PROVE  /\ EdgeMap(g)
         /\ DOMAIN g \subseteq DOMAIN s \cup {to}
         /\ DOMAIN s \ {from} \subseteq DOMAIN g
         /\ EdgesOf(g, from) = {}
         /\ EdgesOf(g, to) = IF to \in DOMAIN s THEN EdgesOf(s, to)
                             ELSE EdgesOf(s, from)
         /\ \A b : b \notin {from, to} => EdgesOf(g, b) = EdgesOf(s, b)
<1>1. CASE from \notin DOMAIN s
  <2>1. g = s
    BY <1>1 DEF StealEdges
  <2> QED
    BY <1>1, <2>1 DEF EdgesOf
<1>2. CASE from \in DOMAIN s /\ to \in DOMAIN s
  <2>1. /\ DOMAIN g = DOMAIN s \ {from}
        /\ \A b \in DOMAIN g : g[b] = s[b]
    BY <1>2 DEF StealEdges, Without
  <2> QED
    BY <1>2, <2>1 DEF EdgesOf, EdgeMap
<1>3. CASE from \in DOMAIN s /\ to \notin DOMAIN s
  <2>1. /\ DOMAIN g = (DOMAIN s \ {from}) \cup {to}
        /\ g[to] = s[from]
        /\ \A b \in DOMAIN s \ {from} : g[b] = s[b]
    BY <1>3 DEF StealEdges, Without, Set
  <2>2. EdgeMap(g)
    BY <1>3, <2>1 DEF EdgeMap
  <2> QED
    BY <1>3, <2>1, <2>2 DEF EdgesOf
<1> QED
  BY <1>1, <1>2, <1>3

(* Stolen edges keep the map in order.                                      *)
LEMMA StealEdgesMap ==
  ASSUME NEW s, EdgeMap(s), NEW from, NEW to, from # to,
         NEW g, g = StealEdges(s, from, to)
  PROVE  /\ EdgeMap(g)
         /\ DOMAIN g \subseteq DOMAIN s \cup {to}
         /\ DOMAIN s \ {from} \subseteq DOMAIN g
BY StealEdgesIs

(* They have moved, unless the other block had some.                        *)
LEMMA StealEdgesEdges ==
  ASSUME NEW s, EdgeMap(s), NEW from, NEW to, from # to,
         NEW g, g = StealEdges(s, from, to)
  PROVE  /\ EdgesOf(g, from) = {}
         /\ to \in DOMAIN s => EdgesOf(g, to) = EdgesOf(s, to)
         /\ to \notin DOMAIN s => EdgesOf(g, to) = EdgesOf(s, from)
         /\ \A b : b \notin {from, to} => EdgesOf(g, b) = EdgesOf(s, b)
BY StealEdgesIs

-------------------------------------------------------------------------------
(* What a step may do to the blocks. *)

(* What was read stays as it was read. *)
CodeGrows ==
    \A a \in DOMAIN code : a \in DOMAIN code' /\ code'[a] = code[a]

(* A block ends earlier than before: it falls into another one.             *)
Shortened(b) ==
    /\ b \in ValidBlocks
    /\ \E n \in 1 .. Len(Instrs(b)) - 1 :
          /\ blocks'[b] = Valid(Chop(Instrs(b), n))
          /\ Instrs(b)[n + 1] \in ValidBlocks'

(* The rest of a block becomes a block. *)
SplitOff(b) ==
    /\ b \notin DOMAIN blocks
    /\ \E a \in ValidBlocks : \E n \in 1 .. Len(Instrs(a)) - 1 :
          /\ b = Instrs(a)[n + 1]
          /\ blocks'[b] = Valid(SubSeq(Instrs(a), n + 1, Len(Instrs(a))))

(* A block was parsed, or turned out bad. *)
Parsed(b) ==
    /\ b \notin DOMAIN blocks
    /\ \E s : /\ blocks'[b] = Valid(s)
             /\ IsBlock(s)'
             /\ s[1] = b
             /\ Falls(s, {})'

Rejected(b, D) ==
    /\ b \notin DOMAIN blocks
    /\ b \in D
    /\ blocks'[b] = [instrs |-> <<>>, valid |-> FALSE]

BlocksStep ==
    /\ CodeGrows
    /\ CodeFits'
    /\ DOMAIN blocks \subseteq DOMAIN blocks'
    /\ \E D \in SUBSET (1 .. Beyond) :
          /\ Doomed(D)'
          /\ \A b \in DOMAIN blocks' :
                \/ b \in DOMAIN blocks /\ blocks'[b] = blocks[b]
                \/ Shortened(b)
                \/ SplitOff(b)
                \/ Parsed(b)
                \/ Rejected(b, D)

(* A block that was found stays one when more is read. *)
LEMMA BlockKept ==
  ASSUME CodeFits, CodeGrows, NEW s, IsBlock(s)
  PROVE  /\ IsBlock(s)'
         /\ \A S : Falls(s, S) => Falls(s, S)'
<1>1. /\ Last(s) \in DOMAIN code
      /\ Len(s) \in Nat
      /\ \A i \in 1 .. Len(s) - 1 : i \in 1 .. Len(s) /\ i + 1 \in 1 .. Len(s)
  BY BlockEnds
<1>2. /\ s \in Seq(Addresses) /\ s # <<>>
      /\ RunsOn(Last(s))' \/ Stops(Last(s))'
  BY <1>1 DEF IsBlock, Chain, CodeGrows, RunsOn, Stops
<1>3. \A i \in 1 .. Len(s) : s[i] \in DOMAIN code /\ s[i] \in DOMAIN code'
  BY DEF IsBlock, Chain, CodeGrows
<1>4. \A i \in 1 .. Len(s) - 1 : /\ RunsOn(s[i])'
                                /\ s[i + 1] = After(s[i])'
                                /\ ~Boundary(s[i], s[i + 1])'
  <2> TAKE i \in 1 .. Len(s) - 1
  <2>1. s[i] \in DOMAIN code /\ s[i + 1] \in DOMAIN code
    BY <1>1, <1>3
  <2>2. RunsOn(s[i]) /\ s[i + 1] = After(s[i]) /\ ~Boundary(s[i], s[i + 1])
    BY DEF IsBlock, Chain
  <2> QED
    BY <2>1, <2>2 DEF CodeGrows, RunsOn, After, Boundary
<1>5. IsBlock(s)'
  BY <1>2, <1>3, <1>4 DEF IsBlock, Chain
<1>6. ASSUME NEW S, Falls(s, S) PROVE Falls(s, S)'
  BY <1>1, <1>6 DEF Falls, CodeGrows, Stops, After, Boundary
<1> QED
  BY <1>5, <1>6

(* A block falls into whatever contains what it fell into.                  *)
LEMMA FallsIntoMore ==
  ASSUME NEW s, NEW S, NEW T, S \subseteq T, Falls(s, S)
  PROVE  Falls(s, T)
BY DEF Falls

(* What is doomed stays so, and what is doomed together is doomed.          *)
LEMMA DoomedKept ==
  ASSUME CodeGrows, CodeFits', NEW D \in SUBSET (1 .. Beyond), Doomed(D)
  PROVE  Doomed(D)'
<1> SUFFICES ASSUME NEW a \in D, a # Beyond
             PROVE  /\ a \in DOMAIN code'
                    /\ \/ code'[a].op = "invalid"
                       \/ RunsOn(a)' /\ After(a)' \in D /\ ~Boundary(a, After(a))'
  BY DEF Doomed
<1>1. /\ a \in DOMAIN code
      /\ \/ code[a].op = "invalid"
         \/ RunsOn(a) /\ After(a) \in D /\ ~Boundary(a, After(a))
  BY DEF Doomed
<1>2. a \in DOMAIN code' /\ code'[a] = code[a]
  BY <1>1 DEF CodeGrows
<1>3. ASSUME RunsOn(a), After(a) \in D, ~Boundary(a, After(a))
      PROVE  RunsOn(a)' /\ After(a)' \in D /\ ~Boundary(a, After(a))'
  <2>1. RunsOn(a)' /\ After(a)' = After(a)
    BY <1>2, <1>3 DEF RunsOn, After
  <2>2. ASSUME After(a) \in DOMAIN code PROVE ~Boundary(a, After(a))'
    BY <1>2, <1>3, <2>1, <2>2 DEF Boundary, CodeGrows
  <2>3. ASSUME After(a) = Beyond PROVE ~Boundary(a, After(a))'
    <3>1. Beyond \notin DOMAIN code'
      BY ScannerAssumption DEF Beyond, Addresses, CodeFits
    <3> QED
      BY <2>1, <2>3, <3>1 DEF Boundary
  <2> QED
    BY <1>3, <2>1, <2>2, <2>3 DEF Doomed
<1> QED
  BY <1>1, <1>2, <1>3

(* A block after the step, spelled as a sequence.                           *)
LEMMA NextBlock ==
  ASSUME NEW b, NEW s, s = blocks'[b].instrs, NEW W, W = ValidBlocks'
  PROVE  /\ IsBlock(s)' => IsBlock(Instrs(b))'
         /\ Falls(s, W)' => Falls(Instrs(b), ValidBlocks)'
<1>1. IsBlock(s)' => IsBlock(Instrs(b))'
  BY DEF IsBlock, Chain, RunsOn, Stops, After, Boundary, Instrs, Last
<1>2. Falls(s, W)' => Falls(Instrs(b), ValidBlocks)'
  BY DEF Falls, Stops, After, Boundary, Instrs, Last
<1> QED
  BY <1>1, <1>2

(* Such a step keeps the blocks in order, and valid blocks valid.           *)
LEMMA BlocksFitStep ==
  ASSUME BlocksFit, BlocksStep
  PROVE  BlocksFit' /\ ValidBlocks \subseteq ValidBlocks'
<1>1. PICK D \in SUBSET (1 .. Beyond) :
         /\ Doomed(D)'
         /\ \A b \in DOMAIN blocks' :
               \/ b \in DOMAIN blocks /\ blocks'[b] = blocks[b]
               \/ Shortened(b)
               \/ SplitOff(b)
               \/ Parsed(b)
               \/ Rejected(b, D)
  BY DEF BlocksStep
<1>2. /\ CodeFits /\ CodeFits' /\ CodeGrows
      /\ DOMAIN blocks \subseteq DOMAIN blocks'
  BY DEF BlocksFit, BlocksStep
<1>3. /\ ValidBlocks = {b \in DOMAIN blocks : blocks[b].valid}
      /\ ValidBlocks' = {b \in DOMAIN blocks' : blocks'[b].valid}
      /\ \A s : Valid(s).valid = TRUE /\ Valid(s).instrs = s
      /\ \A s : Valid(s) = [instrs |-> s, valid |-> TRUE]
  BY DEF ValidBlocks, Valid
<1>4. ASSUME NEW b \in ValidBlocks PROVE b \in ValidBlocks'
  <2>1. b \in DOMAIN blocks /\ blocks[b].valid /\ b \in DOMAIN blocks'
    BY <1>2, <1>3
  <2>2. blocks'[b] = blocks[b] \/ Shortened(b)
    BY <1>1, <2>1 DEF SplitOff, Parsed, Rejected
  <2>3. Shortened(b) => blocks'[b].valid
    BY <1>3 DEF Shortened
  <2> QED
    BY <1>3, <2>1, <2>2, <2>3
<1>5. /\ \A b \in DOMAIN blocks :
            /\ blocks[b].valid \in BOOLEAN
            /\ blocks[b] = [instrs |-> Instrs(b), valid |-> blocks[b].valid]
      /\ \A b \in ValidBlocks : /\ IsBlock(Instrs(b))
                                /\ Instrs(b)[1] = b
                                /\ Falls(Instrs(b), ValidBlocks)
      /\ DOMAIN blocks \subseteq 1 .. Beyond
  BY DEF BlocksFit
<1>6. ASSUME NEW b \in DOMAIN blocks'
      PROVE  /\ blocks'[b].valid \in BOOLEAN
             /\ blocks'[b] = [instrs |-> blocks'[b].instrs, valid |-> blocks'[b].valid]
  <2>1. CASE b \in DOMAIN blocks /\ blocks'[b] = blocks[b]
    BY <1>5, <2>1 DEF Instrs
  <2>2. CASE Shortened(b) \/ SplitOff(b) \/ Parsed(b)
    <3>1. \E s : blocks'[b] = Valid(s)
      BY <2>2 DEF Shortened, SplitOff, Parsed
    <3> QED
      BY <3>1 DEF Valid
  <2>3. CASE Rejected(b, D)
    BY <2>3 DEF Rejected
  <2> QED
    BY <1>1, <2>1, <2>2, <2>3
<1> DEFINE NextValid == ValidBlocks'
<1>7. PICK W : W = NextValid
  OBVIOUS
<1>8. ASSUME NEW b \in W
      PROVE  \E s : /\ s = blocks'[b].instrs
                    /\ IsBlock(s)'
                    /\ s[1] = b
                    /\ Falls(s, W)'
                    /\ b \in 1 .. Beyond
  <2>1. b \in DOMAIN blocks' /\ blocks'[b].valid
    BY <1>3, <1>7
  <2>2. CASE b \in DOMAIN blocks /\ blocks'[b] = blocks[b]
    <3>1. /\ b \in ValidBlocks /\ Instrs(b) = blocks'[b].instrs
          /\ b \in 1 .. Beyond
      BY <1>3, <1>5, <2>1, <2>2 DEF Instrs
    <3> PICK s : s = Instrs(b)
      OBVIOUS
    <3>2. IsBlock(s) /\ s[1] = b /\ Falls(s, ValidBlocks)
      BY <1>5, <3>1
    <3>3. Falls(s, W)
      BY <1>4, <1>7, <3>2, FallsIntoMore
    <3>4. IsBlock(s)' /\ Falls(s, W)'
      BY <1>2, <3>2, <3>3, BlockKept
    <3> QED
      BY <3>1, <3>2, <3>4
  <2>3. CASE Shortened(b)
    <3>1. PICK t : t = Instrs(b)
      OBVIOUS
    <3>2. PICK n \in 1 .. Len(t) - 1 :
             blocks'[b] = Valid(Chop(t, n)) /\ t[n + 1] \in W
      BY <1>7, <2>3, <3>1 DEF Shortened
    <3>3. IsBlock(t) /\ t[1] = b /\ b \in 1 .. Beyond
      BY <1>3, <1>5, <2>3, <3>1 DEF Shortened
    <3>4. PICK s : s = Chop(t, n)
      OBVIOUS
    <3>5. /\ IsBlock(s)
          /\ s[1] = b
          /\ Last(s) = t[n]
          /\ After(t[n]) = t[n + 1]
      <4>1. 1 \in 1 .. n
        BY BlockEnds, <3>3
      <4> QED
        BY <3>3, <3>4, <4>1, ChopIs
    <3>6. Falls(s, W)
      BY <3>2, <3>5 DEF Falls
    <3>7. IsBlock(s)' /\ Falls(s, W)'
      BY <1>2, <3>5, <3>6, BlockKept
    <3> QED
      BY <1>3, <3>2, <3>3, <3>4, <3>5, <3>7
  <2>4. CASE SplitOff(b)
    <3>1. PICK a \in ValidBlocks : \E n \in 1 .. Len(Instrs(a)) - 1 :
             /\ b = Instrs(a)[n + 1]
             /\ blocks'[b] = Valid(SubSeq(Instrs(a), n + 1, Len(Instrs(a))))
      BY <2>4 DEF SplitOff
    <3>2. PICK t : t = Instrs(a)
      OBVIOUS
    <3>3. PICK n \in 1 .. Len(t) - 1 :
             /\ b = t[n + 1]
             /\ blocks'[b] = Valid(SubSeq(t, n + 1, Len(t)))
      BY <3>1, <3>2
    <3>4. IsBlock(t) /\ Falls(t, ValidBlocks)
      BY <1>5, <3>2
    <3>5. PICK s : s = SubSeq(t, n + 1, Len(t))
      OBVIOUS
    <3>6. Len(t) \in Nat /\ n \in Nat /\ 1 \in 1 .. Len(t) - n
          /\ n + 1 \in 1 .. Len(t)
      BY <3>4, BlockEnds
    <3>7. IsBlock(s) /\ s[1] = b /\ Last(s) = Last(t)
      BY <3>3, <3>4, <3>5, <3>6, RestIs
    <3>8. Falls(s, W)
      <4>1. Falls(s, ValidBlocks)
        BY <3>4, <3>7 DEF Falls
      <4> QED
        BY <1>4, <1>7, <4>1, FallsIntoMore
    <3>9. IsBlock(s)' /\ Falls(s, W)'
      BY <1>2, <3>7, <3>8, BlockKept
    <3>10. b \in 1 .. Beyond
      <4>1. b \in Addresses
        BY <3>3, <3>4, <3>6, ElementOfSeq DEF IsBlock, Chain
      <4> QED
        BY <4>1, ScannerAssumption DEF Addresses, Beyond
    <3> QED
      BY <1>3, <3>3, <3>5, <3>7, <3>9, <3>10
  <2>5. CASE Parsed(b)
    <3>1. PICK s : blocks'[b] = Valid(s) /\ IsBlock(s)' /\ s[1] = b /\ Falls(s, {})'
      BY <2>5 DEF Parsed
    <3>2. Falls(s, W)'
      BY <3>1 DEF Falls
    <3>3. b \in 1 .. Beyond
      <4>1. s \in Seq(Addresses) /\ s # <<>>
        BY <3>1 DEF IsBlock, Chain
      <4>2. s[1] \in Addresses
        BY <4>1, EmptySeq, ElementOfSeq, LenProperties
      <4> QED
        BY <3>1, <4>2, ScannerAssumption DEF Addresses, Beyond
    <3> QED
      BY <1>3, <3>1, <3>2, <3>3
  <2>6. ~Rejected(b, D)
    BY <2>1 DEF Rejected
  <2> QED
    BY <1>1, <2>1, <2>2, <2>3, <2>4, <2>5, <2>6
<1>9. \A b \in DOMAIN blocks' : b \in 1 .. Beyond
  <2>1. ASSUME NEW b \in DOMAIN blocks', b \notin W PROVE b \in 1 .. Beyond
    <3>1. ~blocks'[b].valid
      BY <1>3, <1>7, <2>1
    <3>2. (b \in DOMAIN blocks /\ blocks'[b] = blocks[b]) \/ Rejected(b, D)
      BY <1>1, <1>3, <3>1 DEF Shortened, SplitOff, Parsed
    <3> QED
      BY <1>5, <3>2 DEF Rejected
  <2> QED
    BY <1>8, <2>1
<1>10. \E E \in SUBSET (1 .. Beyond) :
          Doomed(E)' /\ DOMAIN blocks' \ ValidBlocks' \subseteq E
  <2>1. PICK C \in SUBSET (1 .. Beyond) :
           Doomed(C) /\ DOMAIN blocks \ ValidBlocks \subseteq C
    BY DEF BlocksFit
  <2>2. Doomed(C)'
    BY <1>2, <2>1, DoomedKept
  <2>3. PICK E \in SUBSET (1 .. Beyond) : E = C \cup D
    OBVIOUS
  <2>4. Doomed(E)'
    BY <1>1, <2>2, <2>3 DEF Doomed
  <2>5. ASSUME NEW b \in DOMAIN blocks', b \notin ValidBlocks' PROVE b \in E
    <3>1. ~blocks'[b].valid
      BY <1>3, <2>5
    <3>2. (b \in DOMAIN blocks /\ blocks'[b] = blocks[b]) \/ Rejected(b, D)
      BY <1>1, <1>3, <3>1 DEF Shortened, SplitOff, Parsed
    <3>3. CASE b \in DOMAIN blocks /\ blocks'[b] = blocks[b]
      BY <1>3, <2>1, <2>3, <3>1, <3>3
    <3>4. CASE Rejected(b, D)
      BY <2>3, <3>4 DEF Rejected
    <3> QED
      BY <3>2, <3>3, <3>4
  <2> QED
    BY <2>4, <2>5
<1>11. \A b \in ValidBlocks' : /\ IsBlock(Instrs(b))'
                               /\ Instrs(b)'[1] = b
                               /\ Falls(Instrs(b), ValidBlocks)'
  <2> TAKE b \in ValidBlocks'
  <2>1. PICK s : /\ s = blocks'[b].instrs
                 /\ IsBlock(s)'
                 /\ s[1] = b
                 /\ Falls(s, W)'
    BY <1>7, <1>8
  <2> QED
    BY <1>7, <2>1, NextBlock DEF Instrs
<1>12. \A b \in DOMAIN blocks' :
         /\ blocks'[b].valid \in BOOLEAN
         /\ blocks'[b] = [instrs |-> Instrs(b)', valid |-> blocks'[b].valid]
  BY <1>6 DEF Instrs
<1>13. BlocksFit'
  BY <1>2, <1>9, <1>10, <1>11, <1>12 DEF BlocksFit
<1> QED
  BY <1>4, <1>13

-------------------------------------------------------------------------------
(* What a step may do to the ends, the edges and the queue. *)

(* An end is an instruction that was read, and leads to a valid block.      *)
EndsFit ==
    /\ DOMAIN blockEnds \subseteq DOMAIN code
    /\ \A e \in DOMAIN blockEnds : blockEnds[e] \in ValidBlocks

(* Edges lead from blocks. *)
EdgesFit == EdgeMap(succs) /\ DOMAIN succs \subseteq DOMAIN blocks

Pairs == [instrs : Seq(Addresses), end : Addresses]

(* A block on the queue was one once, begins where one begins, and some     *)
(* block is registered under its end.                                       *)
Queued(q) ==
    /\ IsBlock(q.instrs)
    /\ q.instrs[1] \in ValidBlocks
    /\ q.end = Last(q.instrs)
    /\ q.end \in DOMAIN blockEnds

SplitFits ==
    split # NoSplit =>
        /\ split = [outer |-> split.outer, queue |-> split.queue]
        /\ split.outer \in ValidBlocks
        /\ split.queue \in Seq(Pairs)
        /\ split.queue # <<>>
        /\ \A i \in 1 .. Len(split.queue) : Queued(split.queue[i])

(* The block with the queue's first entry, and the one registered under its *)
(* end.                                                                     *)
LEMMA AtSplit ==
  ASSUME BlocksFit, EndsFit, SplitFits, Splitting
  PROVE  /\ split # NoSplit
         /\ IsBlock(BlockB)
         /\ BlockB[1] \in ValidBlocks
         /\ Head(BlockB) = BlockB[1]
         /\ End = Last(BlockB)
         /\ End \in DOMAIN blockEnds
         /\ AddrA \in ValidBlocks
         /\ BlockA = Instrs(AddrA)
         /\ blocks[AddrA] = Valid(BlockA)
         /\ IsBlock(BlockA)
         /\ BlockA[1] = AddrA
         /\ AddrB \in ValidBlocks
<1>1. split # NoSplit
  BY DEF Splitting, NoSplit
<1>2. Queued(Head(split.queue))
  <2>1. Head(split.queue) = split.queue[1] /\ 1 \in 1 .. Len(split.queue)
    <3>1. split.queue \in Seq(Pairs) /\ split.queue # <<>>
      BY <1>1 DEF SplitFits
    <3> QED
      BY <3>1, HeadTailProperties, LenProperties
  <2> QED
    BY <1>1, <2>1 DEF SplitFits
<1>3. /\ IsBlock(BlockB)
      /\ BlockB[1] \in ValidBlocks
      /\ End = Last(BlockB)
      /\ End \in DOMAIN blockEnds
  BY <1>2 DEF Queued, BlockB, End
<1>4. AddrA \in ValidBlocks
  BY <1>3 DEF EndsFit, AddrA
<1>5. /\ BlockA = Instrs(AddrA)
      /\ IsBlock(BlockA)
      /\ BlockA[1] = AddrA
  BY <1>4 DEF BlocksFit, BlockA, Instrs
<1>6. blocks[AddrA] = Valid(BlockA)
  BY <1>4, <1>5 DEF BlocksFit, ValidBlocks, Valid
<1>7. AddrB \in ValidBlocks
  BY <1>1 DEF SplitFits, AddrB
<1>8. Head(BlockB) = BlockB[1]
  BY <1>3, BlockEnds
<1> QED
  BY <1>1, <1>3, <1>4, <1>5, <1>6, <1>7, <1>8

(* A step that takes the first entry off the queue, and may add another.    *)
LEMMA QueueFits ==
  ASSUME SplitFits, Splitting, UNCHANGED code,
         ValidBlocks \subseteq ValidBlocks',
         DOMAIN blockEnds \subseteq DOMAIN blockEnds',
         NEW queue, DoneWith(queue),
         \/ queue = Tail(split.queue)
         \/ \E q \in Pairs : queue = Append(Tail(split.queue), q) /\ Queued(q)'
  PROVE  SplitFits'
<1>1. split # NoSplit
  BY DEF Splitting, NoSplit
<1>2. /\ split = [outer |-> split.outer, queue |-> split.queue]
      /\ split.outer \in ValidBlocks'
      /\ split.queue \in Seq(Pairs)
      /\ split.queue # <<>>
      /\ \A i \in 1 .. Len(split.queue) : Queued(split.queue[i])
  BY <1>1 DEF SplitFits
<1>2a. PICK t : t = Tail(split.queue)
  OBVIOUS
<1>3. /\ t \in Seq(Pairs)
      /\ Len(t) \in Nat
      /\ \A i \in 1 .. Len(t) : i + 1 \in 1 .. Len(split.queue)
                                /\ t[i] = split.queue[i + 1]
  BY <1>2, <1>2a, HeadTailProperties, LenProperties
<1>4. \A q : Queued(q) => Queued(q)'
  BY DEF Queued, IsBlock, Chain, RunsOn, Stops, After, Boundary
<1>5. \A i \in 1 .. Len(t) : Queued(t[i])'
  BY <1>2, <1>3, <1>4
<1>6. queue \in Seq(Pairs) /\ \A i \in 1 .. Len(queue) : Queued(queue[i])'
  <2>1. CASE queue = Tail(split.queue)
    BY <1>2a, <1>3, <1>5, <2>1
  <2>2. CASE \E q \in Pairs : queue = Append(Tail(split.queue), q) /\ Queued(q)'
    <3>1. PICK q \in Pairs : queue = Append(t, q) /\ Queued(q)'
      BY <1>2a, <2>2
    <3>2. /\ Append(t, q) \in Seq(Pairs)
          /\ Len(Append(t, q)) = Len(t) + 1
          /\ \A i \in 1 .. Len(t) : Append(t, q)[i] = t[i]
          /\ Append(t, q)[Len(t) + 1] = q
      BY <1>3, AppendProperties
    <3>3. \A i \in 1 .. Len(t) + 1 : i \in 1 .. Len(t) \/ i = Len(t) + 1
      BY <1>3
    <3> QED
      BY <1>5, <3>1, <3>2, <3>3
  <2> QED
    BY <2>1, <2>2
<1>7. CASE queue = <<>>
  BY <1>7 DEF DoneWith, SplitFits, NoSplit
<1>8. CASE queue # <<>>
  <2>1. split' = [outer |-> split.outer, queue |-> queue]
    BY <1>2, <1>8 DEF DoneWith
  <2> QED
    BY <1>2, <1>6, <1>8, <2>1 DEF SplitFits
<1> QED
  BY <1>7, <1>8

-------------------------------------------------------------------------------
(* The turns of SplitBlockEndingAt. *)

(* The edges lead where edges led, or to a block.                           *)
EdgesLead ==
    \A b : \A t \in EdgesOf(succs', b) :
       t \in blockStarts' \/ \E c : t \in EdgesOf(succs, c)

AllFit ==
    /\ BlocksFit
    /\ EndsFit
    /\ EdgesFit
    /\ SplitFits
    /\ blockStarts = DOMAIN blocks

FitsOn == AllFit' /\ ValidBlocks \subseteq ValidBlocks' /\ EdgesLead

(* Where the blocks part.                                                   *)
LEMMA PartsAt ==
  ASSUME BlocksFit, EndsFit, SplitFits, Splitting
  PROVE  /\ IndexA \in 0 .. Len(BlockA)
         /\ IndexB \in 0 .. Len(BlockB)
         /\ Len(BlockA) \in Nat /\ Len(BlockB) \in Nat
         /\ Shared(BlockA, BlockB) = Len(BlockA) - IndexA
         /\ Shared(BlockA, BlockB) = Len(BlockB) - IndexB
         /\ \A j \in 1 .. Shared(BlockA, BlockB) :
               BlockA[IndexA + j] = BlockB[IndexB + j]
         /\ IndexA > 0 /\ IndexB > 0 => BlockA[IndexA] # BlockB[IndexB]
         /\ LastOf(AddrA) = End => Shared(BlockA, BlockB) > 0
<1>1. PICK a, b, k : a = BlockA /\ b = BlockB /\ k = Shared(a, b)
  OBVIOUS
<1>2. IsBlock(a) /\ IsBlock(b) /\ End = Last(b) /\ a = Instrs(AddrA)
  BY <1>1, AtSplit
<1>3. /\ k \in 0 .. Len(a)
      /\ k \in 0 .. Len(b)
      /\ \A j \in 0 .. k - 1 : a[Len(a) - j] = b[Len(b) - j]
      /\ k < Len(a) /\ k < Len(b) => a[Len(a) - k] # b[Len(b) - k]
      /\ Last(a) = Last(b) => k # 0
  BY <1>1, <1>2, SharedIs
<1>4. Len(a) \in Nat /\ Len(b) \in Nat
  BY <1>2, BlockEnds
<1>5. IndexA = Len(a) - k /\ IndexB = Len(b) - k
  BY <1>1 DEF IndexA, IndexB
<1>6. ASSUME NEW j \in 1 .. k PROVE a[(Len(a) - k) + j] = b[(Len(b) - k) + j]
  <2>1. /\ k - j \in 0 .. k - 1
        /\ Len(a) - (k - j) = (Len(a) - k) + j
        /\ Len(b) - (k - j) = (Len(b) - k) + j
    BY <1>3, <1>4
  <2> QED
    BY <1>3, <2>1
<1>7. LastOf(AddrA) = End => Last(a) = Last(b)
  BY <1>2 DEF LastOf, Instrs
<1>8. /\ Len(a) - k \in 0 .. Len(a)
      /\ Len(b) - k \in 0 .. Len(b)
      /\ k = Len(a) - (Len(a) - k)
      /\ k = Len(b) - (Len(b) - k)
      /\ Len(a) - k > 0 <=> k < Len(a)
      /\ Len(b) - k > 0 <=> k < Len(b)
      /\ k # 0 => k > 0
  BY <1>3, <1>4
<1> HIDE DEF IndexA, IndexB
<1> QED
  BY <1>1, <1>3, <1>4, <1>5, <1>6, <1>7, <1>8

(* An instruction of a valid block where a block is starts a valid one.     *)
LEMMA StartIsValid ==
  ASSUME BlocksFit, NEW b \in ValidBlocks, NEW x \in Body(b), x \in DOMAIN blocks
  PROVE  x \in ValidBlocks
<1>1. PICK D \in SUBSET (1 .. Beyond) :
         Doomed(D) /\ DOMAIN blocks \ ValidBlocks \subseteq D
  BY DEF BlocksFit
<1> QED
  BY <1>1, NotDoomed

(* Nothing is read and nothing is doomed by a split.                        *)
LEMMA SplitIsStep ==
  ASSUME BlocksFit, UNCHANGED code,
         DOMAIN blocks \subseteq DOMAIN blocks',
         \A b \in DOMAIN blocks' : \/ b \in DOMAIN blocks /\ blocks'[b] = blocks[b]
                                   \/ Shortened(b)
                                   \/ SplitOff(b)
  PROVE  BlocksFit' /\ ValidBlocks \subseteq ValidBlocks'
<1>1. CodeGrows /\ CodeFits'
  BY DEF CodeGrows, CodeFits, BlocksFit
<1>2. {} \in SUBSET (1 .. Beyond) /\ Doomed({})'
  BY DEF Doomed
<1>3. BlocksStep
  BY <1>1, <1>2 DEF BlocksStep
<1> QED
  BY <1>3, BlocksFitStep

(* A turn that changes nothing but the queue.                               *)
LEMMA SelfFits ==
  ASSUME AllFit, SplitSelf \/ SplitFails
  PROVE  FitsOn
<1>1. UNCHANGED <<code, blockStarts, blockEnds, blocks, succs>>
  BY DEF SplitSelf, SplitFails
<1>2. ValidBlocks' = ValidBlocks
  BY <1>1 DEF ValidBlocks
<1>3. BlocksFit' /\ EndsFit' /\ EdgesFit' /\ blockStarts' = DOMAIN blocks'
  <2>1. CodeFits'
    BY <1>1 DEF AllFit, BlocksFit, CodeFits
  <2>2. BlocksFit'
    BY <1>1, SplitIsStep DEF AllFit
  <2>3. EndsFit'
    BY <1>1, <1>2 DEF AllFit, EndsFit
  <2>4. EdgesFit' /\ blockStarts' = DOMAIN blocks'
    BY <1>1 DEF AllFit, EdgesFit, EdgeMap
  <2> QED
    BY <2>2, <2>3, <2>4
<1>4. EdgesLead
  BY <1>1 DEF EdgesLead
<1>5. SplitFits'
  <2>1. CASE SplitSelf
    <3>1. Splitting /\ DoneWith(Tail(split.queue))
      BY <2>1 DEF SplitSelf
    <3>2. PICK t : t = Tail(split.queue)
      OBVIOUS
    <3>3. DoneWith(t)
      BY <3>1, <3>2 DEF DoneWith
    <3> QED
      BY <1>1, <1>2, <3>1, <3>2, <3>3, QueueFits DEF AllFit
  <2>2. CASE SplitFails
    <3>1. split' = split
      BY <2>2 DEF SplitFails
    <3> QED
      BY <1>1, <1>2, <3>1 DEF AllFit, SplitFits, Queued, IsBlock, Chain, RunsOn,
         Stops, After, Boundary
  <2> QED
    BY <2>1, <2>2
<1> QED
  BY <1>2, <1>3, <1>4, <1>5 DEF FitsOn, AllFit

(* RegisterChoppedEnd, of a block that is m instructions of another long.   *)
LEMMA ChoppedEnd ==
  ASSUME NEW ends, NEW s, IsBlock(s), NEW m \in 1 .. Len(s) - 1,
         NEW t, t = Chop(s, m), RegisterChoppedEnd(ends, t)
  PROVE  /\ blockEnds' = TryAdd(ends, s[m], s[1])
         /\ \E queue :
               /\ DoneWith(queue)
               /\ queue = IF s[m] \in DOMAIN ends
                          THEN Append(Tail(split.queue), [instrs |-> t, end |-> s[m]])
                          ELSE Tail(split.queue)
         /\ [instrs |-> t, end |-> s[m]] \in Pairs
<1>1. IsBlock(t) /\ Last(t) = s[m] /\ Head(t) = s[1]
  BY ChopIs
<1>2. t \in Seq(Addresses)
  BY <1>1 DEF IsBlock, Chain
<1>3. s[m] \in Addresses
  <2>1. m \in 1 .. Len(s) /\ s \in Seq(Addresses)
    BY ChopIs DEF IsBlock, Chain
  <2> QED
    BY <2>1, ElementOfSeq
<1> DEFINE q == IF s[m] \in DOMAIN ends
                THEN Append(Tail(split.queue), [instrs |-> t, end |-> s[m]])
                ELSE Tail(split.queue)
<1>4. blockEnds' = TryAdd(ends, s[m], s[1])
  BY <1>1 DEF RegisterChoppedEnd
<1>5. PICK queue : queue = q
  OBVIOUS
<1>6. DoneWith(queue)
  BY <1>1, <1>5 DEF RegisterChoppedEnd, DoneWith
<1> QED
  BY <1>2, <1>3, <1>4, <1>5, <1>6 DEF Pairs

(* What it leaves fits, if the block it registers is one.                   *)
LEMMA ChoppedFits ==
  ASSUME AllFit, Splitting, UNCHANGED code, ValidBlocks \subseteq ValidBlocks',
         NEW ends, DOMAIN ends = DOMAIN blockEnds,
         \A e \in DOMAIN ends : ends[e] \in ValidBlocks,
         NEW s, IsBlock(s), s[1] \in ValidBlocks, NEW m \in 1 .. Len(s) - 1,
         NEW t, t = Chop(s, m), RegisterChoppedEnd(ends, t)
  PROVE  EndsFit' /\ SplitFits'
<1>1. blockEnds' = TryAdd(ends, s[m], s[1])
  BY ChoppedEnd
<1>2. PICK queue :
         /\ DoneWith(queue)
         /\ queue = IF s[m] \in DOMAIN ends
                    THEN Append(Tail(split.queue), [instrs |-> t, end |-> s[m]])
                    ELSE Tail(split.queue)
  BY ChoppedEnd
<1>3. [instrs |-> t, end |-> s[m]] \in Pairs
  BY ChoppedEnd
<1>4. /\ IsBlock(t)
      /\ Last(t) = s[m]
      /\ t[1] = s[1]
      /\ s[m] \in DOMAIN code
      /\ 1 \in 1 .. m
  <2>1. /\ IsBlock(t)
        /\ Last(t) = s[m]
        /\ \A i \in 1 .. m : t[i] = s[i]
        /\ m \in 1 .. Len(s)
    BY ChopIs
  <2>2. 1 \in 1 .. m /\ s[m] \in DOMAIN code
    BY <2>1 DEF IsBlock, Chain
  <2> QED
    BY <2>1, <2>2
<1>5. /\ DOMAIN blockEnds' = DOMAIN blockEnds \cup {s[m]}
      /\ \A e \in DOMAIN blockEnds : blockEnds'[e] = ends[e]
      /\ s[m] \notin DOMAIN blockEnds => blockEnds'[s[m]] = s[1]
  BY <1>1 DEF TryAdd, Set
<1>6. EndsFit'
  BY <1>4, <1>5 DEF AllFit, EndsFit
<1>7. Queued([instrs |-> t, end |-> s[m]])'
  BY <1>4, <1>5 DEF Queued, IsBlock, Chain, RunsOn, Stops, After, Boundary
<1>8. SplitFits'
  <2>1. \/ queue = Tail(split.queue)
        \/ \E q \in Pairs : queue = Append(Tail(split.queue), q) /\ Queued(q)'
    BY <1>2, <1>3, <1>7
  <2> QED
    BY <1>2, <1>5, <2>1, QueueFits DEF AllFit
<1> QED
  BY <1>6, <1>8

(* What SplitB does: m instructions of the outer block are left, and run    *)
(* into block a.                                                            *)
SplitsB(a, s, m) ==
    /\ AddrA = a /\ BlockB = s /\ IndexB = m
    /\ a \in ValidBlocks
    /\ m \in 1 .. Len(s) - 1
    /\ s[m + 1] = a
    /\ DOMAIN blocks' = DOMAIN blocks
    /\ \A x \in DOMAIN blocks :
          blocks'[x] = IF x = AddrB /\ blocks[x] = Valid(s)
                       THEN Valid(Chop(s, m)) ELSE blocks[x]
    /\ RegisterChoppedEnd(blockEnds, Chop(s, m))
    /\ succs' = WithEdge(succs, s[1], a)
    /\ UNCHANGED <<code, blockStarts, thrown>>

(* SplitB is such a step.                                                   *)
LEMMA SplitBIs ==
  ASSUME AllFit, SplitB
  PROVE  \E a, s, m : SplitsB(a, s, m)
<1>1. PICK a, s, m : a = AddrA /\ s = BlockB /\ m = IndexB
  OBVIOUS
<1>2. /\ Splitting
      /\ IndexA = 0
      /\ IndexB > 0
  BY DEF SplitB
<1>3. BlocksFit /\ EndsFit /\ SplitFits
  BY DEF AllFit
<1>4. /\ IndexB \in 0 .. Len(BlockB)
      /\ Len(BlockA) \in Nat /\ Len(BlockB) \in Nat
      /\ Shared(BlockA, BlockB) = Len(BlockA) - IndexA
      /\ Shared(BlockA, BlockB) = Len(BlockB) - IndexB
      /\ \A j \in 1 .. Shared(BlockA, BlockB) :
            BlockA[IndexA + j] = BlockB[IndexB + j]
  BY <1>2, <1>3, PartsAt
<1>5. /\ IsBlock(BlockA)
      /\ BlockA[1] = AddrA
      /\ AddrA \in ValidBlocks
      /\ Head(BlockB) = BlockB[1]
  BY <1>2, <1>3, AtSplit
<1>6. Len(BlockA) # 0
  BY <1>5, BlockEnds
<1>7. m \in 1 .. Len(s) - 1 /\ 1 \in 1 .. Shared(BlockA, BlockB)
  BY <1>1, <1>2, <1>4, <1>6
<1>8. s[m + 1] = a
  <2>1. BlockA[IndexA + 1] = BlockB[IndexB + 1]
    BY <1>4, <1>7
  <2> QED
    BY <1>1, <1>2, <1>5, <2>1
<1>9. /\ blocks' = TryUpdate(blocks, AddrB, Valid(Chop(s, m)), Valid(s))
      /\ RegisterChoppedEnd(blockEnds, Chop(s, m))
      /\ succs' = WithEdge(succs, s[1], a)
      /\ UNCHANGED <<code, blockStarts, thrown>>
  BY <1>1, <1>5 DEF SplitB
<1>10. /\ DOMAIN blocks' = DOMAIN blocks
       /\ \A x \in DOMAIN blocks :
             blocks'[x] = IF x = AddrB /\ blocks[x] = Valid(s)
                          THEN Valid(Chop(s, m)) ELSE blocks[x]
  BY <1>9 DEF TryUpdate, Set
<1> QED
  BY <1>1, <1>5, <1>7, <1>8, <1>9, <1>10 DEF SplitsB

(* It leaves everything in order.                                           *)
LEMMA SplitBFits ==
  ASSUME AllFit, SplitB
  PROVE  FitsOn
<1>1. PICK a, s, m : SplitsB(a, s, m)
  BY SplitBIs
<1>2. Splitting /\ BlocksFit /\ EndsFit /\ SplitFits
  BY DEF AllFit, SplitB
<1>3. /\ IsBlock(s)
      /\ s[1] \in ValidBlocks
      /\ AddrB \in ValidBlocks
  BY <1>1, <1>2, AtSplit DEF SplitsB
<1>4. /\ a \in ValidBlocks
      /\ m \in 1 .. Len(s) - 1
      /\ s[m + 1] = a
      /\ DOMAIN blocks' = DOMAIN blocks
      /\ \A x \in DOMAIN blocks :
            blocks'[x] = IF x = AddrB /\ blocks[x] = Valid(s)
                         THEN Valid(Chop(s, m)) ELSE blocks[x]
      /\ RegisterChoppedEnd(blockEnds, Chop(s, m))
      /\ succs' = WithEdge(succs, s[1], a)
      /\ UNCHANGED <<code, blockStarts, thrown>>
  BY <1>1 DEF SplitsB
<1>5. ASSUME NEW x \in DOMAIN blocks
      PROVE  blocks'[x] = blocks[x] \/ Shortened(x)
  <2>1. CASE x = AddrB /\ blocks[x] = Valid(s)
    <3>1. Instrs(x) = s
      BY <2>1 DEF Instrs, Valid
    <3>2. blocks'[x] = Valid(Chop(s, m)) /\ x \in ValidBlocks
      BY <1>3, <1>4, <2>1
    <3>3. a \in ValidBlocks'
      <4>1. a \in DOMAIN blocks /\ blocks[a].valid
        BY <1>4 DEF ValidBlocks
      <4>2. blocks'[a].valid
        BY <1>4, <4>1 DEF Valid
      <4> QED
        BY <1>4, <4>1, <4>2 DEF ValidBlocks
    <3> QED
      BY <1>4, <3>1, <3>2, <3>3 DEF Shortened
  <2> QED
    BY <1>4, <2>1
<1>6. BlocksFit' /\ ValidBlocks \subseteq ValidBlocks'
  BY <1>2, <1>4, <1>5, SplitIsStep
<1>7. EndsFit' /\ SplitFits'
  <2>1. PICK t : t = Chop(s, m)
    OBVIOUS
  <2>2. RegisterChoppedEnd(blockEnds, t)
    BY <1>4, <2>1
  <2>3. PICK ends : ends = blockEnds
    OBVIOUS
  <2>4. /\ RegisterChoppedEnd(ends, t)
        /\ DOMAIN ends = DOMAIN blockEnds
        /\ \A e \in DOMAIN ends : ends[e] \in ValidBlocks
    BY <1>2, <2>2, <2>3 DEF EndsFit
  <2> QED
    BY <1>2, <1>3, <1>4, <1>6, <2>1, <2>4, ChoppedFits
<1>8. a \in DOMAIN blocks /\ a \in 1 .. Beyond /\ s[1] \in DOMAIN blocks
  BY <1>2, <1>3, <1>4 DEF ValidBlocks, BlocksFit
<1>9. /\ EdgeMap(succs')
      /\ DOMAIN succs' = DOMAIN succs \cup {s[1]}
      /\ \A b : EdgesOf(succs', b) \subseteq EdgesOf(succs, b) \cup {a}
  <2>1. PICK e, f, g : e = succs /\ f = s[1] /\ g = succs'
    OBVIOUS
  <2>2. EdgeMap(e) /\ g = WithEdge(e, f, a) /\ a \in 1 .. Beyond
    BY <1>4, <1>8, <2>1 DEF AllFit, EdgesFit
  <2>3. EdgeMap(g) /\ DOMAIN g = DOMAIN e \cup {f}
    BY <2>2, WithEdgeMap
  <2>4. \A b : EdgesOf(g, b) \subseteq EdgesOf(e, b) \cup {a}
    BY <2>2, WithEdgeEdges
  <2> QED
    BY <2>1, <2>3, <2>4
<1>10. EdgesFit'
  BY <1>4, <1>8, <1>9 DEF AllFit, EdgesFit, EdgeMap
<1>11. blockStarts' = DOMAIN blocks' /\ a \in blockStarts'
  BY <1>4, <1>8 DEF AllFit
<1>12. EdgesLead
  BY <1>9, <1>11 DEF EdgesLead
<1> QED
  BY <1>6, <1>7, <1>10, <1>11, <1>12 DEF FitsOn, AllFit

(* What SplitA does: n instructions of block a are left, and run into the   *)
(* block with the others, s, which takes over the end.                      *)
SplitsA(a, t, s, n) ==
    /\ AddrA = a /\ BlockA = t /\ BlockB = s
    /\ a \in ValidBlocks
    /\ Instrs(a) = t
    /\ n \in 1 .. Len(t) - 1
    /\ Len(t) = n + Len(s)
    /\ \A j \in 1 .. Len(s) : t[n + j] = s[j]
    /\ DOMAIN blocks' = DOMAIN blocks
    /\ blocks'[a] = Valid(Chop(t, n))
    /\ \A x \in DOMAIN blocks : x # a => blocks'[x] = blocks[x]
    /\ RegisterChoppedEnd(Set(blockEnds, End, AddrB), Chop(t, n))
    /\ succs' = WithEdge(StealEdges(succs, a, s[1]), a, s[1])
    /\ UNCHANGED <<code, blockStarts, thrown>>

(* SplitA is such a step.                                                   *)
LEMMA SplitAIs ==
  ASSUME AllFit, SplitA
  PROVE  \E a, t, s, n : SplitsA(a, t, s, n)
<1>1. PICK a, t, s, n : a = AddrA /\ t = BlockA /\ s = BlockB /\ n = IndexA
  OBVIOUS
<1>2. /\ Splitting
      /\ IndexB = 0
      /\ IndexA > 0
  BY DEF SplitA
<1>3. BlocksFit /\ EndsFit /\ SplitFits
  BY DEF AllFit
<1>4. /\ IndexA \in 0 .. Len(BlockA)
      /\ Len(BlockA) \in Nat /\ Len(BlockB) \in Nat
      /\ Shared(BlockA, BlockB) = Len(BlockA) - IndexA
      /\ Shared(BlockA, BlockB) = Len(BlockB) - IndexB
      /\ \A j \in 1 .. Shared(BlockA, BlockB) :
            BlockA[IndexA + j] = BlockB[IndexB + j]
  BY <1>2, <1>3, PartsAt
<1>5. /\ IsBlock(BlockA)
      /\ BlockA[1] = AddrA
      /\ AddrA \in ValidBlocks
      /\ IsBlock(BlockB)
      /\ Head(BlockB) = BlockB[1]
      /\ BlockA = Instrs(AddrA)
      /\ blocks[AddrA] = Valid(BlockA)
  BY <1>2, <1>3, AtSplit
<1>6. Len(BlockB) # 0
  BY <1>5, BlockEnds
<1>7. n \in 1 .. Len(t) - 1 /\ Len(t) = n + Len(s) /\ 1 \in 1 .. n
  BY <1>1, <1>2, <1>4, <1>6
<1>8. \A j \in 1 .. Len(s) : t[n + j] = s[j]
  <2> TAKE j \in 1 .. Len(s)
  <2>1. j \in 1 .. Shared(BlockA, BlockB) /\ IndexB + j = j
    BY <1>1, <1>2, <1>4
  <2> QED
    BY <1>1, <1>4, <2>1
<1>9. Head(Chop(t, n)) = a
  BY <1>1, <1>5, <1>7, ChopIs
<1>10. /\ blocks' = TryUpdate(blocks, a, Valid(Chop(t, n)), Valid(t))
       /\ RegisterChoppedEnd(Set(blockEnds, End, AddrB), Chop(t, n))
       /\ succs' = WithEdge(StealEdges(succs, a, s[1]), a, s[1])
       /\ UNCHANGED <<code, blockStarts, thrown>>
  BY <1>1, <1>5, <1>9 DEF SplitA
<1>11. /\ DOMAIN blocks' = DOMAIN blocks
       /\ blocks'[a] = Valid(Chop(t, n))
       /\ \A x \in DOMAIN blocks : x # a => blocks'[x] = blocks[x]
  <2>1. a \in DOMAIN blocks
    BY <1>1, <1>5 DEF ValidBlocks
  <2> QED
    BY <1>1, <1>5, <1>10, <2>1 DEF TryUpdate, Set
<1> QED
  BY <1>1, <1>5, <1>7, <1>8, <1>10, <1>11 DEF SplitsA

(* It leaves everything in order.                                           *)
LEMMA SplitAFits ==
  ASSUME AllFit, SplitA
  PROVE  FitsOn
<1>1. PICK a, t, s, n : SplitsA(a, t, s, n)
  BY SplitAIs
<1>2. Splitting /\ BlocksFit /\ EndsFit /\ SplitFits
  BY DEF AllFit, SplitA
<1>3. /\ IsBlock(s) /\ IsBlock(t)
      /\ s[1] \in ValidBlocks
      /\ t[1] = a
      /\ AddrB \in ValidBlocks
      /\ End \in DOMAIN blockEnds
  BY <1>1, <1>2, AtSplit DEF SplitsA
<1>4. /\ a \in ValidBlocks
      /\ n \in 1 .. Len(t) - 1
      /\ \A j \in 1 .. Len(s) : t[n + j] = s[j]
      /\ DOMAIN blocks' = DOMAIN blocks
      /\ blocks'[a] = Valid(Chop(t, n))
      /\ \A x \in DOMAIN blocks : x # a => blocks'[x] = blocks[x]
      /\ RegisterChoppedEnd(Set(blockEnds, End, AddrB), Chop(t, n))
      /\ succs' = WithEdge(StealEdges(succs, a, s[1]), a, s[1])
      /\ UNCHANGED <<code, blockStarts, thrown>>
      /\ Instrs(a) = t
  BY <1>1 DEF SplitsA
<1>5. t[n + 1] = s[1]
  BY <1>3, <1>4, BlockEnds
<1>6. s[1] # a
  <2>1. 1 \in 1 .. Len(t) /\ n + 1 \in 1 .. Len(t) /\ n + 1 # 1
    BY <1>3, <1>4, BlockEnds
  <2> QED
    BY <1>2, <1>3, <1>5, <2>1, ChainInjective DEF IsBlock, BlocksFit
<1>7. s[1] \in ValidBlocks'
  BY <1>3, <1>4, <1>6 DEF ValidBlocks
<1>8. Shortened(a)
  BY <1>4, <1>5, <1>7 DEF Shortened
<1>9. BlocksFit' /\ ValidBlocks \subseteq ValidBlocks'
  BY <1>2, <1>4, <1>8, SplitIsStep
<1>10. EndsFit' /\ SplitFits'
  <2>1. PICK c, ends : c = Chop(t, n) /\ ends = Set(blockEnds, End, AddrB)
    OBVIOUS
  <2>2. RegisterChoppedEnd(ends, c)
    BY <1>4, <2>1
  <2>3. /\ DOMAIN ends = DOMAIN blockEnds
        /\ \A e \in DOMAIN ends : ends[e] \in ValidBlocks
    BY <1>2, <1>3, <2>1 DEF Set, EndsFit
  <2> QED
    BY <1>2, <1>3, <1>4, <1>9, <2>1, <2>2, <2>3, ChoppedFits
<1>11. a \in DOMAIN blocks /\ s[1] \in DOMAIN blocks /\ s[1] \in 1 .. Beyond
  BY <1>2, <1>3, <1>4 DEF ValidBlocks, BlocksFit
<1>12. /\ EdgeMap(succs')
       /\ DOMAIN succs' \subseteq DOMAIN succs \cup {a, s[1]}
       /\ \A b : \A x \in EdgesOf(succs', b) :
             x = s[1] \/ \E c : x \in EdgesOf(succs, c)
  <2>1. PICK e, f, g, to : /\ e = succs /\ to = s[1]
                           /\ f = StealEdges(e, a, to) /\ g = succs'
    OBVIOUS
  <2>2. EdgeMap(e) /\ to \in 1 .. Beyond /\ g = WithEdge(f, a, to) /\ a # to
    BY <1>4, <1>6, <1>11, <2>1 DEF AllFit, EdgesFit
  <2>3. EdgeMap(f) /\ DOMAIN f \subseteq DOMAIN e \cup {to}
    BY <2>1, <2>2, StealEdgesMap
  <2>4. /\ EdgesOf(f, a) = {}
        /\ to \in DOMAIN e => EdgesOf(f, to) = EdgesOf(e, to)
        /\ to \notin DOMAIN e => EdgesOf(f, to) = EdgesOf(e, a)
        /\ \A b : b \notin {a, to} => EdgesOf(f, b) = EdgesOf(e, b)
    BY <2>1, <2>2, StealEdgesEdges
  <2>5. EdgeMap(g) /\ DOMAIN g = DOMAIN f \cup {a}
    BY <2>2, <2>3, WithEdgeMap
  <2>6. /\ EdgesOf(g, a) = EdgesOf(f, a) \cup {to}
        /\ \A b : b # a => EdgesOf(g, b) = EdgesOf(f, b)
    BY <2>2, <2>3, WithEdgeEdges
  <2>7. ASSUME NEW b, NEW x \in EdgesOf(g, b)
        PROVE  x = to \/ \E c : x \in EdgesOf(e, c)
    BY <2>4, <2>6, <2>7
  <2> QED
    BY <2>1, <2>3, <2>5, <2>7
<1>13. EdgesFit'
  BY <1>4, <1>11, <1>12 DEF AllFit, EdgesFit
<1>14. blockStarts' = DOMAIN blocks' /\ s[1] \in blockStarts'
  BY <1>4, <1>11 DEF AllFit
<1>15. EdgesLead
  BY <1>12, <1>14 DEF EdgesLead
<1> QED
  BY <1>9, <1>10, <1>13, <1>14, <1>15 DEF FitsOn, AllFit

(* Neither block is the tail of the other.                                  *)
LEMMA SplitTailFits ==
  ASSUME AllFit, SplitTail
  PROVE  FitsOn
<1>1. PICK a, b, t, s, n, m, to :
         /\ a = AddrA /\ b = AddrB /\ t = BlockA /\ s = BlockB
         /\ n = IndexA /\ m = IndexB /\ to = BlockA[IndexA + 1]
  OBVIOUS
<1>2. /\ Splitting
      /\ a # b
      /\ IndexA > 0
      /\ IndexB > 0
      /\ Shared(BlockA, BlockB) > 0
  BY <1>1 DEF SplitTail
<1>3. BlocksFit /\ EndsFit /\ SplitFits /\ EdgesFit /\ blockStarts = DOMAIN blocks
  BY DEF AllFit
<1>4. /\ IndexA \in 0 .. Len(BlockA)
      /\ IndexB \in 0 .. Len(BlockB)
      /\ Len(BlockA) \in Nat /\ Len(BlockB) \in Nat
      /\ Shared(BlockA, BlockB) = Len(BlockA) - IndexA
      /\ Shared(BlockA, BlockB) = Len(BlockB) - IndexB
      /\ \A j \in 1 .. Shared(BlockA, BlockB) :
            BlockA[IndexA + j] = BlockB[IndexB + j]
  BY <1>2, <1>3, PartsAt
<1>5. /\ IsBlock(t)
      /\ t[1] = a
      /\ a \in ValidBlocks
      /\ IsBlock(s)
      /\ s[1] \in ValidBlocks
      /\ Head(s) = s[1]
      /\ b \in ValidBlocks
      /\ Instrs(a) = t
      /\ blocks[a] = Valid(t)
      /\ End \in DOMAIN blockEnds
  BY <1>1, <1>2, <1>3, AtSplit
<1>6. /\ n \in 1 .. Len(t) - 1
      /\ m \in 1 .. Len(s) - 1
      /\ 1 \in 1 .. Shared(BlockA, BlockB)
  BY <1>1, <1>2, <1>4
<1>7. t[n + 1] = to /\ s[m + 1] = to
  BY <1>1, <1>4, <1>6
<1>8. to # a /\ to \in Body(a) /\ to \in Addresses
  <2>1. 1 \in 1 .. Len(t) /\ n + 1 \in 1 .. Len(t) /\ n + 1 # 1
    BY <1>5, <1>6, BlockEnds
  <2>2. to # a
    BY <1>3, <1>5, <1>7, <2>1, ChainInjective DEF IsBlock, BlocksFit
  <2>3. to \in Body(a)
    BY <1>5, <1>7, <2>1, InBlock DEF Body
  <2>4. t \in Seq(Addresses)
    BY <1>5 DEF IsBlock, Chain
  <2> QED
    BY <1>7, <2>1, <2>2, <2>3, <2>4, ElementOfSeq
<1>9. to \in DOMAIN blocks => to \in ValidBlocks
  BY <1>3, <1>5, <1>8, StartIsValid
<1>10. a \in DOMAIN blocks /\ b \in DOMAIN blocks
  BY <1>5 DEF ValidBlocks
<1>11. PICK isNew, tail, withS, moved, first :
          /\ isNew = (to \notin blockStarts)
          /\ tail = SubSeq(t, n + 1, Len(t))
          /\ withS = IF isNew THEN Set(blocks, to, Valid(tail)) ELSE blocks
          /\ moved = IF isNew THEN StealEdges(succs, a, to) ELSE succs
          /\ first = TryUpdate(withS, a, Valid(Chop(t, n)), Valid(t))
  OBVIOUS
<1>12. Head(Chop(t, n)) = a /\ Head(Chop(s, m)) = s[1]
  BY <1>5, <1>6, ChopIs
<1>13. /\ blockStarts' = blockStarts \cup {to}
       /\ succs' = WithEdge(WithEdge(moved, a, to), b, to)
       /\ blocks' = TryUpdate(first, b, Valid(Chop(s, m)), Valid(s))
       /\ blockEnds' = TryUpdate(TryUpdate(blockEnds, a, to, End), s[1], to, End)
       /\ DoneWith(Tail(split.queue))
       /\ UNCHANGED <<code, thrown>>
  BY <1>1, <1>11, <1>12 DEF SplitTail
<1>14. /\ DOMAIN withS = DOMAIN blocks \cup {to}
       /\ to \notin DOMAIN blocks => withS[to] = Valid(tail)
       /\ \A x \in DOMAIN blocks : withS[x] = blocks[x]
  BY <1>3, <1>11 DEF Set
<1>15. /\ DOMAIN first = DOMAIN withS
       /\ first[a] = Valid(Chop(t, n))
       /\ \A x \in DOMAIN withS : x # a => first[x] = withS[x]
  BY <1>5, <1>8, <1>10, <1>11, <1>14 DEF TryUpdate, Set
<1>16. /\ DOMAIN blocks' = DOMAIN first
       /\ \A x \in DOMAIN first :
             blocks'[x] = IF x = b /\ first[b] = Valid(s)
                          THEN Valid(Chop(s, m)) ELSE first[x]
  BY <1>13 DEF TryUpdate, Set
<1>17. to \in ValidBlocks'
  <2>1. to \in DOMAIN blocks' /\ (blocks'[to] = Valid(Chop(s, m)) \/ blocks'[to] = first[to])
    BY <1>14, <1>15, <1>16
  <2>2. first[to] = withS[to]
    BY <1>8, <1>14, <1>15
  <2>3. withS[to].valid
    BY <1>9, <1>14 DEF ValidBlocks, Valid
  <2> QED
    BY <2>1, <2>2, <2>3 DEF ValidBlocks, Valid
<1>18. ASSUME NEW x \in DOMAIN blocks'
       PROVE  \/ x \in DOMAIN blocks /\ blocks'[x] = blocks[x]
              \/ Shortened(x)
              \/ SplitOff(x)
  <2>1. CASE x = b /\ first[b] = Valid(s)
    <3>1. blocks[b] = Valid(s) /\ blocks'[x] = Valid(Chop(s, m))
      BY <1>2, <1>10, <1>14, <1>15, <1>16, <2>1
    <3>2. Instrs(x) = s /\ x \in ValidBlocks
      BY <1>5, <2>1, <3>1 DEF Instrs, Valid
    <3> QED
      BY <1>6, <1>7, <1>17, <3>1, <3>2 DEF Shortened
  <2>2. CASE x = a
    <3>1. blocks'[x] = Valid(Chop(t, n))
      BY <1>2, <1>10, <1>14, <1>15, <1>16, <2>2
    <3> QED
      BY <1>5, <1>6, <1>7, <1>17, <2>2, <3>1 DEF Shortened
  <2>3. CASE x # a /\ ~(x = b /\ first[b] = Valid(s))
    <3>1. blocks'[x] = withS[x] /\ x \in DOMAIN withS
      BY <1>15, <1>16, <2>3
    <3>2. CASE x \in DOMAIN blocks
      BY <1>14, <3>1, <3>2
    <3>3. CASE x \notin DOMAIN blocks
      <4>1. x = to /\ blocks'[x] = Valid(tail)
        BY <1>14, <3>1, <3>3
      <4> QED
        BY <1>5, <1>6, <1>7, <1>11, <3>3, <4>1 DEF SplitOff
    <3> QED
      BY <3>2, <3>3
  <2> QED
    BY <2>1, <2>2, <2>3
<1>19. DOMAIN blocks' = DOMAIN blocks \cup {to}
  BY <1>14, <1>15, <1>16
<1>20. BlocksFit' /\ ValidBlocks \subseteq ValidBlocks'
  BY <1>3, <1>13, <1>18, <1>19, SplitIsStep
<1>21. /\ DOMAIN blockEnds' = DOMAIN blockEnds
       /\ \A e \in DOMAIN blockEnds :
             blockEnds'[e] = blockEnds[e] \/ blockEnds'[e] = to
  BY <1>13 DEF TryUpdate, Set
<1>22. EndsFit'
  BY <1>3, <1>13, <1>17, <1>20, <1>21 DEF EndsFit
<1>23. SplitFits'
  <2>1. PICK queue : queue = Tail(split.queue)
    OBVIOUS
  <2>2. DoneWith(queue)
    BY <1>13, <2>1 DEF DoneWith
  <2> QED
    BY <1>2, <1>3, <1>13, <1>20, <1>21, <2>1, <2>2, QueueFits
<1>24. to \in 1 .. Beyond
  BY <1>8, ScannerAssumption DEF Addresses, Beyond
<1>25. /\ EdgeMap(succs')
       /\ DOMAIN succs' \subseteq DOMAIN succs \cup {a, b, to}
       /\ \A d : \A x \in EdgesOf(succs', d) :
             x = to \/ \E c : x \in EdgesOf(succs, c)
  <2>1. PICK e, f, g : e = succs /\ f = WithEdge(moved, a, to) /\ g = succs'
    OBVIOUS
  <2>2. EdgeMap(e) /\ g = WithEdge(f, b, to) /\ a # to
    BY <1>3, <1>8, <1>13, <2>1 DEF EdgesFit
  <2>3. EdgeMap(moved) /\ DOMAIN moved \subseteq DOMAIN e \cup {to}
    <3>1. CASE isNew
      <4>1. moved = StealEdges(e, a, to)
        BY <1>11, <2>1, <3>1
      <4> QED
        BY <2>2, <4>1, StealEdgesMap
    <3>2. CASE ~isNew
      BY <1>11, <2>1, <2>2, <3>2
    <3> QED
      BY <3>1, <3>2
  <2>4. ASSUME NEW d, NEW x \in EdgesOf(moved, d)
        PROVE  \E c : x \in EdgesOf(e, c)
    <3>1. CASE isNew
      <4>1. moved = StealEdges(e, a, to)
        BY <1>11, <2>1, <3>1
      <4>2. /\ EdgesOf(moved, a) = {}
            /\ to \in DOMAIN e => EdgesOf(moved, to) = EdgesOf(e, to)
            /\ to \notin DOMAIN e => EdgesOf(moved, to) = EdgesOf(e, a)
            /\ \A c : c \notin {a, to} => EdgesOf(moved, c) = EdgesOf(e, c)
        BY <2>2, <4>1, StealEdgesEdges
      <4> QED
        BY <2>4, <4>2
    <3>2. CASE ~isNew
      <4>1. moved = e
        BY <1>11, <2>1, <3>2
      <4> QED
        BY <2>4, <4>1
    <3> QED
      BY <3>1, <3>2
  <2>5. EdgeMap(f) /\ DOMAIN f = DOMAIN moved \cup {a}
    BY <1>24, <2>1, <2>3, WithEdgeMap
  <2>6. EdgeMap(g) /\ DOMAIN g = DOMAIN f \cup {b}
    BY <1>24, <2>2, <2>5, WithEdgeMap
  <2>7. \A d : EdgesOf(f, d) \subseteq EdgesOf(moved, d) \cup {to}
    BY <1>24, <2>1, <2>3, WithEdgeEdges
  <2>8. \A d : EdgesOf(g, d) \subseteq EdgesOf(f, d) \cup {to}
    BY <1>24, <2>2, <2>5, WithEdgeEdges
  <2>9. ASSUME NEW d, NEW x \in EdgesOf(g, d)
        PROVE  x = to \/ \E c : x \in EdgesOf(e, c)
    BY <2>4, <2>7, <2>8, <2>9
  <2> QED
    BY <2>1, <2>3, <2>5, <2>6, <2>9
<1>26. EdgesFit'
  BY <1>3, <1>10, <1>19, <1>25 DEF EdgesFit, EdgeMap
<1>27. blockStarts' = DOMAIN blocks' /\ to \in blockStarts'
  BY <1>3, <1>13, <1>19
<1>28. EdgesLead
  BY <1>25, <1>27 DEF EdgesLead
<1> QED
  BY <1>20, <1>22, <1>23, <1>26, <1>27, <1>28 DEF FitsOn, AllFit

(* So a turn of the loop, whichever it is, keeps everything in order.       *)
LEMMA SplitFitsOn ==
  ASSUME AllFit, SplitBlockEndingAt
  PROVE  FitsOn
BY SelfFits, SplitTailFits, SplitBFits, SplitAFits DEF SplitBlockEndingAt

===============================================================================
