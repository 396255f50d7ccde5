---------------------- MODULE ConcurrentBTreeDictionary ----------------------
(***************************************************************************)
(* ConcurrentBTreeDictionary                                               *)
(* (src/src/Core/Collections/ConcurrentBTreeDictionary.cs), the B+ tree in *)
(* which an image map keeps its items: a thread writes it while another    *)
(* looks things up.  There is no lock.  Nodes are never changed; a writer  *)
(* makes new ones along the path to a key and then publishes a root.       *)
(***************************************************************************)
EXTENDS Integers, FiniteSets, SequencesExt

CONSTANTS
    Keys,
    Entries,              \* <<key, value>>: what may be put
    InternalNodeChildren, \* most children of an internal node (16)
    LeafNodeChildren,     \* most entries of a leaf (15)
    MaxWrites,            \* bound: writes during one enumeration
    Null                  \* no root, no value, no right node

ASSUME TreeAssumption ==
    /\ Keys \subseteq Int
    /\ \A e \in Entries : e[1] \in Keys
    /\ InternalNodeChildren \in Nat /\ InternalNodeChildren >= 3
    /\ LeafNodeChildren \in Nat /\ LeafNodeChildren >= 2
    /\ MaxWrites \in Nat

VARIABLES
    root,   \* the published tree
    adding, \* the entry to put in the empty leaf that EnsureRoot published
    query   \* the query in progress: what is asked, how far it has come, what
            \* it has yielded, the enumerator's stack and the answer;
            \* writes counts the writes since the enumerator took its tree

vars == <<root, adding, query>>

-------------------------------------------------------------------------------
(* Nodes.  In a leaf, items are the values; in an internal node, the nodes. *)
Node(leaf, keys, items, total) ==
    [leaf |-> leaf, keys |-> keys, items |-> items, total |-> total]

Leaf(keys, values) == Node(TRUE, keys, values, Len(keys))

SumNodeCounts(nodes) == FoldLeft(LAMBDA n, x : n + x.total, 0, nodes)

Internal(keys, nodes) == Node(FALSE, keys, nodes, SumNodeCounts(nodes))

NewInternalRoot(left, right) ==
    Internal(<<left.keys[1], right.keys[1]>>, <<left, right>>)

(* Array.BinarySearch in a leaf: the place of the key if it were there.     *)
Place(keys, key) == Cardinality({i \in DOMAIN keys : keys[i] < key}) + 1
Has(keys, key)   == \E i \in DOMAIN keys : keys[i] = key

(* Array.BinarySearch from the second key on: the child a key belongs to.   *)
Child(keys, key) ==
    Cardinality({i \in DOMAIN keys \ {1} : keys[i] <= key}) + 1

(* Put gives the node that takes this one's place and, if it was split, the *)
(* node to the right of it.                                                 *)
Whole(node)         == [left |-> node, right |-> Null]
Halves(left, right) == [left |-> left, right |-> right]

Half(keys) == (Len(keys) + 1) \div 2

SplitLeaf(node, key, value) ==
    LET n == Half(node.keys)
        l == Leaf(SubSeq(node.keys, 1, n), SubSeq(node.items, 1, n))
        r == Leaf(SubSeq(node.keys, n + 1, Len(node.keys)),
                  SubSeq(node.items, n + 1, Len(node.keys)))
        insert(x) == LET i == Place(x.keys, key)
                     IN  Leaf(InsertAt(x.keys, i, key), InsertAt(x.items, i, value))
    IN  IF r.keys[1] < key THEN Halves(l, insert(r)) ELSE Halves(insert(l), r)

PutInLeaf(node, key, value) ==
    LET i == Place(node.keys, key)
    IN  IF Has(node.keys, key)
        THEN Whole(Leaf(node.keys, [node.items EXCEPT ![i] = value]))
        ELSE IF Len(node.keys) = LeafNodeChildren
        THEN SplitLeaf(node, key, value)
        ELSE Whole(Leaf(InsertAt(node.keys, i, key), InsertAt(node.items, i, value)))

(* Mutant: the child that was split is replaced in the left half only.      *)
SplitInternalHalfway(node, c, left, right) ==
    LET n == Half(node.keys)
        key == right.keys[1]
        ks(lo, hi) == SubSeq(node.keys, lo, hi)
        ns(lo, hi) == SubSeq([node.items EXCEPT ![c] = IF c <= n THEN left ELSE @],
                             lo, hi)
        insert(keys, nodes) ==
            LET i == Cardinality({j \in DOMAIN keys \ {1} : keys[j] < key}) + 2
            IN  Internal(InsertAt(keys, i, key), InsertAt(nodes, i, right))
        len == Len(node.keys)
    IN  IF node.keys[n + 1] < key
        THEN Halves(Internal(ks(1, n), ns(1, n)), insert(ks(n + 1, len), ns(n + 1, len)))
        ELSE Halves(insert(ks(1, n), ns(1, n)), Internal(ks(n + 1, len), ns(n + 1, len)))

(* The c-th child became left and right.  The code throws "Duplicate key."  *)
(* if the first key of right is there already; SearchesAgree says that it   *)
(* is not.                                                                  *)
SplitInternal(node, c, left, right) ==
    LET n == Half(node.keys)
        key == right.keys[1]
        ks(lo, hi) == SubSeq(node.keys, lo, hi)
        ns(lo, hi) == SubSeq([node.items EXCEPT ![c] = left], lo, hi)
        insert(keys, nodes) ==
            LET i == Cardinality({j \in DOMAIN keys \ {1} : keys[j] < key}) + 2
            IN  Internal(InsertAt(keys, i, key), InsertAt(nodes, i, right))
        len == Len(node.keys)
    IN  IF node.keys[n + 1] < key
        THEN Halves(Internal(ks(1, n), ns(1, n)), insert(ks(n + 1, len), ns(n + 1, len)))
        ELSE Halves(insert(ks(1, n), ns(1, n)), Internal(ks(n + 1, len), ns(n + 1, len)))

RECURSIVE Put(_, _, _)
Put(node, key, value) ==
    IF node.leaf THEN PutInLeaf(node, key, value)
    ELSE LET c == Child(node.keys, key)
             put == Put(node.items[c], key, value)
         IN  IF put.right = Null
             THEN Whole(Internal(node.keys, [node.items EXCEPT ![c] = put.left]))
             ELSE IF Len(node.keys) = InternalNodeChildren
             THEN SplitInternal(node, c, put.left, put.right)
             ELSE Whole(Internal(InsertAt(node.keys, c + 1, put.right.keys[1]),
                                 InsertAt([node.items EXCEPT ![c] = put.left],
                                          c + 1, put.right)))

RECURSIVE Get(_, _)
Get(node, key) ==
    IF ~node.leaf THEN Get(node.items[Child(node.keys, key)], key)
    ELSE IF Has(node.keys, key) THEN node.items[Place(node.keys, key)]
    ELSE Null

(* Node.Remove, of a key that is there.  Nodes are not merged; a leaf may   *)
(* be left empty, and separators of keys that are gone stay.                *)
RECURSIVE Removed(_, _)
Removed(node, key) ==
    LET i == IF node.leaf THEN Place(node.keys, key) ELSE Child(node.keys, key)
    IN  IF node.leaf THEN Leaf(RemoveAt(node.keys, i), RemoveAt(node.items, i))
        ELSE Node(FALSE, node.keys,
                  [node.items EXCEPT ![i] = Removed(node.items[i], key)],
                  node.total - 1)

RECURSIVE IndexOfKey(_, _, _)
IndexOfKey(node, key, before) ==
    IF node.leaf
    THEN LET i == before + Place(node.keys, key) - 1
         IN  IF Has(node.keys, key) THEN i ELSE -i - 1
    ELSE LET c == Child(node.keys, key)
         IN  IndexOfKey(node.items[c], key,
                        before + SumNodeCounts(SubSeq(node.items, 1, c - 1)))

(* GetEntry, by a 0-based index. *)
RECURSIVE GetEntry(_, _)
GetEntry(node, index) ==
    IF node.leaf
    THEN [key |-> node.keys[index + 1], value |-> node.items[index + 1]]
    ELSE LET upto(c) == SumNodeCounts(SubSeq(node.items, 1, c))
             c == CHOOSE c \in DOMAIN node.items :
                     upto(c - 1) <= index /\ index < upto(c)
         IN  GetEntry(node.items[c], index - upto(c - 1))

(* The binary search of TryGetLowerBound, TryGetUpperBound and those that   *)
(* give a key or an index: the entries from lo to hi are still to be        *)
(* searched.                                                                *)
RECURSIVE Bound(_, _, _, _, _, _)
Bound(node, key, lower, lo, hi, best) ==
    IF lo > hi THEN best
    ELSE LET mid == (hi - lo) \div 2 + lo
             entry == GetEntry(node, mid)
         IN  IF entry.key = key THEN entry
             ELSE IF entry.key < key
             THEN Bound(node, key, lower, mid + 1, hi, IF lower THEN entry ELSE best)
             ELSE Bound(node, key, lower, lo, mid - 1, IF lower THEN best ELSE entry)

-------------------------------------------------------------------------------
(* The enumerator's stack, top first: nodes, and where it stands in them.   *)
RECURSIVE Descend(_)
Descend(node) ==
    (IF node.leaf THEN <<>> ELSE Descend(node.items[1])) \o <<[node |-> node, at |-> 1]>>

(* The stack after the leaf on top is done: parents that are exhausted go,  *)
(* and the next one leads down to its next leaf.                            *)
RECURSIVE Advance(_)
Advance(stack) ==
    IF stack = <<>> THEN <<>>
    ELSE LET parent == Head(stack).node
             next == Head(stack).at + 1
         IN  IF next > Len(parent.items) THEN Advance(Tail(stack))
             ELSE Descend(parent.items[next])
                     \o <<[node |-> parent, at |-> next]>> \o Tail(stack)

EntriesOf(leaf) ==
    [i \in DOMAIN leaf.keys |-> [key |-> leaf.keys[i], value |-> leaf.items[i]]]

-------------------------------------------------------------------------------
(* The writer. *)
NoQuery == [op |-> "none", key |-> Null, yielded |-> <<>>, stack |-> <<>>,
            asked |-> Null, answer |-> Null, writes |-> 0]

Reading == query.op # "none"

Yielding == query.op = "Enumerate" /\ query.stack # <<>>

(* A write; at most MaxWrites while an enumerator holds an old tree.  An    *)
(* answer is the caller's own and is dropped before the next write.         *)
Counted ==
    /\ query.op # "done"
    /\ Yielding => query.writes < MaxWrites
    /\ query' = IF Yielding THEN [query EXCEPT !.writes = @ + 1] ELSE query

(* Add and the indexer publish an empty leaf first if there is no root.     *)
EnsureRoot(entry) ==
    /\ root = Null
    /\ root' = Leaf(<<>>, <<>>)
    /\ adding' = entry
    /\ UNCHANGED query

(* The indexer; and Add, except that for a key that is there it throws      *)
(* "Duplicate key." and changes nothing.                                    *)
PutEntry(entry) ==
    /\ root # Null
    /\ adding \in {Null, entry}
    /\ LET put == Put(root, entry[1], entry[2])
       IN  root' = IF put.right = Null THEN put.left
                   ELSE NewInternalRoot(put.left, put.right)
    /\ adding' = Null
    /\ Counted

RemoveKey(key) ==
    /\ adding = Null
    /\ root # Null
    /\ Get(root, key) # Null
    /\ root' = Removed(root, key)
    /\ Counted
    /\ UNCHANGED adding

Clear ==
    /\ adding = Null
    /\ root # Null
    /\ root' = Null
    /\ Counted
    /\ UNCHANGED adding

-------------------------------------------------------------------------------
(* A reader.  TryGetValue, ContainsKey, Contains and the indexer ("Get"),   *)
(* Count, IndexOfKey and the enumerator look at root twice: whether there   *)
(* is one, and what it is.  The bounds take it once.                        *)
Reply(op, key, answer) ==
    query' = [NoQuery EXCEPT !.op = "done",
                             !.asked = [op |-> op, key |-> key],
                             !.answer = answer]

EmptyAnswer(op) ==
    CASE op = "Count" -> 0
      [] op = "IndexOfKey" -> -1
      [] op = "Enumerate" -> <<>>
      [] OTHER -> Null

Answer(op, key, node) ==
    CASE op = "Get" -> Get(node, key)
      [] op = "Count" -> node.total
      [] op = "IndexOfKey" -> IndexOfKey(node, key, 0)
      [] op = "LowerBound" -> Bound(node, key, TRUE, 0, node.total - 1, Null)
      [] op = "UpperBound" -> Bound(node, key, FALSE, 0, node.total - 1, Null)

(* There is no root. *)
FindNothing(op, key) ==
    /\ ~Reading
    /\ root = Null
    /\ Reply(op, key, EmptyAnswer(op))
    /\ UNCHANGED <<root, adding>>

TakeSnapshot(op, key) ==
    /\ ~Reading
    /\ root # Null
    /\ op \in {"LowerBound", "UpperBound"}
    /\ Reply(op, key, Answer(op, key, root))
    /\ UNCHANGED <<root, adding>>

CheckRoot(op, key) ==
    /\ ~Reading
    /\ root # Null
    /\ op \in {"Get", "Count", "IndexOfKey", "Enumerate"}
    /\ query' = [NoQuery EXCEPT !.op = op, !.key = key]
    /\ UNCHANGED <<root, adding>>

Checked == query.op \in {"Get", "Count", "IndexOfKey", "Enumerate"} /\ query.stack = <<>>

(* The second look at root: Clear has been in between. *)
Throw ==
    /\ Checked
    /\ root = Null
    /\ Reply("failed", Null, Null)
    /\ UNCHANGED <<root, adding>>

Search ==
    /\ Checked
    /\ query.op # "Enumerate"
    /\ root # Null
    /\ Reply(query.op, query.key, Answer(query.op, query.key, root))
    /\ UNCHANGED <<root, adding>>

Enumerate ==
    /\ Checked
    /\ query.op = "Enumerate"
    /\ root # Null
    /\ query' = [query EXCEPT !.stack = Descend(root)]
    /\ UNCHANGED <<root, adding>>

(* Mutant: an empty leaf ends the enumeration.                              *)
YieldLeafStopping ==
    /\ Yielding
    /\ LET yielded == query.yielded \o EntriesOf(Head(query.stack).node)
           stack == IF Head(query.stack).node.total = 0 THEN <<>>
                    ELSE Advance(Tail(query.stack))
       IN  IF stack = <<>> THEN Reply("Enumerate", query.key, yielded)
           ELSE query' = [query EXCEPT !.yielded = yielded, !.stack = stack]
    /\ UNCHANGED <<root, adding>>

(* MoveNext through one leaf; other threads may write before the next.      *)
YieldLeaf ==
    /\ Yielding
    /\ LET yielded == query.yielded \o EntriesOf(Head(query.stack).node)
           stack == Advance(Tail(query.stack))
       IN  IF stack = <<>> THEN Reply("Enumerate", query.key, yielded)
           ELSE query' = [query EXCEPT !.yielded = yielded, !.stack = stack]
    /\ UNCHANGED <<root, adding>>

Return ==
    /\ query.op = "done"
    /\ query' = NoQuery
    /\ UNCHANGED <<root, adding>>

-------------------------------------------------------------------------------
Init ==
    /\ root = Null
    /\ adding = Null
    /\ query = NoQuery

Queries == {"Get", "Count", "IndexOfKey", "LowerBound", "UpperBound", "Enumerate"}

Unkeyed == {"Count", "Enumerate"}

Write ==
    \/ \E entry \in Entries : EnsureRoot(entry) \/ PutEntry(entry)
    \/ \E key \in Keys : RemoveKey(key)
    \/ Clear

Read ==
    \/ \E op \in Queries : \E key \in IF op \in Unkeyed THEN {Null} ELSE Keys :
          \/ FindNothing(op, key)
          \/ TakeSnapshot(op, key)
          \/ CheckRoot(op, key)
    \/ Throw
    \/ Search
    \/ Enumerate
    \/ YieldLeaf
    \/ Return

Next == Write \/ Read

Spec == Init /\ [][Next]_vars

-------------------------------------------------------------------------------
(* Properties. *)

RECURSIVE Contents(_)
Contents(node) ==
    IF node.leaf THEN EntriesOf(node)
    ELSE FlattenSeq([i \in DOMAIN node.items |-> Contents(node.items[i])])

(* What an enumerator has still to yield. *)
RECURSIVE ToCome(_)
ToCome(stack) ==
    IF stack = <<>> THEN <<>>
    ELSE LET top == Head(stack)
             rest == Advance(Tail(stack))
         IN  EntriesOf(top.node) \o ToCome(rest)

RECURSIVE AllEntries(_)
AllEntries(node) ==
    IF node.leaf THEN ToSet(EntriesOf(node))
    ELSE UNION {AllEntries(node.items[i]) : i \in DOMAIN node.items}

Sorted == INSTANCE SortedMap WITH
    Keys <- Keys,
    Values <- {e[2] : e \in Entries},
    NoValue <- Null,
    map <- IF root = Null THEN {} ELSE AllEntries(root),
    asked <- IF Yielding THEN [op |-> query.op, key |-> query.key]
             ELSE query.asked,
    answer <- IF Yielding THEN query.yielded \o ToCome(query.stack)
              ELSE query.answer

(* Every query gives the contents of a moment at which it was in progress,  *)
(* whatever is written between its two looks at root or while it            *)
(* enumerates; only a map that is empty can make it fail.                   *)
ImplementsSortedMap == Sorted!Spec

RECURSIVE Nodes(_)
Nodes(node) ==
    {node} \cup IF node.leaf THEN {} ELSE UNION {Nodes(node.items[i]) : i \in DOMAIN node.items}

Ascending(keys) == \A i, j \in DOMAIN keys : i < j => keys[i] < keys[j]

(* However leaves were split, emptied and filled again around separators    *)
(* of keys that are gone: nodes keep to their capacity and count what is    *)
(* below them (Validate), keys ascend, and the search by key and the search *)
(* by index agree on every entry of the tree in order.                      *)
SearchesAgree ==
    root # Null =>
        LET entries == Contents(root)
        IN  /\ Ascending([i \in DOMAIN entries |-> entries[i].key])
            /\ \A n \in Nodes(root) :
                  /\ Len(n.keys) = Len(n.items)
                  /\ Len(n.keys) <= IF n.leaf THEN LeafNodeChildren ELSE InternalNodeChildren
                  /\ n.total = Len(Contents(n))
                  /\ ~n.leaf => Ascending(Tail(n.keys))
            /\ \A i \in DOMAIN entries :
                  /\ GetEntry(root, i - 1) = entries[i]
                  /\ Get(root, entries[i].key) = entries[i].value
                  /\ IndexOfKey(root, entries[i].key, 0) = i - 1

===============================================================================
