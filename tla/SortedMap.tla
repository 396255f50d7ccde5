------------------------------ MODULE SortedMap ------------------------------
(***************************************************************************)
(* What users of ConcurrentBTreeDictionary rely on: a sorted map whose     *)
(* queries give the contents of one moment.  ImageMap.Items is such a map; *)
(* the scanner writes it and the user interface looks things up in it.     *)
(***************************************************************************)
EXTENDS Integers, FiniteSets, Sequences

CONSTANTS Keys, Values, NoValue

VARIABLES
    map,   \* the entries
    asked, \* the latest query, while its caller looks at the answer
    answer

vars == <<map, asked, answer>>

Entry == [key : Keys, value : Values]

KeysOf(m)     == {e.key : e \in m}
IsMap(m)      == m \subseteq Entry /\ Cardinality(KeysOf(m)) = Cardinality(m)
Below(m, key) == {e \in m : e.key < key}

(* The entry with the given index, which is counted from zero.              *)
EntryAt(m, index) == CHOOSE e \in m : Cardinality(Below(m, e.key)) = index

(* The answers.  The index of an absent key is the one's complement of the  *)
(* place it would have; a lower bound is the last entry that is not above   *)
(* the key, an upper bound the first that is not below it.                  *)
Answer(m, op, key) ==
    LET below == Cardinality(Below(m, key))
        here  == key \in KeysOf(m)
        size  == Cardinality(m)
    IN  CASE op = "Get"        -> IF here THEN EntryAt(m, below).value ELSE NoValue
          [] op = "Count"      -> size
          [] op = "IndexOfKey" -> IF here THEN below ELSE -below - 1
          [] op = "LowerBound" -> IF here THEN EntryAt(m, below)
                                  ELSE IF below = 0 THEN NoValue ELSE EntryAt(m, below - 1)
          [] op = "UpperBound" -> IF below = size THEN NoValue ELSE EntryAt(m, below)
          [] op = "Enumerate"  -> [i \in 1 .. size |-> EntryAt(m, i - 1)]

Queries == {"Get", "Count", "IndexOfKey", "LowerBound", "UpperBound", "Enumerate"}

Init == map = {} /\ asked = NoValue /\ answer = NoValue

(* A value is put or taken away: the entry of one key changes. *)
Differ(m, n) == KeysOf((m \ n) \cup (n \ m))

Write ==
    /\ UNCHANGED <<asked, answer>>
    /\ IsMap(map')
    /\ Cardinality(Differ(map, map')) = 1

Clear == map' = {} /\ UNCHANGED <<asked, answer>>

Query ==
    /\ asked' \in [op : Queries, key : Keys \cup {NoValue}]
    /\ answer' = Answer(map, asked'.op, asked'.key)
    /\ UNCHANGED map

(* A query of a map that is cleared under it may fail. *)
Fail ==
    /\ asked' = [op |-> "failed", key |-> NoValue]
    /\ answer' = NoValue
    /\ map = {}
    /\ UNCHANGED map

Return == asked' = NoValue /\ answer' = NoValue /\ UNCHANGED map

Next ==
    \/ Write
    \/ Clear
    \/ Query
    \/ Fail
    \/ Return

Spec == Init /\ [][Next]_vars

===============================================================================
