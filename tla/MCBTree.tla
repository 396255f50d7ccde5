-------------------------------- MODULE MCBTree --------------------------------
(* Entries for the run: a key has itself for a value, and key 2 another.    *)
EXTENDS ConcurrentBTreeDictionary

MCEntries == {<<k, k>> : k \in Keys} \cup {<<2, 0>>}

===============================================================================
