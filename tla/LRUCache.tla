------------------------------- MODULE LRUCache -------------------------------
(***************************************************************************)
(* LRUCache<Key, T> (containers/lru_cache.hpp): a list of entries, the one  *)
(* used last in front, and a hash map from keys to iterators into the list, *)
(* which are kept consistent by hand.  An allocation, or copying a key or a *)
(* value, may throw between the two.  One thread uses the cache.           *)
(***************************************************************************)
EXTENDS Naturals, Sequences, SequencesExt

CONSTANTS
  Keys,
  Values,
  Nodes,          \* the list nodes there is memory for
  m_capacity,
  Freed,          \* the content of a node that is not allocated
  MayThrow        \* whether an allocation, or copying a key or a value, may throw

\* With capacity 0, insert() would read the front of an empty list.
ASSUME CacheAssumption ==
  /\ m_capacity \in Nat \ {0}
  /\ MayThrow \in BOOLEAN

VARIABLES
  m_elements,   \* the list, as a sequence of nodes
  entry,        \* the key and value of each node
  m_lookup,     \* the hash map: keys to nodes
  result        \* what the latest operation returned

vars == <<m_elements, entry, m_lookup, result>>

Entries == [key : Keys, value : Values]

Init ==
  /\ m_elements = <<>>
  /\ entry = [n \in Nodes |-> Freed]
  /\ m_lookup = <<>>
  /\ result = "none"

--------------------------------------------------------------------------------
Free == Nodes \ ToSet(m_elements)

\* promote_element: the node is spliced to the front.
Promote(n) ==
  \E i \in DOMAIN m_elements :
    m_elements[i] = n /\ m_elements' = <<n>> \o RemoveAt(m_elements, i)

\* Mutant of ShrinkToFit: the keys of the entries dropped stay in the map.
ShrinkForgetsLookup(list, entries, lookup) ==
  LET kept == SubSeq(list, 1, IF Len(list) > m_capacity THEN m_capacity ELSE Len(list))
  IN  /\ m_elements' = kept
      /\ m_lookup' = lookup
      /\ entry' = [n \in Nodes |-> IF n \in ToSet(kept) THEN entries[n] ELSE Freed]

\* Mutant of ShrinkToFit: one entry more than the capacity is kept.
ShrinkKeepsOneMore(list, entries, lookup) ==
  LET most == m_capacity + 1
      kept == SubSeq(list, 1, IF Len(list) > most THEN most ELSE Len(list))
      dropped == {entries[n].key : n \in ToSet(list) \ ToSet(kept)}
  IN  /\ m_elements' = kept
      /\ m_lookup' = Restrict(lookup, DOMAIN lookup \ dropped)
      /\ entry' = [n \in Nodes |-> IF n \in ToSet(kept) THEN entries[n] ELSE Freed]

\* shrink_to_fit of the given list: entries are dropped from its end, and the
\* keys they have from the map.
ShrinkToFit(list, entries, lookup) ==
  LET kept == SubSeq(list, 1, IF Len(list) > m_capacity THEN m_capacity ELSE Len(list))
      dropped == {entries[n].key : n \in ToSet(list) \ ToSet(kept)}
  IN  /\ m_elements' = kept
      /\ m_lookup' = Restrict(lookup, DOMAIN lookup \ dropped)
      /\ entry' = [n \in Nodes |-> IF n \in ToSet(kept) THEN entries[n] ELSE Freed]

--------------------------------------------------------------------------------
InsertNew(k, x) ==
  /\ k \notin DOMAIN m_lookup
  /\ \E n \in Free :
       ShrinkToFit(<<n>> \o m_elements,
                   [entry EXCEPT ![n] = [key |-> k, value |-> x]],
                   [j \in DOMAIN m_lookup \cup {k} |-> IF j = k THEN n ELSE m_lookup[j]])
  /\ result' = x

\* The entry is in the list when adding its key to the map throws; it stays
\* there, and nothing is dropped for it.
InsertHalf(k, x) ==
  /\ MayThrow
  /\ k \notin DOMAIN m_lookup
  /\ \E n \in Free :
       /\ m_elements' = <<n>> \o m_elements
       /\ entry' = [entry EXCEPT ![n] = [key |-> k, value |-> x]]
  /\ result' = "exception"
  /\ UNCHANGED m_lookup

InsertExisting(k, x) ==
  /\ k \in DOMAIN m_lookup
  /\ entry' = [entry EXCEPT ![m_lookup[k]].value = x]
  /\ Promote(m_lookup[k])
  /\ result' = x
  /\ UNCHANGED m_lookup

\* Making the entry, or assigning the value, throws before anything changes.
InsertThrows ==
  /\ MayThrow
  /\ result' = "exception"
  /\ UNCHANGED <<m_elements, entry, m_lookup>>

\* Mutant of GetHit: reading a key is not using it.
GetWithoutPromotion(k) ==
  /\ k \in DOMAIN m_lookup
  /\ result' = entry[m_lookup[k]].value
  /\ UNCHANGED <<m_elements, entry, m_lookup>>

\* The key is promoted before its value is copied, which may throw.
GetHit(k) ==
  /\ k \in DOMAIN m_lookup
  /\ Promote(m_lookup[k])
  /\ \/ result' = entry[m_lookup[k]].value
     \/ MayThrow /\ result' = "exception"
  /\ UNCHANGED <<entry, m_lookup>>

GetMiss(k) ==
  /\ k \notin DOMAIN m_lookup
  /\ result' = "nullopt"
  /\ UNCHANGED <<m_elements, entry, m_lookup>>

Next ==
  \/ \E k \in Keys :
       \/ \E x \in Values : InsertNew(k, x) \/ InsertHalf(k, x) \/ InsertExisting(k, x)
       \/ GetHit(k) \/ GetMiss(k)
  \/ InsertThrows

Spec == Init /\ [][Next]_vars

--------------------------------------------------------------------------------
(* Properties *)

\* No iterator dangles: the map leads every key to an entry of that key that is
\* in the list, also after insertions that failed half way.
NoDanglingIterator ==
  \A k \in DOMAIN m_lookup :
    m_lookup[k] \in ToSet(m_elements) /\ entry[m_lookup[k]].key = k

\* The cache answers for no more keys than its capacity, also after insertions
\* that failed half way, whose entries the list keeps.
KeysWithinCapacity == Cardinality(DOMAIN m_lookup) <= m_capacity

\* The entries in the order of the list.
Recent ==
  [i \in 1 .. Len(m_elements) |-> <<entry[m_elements[i]].key, entry[m_elements[i]].value>>]

LRU == INSTANCE LRUMap WITH recent <- Recent, Capacity <- m_capacity

\* Every entry in the list is found by its key.
NoOrphan == \A n \in ToSet(m_elements) : \E k \in DOMAIN m_lookup : m_lookup[k] = n

\* List and map together are a least-recently-used cache, whatever throws, but
\* while the list holds an entry whose key could not be added to the map; once
\* such entries have been evicted it is one again.
ImplementsLRU == LRU!Init /\ [][NoOrphan /\ NoOrphan' => LRU!Next]_(LRU!vars)

================================================================================
