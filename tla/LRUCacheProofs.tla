---------------------------- MODULE LRUCacheProofs ----------------------------
(***************************************************************************)
(* Proofs about LRUCache, for any capacity, keys and values: list and map   *)
(* stay consistent, and the cache is the recency list of LRUMap.           *)
(***************************************************************************)
EXTENDS LRUCache, SequenceTheorems, FiniteSetTheorems, TLAPS

\* A list without duplicates, an entry in each of its nodes, and a map from keys
\* to nodes of the list that hold them.
Consistent(list, entries, lookup) ==
  /\ list \in Seq(Nodes)
  /\ \A i, j \in 1 .. Len(list) : list[i] = list[j] => i = j
  /\ entries = [n \in Nodes |-> entries[n]]
  /\ \A i \in 1 .. Len(list) : entries[list[i]] \in Entries
  /\ DOMAIN lookup \subseteq Keys
  /\ lookup = [k \in DOMAIN lookup |-> lookup[k]]
  /\ \A k \in DOMAIN lookup :
       \E i \in 1 .. Len(list) : lookup[k] = list[i] /\ entries[list[i]].key = k

\* The invariant; an insertion that failed half way leaves an entry in the list
\* that the map does not lead to, so the list may be longer than the map.
Inv ==
  /\ Consistent(m_elements, entry, m_lookup)
  /\ IsFiniteSet(DOMAIN m_lookup)
  /\ KeysWithinCapacity

\* Sequences: their elements, prepending, prefixes, and removal.
LEMMA ToSetByIndex ==
  ASSUME NEW S, NEW s \in Seq(S), NEW e
  PROVE  e \in ToSet(s) <=> \E i \in 1 .. Len(s) : s[i] = e
BY DEF ToSet

LEMMA Prepended ==
  ASSUME NEW S, NEW s \in Seq(S), NEW e \in S
  PROVE  /\ <<e>> \o s \in Seq(S)
         /\ Len(<<e>> \o s) = Len(s) + 1
         /\ (<<e>> \o s)[1] = e
         /\ \A i \in 1 .. Len(s) : (<<e>> \o s)[i + 1] = s[i]
<1> DEFINE t == <<e>>
<1>1. t \in Seq(S) /\ Len(t) = 1 /\ t[1] = e /\ Len(s) \in Nat
  OBVIOUS
<1> HIDE DEF t
<1>2. /\ t \o s \in Seq(S) /\ Len(t \o s) = 1 + Len(s)
      /\ \A i \in 1 .. 1 + Len(s) : (t \o s)[i] = IF i <= 1 THEN t[i] ELSE s[i - 1]
  <2>1. /\ t \o s \in Seq(S) /\ Len(t \o s) = Len(t) + Len(s)
        /\ \A i \in 1 .. Len(t) + Len(s) : (t \o s)[i] = IF i <= Len(t) THEN t[i] ELSE s[i - Len(t)]
    BY <1>1, ConcatProperties, Zenon
  <2> QED
    BY <1>1, <2>1
<1>3. (t \o s)[1] = e
  BY <1>1, <1>2
<1>4. ASSUME NEW i \in 1 .. Len(s) PROVE (t \o s)[i + 1] = s[i]
  <2>1. i + 1 \in 1 .. 1 + Len(s) /\ ~(i + 1 <= 1) /\ (i + 1) - 1 = i
    BY <1>1
  <2> QED
    BY <1>2, <2>1
<1>5. t \o s \in Seq(S) /\ Len(t \o s) = Len(s) + 1
  BY <1>1, <1>2
<1> QED
  BY <1>3, <1>4, <1>5 DEF t

LEMMA Prefix ==
  ASSUME NEW S, NEW s \in Seq(S), NEW m \in 0 .. Len(s)
  PROVE  /\ SubSeq(s, 1, m) \in Seq(S)
         /\ Len(SubSeq(s, 1, m)) = m
         /\ \A i \in 1 .. m : SubSeq(s, 1, m)[i] = s[i]
<1>1. \A i \in 1 .. m : s[i] \in S
  BY ElementOfSeq
<1>2. /\ SubSeq(s, 1, m) \in Seq(S) /\ Len(SubSeq(s, 1, m)) = IF 1 <= m THEN m - 1 + 1 ELSE 0
      /\ \A i \in 1 .. m - 1 + 1 : SubSeq(s, 1, m)[i] = s[1 + i - 1]
  BY <1>1, SubSeqProperties
<1> QED
  BY <1>2

LEMMA Removed ==
  ASSUME NEW S, NEW s \in Seq(S), NEW i \in 1 .. Len(s)
  PROVE  /\ RemoveAt(s, i) \in Seq(S)
         /\ Len(RemoveAt(s, i)) = Len(s) - 1
         /\ \A j \in 1 .. Len(s) - 1 : RemoveAt(s, i)[j] = IF j < i THEN s[j] ELSE s[j + 1]
<1> DEFINE front == SubSeq(s, 1, i - 1)
           back == SubSeq(s, i + 1, Len(s))
<1>1. Len(s) \in Nat /\ i - 1 \in Nat /\ i + 1 \in Nat /\ i \in Nat /\ i <= Len(s) /\ 1 <= i
  OBVIOUS
<1>2. front \in Seq(S) /\ Len(front) = i - 1 /\ \A j \in 1 .. i - 1 : front[j] = s[j]
  BY <1>1, Prefix
<1>3. /\ back \in Seq(S)
      /\ Len(back) = IF i + 1 <= Len(s) THEN Len(s) - (i + 1) + 1 ELSE 0
      /\ \A j \in 1 .. Len(s) - (i + 1) + 1 : back[j] = s[(i + 1) + j - 1]
  <2>1. \A j \in i + 1 .. Len(s) : s[j] \in S
    BY <1>1, ElementOfSeq
  <2> QED
    BY <1>1, <2>1, SubSeqProperties
<1>4. Len(back) = Len(s) - i /\ \A j \in 1 .. Len(s) - i : back[j] = s[i + j]
  BY <1>1, <1>3
<1> HIDE DEF front, back
<1>5. /\ front \o back \in Seq(S) /\ Len(front \o back) = (i - 1) + (Len(s) - i)
      /\ \A j \in 1 .. (i - 1) + (Len(s) - i) :
           (front \o back)[j] = IF j <= i - 1 THEN front[j] ELSE back[j - (i - 1)]
  <2>1. /\ front \o back \in Seq(S) /\ Len(front \o back) = Len(front) + Len(back)
        /\ \A j \in 1 .. Len(front) + Len(back) :
             (front \o back)[j] = IF j <= Len(front) THEN front[j] ELSE back[j - Len(front)]
    BY <1>2, <1>3, ConcatProperties, Zenon
  <2> QED
    BY <1>2, <1>4, <2>1
<1>6. (i - 1) + (Len(s) - i) = Len(s) - 1
  BY <1>1
<1>7. ASSUME NEW j \in 1 .. Len(s) - 1
      PROVE  (front \o back)[j] = IF j < i THEN s[j] ELSE s[j + 1]
  <2>1. CASE j < i
    <3>1. j \in 1 .. i - 1 /\ j <= i - 1
      BY <1>1, <2>1
    <3> QED
      BY <1>2, <1>5, <1>6, <2>1, <3>1
  <2>2. CASE ~(j < i)
    <3>1. j - (i - 1) \in 1 .. Len(s) - i /\ ~(j <= i - 1) /\ i + (j - (i - 1)) = j + 1
      BY <1>1, <2>2
    <3> QED
      BY <1>4, <1>5, <1>6, <2>2, <3>1
  <2> QED
    BY <2>1, <2>2
<1> QED
  BY <1>5, <1>6, <1>7 DEF RemoveAt, front, back

\* What splice does: the entry at i comes first, those before it move one place back.
LEMMA Spliced ==
  ASSUME NEW S, NEW s \in Seq(S), NEW i \in 1 .. Len(s)
  PROVE  /\ <<s[i]>> \o RemoveAt(s, i) \in Seq(S)
         /\ Len(<<s[i]>> \o RemoveAt(s, i)) = Len(s)
         /\ \A j \in 1 .. Len(s) :
              (<<s[i]>> \o RemoveAt(s, i))[j] =
                IF j = 1 THEN s[i] ELSE IF j <= i THEN s[j - 1] ELSE s[j]
<1> DEFINE r == RemoveAt(s, i)
<1>1. s[i] \in S /\ Len(s) \in Nat
  BY ElementOfSeq
<1>2. r \in Seq(S) /\ Len(r) = Len(s) - 1
      /\ \A j \in 1 .. Len(s) - 1 : r[j] = IF j < i THEN s[j] ELSE s[j + 1]
  BY Removed
<1> HIDE DEF r
<1>3. /\ <<s[i]>> \o r \in Seq(S) /\ Len(<<s[i]>> \o r) = Len(r) + 1 /\ (<<s[i]>> \o r)[1] = s[i]
      /\ \A j \in 1 .. Len(r) : (<<s[i]>> \o r)[j + 1] = r[j]
  BY <1>1, <1>2, Prepended
<1>4. ASSUME NEW j \in 1 .. Len(s), j # 1
      PROVE  (<<s[i]>> \o r)[j] = IF j <= i THEN s[j - 1] ELSE s[j]
  <2>1. j - 1 \in 1 .. Len(s) - 1 /\ (j - 1) + 1 = j /\ (j - 1 < i <=> j <= i)
    BY <1>1, <1>4
  <2>2. (<<s[i]>> \o r)[(j - 1) + 1] = r[j - 1]
    BY <1>2, <1>3, <2>1
  <2> QED
    BY <1>2, <2>1, <2>2
<1>5. Len(<<s[i]>> \o r) = Len(s)
  BY <1>1, <1>2, <1>3
<1> QED
  BY <1>3, <1>4, <1>5 DEF r

--------------------------------------------------------------------------------
\* The keys of a map into a list are no more than its entries.
LEMMA KeysNoMoreThanEntries ==
  ASSUME NEW list, NEW entries, NEW lookup, Consistent(list, entries, lookup)
  PROVE  IsFiniteSet(DOMAIN lookup) /\ Cardinality(DOMAIN lookup) <= Len(list)
<1> DEFINE D == DOMAIN lookup
           place == [k \in D |->
               CHOOSE i \in 1 .. Len(list) : lookup[k] = list[i] /\ entries[list[i]].key = k]
<1>1. Len(list) \in Nat
  BY DEF Consistent
<1>2. ASSUME NEW k \in D PROVE place[k] \in 1 .. Len(list) /\ entries[list[place[k]]].key = k
  BY DEF Consistent
<1>3. place \in [D -> 1 .. Len(list)]
  BY <1>2
<1> HIDE DEF place
<1>4. \A a, b \in D : place[a] = place[b] => a = b
  BY <1>2
<1>5. place \in Injection(D, 1 .. Len(list))
  BY <1>3, <1>4 DEF Injection, IsInjective
<1>6. IsFiniteSet(1 .. Len(list)) /\ Cardinality(1 .. Len(list)) = Len(list)
  <2>1. 1 \in Int /\ Len(list) \in Int
    BY <1>1
  <2>2. /\ IsFiniteSet(1 .. Len(list))
        /\ Cardinality(1 .. Len(list)) = IF 1 > Len(list) THEN 0 ELSE Len(list) - 1 + 1
    BY <2>1, FS_Interval, Zenon
  <2> QED
    BY <1>1, <2>2
<1> HIDE DEF D
<1>7. IsFiniteSet(D) /\ Cardinality(D) <= Cardinality(1 .. Len(list))
  BY <1>5, <1>6, FS_Injection
<1> QED
  BY <1>6, <1>7 DEF D

\* shrink_to_fit leaves list and map consistent, and within the capacity.
LEMMA ShrinkInv ==
  ASSUME NEW list, NEW entries, NEW lookup, Consistent(list, entries, lookup),
         ShrinkToFit(list, entries, lookup)
  PROVE  Inv'
<1> DEFINE m == IF Len(list) > m_capacity THEN m_capacity ELSE Len(list)
           kept == SubSeq(list, 1, m)
           dropped == {entries[n].key : n \in ToSet(list) \ ToSet(kept)}
           left == DOMAIN lookup \ dropped
<1>1. list \in Seq(Nodes) /\ Len(list) \in Nat /\ m_capacity \in Nat \ {0}
  BY CacheAssumption DEF Consistent
<1>2. m \in 0 .. Len(list) /\ m <= m_capacity
  BY <1>1
<1>3. /\ m_elements' = kept
      /\ m_lookup' = [k \in left |-> lookup[k]]
      /\ entry' = [n \in Nodes |-> IF n \in ToSet(kept) THEN entries[n] ELSE Freed]
  BY DEF ShrinkToFit, Restrict
<1> HIDE DEF m
<1>4. kept \in Seq(Nodes) /\ Len(kept) = m /\ \A i \in 1 .. m : kept[i] = list[i]
  BY <1>1, <1>2, Prefix
<1>5. \A n : n \in ToSet(list) <=> \E i \in 1 .. Len(list) : list[i] = n
  BY <1>1, ToSetByIndex
<1> HIDE DEF kept
<1>6. \A n : n \in ToSet(kept) <=> \E i \in 1 .. m : kept[i] = n
  BY <1>4, ToSetByIndex
<1>7. \A i \in 1 .. m : i \in 1 .. Len(list)
  BY <1>1, <1>2
<1>8. ASSUME NEW i \in 1 .. m
      PROVE  kept[i] \in Nodes /\ entry'[kept[i]] = entries[list[i]] /\ entries[list[i]] \in Entries
  <2>1. kept[i] \in Nodes /\ kept[i] \in ToSet(kept)
    BY <1>4, <1>6, ElementOfSeq
  <2> QED
    BY <1>3, <1>4, <1>7, <2>1 DEF Consistent
<1>9. ASSUME NEW k \in left
      PROVE  \E i \in 1 .. m : lookup[k] = kept[i] /\ entries[list[i]].key = k
  <2>1. PICK i \in 1 .. Len(list) : lookup[k] = list[i] /\ entries[list[i]].key = k
    BY DEF Consistent
  <2>2. list[i] \in ToSet(kept)
    <3> SUFFICES ASSUME list[i] \notin ToSet(kept) PROVE FALSE
      OBVIOUS
    <3>1. list[i] \in ToSet(list)
      BY <1>5
    <3>2. k \in dropped
      BY <2>1, <3>1
    <3> QED
      BY <3>2
  <2>3. PICK j \in 1 .. m : kept[j] = list[i]
    BY <1>6, <2>2
  <2>4. list[j] = list[i]
    BY <1>4, <2>3
  <2> QED
    BY <2>1, <2>3, <2>4
<1> HIDE DEF left
<1>10. Consistent(kept, entry', m_lookup')
  <2>1. \A i, j \in 1 .. m : kept[i] = kept[j] => i = j
    BY <1>4, <1>7 DEF Consistent
  <2>2. entry' = [n \in Nodes |-> entry'[n]]
    BY <1>3
  <2>3. \A i \in 1 .. m : entry'[kept[i]] \in Entries
    BY <1>8
  <2>4. DOMAIN m_lookup' = left /\ m_lookup' = [k \in DOMAIN m_lookup' |-> m_lookup'[k]]
    BY <1>3
  <2>5. DOMAIN m_lookup' \subseteq Keys
    BY <2>4 DEF Consistent, left
  <2>6. \A k \in DOMAIN m_lookup' :
          \E i \in 1 .. m : m_lookup'[k] = kept[i] /\ entry'[kept[i]].key = k
    BY <1>3, <1>8, <1>9, <2>4
  <2> QED
    BY <1>4, <2>1, <2>2, <2>3, <2>4, <2>5, <2>6 DEF Consistent
<1>11. /\ IsFiniteSet(DOMAIN m_lookup') /\ Cardinality(DOMAIN m_lookup') <= m
  BY <1>4, <1>10, KeysNoMoreThanEntries
<1>12. Cardinality(DOMAIN m_lookup') \in Nat
  BY <1>11, FS_CardinalityType
<1>13. Cardinality(DOMAIN m_lookup') <= m_capacity
  BY <1>1, <1>2, <1>11, <1>12
<1> QED
  BY <1>3, <1>10, <1>11, <1>13 DEF Inv, KeysWithinCapacity

\* A new entry in front of the list, not yet known to the map.
LEMMA EntryInFront ==
  ASSUME Inv, NEW k \in Keys, NEW x \in Values, NEW n \in Free
  PROVE  LET list == <<n>> \o m_elements
             entries == [entry EXCEPT ![n] = [key |-> k, value |-> x]]
         IN  /\ Consistent(list, entries, m_lookup)
             /\ Len(list) = Len(m_elements) + 1
             /\ list[1] = n
             /\ \A i \in 1 .. Len(m_elements) : list[i + 1] = m_elements[i]
             /\ entries[n] = [key |-> k, value |-> x]
             /\ \A i \in 1 .. Len(m_elements) : entries[m_elements[i]] = entry[m_elements[i]]
<1> DEFINE list == <<n>> \o m_elements
           entries == [entry EXCEPT ![n] = [key |-> k, value |-> x]]
<1>1. m_elements \in Seq(Nodes) /\ Len(m_elements) \in Nat /\ n \in Nodes
  BY DEF Inv, Consistent, Free
<1>2. /\ list \in Seq(Nodes) /\ Len(list) = Len(m_elements) + 1 /\ list[1] = n
      /\ \A i \in 1 .. Len(m_elements) : list[i + 1] = m_elements[i]
  BY <1>1, Prepended
<1> HIDE DEF list
<1>3. \A i \in 1 .. Len(m_elements) : m_elements[i] # n /\ m_elements[i] \in Nodes
  BY <1>1, ToSetByIndex, ElementOfSeq DEF Free
<1>4. ASSUME NEW i \in 1 .. Len(list)
      PROVE  i = 1 \/ (i # 1 /\ i - 1 \in 1 .. Len(m_elements) /\ list[i] = m_elements[i - 1])
  <2>1. i # 1 => i - 1 \in 1 .. Len(m_elements) /\ (i - 1) + 1 = i
    BY <1>1, <1>2
  <2> QED
    BY <1>2, <2>1
<1>5. \A i, j \in 1 .. Len(list) : list[i] = list[j] => i = j
  <2> SUFFICES ASSUME NEW i \in 1 .. Len(list), NEW j \in 1 .. Len(list), list[i] = list[j]
               PROVE  i = j
    OBVIOUS
  <2>1. CASE i = 1 \/ j = 1
    BY <1>2, <1>3, <1>4, <2>1
  <2>2. CASE i # 1 /\ j # 1
    <3>1. m_elements[i - 1] = m_elements[j - 1]
      BY <1>4, <2>2
    <3>2. i - 1 = j - 1
      BY <1>4, <2>2, <3>1 DEF Inv, Consistent
    <3> QED
      BY <3>2
  <2> QED
    BY <2>1, <2>2
<1>6. /\ entries[n] = [key |-> k, value |-> x]
      /\ \A i \in 1 .. Len(m_elements) : entries[m_elements[i]] = entry[m_elements[i]]
      /\ entries = [o \in Nodes |-> entries[o]]
  BY <1>1, <1>3 DEF Inv, Consistent
<1> HIDE DEF entries
<1>7. ASSUME NEW i \in 1 .. Len(list) PROVE entries[list[i]] \in Entries
  <2>1. CASE i = 1
    BY <1>2, <1>6, <2>1 DEF Entries
  <2>2. CASE i # 1
    <3>1. i - 1 \in 1 .. Len(m_elements) /\ list[i] = m_elements[i - 1]
      BY <1>4, <2>2
    <3>2. entry[m_elements[i - 1]] \in Entries
      BY <3>1 DEF Inv, Consistent
    <3> QED
      BY <1>6, <3>1, <3>2
  <2> QED
    BY <2>1, <2>2
<1>8. ASSUME NEW j \in DOMAIN m_lookup
      PROVE  \E i \in 1 .. Len(list) : m_lookup[j] = list[i] /\ entries[list[i]].key = j
  <2>1. PICK i \in 1 .. Len(m_elements) :
          m_lookup[j] = m_elements[i] /\ entry[m_elements[i]].key = j
    BY DEF Inv, Consistent
  <2>2. i + 1 \in 1 .. Len(list) /\ list[i + 1] = m_elements[i]
    BY <1>1, <1>2
  <2> QED
    BY <1>6, <2>1, <2>2
<1>9. Consistent(list, entries, m_lookup)
  BY <1>2, <1>5, <1>6, <1>7, <1>8 DEF Consistent, Inv
<1> QED
  BY <1>2, <1>6, <1>9 DEF list, entries

\* Every operation preserves the invariant.
LEMMA InsertNewInv ==
  ASSUME Inv, NEW k \in Keys, NEW x \in Values, InsertNew(k, x)
  PROVE  Inv'
<1>1. PICK n \in Free :
        ShrinkToFit(<<n>> \o m_elements,
                    [entry EXCEPT ![n] = [key |-> k, value |-> x]],
                    [j \in DOMAIN m_lookup \cup {k} |-> IF j = k THEN n ELSE m_lookup[j]])
  BY DEF InsertNew
<1> DEFINE list == <<n>> \o m_elements
           entries == [entry EXCEPT ![n] = [key |-> k, value |-> x]]
           lookup == [j \in DOMAIN m_lookup \cup {k} |-> IF j = k THEN n ELSE m_lookup[j]]
<1>2. /\ Consistent(list, entries, m_lookup) /\ Len(list) = Len(m_elements) + 1
      /\ list[1] = n /\ entries[n] = [key |-> k, value |-> x]
  BY EntryInFront
<1>3. Len(m_elements) \in Nat
  BY DEF Inv, Consistent
<1>4. DOMAIN lookup = DOMAIN m_lookup \cup {k} /\ lookup = [j \in DOMAIN lookup |-> lookup[j]]
      /\ lookup[k] = n /\ \A j \in DOMAIN m_lookup : j # k => lookup[j] = m_lookup[j]
  OBVIOUS
<1> HIDE DEF list, entries, lookup
<1>5. \A j \in DOMAIN lookup :
        \E i \in 1 .. Len(list) : lookup[j] = list[i] /\ entries[list[i]].key = j
  <2>1. 1 \in 1 .. Len(list) /\ entries[list[1]].key = k
    BY <1>2, <1>3
  <2> QED
    BY <1>2, <1>4, <2>1 DEF Consistent
<1>6. Consistent(list, entries, lookup)
  BY <1>2, <1>4, <1>5 DEF Consistent
<1> QED
  BY <1>1, <1>6, ShrinkInv DEF list, entries, lookup

LEMMA PromoteInv ==
  ASSUME Inv, NEW n, Promote(n), UNCHANGED m_lookup,
         entry' = [o \in Nodes |-> entry'[o]],
         \A o \in ToSet(m_elements) : entry'[o] \in Entries /\ entry'[o].key = entry[o].key
  PROVE  Inv'
<1>1. m_elements \in Seq(Nodes) /\ Len(m_elements) \in Nat
  BY DEF Inv, Consistent
<1>2. PICK i \in 1 .. Len(m_elements) :
        m_elements[i] = n /\ m_elements' = <<m_elements[i]>> \o RemoveAt(m_elements, i)
  <2>1. DOMAIN m_elements = 1 .. Len(m_elements)
    BY <1>1
  <2> QED
    BY <2>1, Zenon DEF Promote
<1>3. /\ m_elements' \in Seq(Nodes) /\ Len(m_elements') = Len(m_elements)
      /\ \A j \in 1 .. Len(m_elements) :
           m_elements'[j] = IF j = 1 THEN m_elements[i]
                            ELSE IF j <= i THEN m_elements[j - 1] ELSE m_elements[j]
  BY <1>1, <1>2, Spliced
<1> DEFINE from(j) == IF j = 1 THEN i ELSE IF j <= i THEN j - 1 ELSE j
<1>4. \A j \in 1 .. Len(m_elements) :
        from(j) \in 1 .. Len(m_elements) /\ m_elements'[j] = m_elements[from(j)]
  BY <1>1, <1>3
<1>5. \A j, l \in 1 .. Len(m_elements) : from(j) = from(l) => j = l
  BY <1>1
<1>6. \A l \in 1 .. Len(m_elements) : \E j \in 1 .. Len(m_elements) : from(j) = l
  <2> TAKE l \in 1 .. Len(m_elements)
  <2>1. CASE l = i
    <3>1. 1 \in 1 .. Len(m_elements) /\ from(1) = l
      BY <1>1, <2>1
    <3> QED
      BY <3>1
  <2>2. CASE l < i
    <3>1. l + 1 \in 1 .. Len(m_elements) /\ from(l + 1) = l
      BY <1>1, <2>2
    <3> QED
      BY <3>1
  <2>3. CASE l > i
    <3>1. from(l) = l
      BY <1>1, <2>3
    <3> QED
      BY <3>1
  <2> QED
    BY <1>1, <2>1, <2>2, <2>3
<1> HIDE DEF from
<1>7. \A j, l \in 1 .. Len(m_elements) : m_elements'[j] = m_elements'[l] => j = l
  BY <1>4, <1>5 DEF Inv, Consistent
<1>8. \A j \in 1 .. Len(m_elements) : m_elements[j] \in ToSet(m_elements)
  BY <1>1, ToSetByIndex
<1>9. \A j \in 1 .. Len(m_elements) : entry'[m_elements'[j]] \in Entries
  BY <1>4, <1>8
<1>10. ASSUME NEW k \in DOMAIN m_lookup
       PROVE  \E j \in 1 .. Len(m_elements) :
                m_lookup[k] = m_elements'[j] /\ entry'[m_elements'[j]].key = k
  <2>1. PICK l \in 1 .. Len(m_elements) :
          m_lookup[k] = m_elements[l] /\ entry[m_elements[l]].key = k
    BY DEF Inv, Consistent
  <2>2. PICK j \in 1 .. Len(m_elements) : from(j) = l
    BY <1>6
  <2> QED
    BY <1>4, <1>8, <2>1, <2>2
<1>11. Consistent(m_elements', entry', m_lookup')
  BY <1>3, <1>7, <1>9, <1>10 DEF Consistent, Inv
<1> QED
  BY <1>11 DEF Inv, KeysWithinCapacity

LEMMA InitInv == Init => Inv
<1> SUFFICES ASSUME Init PROVE Inv
  OBVIOUS
<1>1. DOMAIN m_lookup = {} /\ m_lookup = [k \in DOMAIN m_lookup |-> m_lookup[k]]
  BY DEF Init
<1>2. Consistent(m_elements, entry, m_lookup)
  BY <1>1 DEF Init, Consistent
<1>3. IsFiniteSet(DOMAIN m_lookup) /\ Cardinality(DOMAIN m_lookup) = 0
  BY <1>1, FS_EmptySet
<1> QED
  BY <1>2, <1>3, CacheAssumption DEF Inv, KeysWithinCapacity

LEMMA NextInv == Inv /\ [Next]_vars => Inv'
<1> SUFFICES ASSUME Inv, [Next]_vars PROVE Inv'
  OBVIOUS
<1>1. entry = [n \in Nodes |-> entry[n]] /\ m_elements \in Seq(Nodes)
  BY DEF Inv, Consistent
<1>2. \A n \in ToSet(m_elements) : n \in Nodes /\ entry[n] \in Entries
  BY <1>1, ToSetByIndex, ElementOfSeq DEF Inv, Consistent
<1>3. CASE UNCHANGED <<m_elements, entry, m_lookup>>
  BY <1>3 DEF Inv, Consistent, KeysWithinCapacity
<1>4. ASSUME NEW k \in Keys, NEW x \in Values, InsertHalf(k, x) PROVE Inv'
  <2>1. PICK n \in Free :
          /\ m_elements' = <<n>> \o m_elements
          /\ entry' = [entry EXCEPT ![n] = [key |-> k, value |-> x]]
    BY <1>4 DEF InsertHalf
  <2>2. UNCHANGED m_lookup
    BY <1>4 DEF InsertHalf
  <2>3. Consistent(m_elements', entry', m_lookup')
    BY <2>1, <2>2, EntryInFront
  <2> QED
    BY <2>2, <2>3 DEF Inv, KeysWithinCapacity
<1>5. ASSUME NEW k \in Keys, NEW x \in Values, InsertExisting(k, x) PROVE Inv'
  <2>1. /\ k \in DOMAIN m_lookup /\ Promote(m_lookup[k]) /\ UNCHANGED m_lookup
        /\ entry' = [entry EXCEPT ![m_lookup[k]].value = x]
    BY <1>5 DEF InsertExisting
  <2>2. m_lookup[k] \in Nodes
    <3>1. PICK i \in 1 .. Len(m_elements) : m_lookup[k] = m_elements[i]
      BY <2>1 DEF Inv, Consistent
    <3> QED
      BY <1>1, <3>1, ElementOfSeq
  <2>3. entry' = [n \in Nodes |->
                     IF n = m_lookup[k] THEN [entry[n] EXCEPT !.value = x] ELSE entry[n]]
    BY <1>1, <2>1
  <2>4. \A n \in ToSet(m_elements) : entry'[n] \in Entries /\ entry'[n].key = entry[n].key
    BY <1>2, <2>3 DEF Entries
  <2>5. entry' = [n \in Nodes |-> entry'[n]]
    BY <2>3
  <2> QED
    BY <2>1, <2>4, <2>5, PromoteInv
<1>6. ASSUME NEW k \in Keys, GetHit(k) PROVE Inv'
  <2>1. Promote(m_lookup[k]) /\ UNCHANGED <<entry, m_lookup>>
    BY <1>6 DEF GetHit
  <2> QED
    BY <1>1, <1>2, <2>1, PromoteInv
<1>7. CASE UNCHANGED vars
  BY <1>3, <1>7 DEF vars
<1>8. CASE Next
  BY <1>3, <1>4, <1>5, <1>6, <1>8, InsertNewInv DEF Next, GetMiss, InsertThrows
<1> QED
  BY <1>7, <1>8

\* However insertions fail half way, the map leads from every key to an entry of that
\* key in the list: no iterator dangles.
THEOREM LookupLeadsToEntries == Spec => []NoDanglingIterator
<1>1. Inv => NoDanglingIterator
  <2> SUFFICES ASSUME Inv, NEW k \in DOMAIN m_lookup
               PROVE  m_lookup[k] \in ToSet(m_elements) /\ entry[m_lookup[k]].key = k
    BY DEF NoDanglingIterator
  <2>1. PICK i \in 1 .. Len(m_elements) :
          m_lookup[k] = m_elements[i] /\ entry[m_elements[i]].key = k
    BY DEF Inv, Consistent
  <2> QED
    BY <2>1, ToSetByIndex DEF Inv, Consistent
<1> QED
  BY <1>1, InitInv, NextInv, PTL DEF Spec

\* For every capacity, the map has no more keys than m_capacity.
THEOREM CacheKeepsToCapacity == Spec => []KeysWithinCapacity
<1>1. Inv => KeysWithinCapacity
  BY DEF Inv
<1> QED
  BY <1>1, InitInv, NextInv, PTL DEF Spec

--------------------------------------------------------------------------------
(* The cache is the recency list. *)

\* What Recent is, by its entries.
Pair(n) == <<entry[n].key, entry[n].value>>

RecentAre ==
  /\ Recent \in Seq(Keys \X Values)
  /\ Len(Recent) = Len(m_elements)
  /\ \A i \in 1 .. Len(m_elements) : Recent[i] = Pair(m_elements[i])

LEMMA RecentOf == Inv => RecentAre
<1> SUFFICES ASSUME Inv PROVE RecentAre
  OBVIOUS
<1>1. Len(m_elements) \in Nat
  BY DEF Inv, Consistent
<1>2. ASSUME NEW i \in 1 .. Len(m_elements)
      PROVE  <<entry[m_elements[i]].key, entry[m_elements[i]].value>> \in Keys \X Values
  <2>1. entry[m_elements[i]] \in Entries
    BY DEF Inv, Consistent
  <2> QED
    BY <2>1 DEF Entries
<1> QED
  BY <1>1, <1>2 DEF RecentAre, Recent, Pair

LEMMA RecentAfter ==
  ASSUME Inv'
  PROVE  /\ Recent' \in Seq(Keys \X Values)
         /\ Len(Recent') = Len(m_elements')
         /\ \A i \in 1 .. Len(m_elements') :
              Recent'[i] = <<entry'[m_elements'[i]].key, entry'[m_elements'[i]].value>>
<1>1. RecentAre'
  BY RecentOf, PTL
<1> QED
  BY <1>1 DEF RecentAre, Pair

\* When every entry is found by its key, the list holds one entry for each key of the map.
LEMMA NodesAreKeys ==
  ASSUME Inv, NoOrphan
  PROVE  /\ \A i \in 1 .. Len(m_elements) :
              /\ entry[m_elements[i]].key \in DOMAIN m_lookup
              /\ m_lookup[entry[m_elements[i]].key] = m_elements[i]
         /\ Len(m_elements) <= m_capacity
<1>1. m_elements \in Seq(Nodes) /\ Len(m_elements) \in Nat
  BY DEF Inv, Consistent
<1>2. ASSUME NEW i \in 1 .. Len(m_elements)
      PROVE  /\ entry[m_elements[i]].key \in DOMAIN m_lookup
             /\ m_lookup[entry[m_elements[i]].key] = m_elements[i]
  <2>1. PICK k \in DOMAIN m_lookup : m_lookup[k] = m_elements[i]
    BY <1>1, ToSetByIndex DEF NoOrphan
  <2>2. entry[m_elements[i]].key = k
    BY <2>1 DEF Inv, Consistent
  <2> QED
    BY <2>1, <2>2
<1> DEFINE D == DOMAIN m_lookup
           f == [i \in 1 .. Len(m_elements) |-> entry[m_elements[i]].key]
<1>3. f \in [1 .. Len(m_elements) -> D]
  BY <1>2
<1>4. ASSUME NEW i \in 1 .. Len(m_elements), NEW j \in 1 .. Len(m_elements), f[i] = f[j]
      PROVE  i = j
  <2>1. m_elements[i] = m_elements[j]
    BY <1>2, <1>4
  <2> QED
    BY <2>1 DEF Inv, Consistent
<1> HIDE DEF f
<1>5. f \in Injection(1 .. Len(m_elements), D)
  BY <1>3, <1>4 DEF Injection, IsInjective
<1>6. IsFiniteSet(D) /\ Cardinality(D) <= m_capacity
  BY DEF Inv, KeysWithinCapacity
<1> HIDE DEF D
<1>7. /\ IsFiniteSet(1 .. Len(m_elements))
      /\ Cardinality(1 .. Len(m_elements)) <= Cardinality(D)
  BY <1>5, <1>6, FS_Injection
<1>8. Cardinality(1 .. Len(m_elements)) = Len(m_elements)
  <2>1. 1 \in Int /\ Len(m_elements) \in Int
    BY <1>1
  <2>2. Cardinality(1 .. Len(m_elements)) =
          IF 1 > Len(m_elements) THEN 0 ELSE Len(m_elements) - 1 + 1
    BY <2>1, FS_Interval, Zenon
  <2> QED
    BY <1>1, <2>2
<1>9. Cardinality(D) \in Nat
  BY <1>6, FS_CardinalityType
<1> QED
  BY <1>1, <1>2, <1>6, <1>7, <1>8, <1>9, CacheAssumption

LEMMA KnownKeys ==
  ASSUME Inv, NoOrphan, NEW k
  PROVE  /\ LRU!Knows(k) <=> k \in DOMAIN m_lookup
         /\ k \in DOMAIN m_lookup =>
              \E i \in 1 .. Len(m_elements) :
                /\ m_elements[i] = m_lookup[k]
                /\ Recent[i][1] = k
                /\ \A j \in DOMAIN Recent : Recent[j][1] = k => j = i
<1>1. /\ Recent \in Seq(Keys \X Values) /\ Len(Recent) = Len(m_elements)
      /\ \A i \in 1 .. Len(m_elements) :
           Recent[i] = <<entry[m_elements[i]].key, entry[m_elements[i]].value>>
  BY RecentOf DEF RecentAre, Pair
<1>2. DOMAIN Recent = 1 .. Len(m_elements)
  BY <1>1
<1>3. \A i \in 1 .. Len(m_elements) : Recent[i][1] = entry[m_elements[i]].key
  BY <1>1
<1>4. ASSUME LRU!Knows(k) PROVE k \in DOMAIN m_lookup
  <2>1. PICK p \in ToSet(Recent) : p[1] = k
    BY <1>4 DEF LRU!Knows, LRU!ToSet, ToSet
  <2>2. PICK i \in 1 .. Len(Recent) : Recent[i] = p
    BY <1>1, <2>1, ToSetByIndex
  <2> QED
    BY <1>1, <1>3, <2>1, <2>2, NodesAreKeys
<1>5. ASSUME k \in DOMAIN m_lookup
      PROVE  /\ LRU!Knows(k)
             /\ \E i \in 1 .. Len(m_elements) :
                  /\ m_elements[i] = m_lookup[k]
                  /\ Recent[i][1] = k
                  /\ \A j \in DOMAIN Recent : Recent[j][1] = k => j = i
  <2>1. PICK i \in 1 .. Len(m_elements) :
          m_lookup[k] = m_elements[i] /\ entry[m_elements[i]].key = k
    BY <1>5 DEF Inv, Consistent
  <2>2. Recent[i][1] = k
    BY <1>3, <2>1
  <2>3. ASSUME NEW j \in DOMAIN Recent, Recent[j][1] = k PROVE j = i
    <3>1. entry[m_elements[j]].key = k /\ j \in 1 .. Len(m_elements)
      BY <1>2, <1>3, <2>3
    <3>2. m_elements[j] = m_elements[i]
      BY <2>1, <3>1, NodesAreKeys
    <3> QED
      BY <3>1, <3>2 DEF Inv, Consistent
  <2>4. Recent[i] \in ToSet(Recent)
    BY <1>1, ToSetByIndex
  <2> QED
    BY <2>1, <2>2, <2>3, <2>4 DEF LRU!Knows, LRU!ToSet, ToSet
<1> QED
  BY <1>4, <1>5

\* The whole of a sequence is its own prefix.
LEMMA WholePrefix ==
  ASSUME NEW S, NEW s \in Seq(S)
  PROVE  SubSeq(s, 1, Len(s)) = s
<1>1. Len(s) \in 0 .. Len(s)
  OBVIOUS
<1> QED
  BY <1>1, Prefix, SeqEqual

\* Promoting the entry of a key, which then has the value x, is using the key.
LEMMA PromotionUses ==
  ASSUME Inv, Inv', NoOrphan, NEW k \in DOMAIN m_lookup, NEW x \in Values,
         Promote(m_lookup[k]),
         \A n \in ToSet(m_elements) :
           /\ entry'[n].key = entry[n].key
           /\ entry'[n].value = IF n = m_lookup[k] THEN x ELSE entry[n].value
  PROVE  LRU!Use(k, x)
<1> DEFINE P == Keys \X Values
<1>1. m_elements \in Seq(Nodes) /\ Len(m_elements) \in Nat
  BY DEF Inv, Consistent
<1>2. /\ Recent \in Seq(P) /\ Len(Recent) = Len(m_elements)
      /\ \A j \in 1 .. Len(m_elements) :
           Recent[j] = <<entry[m_elements[j]].key, entry[m_elements[j]].value>>
  BY RecentOf DEF RecentAre, Pair
<1>3. PICK i \in 1 .. Len(m_elements) :
        m_elements[i] = m_lookup[k] /\ m_elements' = <<m_elements[i]>> \o RemoveAt(m_elements, i)
  <2>1. DOMAIN m_elements = 1 .. Len(m_elements)
    BY <1>1
  <2> QED
    BY <2>1, Zenon DEF Promote
<1>4. /\ Len(m_elements') = Len(m_elements)
      /\ \A j \in 1 .. Len(m_elements) :
           m_elements'[j] = IF j = 1 THEN m_elements[i]
                            ELSE IF j <= i THEN m_elements[j - 1] ELSE m_elements[j]
  BY <1>1, <1>3, Spliced
<1>5. Recent[i][1] = k /\ \A j \in DOMAIN Recent : Recent[j][1] = k => j = i
  <2>1. PICK l \in 1 .. Len(m_elements) :
          /\ m_elements[l] = m_lookup[k]
          /\ Recent[l][1] = k
          /\ \A j \in DOMAIN Recent : Recent[j][1] = k => j = l
    BY KnownKeys
  <2>2. l = i
    BY <1>3, <2>1 DEF Inv, Consistent
  <2> QED
    BY <2>1, <2>2
<1>6. i \in 1 .. Len(Recent) /\ DOMAIN Recent = 1 .. Len(Recent)
  BY <1>2
<1>7. (CHOOSE j \in DOMAIN Recent : Recent[j][1] = k) = i
  <2> DEFINE Is(j) == j \in DOMAIN Recent /\ Recent[j][1] = k
  <2>1. \A j : Is(j) <=> j = i
    BY <1>5, <1>6
  <2>2. (CHOOSE j : Is(j)) = i
    <3> HIDE DEF Is
    <3> QED
      BY <2>1
  <2> QED
    BY <2>2
<1>8. LRU!Others(k) = RemoveAt(Recent, i)
  BY <1>7, KnownKeys DEF LRU!Others, LRU!RemoveAt, RemoveAt
<1> DEFINE r == RemoveAt(Recent, i)
           pairs == <<<<k, x>>>> \o r
<1>9. /\ r \in Seq(P) /\ Len(r) = Len(m_elements) - 1
      /\ \A j \in 1 .. Len(m_elements) - 1 : r[j] = IF j < i THEN Recent[j] ELSE Recent[j + 1]
  BY <1>2, <1>6, Removed
<1>10. <<k, x>> \in P
  BY DEF Inv, Consistent
<1> HIDE DEF r, P
<1>11. /\ pairs \in Seq(P) /\ Len(pairs) = Len(r) + 1 /\ pairs[1] = <<k, x>>
       /\ \A j \in 1 .. Len(r) : pairs[j + 1] = r[j]
  BY <1>9, <1>10, Prepended
<1>12. Len(pairs) = Len(m_elements)
  BY <1>1, <1>9, <1>11
<1> HIDE DEF pairs
<1>13. /\ Recent' \in Seq(P) /\ Len(Recent') = Len(m_elements)
       /\ \A j \in 1 .. Len(m_elements) :
            Recent'[j] = <<entry'[m_elements'[j]].key, entry'[m_elements'[j]].value>>
  BY <1>4, RecentAfter DEF P
<1>14. \A j \in 1 .. Len(m_elements) : m_elements[j] \in ToSet(m_elements)
  BY <1>1, ToSetByIndex
<1>15. ASSUME NEW j \in 1 .. Len(m_elements) PROVE Recent'[j] = pairs[j]
  <2>1. entry[m_elements[i]].key = k
    BY <1>2, <1>5
  <2>2. ASSUME NEW l \in 1 .. Len(m_elements), l # i
        PROVE  <<entry'[m_elements[l]].key, entry'[m_elements[l]].value>> = Recent[l]
    <3>1. m_elements[l] # m_lookup[k]
      BY <1>3, <2>2 DEF Inv, Consistent
    <3> QED
      BY <1>2, <1>14, <3>1
  <2>3. CASE j = 1
    <3>1. entry'[m_elements[i]].key = k /\ entry'[m_elements[i]].value = x
      BY <1>3, <1>14, <2>1
    <3> QED
      <4>1. m_elements'[j] = m_elements[i]
        BY <1>4, <2>3
      <4>2. Recent'[j] = <<entry'[m_elements'[j]].key, entry'[m_elements'[j]].value>>
        BY <1>13
      <4>3. pairs[j] = <<k, x>>
        BY <1>11, <2>3
      <4> QED
        BY <3>1, <4>1, <4>2, <4>3
  <2>4. CASE j # 1
    <3>1. j - 1 \in 1 .. Len(m_elements) - 1 /\ (j - 1) + 1 = j /\ j - 1 \in 1 .. Len(m_elements)
          /\ (j - 1 < i <=> j <= i)
      BY <1>1, <2>4
    <3>2. pairs[j] = r[j - 1]
      BY <1>9, <1>11, <3>1
    <3>3. pairs[j] = IF j <= i THEN Recent[j - 1] ELSE Recent[j]
      BY <1>9, <3>1, <3>2
    <3>4. CASE j <= i
      <4>1. m_elements'[j] = m_elements[j - 1] /\ j - 1 # i
        BY <1>1, <1>4, <2>4, <3>4
      <4> QED
        <5>1. Recent'[j] = <<entry'[m_elements'[j]].key, entry'[m_elements'[j]].value>>
          BY <1>13
        <5>2. <<entry'[m_elements[j - 1]].key, entry'[m_elements[j - 1]].value>> = Recent[j - 1]
          BY <2>2, <3>1, <4>1
        <5> QED
          BY <3>3, <3>4, <4>1, <5>1, <5>2
    <3>5. CASE ~(j <= i)
      <4>1. m_elements'[j] = m_elements[j] /\ j # i
        BY <1>1, <1>4, <2>4, <3>5
      <4> QED
        BY <1>13, <2>2, <3>3, <3>5, <4>1
    <3> QED
      BY <3>4, <3>5
  <2> QED
    BY <2>3, <2>4
<1>16. Recent' = pairs
  BY <1>11, <1>12, <1>13, <1>15, SeqEqual
<1>17. Len(pairs) <= m_capacity
  BY <1>12, NodesAreKeys
<1>18. SubSeq(pairs, 1, IF Len(pairs) > m_capacity THEN m_capacity ELSE Len(pairs)) = pairs
  <2>1. ~(Len(pairs) > m_capacity)
    BY <1>1, <1>12, <1>17, CacheAssumption
  <2> QED
    BY <1>11, <2>1, WholePrefix
<1> QED
  BY <1>8, <1>16, <1>18 DEF LRU!Use, pairs, r

\* A new key goes to the front, and the entry used least recently makes room for it.
LEMMA InsertNewUses ==
  ASSUME Inv, Inv', NoOrphan, NEW k \in Keys, NEW x \in Values, InsertNew(k, x)
  PROVE  LRU!Use(k, x)
<1> DEFINE P == Keys \X Values
<1>1. m_elements \in Seq(Nodes) /\ Len(m_elements) \in Nat /\ m_capacity \in Nat \ {0}
  BY CacheAssumption DEF Inv, Consistent
<1>2. PICK n \in Free :
        ShrinkToFit(<<n>> \o m_elements,
                    [entry EXCEPT ![n] = [key |-> k, value |-> x]],
                    [j \in DOMAIN m_lookup \cup {k} |-> IF j = k THEN n ELSE m_lookup[j]])
  BY DEF InsertNew
<1> DEFINE list == <<n>> \o m_elements
           entries == [entry EXCEPT ![n] = [key |-> k, value |-> x]]
           m == IF Len(list) > m_capacity THEN m_capacity ELSE Len(list)
           kept == SubSeq(list, 1, m)
<1>3. /\ Consistent(list, entries, m_lookup) /\ Len(list) = Len(m_elements) + 1
      /\ list[1] = n /\ entries[n] = [key |-> k, value |-> x]
      /\ \A i \in 1 .. Len(m_elements) : list[i + 1] = m_elements[i]
      /\ \A i \in 1 .. Len(m_elements) : entries[m_elements[i]] = entry[m_elements[i]]
  BY EntryInFront
<1>4. /\ m_elements' = kept
      /\ entry' = [o \in Nodes |-> IF o \in ToSet(kept) THEN entries[o] ELSE Freed]
  BY <1>2 DEF ShrinkToFit
<1> HIDE DEF list, entries
<1>5. m \in 0 .. Len(list) /\ list \in Seq(Nodes)
  BY <1>1, <1>3 DEF Consistent
<1> HIDE DEF m
<1>6. kept \in Seq(Nodes) /\ Len(kept) = m /\ \A i \in 1 .. m : kept[i] = list[i]
  BY <1>5, Prefix
<1> HIDE DEF kept
<1>7. ASSUME NEW i \in 1 .. m PROVE entry'[m_elements'[i]] = entries[list[i]]
  <2>1. kept[i] \in ToSet(kept) /\ kept[i] \in Nodes
    BY <1>6, ToSetByIndex, ElementOfSeq
  <2> QED
    BY <1>4, <1>6, <2>1
<1>8. /\ Recent \in Seq(P) /\ Len(Recent) = Len(m_elements)
      /\ \A i \in 1 .. Len(m_elements) :
           Recent[i] = <<entry[m_elements[i]].key, entry[m_elements[i]].value>>
  BY RecentOf DEF RecentAre, Pair
<1>9. /\ Recent' \in Seq(P) /\ Len(Recent') = m
      /\ \A i \in 1 .. m : Recent'[i] = <<entries[list[i]].key, entries[list[i]].value>>
  BY <1>4, <1>6, <1>7, RecentAfter
<1>10. LRU!Others(k) = Recent
  <2>1. k \notin DOMAIN m_lookup
    BY DEF InsertNew
  <2> QED
    BY <2>1, KnownKeys DEF LRU!Others
<1>11. <<k, x>> \in P
  OBVIOUS
<1> DEFINE pairs == <<<<k, x>>>> \o Recent
<1> HIDE DEF P
<1>12. /\ pairs \in Seq(P) /\ Len(pairs) = Len(list) /\ pairs[1] = <<k, x>>
       /\ \A i \in 1 .. Len(m_elements) : pairs[i + 1] = Recent[i]
  BY <1>3, <1>8, <1>11, Prepended
<1> HIDE DEF pairs
<1>13. ASSUME NEW i \in 1 .. Len(list)
       PROVE  <<entries[list[i]].key, entries[list[i]].value>> = pairs[i]
  <2>1. CASE i = 1
    BY <1>3, <1>12, <2>1
  <2>2. CASE i # 1
    <3>1. i - 1 \in 1 .. Len(m_elements) /\ (i - 1) + 1 = i
      BY <1>1, <1>3, <2>2
    <3>2. pairs[i] = Recent[i - 1] /\ list[i] = m_elements[i - 1]
      BY <1>3, <1>12, <3>1
    <3> QED
      BY <1>3, <1>8, <3>1, <3>2
  <2> QED
    BY <2>1, <2>2
<1>14. /\ SubSeq(pairs, 1, m) \in Seq(P) /\ Len(SubSeq(pairs, 1, m)) = m
       /\ \A i \in 1 .. m : SubSeq(pairs, 1, m)[i] = pairs[i]
  BY <1>5, <1>12, Prefix
<1>15. \A i \in 1 .. m : i \in 1 .. Len(list)
  BY <1>5
<1>16. Recent' = SubSeq(pairs, 1, m)
  <2>1. \A i \in 1 .. m : Recent'[i] = SubSeq(pairs, 1, m)[i]
    BY <1>9, <1>13, <1>14, <1>15
  <2> QED
    BY <1>9, <1>14, <2>1, SeqEqual
<1>17. m = IF Len(pairs) > m_capacity THEN m_capacity ELSE Len(pairs)
  BY <1>12 DEF m
<1> QED
  BY <1>10, <1>16, <1>17 DEF LRU!Use, pairs

LEMMA NextRefines ==
  ASSUME Inv, Inv', [Next]_vars
  PROVE  [NoOrphan /\ NoOrphan' => LRU!Next]_(LRU!vars)
<1>1. ASSUME UNCHANGED <<m_elements, entry>> PROVE UNCHANGED Recent
  BY <1>1 DEF Recent
<1>2. CASE UNCHANGED vars
  BY <1>1, <1>2 DEF vars, LRU!vars
<1>3. CASE Next /\ ~(NoOrphan /\ NoOrphan')
  BY <1>3
<1>4. CASE Next /\ NoOrphan /\ NoOrphan'
  <2>1. m_elements \in Seq(Nodes) /\ Len(m_elements) \in Nat /\ entry = [n \in Nodes |-> entry[n]]
    BY DEF Inv, Consistent
  <2>2. ASSUME NEW k \in Keys, NEW x \in Values, InsertNew(k, x) PROVE LRU!Next
    <3>1. LRU!Use(k, x) /\ result' = x
      BY <1>4, <2>2, InsertNewUses DEF InsertNew
    <3> QED
      BY <3>1 DEF LRU!Next, LRU!Insert
  <2>3. ASSUME NEW k \in Keys, NEW x \in Values, InsertExisting(k, x) PROVE LRU!Next
    <3>1. /\ k \in DOMAIN m_lookup /\ Promote(m_lookup[k]) /\ result' = x
          /\ entry' = [entry EXCEPT ![m_lookup[k]].value = x]
      BY <2>3 DEF InsertExisting
    <3>2. entry' = [n \in Nodes |->
                     IF n = m_lookup[k] THEN [entry[n] EXCEPT !.value = x] ELSE entry[n]]
      BY <2>1, <3>1
    <3>3. \A n \in ToSet(m_elements) : n \in Nodes /\ entry[n] \in Entries
      BY <2>1, ToSetByIndex, ElementOfSeq DEF Inv, Consistent
    <3>4. \A n \in ToSet(m_elements) :
            /\ entry'[n].key = entry[n].key
            /\ entry'[n].value = IF n = m_lookup[k] THEN x ELSE entry[n].value
      BY <3>2, <3>3 DEF Entries
    <3>5. LRU!Use(k, x)
      BY <1>4, <3>1, <3>4, PromotionUses
    <3> QED
      BY <3>1, <3>5 DEF LRU!Next, LRU!Insert
  <2>4. ASSUME NEW k \in Keys, GetHit(k) PROVE LRU!Next
    <3>1. /\ k \in DOMAIN m_lookup /\ Promote(m_lookup[k]) /\ UNCHANGED entry
          /\ result' \in {entry[m_lookup[k]].value, "exception"}
      BY <2>4 DEF GetHit
    <3>2. PICK i \in 1 .. Len(m_elements) :
            /\ m_elements[i] = m_lookup[k]
            /\ Recent[i][1] = k
      BY <1>4, <3>1, KnownKeys
    <3>3. Recent \in Seq(Keys \X Values) /\ Len(Recent) = Len(m_elements)
          /\ Recent[i] = <<entry[m_elements[i]].key, entry[m_elements[i]].value>>
      BY RecentOf DEF RecentAre, Pair
    <3>4. Recent[i][2] = entry[m_lookup[k]].value /\ Recent[i][2] \in Values
      BY <3>2, <3>3, ElementOfSeq
    <3>5. Recent[i] \in ToSet(Recent)
      BY <3>3, ToSetByIndex
    <3>6. LRU!Use(k, Recent[i][2])
      BY <1>4, <3>1, <3>4, PromotionUses
    <3>7. result' \in {Recent[i][2], "exception"}
      BY <3>1, <3>4
    <3>8. LRU!Get(k)
      BY <3>2, <3>5, <3>6, <3>7 DEF LRU!Get, LRU!ToSet, ToSet
    <3> QED
      BY <3>8 DEF LRU!Next
  <2>5. ASSUME NEW k \in Keys, GetMiss(k) PROVE LRU!Next
    <3>1. ~LRU!Knows(k) /\ UNCHANGED Recent /\ result' = "nullopt"
      BY <1>1, <1>4, <2>5, KnownKeys DEF GetMiss
    <3> QED
      BY <3>1 DEF LRU!Next, LRU!Get
  <2>6. CASE InsertThrows
    BY <1>1, <2>6 DEF InsertThrows, LRU!Next, LRU!Throw
  <2>7. ASSUME NEW k \in Keys, NEW x \in Values, InsertHalf(k, x) PROVE FALSE
    <3>1. PICK n \in Free : m_elements' = <<n>> \o m_elements
      BY <2>7 DEF InsertHalf
    <3>2. n \in Nodes /\ n \notin ToSet(m_elements) /\ m_lookup' = m_lookup
      BY <2>7 DEF InsertHalf, Free
    <3>3. /\ m_elements' \in Seq(Nodes) /\ Len(m_elements') = Len(m_elements) + 1
          /\ m_elements'[1] = n
      BY <2>1, <3>1, <3>2, Prepended
    <3>4. n \in ToSet(m_elements')
      <4>1. 1 \in 1 .. Len(m_elements')
        BY <2>1, <3>3
      <4> QED
        BY <3>3, <4>1, ToSetByIndex
    <3>5. PICK j \in DOMAIN m_lookup : m_lookup[j] = n
      BY <1>4, <3>2, <3>4 DEF NoOrphan
    <3>6. m_lookup[j] \in ToSet(m_elements)
      BY <2>1, ToSetByIndex DEF Inv, Consistent
    <3> QED
      BY <3>2, <3>5, <3>6
  <2> QED
    BY <1>4, <2>2, <2>3, <2>4, <2>5, <2>6, <2>7 DEF Next
<1> QED
  BY <1>2, <1>3, <1>4

\* For every capacity, the list spliced and cut through iterators is the list of keys by
\* their latest use, in all steps but those in which the list holds an entry whose key could
\* not be added to the map.
THEOREM CacheImplementsLRU == Spec => ImplementsLRU
<1>1. Init => LRU!Init
  BY DEF Init, LRU!Init, Recent
<1> QED
  BY <1>1, InitInv, NextInv, NextRefines, PTL DEF Spec, ImplementsLRU

================================================================================
