-------------------------- MODULE HashTable_proofs --------------------------
(***************************************************************************)
(* Proofs about HashTable, for every set of keys, values and entries,      *)
(* every number of buckets and every hash function: the chains stay        *)
(* intact, and every step of the table is a step of the map.               *)
(***************************************************************************)
EXTENDS HashTable, SequenceTheorems, TLAPS

EntryRecord == [hash : Nat, key : Key, value : Value]

TypeOK ==
    /\ buckets \in [Index -> Seq(Entry)]
    /\ DOMAIN entries \subseteq Entry /\ entries \in [DOMAIN entries -> EntryRecord]
    /\ i \in 0 .. Buckets /\ calling \in BOOLEAN

\* The hash that is kept in an entry is the hash of its key.
HashesKept == \A e \in DOMAIN entries : entries[e].hash = djb2[entries[e].key]

\* The entry that follows place n of the chain of bucket b.
After(b, n) == IF n < Len(buckets[b]) THEN buckets[b][n + 1] ELSE NULL

\* While the iterator runs, its entry is in the chain and next is what follows it there, or
\* the iterator has deleted it and next is in the chain.
CallInv ==
    /\ ~calling => key = NULL
    /\ calling => Iterating /\ key \in Key /\ Bucket(key) = i
    /\ calling => \/ \E n \in DOMAIN buckets[i] :
                       /\ entries[buckets[i][n]].key = key
                       /\ next = After(i, n)
                  \/ \A e \in DOMAIN entries : entries[e].key # key

Inv == TypeOK /\ HashesKept /\ ChainsIntact /\ CallInv

-----------------------------------------------------------------------------
(* Chains *)

\* A hash selects a bucket.
LEMMA BucketType == \A k \in Key : Bucket(k) \in Index
<1> SUFFICES ASSUME NEW k \in Key PROVE Bucket(k) \in Index
  OBVIOUS
<1>1. djb2[k] \in Nat /\ Buckets \in Nat /\ Buckets > 0
  BY HashTableAssumption
<1> QED
  BY <1>1 DEF Bucket, Index

\* The first of the places in a chain is one of them.
LEMMA FirstOfSingle ==
    ASSUME NEW n \in Nat
    PROVE  FirstOf({n}) = n
  BY DEF FirstOf

\* Unlinking an entry moves the ones behind it up by one place.
LEMMA UnlinkedIs ==
    ASSUME NEW s \in Seq(Entry), NEW n \in DOMAIN s
    PROVE  /\ Unlinked(s, n) \in Seq(Entry)
           /\ Len(Unlinked(s, n)) = Len(s) - 1
           /\ \A m \in 1 .. Len(s) - 1 : Unlinked(s, n)[m] = IF m < n THEN s[m] ELSE s[m + 1]
<1>1. Len(s) \in Nat /\ n \in 1 .. Len(s) /\ DOMAIN s = 1 .. Len(s)
  OBVIOUS
<1> DEFINE a == SubSeq(s, 1, n - 1)
           b == SubSeq(s, n + 1, Len(s))
<1>2. a \in Seq(Entry) /\ Len(a) = n - 1 /\ \A m \in 1 .. n - 1 : a[m] = s[m]
  BY <1>1, SubSeqProperties
<1>3. b \in Seq(Entry) /\ Len(b) = Len(s) - n /\ \A m \in 1 .. Len(s) - n : b[m] = s[n + m]
  BY <1>1, SubSeqProperties
<1>4. Unlinked(s, n) = a \o b
  BY DEF Unlinked, RemoveAt
<1> HIDE DEF a, b
<1>5. /\ a \o b \in Seq(Entry)
      /\ Len(a \o b) = Len(s) - 1
      /\ \A m \in 1 .. Len(s) - 1 : (a \o b)[m] = IF m <= n - 1 THEN a[m] ELSE b[m - (n - 1)]
  <2>1. /\ a \o b \in Seq(Entry)
        /\ Len(a \o b) = Len(a) + Len(b)
        /\ \A m \in 1 .. Len(a) + Len(b) : (a \o b)[m] = IF m <= Len(a) THEN a[m] ELSE b[m - Len(a)]
    BY <1>2, <1>3, ConcatProperties
  <2>2. Len(a) + Len(b) = Len(s) - 1 /\ Len(a) = n - 1
    BY <1>1, <1>2, <1>3
  <2> QED BY <2>1, <2>2
<1>6. ASSUME NEW m \in 1 .. Len(s) - 1
      PROVE  (a \o b)[m] = IF m < n THEN s[m] ELSE s[m + 1]
  <2>1. m < n => (a \o b)[m] = s[m]
    BY <1>1, <1>2, <1>5
  <2>2. ~(m < n) => m - (n - 1) \in 1 .. Len(s) - n /\ n + (m - (n - 1)) = m + 1 /\ ~(m <= n - 1)
    BY <1>1
  <2>3. ~(m < n) => (a \o b)[m] = b[m - (n - 1)]
    BY <1>5, <2>2
  <2>4. ~(m < n) => b[m - (n - 1)] = s[n + (m - (n - 1))]
    BY <1>3, <2>2
  <2>5. ~(m < n) => (a \o b)[m] = s[m + 1]
    BY <2>2, <2>3, <2>4
  <2> QED BY <2>1, <2>5
<1> QED
  BY <1>4, <1>5, <1>6

\* An entry of the table is found under its key, and nothing is found under any other key.
FoundByKey ==
    /\ \A e \in DOMAIN entries :
         /\ entries[e].key \in Key
         /\ Has(entries[e].key) /\ Found(entries[e].key) = e
         /\ Lookup(entries[e].key) = entries[e].value
         /\ \E n \in DOMAIN buckets[Bucket(entries[e].key)] :
              /\ buckets[Bucket(entries[e].key)][n] = e
              /\ Places(entries[e].key) = {n}
    /\ \A k \in Key : (\A e \in DOMAIN entries : entries[e].key # k) => ~Has(k) /\ Lookup(k) = NULL

\* As long as the chains are intact, the search of get, set and del finds what it should.
LEMMA LookupIs == Inv => FoundByKey
<1> SUFFICES ASSUME Inv PROVE FoundByKey
  OBVIOUS
<1>1. \A b \in Index : \A n \in DOMAIN buckets[b] : buckets[b][n] \in DOMAIN entries
  BY DEF Inv, ChainsIntact, InChain, Range
<1>2. ASSUME NEW e \in DOMAIN entries
      PROVE  /\ entries[e].key \in Key
             /\ Has(entries[e].key) /\ Found(entries[e].key) = e
             /\ Lookup(entries[e].key) = entries[e].value
             /\ \E n \in DOMAIN buckets[Bucket(entries[e].key)] :
                  /\ buckets[Bucket(entries[e].key)][n] = e
                  /\ Places(entries[e].key) = {n}
  <2> DEFINE k == entries[e].key
  <2>1. k \in Key
    BY DEF Inv, TypeOK, EntryRecord
  <2>2. PICK b \in Index : e \in InChain(b)
    BY DEF Inv, ChainsIntact
  <2>3. PICK n \in DOMAIN buckets[b] : buckets[b][n] = e
    BY <2>2 DEF InChain, Range
  <2>4. Bucket(k) = b
    BY <2>3 DEF Inv, ChainsIntact
  <2>5. n \in Places(k)
    BY <2>3, <2>4 DEF Places, Is, Inv, HashesKept
  <2>6. \A m \in Places(k) : m = n
    BY <2>3, <2>4 DEF Places, Is, Inv, ChainsIntact
  <2>7. Places(k) = {n} /\ n \in Nat
    <3>1. buckets[b] \in Seq(Entry)
      BY DEF Inv, TypeOK
    <3> QED BY <2>5, <2>6, <3>1
  <2>8. Has(k) /\ Found(k) = e
    BY <2>3, <2>4, <2>7, FirstOfSingle DEF Has, Found
  <2>9. Lookup(k) = entries[e].value
    BY <2>8 DEF Lookup
  <2> QED
    BY <2>1, <2>3, <2>4, <2>7, <2>8, <2>9
<1>3. ASSUME NEW k \in Key, \A e \in DOMAIN entries : entries[e].key # k
      PROVE  ~Has(k) /\ Lookup(k) = NULL
  <2>1. \A n \in DOMAIN buckets[Bucket(k)] : buckets[Bucket(k)][n] \in DOMAIN entries
    BY <1>1, BucketType
  <2>2. ~Has(k)
    BY <1>3, <2>1 DEF Has, Places, Is
  <2> QED
    BY <2>2 DEF Lookup
<1> QED
  BY <1>2, <1>3 DEF FoundByKey

\* The same in the next state.
LEMMA LookupIsNext == Inv' => FoundByKey'
  BY LookupIs, PTL

-----------------------------------------------------------------------------
(* The invariant *)

LEMMA InitInv == Init => Inv
<1> SUFFICES ASSUME Init PROVE Inv
  OBVIOUS
<1>1. Buckets \in Nat /\ Buckets > 0
  BY HashTableAssumption
<1>2. \A b \in Index : buckets[b] = <<>> /\ DOMAIN buckets[b] = {} /\ InChain(b) = {}
  BY DEF Init, InChain, Range
<1>3. DOMAIN entries = {}
  BY DEF Init
<1>4. ~Iterating
  BY <1>1 DEF Init, Iterating
<1>5. TypeOK
  <2>1. <<>> \in Seq(EntryRecord) /\ Len(<<>>) = 0
    BY EmptySeq
  <2>2. entries \in [DOMAIN entries -> EntryRecord]
    BY <2>1 DEF Init
  <2>3. buckets \in [Index -> Seq(Entry)]
    BY EmptySeq DEF Init
  <2>4. i \in 0 .. Buckets
    BY <1>1 DEF Init
  <2>5. calling \in BOOLEAN
    BY Zenon DEF Init
  <2> QED BY <1>3, <2>2, <2>3, <2>4, <2>5 DEF TypeOK
<1>6. ChainsIntact
  BY <1>2, <1>3, <1>4 DEF ChainsIntact
<1> QED
  BY <1>3, <1>5, <1>6 DEF Inv, HashesKept, CallInv, Init

\* The chain of a bucket is a sequence of entries in use.
LEMMA ChainType ==
    ASSUME Inv, NEW b \in Index
    PROVE  /\ buckets[b] \in Seq(Entry) /\ DOMAIN buckets[b] = 1 .. Len(buckets[b]) /\ Len(buckets[b]) \in Nat
           /\ \A n \in DOMAIN buckets[b] : buckets[b][n] \in DOMAIN entries
           /\ \A m, n \in DOMAIN buckets[b] : buckets[b][m] = buckets[b][n] => m = n
           /\ \A m, n \in DOMAIN buckets[b] : entries[buckets[b][m]].key = entries[buckets[b][n]].key => m = n
<1>1. buckets[b] \in Seq(Entry)
  BY DEF Inv, TypeOK
<1>2. \A n \in DOMAIN buckets[b] : buckets[b][n] \in DOMAIN entries
  BY DEF Inv, ChainsIntact, InChain, Range
<1>3. \A m, n \in DOMAIN buckets[b] : buckets[b][m] = buckets[b][n] => m = n
  BY DEF Inv, ChainsIntact
<1>4. \A m, n \in DOMAIN buckets[b] : entries[buckets[b][m]].key = entries[buckets[b][n]].key => m = n
  BY DEF Inv, ChainsIntact
<1> QED
  BY <1>1, <1>2, <1>3, <1>4

\* The part of the invariant that is about the table alone.
TableInv ==
    /\ buckets \in [Index -> Seq(Entry)]
    /\ DOMAIN entries \subseteq Entry /\ entries \in [DOMAIN entries -> EntryRecord]
    /\ HashesKept
    /\ DOMAIN entries = UNION {InChain(b) : b \in Index}
    /\ \A b \in Index : \A m, n \in DOMAIN buckets[b] :
         /\ Bucket(entries[buckets[b][m]].key) = b
         /\ entries[buckets[b][m]].key = entries[buckets[b][n]].key => m = n

\* The part that is about the iteration.
IterationInv ==
    /\ i \in 0 .. Buckets /\ calling \in BOOLEAN
    /\ Iterating /\ ~calling => entry \in InChain(i) \cup {NULL}
    /\ Iterating /\ calling => next \in InChain(i) \cup {NULL}
    /\ CallInv

LEMMA InvParts == Inv <=> TableInv /\ IterationInv
  BY DEF Inv, TypeOK, ChainsIntact, TableInv, IterationInv

LEMMA InvPartsNext == Inv' <=> TableInv' /\ IterationInv'
  BY InvParts, PTL

LEMMA TableInvUnchanged ==
    ASSUME TableInv, buckets' = buckets, entries' = entries
    PROVE  TableInv'
<1>1. HashesKept'
  BY DEF TableInv, HashesKept
<1>2. \A b : InChain(b)' = InChain(b)
  BY DEF InChain
<1>3. (DOMAIN entries = UNION {InChain(b) : b \in Index})'
  BY <1>2 DEF TableInv
<1> QED
  BY <1>1, <1>3 DEF TableInv, Bucket

\* Without an iteration there is nothing to say of the iteration.
LEMMA IterationInvUnchanged ==
    ASSUME IterationInv, ~Iterating, i' = i, calling' = calling, key' = key
    PROVE  IterationInv'
  BY DEF IterationInv, CallInv, Iterating

\* The invariant is not about ret.
LEMMA InvUnchanged ==
    ASSUME Inv, UNCHANGED <<buckets, entries, i, entry, calling, next, key>>
    PROVE  Inv'
<1>1. TableInv /\ IterationInv
  BY InvParts
<1>2. TableInv'
  BY <1>1, TableInvUnchanged
<1>3. InChain(i)' = InChain(i)
  BY DEF InChain
<1>4. CallInv'
  BY <1>1 DEF IterationInv, CallInv, Iterating, Bucket, After
<1>5. IterationInv'
  BY <1>1, <1>3, <1>4 DEF IterationInv, Iterating
<1> QED
  BY <1>2, <1>5, InvPartsNext

\* A value is replaced: the chains, and the keys in them, are as before.
LEMMA SetPresentInv ==
    ASSUME Inv, NEW k \in Key, NEW v \in Value, mrsh_hashtable_set(k, v), Has(k)
    PROVE  /\ Inv'
           /\ Found(k) \in DOMAIN entries /\ entries[Found(k)].key = k
           /\ DOMAIN entries' = DOMAIN entries /\ UNCHANGED buckets
           /\ \A e \in DOMAIN entries :
                /\ entries'[e].key = entries[e].key
                /\ entries'[e].value = IF e = Found(k) THEN v ELSE entries[e].value
           /\ ret' = entries[Found(k)].value
<1> DEFINE e0 == Found(k)
<1>1. e0 \in DOMAIN entries /\ entries[e0].key = k
  BY LookupIs DEF FoundByKey
<1>2. /\ entries' = [entries EXCEPT ![e0].value = v] /\ UNCHANGED <<buckets, i, entry, calling, next, key>>
      /\ ret' = entries[e0].value /\ ~Iterating
  BY DEF mrsh_hashtable_set
<1> HIDE DEF e0
<1>3. entries \in [DOMAIN entries -> EntryRecord]
  BY DEF Inv, TypeOK
<1>4. /\ DOMAIN entries' = DOMAIN entries
      /\ \A e \in DOMAIN entries :
           /\ entries'[e] \in EntryRecord
           /\ entries'[e].hash = entries[e].hash /\ entries'[e].key = entries[e].key
           /\ entries'[e].value = IF e = e0 THEN v ELSE entries[e].value
  BY <1>1, <1>2, <1>3 DEF EntryRecord
<1>5. TypeOK' /\ HashesKept'
  BY <1>2, <1>3, <1>4 DEF Inv, TypeOK, HashesKept
<1>6. ChainsIntact'
  <2>1. \A b \in Index : \A m \in DOMAIN buckets[b] : entries'[buckets[b][m]].key = entries[buckets[b][m]].key
    BY <1>4, ChainType
  <2> QED BY <1>2, <1>4, <2>1 DEF Inv, ChainsIntact, InChain, Iterating
<1>7. CallInv'
  BY <1>2 DEF Inv, CallInv, Iterating
<1> QED
  BY <1>1, <1>2, <1>4, <1>5, <1>6, <1>7 DEF Inv, e0

\* Entry e0 is allocated for k and v, and the other entries stay as they are.
Adds(k, v, e0) ==
    /\ e0 \notin DOMAIN entries
    /\ DOMAIN entries' = DOMAIN entries \cup {e0}
    /\ entries'[e0].key = k /\ entries'[e0].value = v
    /\ \A e \in DOMAIN entries : entries'[e] = entries[e]

\* A new entry goes to the end of the chain of its key.
LEMMA SetAbsentInv ==
    ASSUME Inv, NEW k \in Key, NEW v \in Value, mrsh_hashtable_set(k, v), ~Has(k)
    PROVE  /\ Inv'
           /\ \A e \in DOMAIN entries : entries[e].key # k
           /\ ret' = NULL
           /\ \E e0 \in Entry : Adds(k, v, e0)
<1> DEFINE b0 == Bucket(k)
<1>1. PICK e0 \in Entry \ DOMAIN entries :
        /\ entries' = [f \in DOMAIN entries \cup {e0} |->
                         IF f = e0 THEN [hash |-> djb2[k], key |-> k, value |-> v] ELSE entries[f]]
        /\ buckets' = [buckets EXCEPT ![b0] = Append(@, e0)]
  BY DEF mrsh_hashtable_set
<1>2. ret' = NULL /\ ~Iterating /\ UNCHANGED <<i, entry, calling, next, key>>
  BY DEF mrsh_hashtable_set
<1>3. \A e \in DOMAIN entries : entries[e].key # k
  BY LookupIs DEF FoundByKey
<1>4. b0 \in Index /\ djb2[k] \in Nat
  BY BucketType, HashTableAssumption
<1>5. buckets \in [Index -> Seq(Entry)] /\ entries \in [DOMAIN entries -> EntryRecord] /\ DOMAIN entries \subseteq Entry
  BY DEF Inv, TypeOK
<1>6. /\ DOMAIN entries' = DOMAIN entries \cup {e0}
      /\ entries'[e0] = [hash |-> djb2[k], key |-> k, value |-> v]
      /\ \A e \in DOMAIN entries : entries'[e] = entries[e]
  BY <1>1
<1>7. /\ buckets' \in [Index -> Seq(Entry)]
      /\ \A b \in Index \ {b0} : buckets'[b] = buckets[b]
      /\ DOMAIN buckets'[b0] = DOMAIN buckets[b0] \cup {Len(buckets[b0]) + 1}
      /\ \A m \in DOMAIN buckets[b0] : buckets'[b0][m] = buckets[b0][m]
      /\ buckets'[b0][Len(buckets[b0]) + 1] = e0 /\ Len(buckets[b0]) + 1 \notin DOMAIN buckets[b0]
  <2> HIDE DEF b0
  <2>1. buckets[b0] \in Seq(Entry) /\ buckets'[b0] = Append(buckets[b0], e0)
    BY <1>1, <1>4, <1>5
  <2>2. \A b \in Index \ {b0} : buckets'[b] = buckets[b]
    BY <1>1, <1>4, <1>5
  <2>3. buckets' \in [Index -> Seq(Entry)]
    BY <1>1, <1>4, <1>5, <2>1
  <2>4. /\ Len(buckets'[b0]) = Len(buckets[b0]) + 1 /\ Len(buckets[b0]) \in Nat
        /\ \A m \in 1 .. Len(buckets[b0]) : buckets'[b0][m] = buckets[b0][m]
        /\ buckets'[b0][Len(buckets[b0]) + 1] = e0
    BY <2>1, AppendProperties
  <2>5. DOMAIN buckets'[b0] = 1 .. Len(buckets[b0]) + 1 /\ DOMAIN buckets[b0] = 1 .. Len(buckets[b0])
    BY <1>4, <2>1, <2>3, <2>4
  <2> QED BY <2>2, <2>3, <2>4, <2>5
<1> HIDE DEF b0
<1>8. TypeOK' /\ HashesKept'
  <2>1. \A e \in DOMAIN entries' : entries'[e] \in EntryRecord /\ entries'[e].hash = djb2[entries'[e].key]
    BY <1>4, <1>5, <1>6 DEF EntryRecord, Inv, HashesKept
  <2>2. entries' \in [DOMAIN entries' -> EntryRecord]
    BY <1>1, <1>6, <2>1
  <2> QED BY <1>2, <1>5, <1>6, <1>7, <2>1, <2>2 DEF TypeOK, HashesKept, Inv
<1>9. ChainsIntact'
  <2>1. \A b \in Index : \A m \in DOMAIN buckets'[b] :
          \/ m \in DOMAIN buckets[b] /\ buckets'[b][m] = buckets[b][m] /\ buckets[b][m] \in DOMAIN entries
          \/ b = b0 /\ m = Len(buckets[b0]) + 1 /\ buckets'[b][m] = e0
    BY <1>4, <1>7, ChainType
  <2>2. DOMAIN entries' = UNION {InChain(b)' : b \in Index}
    <3>1. ASSUME NEW e \in DOMAIN entries PROVE \E b \in Index : e \in InChain(b)'
      <4>1. PICK b \in Index : \E m \in DOMAIN buckets[b] : buckets[b][m] = e
        BY DEF Inv, ChainsIntact, InChain, Range
      <4> QED BY <4>1, <1>7 DEF InChain, Range
    <3>2. e0 \in InChain(b0)'
      BY <1>7 DEF InChain, Range
    <3>3. \A b \in Index : InChain(b)' \subseteq DOMAIN entries'
      BY <2>1, <1>6 DEF InChain, Range
    <3> QED BY <1>4, <1>6, <3>1, <3>2, <3>3
  <2>3. ASSUME NEW b \in Index, NEW m \in DOMAIN buckets'[b], NEW n \in DOMAIN buckets'[b]
        PROVE  /\ Bucket(entries'[buckets'[b][m]].key) = b
               /\ entries'[buckets'[b][m]].key = entries'[buckets'[b][n]].key => m = n
    BY <1>3, <1>6, <2>1, <2>3 DEF Inv, ChainsIntact, b0
  <2> QED
    BY <1>2, <2>2, <2>3 DEF ChainsIntact, Iterating, Bucket
<1>10. CallInv'
  BY <1>2 DEF Inv, CallInv, Iterating
<1>11. Adds(k, v, e0)
  BY <1>6 DEF Adds
<1> QED
  BY <1>2, <1>3, <1>8, <1>9, <1>10, <1>11 DEF Inv

\* Where the entry that is at place m of the chain of b has been before place p of the chain
\* of b0 was unlinked.
Before(b0, p, b, m) == IF b = b0 /\ m >= p THEN m + 1 ELSE m

\* Entry e0, at place p of the chain of k, is unlinked and freed, and nothing else is.
Removes(k, p, e0) ==
    /\ p \in DOMAIN buckets[Bucket(k)] /\ e0 = buckets[Bucket(k)][p]
    /\ e0 \in DOMAIN entries /\ entries[e0].key = k
    /\ ret' = entries[e0].value
    /\ DOMAIN entries' = DOMAIN entries \ {e0}
    /\ entries' \in [DOMAIN entries' -> EntryRecord]
    /\ \A e \in DOMAIN entries' : entries'[e] = entries[e]
    /\ buckets' \in [Index -> Seq(Entry)]
    /\ \A b \in Index \ {Bucket(k)} : buckets'[b] = buckets[b]
    /\ Len(buckets'[Bucket(k)]) = Len(buckets[Bucket(k)]) - 1
    /\ buckets'[Bucket(k)] = Unlinked(buckets[Bucket(k)], p)
    /\ \A b \in Index : \A m \in DOMAIN buckets'[b] :
         /\ Before(Bucket(k), p, b, m) \in DOMAIN buckets[b]
         /\ buckets'[b][m] = buckets[b][Before(Bucket(k), p, b, m)]
         /\ buckets'[b][m] # e0
    /\ UNCHANGED <<i, entry, calling, next, key>>

LEMMA DelPresent ==
    ASSUME Inv, NEW k \in Key, mrsh_hashtable_del(k), Has(k)
    PROVE  \E p \in Nat, e0 \in Entry : Removes(k, p, e0)
<1> DEFINE b0 == Bucket(k)
<1>1. b0 \in Index
  BY BucketType
<1>2. PICK e0 \in DOMAIN entries : entries[e0].key = k /\ Found(k) = e0
  BY LookupIs DEF FoundByKey
<1>3. PICK p \in DOMAIN buckets[b0] : buckets[b0][p] = e0 /\ Places(k) = {p}
  BY <1>2, LookupIs DEF FoundByKey
<1>4. buckets[b0] \in Seq(Entry) /\ DOMAIN buckets[b0] = 1 .. Len(buckets[b0]) /\ Len(buckets[b0]) \in Nat
  BY <1>1, ChainType
<1>5. FirstOf(Places(k)) = p
  BY <1>3, <1>4, FirstOfSingle
<1>6. /\ buckets' = [buckets EXCEPT ![b0] = Unlinked(@, p)]
      /\ entries' = [f \in DOMAIN entries \ {e0} |-> entries[f]]
      /\ ret' = entries[e0].value
      /\ UNCHANGED <<i, entry, calling, next, key>>
  BY <1>2, <1>5 DEF mrsh_hashtable_del
<1>7. buckets \in [Index -> Seq(Entry)] /\ entries \in [DOMAIN entries -> EntryRecord]
  BY DEF Inv, TypeOK
<1> HIDE DEF b0
<1>8. /\ Unlinked(buckets[b0], p) \in Seq(Entry)
      /\ Len(Unlinked(buckets[b0], p)) = Len(buckets[b0]) - 1
      /\ \A m \in 1 .. Len(buckets[b0]) - 1 :
           Unlinked(buckets[b0], p)[m] = IF m < p THEN buckets[b0][m] ELSE buckets[b0][m + 1]
  BY <1>3, <1>4, UnlinkedIs
<1>9. /\ buckets'[b0] = Unlinked(buckets[b0], p)
      /\ \A b \in Index \ {b0} : buckets'[b] = buckets[b]
      /\ buckets' \in [Index -> Seq(Entry)]
  BY <1>1, <1>6, <1>7, <1>8
<1>10. /\ DOMAIN entries' = DOMAIN entries \ {e0}
       /\ \A e \in DOMAIN entries' : entries'[e] = entries[e]
       /\ entries' \in [DOMAIN entries' -> EntryRecord]
  BY <1>6, <1>7
<1>11. ASSUME NEW b \in Index, NEW m \in DOMAIN buckets'[b]
       PROVE  /\ Before(b0, p, b, m) \in DOMAIN buckets[b]
              /\ buckets'[b][m] = buckets[b][Before(b0, p, b, m)]
              /\ buckets'[b][m] # e0
  <2>1. CASE b # b0
    <3>1. buckets'[b] = buckets[b] /\ Before(b0, p, b, m) = m
      BY <2>1, <1>9 DEF Before
    <3>2. buckets[b][m] # e0
      BY <3>1, <2>1, <1>2 DEF Inv, ChainsIntact, b0
    <3> QED BY <3>1, <3>2
  <2>2. CASE b = b0
    <3>1. m \in 1 .. Len(buckets[b0]) - 1
      BY <2>2, <1>1, <1>4, <1>8, <1>9
    <3>2. Before(b0, p, b, m) = IF m < p THEN m ELSE m + 1
      BY <2>2, <3>1, <1>3, <1>4 DEF Before
    <3>3. Before(b0, p, b, m) \in DOMAIN buckets[b0] /\ Before(b0, p, b, m) # p
      BY <3>1, <3>2, <1>3, <1>4
    <3>4. buckets'[b][m] = buckets[b0][Before(b0, p, b, m)]
      BY <2>2, <3>1, <3>2, <1>8, <1>9
    <3>5. buckets[b0][Before(b0, p, b, m)] # e0
      BY <3>3, <1>1, <1>3, ChainType
    <3> QED BY <2>2, <3>3, <3>4, <3>5
  <2> QED BY <2>1, <2>2
<1>12. Len(buckets'[b0]) = Len(buckets[b0]) - 1
  BY <1>8, <1>9
<1>13. p \in Nat /\ e0 \in Entry
  BY <1>4, <1>2 DEF Inv, TypeOK
<1>14. Removes(k, p, e0)
  BY <1>2, <1>3, <1>6, <1>9, <1>10, <1>11, <1>12 DEF b0, Removes
<1> QED
  BY <1>13, <1>14

LEMMA DelInv ==
    ASSUME Inv, NEW k \in Key, mrsh_hashtable_del(k)
    PROVE  Inv'
<1>1. CASE ~Has(k)
  <2>1. UNCHANGED <<buckets, entries, i, entry, calling, next, key>>
    BY <1>1 DEF mrsh_hashtable_del
  <2> QED BY <2>1, InvUnchanged
<1>2. CASE Has(k)
  <2> DEFINE b0 == Bucket(k)
  <2>0. PICK p \in Nat, e0 \in Entry : Removes(k, p, e0)
    BY <1>2, DelPresent
  <2>1. /\ p \in DOMAIN buckets[b0] /\ e0 = buckets[b0][p]
        /\ e0 \in DOMAIN entries /\ entries[e0].key = k
        /\ DOMAIN entries' = DOMAIN entries \ {e0}
        /\ entries' \in [DOMAIN entries' -> EntryRecord]
        /\ \A e \in DOMAIN entries' : entries'[e] = entries[e]
        /\ buckets' \in [Index -> Seq(Entry)]
        /\ \A b \in Index \ {b0} : buckets'[b] = buckets[b]
        /\ Len(buckets'[b0]) = Len(buckets[b0]) - 1
        /\ \A b \in Index : \A m \in DOMAIN buckets'[b] :
             /\ Before(b0, p, b, m) \in DOMAIN buckets[b]
             /\ buckets'[b][m] = buckets[b][Before(b0, p, b, m)]
             /\ buckets'[b][m] # e0
        /\ UNCHANGED <<i, entry, calling, next, key>>
    BY <2>0 DEF Removes
  <2>2. b0 \in Index
    BY BucketType
  <2>3. /\ DOMAIN buckets[b0] = 1 .. Len(buckets[b0]) /\ Len(buckets[b0]) \in Nat
        /\ DOMAIN buckets'[b0] = 1 .. Len(buckets[b0]) - 1
    BY <2>1, <2>2, ChainType
  <2>4. \A b \in Index : \A m \in DOMAIN buckets[b] :
          buckets[b][m] # e0 => \E n \in DOMAIN buckets'[b] : buckets'[b][n] = buckets[b][m]
    <3> SUFFICES ASSUME NEW b \in Index, NEW m \in DOMAIN buckets[b], buckets[b][m] # e0
                 PROVE  \E n \in DOMAIN buckets'[b] : buckets'[b][n] = buckets[b][m]
      OBVIOUS
    <3>1. CASE b # b0
      BY <3>1, <2>1
    <3>2. CASE b = b0
      <4>1. m # p /\ m \in 1 .. Len(buckets[b0]) /\ p \in 1 .. Len(buckets[b0])
        BY <3>2, <2>1, <2>3
      <4>2. m < p => m \in DOMAIN buckets'[b0] /\ Before(b0, p, b0, m) = m
        BY <4>1, <2>3 DEF Before
      <4>3. m > p => m - 1 \in DOMAIN buckets'[b0] /\ Before(b0, p, b0, m - 1) = m
        BY <4>1, <2>3 DEF Before
      <4>4. m < p \/ m > p
        BY <4>1
      <4>5. \E n \in DOMAIN buckets'[b0] : Before(b0, p, b0, n) = m
        BY <4>2, <4>3, <4>4
      <4> QED BY <2>1, <2>2, <3>2, <4>5
    <3> QED BY <3>1, <3>2
  <2>5. TypeOK' /\ HashesKept'
    BY <2>1 DEF Inv, TypeOK, HashesKept
  <2>6. DOMAIN entries' = UNION {InChain(b)' : b \in Index}
    <3>1. \A b \in Index : InChain(b)' \subseteq DOMAIN entries'
      <4>1. \A b \in Index : \A m \in DOMAIN buckets'[b] : buckets'[b][m] \in DOMAIN entries'
        BY <2>1, ChainType
      <4> QED BY <4>1 DEF InChain, Range
    <3>2. ASSUME NEW e \in DOMAIN entries' PROVE \E b \in Index : e \in InChain(b)'
      <4>1. e \in DOMAIN entries /\ e # e0
        BY <2>1
      <4>2. PICK b \in Index : \E m \in DOMAIN buckets[b] : buckets[b][m] = e
        BY <4>1 DEF Inv, ChainsIntact, InChain, Range
      <4> QED BY <4>1, <4>2, <2>4 DEF InChain, Range
    <3> QED BY <3>1, <3>2
  <2>7. ASSUME NEW b \in Index, NEW m \in DOMAIN buckets'[b], NEW n \in DOMAIN buckets'[b]
        PROVE  /\ Bucket(entries'[buckets'[b][m]].key) = b
               /\ entries'[buckets'[b][m]].key = entries'[buckets'[b][n]].key => m = n
    <3> DEFINE bm == Before(b0, p, b, m)
               bn == Before(b0, p, b, n)
    <3>1. /\ bm \in DOMAIN buckets[b] /\ buckets'[b][m] = buckets[b][bm]
          /\ bn \in DOMAIN buckets[b] /\ buckets'[b][n] = buckets[b][bn]
      BY <2>1
    <3>2. /\ entries'[buckets'[b][m]] = entries[buckets[b][bm]]
          /\ entries'[buckets'[b][n]] = entries[buckets[b][bn]]
      <4>1. buckets'[b][m] \in DOMAIN entries' /\ buckets'[b][n] \in DOMAIN entries'
        BY <2>1, <3>1, ChainType
      <4> QED BY <2>1, <3>1, <4>1
    <3>3. bm = bn => m = n
      <4>1. buckets'[b] \in Seq(Entry)
        BY <2>1
      <4>2. m \in Nat /\ n \in Nat
        BY <4>1
      <4> QED BY <2>3, <4>2 DEF Before
    <3> HIDE DEF bm, bn
    <3> QED BY <3>1, <3>2, <3>3 DEF Inv, ChainsIntact
  <2>8. Iterating => calling /\ k = key /\ i = b0 /\ i \in Index
    BY <2>2 DEF mrsh_hashtable_del, Inv, CallInv
  <2>9. Iterating => next \in InChain(i)' \cup {NULL}
    <3> SUFFICES ASSUME Iterating, next # NULL PROVE next \in InChain(i)'
      OBVIOUS
    <3>1. PICK n \in DOMAIN buckets[i] : entries[buckets[i][n]].key = key /\ next = After(i, n)
      BY <2>1, <2>8 DEF Inv, CallInv
    <3>2. n = p
      <4>1. entries[buckets[b0][n]].key = entries[buckets[b0][p]].key /\ n \in DOMAIN buckets[b0]
        BY <3>1, <2>1, <2>8
      <4> QED BY <4>1, <2>1, <2>2, ChainType
    <3>3. p + 1 \in DOMAIN buckets[b0] /\ next = buckets[b0][p + 1]
      BY <3>1, <3>2, <2>8, <2>3 DEF After
    <3>4. buckets[b0][p + 1] # e0
      <4>1. p # p + 1
        OBVIOUS
      <4> QED BY <3>3, <4>1, <2>1, <2>2, ChainType
    <3>5. PICK n1 \in DOMAIN buckets'[b0] : buckets'[b0][n1] = next
      BY <3>3, <3>4, <2>2, <2>4
    <3>6. i' = b0
      BY <2>1, <2>8
    <3> QED BY <3>5, <3>6 DEF InChain, Range
  <2>10. ChainsIntact'
    <3>1. i' = i /\ next' = next /\ calling' = calling /\ Iterating' = Iterating /\ InChain(i)' = Range(buckets'[i])
      BY <2>1 DEF Iterating, InChain
    <3>2. InChain(i)' = Range(buckets'[i])
      BY <3>1
    <3> QED
      BY <2>6, <2>7, <2>8, <2>9, <3>1 DEF ChainsIntact, Bucket, InChain
  <2>11. CallInv'
    <3>1. \A e \in DOMAIN entries' : entries'[e].key # k
      BY <2>1, LookupIs DEF FoundByKey
    <3>2. UNCHANGED <<i, calling, key>>
      BY <2>1
    <3> QED
      BY <2>8, <3>1, <3>2 DEF Inv, CallInv, Iterating, Bucket
  <2> QED
    BY <2>5, <2>10, <2>11 DEF Inv
<1> QED
  BY <1>1, <1>2

LEMMA FinishInv ==
    ASSUME Inv, mrsh_hashtable_finish
    PROVE  Inv' /\ DOMAIN entries' = {}
<1>1. /\ buckets' = [b \in Index |-> <<>>] /\ entries' = <<>> /\ ~Iterating
      /\ i' = i /\ calling' = calling /\ key' = key
  BY DEF mrsh_hashtable_finish
<1>2. DOMAIN entries' = {} /\ entries' \in [DOMAIN entries' -> EntryRecord]
  <2>1. <<>> \in Seq(EntryRecord) /\ Len(<<>>) = 0
    BY EmptySeq
  <2> QED BY <1>1, <2>1
<1>3. \A b \in Index : DOMAIN buckets'[b] = {} /\ InChain(b)' = {}
  BY <1>1 DEF InChain, Range
<1>4. buckets' \in [Index -> Seq(Entry)]
  BY <1>1, EmptySeq
<1>5. TableInv'
  BY <1>2, <1>3, <1>4 DEF TableInv, HashesKept
<1>6. IterationInv'
  BY <1>1, InvParts, IterationInvUnchanged
<1> QED
  BY <1>2, <1>5, <1>6, InvPartsNext

\* The head of a chain is in it.
LEMMA FirstInChain ==
    ASSUME Inv, NEW b \in Index
    PROVE  First(buckets[b]) \in InChain(b) \cup {NULL}
<1>1. buckets[b] \in Seq(Entry)
  BY ChainType
<1>2. buckets[b] # <<>> => 1 \in DOMAIN buckets[b] /\ Head(buckets[b]) = buckets[b][1]
  BY <1>1
<1> QED
  BY <1>2 DEF First, InChain, Range

LEMMA ForEachInv ==
    ASSUME Inv, mrsh_hashtable_for_each
    PROVE  Inv'
<1>1. /\ ~Iterating /\ i' = 0 /\ entry' = First(buckets[0])
      /\ buckets' = buckets /\ entries' = entries /\ calling' = calling /\ key' = key
  BY DEF mrsh_hashtable_for_each
<1>2. Buckets \in Nat /\ 0 \in Index
  BY HashTableAssumption DEF Index
<1>3. calling = FALSE
  BY <1>1 DEF Inv, TypeOK, CallInv
<1>4. entry' \in InChain(i)' \cup {NULL}
  BY <1>1, <1>2, FirstInChain DEF InChain
<1>5. TableInv'
  BY <1>1, InvParts, TableInvUnchanged
<1>6. i' \in 0 .. Buckets
  BY <1>1, <1>2
<1>7. IterationInv'
  BY <1>1, <1>3, <1>4, <1>6 DEF IterationInv, CallInv, Inv
<1> QED
  BY <1>5, <1>7, InvPartsNext

LEMMA NextBucketInv ==
    ASSUME Inv, NextBucket
    PROVE  Inv'
<1>1. /\ Iterating /\ calling' = calling /\ ~calling /\ i' = i + 1 /\ key' = key
      /\ entry' = IF i + 1 < Buckets THEN First(buckets[i + 1]) ELSE NULL
      /\ buckets' = buckets /\ entries' = entries
  BY DEF NextBucket
<1>2. Buckets \in Nat /\ i \in 0 .. Buckets /\ i < Buckets
  BY <1>1, HashTableAssumption DEF Inv, TypeOK, Iterating
<1>3. i + 1 < Buckets => i + 1 \in Index
  BY <1>2 DEF Index
<1>4. entry' \in InChain(i)' \cup {NULL}
  BY <1>1, <1>3, FirstInChain DEF InChain
<1>5. TableInv'
  BY <1>1, InvParts, TableInvUnchanged
<1>6. i' \in 0 .. Buckets
  BY <1>1, <1>2
<1>7. calling' = FALSE
  BY <1>1 DEF Inv, TypeOK
<1>8. IterationInv'
  BY <1>1, <1>4, <1>6, <1>7 DEF IterationInv, CallInv, Inv
<1> QED
  BY <1>5, <1>8, InvPartsNext

\* What follows an entry of a chain is what its next pointer holds.
LEMMA NextOfIs ==
    ASSUME Inv, NEW b \in Index, NEW n \in DOMAIN buckets[b]
    PROVE  NextOf(buckets[b][n], b) = After(b, n)
<1> DEFINE at == {m \in DOMAIN buckets[b] : buckets[b][m] = buckets[b][n] /\ m < Len(buckets[b])}
<1>1. /\ \A m \in DOMAIN buckets[b] : buckets[b][m] = buckets[b][n] => m = n
      /\ n \in Nat
  BY ChainType
<1>2. n < Len(buckets[b]) => at = {n}
  BY <1>1
<1>3. ~(n < Len(buckets[b])) => at = {}
  BY <1>1
<1>4. NextOf(buckets[b][n], b) = IF at = {} THEN NULL ELSE buckets[b][FirstOf(at) + 1]
  BY DEF NextOf
<1> HIDE DEF at
<1>5. n < Len(buckets[b]) => at # {} /\ FirstOf(at) = n
  BY <1>1, <1>2, FirstOfSingle
<1> QED
  BY <1>3, <1>4, <1>5 DEF After

\* The iterator is called for an entry of the chain, and next is what follows it.
LEMMA CallPlace ==
    ASSUME Inv, CallIterator
    PROVE  /\ i \in Index
           /\ \E n \in DOMAIN buckets[i] :
                /\ entry = buckets[i][n] /\ entry \in DOMAIN entries
                /\ key' = entries[entry].key /\ key' \in Key /\ Bucket(entries[entry].key) = i
                /\ next' = After(i, n)
<1>1. Iterating /\ ~calling /\ entry # NULL /\ next' = NextOf(entry, i) /\ key' = entries[entry].key
  BY DEF CallIterator
<1>2. i \in Index
  BY <1>1, HashTableAssumption DEF Inv, TypeOK, Iterating, Index
<1>3. PICK n \in DOMAIN buckets[i] : entry = buckets[i][n]
  BY <1>1 DEF Inv, ChainsIntact, InChain, Range
<1>4. entry \in DOMAIN entries /\ next' = After(i, n)
  BY <1>1, <1>2, <1>3, ChainType, NextOfIs
<1>5. entries[entry].key \in Key
  BY <1>4, LookupIs DEF FoundByKey
<1>6. Bucket(entries[entry].key) = i
  BY <1>2, <1>3 DEF Inv, ChainsIntact
<1> QED
  BY <1>1, <1>2, <1>3, <1>4, <1>5, <1>6

LEMMA CallIteratorInv ==
    ASSUME Inv, CallIterator
    PROVE  Inv'
<1>1. PICK n \in DOMAIN buckets[i] :
        /\ entry = buckets[i][n] /\ entry \in DOMAIN entries
        /\ key' = entries[entry].key /\ key' \in Key /\ Bucket(entries[entry].key) = i
        /\ next' = After(i, n)
  BY CallPlace
<1>2. i \in Index /\ Iterating /\ calling' = TRUE /\ i' = i /\ buckets' = buckets /\ entries' = entries
  BY CallPlace DEF CallIterator
<1>3. next' \in InChain(i) \cup {NULL}
  BY <1>1, <1>2, ChainType DEF After, InChain, Range
<1>4. InChain(i)' = InChain(i)
  BY <1>2 DEF InChain
<1>5. CallInv'
  <2>1. Iterating' /\ key' \in Key /\ Bucket(key') = i'
    BY <1>1, <1>2 DEF Iterating
  <2>2. \E m \in DOMAIN buckets'[i'] : entries'[buckets'[i'][m]].key = key' /\ next' = After(i, m)
    BY <1>1, <1>2
  <2> QED BY <2>1, <2>2, <1>2 DEF CallInv, After, Bucket
<1>6. IterationInv'
  BY <1>2, <1>3, <1>4, <1>5 DEF IterationInv, Inv, TypeOK
<1> QED
  BY <1>2, <1>6, InvParts, TableInvUnchanged, InvPartsNext

LEMMA IteratorReturnsInv ==
    ASSUME Inv, IteratorReturns
    PROVE  Inv'
<1>1. /\ Iterating /\ calling /\ calling' = FALSE /\ entry' = next /\ key' = NULL
      /\ i' = i /\ buckets' = buckets /\ entries' = entries
  BY DEF IteratorReturns
<1>2. InChain(i)' = InChain(i)
  BY <1>1 DEF InChain
<1>3. next \in InChain(i) \cup {NULL}
  BY <1>1 DEF Inv, ChainsIntact
<1>4. IterationInv'
  BY <1>1, <1>2, <1>3 DEF IterationInv, Inv, TypeOK, CallInv
<1> QED
  BY <1>1, <1>4, InvParts, TableInvUnchanged, InvPartsNext

LEMMA NextInv == Inv /\ [Next]_vars => Inv'
<1> SUFFICES ASSUME Inv, [Next]_vars PROVE Inv'
  OBVIOUS
<1>1. ASSUME NEW k \in Key, mrsh_hashtable_get(k) PROVE Inv'
  BY <1>1, InvUnchanged DEF mrsh_hashtable_get
<1>2. ASSUME NEW k \in Key, mrsh_hashtable_del(k) PROVE Inv'
  BY <1>2, DelInv
<1>3. ASSUME NEW k \in Key, NEW v \in Value, mrsh_hashtable_set(k, v) PROVE Inv'
  BY <1>3, SetPresentInv, SetAbsentInv
<1>4. CASE mrsh_hashtable_for_each
  BY <1>4, ForEachInv
<1>5. CASE CallIterator
  BY <1>5, CallIteratorInv
<1>6. CASE IteratorReturns
  BY <1>6, IteratorReturnsInv
<1>7. CASE NextBucket
  BY <1>7, NextBucketInv
<1>8. CASE mrsh_hashtable_finish
  BY <1>8, FinishInv
<1>9. CASE UNCHANGED vars
  BY <1>9, InvUnchanged DEF vars
<1> QED
  BY <1>1, <1>2, <1>3, <1>4, <1>5, <1>6, <1>7, <1>8, <1>9 DEF Next

THEOREM InvHolds == Spec => []Inv
  BY InitInv, NextInv, PTL DEF Spec

\* The chains of the table stay intact, and no iteration holds a pointer to a freed entry,
\* for every hash function and every number of buckets: what get, set, del and for_each do
\* with the next pointers never loses an entry, doubles a key or leaves a freed entry in
\* a chain.
THEOREM ChainsIntactHolds == Spec => []ChainsIntact
<1>1. Inv => ChainsIntact
  BY DEF Inv
<1> QED
  BY <1>1, InvHolds, PTL

-----------------------------------------------------------------------------
(* The refinement *)

\* From, of a chain.
TailFrom(s, e) == {s[m] : m \in {n \in DOMAIN s : \E j \in 1 .. n : s[j] = e}}

NoDuplicates(s) == \A m, n \in DOMAIN s : s[m] = s[n] => m = n

LEMMA TailOfNull ==
    ASSUME NEW s \in Seq(Entry)
    PROVE  TailFrom(s, NULL) = {}
<1>1. \A n \in DOMAIN s : \A j \in 1 .. n : s[j] # NULL
  BY HashTableAssumption
<1> QED
  BY <1>1 DEF TailFrom

LEMMA TailOfPlace ==
    ASSUME NEW s \in Seq(Entry), NoDuplicates(s), NEW n \in DOMAIN s
    PROVE  TailFrom(s, s[n]) = {s[m] : m \in n .. Len(s)}
<1>1. n \in Nat /\ n >= 1 /\ n <= Len(s) /\ Len(s) \in Nat /\ DOMAIN s = 1 .. Len(s)
  OBVIOUS
<1>2. \A m \in DOMAIN s : (\E j \in 1 .. m : s[j] = s[n]) <=> n <= m
  BY <1>1 DEF NoDuplicates
<1>3. {m \in DOMAIN s : \E j \in 1 .. m : s[j] = s[n]} = n .. Len(s)
  BY <1>1, <1>2
<1> QED
  BY <1>3 DEF TailFrom

LEMMA TailOfFirst ==
    ASSUME NEW s \in Seq(Entry), NoDuplicates(s)
    PROVE  TailFrom(s, First(s)) = Range(s)
<1>1. CASE s = <<>>
  <2>1. DOMAIN s = {} /\ First(s) = NULL
    BY <1>1 DEF First
  <2> QED BY <2>1 DEF TailFrom, Range
<1>2. CASE s # <<>>
  <2>1. 1 \in DOMAIN s /\ First(s) = s[1] /\ DOMAIN s = 1 .. Len(s)
    BY <1>2 DEF First
  <2> QED BY <2>1, TailOfPlace DEF Range
<1> QED
  BY <1>1, <1>2

FollowerIn(s, n) == IF n < Len(s) THEN s[n + 1] ELSE NULL

LEMMA TailOfFollower ==
    ASSUME NEW s \in Seq(Entry), NoDuplicates(s), NEW n \in DOMAIN s
    PROVE  TailFrom(s, FollowerIn(s, n)) = {s[m] : m \in n + 1 .. Len(s)}
<1>1. n \in Nat /\ n >= 1 /\ n <= Len(s) /\ Len(s) \in Nat /\ DOMAIN s = 1 .. Len(s)
  OBVIOUS
<1>2. CASE n < Len(s)
  <2>1. n + 1 \in DOMAIN s /\ FollowerIn(s, n) = s[n + 1]
    BY <1>1, <1>2 DEF FollowerIn
  <2> QED BY <2>1, TailOfPlace
<1>3. CASE ~(n < Len(s))
  <2>1. n + 1 .. Len(s) = {} /\ FollowerIn(s, n) = NULL
    BY <1>1, <1>3 DEF FollowerIn
  <2> QED BY <2>1, TailOfNull
<1> QED
  BY <1>2, <1>3

\* What comes after an entry is the same when that entry is unlinked.
LEMMA TailOfUnlinked ==
    ASSUME NEW s \in Seq(Entry), NoDuplicates(s), NEW n \in DOMAIN s
    PROVE  TailFrom(Unlinked(s, n), FollowerIn(s, n)) = TailFrom(s, FollowerIn(s, n))
<1> DEFINE t == Unlinked(s, n)
<1>1. n \in Nat /\ n >= 1 /\ n <= Len(s) /\ Len(s) \in Nat /\ DOMAIN s = 1 .. Len(s)
  OBVIOUS
<1>2. /\ t \in Seq(Entry) /\ Len(t) = Len(s) - 1
      /\ \A m \in 1 .. Len(s) - 1 : t[m] = IF m < n THEN s[m] ELSE s[m + 1]
  BY UnlinkedIs
<1> HIDE DEF t
<1>3. DOMAIN t = 1 .. Len(s) - 1
  BY <1>2
<1>4. NoDuplicates(t)
  <2> SUFFICES ASSUME NEW a \in DOMAIN t, NEW b \in DOMAIN t, t[a] = t[b] PROVE a = b
    BY DEF NoDuplicates
  <2> DEFINE a1 == IF a < n THEN a ELSE a + 1
             b1 == IF b < n THEN b ELSE b + 1
  <2>1. a1 \in DOMAIN s /\ b1 \in DOMAIN s
    BY <1>1, <1>3
  <2>2. t[a] = s[a1] /\ t[b] = s[b1]
    BY <1>2, <1>3
  <2>3. a1 = b1
    BY <2>1, <2>2 DEF NoDuplicates
  <2> QED BY <2>3, <1>1, <1>3
<1>5. CASE n < Len(s)
  <2>1. n \in DOMAIN t /\ t[n] = s[n + 1] /\ FollowerIn(s, n) = s[n + 1]
    BY <1>1, <1>2, <1>3, <1>5 DEF FollowerIn
  <2>2. TailFrom(t, FollowerIn(s, n)) = {t[m] : m \in n .. Len(t)}
    BY <2>1, <1>2, <1>4, TailOfPlace
  <2>3. \A m \in n .. Len(t) : t[m] = s[m + 1] /\ m + 1 \in n + 1 .. Len(s)
    BY <1>1, <1>2
  <2>4. \A m \in n + 1 .. Len(s) : t[m - 1] = s[m] /\ m - 1 \in n .. Len(t)
    BY <1>1, <1>2
  <2>5. {t[m] : m \in n .. Len(t)} = {s[m] : m \in n + 1 .. Len(s)}
    <3> DEFINE A == n .. Len(t)
               B == n + 1 .. Len(s)
    <3>1. \A m \in A : \E m1 \in B : t[m] = s[m1]
      BY <2>3
    <3>2. \A m \in B : \E m1 \in A : s[m] = t[m1]
      BY <2>4
    <3> HIDE DEF A, B
    <3>3. {t[m] : m \in A} = {s[m] : m \in B}
      BY <3>1, <3>2
    <3> QED BY <3>3 DEF A, B
  <2> QED BY <2>2, <2>5, TailOfFollower DEF t
<1>6. CASE ~(n < Len(s))
  <2>1. FollowerIn(s, n) = NULL
    BY <1>6 DEF FollowerIn
  <2> QED BY <2>1, <1>2, TailOfNull DEF t
<1> QED
  BY <1>5, <1>6

\* The keys and values of the map do not change when the table does not.
LEMMA MapUnchanged ==
    ASSUME buckets' = buckets, entries' = entries, NEW k \in Key
    PROVE  Lookup(k)' = Lookup(k)
  BY DEF Lookup, Has, Found, Places, Is

LEMMA MapVarsUnchanged ==
    ASSUME UNCHANGED <<buckets, entries, i, entry, calling, next, key>>
    PROVE  /\ [k \in Key |-> Lookup(k)]' = [k \in Key |-> Lookup(k)]
           /\ {entries[e].key : e \in Ahead}' = {entries[e].key : e \in Ahead}
           /\ key' = key
<1>1. [k \in Key |-> Lookup(k)]' = [k \in Key |-> Lookup(k)]
  BY MapUnchanged
<1>2. Ahead' = Ahead
  BY DEF Ahead, From, Iterating, InChain
<1> QED
  BY <1>1, <1>2

\* The iteration of the map is one of the table.
LEMMA MapIterating ==
    ASSUME Inv, M!Iterating
    PROVE  Iterating
  BY DEF M!Iterating, Ahead, Inv, CallInv

LEMMA RefinesInit == Init => M!Init
<1> SUFFICES ASSUME Init PROVE M!Init
  OBVIOUS
<1>1. Inv
  BY InitInv
<1>2. \A k \in Key : Lookup(k) = NULL
  BY <1>1, LookupIs DEF FoundByKey, Init
<1>3. ~Iterating
  BY HashTableAssumption DEF Init, Iterating
<1>4. {entries[e].key : e \in Ahead} = {}
  BY <1>3 DEF Ahead
<1> QED
  BY <1>2, <1>4 DEF M!Init, Init

LEMMA GetRefines ==
    ASSUME Inv, NEW k \in Key, mrsh_hashtable_get(k)
    PROVE  M!Get(k)
<1>1. ret' = [x \in Key |-> Lookup(x)][k]
  BY DEF mrsh_hashtable_get
<1> QED
  BY <1>1, MapVarsUnchanged DEF M!Get, mrsh_hashtable_get

LEMMA SetRefines ==
    ASSUME Inv, NEW k \in Key, NEW v \in Value, mrsh_hashtable_set(k, v)
    PROVE  M!Set(k, v)
<1>1. ~Iterating /\ i' = i /\ key' = key
  BY DEF mrsh_hashtable_set
<1>2. Ahead = {} /\ Ahead' = {}
  BY <1>1 DEF Ahead, Iterating
<1>3. Inv'
  BY SetPresentInv, SetAbsentInv
<1>4. ret' = Lookup(k)
  <2>1. CASE Has(k)
    BY <2>1, SetPresentInv DEF Lookup
  <2>2. CASE ~Has(k)
    BY <2>2, SetAbsentInv DEF Lookup
  <2> QED BY <2>1, <2>2
<1>5. Lookup(k)' = v
  <2>1. \E e \in DOMAIN entries' : entries'[e].key = k /\ entries'[e].value = v
    <3>1. CASE Has(k)
      BY <3>1, SetPresentInv
    <3>2. CASE ~Has(k)
      <4>1. PICK e0 \in Entry : Adds(k, v, e0)
        BY <3>2, SetAbsentInv
      <4> QED BY <4>1 DEF Adds
    <3> QED BY <3>1, <3>2
  <2> QED BY <1>3, <2>1, LookupIsNext DEF FoundByKey
<1>6. ASSUME NEW x \in Key, x # k
      PROVE  Lookup(x)' = Lookup(x)
  <2>1. CASE \E e \in DOMAIN entries : entries[e].key = x
    <3>1. PICK e \in DOMAIN entries : entries[e].key = x
      BY <2>1
    <3>2. e \in DOMAIN entries' /\ entries'[e].key = x /\ entries'[e].value = entries[e].value
      BY <1>6, <3>1, SetPresentInv, SetAbsentInv DEF Adds
    <3> QED BY <1>3, <3>1, <3>2, LookupIs, LookupIsNext DEF FoundByKey
  <2>2. CASE \A e \in DOMAIN entries : entries[e].key # x
    <3>1. \A e \in DOMAIN entries' : entries'[e].key # x
      <4>1. CASE Has(k)
        BY <2>2, <4>1, SetPresentInv
      <4>2. CASE ~Has(k)
        <5>1. PICK e0 \in Entry : Adds(k, v, e0)
          BY <4>2, SetAbsentInv
        <5> QED BY <1>6, <2>2, <5>1 DEF Adds
      <4> QED BY <4>1, <4>2
    <3> QED BY <1>3, <2>2, <3>1, LookupIs, LookupIsNext DEF FoundByKey
  <2> QED BY <2>1, <2>2
<1>7. [x \in Key |-> Lookup(x)]' = [[x \in Key |-> Lookup(x)] EXCEPT ![k] = v]
  BY <1>5, <1>6
<1>8. ~M!Iterating
  BY <1>1, MapIterating
<1> QED
  BY <1>1, <1>2, <1>4, <1>7, <1>8 DEF M!Set

LEMMA FinishRefines ==
    ASSUME Inv, mrsh_hashtable_finish
    PROVE  M!Finish
<1>1. ~Iterating /\ i' = i /\ key' = key /\ ret' = ret
  BY DEF mrsh_hashtable_finish
<1>2. Ahead = {} /\ Ahead' = {}
  BY <1>1 DEF Ahead, Iterating
<1>3. \A k \in Key : Lookup(k)' = NULL
  BY FinishInv, LookupIsNext DEF FoundByKey
<1>4. ~M!Iterating
  BY <1>1, MapIterating
<1> QED
  BY <1>1, <1>2, <1>3, <1>4 DEF M!Finish

\* The follower and the tail that the iteration goes on with, as it stands in bucket b.
LEMMA FromIsTail == \A b : \A e : From(e, b) = TailFrom(buckets[b], e)
  BY DEF From, TailFrom

LEMMA ChainNoDuplicates ==
    ASSUME Inv, NEW b \in Index
    PROVE  NoDuplicates(buckets[b])
  BY ChainType DEF NoDuplicates

LEMMA AheadType ==
    ASSUME Inv
    PROVE  Ahead \subseteq DOMAIN entries
<1>1. \A b \in Index : InChain(b) \subseteq DOMAIN entries
  BY DEF Inv, ChainsIntact
<1>2. Iterating => i \in Index
  BY HashTableAssumption DEF Inv, TypeOK, Iterating, Index
<1>3. \A e : From(e, i) \subseteq InChain(i)
  BY DEF From, InChain, Range
<1> QED
  BY <1>1, <1>2, <1>3 DEF Ahead

\* While the iterator runs and its entry is still there, next follows that entry.
LEMMA DelRefines ==
    ASSUME Inv, NEW k \in Key, mrsh_hashtable_del(k)
    PROVE  M!Del(k)
<1>1. M!Iterating => k = key
  BY MapIterating DEF mrsh_hashtable_del
<1>2. CASE ~Has(k)
  <2>1. ret' = NULL /\ UNCHANGED <<buckets, entries, i, entry, calling, next, key>>
    BY <1>2 DEF mrsh_hashtable_del
  <2>2. Lookup(k) = NULL
    BY <1>2 DEF Lookup
  <2>3. [[x \in Key |-> Lookup(x)] EXCEPT ![k] = NULL] = [x \in Key |-> Lookup(x)]
    BY <2>2
  <2> QED BY <1>1, <2>1, <2>2, <2>3, MapVarsUnchanged DEF M!Del
<1>3. CASE Has(k)
  <2> DEFINE b0 == Bucket(k)
  <2>1. PICK p \in Nat, e0 \in Entry : Removes(k, p, e0)
    BY <1>3, DelPresent
  <2>2. /\ p \in DOMAIN buckets[b0] /\ e0 = buckets[b0][p]
        /\ e0 \in DOMAIN entries /\ entries[e0].key = k
        /\ ret' = entries[e0].value
        /\ DOMAIN entries' = DOMAIN entries \ {e0}
        /\ \A e \in DOMAIN entries' : entries'[e] = entries[e]
        /\ \A b \in Index \ {b0} : buckets'[b] = buckets[b]
        /\ buckets'[b0] = Unlinked(buckets[b0], p)
        /\ i' = i /\ entry' = entry /\ calling' = calling /\ next' = next /\ key' = key
    BY <2>1 DEF Removes
  <2>3. Inv' /\ b0 \in Index
    BY DelInv, BucketType
  <2>4. ret' = Lookup(k)
    BY <2>2, LookupIs DEF FoundByKey
  <2>5. \A e \in DOMAIN entries : entries[e].key = k => e = e0
    BY <2>2, LookupIs DEF FoundByKey
  <2>6. Lookup(k)' = NULL
    BY <2>2, <2>3, <2>5, LookupIsNext DEF FoundByKey
  <2>7. ASSUME NEW x \in Key, x # k
        PROVE  Lookup(x)' = Lookup(x)
    <3>1. CASE \E e \in DOMAIN entries : entries[e].key = x
      <4>1. PICK e \in DOMAIN entries : entries[e].key = x
        BY <3>1
      <4>2. e \in DOMAIN entries' /\ entries'[e] = entries[e]
        BY <2>2, <2>7, <4>1
      <4> QED BY <2>3, <4>1, <4>2, LookupIs, LookupIsNext DEF FoundByKey
    <3>2. CASE \A e \in DOMAIN entries : entries[e].key # x
      <4>1. \A e \in DOMAIN entries' : entries'[e].key # x
        BY <2>2, <3>2
      <4> QED BY <2>3, <3>2, <4>1, LookupIs, LookupIsNext DEF FoundByKey
    <3> QED BY <3>1, <3>2
  <2>8. [x \in Key |-> Lookup(x)]' = [[x \in Key |-> Lookup(x)] EXCEPT ![k] = NULL]
    BY <2>6, <2>7
  <2>9. Ahead' = Ahead /\ e0 \notin Ahead
    <3>1. CASE ~Iterating
      BY <3>1, <2>2 DEF Ahead, Iterating
    <3>2. CASE Iterating
      <4>1. calling /\ key = k /\ i = b0
        BY <3>2 DEF mrsh_hashtable_del, Inv, CallInv
      <4>2. PICK n \in DOMAIN buckets[i] : entries[buckets[i][n]].key = key /\ next = After(i, n)
        BY <4>1, <2>2 DEF Inv, CallInv
      <4>3. n = p
        <5>1. entries[buckets[b0][n]].key = entries[buckets[b0][p]].key /\ n \in DOMAIN buckets[b0]
          BY <4>1, <4>2, <2>2
        <5> QED BY <5>1, <2>2, <2>3, ChainType
      <4>4. next = FollowerIn(buckets[b0], p)
        BY <4>1, <4>2, <4>3 DEF After, FollowerIn
      <4>5. buckets[b0] \in Seq(Entry) /\ NoDuplicates(buckets[b0])
        BY <2>3, ChainType, ChainNoDuplicates
      <4>6. TailFrom(buckets'[b0], next) = TailFrom(buckets[b0], next)
        BY <2>2, <4>4, <4>5, TailOfUnlinked
      <4>7. From(next, i)' = TailFrom(buckets'[b0], next) /\ From(next, i) = TailFrom(buckets[b0], next)
        BY <2>2, <4>1 DEF From, TailFrom
      <4>8. UNION {InChain(b) : b \in {c \in Index : c > i}}' = UNION {InChain(b) : b \in {c \in Index : c > i}}
        <5>1. \A b \in Index : b > i => InChain(b)' = InChain(b)
          BY <2>2, <2>3, <4>1 DEF InChain, Index
        <5> QED BY <2>2, <5>1
      <4>9. Ahead' = Ahead
        BY <2>2, <3>2, <4>1, <4>6, <4>7, <4>8 DEF Ahead, Iterating
      <4>10. e0 \notin From(next, i)
        <5>1. From(next, i) = {buckets[b0][m] : m \in p + 1 .. Len(buckets[b0])}
          BY <2>2, <4>4, <4>5, <4>7, TailOfFollower
        <5>2. \A m \in p + 1 .. Len(buckets[b0]) : buckets[b0][m] # e0
          BY <2>2, <2>3, <4>5, ChainType
        <5> QED BY <5>1, <5>2
      <4>11. \A b \in Index : b > i => e0 \notin InChain(b)
        BY <2>2, <2>3, <4>1 DEF Inv, ChainsIntact, InChain, Range, Index
      <4> QED BY <3>2, <4>1, <4>9, <4>10, <4>11 DEF Ahead
    <3> QED BY <3>1, <3>2
  <2>10. {entries[e].key : e \in Ahead}' = {entries[e].key : e \in Ahead}
    <3>1. Ahead \subseteq DOMAIN entries
      BY AheadType
    <3>2. \A e \in Ahead : entries'[e] = entries[e]
      BY <2>2, <2>9, <3>1
    <3> QED BY <2>9, <3>2
  <2> QED
    BY <1>1, <2>2, <2>4, <2>8, <2>10 DEF M!Del
<1> QED
  BY <1>2, <1>3

\* An iteration begins with all the keys of the map ahead of it.
LEMMA ForEachRefines ==
    ASSUME Inv, mrsh_hashtable_for_each
    PROVE  M!ForEach
<1>1. /\ ~Iterating /\ i' = 0 /\ entry' = First(buckets[0]) /\ ret' = ret
      /\ buckets' = buckets /\ entries' = entries /\ calling' = calling /\ key' = key
  BY DEF mrsh_hashtable_for_each
<1>2. 0 \in Index /\ Iterating' /\ ~calling
  BY <1>1, HashTableAssumption DEF Index, Iterating, Inv, CallInv
<1>3. From(entry, i)' = InChain(0)
  <2>1. From(entry, i)' = TailFrom(buckets[0], First(buckets[0]))
    BY <1>1 DEF From, TailFrom
  <2>2. buckets[0] \in Seq(Entry) /\ NoDuplicates(buckets[0])
    BY <1>2, ChainType, ChainNoDuplicates
  <2> QED BY <2>1, <2>2, TailOfFirst DEF InChain
<1>4. Ahead' = DOMAIN entries
  <2>1. Ahead' = InChain(0) \cup UNION {InChain(b) : b \in {c \in Index : c > 0}}
    <3>1. Ahead' = From(entry, i)' \cup UNION {InChain(b) : b \in {c \in Index : c > i}}'
      BY <1>1, <1>2 DEF Ahead
    <3>2. UNION {InChain(b) : b \in {c \in Index : c > i}}' = UNION {InChain(b) : b \in {c \in Index : c > 0}}
      BY <1>1 DEF InChain
    <3> QED BY <1>3, <3>1, <3>2
  <2>2. \A b \in Index : b = 0 \/ b > 0
    BY HashTableAssumption DEF Index
  <2>3. DOMAIN entries = UNION {InChain(b) : b \in Index}
    BY DEF Inv, ChainsIntact
  <2> QED BY <1>2, <2>1, <2>2, <2>3
<1>5. {entries[e].key : e \in Ahead}' = {k \in Key : Lookup(k) # NULL}
  <2>1. \A e \in DOMAIN entries : entries[e].key \in Key /\ Lookup(entries[e].key) # NULL
    BY LookupIs, HashTableAssumption DEF FoundByKey, Inv, TypeOK, EntryRecord
  <2>2. \A k \in Key : Lookup(k) # NULL => \E e \in DOMAIN entries : entries[e].key = k
    BY LookupIs DEF FoundByKey
  <2>3. {entries[e].key : e \in Ahead}' = {entries[e].key : e \in DOMAIN entries}
    BY <1>1, <1>4
  <2> QED BY <2>1, <2>2, <2>3
<1>6. M!Present = {k \in Key : Lookup(k) # NULL}
  BY DEF M!Present
<1>7. [k \in Key |-> Lookup(k)]' = [k \in Key |-> Lookup(k)]
  BY <1>1, MapUnchanged
<1>8. ~M!Iterating
  BY <1>1, MapIterating
<1> QED
  BY <1>1, <1>5, <1>6, <1>7, <1>8 DEF M!ForEach

\* What the iterator is called for is ahead of it, and is then behind it.
LEMMA CallRefines ==
    ASSUME Inv, CallIterator
    PROVE  \E k \in Key : M!Call(k)
<1>1. PICK n \in DOMAIN buckets[i] :
        /\ entry = buckets[i][n] /\ entry \in DOMAIN entries
        /\ key' = entries[entry].key /\ key' \in Key /\ Bucket(entries[entry].key) = i
        /\ next' = After(i, n)
  BY CallPlace
<1>2. /\ i \in Index /\ Iterating /\ ~calling /\ calling' = TRUE /\ i' = i
      /\ buckets' = buckets /\ entries' = entries /\ ret' = ret
  BY CallPlace DEF CallIterator
<1>3. /\ buckets[i] \in Seq(Entry) /\ NoDuplicates(buckets[i])
      /\ DOMAIN buckets[i] = 1 .. Len(buckets[i]) /\ n \in 1 .. Len(buckets[i]) /\ Len(buckets[i]) \in Nat
  BY <1>1, <1>2, ChainType, ChainNoDuplicates
<1>4. From(entry, i) = {buckets[i][m] : m \in n .. Len(buckets[i])}
  BY <1>1, <1>3, TailOfPlace, FromIsTail
<1>5. From(next, i)' = {buckets[i][m] : m \in n + 1 .. Len(buckets[i])}
  <2>1. From(next, i)' = TailFrom(buckets[i], FollowerIn(buckets[i], n))
    BY <1>1, <1>2 DEF From, TailFrom, After, FollowerIn
  <2> QED BY <1>1, <1>3, <2>1, TailOfFollower
<1> DEFINE later == UNION {InChain(b) : b \in {c \in Index : c > i}}
<1>6. Ahead = From(entry, i) \cup later
  BY <1>2 DEF Ahead
<1>7. Ahead' = From(next, i)' \cup later
  <2>1. later' = later
    BY <1>2 DEF InChain
  <2>2. Iterating'
    BY <1>2 DEF Iterating
  <2> QED BY <1>2, <2>1, <2>2 DEF Ahead
<1>8. entry \notin later
  BY <1>1, <1>2 DEF Inv, ChainsIntact, InChain, Range, Index
<1> HIDE DEF later
<1>9. entry \in Ahead /\ Ahead' = Ahead \ {entry}
  <2>1. \A m \in n + 1 .. Len(buckets[i]) : buckets[i][m] # entry
    BY <1>1, <1>3 DEF NoDuplicates
  <2>2. n .. Len(buckets[i]) = {n} \cup (n + 1 .. Len(buckets[i]))
    BY <1>3
  <2>3. From(entry, i) = {entry} \cup From(next, i)'
    BY <1>1, <1>4, <1>5, <2>2
  <2>4. entry \notin From(next, i)'
    BY <1>5, <2>1
  <2> QED BY <1>6, <1>7, <1>8, <2>3, <2>4
<1>10. /\ key' \in {entries[e].key : e \in Ahead}
       /\ {entries[e].key : e \in Ahead}' = {entries[e].key : e \in Ahead} \ {key'}
  <2>1. \A e \in Ahead : e # entry => entries[e].key # entries[entry].key
    BY <1>1, AheadType, LookupIs DEF FoundByKey
  <2>2. {entries[e].key : e \in Ahead}' = {entries[e].key : e \in Ahead \ {entry}}
    BY <1>2, <1>9
  <2>3. {entries[e].key : e \in Ahead \ {entry}} = {entries[e].key : e \in Ahead} \ {entries[entry].key}
    BY <1>9, <2>1
  <2> QED BY <1>1, <1>9, <2>2, <2>3
<1>11. [k \in Key |-> Lookup(k)]' = [k \in Key |-> Lookup(k)]
  BY <1>2, MapUnchanged
<1>12. key = NULL
  BY <1>2 DEF Inv, CallInv
<1>13. PICK k \in Key : k = key'
  BY <1>1
<1>14. M!Call(k)
  BY <1>2, <1>10, <1>11, <1>12, <1>13 DEF M!Call
<1> QED
  BY <1>14

LEMMA ReturnRefines ==
    ASSUME Inv, IteratorReturns
    PROVE  M!Return
<1>1. /\ Iterating /\ calling /\ calling' = FALSE /\ entry' = next /\ key' = NULL
      /\ i' = i /\ buckets' = buckets /\ entries' = entries /\ ret' = ret
  BY DEF IteratorReturns
<1>2. key # NULL
  BY <1>1, HashTableAssumption DEF Inv, CallInv
<1>3. Ahead' = Ahead
  BY <1>1 DEF Ahead, From, Iterating, InChain
<1>4. {entries[e].key : e \in Ahead}' = {entries[e].key : e \in Ahead}
  BY <1>1, <1>3
<1>5. [k \in Key |-> Lookup(k)]' = [k \in Key |-> Lookup(k)]
  BY <1>1, MapUnchanged
<1> QED
  BY <1>1, <1>2, <1>4, <1>5 DEF M!Return

\* Going from one bucket to the next changes nothing for the user of the table.
LEMMA NextBucketRefines ==
    ASSUME Inv, NextBucket
    PROVE  UNCHANGED M!vars
<1>1. /\ Iterating /\ ~calling /\ entry = NULL /\ calling' = calling /\ i' = i + 1 /\ key' = key
      /\ entry' = IF i + 1 < Buckets THEN First(buckets[i + 1]) ELSE NULL
      /\ buckets' = buckets /\ entries' = entries /\ ret' = ret
  BY DEF NextBucket
<1>2. Buckets \in Nat /\ i \in Nat /\ i < Buckets /\ i \in Index
  BY <1>1, HashTableAssumption DEF Inv, TypeOK, Iterating, Index
<1>3. From(entry, i) = {}
  BY <1>1, <1>2, ChainType, TailOfNull, FromIsTail
<1>4. Ahead = UNION {InChain(b) : b \in {c \in Index : c > i}}
  BY <1>1, <1>3 DEF Ahead
<1>5. ASSUME i + 1 < Buckets PROVE Ahead' = Ahead
  <2>1. i + 1 \in Index /\ Iterating'
    BY <1>1, <1>2, <1>5 DEF Index, Iterating
  <2>2. From(entry, i)' = InChain(i + 1)
    <3>1. From(entry, i)' = TailFrom(buckets[i + 1], First(buckets[i + 1]))
      BY <1>1, <1>5 DEF From, TailFrom
    <3>2. buckets[i + 1] \in Seq(Entry) /\ NoDuplicates(buckets[i + 1])
      BY <2>1, ChainType, ChainNoDuplicates
    <3> QED BY <3>1, <3>2, TailOfFirst DEF InChain
  <2>3. Ahead' = InChain(i + 1) \cup UNION {InChain(b) : b \in {c \in Index : c > i + 1}}
    <3>1. UNION {InChain(b) : b \in {c \in Index : c > i}}' = UNION {InChain(b) : b \in {c \in Index : c > i + 1}}
      BY <1>1 DEF InChain
    <3>2. Ahead' = From(entry, i)' \cup UNION {InChain(b) : b \in {c \in Index : c > i}}'
      BY <1>1, <2>1 DEF Ahead
    <3> QED BY <2>2, <3>1, <3>2
  <2>4. {c \in Index : c > i} = {i + 1} \cup {c \in Index : c > i + 1}
    BY <1>2, <2>1 DEF Index
  <2> QED BY <1>4, <2>3, <2>4
<1>6. ASSUME ~(i + 1 < Buckets) PROVE Ahead' = Ahead
  <2>1. ~Iterating'
    BY <1>1, <1>6 DEF Iterating
  <2>2. {c \in Index : c > i} = {}
    BY <1>2, <1>6 DEF Index
  <2> QED BY <1>4, <2>1, <2>2 DEF Ahead
<1>7. Ahead' = Ahead
  BY <1>5, <1>6
<1> QED
  BY <1>1, <1>7, MapUnchanged DEF M!vars

\* Every step of the table is a step of the map or changes nothing in it.
LEMMA RefinesNext == Inv /\ [Next]_vars => [M!Next]_M!vars
<1> SUFFICES ASSUME Inv, [Next]_vars PROVE [M!Next]_M!vars
  OBVIOUS
<1>1. ASSUME NEW k \in Key, mrsh_hashtable_get(k) PROVE M!Next
  BY <1>1, GetRefines DEF M!Next
<1>2. ASSUME NEW k \in Key, mrsh_hashtable_del(k) PROVE M!Next
  BY <1>2, DelRefines DEF M!Next
<1>3. ASSUME NEW k \in Key, NEW v \in Value, mrsh_hashtable_set(k, v) PROVE M!Next
  BY <1>3, SetRefines DEF M!Next
<1>4. CASE mrsh_hashtable_for_each
  BY <1>4, ForEachRefines DEF M!Next
<1>5. CASE CallIterator
  BY <1>5, CallRefines DEF M!Next
<1>6. CASE IteratorReturns
  BY <1>6, ReturnRefines DEF M!Next
<1>7. CASE NextBucket
  BY <1>7, NextBucketRefines
<1>8. CASE mrsh_hashtable_finish
  BY <1>8, FinishRefines DEF M!Next
<1>9. CASE UNCHANGED vars
  <2>1. UNCHANGED <<buckets, entries, i, entry, calling, next, key>> /\ ret' = ret
    BY <1>9 DEF vars
  <2> QED BY <2>1, MapVarsUnchanged DEF M!vars
<1> QED
  BY <1>1, <1>2, <1>3, <1>4, <1>5, <1>6, <1>7, <1>8, <1>9 DEF Next

\* ImplementsMap: whatever the hash function, the table of hashtable.c behaves as a map.
\* Each operation returns the value that the last one has left for its key, and an iteration
\* calls its function for no key twice, for no key that was not there when it began, and ends
\* only when it has come to all of them, although its function deletes entries.
THEOREM TableRefinesMap == Spec => ImplementsMap
<1>1. Spec => M!Init /\ [][M!Next]_M!vars
  BY InvHolds, RefinesInit, RefinesNext, PTL DEF Spec
<1> QED BY <1>1 DEF ImplementsMap, M!Spec
=============================================================================
