----------------------------- MODULE HashTable ------------------------------
(***************************************************************************)
(* The hash table of hashtable.c, which holds the variables, the functions *)
(* and the aliases: a chain of entries in each bucket, found by hash and   *)
(* key.  The function of an iteration may delete the entry it is called    *)
(* for, as that of unalias -a does.                                        *)
(*                                                                         *)
(* A chain is the sequence of the entries that the next pointers lead      *)
(* through; entries are allocated and freed, and an entry that has been    *)
(* freed may be allocated again.                                           *)
(***************************************************************************)
EXTENDS Naturals, SequencesExt, FiniteSets

CONSTANTS
    Key, Value, NULL,
    Entry,     \* the memory for entries
    Buckets,   \* MRSH_HASHTABLE_BUCKETS
    djb2       \* the hash of each key

ASSUME HashTableAssumption ==
    /\ Buckets \in Nat \ {0}
    /\ djb2 \in [Key -> Nat]
    /\ NULL \notin Key \cup Value \cup Entry
    /\ IsFiniteSet(Key) /\ IsFiniteSet(Entry)

VARIABLES
    buckets,  \* the chain of each bucket
    entries,  \* the entries in use, with their hash, key and value
    ret,      \* what the last operation has returned
    \* The iteration, as it stands in mrsh_hashtable_for_each.
    i,        \* the bucket, or Buckets if there is no iteration
    entry,    \* the entry that is next to be looked at
    calling,  \* the iterator has been called for entry
    next,     \* entry->next, read before that call
    key       \* the key that the iterator has been called with, or NULL

vars == <<buckets, entries, ret, i, entry, calling, next, key>>

Index == 0 .. Buckets - 1
Bucket(k) == djb2[k] % Buckets

Is(e, k) == entries[e].hash = djb2[k] /\ entries[e].key = k

\* The first of the places in a chain that are in S.
FirstOf(S) == CHOOSE n \in S : \A m \in S : n <= m

\* The places of the entries for k in its chain; the loops stop at the first.
Places(k) == {n \in DOMAIN buckets[Bucket(k)] : Is(buckets[Bucket(k)][n], k)}
Has(k) == Places(k) # {}
Found(k) == buckets[Bucket(k)][FirstOf(Places(k))]
Lookup(k) == IF Has(k) THEN entries[Found(k)].value ELSE NULL

First(chain) == IF chain = <<>> THEN NULL ELSE Head(chain)
\* e->next, of an entry in the chain of bucket b.
NextOf(e, b) ==
    LET at == {n \in DOMAIN buckets[b] : buckets[b][n] = e /\ n < Len(buckets[b])}
    IN  IF at = {} THEN NULL ELSE buckets[b][FirstOf(at) + 1]

Iterating == i < Buckets

Init ==
    /\ buckets = [b \in Index |-> <<>>] /\ entries = << >> /\ ret = NULL
    /\ i = Buckets /\ entry = NULL /\ calling = FALSE /\ next = NULL /\ key = NULL

mrsh_hashtable_get(k) ==
    /\ ret' = Lookup(k)
    /\ UNCHANGED <<buckets, entries, i, entry, calling, next, key>>

\* A new entry goes to the end of its chain.
mrsh_hashtable_set(k, v) ==
    /\ ~Iterating
    /\ \/ /\ Has(k)
          /\ entries' = [entries EXCEPT ![Found(k)].value = v]
          /\ ret' = entries[Found(k)].value /\ UNCHANGED buckets
       \/ /\ ~Has(k)
          /\ \E e \in Entry \ DOMAIN entries :
               /\ entries' = [f \in DOMAIN entries \cup {e} |->
                                IF f = e THEN [hash |-> djb2[k], key |-> k, value |-> v] ELSE entries[f]]
               /\ buckets' = [buckets EXCEPT ![Bucket(k)] = Append(@, e)]
          /\ ret' = NULL
    /\ UNCHANGED <<i, entry, calling, next, key>>

\* Mutant: what follows the entry is unlinked with it.
Unlinked_tail(chain, n) == SubSeq(chain, 1, n - 1)

Unlinked(chain, n) == RemoveAt(chain, n)

\* During an iteration, only the entry that it is at is deleted.
mrsh_hashtable_del(k) ==
    /\ Iterating => calling /\ k = key
    /\ \/ ~Has(k) /\ ret' = NULL /\ UNCHANGED <<buckets, entries>>
       \/ /\ Has(k)
          /\ buckets' = [buckets EXCEPT ![Bucket(k)] = Unlinked(@, FirstOf(Places(k)))]
          /\ entries' = [f \in DOMAIN entries \ {Found(k)} |-> entries[f]]
          /\ ret' = entries[Found(k)].value
    /\ UNCHANGED <<i, entry, calling, next, key>>

mrsh_hashtable_for_each ==
    /\ ~Iterating
    /\ i' = 0 /\ entry' = First(buckets[0])
    /\ UNCHANGED <<buckets, entries, ret, calling, next, key>>

\* The next pointer is read before the iterator is called.
CallIterator ==
    /\ Iterating /\ ~calling /\ entry # NULL
    /\ calling' = TRUE /\ next' = NextOf(entry, i) /\ key' = entries[entry].key
    /\ UNCHANGED <<buckets, entries, ret, i, entry>>

\* Mutant: the next pointer is read after the call.
IteratorReturns_late ==
    /\ Iterating /\ calling
    /\ calling' = FALSE /\ entry' = NextOf(entry, i) /\ next' = NULL /\ key' = NULL
    /\ UNCHANGED <<buckets, entries, ret, i>>

IteratorReturns ==
    /\ Iterating /\ calling
    /\ calling' = FALSE /\ entry' = next /\ next' = NULL /\ key' = NULL
    /\ UNCHANGED <<buckets, entries, ret, i>>

\* Mutant: the loop stays at its bucket.
NextBucket_same ==
    /\ Iterating /\ ~calling /\ entry = NULL
    /\ entry' = First(buckets[i])
    /\ UNCHANGED <<buckets, entries, ret, i, calling, next, key>>

NextBucket ==
    /\ Iterating /\ ~calling /\ entry = NULL
    /\ i' = i + 1 /\ entry' = IF i + 1 < Buckets THEN First(buckets[i + 1]) ELSE NULL
    /\ UNCHANGED <<buckets, entries, ret, calling, next, key>>

\* The table is not used again, so that what its buckets still point to does not matter.
mrsh_hashtable_finish ==
    /\ ~Iterating
    /\ buckets' = [b \in Index |-> <<>>] /\ entries' = << >>
    /\ UNCHANGED <<ret, i, entry, calling, next, key>>

Next ==
    \/ \E k \in Key : mrsh_hashtable_get(k) \/ mrsh_hashtable_del(k)
    \/ \E k \in Key, v \in Value : mrsh_hashtable_set(k, v)
    \/ mrsh_hashtable_for_each \/ CallIterator \/ IteratorReturns \/ NextBucket
    \/ mrsh_hashtable_finish

\* mrsh_hashtable_for_each is a loop that runs to its end.
Spec == Init /\ [][Next]_vars /\ WF_vars(CallIterator \/ IteratorReturns \/ NextBucket)

-----------------------------------------------------------------------------
(* Properties *)

InChain(b) == Range(buckets[b])

\* The chains hold every entry once, each in the bucket of its key, no key twice, and no
\* entry that has been freed; and an iteration holds no pointer to a freed entry but the one
\* that its own iterator has deleted (hashtable.c:113).
ChainsIntact ==
    /\ DOMAIN entries = UNION {InChain(b) : b \in Index}
    /\ \A b \in Index : \A m, n \in DOMAIN buckets[b] :
         /\ Bucket(entries[buckets[b][m]].key) = b
         /\ entries[buckets[b][m]].key = entries[buckets[b][n]].key => m = n
    /\ Iterating /\ ~calling => entry \in InChain(i) \cup {NULL}
    /\ Iterating /\ calling => next \in InChain(i) \cup {NULL}

\* The entries that the iteration has yet to come to.
From(e, b) ==
    {buckets[b][m] : m \in {n \in DOMAIN buckets[b] : \E j \in 1 .. n : buckets[b][j] = e}}
Ahead == IF ~Iterating THEN {}
         ELSE From(IF calling THEN next ELSE entry, i) \cup UNION {InChain(b) : b \in {c \in Index : c > i}}

M == INSTANCE Map WITH
    map <- [k \in Key |-> Lookup(k)],
    todo <- {entries[e].key : e \in Ahead},
    cur <- key

\* The table is a map whatever its hash function: every operation returns the value that the
\* last one has left for its key, and an iteration calls its function only for keys that were
\* there when it began, for none twice, and ends only when it has come to all of them, the
\* deletions of its own iterator notwithstanding (hashtable.h:25).
ImplementsMap == M!Spec

\* And an iteration that has begun comes to each of those keys and to its end, through empty
\* buckets and chains that its function shortens (hashtable.c:107).
IterationsGoOn == M!GoesOn
=============================================================================
