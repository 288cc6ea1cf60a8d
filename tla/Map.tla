-------------------------------- MODULE Map ---------------------------------
(***************************************************************************)
(* What the hash table promises its users (include/mrsh/hashtable.h): a    *)
(* map from keys to values, where each operation returns the value that    *)
(* the key had before, and an iteration that calls its function once for   *)
(* each key, in any order, while that function may delete the key it has   *)
(* been called for.                                                        *)
(***************************************************************************)
CONSTANTS Key, Value, NULL

VARIABLES
    map,    \* the value of each key, or NULL
    ret,    \* what the last operation has returned
    todo,   \* the keys that the iteration has yet to come to, or {}
    cur     \* the key that the function has been called for, or NULL

vars == <<map, ret, todo, cur>>

Iterating == todo # {} \/ cur # NULL
Present == {k \in Key : map[k] # NULL}

Init == map = [k \in Key |-> NULL] /\ ret = NULL /\ todo = {} /\ cur = NULL

Get(k) ==
    /\ ret' = map[k]
    /\ UNCHANGED <<map, todo, cur>>

Set(k, v) ==
    /\ ~Iterating
    /\ map' = [map EXCEPT ![k] = v] /\ ret' = map[k]
    /\ UNCHANGED <<todo, cur>>

Del(k) ==
    /\ Iterating => k = cur
    /\ map' = [map EXCEPT ![k] = NULL] /\ ret' = map[k]
    /\ UNCHANGED <<todo, cur>>

ForEach ==
    /\ ~Iterating
    /\ todo' = Present
    /\ UNCHANGED <<map, ret, cur>>

Call(k) ==
    /\ cur = NULL /\ k \in todo
    /\ cur' = k /\ todo' = todo \ {k}
    /\ UNCHANGED <<map, ret>>

Return ==
    /\ cur # NULL /\ cur' = NULL
    /\ UNCHANGED <<map, ret, todo>>

Finish ==
    /\ ~Iterating
    /\ map' = [k \in Key |-> NULL]
    /\ UNCHANGED <<ret, todo, cur>>

Next ==
    \/ \E k \in Key : Get(k) \/ Del(k) \/ Call(k)
    \/ \E k \in Key, v \in Value : Set(k, v)
    \/ ForEach \/ Return \/ Finish

Spec == Init /\ [][Next]_vars

\* An iteration goes on once it has begun: it is the loop of one function.
GoesOn == WF_vars(Return \/ \E k \in Key : Call(k))
=============================================================================
