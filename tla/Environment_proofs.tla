------------------------- MODULE Environment_proofs -------------------------
(***************************************************************************)
(* Proofs about Environment, for every set of scripts, names, texts and    *)
(* functions and any depth of calls: the strings of the positional         *)
(* parameters and the bodies of functions that run are in memory, each     *)
(* belongs to one frame, and a child gets what it should.                  *)
(***************************************************************************)
EXTENDS Environment, FiniteSetTheorems, SequenceTheorems, WellFoundedInduction, TLAPS

\* The texts of the argument lists of all scripts.
Words == UNION {UNION {Range(args) : args \in s.lists} : s \in Scripts}
CallFrame == [argc : Nat \ {0}, argv : Seq(Nat), body : Nat]

\* Memory has finitely many places in use, and none of them is NULL.
Memory(m) == IsFiniteSet(DOMAIN m) /\ DOMAIN m \subseteq Nat \ {NULL}

\* An array has a place more than it has strings, whether it was shifted or not.
ShapeInv ==
    /\ script \in Scripts
    /\ frames \in Seq(CallFrame) /\ frames # <<>>
    /\ params \in Seq(Seq(Words)) /\ Len(params) = Len(frames)
    /\ shifted \in Seq(BOOLEAN) /\ Len(shifted) = Len(frames)
    /\ torn \in BOOLEAN
    /\ \A d \in DOMAIN frames : Len(frames[d].argv) = frames[d].argc + 1
    /\ Memory(strings) /\ Memory(bodies)

\* The frame f owns the texts ps in the memory m: each is in a place of its own.
Owns(f, ps, m) ==
    /\ Len(ps) = f.argc - 1
    /\ \A k \in 1 .. f.argc : f.argv[k] \in DOMAIN m
    /\ \A k \in 1 .. f.argc - 1 : m[f.argv[k + 1]] = ps[k]
    /\ \A j, k \in 1 .. f.argc : f.argv[j] = f.argv[k] => j = k

Disjoint(f, g) == \A j \in 1 .. f.argc, k \in 1 .. g.argc : f.argv[j] # g.argv[k]

ArgumentsInv ==
    ~torn => \A d \in DOMAIN frames :
                /\ Owns(frames[d], params[d], strings)
                /\ \A e \in DOMAIN frames \ {d} : Disjoint(frames[d], frames[e])

\* Only shift leaves something else than NULL behind the last parameter.
EndInv ==
    status = "ok" =>
        \A d \in DOMAIN frames : ~shifted[d] => frames[d].argv[frames[d].argc + 1] = NULL

\* A body is that of one function or of one call.
BodiesInv ==
    /\ \A f \in DOMAIN functions : functions[f] \in DOMAIN bodies
    /\ \A f, g \in DOMAIN functions : functions[f] = functions[g] => f = g
    /\ \A d \in DOMAIN frames :
          /\ d = 1 => frames[d].body = NULL
          /\ d # 1 => frames[d].body \in DOMAIN bodies
          /\ d # 1 => \A f \in DOMAIN functions : functions[f] # frames[d].body
          /\ d # 1 => \A e \in DOMAIN frames \ {d} : frames[e].body # frames[d].body

StatusInv ==
    /\ status \in {"ok", "aborts", "undefined"}
    /\ status = "aborts" => shifted[Len(shifted)]
    /\ status = "undefined" => torn

Inv == ShapeInv /\ ArgumentsInv /\ EndInv /\ BodiesInv /\ StatusInv

-----------------------------------------------------------------------------
(* Memory *)

\* A non-empty set of numbers has a smallest element.
LEMMA SmallestExists ==
    ASSUME NEW S, S # {}, S \subseteq Nat
    PROVE  \E s \in S : \A k \in S : s <= k
<1> DEFINE R == {p \in Nat \X Nat : p[1] < p[2]}
<1>1. IsWellFoundedOn(R, Nat)
  BY NatLessThanWellFounded, Zenon DEF OpToRel
<1>2. ASSUME NEW x \in Nat, NEW y \in Nat, x < y PROVE <<x, y>> \in R
  BY <1>2, SMT
<1> HIDE DEF R
<1>3. PICK s \in S : \A k \in S : ~(<<k, s>> \in R)
  BY <1>1, WFMin
<1>4. ASSUME NEW k \in S PROVE s <= k
  <2>1. s \in Nat /\ k \in Nat /\ ~(k < s)
    BY <1>2, <1>3
  <2> QED BY <2>1
<1> QED BY <1>3, <1>4

\* There is a j-th lowest free place below the bound that Free takes.
LEMMA PlaceExists ==
    ASSUME NEW D, IsFiniteSet(D), NEW n \in Nat, NEW j \in 1 .. n
    PROVE  \E i \in 1 .. Cardinality(D) + n : i \notin D /\ Cardinality((1 .. i) \ D) = j
<1> DEFINE c == Cardinality(D)
           F(i) == Cardinality((1 .. i) \ D)
           S == {i \in 1 .. c + n : F(i) >= j}
<1>1. c \in Nat /\ c + n \in Nat
  BY FS_CardinalityType
<1>2. ASSUME NEW i \in Nat
      PROVE  IsFiniteSet(1 .. i) /\ IsFiniteSet((1 .. i) \ D) /\ F(i) \in Nat /\ Cardinality(1 .. i) = i
             /\ F(i) = i - Cardinality((1 .. i) \cap D)
  <2>1. IsFiniteSet(1 .. i) /\ Cardinality(1 .. i) = i
    BY FS_Interval
  <2>2. IsFiniteSet((1 .. i) \ D) /\ F(i) = i - Cardinality((1 .. i) \cap D)
    BY <2>1, FS_Difference
  <2> QED BY <2>1, <2>2, FS_CardinalityType
<1> HIDE DEF c
<1>3. F(c + n) >= j
  <2>1. IsFiniteSet((1 .. c + n) \cap D) /\ Cardinality((1 .. c + n) \cap D) <= c
    BY FS_Intersection DEF c
  <2>2. Cardinality((1 .. c + n) \cap D) \in Nat
    BY <2>1, FS_CardinalityType
  <2>3. F(c + n) = (c + n) - Cardinality((1 .. c + n) \cap D)
    BY <1>1, <1>2
  <2> HIDE DEF F
  <2> QED BY <1>1, <2>1, <2>2, <2>3
<1> HIDE DEF F
<1>4. S # {} /\ S \subseteq Nat
  <2>1. c + n \in S
    BY <1>1, <1>3
  <2> QED BY <2>1
<1>5. PICK i \in S : \A k \in S : i <= k
  BY <1>4, SmallestExists
<1>6. i \in 1 .. c + n /\ i \in Nat /\ i - 1 \in Nat /\ F(i) >= j /\ F(i) \in Nat /\ F(i - 1) \in Nat
  <2>1. i \in 1 .. c + n /\ i \in Nat /\ i - 1 \in Nat /\ F(i) >= j
    BY <1>1, <1>5
  <2> QED BY <2>1, <1>2
<1>7. F(i - 1) < j
  <2>1. CASE i = 1
    <3>1. F(0) = 0
      <4>1. (1 .. 0) \ D = {}
        OBVIOUS
      <4> QED BY <4>1, FS_EmptySet DEF F
    <3> QED BY <2>1, <3>1
  <2>2. CASE i # 1
    <3>1. i - 1 \in 1 .. c + n /\ ~(i <= i - 1)
      BY <1>1, <1>6, <2>2
    <3>2. i - 1 \notin S
      BY <1>5, <3>1
    <3> QED BY <1>6, <3>1, <3>2
  <2> QED BY <2>1, <2>2
<1>8. (1 .. i) = (1 .. i - 1) \cup {i}
  BY <1>6
<1>9. i \notin D
  <2>1. SUFFICES ASSUME i \in D PROVE FALSE
    OBVIOUS
  <2>2. (1 .. i) \ D = (1 .. i - 1) \ D
    BY <1>8, <2>1
  <2>3. F(i) = F(i - 1)
    BY <2>2 DEF F
  <2> QED BY <1>6, <1>7, <2>3
<1>10. F(i) = F(i - 1) + 1
  <2>1. (1 .. i) \ D = ((1 .. i - 1) \ D) \cup {i}
    BY <1>8, <1>9
  <2>2. i \notin (1 .. i - 1) \ D
    BY <1>6
  <2> QED BY <1>2, <1>6, <2>1, <2>2, FS_AddElement DEF F
<1>11. F(i) = j
  BY <1>6, <1>7, <1>10
<1> QED
  BY <1>6, <1>9, <1>11 DEF F, c

\* Free finds places that are not in use, each once.
LEMMA FreeFresh ==
    ASSUME NEW used, Memory(used), NEW n \in Nat
    PROVE  /\ Free(used, n) \in Seq(Nat \ {NULL}) /\ Len(Free(used, n)) = n
           /\ \A j \in 1 .. n : /\ Free(used, n)[j] \in 1 .. Cardinality(DOMAIN used) + n
                                /\ Free(used, n)[j] \notin DOMAIN used
           /\ \A j, k \in 1 .. n : Free(used, n)[j] = Free(used, n)[k] => j = k
<1> DEFINE D == DOMAIN used
           ids == Free(used, n)
<1>1. IsFiniteSet(D) /\ Cardinality(D) \in Nat
  BY FS_CardinalityType DEF Memory
<1>2. ASSUME NEW j \in 1 .. n
      PROVE  /\ ids[j] \in 1 .. Cardinality(D) + n /\ ids[j] \notin D
             /\ Cardinality((1 .. ids[j]) \ D) = j
  <2>1. \E i \in 1 .. Cardinality(D) + n : i \notin D /\ Cardinality((1 .. i) \ D) = j
    BY <1>1, PlaceExists
  <2>2. ids[j] = CHOOSE i \in 1 .. Cardinality(D) + n : i \notin D /\ Cardinality((1 .. i) \ D) = j
    BY DEF Free
  <2> QED BY <2>1, <2>2
<1>3. ids = [j \in 1 .. n |-> ids[j]]
  <2> DEFINE G(j) == CHOOSE i \in 1 .. Cardinality(D) + n : i \notin D /\ Cardinality((1 .. i) \ D) = j
  <2>1. ids = [j \in 1 .. n |-> G(j)]
    BY DEF Free
  <2> HIDE DEF G, ids
  <2> QED BY <2>1
<1> HIDE DEF ids, D
<1>4. ASSUME NEW j \in 1 .. n PROVE ids[j] \in Nat \ {NULL}
  <2>1. ids[j] \in 1 .. Cardinality(D) + n
    BY <1>2
  <2> QED BY <1>1, <2>1 DEF NULL
<1>5. ids \in Seq(Nat \ {NULL}) /\ Len(ids) = n
  BY <1>3, <1>4
<1>6. \A j, k \in 1 .. n : ids[j] = ids[k] => j = k
  BY <1>2
<1> QED
  BY <1>2, <1>5, <1>6 DEF ids, D

\* Memory of which places are freed.
LEMMA SmallerMemory ==
    ASSUME NEW m, Memory(m), NEW S, S \subseteq DOMAIN m
    PROVE  Memory([k \in S |-> m[k]])
  BY FS_Subset DEF Memory

\* strdup: texts are put in new places and nothing else changes.
LEMMA StrdupFresh ==
    ASSUME NEW used, Memory(used), NEW texts, Len(texts) \in Nat,
           NEW new, new = Strdup(used, texts)
    PROVE  /\ new.ids \in Seq(Nat) /\ Len(new.ids) = Len(texts)
           /\ Memory(new.strings)
           /\ \A k \in DOMAIN used : k \in DOMAIN new.strings /\ new.strings[k] = used[k]
           /\ \A j \in 1 .. Len(texts) :
                 /\ new.ids[j] \in DOMAIN new.strings /\ new.ids[j] \notin DOMAIN used
                 /\ new.strings[new.ids[j]] = texts[j]
           /\ \A j, k \in 1 .. Len(texts) : new.ids[j] = new.ids[k] => j = k
<1> DEFINE n == Len(texts)
           ids == Free(used, n)
           c == Cardinality(DOMAIN used) + n
<1>1. n \in Nat /\ c \in Nat
  BY FS_CardinalityType DEF Memory
<1> HIDE DEF n
<1>2. /\ ids \in Seq(Nat \ {NULL}) /\ Len(ids) = n
      /\ \A j \in 1 .. n : ids[j] \in 1 .. c /\ ids[j] \notin DOMAIN used
      /\ \A j, k \in 1 .. n : ids[j] = ids[k] => j = k
  BY <1>1, FreeFresh
<1>3. /\ new.ids = ids
      /\ new.strings = [k \in DOMAIN used \cup Range(ids) |->
            IF k \in DOMAIN used THEN used[k] ELSE texts[CHOOSE j \in DOMAIN ids : ids[j] = k]]
  BY DEF Strdup, n
<1> HIDE DEF ids, c
<1>4. DOMAIN ids = 1 .. n /\ ids \in Seq(Nat)
  BY <1>2
<1>5. Range(ids) = {ids[j] : j \in 1 .. n}
  BY <1>4 DEF Range
<1>6. Memory(new.strings)
  <2>1. IsFiniteSet(1 .. c)
    BY <1>1, FS_Interval
  <2>2. Range(ids) \subseteq 1 .. c
    BY <1>2, <1>5
  <2>3. IsFiniteSet(DOMAIN used \cup Range(ids))
    BY <2>1, <2>2, FS_Subset, FS_Union DEF Memory
  <2>4. Range(ids) \subseteq Nat \ {NULL}
    BY <1>2, <1>4, <1>5
  <2> QED BY <1>3, <2>3, <2>4 DEF Memory
<1>7. ASSUME NEW j \in 1 .. n
      PROVE  /\ ids[j] \in DOMAIN new.strings /\ ids[j] \notin DOMAIN used
             /\ new.strings[ids[j]] = texts[j]
  <2>1. ids[j] \in Range(ids) /\ ids[j] \notin DOMAIN used
    BY <1>2, <1>5
  <2>2. (CHOOSE k \in DOMAIN ids : ids[k] = ids[j]) = j
    BY <1>2, <1>4
  <2>3. /\ ids[j] \in DOMAIN new.strings
        /\ new.strings[ids[j]] = texts[CHOOSE k \in DOMAIN ids : ids[k] = ids[j]]
    BY <1>3, <2>1
  <2> QED BY <2>1, <2>2, <2>3
<1> QED
  BY <1>2, <1>3, <1>4, <1>6, <1>7 DEF n

\* The texts of a new frame: its name and its arguments.
LEMMA FrameTexts ==
    ASSUME NEW x, NEW S, NEW args \in Seq(S)
    PROVE  /\ Len(args) \in Nat /\ Len(<<x>> \o args) = Len(args) + 1
           /\ \A k \in 1 .. Len(args) : (<<x>> \o args)[k + 1] = args[k]
<1> DEFINE n == Len(args)
           T == S \cup {x}
           texts == <<x>> \o args
<1>1. args \in Seq(T) /\ <<x>> \in Seq(T) /\ Len(<<x>>) = 1
  BY SeqMonotonic
<1>2. n \in Nat
  OBVIOUS
<1> HIDE DEF T
<1>3. /\ texts \in Seq(T) /\ Len(texts) = 1 + n
      /\ \A k \in 1 .. 1 + n : texts[k] = IF k <= 1 THEN <<x>>[k] ELSE args[k - 1]
  BY <1>1, ConcatProperties
<1> HIDE DEF texts, n
<1> QED BY <1>2, <1>3 DEF texts, n

\* The frame f is made of copies of the texts: of its name and of its arguments.
MakesFrame(f, used, texts, new, args, b) ==
    /\ Memory(used) /\ Len(args) \in Nat /\ b \in Nat
    /\ Len(texts) = Len(args) + 1 /\ \A k \in 1 .. Len(args) : texts[k + 1] = args[k]
    /\ new = Strdup(used, texts)
    /\ f = [argc |-> Len(args) + 1, argv |-> Append(new.ids, NULL), body |-> b]

\* It owns its arguments, in places that were not in use.
OwnsCopies(f, used, new, args) ==
    /\ f \in CallFrame /\ Len(f.argv) = f.argc + 1 /\ f.argv[f.argc + 1] = NULL
    /\ Owns(f, args, new.strings)
    /\ \A k \in 1 .. f.argc : f.argv[k] \notin DOMAIN used
    /\ Memory(new.strings)
    /\ \A k \in DOMAIN used : k \in DOMAIN new.strings /\ new.strings[k] = used[k]

LEMMA NewFrame ==
    ASSUME NEW f, NEW used, NEW texts, NEW new, NEW args, NEW b, MakesFrame(f, used, texts, new, args, b)
    PROVE  OwnsCopies(f, used, new, args)
<1> USE DEF MakesFrame
<1> DEFINE n == Len(args)
<1>1. n \in Nat /\ Len(texts) = n + 1 /\ \A k \in 1 .. n : texts[k + 1] = args[k]
  OBVIOUS
<1>2. /\ new.ids \in Seq(Nat) /\ Len(new.ids) = n + 1
      /\ Memory(new.strings)
      /\ \A k \in DOMAIN used : k \in DOMAIN new.strings /\ new.strings[k] = used[k]
      /\ \A j \in 1 .. n + 1 :
            /\ new.ids[j] \in DOMAIN new.strings /\ new.ids[j] \notin DOMAIN used
            /\ new.strings[new.ids[j]] = texts[j]
      /\ \A j, k \in 1 .. n + 1 : new.ids[j] = new.ids[k] => j = k
  <2>1. Len(texts) \in Nat
    BY <1>1
  <2>2. /\ new.ids \in Seq(Nat) /\ Len(new.ids) = Len(texts)
        /\ Memory(new.strings)
        /\ \A k \in DOMAIN used : k \in DOMAIN new.strings /\ new.strings[k] = used[k]
        /\ \A j \in 1 .. Len(texts) :
              /\ new.ids[j] \in DOMAIN new.strings /\ new.ids[j] \notin DOMAIN used
              /\ new.strings[new.ids[j]] = texts[j]
        /\ \A j, k \in 1 .. Len(texts) : new.ids[j] = new.ids[k] => j = k
    BY <2>1, StrdupFresh
  <2> QED BY <1>1, <2>2
<1>3. /\ f.argc = n + 1 /\ f.body = b /\ f.argv = Append(new.ids, NULL) /\ b \in Nat
      /\ f = [argc |-> f.argc, argv |-> f.argv, body |-> f.body]
  OBVIOUS
<1> HIDE DEF n, MakesFrame
<1>4. /\ f.argv \in Seq(Nat) /\ Len(f.argv) = n + 2 /\ f.argv[n + 2] = NULL
      /\ \A k \in 1 .. n + 1 : f.argv[k] = new.ids[k]
  <2> DEFINE ids == new.ids
  <2>1. NULL \in Nat /\ ids \in Seq(Nat) /\ Len(ids) = n + 1 /\ f.argv = Append(ids, NULL)
    BY <1>2, <1>3 DEF NULL
  <2>2. ASSUME NEW t \in Seq(Nat), Len(t) = n + 1, NEW u, u = Append(t, NULL)
        PROVE  /\ u \in Seq(Nat) /\ Len(u) = n + 2 /\ u[n + 2] = NULL
               /\ \A k \in 1 .. n + 1 : u[k] = t[k]
    <3> USE <1>1 DEF NULL
    <3> QED BY <2>2
  <2> QED BY <2>1, <2>2
<1>5. f.argc \in Nat \ {0} /\ f.argc + 1 = n + 2 /\ f.argc - 1 = n
  BY <1>1, <1>3
<1>6. f \in CallFrame
  BY <1>3, <1>4, <1>5 DEF CallFrame
<1>9. \A k \in 1 .. f.argc : k \in 1 .. n + 1 /\ f.argv[k] = new.ids[k]
  BY <1>3, <1>4
<1>7. Owns(f, args, new.strings)
  <2>1. Len(args) = f.argc - 1
    BY <1>5 DEF n
  <2>2. \A k \in 1 .. f.argc : f.argv[k] \in DOMAIN new.strings
    BY <1>2, <1>9
  <2>3. ASSUME NEW k \in 1 .. f.argc - 1 PROVE new.strings[f.argv[k + 1]] = args[k]
    <3>1. k \in 1 .. n /\ k + 1 \in 1 .. n + 1
      BY <1>1, <1>5
    <3>2. f.argv[k + 1] = new.ids[k + 1] /\ new.strings[new.ids[k + 1]] = texts[k + 1]
      BY <1>2, <1>4, <3>1
    <3> QED BY <1>1, <3>1, <3>2
  <2>4. ASSUME NEW j \in 1 .. f.argc, NEW k \in 1 .. f.argc, f.argv[j] = f.argv[k] PROVE j = k
    BY <1>2, <1>9, <2>4
  <2> QED BY <2>1, <2>2, <2>3, <2>4 DEF Owns
<1>8. \A k \in 1 .. f.argc : f.argv[k] \notin DOMAIN used
  BY <1>2, <1>9
<1> QED
  BY <1>2, <1>4, <1>5, <1>6, <1>7, <1>8 DEF OwnsCopies

-----------------------------------------------------------------------------
(* Steps of the current frame *)

LEMMA Lengths ==
    ASSUME Inv
    PROVE  /\ Len(frames) \in Nat \ {0} /\ Len(frames) \in DOMAIN frames
           /\ DOMAIN frames = 1 .. Len(frames) /\ DOMAIN params = 1 .. Len(frames)
           /\ DOMAIN shifted = 1 .. Len(frames)
           /\ Len(params) = Len(frames) /\ Len(shifted) = Len(frames)
           /\ Frame \in CallFrame /\ Frame.argc \in Nat \ {0} /\ Frame.argv \in Seq(Nat)
           /\ Len(Frame.argv) = Frame.argc + 1 /\ Frame.body \in Nat
           /\ params[Len(params)] \in Seq(Words)
<1>1. /\ frames \in Seq(CallFrame) /\ frames # <<>>
      /\ params \in Seq(Seq(Words)) /\ Len(params) = Len(frames)
      /\ shifted \in Seq(BOOLEAN) /\ Len(shifted) = Len(frames)
      /\ \A d \in DOMAIN frames : Len(frames[d].argv) = frames[d].argc + 1
  BY DEF Inv, ShapeInv
<1>2. Len(frames) \in Nat \ {0} /\ Len(frames) \in 1 .. Len(frames) /\ DOMAIN frames = 1 .. Len(frames)
  BY <1>1, EmptySeq
<1>3. Frame \in CallFrame /\ params[Len(params)] \in Seq(Words)
  BY <1>1, <1>2, ElementOfSeq DEF Frame
<1>4. Frame.argc \in Nat \ {0} /\ Frame.argv \in Seq(Nat) /\ Frame.body \in Nat
  BY <1>3 DEF CallFrame
<1>5. Len(Frame.argv) = Frame.argc + 1
  BY <1>1, <1>2 DEF Frame
<1>6. DOMAIN params = 1 .. Len(frames) /\ DOMAIN shifted = 1 .. Len(frames)
  BY <1>1, LenProperties
<1> QED
  BY <1>1, <1>2, <1>3, <1>4, <1>5, <1>6

\* What a frame owns is freed once.
LEMMA NoDoubleFree ==
    ASSUME NEW f, NEW ps, Owns(f, ps, strings)
    PROVE  ~DoubleFree(f)
  BY DEF Owns, DoubleFree

\* A frame does not notice what happens to the memory of others.
LEMMA OwnsElsewhere ==
    ASSUME NEW f, NEW ps, NEW m, NEW n, Owns(f, ps, m), f.argc \in Nat,
           \A k \in 1 .. f.argc : f.argv[k] \in DOMAIN n /\ n[f.argv[k]] = m[f.argv[k]]
    PROVE  Owns(f, ps, n)
<1>1. \A k \in 1 .. f.argc - 1 : k + 1 \in 1 .. f.argc
  OBVIOUS
<1>2. \A k \in 1 .. f.argc - 1 : n[f.argv[k + 1]] = ps[k]
  BY <1>1 DEF Owns
<1> QED
  BY <1>2 DEF Owns

LEMMA DisjointBack == ASSUME NEW f, NEW g, Disjoint(f, g) PROVE Disjoint(g, f)
  BY DEF Disjoint

\* The current frame is replaced by f, with the parameters ps.
ReplacesFrame(f, ps) ==
    /\ Len(f.argv) = f.argc + 1 /\ f.body = Frame.body
    /\ frames' = [frames EXCEPT ![Len(frames)] = f]
    /\ params' = Changed(ps)
    /\ \/ shifted' = [shifted EXCEPT ![Len(shifted)] = TRUE]
       \/ shifted' = [shifted EXCEPT ![Len(shifted)] = FALSE] /\ f.argv[f.argc + 1] = NULL
    /\ torn' \in BOOLEAN /\ (torn => torn')
    /\ Memory(strings') /\ UNCHANGED <<script, functions, bodies>>
    /\ ~torn' => /\ Owns(f, ps, strings')
                 /\ \A d \in DOMAIN frames \ {Len(frames)} :
                       /\ \A k \in 1 .. frames[d].argc :
                             /\ frames[d].argv[k] \in DOMAIN strings'
                             /\ strings'[frames[d].argv[k]] = strings[frames[d].argv[k]]
                       /\ Disjoint(f, frames[d])

LEMMA TopInv ==
    ASSUME Inv, status = "ok", NEW f \in CallFrame, NEW ps \in Seq(Words),
           ReplacesFrame(f, ps), StatusInv'
    PROVE  Inv'
<1> USE DEF ReplacesFrame
<1> DEFINE L == Len(frames)
<1>1. /\ L \in Nat \ {0} /\ DOMAIN frames = 1 .. L /\ DOMAIN params = 1 .. L /\ DOMAIN shifted = 1 .. L
      /\ Len(params) = L /\ Len(shifted) = L
  BY Lengths
<1>2. /\ frames \in Seq(CallFrame) /\ params \in Seq(Seq(Words)) /\ shifted \in Seq(BOOLEAN)
      /\ \A d \in 1 .. L : frames[d] \in CallFrame /\ frames[d].argc \in Nat
                           /\ Len(frames[d].argv) = frames[d].argc + 1
  <2>1. frames \in Seq(CallFrame) /\ params \in Seq(Seq(Words)) /\ shifted \in Seq(BOOLEAN)
        /\ \A d \in DOMAIN frames : Len(frames[d].argv) = frames[d].argc + 1
    BY DEF Inv, ShapeInv
  <2>2. \A d \in 1 .. L : frames[d] \in CallFrame
    BY <2>1, ElementOfSeq
  <2> QED BY <1>1, <2>1, <2>2 DEF CallFrame
<1> HIDE DEF L
<1>3. /\ frames' \in Seq(CallFrame) /\ Len(frames') = L /\ DOMAIN frames' = 1 .. L
      /\ frames'[L] = f /\ \A d \in 1 .. L : d # L => frames'[d] = frames[d]
  <2>1. frames' = [frames EXCEPT ![L] = f] /\ L \in 1 .. Len(frames) /\ Len(frames) = L
    BY <1>1 DEF L
  <2> QED BY <1>1, <1>2, <2>1, ExceptSeq, LenProperties
<1>4. /\ params' \in Seq(Seq(Words)) /\ Len(params') = L /\ DOMAIN params' = 1 .. L
      /\ params'[L] = ps /\ \A d \in 1 .. L : d # L => params'[d] = params[d]
  <2>1. params' = [params EXCEPT ![L] = ps] /\ L \in 1 .. Len(params)
    BY <1>1 DEF Changed
  <2> QED BY <1>1, <1>2, <2>1, ExceptSeq, LenProperties
<1>5. /\ shifted' \in Seq(BOOLEAN) /\ Len(shifted') = L
      /\ ~shifted'[L] => f.argv[f.argc + 1] = NULL
      /\ \A d \in 1 .. L : d # L => shifted'[d] = shifted[d]
  <2>1. L \in 1 .. Len(shifted) /\ shifted \in Seq(BOOLEAN) /\ Len(shifted) = L
    BY <1>1, <1>2
  <2>2. CASE shifted' = [shifted EXCEPT ![Len(shifted)] = TRUE]
    BY <2>1, <2>2, ExceptSeq
  <2>3. CASE shifted' = [shifted EXCEPT ![Len(shifted)] = FALSE] /\ f.argv[f.argc + 1] = NULL
    BY <2>1, <2>3, ExceptSeq
  <2> QED BY <2>2, <2>3
<1>6. ShapeInv'
  <2>1. script' \in Scripts /\ Memory(bodies')
    BY DEF Inv, ShapeInv, Memory
  <2>2. frames' # <<>>
    BY <1>1, <1>3
  <2>3. \A d \in 1 .. L : Len(frames'[d].argv) = frames'[d].argc + 1
    BY <1>2, <1>3
  <2> QED BY <1>3, <1>4, <1>5, <2>1, <2>2, <2>3 DEF ShapeInv
<1>7. ArgumentsInv'
  <2> SUFFICES ASSUME ~torn', NEW d \in 1 .. L
               PROVE  /\ Owns(frames'[d], params'[d], strings')
                      /\ \A e \in (1 .. L) \ {d} : Disjoint(frames'[d], frames'[e])
    BY <1>3 DEF ArgumentsInv
  <2>1. \A e \in 1 .. L : /\ Owns(frames[e], params[e], strings)
                          /\ \A g \in (1 .. L) \ {e} : Disjoint(frames[e], frames[g])
    BY <1>1 DEF Inv, ArgumentsInv
  <2>0. \A e \in (1 .. L) \ {L} : Disjoint(f, frames[e])
    <3>1. \A e \in DOMAIN frames \ {Len(frames)} : Disjoint(f, frames[e])
      OBVIOUS
    <3> QED BY <1>1, <3>1 DEF L
  <2>2. \A e \in (1 .. L) \ {L} : Disjoint(f, frames[e]) /\ Disjoint(frames[e], f)
    BY <2>0, DisjointBack
  <2>3. Owns(f, ps, strings')
    OBVIOUS
  <2>4. CASE d = L
    <3>1. frames'[d] = f /\ params'[d] = ps
      BY <1>3, <1>4, <2>4
    <3>2. \A e \in (1 .. L) \ {d} : frames'[e] = frames[e]
      BY <1>3, <2>4
    <3> QED BY <2>2, <2>3, <2>4, <3>1, <3>2
  <2>5. CASE d # L
    <3>1. \A k \in 1 .. frames[d].argc :
             frames[d].argv[k] \in DOMAIN strings' /\ strings'[frames[d].argv[k]] = strings[frames[d].argv[k]]
      BY <1>1, <2>5 DEF L
    <3>2. Owns(frames[d], params[d], strings')
      BY <1>2, <2>1, <3>1, OwnsElsewhere
    <3> QED BY <1>3, <1>4, <2>1, <2>2, <2>5, <3>2
  <2> QED BY <2>4, <2>5
<1>8. EndInv'
  <2>1. \A d \in 1 .. L : ~shifted[d] => frames[d].argv[frames[d].argc + 1] = NULL
    BY <1>1 DEF Inv, EndInv
  <2> QED BY <1>3, <1>5, <2>1 DEF EndInv, NULL
<1>9. BodiesInv'
  <2>1. \A d \in 1 .. L : frames'[d].body = frames[d].body
    BY <1>3 DEF Frame, L
  <2> QED BY <1>1, <1>3, <2>1 DEF Inv, BodiesInv, NULL
<1> QED
  BY <1>6, <1>7, <1>8, <1>9 DEF Inv

\* The argument lists of a script are sequences of texts.
LEMMA ListType ==
    ASSUME Inv, NEW args \in script.lists
    PROVE  args \in Seq(Words) /\ Len(args) \in Nat
<1>1. script \in Scripts
  BY DEF Inv, ShapeInv
<1>2. args \in Seq(Range(args))
  BY <1>1, ScriptsAssumption
<1>3. Range(args) \subseteq Words
  BY <1>1 DEF Words
<1>4. args \in Seq(Words)
  BY <1>2, <1>3, SeqMonotonic
<1> QED
  BY <1>4, LenProperties

\* What the invariant says of the current frame as long as no shift has torn it.
LEMMA FrameOwns ==
    ASSUME Inv, ~torn
    PROVE  /\ Owns(Frame, params[Len(params)], strings) /\ ~DoubleFree(Frame)
           /\ \A d \in DOMAIN frames \ {Len(frames)} :
                 /\ Owns(frames[d], params[d], strings)
                 /\ Disjoint(frames[d], Frame) /\ Disjoint(Frame, frames[d])
<1>1. /\ Len(frames) \in DOMAIN frames /\ Len(params) = Len(frames)
  BY Lengths
<1>2. \A d \in DOMAIN frames : /\ Owns(frames[d], params[d], strings)
                               /\ \A e \in DOMAIN frames \ {d} : Disjoint(frames[d], frames[e])
  BY DEF Inv, ArgumentsInv
<1>3. Owns(Frame, params[Len(params)], strings)
  BY <1>1, <1>2 DEF Frame
<1>4. \A d \in DOMAIN frames \ {Len(frames)} :
         /\ Owns(frames[d], params[d], strings)
         /\ Disjoint(frames[d], Frame) /\ Disjoint(Frame, frames[d])
  BY <1>1, <1>2 DEF Frame
<1> QED
  BY <1>3, <1>4, NoDoubleFree

\* A step that stops the shell after a shift that tore a frame.
LEMMA StopsInv ==
    ASSUME Inv, torn, status' = "undefined",
           NEW b \in BOOLEAN, shifted' = [shifted EXCEPT ![Len(shifted)] = b] \/ shifted' = shifted,
           UNCHANGED <<script, frames, params, torn, strings, functions, bodies>>
    PROVE  Inv'
<1>1. shifted' \in Seq(BOOLEAN) /\ Len(shifted') = Len(frames)
  <2>1. shifted \in Seq(BOOLEAN) /\ Len(shifted) \in 1 .. Len(shifted) /\ Len(shifted) = Len(frames)
    BY Lengths DEF Inv, ShapeInv
  <2> QED BY <2>1, ExceptSeq
<1>2. ShapeInv'
  BY <1>1 DEF Inv, ShapeInv, Memory
<1>3. ArgumentsInv' /\ EndInv' /\ StatusInv'
  BY DEF ArgumentsInv, EndInv, StatusInv
<1>4. BodiesInv'
  BY DEF Inv, BodiesInv
<1> QED
  BY <1>2, <1>3, <1>4 DEF Inv

LEMMA BuiltinSetInv == ASSUME Inv, builtin_set PROVE Inv'
<1>1. PICK args \in script.lists :
         LET new == Strdup(strings, <<ArgText(Frame, 0)>> \o args)
         IN  \/ /\ DoubleFree(Frame)
                /\ status' = "undefined" /\ UNCHANGED <<frames, strings, params>>
             \/ /\ ~DoubleFree(Frame)
                /\ strings' = [k \in DOMAIN new.strings \ Owned(Frame) |-> new.strings[k]]
                /\ frames' = [frames EXCEPT ![Len(frames)] =
                                  [argc |-> Len(args) + 1, argv |-> Append(new.ids, NULL), body |-> Frame.body]]
                /\ params' = Changed(args)
                /\ UNCHANGED status
  BY DEF builtin_set
<1>2. /\ status = "ok" /\ shifted' = [shifted EXCEPT ![Len(shifted)] = FALSE]
      /\ UNCHANGED <<script, functions, bodies, torn>>
  BY DEF builtin_set, Only
<1>3. args \in Seq(Words) /\ Len(args) \in Nat
  BY ListType
<1>4. torn \in BOOLEAN
  BY DEF Inv, ShapeInv
<1>5. CASE DoubleFree(Frame)
  <2>1. torn
    BY <1>4, <1>5, FrameOwns
  <2>2. status' = "undefined" /\ UNCHANGED <<frames, strings, params>>
    BY <1>1, <1>5
  <2> QED BY <1>2, <2>1, <2>2, StopsInv
<1>6. CASE ~DoubleFree(Frame)
  <2> DEFINE texts == <<ArgText(Frame, 0)>> \o args
             new == Strdup(strings, texts)
             f == [argc |-> Len(args) + 1, argv |-> Append(new.ids, NULL), body |-> Frame.body]
  <2>1. /\ strings' = [k \in DOMAIN new.strings \ Owned(Frame) |-> new.strings[k]]
        /\ frames' = [frames EXCEPT ![Len(frames)] =
                          [argc |-> Len(args) + 1, argv |-> Append(new.ids, NULL), body |-> Frame.body]]
        /\ params' = Changed(args) /\ status' = status
    BY <1>1, <1>6
  <2>2. /\ f \in CallFrame /\ Len(f.argv) = f.argc + 1 /\ f.argv[f.argc + 1] = NULL
        /\ Owns(f, args, new.strings)
        /\ \A k \in 1 .. f.argc : f.argv[k] \notin DOMAIN strings
        /\ Memory(new.strings)
        /\ \A k \in DOMAIN strings : k \in DOMAIN new.strings /\ new.strings[k] = strings[k]
    <3>1. Memory(strings) /\ Frame.body \in Nat
      BY Lengths DEF Inv, ShapeInv
    <3>2. Len(texts) = Len(args) + 1 /\ \A k \in 1 .. Len(args) : texts[k + 1] = args[k]
      BY <1>3, FrameTexts
    <3> HIDE DEF texts
    <3>3. MakesFrame(f, strings, texts, new, args, Frame.body)
      BY <1>3, <3>1, <3>2 DEF MakesFrame
    <3> HIDE DEF f, new
    <3> QED BY <3>3, NewFrame DEF OwnsCopies
  <2>3. frames' = [frames EXCEPT ![Len(frames)] = f]
    BY <2>1
  <2>4. f.body = Frame.body
    OBVIOUS
  <2> HIDE DEF f, new
  <2>5. Memory(strings')
    BY <2>1, <2>2, SmallerMemory
  <2>6. StatusInv'
    BY <1>2, <2>1 DEF StatusInv
  <2>7. f.argc \in Nat
    BY <2>2 DEF CallFrame
  <2>8. ASSUME ~torn
        PROVE  /\ Owns(f, args, strings')
               /\ \A d \in DOMAIN frames \ {Len(frames)} :
                     /\ \A k \in 1 .. frames[d].argc :
                           /\ frames[d].argv[k] \in DOMAIN strings'
                           /\ strings'[frames[d].argv[k]] = strings[frames[d].argv[k]]
                     /\ Disjoint(f, frames[d])
    <3>1. \A k \in 1 .. Frame.argc : Frame.argv[k] \in DOMAIN strings
      BY <2>8, FrameOwns DEF Owns
    <3>2. Owned(Frame) \subseteq DOMAIN strings
      BY <3>1 DEF Owned
    <3>3. Owns(f, args, strings')
      <4>1. \A k \in 1 .. f.argc : f.argv[k] \in DOMAIN new.strings
        BY <2>2 DEF Owns
      <4>2. \A k \in 1 .. f.argc :
               f.argv[k] \in DOMAIN strings' /\ strings'[f.argv[k]] = new.strings[f.argv[k]]
        BY <2>1, <2>2, <3>2, <4>1
      <4> QED BY <2>2, <2>7, <4>2, OwnsElsewhere
    <3>4. ASSUME NEW d \in DOMAIN frames \ {Len(frames)}, NEW k \in 1 .. frames[d].argc
          PROVE  /\ frames[d].argv[k] \in DOMAIN strings
                 /\ frames[d].argv[k] \in DOMAIN strings'
                 /\ strings'[frames[d].argv[k]] = strings[frames[d].argv[k]]
      <4>1. Owns(frames[d], params[d], strings) /\ Disjoint(frames[d], Frame)
        BY <2>8, FrameOwns
      <4>2. frames[d].argv[k] \in DOMAIN strings
        BY <4>1 DEF Owns
      <4>3. frames[d].argv[k] \notin Owned(Frame)
        BY <4>1 DEF Disjoint, Owned
      <4> QED BY <2>1, <2>2, <4>2, <4>3
    <3>5. ASSUME NEW d \in DOMAIN frames \ {Len(frames)} PROVE Disjoint(f, frames[d])
      BY <2>2, <3>4 DEF Disjoint
    <3> QED BY <3>3, <3>4, <3>5
  <2>9. ~torn' => /\ Owns(f, args, strings')
                  /\ \A d \in DOMAIN frames \ {Len(frames)} :
                        /\ \A k \in 1 .. frames[d].argc :
                              /\ frames[d].argv[k] \in DOMAIN strings'
                              /\ strings'[frames[d].argv[k]] = strings[frames[d].argv[k]]
                        /\ Disjoint(f, frames[d])
    BY <1>2, <2>8
  <2>10. torn' \in BOOLEAN /\ (torn => torn')
    BY <1>2, <1>4
  <2>11. ReplacesFrame(f, args)
    BY <1>2, <2>1, <2>2, <2>3, <2>4, <2>5, <2>9, <2>10 DEF ReplacesFrame
  <2> QED BY <1>2, <1>3, <2>2, <2>6, <2>11, TopInv
<1> QED
  BY <1>5, <1>6

\* The array after shift: strings of the array before it, moved by n places when no
\* parameter is freed.
LEMMA ShiftedFrame ==
    ASSUME NEW g \in CallFrame, Len(g.argv) = g.argc + 1, NEW n \in 1 .. g.argc - 1
    PROVE  /\ Shifted(g, n) \in CallFrame /\ Shifted(g, n).argc = g.argc - n
           /\ Shifted(g, n).body = g.body
           /\ Len(Shifted(g, n).argv) = Shifted(g, n).argc + 1
           /\ \A k \in 1 .. g.argc - n : \E j \in 1 .. g.argc : Shifted(g, n).argv[k] = g.argv[j]
           /\ ShiftFrees(g, n) = {} =>
                 /\ Shifted(g, n).argv[1] = g.argv[1]
                 /\ \A k \in 2 .. g.argc - n :
                       k + n \in 1 .. g.argc /\ Shifted(g, n).argv[k] = g.argv[k + n]
<1> DEFINE A == g.argc
           G == g.argv
           V == ShiftedArgv(g, n)
           W == SubSeq(V, 1, A - n + 1)
           f == Shifted(g, n)
<1>1. /\ A \in Nat \ {0} /\ G \in Seq(Nat) /\ g.body \in Nat /\ Len(G) = A + 1
      /\ n \in Nat /\ n >= 1 /\ n <= A - 1
  BY DEF CallFrame
<1>2. V = [k \in 1 .. A + 1 |-> IF k - 1 \in 1 .. A - 1 - n /\ k - 1 + n <= A - n THEN G[k + n] ELSE G[k]]
  <2>1. DOMAIN G = 1 .. A + 1
    BY <1>1
  <2> QED BY <2>1 DEF ShiftedArgv
<1>3. ASSUME ShiftFrees(g, n) = {}, NEW j \in 1 .. A - 1 - n
      PROVE  j + n <= A - n
  <2>1. ~(j + n > A - n)
    BY <1>3 DEF ShiftFrees
  <2> QED BY <1>1, <2>1
<1> HIDE DEF A, G, V
<1>4. /\ \A k \in 1 .. A - n + 1 : V[k] \in Nat
      /\ \A k \in 1 .. A - n : \E j \in 1 .. A : V[k] = G[j]
      /\ V[1] = G[1]
      /\ \A k \in 2 .. A - n : k - 1 + n <= A - n => V[k] = G[k + n]
  <2>1. \A k \in 1 .. A + 1 : G[k] \in Nat
    BY <1>1, ElementOfSeq
  <2>2. ASSUME NEW k \in 1 .. A - n + 1
        PROVE  /\ k \in 1 .. A + 1
               /\ V[k] = IF k - 1 \in 1 .. A - 1 - n /\ k - 1 + n <= A - n THEN G[k + n] ELSE G[k]
               /\ k - 1 + n <= A - n => k + n \in 1 .. A
    BY <1>1, <1>2
  <2>3. \A k \in 1 .. A - n + 1 : V[k] \in Nat
    <3> SUFFICES ASSUME NEW k \in 1 .. A - n + 1 PROVE V[k] \in Nat
      OBVIOUS
    <3>1. CASE k - 1 \in 1 .. A - 1 - n /\ k - 1 + n <= A - n
      <4>1. k + n \in 1 .. A + 1 /\ V[k] = G[k + n]
        BY <1>1, <2>2, <3>1
      <4> QED BY <2>1, <4>1
    <3>2. CASE ~(k - 1 \in 1 .. A - 1 - n /\ k - 1 + n <= A - n)
      BY <2>1, <2>2, <3>2
    <3> QED BY <3>1, <3>2
  <2>4. ASSUME NEW k \in 1 .. A - n PROVE \E j \in 1 .. A : V[k] = G[j]
    <3>1. k \in 1 .. A - n + 1 /\ k \in 1 .. A
      BY <1>1
    <3>2. V[k] = G[k] \/ (k + n \in 1 .. A /\ V[k] = G[k + n])
      BY <2>2, <3>1
    <3> QED BY <3>1, <3>2
  <2>5. V[1] = G[1]
    <3>1. 1 \in 1 .. A - n + 1 /\ ~(1 - 1 \in 1 .. A - 1 - n)
      BY <1>1
    <3> QED BY <2>2, <3>1
  <2>6. ASSUME NEW k \in 2 .. A - n, k - 1 + n <= A - n PROVE V[k] = G[k + n]
    <3>1. k \in 1 .. A - n + 1 /\ k - 1 \in 1 .. A - 1 - n
      BY <1>1
    <3> QED BY <2>2, <2>6, <3>1
  <2> QED BY <2>3, <2>4, <2>5, <2>6
<1>5. /\ W \in Seq(Nat) /\ Len(W) = A - n + 1
      /\ \A k \in 1 .. A - n + 1 : W[k] = V[k]
  <2>1. 1 \in Int /\ A - n + 1 \in Int /\ A - n + 1 - 1 + 1 = A - n + 1 /\ 1 <= A - n + 1
    BY <1>1
  <2>2. /\ W \in Seq(Nat) /\ Len(W) = A - n + 1 - 1 + 1
        /\ \A k \in 1 .. A - n + 1 - 1 + 1 : W[k] = V[1 + k - 1]
    BY <1>4, <2>1, SubSeqProperties
  <2>3. \A k \in 1 .. A - n + 1 : 1 + k - 1 = k
    OBVIOUS
  <2> QED BY <2>1, <2>2, <2>3
<1>6. f \in CallFrame /\ f.argc = A - n /\ f.argv = W /\ A - n \in Nat \ {0} /\ f.body = g.body
  <2>1. f = [argc |-> A - n, argv |-> W, body |-> g.body]
    BY DEF Shifted, A, V
  <2>2. A - n \in Nat \ {0}
    BY <1>1
  <2> HIDE DEF W, f
  <2> QED BY <1>1, <1>5, <2>1, <2>2 DEF CallFrame
<1> HIDE DEF W, f
<1>7. \A k \in 1 .. A - n : W[k] = V[k]
  <2>1. A - n \in Int
    BY <1>1
  <2>2. \A k \in 1 .. A - n : k \in 1 .. A - n + 1
    BY <2>1
  <2> QED BY <1>5, <2>2
<1>8. ASSUME ShiftFrees(g, n) = {}, NEW k \in 2 .. A - n
      PROVE  k + n \in 1 .. A /\ W[k] = G[k + n]
  <2>1. k - 1 \in 1 .. A - 1 - n /\ k - 1 + n <= A - n
    <3>1. k - 1 \in 1 .. A - 1 - n
      BY <1>1
    <3> QED BY <1>3, <1>8, <3>1
  <2> QED BY <1>1, <1>4, <1>7, <2>1
<1>9. W[1] = G[1]
  BY <1>1, <1>4, <1>7
<1> QED
  BY <1>1, <1>4, <1>5, <1>6, <1>7, <1>8, <1>9 DEF A, G, f

LEMMA BuiltinShiftInv == ASSUME Inv, builtin_shift PROVE Inv'
<1>1. PICK n \in 1 .. Frame.argc - 1 :
         LET new == Shifted(Frame, n)
             freed == ShiftFrees(Frame, n) \cup (Owned(Frame) \ Owned(new))
         IN  /\ frames' = [frames EXCEPT ![Len(frames)] = new]
             /\ strings' = [k \in DOMAIN strings \ freed |-> strings[k]]
             /\ status' = IF ShiftFrees(Frame, n) \subseteq DOMAIN strings THEN status ELSE "undefined"
             /\ torn' = (torn \/ ShiftFrees(Frame, n) # {})
             /\ params' = Changed(SubSeq(params[Len(params)], n + 1, Len(params[Len(params)])))
  BY DEF builtin_shift
<1>2. /\ status = "ok" /\ shifted' = [shifted EXCEPT ![Len(shifted)] = TRUE]
      /\ UNCHANGED <<script, functions, bodies>>
  BY DEF builtin_shift, Only
<1> DEFINE f == Shifted(Frame, n)
           F == ShiftFrees(Frame, n)
           A == Frame.argc
           ps == params[Len(params)]
           qs == SubSeq(ps, n + 1, Len(ps))
           freed == F \cup (Owned(Frame) \ Owned(f))
<1>3. /\ A \in Nat \ {0} /\ Frame \in CallFrame /\ Len(Frame.argv) = A + 1 /\ n \in Nat /\ n >= 1
      /\ n <= A - 1 /\ ps \in Seq(Words) /\ torn \in BOOLEAN /\ Memory(strings)
  BY Lengths DEF Inv, ShapeInv
<1>4. /\ f \in CallFrame /\ f.argc = A - n /\ f.body = Frame.body /\ Len(f.argv) = f.argc + 1
      /\ \A k \in 1 .. A - n : \E j \in 1 .. A : f.argv[k] = Frame.argv[j]
      /\ F = {} => /\ f.argv[1] = Frame.argv[1]
                   /\ \A k \in 2 .. A - n : k + n \in 1 .. A /\ f.argv[k] = Frame.argv[k + n]
  BY <1>3, ShiftedFrame
<1>5. /\ frames' = [frames EXCEPT ![Len(frames)] = f]
      /\ strings' = [k \in DOMAIN strings \ freed |-> strings[k]]
      /\ status' = IF F \subseteq DOMAIN strings THEN status ELSE "undefined"
      /\ torn' = (torn \/ F # {})
      /\ params' = Changed(qs)
  BY <1>1
<1> HIDE DEF f, F, ps
<1>6. /\ Len(ps) \in Nat
      /\ qs \in Seq(Words) /\ \A k \in 1 .. Len(ps) - n : qs[k] = ps[k + n]
      /\ Len(ps) = A - 1 => Len(qs) = A - n - 1
  <2>1. Len(ps) \in Nat /\ \A k \in n + 1 .. Len(ps) : ps[k] \in Words
    BY <1>3, LenProperties, ElementOfSeq
  <2>2. /\ qs \in Seq(Words)
        /\ Len(qs) = IF n + 1 <= Len(ps) THEN Len(ps) - (n + 1) + 1 ELSE 0
        /\ \A k \in 1 .. Len(ps) - (n + 1) + 1 : qs[k] = ps[n + 1 + k - 1]
    BY <1>3, <2>1, SubSeqProperties
  <2>3. Len(ps) - (n + 1) + 1 = Len(ps) - n /\ \A k \in 1 .. Len(ps) - n : n + 1 + k - 1 = k + n
    BY <1>3, <2>1
  <2>4. \A k \in 1 .. Len(ps) - n : qs[k] = ps[k + n]
    BY <2>2, <2>3
  <2>5. Len(ps) = A - 1 => Len(qs) = A - n - 1
    BY <1>3, <2>1, <2>2
  <2> QED BY <2>1, <2>2, <2>4, <2>5
<1> HIDE DEF qs, A
<1>7. Memory(strings')
  BY <1>3, <1>5, SmallerMemory
<1>8. StatusInv'
  BY <1>2, <1>5 DEF StatusInv
<1>9. torn' \in BOOLEAN /\ (torn => torn')
  BY <1>3, <1>5
<1>10. ASSUME ~torn'
       PROVE  /\ Owns(f, qs, strings')
              /\ \A d \in DOMAIN frames \ {Len(frames)} :
                    /\ \A k \in 1 .. frames[d].argc :
                          /\ frames[d].argv[k] \in DOMAIN strings'
                          /\ strings'[frames[d].argv[k]] = strings[frames[d].argv[k]]
                    /\ Disjoint(f, frames[d])
  <2>1. ~torn /\ F = {}
    BY <1>5, <1>10
  <2>2. /\ Len(ps) = A - 1
        /\ \A k \in 1 .. A : Frame.argv[k] \in DOMAIN strings
        /\ \A k \in 1 .. A - 1 : strings[Frame.argv[k + 1]] = ps[k]
        /\ \A j, k \in 1 .. A : Frame.argv[j] = Frame.argv[k] => j = k
    BY <2>1, FrameOwns DEF Owns, A, ps
  <2>3. strings' = [k \in DOMAIN strings \ (Owned(Frame) \ Owned(f)) |-> strings[k]]
    BY <1>5, <2>1
  <2>4. \A k \in 1 .. A - n : f.argv[k] \in DOMAIN strings' /\ strings'[f.argv[k]] = strings[f.argv[k]]
    <3>1. \A k \in 1 .. A - n : f.argv[k] \in Owned(f)
      BY <1>4 DEF Owned
    <3> QED BY <1>4, <2>2, <2>3, <3>1
  <2>5. Owns(f, qs, strings')
    <3>1. Len(qs) = f.argc - 1
      BY <1>3, <1>4, <1>6, <2>2
    <3>2. \A k \in 1 .. f.argc : f.argv[k] \in DOMAIN strings'
      BY <1>4, <2>4
    <3>3. ASSUME NEW k \in 1 .. f.argc - 1 PROVE strings'[f.argv[k + 1]] = qs[k]
      <4>1. /\ k + 1 \in 2 .. A - n /\ k + 1 \in 1 .. A - n /\ k + n \in 1 .. A - 1
            /\ k \in 1 .. Len(ps) - n /\ k + 1 + n = (k + n) + 1
        BY <1>3, <1>4, <2>2
      <4>2. strings'[f.argv[k + 1]] = strings[f.argv[k + 1]]
        BY <2>4, <4>1
      <4>3. f.argv[k + 1] = Frame.argv[(k + n) + 1]
        BY <1>4, <2>1, <4>1
      <4>4. strings[Frame.argv[(k + n) + 1]] = ps[k + n]
        BY <2>2, <4>1
      <4> QED BY <1>6, <4>1, <4>2, <4>3, <4>4
    <3>4. ASSUME NEW j \in 1 .. f.argc, NEW k \in 1 .. f.argc, f.argv[j] = f.argv[k] PROVE j = k
      <4> DEFINE From(i) == IF i = 1 THEN 1 ELSE i + n
      <4>1. \A i \in 1 .. A - n : From(i) \in 1 .. A /\ f.argv[i] = Frame.argv[From(i)]
        <5> SUFFICES ASSUME NEW i \in 1 .. A - n
                     PROVE  From(i) \in 1 .. A /\ f.argv[i] = Frame.argv[From(i)]
          OBVIOUS
        <5>1. CASE i = 1
          BY <1>3, <1>4, <2>1, <5>1
        <5>2. CASE i # 1
          <6>1. i \in 2 .. A - n
            BY <1>3, <5>2
          <6> QED BY <1>4, <2>1, <5>2, <6>1
        <5> QED BY <5>1, <5>2
      <4>2. j \in 1 .. A - n /\ k \in 1 .. A - n
        BY <1>4
      <4>3. From(j) = From(k)
        BY <2>2, <3>4, <4>1, <4>2
      <4> QED BY <1>3, <4>2, <4>3
    <3> QED BY <3>1, <3>2, <3>3, <3>4 DEF Owns
  <2>6. ASSUME NEW d \in DOMAIN frames \ {Len(frames)}
        PROVE  /\ \A k \in 1 .. frames[d].argc :
                     /\ frames[d].argv[k] \in DOMAIN strings'
                     /\ strings'[frames[d].argv[k]] = strings[frames[d].argv[k]]
               /\ Disjoint(f, frames[d])
    <3>1. Owns(frames[d], params[d], strings) /\ Disjoint(frames[d], Frame) /\ Disjoint(Frame, frames[d])
      BY <2>1, FrameOwns
    <3>2. \A k \in 1 .. frames[d].argc :
             frames[d].argv[k] \in DOMAIN strings /\ frames[d].argv[k] \notin Owned(Frame)
      BY <3>1 DEF Owns, Disjoint, Owned
    <3>3. Disjoint(f, frames[d])
      <4>1. \A j \in 1 .. A, k \in 1 .. frames[d].argc : Frame.argv[j] # frames[d].argv[k]
        BY <3>1 DEF Disjoint, A
      <4> QED BY <1>4, <4>1 DEF Disjoint
    <3> QED BY <2>3, <3>2, <3>3
  <2> QED BY <2>5, <2>6
<1>11. ReplacesFrame(f, qs)
  BY <1>2, <1>4, <1>5, <1>7, <1>9, <1>10 DEF ReplacesFrame
<1> QED
  BY <1>2, <1>4, <1>6, <1>8, <1>11, TopInv

-----------------------------------------------------------------------------
(* Functions *)

LEMMA FreshBody ==
    ASSUME Memory(bodies)
    PROVE  Free(bodies, 1)[1] \in Nat \ {NULL} /\ Free(bodies, 1)[1] \notin DOMAIN bodies
<1>1. 1 \in Nat /\ 1 \in 1 .. 1
  OBVIOUS
<1>2. /\ Free(bodies, 1) \in Seq(Nat \ {NULL}) /\ Len(Free(bodies, 1)) = 1
      /\ \A j \in 1 .. 1 : Free(bodies, 1)[j] \notin DOMAIN bodies
  BY <1>1, FreeFresh
<1>3. Free(bodies, 1)[1] \in Nat \ {NULL}
  BY <1>1, <1>2, ElementOfSeq
<1> QED
  BY <1>1, <1>2, <1>3

LEMMA PutMemory ==
    ASSUME NEW m, Memory(m), NEW k \in Nat \ {NULL}, NEW v
    PROVE  Memory(Put(m, k, v))
  BY FS_AddElement DEF Memory, Put

LEMMA DropMemory ==
    ASSUME NEW m, Memory(m), NEW k
    PROVE  Memory(Drop(m, k))
  BY FS_Subset DEF Memory, Drop

\* Steps that leave frames, parameters and strings alone.
LEMMA FramesStay ==
    ASSUME Inv, status = "ok", UNCHANGED <<script, frames, strings, params, torn, shifted>>,
           Memory(bodies'), BodiesInv', StatusInv'
    PROVE  Inv'
<1>1. ShapeInv'
  BY DEF Inv, ShapeInv, Memory
<1>2. ArgumentsInv'
  BY DEF Inv, ArgumentsInv
<1>3. EndInv'
  BY DEF Inv, EndInv
<1> QED
  BY <1>1, <1>2, <1>3 DEF Inv

LEMMA FunctionDefinitionInv == ASSUME Inv, run_function_definition PROVE Inv'
<1> DEFINE b == Free(bodies, 1)[1]
           Old(f) == IF f \in DOMAIN functions THEN {functions[f]} ELSE {}
<1>1. PICK f \in Function :
         /\ functions' = Put(functions, f, b)
         /\ bodies' = Put([k \in DOMAIN bodies \ Old(f) |-> bodies[k]], b, f)
  BY DEF run_function_definition
<1>2. status = "ok" /\ UNCHANGED <<script, frames, strings, params, torn, shifted, status>>
  BY DEF run_function_definition, Only
<1>3. Memory(bodies) /\ b \in Nat \ {NULL} /\ b \notin DOMAIN bodies
  BY FreshBody DEF Inv, ShapeInv
<1> HIDE DEF b
<1>4. Memory(bodies')
  <2>1. Memory([k \in DOMAIN bodies \ Old(f) |-> bodies[k]])
    BY <1>3, SmallerMemory
  <2> QED BY <1>1, <1>3, <2>1, PutMemory
<1>5. DOMAIN bodies' = (DOMAIN bodies \ Old(f)) \cup {b}
  BY <1>1 DEF Put
<1>6. /\ DOMAIN functions' = DOMAIN functions \cup {f} /\ functions'[f] = b
      /\ \A g \in DOMAIN functions : g # f => functions'[g] = functions[g]
  BY <1>1 DEF Put
<1>7. BodiesInv
  BY DEF Inv
<1>8. \A g \in DOMAIN functions : g # f => functions[g] \in DOMAIN bodies \ Old(f)
  BY <1>7 DEF BodiesInv
<1>9. \A d \in DOMAIN frames : d # 1 => frames[d].body \in DOMAIN bodies \ Old(f)
  BY <1>7 DEF BodiesInv
<1>10. BodiesInv'
  <2>1. \A g \in DOMAIN functions' : functions'[g] \in DOMAIN bodies'
    BY <1>5, <1>6, <1>8
  <2>2. \A g, h \in DOMAIN functions' : functions'[g] = functions'[h] => g = h
    BY <1>3, <1>6, <1>7 DEF BodiesInv
  <2>3. ASSUME NEW d \in DOMAIN frames
        PROVE  /\ d = 1 => frames[d].body = NULL
               /\ d # 1 => frames[d].body \in DOMAIN bodies'
               /\ d # 1 => \A g \in DOMAIN functions' : functions'[g] # frames[d].body
               /\ d # 1 => \A e \in DOMAIN frames \ {d} : frames[e].body # frames[d].body
    <3>1. d # 1 => frames[d].body \in DOMAIN bodies'
      BY <1>5, <1>9
    <3>2. d # 1 => \A g \in DOMAIN functions' : functions'[g] # frames[d].body
      BY <1>3, <1>6, <1>7, <1>9 DEF BodiesInv
    <3> QED BY <1>7, <3>1, <3>2 DEF BodiesInv
  <2> QED BY <1>2, <2>1, <2>2, <2>3 DEF BodiesInv, NULL
<1>11. StatusInv'
  BY <1>2 DEF Inv, StatusInv
<1> QED
  BY <1>2, <1>4, <1>10, <1>11, FramesStay

LEMMA BuiltinUnsetInv == ASSUME Inv, builtin_unset_f PROVE Inv'
<1>1. PICK f \in DOMAIN functions :
         functions' = Drop(functions, f) /\ bodies' = Drop(bodies, functions[f])
  BY DEF builtin_unset_f
<1>2. status = "ok" /\ UNCHANGED <<script, frames, strings, params, torn, shifted, status>>
  BY DEF builtin_unset_f, Only
<1>3. Memory(bodies')
  BY <1>1, DropMemory DEF Inv, ShapeInv
<1>4. /\ DOMAIN functions' = DOMAIN functions \ {f}
      /\ \A g \in DOMAIN functions' : functions'[g] = functions[g]
      /\ DOMAIN bodies' = DOMAIN bodies \ {functions[f]}
  BY <1>1 DEF Drop
<1>5. BodiesInv'
  BY <1>2, <1>4 DEF Inv, BodiesInv, NULL
<1>6. StatusInv'
  BY <1>2 DEF Inv, StatusInv
<1> QED
  BY <1>2, <1>3, <1>5, <1>6, FramesStay

\* Functions and bodies as they were.
LEMMA VariablesInv ==
    ASSUME Inv, Assign \/ builtin_export \/ builtin_unset \/ builtin_read \/ SetAllexport
                \/ run_process \/ ResetOptind
    PROVE  Inv'
<1>1. /\ status = "ok"
      /\ UNCHANGED <<script, frames, strings, params, torn, shifted, functions, bodies, status>>
  BY DEF Assign, builtin_export, builtin_unset, builtin_read, SetAllexport, run_process, state,
         ResetOptind, Only
<1>2. BodiesInv' /\ StatusInv' /\ Memory(bodies')
  BY <1>1 DEF Inv, ShapeInv, BodiesInv, StatusInv, Memory, NULL
<1> QED
  BY <1>1, <1>2, FramesStay

LEMMA BuiltinGetoptsInv == ASSUME Inv, builtin_getopts PROVE Inv'
<1>1. /\ status = "ok" /\ status' \in {"ok", "aborts"}
      /\ status' = "aborts" => Frame.argv[Frame.argc + 1] # NULL
      /\ UNCHANGED <<script, frames, strings, params, torn, shifted, functions, bodies>>
  BY DEF builtin_getopts, Only
<1>2. status' = "aborts" => shifted[Len(shifted)]
  <2>1. /\ Len(frames) \in DOMAIN frames /\ Len(shifted) = Len(frames)
    BY Lengths
  <2> QED BY <1>1, <2>1 DEF Inv, EndInv, Frame
<1>3. BodiesInv' /\ Memory(bodies')
  BY <1>1 DEF Inv, ShapeInv, BodiesInv, Memory, NULL
<1>4. StatusInv'
  BY <1>1, <1>2 DEF Inv, StatusInv
<1> QED
  BY <1>1, <1>3, <1>4, FramesStay

LEMMA DoneInv == ASSUME Inv, UNCHANGED all PROVE Inv'
<1>1. UNCHANGED <<script, frames, strings, params, torn, shifted, functions, bodies, status>>
  BY DEF all, state
<1>2. ShapeInv'
  BY <1>1 DEF Inv, ShapeInv, Memory
<1>3. ArgumentsInv' /\ EndInv'
  BY <1>1 DEF Inv, ArgumentsInv, EndInv
<1>4. BodiesInv' /\ StatusInv'
  BY <1>1 DEF Inv, BodiesInv, StatusInv, NULL
<1> QED
  BY <1>2, <1>3, <1>4 DEF Inv

-----------------------------------------------------------------------------
(* Calls *)

\* What a frame owns is what its positional parameters expand to.
LEMMA ArgsOwned ==
    ASSUME NEW f \in CallFrame, NEW ps \in Seq(Words), Owns(f, ps, strings)
    PROVE  Args(f) = ps
<1>1. f.argc \in Nat \ {0} /\ Len(ps) = f.argc - 1
  BY DEF CallFrame, Owns
<1>2. ASSUME NEW k \in 1 .. f.argc - 1 PROVE ArgText(f, k) = ps[k]
  <2>1. k + 1 \in 1 .. f.argc
    BY <1>1
  <2>2. f.argv[k + 1] \in DOMAIN strings /\ strings[f.argv[k + 1]] = ps[k]
    BY <2>1 DEF Owns
  <2> QED BY <2>2 DEF ArgText
<1>3. ps = [k \in 1 .. f.argc - 1 |-> ps[k]]
  BY <1>1
<1>4. Args(f) = [k \in 1 .. f.argc - 1 |-> ArgText(f, k)]
  BY DEF Args
<1> QED
  BY <1>2, <1>3, <1>4

\* The arguments that a frame gives to a call are a sequence.
LEMMA ArgsType ==
    ASSUME NEW f \in CallFrame
    PROVE  Args(f) \in Seq(Range(Args(f))) /\ Len(Args(f)) \in Nat
<1> DEFINE n == f.argc - 1
           T == Range(Args(f))
<1>1. n \in Nat
  BY DEF CallFrame
<1>2. Args(f) = [k \in 1 .. n |-> ArgText(f, k)]
  BY DEF Args
<1>3. \A k \in 1 .. n : ArgText(f, k) \in T
  BY <1>2 DEF Range
<1> HIDE DEF n, T
<1>4. Args(f) \in Seq(T)
  BY <1>1, <1>2, <1>3
<1> QED
  BY <1>4, LenProperties DEF T

\* A frame g is pushed, with the parameters ps and a body of its own.
PushesFrame(g, ps) ==
    /\ Len(g.argv) = g.argc + 1 /\ g.argv[g.argc + 1] = NULL
    /\ frames' = Append(frames, g) /\ params' = Append(params, ps) /\ shifted' = Append(shifted, FALSE)
    /\ g.body \in Nat \ {NULL} /\ g.body \notin DOMAIN bodies /\ g.body \in DOMAIN bodies'
    /\ DOMAIN bodies \subseteq DOMAIN bodies' /\ Memory(bodies')
    /\ Memory(strings') /\ UNCHANGED <<script, functions, status, torn>>
    /\ \A k \in DOMAIN strings : k \in DOMAIN strings' /\ strings'[k] = strings[k]
    /\ \A k \in 1 .. g.argc : g.argv[k] \notin DOMAIN strings
    /\ ~torn => Owns(g, ps, strings')

LEMMA PushInv ==
    ASSUME Inv, status = "ok", NEW g \in CallFrame, NEW ps \in Seq(Words), PushesFrame(g, ps)
    PROVE  Inv'
<1> USE DEF PushesFrame
<1> DEFINE L == Len(frames)
<1>1. /\ L \in Nat \ {0} /\ DOMAIN frames = 1 .. L /\ DOMAIN params = 1 .. L /\ DOMAIN shifted = 1 .. L
      /\ Len(params) = L /\ Len(shifted) = L
  BY Lengths
<1>2. /\ frames \in Seq(CallFrame) /\ params \in Seq(Seq(Words)) /\ shifted \in Seq(BOOLEAN)
      /\ \A d \in 1 .. L : frames[d].argc \in Nat /\ Len(frames[d].argv) = frames[d].argc + 1
  <2>1. frames \in Seq(CallFrame) /\ params \in Seq(Seq(Words)) /\ shifted \in Seq(BOOLEAN)
        /\ \A d \in DOMAIN frames : Len(frames[d].argv) = frames[d].argc + 1
    BY DEF Inv, ShapeInv
  <2>2. \A d \in 1 .. L : frames[d] \in CallFrame
    BY <2>1, ElementOfSeq
  <2> QED BY <1>1, <2>1, <2>2 DEF CallFrame
<1>3. /\ frames' \in Seq(CallFrame) /\ Len(frames') = L + 1
      /\ frames'[L + 1] = g /\ \A d \in 1 .. L : frames'[d] = frames[d]
  BY <1>2, AppendProperties
<1>4. /\ params' \in Seq(Seq(Words)) /\ Len(params') = L + 1
      /\ params'[L + 1] = ps /\ \A d \in 1 .. L : params'[d] = params[d]
  BY <1>1, <1>2, AppendProperties
<1>5. /\ shifted' \in Seq(BOOLEAN) /\ Len(shifted') = L + 1
      /\ \A d \in 1 .. L : ~shifted'[d] => ~shifted[d]
  <2>1. shifted \in Seq(BOOLEAN) /\ Len(shifted) = L /\ shifted' = Append(shifted, FALSE) /\ L \in Nat
    BY <1>1, <1>2
  <2> HIDE DEF L, PushesFrame
  <2>2. shifted' \in Seq(BOOLEAN) /\ Len(shifted') = L + 1
    BY <2>1
  <2>3. \A d \in 1 .. L : ~shifted'[d] => ~shifted[d]
    BY <2>1
  <2> QED BY <2>2, <2>3
<1> HIDE DEF L
<1>6. /\ DOMAIN frames' = 1 .. L + 1 /\ L + 1 \in 1 .. L + 1
      /\ \A d \in 1 .. L + 1 : d # L + 1 => d \in 1 .. L
  BY <1>1, <1>3, LenProperties
<1>7. ShapeInv'
  <2>1. script' \in Scripts /\ torn' \in BOOLEAN
    BY DEF Inv, ShapeInv
  <2>2. \A d \in 1 .. L + 1 : Len(frames'[d].argv) = frames'[d].argc + 1
    BY <1>2, <1>3, <1>6
  <2>3. frames' # <<>>
    BY <1>6, <1>3, EmptySeq
  <2> QED BY <1>3, <1>4, <1>5, <1>6, <2>1, <2>2, <2>3 DEF ShapeInv
<1>8. ArgumentsInv'
  <2> SUFFICES ASSUME ~torn', NEW d \in 1 .. L + 1
               PROVE  /\ Owns(frames'[d], params'[d], strings')
                      /\ \A e \in (1 .. L + 1) \ {d} : Disjoint(frames'[d], frames'[e])
    BY <1>6 DEF ArgumentsInv
  <2>1. ~torn /\ Owns(g, ps, strings')
    OBVIOUS
  <2>2. \A e \in 1 .. L : /\ Owns(frames[e], params[e], strings)
                          /\ \A h \in (1 .. L) \ {e} : Disjoint(frames[e], frames[h])
    BY <1>1, <2>1 DEF Inv, ArgumentsInv
  <2>3. \A e \in 1 .. L : Disjoint(g, frames[e]) /\ Disjoint(frames[e], g)
    <3>1. ASSUME NEW e \in 1 .. L PROVE Disjoint(g, frames[e])
      <4>1. \A k \in 1 .. frames[e].argc : frames[e].argv[k] \in DOMAIN strings
        BY <2>2 DEF Owns
      <4> QED BY <4>1 DEF Disjoint
    <3> QED BY <3>1, DisjointBack
  <2>4. CASE d = L + 1
    BY <1>3, <1>4, <1>6, <2>1, <2>3, <2>4
  <2>5. CASE d # L + 1
    <3>1. d \in 1 .. L /\ frames'[d] = frames[d] /\ params'[d] = params[d]
      BY <1>3, <1>4, <1>6, <2>5
    <3>2. \A k \in 1 .. frames[d].argc : frames[d].argv[k] \in DOMAIN strings
      BY <2>2, <3>1 DEF Owns
    <3>3. Owns(frames[d], params[d], strings')
      <4>1. \A k \in 1 .. frames[d].argc :
               frames[d].argv[k] \in DOMAIN strings' /\ strings'[frames[d].argv[k]] = strings[frames[d].argv[k]]
        BY <3>2
      <4> QED BY <1>2, <2>2, <3>1, <4>1, OwnsElsewhere
    <3> QED BY <1>3, <1>6, <2>2, <2>3, <3>1, <3>3
  <2> QED BY <2>4, <2>5
<1>9. EndInv'
  <2>1. \A d \in 1 .. L : ~shifted[d] => frames[d].argv[frames[d].argc + 1] = NULL
    BY <1>1 DEF Inv, EndInv
  <2> QED BY <1>3, <1>5, <1>6, <2>1 DEF EndInv, NULL
<1>10. BodiesInv'
  <2>1. BodiesInv
    BY DEF Inv
  <2>2. \A d \in 1 .. L : /\ frames'[d] = frames[d] /\ frames[d].body # g.body
    BY <1>1, <1>3, <2>1 DEF BodiesInv
  <2>3. \A f \in DOMAIN functions : functions[f] # g.body
    BY <2>1 DEF BodiesInv
  <2>4. L + 1 # 1
    BY <1>1
  <2> QED BY <1>1, <1>3, <1>6, <2>1, <2>2, <2>3, <2>4 DEF BodiesInv, NULL
<1>11. StatusInv'
  BY DEF StatusInv
<1> QED
  BY <1>7, <1>8, <1>9, <1>10, <1>11 DEF Inv

LEMMA CallFunctionInv == ASSUME Inv, CallFunction PROVE Inv'
<1>1. PICK f \in DOMAIN functions, args \in script.lists \cup {Args(Frame)} :
         LET new == Strdup(strings, <<<<f>>>> \o args)
             run == RunBody(f)
         IN  /\ strings' = new.strings /\ bodies' = run.bodies
             /\ frames' = Append(frames, [argc |-> Len(args) + 1, argv |-> Append(new.ids, NULL), body |-> run.body])
             /\ params' = Append(params, IF args = Args(Frame) THEN params[Len(params)] ELSE args)
  BY DEF CallFunction
<1>2. /\ status = "ok" /\ shifted' = Append(shifted, FALSE)
      /\ UNCHANGED <<script, functions, status, torn>>
  BY DEF CallFunction, Only
<1> DEFINE b == Free(bodies, 1)[1]
           ps == IF args = Args(Frame) THEN params[Len(params)] ELSE args
           texts == <<<<f>>>> \o args
           new == Strdup(strings, texts)
           g == [argc |-> Len(args) + 1, argv |-> Append(new.ids, NULL), body |-> b]
<1>3. Memory(strings) /\ Memory(bodies) /\ Frame \in CallFrame /\ params[Len(params)] \in Seq(Words)
  BY Lengths DEF Inv, ShapeInv
<1>4. b \in Nat \ {NULL} /\ b \notin DOMAIN bodies
  BY <1>3, FreshBody
<1>5. bodies' = Put(bodies, b, f) /\ RunBody(f).body = b
  BY <1>1 DEF RunBody
<1>6. args \in Seq(Range(args)) /\ Len(args) \in Nat
  <2>1. CASE args = Args(Frame)
    BY <1>3, <2>1, ArgsType
  <2>2. CASE args # Args(Frame)
    <3>1. args \in script.lists /\ script \in Scripts
      BY <2>2 DEF Inv, ShapeInv
    <3> QED BY <3>1, ScriptsAssumption, LenProperties
  <2> QED BY <2>1, <2>2
<1>7. ps \in Seq(Words)
  <2>1. CASE args = Args(Frame)
    BY <1>3, <2>1
  <2>2. CASE args # Args(Frame)
    BY <2>2, ListType
  <2> QED BY <2>1, <2>2
<1>8. ~torn => ps = args
  BY <1>3, FrameOwns, ArgsOwned
<1>9. /\ g \in CallFrame /\ Len(g.argv) = g.argc + 1 /\ g.argv[g.argc + 1] = NULL
      /\ Owns(g, args, new.strings)
      /\ \A k \in 1 .. g.argc : g.argv[k] \notin DOMAIN strings
      /\ Memory(new.strings)
      /\ \A k \in DOMAIN strings : k \in DOMAIN new.strings /\ new.strings[k] = strings[k]
  <2>1. Len(texts) = Len(args) + 1 /\ \A k \in 1 .. Len(args) : texts[k + 1] = args[k]
    BY <1>6, FrameTexts
  <2>2. b \in Nat
    BY <1>4
  <2>3. Memory(strings) /\ Len(args) \in Nat
    BY <1>3, <1>6
  <2> HIDE DEF texts, b
  <2>4. MakesFrame(g, strings, texts, new, args, b)
    BY <2>1, <2>2, <2>3 DEF MakesFrame
  <2> HIDE DEF g, new
  <2> QED BY <2>4, NewFrame DEF OwnsCopies
<1>10. /\ frames' = Append(frames, g) /\ params' = Append(params, ps) /\ strings' = new.strings
       /\ g.body = b
  BY <1>1, <1>5
<1>11. b \in DOMAIN bodies' /\ DOMAIN bodies \subseteq DOMAIN bodies'
  BY <1>5 DEF Put
<1>12. Memory(bodies')
  BY <1>3, <1>4, <1>5, PutMemory
<1> HIDE DEF b, ps, new, g
<1>13. PushesFrame(g, ps)
  BY <1>2, <1>4, <1>8, <1>9, <1>10, <1>11, <1>12 DEF PushesFrame
<1> QED
  BY <1>2, <1>7, <1>9, <1>13, PushInv

\* A sequence without its last element.
LEMMA FrontType ==
    ASSUME NEW S, NEW s \in Seq(S), Len(s) > 1
    PROVE  /\ Front(s) \in Seq(S) /\ Len(Front(s)) = Len(s) - 1
           /\ \A d \in 1 .. Len(s) - 1 : Front(s)[d] = s[d]
<1>1. Len(s) \in Nat /\ Front(s) = SubSeq(s, 1, Len(s) - 1)
  BY DEF Front
<1> QED
  BY <1>1

LEMMA ReturnInv == ASSUME Inv, Return PROVE Inv'
<1> DEFINE L == Len(frames)
<1>1. /\ L \in Nat \ {0} /\ DOMAIN frames = 1 .. L /\ DOMAIN params = 1 .. L /\ DOMAIN shifted = 1 .. L
      /\ Len(params) = L /\ Len(shifted) = L
  BY Lengths
<1>2. L > 1 /\ status = "ok" /\ UNCHANGED <<script, functions, torn>>
  BY DEF Return, Only
<1>3. /\ frames \in Seq(CallFrame) /\ params \in Seq(Seq(Words)) /\ shifted \in Seq(BOOLEAN)
      /\ torn \in BOOLEAN /\ Memory(strings) /\ Memory(bodies) /\ BodiesInv
      /\ \A d \in DOMAIN frames : Len(frames[d].argv) = frames[d].argc + 1
  BY DEF Inv, ShapeInv
<1>4. Frame.body \in DOMAIN bodies /\ Frame = frames[L]
  BY <1>1, <1>2, <1>3 DEF BodiesInv, Frame
<1>5. CASE DoubleFree(Frame) \/ Frame.body \notin DOMAIN bodies
  <2>1. torn
    BY <1>3, <1>4, <1>5, FrameOwns
  <2>2. status' = "undefined" /\ UNCHANGED <<frames, strings, bodies, params, shifted>>
    BY <1>5 DEF Return
  <2> QED BY <1>2, <2>1, <2>2, StopsInv
<1>6. CASE ~DoubleFree(Frame) /\ Frame.body \in DOMAIN bodies
  <2>1. /\ bodies' = Drop(bodies, Frame.body)
        /\ strings' = [k \in DOMAIN strings \ Owned(Frame) |-> strings[k]]
        /\ frames' = Front(frames) /\ params' = Front(params) /\ shifted' = Front(shifted)
        /\ status' = status
    BY <1>6 DEF Return
  <2> HIDE DEF L
  <2>2. /\ frames' \in Seq(CallFrame) /\ Len(frames') = L - 1 /\ \A d \in 1 .. L - 1 : frames'[d] = frames[d]
        /\ DOMAIN frames' = 1 .. L - 1 /\ DOMAIN frames' \subseteq DOMAIN frames
    <3>1. /\ frames' \in Seq(CallFrame) /\ Len(frames') = L - 1
          /\ \A d \in 1 .. L - 1 : frames'[d] = frames[d]
      BY <1>2, <1>3, <2>1, FrontType DEF L
    <3> QED BY <1>1, <3>1, LenProperties
  <2>3. /\ params' \in Seq(Seq(Words)) /\ Len(params') = L - 1
        /\ \A d \in 1 .. L - 1 : params'[d] = params[d]
    BY <1>1, <1>2, <1>3, <2>1, FrontType
  <2>4. /\ shifted' \in Seq(BOOLEAN) /\ Len(shifted') = L - 1
        /\ \A d \in 1 .. L - 1 : ~shifted'[d] => ~shifted[d]
    <3>1. shifted' = SubSeq(shifted, 1, L - 1) /\ shifted \in Seq(BOOLEAN) /\ Len(shifted) = L /\ L \in Nat
      BY <1>1, <1>3, <2>1 DEF Front
    <3>2. shifted' \in Seq(BOOLEAN) /\ Len(shifted') = L - 1
      BY <1>2, <3>1
    <3>3. \A d \in 1 .. L - 1 : ~shifted'[d] => ~shifted[d]
      BY <1>2, <3>1
    <3> QED BY <3>2, <3>3
  <2>5. Memory(strings') /\ Memory(bodies')
    BY <1>3, <2>1, SmallerMemory, DropMemory
  <2>6. ShapeInv'
    <3>1. script' \in Scripts /\ torn' \in BOOLEAN
      BY <1>2 DEF Inv, ShapeInv
    <3>2. frames' # <<>>
      BY <1>2, <1>1, <2>2, EmptySeq
    <3>3. \A d \in DOMAIN frames' : Len(frames'[d].argv) = frames'[d].argc + 1
      BY <1>3, <2>2
    <3> QED BY <2>2, <2>3, <2>4, <2>5, <3>1, <3>2, <3>3 DEF ShapeInv
  <2>7. ArgumentsInv'
    <3> SUFFICES ASSUME ~torn, NEW d \in 1 .. L - 1
                 PROVE  /\ Owns(frames[d], params[d], strings')
                        /\ \A e \in (1 .. L - 1) \ {d} : Disjoint(frames[d], frames[e])
      BY <1>2, <2>2, <2>3 DEF ArgumentsInv
    <3>1. /\ Owns(frames[d], params[d], strings) /\ Disjoint(frames[d], Frame)
          /\ \A e \in (1 .. L - 1) \ {d} : Disjoint(frames[d], frames[e])
      <4>1. \A c \in DOMAIN frames : /\ Owns(frames[c], params[c], strings)
                                     /\ \A e \in DOMAIN frames \ {c} : Disjoint(frames[c], frames[e])
        BY DEF Inv, ArgumentsInv
      <4>2. d \in DOMAIN frames /\ L \in DOMAIN frames \ {d} /\ 1 .. L - 1 \subseteq DOMAIN frames
        BY <1>1
      <4> QED BY <1>4, <4>1, <4>2
    <3>2. \A k \in 1 .. frames[d].argc :
             frames[d].argv[k] \in DOMAIN strings /\ frames[d].argv[k] \notin Owned(Frame)
      BY <3>1 DEF Owns, Disjoint, Owned
    <3>3. \A k \in 1 .. frames[d].argc :
             frames[d].argv[k] \in DOMAIN strings' /\ strings'[frames[d].argv[k]] = strings[frames[d].argv[k]]
      BY <2>1, <3>2
    <3>4. frames[d].argc \in Nat
      <4>1. frames[d] \in CallFrame
        BY <1>1, <1>3, ElementOfSeq DEF L
      <4> QED BY <4>1 DEF CallFrame
    <3>5. Owns(frames[d], params[d], strings')
      BY <3>1, <3>3, <3>4, OwnsElsewhere
    <3> QED BY <3>1, <3>5
  <2>8. EndInv'
    <3>1. \A d \in DOMAIN frames : ~shifted[d] => frames[d].argv[frames[d].argc + 1] = NULL
      BY <1>2 DEF Inv, EndInv
    <3> QED BY <2>2, <2>4, <3>1 DEF EndInv, NULL
  <2>9. BodiesInv'
    <3>1. DOMAIN bodies' = DOMAIN bodies \ {Frame.body}
      BY <2>1 DEF Drop
    <3>2. \A f \in DOMAIN functions : functions[f] # Frame.body
      BY <1>1, <1>2, <1>3, <1>4 DEF BodiesInv
    <3>3. \A d \in 1 .. L - 1 : frames[d].body # Frame.body
      <4>1. L \in DOMAIN frames /\ L # 1 /\ 1 .. L - 1 \subseteq DOMAIN frames \ {L}
        BY <1>1, <1>2 DEF L
      <4>2. \A e \in DOMAIN frames \ {L} : frames[e].body # frames[L].body
        BY <1>3, <4>1 DEF BodiesInv
      <4> QED BY <1>4, <4>1, <4>2
    <3> QED BY <1>2, <1>3, <2>2, <3>1, <3>2, <3>3 DEF BodiesInv, NULL
  <2>10. StatusInv'
    BY <1>2, <2>1 DEF StatusInv
  <2> QED BY <2>6, <2>7, <2>8, <2>9, <2>10 DEF Inv
<1> QED
  BY <1>5, <1>6

LEMMA InitInv == Init => Inv
<1> SUFFICES ASSUME Init PROVE Inv
  OBVIOUS
<1>1. PICK args \in script.lists :
         LET new == Strdup(<<>>, <<<<"sh">>>> \o args)
         IN  /\ strings = new.strings
             /\ frames = <<[argc |-> Len(args) + 1, argv |-> Append(new.ids, NULL), body |-> NULL]>>
             /\ params = <<args>>
  BY DEF Init
<1>2. /\ script \in Scripts /\ functions = <<>> /\ bodies = <<>> /\ status = "ok" /\ torn = FALSE
      /\ shifted = <<FALSE>>
  BY DEF Init
<1> DEFINE texts == <<<<"sh">>>> \o args
           none == <<>>
           new == Strdup(none, texts)
           f == [argc |-> Len(args) + 1, argv |-> Append(new.ids, NULL), body |-> NULL]
<1>3. args \in Seq(Range(args)) /\ Len(args) \in Nat /\ args \in Seq(Words)
  <2>1. args \in Seq(Range(args))
    BY <1>2, ScriptsAssumption
  <2>2. Range(args) \subseteq Words
    BY <1>2 DEF Words
  <2> QED BY <2>1, <2>2, SeqMonotonic, LenProperties
<1>4. Memory(none)
  BY FS_EmptySet DEF Memory
<1>5. /\ f \in CallFrame /\ Len(f.argv) = f.argc + 1 /\ f.argv[f.argc + 1] = NULL
      /\ Owns(f, args, new.strings) /\ Memory(new.strings)
  <2>1. Len(texts) = Len(args) + 1 /\ \A k \in 1 .. Len(args) : texts[k + 1] = args[k]
    BY <1>3, FrameTexts
  <2>2. Len(args) \in Nat /\ NULL \in Nat
    BY <1>3 DEF NULL
  <2> HIDE DEF texts, none
  <2>3. MakesFrame(f, none, texts, new, args, NULL)
    BY <1>4, <2>1, <2>2 DEF MakesFrame
  <2> HIDE DEF f, new
  <2> QED BY <2>3, NewFrame DEF OwnsCopies
<1>6. strings = new.strings /\ frames = <<f>> /\ params = <<args>> /\ f.body = NULL
  BY <1>1
<1> HIDE DEF f, new, none
<1>7. /\ DOMAIN frames = {1} /\ frames[1] = f /\ Len(frames) = 1 /\ frames \in Seq(CallFrame)
      /\ params[1] = args /\ Len(params) = 1 /\ params \in Seq(Seq(Words))
      /\ shifted \in Seq(BOOLEAN) /\ Len(shifted) = 1
  BY <1>2, <1>3, <1>5, <1>6
<1>8. ShapeInv
  <2>1. Memory(bodies)
    BY <1>2, <1>4 DEF none
  <2> QED BY <1>2, <1>5, <1>6, <1>7, <2>1 DEF ShapeInv
<1>9. ArgumentsInv
  BY <1>5, <1>6, <1>7 DEF ArgumentsInv
<1>10. EndInv
  BY <1>5, <1>7 DEF EndInv
<1>11. BodiesInv
  BY <1>2, <1>6, <1>7 DEF BodiesInv
<1>12. StatusInv
  BY <1>2 DEF StatusInv
<1> QED
  BY <1>8, <1>9, <1>10, <1>11, <1>12 DEF Inv

LEMMA NextInv == ASSUME Inv, [Next]_all PROVE Inv'
<1>1. CASE Assign \/ builtin_export \/ builtin_unset \/ builtin_read \/ SetAllexport
           \/ run_process \/ ResetOptind
  BY <1>1, VariablesInv
<1>2. CASE builtin_set
  BY <1>2, BuiltinSetInv
<1>3. CASE builtin_shift
  BY <1>3, BuiltinShiftInv
<1>4. CASE run_function_definition
  BY <1>4, FunctionDefinitionInv
<1>5. CASE builtin_unset_f
  BY <1>5, BuiltinUnsetInv
<1>6. CASE CallFunction
  BY <1>6, CallFunctionInv
<1>7. CASE Return
  BY <1>7, ReturnInv
<1>8. CASE builtin_getopts
  BY <1>8, BuiltinGetoptsInv
<1>9. CASE UNCHANGED all
  BY <1>9, DoneInv
<1>10. CASE Done
  BY <1>10, DoneInv DEF Done
<1> QED
  BY <1>1, <1>2, <1>3, <1>4, <1>5, <1>6, <1>7, <1>8, <1>9, <1>10 DEF Next

\* Through any sequence of commands, the memory of argv and of function bodies keeps its owners
\* as long as no shift tears a frame (set.c, shift.c, task.c push_frame and pop_frame).
THEOREM InvHolds == Spec => []Inv
<1>1. Inv /\ [Next]_all => Inv'
  BY NextInv
<1> QED
  BY InitInv, <1>1, PTL DEF Spec

\* In every state: each frame expands to the parameters that the script gave it, owns its strings
\* and the body it runs, and the assertion of _mrsh_getopt fails in a shifted frame only
\* (set.c:161, shift.c:43, task.c run_command and push_frame, getopt.c:13).
THEOREM ParametersHold == Spec => []ParametersKept
<1>1. ASSUME Inv PROVE ParametersKept
  <2> USE <1>1
  <2>1. /\ frames \in Seq(CallFrame) /\ params \in Seq(Seq(Words)) /\ DOMAIN params = DOMAIN frames
        /\ \A d \in DOMAIN frames : frames[d] \in CallFrame /\ params[d] \in Seq(Words)
        /\ 1 \in DOMAIN frames
    <3>1. frames \in Seq(CallFrame) /\ params \in Seq(Seq(Words))
      BY DEF Inv, ShapeInv
    <3>2. DOMAIN frames = 1 .. Len(frames) /\ DOMAIN params = 1 .. Len(params) /\ Len(params) = Len(frames)
          /\ Len(frames) \in Nat \ {0}
      BY Lengths
    <3> QED BY <3>1, <3>2, ElementOfSeq
  <2>2. ASSUME ~torn, NEW d \in DOMAIN frames
        PROVE  /\ Args(frames[d]) = params[d] /\ ~DoubleFree(frames[d])
               /\ \A e \in DOMAIN frames \ {d} : Owned(frames[d]) \cap Owned(frames[e]) = {}
               /\ d > 1 => /\ frames[d].body \in DOMAIN bodies \ Range(functions)
                           /\ \A e \in DOMAIN frames \ {d} : frames[e].body # frames[d].body
    <3>1. /\ Owns(frames[d], params[d], strings)
          /\ \A e \in DOMAIN frames \ {d} : Disjoint(frames[d], frames[e])
      BY <2>2 DEF Inv, ArgumentsInv
    <3>2. Args(frames[d]) = params[d] /\ ~DoubleFree(frames[d])
      BY <2>1, <3>1, ArgsOwned, NoDoubleFree
    <3>3. \A e \in DOMAIN frames \ {d} : Owned(frames[d]) \cap Owned(frames[e]) = {}
      BY <3>1 DEF Disjoint, Owned
    <3>4. d > 1 => d # 1
      BY <2>1
    <3>5. BodiesInv
      BY DEF Inv
    <3>6. d # 1 => frames[d].body \notin Range(functions)
      BY <3>5 DEF BodiesInv, Range
    <3> QED BY <3>2, <3>3, <3>4, <3>5, <3>6 DEF BodiesInv
  <2> QED BY <2>2 DEF ParametersKept, Inv, StatusInv
<1> QED
  BY <1>1, InvHolds, PTL

-----------------------------------------------------------------------------
(* The environment of a child *)

\* The child that was started last, and the variables as they were then.
ChildInv ==
    child # NoChild =>
        \E as \in {<<>>} \cup {<<a>> : a \in Assigns} :
            child = [kind |-> "child", env |-> populate_env(Assigned(environ, as), vars), assigns |-> as]

\* With at most one assignment: the variables that it adds and the value that it gives.
LEMMA AssignedOne ==
    ASSUME NEW env, NEW as \in {<<>>} \cup {<<a>> : a \in Assigns}
    PROVE  /\ DOMAIN Assigned(env, as) = DOMAIN env \cup {as[k].name : k \in DOMAIN as}
           /\ \A k \in DOMAIN as : Assigned(env, as)[as[k].name] = as[k].value
<1> DEFINE To(n) == {k \in DOMAIN as : as[k].name = n}
<1>1. Assigned(env, as) =
         [n \in DOMAIN env \cup {as[k].name : k \in DOMAIN as} |->
            IF To(n) = {} THEN env[n]
            ELSE as[CHOOSE k \in To(n) : \A j \in To(n) : j <= k].value]
  BY DEF Assigned
<1>2. ASSUME NEW k \in DOMAIN as PROVE Assigned(env, as)[as[k].name] = as[k].value
  <2>1. DOMAIN as = {1} /\ k = 1
    <3>1. as # <<>>
      <4>1. DOMAIN <<>> = {}
        OBVIOUS
      <4>2. k \in DOMAIN as
        OBVIOUS
      <4> QED BY <4>1, <4>2, Zenon
    <3>2. as \in {<<a>> : a \in Assigns}
      BY <3>1
    <3>3. PICK a \in Assigns : as = <<a>>
      BY <3>2
    <3> QED BY <1>2, <3>3
  <2>2. To(as[k].name) = {1}
    BY <2>1
  <2>3. as[k].name \in {as[j].name : j \in DOMAIN as}
    OBVIOUS
  <2> HIDE DEF To
  <2>4. (CHOOSE i \in To(as[k].name) : \A j \in To(as[k].name) : j <= i) = 1
    BY <2>2
  <2> QED BY <1>1, <2>1, <2>2, <2>3, <2>4
<1> QED
  BY <1>1, <1>2

\* A child is told of the assignments of its command and of the exported variables, with the
\* two exceptions of ChildEnvironment (run_process and mrsh_populate_env, simple_command.c:65).
THEOREM ChildHolds == Spec => []ChildEnvironment
<1>1. Init => ChildInv
  BY DEF Init, ChildInv
<1>2. ASSUME ChildInv, [Next]_all PROVE ChildInv'
  <2>1. CASE run_process
    <3>1. UNCHANGED <<script, vars>>
      BY <2>1 DEF run_process, state
    <3>2. \E as \in {<<>>} \cup {<<a>> : a \in Assigns} :
             child' = [kind |-> "child", env |-> populate_env(Assigned(environ, as), vars), assigns |-> as]
      BY <2>1 DEF run_process
    <3> QED BY <3>1, <3>2 DEF ChildInv, environ
  <2>2. CASE UNCHANGED all
    BY <1>2, <2>2 DEF all, state, ChildInv, environ
  <2>3. CASE Next /\ ~run_process /\ ~UNCHANGED all
    <3>1. child' = NoChild
      BY <2>3 DEF Next, Assign, builtin_export, builtin_unset, builtin_read, SetAllexport, builtin_set,
         builtin_shift, run_function_definition, builtin_unset_f, CallFunction, Return,
         builtin_getopts, ResetOptind, Done
    <3> QED BY <3>1 DEF ChildInv, NoChild
  <2> QED BY <1>2, <2>1, <2>2, <2>3
<1>3. ASSUME ChildInv PROVE ChildEnvironment
  <2> SUFFICES ASSUME child # NoChild PROVE ChildEnvironment
    BY DEF ChildEnvironment
  <2>1. PICK as \in {<<>>} \cup {<<a>> : a \in Assigns} :
           child = [kind |-> "child", env |-> populate_env(Assigned(environ, as), vars), assigns |-> as]
    BY <1>3 DEF ChildInv
  <2> DEFINE E == Assigned(environ, as)
             assigned == {as[k].name : k \in DOMAIN as}
             exported == {n \in DOMAIN vars : vars[n].export}
             fresh == Name \ (DOMAIN environ \ exported)
  <2>2. child.assigns = as /\ child.env = populate_env(E, vars)
    BY <2>1
  <2>3. /\ DOMAIN E = DOMAIN environ \cup assigned
        /\ \A k \in DOMAIN as : E[as[k].name] = as[k].value
    BY AssignedOne
  <2> HIDE DEF E
  <2>4. /\ DOMAIN child.env = DOMAIN environ \cup assigned \cup exported
        /\ \A n \in exported : child.env[n] = vars[n].value
        /\ \A n \in assigned : n \notin exported => child.env[n] = E[n]
    BY <2>2, <2>3 DEF populate_env, Exported
  <2>5. DOMAIN child.env \cap fresh = (assigned \cup exported) \cap fresh
    BY <2>4
  <2>6. \A k \in DOMAIN as : as[k].name \notin exported => child.env[as[k].name] = as[k].value
    BY <2>3, <2>4
  <2>7. \A n \in exported \ assigned : child.env[n] = vars[n].value
    BY <2>4
  <2> HIDE DEF fresh, exported, assigned
  <2>8. /\ DOMAIN child.env \cap fresh = (assigned \cup exported) \cap fresh
        /\ \A n \in exported \ assigned : child.env[n] = vars[n].value
        /\ \A k \in DOMAIN child.assigns :
              child.assigns[k].name \notin exported => child.env[child.assigns[k].name] = child.assigns[k].value
        /\ assigned = {child.assigns[k].name : k \in DOMAIN child.assigns}
    BY <2>2, <2>5, <2>6, <2>7 DEF assigned
  <2> QED BY <2>8 DEF ChildEnvironment, fresh, exported
<1> QED
  BY <1>1, <1>2, <1>3, PTL DEF Spec

-----------------------------------------------------------------------------
(* getopts *)

\* What Options gives from the argument k on, by what f gives from the later ones on.
FromHere(args, o, f, k) ==
    IF k > Len(args) \/ ~IsOption(args, k) THEN <<>>
    ELSE IF ~Takes(args[k][2], o) THEN <<[opt |-> args[k][2], arg |-> <<>>]>> \o f[k + 1]
    ELSE IF Len(args[k]) > 2
    THEN <<[opt |-> args[k][2], arg |-> <<SubSeq(args[k], 3, Len(args[k]))>>]>> \o f[k + 1]
    ELSE IF k = Len(args) THEN <<>>
    ELSE <<[opt |-> args[k][2], arg |-> <<args[k + 1]>>]>> \o f[k + 2]

\* f gives the options from each argument on.
Walks(args, o, f) == f = [k \in 1 .. Len(args) + 2 |-> FromHere(args, o, f, k)]

\* The options that an argument list can have.
Found(args) ==
    [opt : {args[k][2] : k \in DOMAIN args},
     arg : {<<>>} \cup {<<SubSeq(args[k], 3, Len(args[k]))>> : k \in DOMAIN args} \cup {<<args[k]>> : k \in DOMAIN args}]

\* Induction from n down to 0: what holds of no number below a bound but its successor holds of all.
LEMMA Descent ==
    ASSUME NEW n \in Nat, NEW S, 0 \in S, \A m \in 0 .. n - 1 : m \in S => m + 1 \in S
    PROVE  \A m \in 0 .. n : m \in S
<1> DEFINE T == {m \in 0 .. n : m \notin S}
<1>1. SUFFICES ASSUME T # {} PROVE FALSE
  OBVIOUS
<1>2. T \subseteq Nat
  OBVIOUS
<1>3. PICK s \in T : \A k \in T : s <= k
  BY <1>1, <1>2, SmallestExists
<1>4. s \in 1 .. n /\ s - 1 \in 0 .. n - 1 /\ s - 1 \notin T
  BY <1>3
<1>5. s - 1 \in S
  BY <1>4
<1>6. (s - 1) + 1 \in S /\ (s - 1) + 1 = s
  BY <1>4, <1>5
<1> QED BY <1>3, <1>6

\* There is such a function, and it is the one that Options defines.
LEMMA WalkExists ==
    ASSUME NEW args, Len(args) \in Nat, NEW o
    PROVE  \E f : Walks(args, o, f)
<1> DEFINE n == Len(args) + 2
           D == 1 .. n
           Ok(f, m) == f = [k \in D |-> f[k]] /\ \A k \in D : k > n - m => f[k] = FromHere(args, o, f, k)
           S == {m \in 0 .. n : \E f : Ok(f, m)}
<1>1. n \in Nat
  OBVIOUS
<1>2. 0 \in S
  <2> DEFINE none == [k \in D |-> <<>>]
  <2>1. \A k \in D : ~(k > n - 0)
    BY <1>1
  <2>2. none = [k \in D |-> none[k]]
    OBVIOUS
  <2>3. Ok(none, 0)
    BY <2>1, <2>2
  <2> QED BY <1>1, <2>3
<1>3. ASSUME NEW m \in 0 .. n - 1, m \in S PROVE m + 1 \in S
  <2>1. PICK f : Ok(f, m)
    BY <1>3
  <2> DEFINE j == n - m
             g == [k \in D |-> IF k = j THEN FromHere(args, o, f, j) ELSE f[k]]
  <2>2. j \in D
    BY <1>1
  <2>3. ASSUME NEW k \in D, k >= j PROVE FromHere(args, o, g, k) = FromHere(args, o, f, k)
    <3>1. k <= Len(args) => k + 1 \in D /\ k + 1 # j /\ (k # Len(args) => k + 2 \in D /\ k + 2 # j)
      BY <1>1, <2>2, <2>3
    <3>2. k <= Len(args) => g[k + 1] = f[k + 1] /\ (k # Len(args) => g[k + 2] = f[k + 2])
      BY <3>1
    <3>3. ~(k <= Len(args)) => k > Len(args)
      BY <2>2
    <3> HIDE DEF g, j
    <3> QED BY <3>2, <3>3 DEF FromHere
  <2>4. ASSUME NEW k \in D, k > n - (m + 1) PROVE g[k] = FromHere(args, o, g, k)
    <3>1. k >= j /\ (k # j => k > n - m)
      BY <1>1, <2>4
    <3>2. k # j => f[k] = FromHere(args, o, f, k)
      BY <2>1, <3>1
    <3>3. g[k] = FromHere(args, o, f, k)
      <4> HIDE DEF j
      <4> QED BY <3>2
    <3> QED BY <2>3, <3>1, <3>3
  <2>5. g = [k \in D |-> g[k]]
    <3> HIDE DEF j, D
    <3> QED OBVIOUS
  <2> HIDE DEF g
  <2>6. Ok(g, m + 1)
    BY <2>4, <2>5
  <2> QED BY <1>1, <1>3, <2>6
<1> HIDE DEF S
<1>4. n \in S
  <2>1. \A m \in 0 .. n : m \in S
    BY <1>1, <1>2, <1>3, Descent
  <2> QED BY <1>1, <2>1
<1>5. PICK f : Ok(f, n)
  BY <1>4 DEF S
<1>6. \A k \in D : f[k] = FromHere(args, o, f, k)
  BY <1>1, <1>5
<1>7. f = [k \in D |-> f[k]]
  BY <1>5
<1> QED BY <1>6, <1>7 DEF Walks

LEMMA OptionsWalk ==
    ASSUME NEW args, Len(args) \in Nat, NEW o
    PROVE  \E f : Walks(args, o, f) /\ Options(args, o) = f[1]
<1>1. Options(args, o) = (CHOOSE f : Walks(args, o, f))[1]
  BY DEF Options, Walks, FromHere
<1> QED BY <1>1, WalkExists

\* It gives sequences of options.
LEMMA WalkType ==
    ASSUME NEW args, NEW W, args \in Seq(W), NEW o, NEW f, Walks(args, o, f)
    PROVE  \A k \in 1 .. Len(args) + 2 : f[k] \in Seq(Found(args)) /\ f[k] = FromHere(args, o, f, k)
<1> DEFINE n == Len(args) + 2
           F == Found(args)
           S == {m \in 0 .. n : \A k \in 1 .. n : k > n - m => f[k] \in Seq(F)}
<1>1. n \in Nat /\ Len(args) \in Nat /\ DOMAIN args = 1 .. Len(args)
  BY LenProperties
<1>2. ASSUME NEW k \in 1 .. n PROVE f[k] = FromHere(args, o, f, k)
  <2> DEFINE B(j) == FromHere(args, o, f, j)
  <2>1. f = [j \in 1 .. n |-> B(j)]
    BY DEF Walks
  <2> HIDE DEF B
  <2>2. f[k] = B(k)
    BY <2>1
  <2> QED BY <2>2 DEF B
<1>3. 0 \in S
  BY <1>1
<1>4. ASSUME NEW m \in 0 .. n - 1, m \in S PROVE m + 1 \in S
  <2>1. \A k \in 1 .. n : k > n - m => f[k] \in Seq(F)
    BY <1>4
  <2> DEFINE j == n - m
  <2>2. j \in 1 .. n /\ j \in Nat
    BY <1>1
  <2>3. f[j] \in Seq(F)
    <3>0. f[j] = FromHere(args, o, f, j)
      BY <1>2, <2>2
    <3> HIDE DEF j
    <3>1. CASE j > Len(args) \/ ~IsOption(args, j)
      <4>1. f[j] = <<>>
        BY <3>0, <3>1, Zenon DEF FromHere
      <4> QED BY <4>1
    <3>2. CASE ~(j > Len(args)) /\ IsOption(args, j)
      <4>1. j \in DOMAIN args /\ j + 1 \in 1 .. n /\ f[j + 1] \in Seq(F)
            /\ (j # Len(args) => j + 1 \in DOMAIN args /\ j + 2 \in 1 .. n /\ f[j + 2] \in Seq(F))
        <5>1. j \in DOMAIN args /\ j + 1 \in 1 .. n /\ j + 1 > n - m
              /\ (j # Len(args) => j + 1 \in DOMAIN args /\ j + 2 \in 1 .. n /\ j + 2 > n - m)
          BY <1>1, <2>2, <3>2 DEF j
        <5> HIDE DEF n, F
        <5> QED BY <2>1, <5>1
      <4> DEFINE c == args[j][2]
                 rest == SubSeq(args[j], 3, Len(args[j]))
      <4>2. [opt |-> c, arg |-> <<>>] \in F /\ [opt |-> c, arg |-> <<rest>>] \in F
            /\ (j # Len(args) => [opt |-> c, arg |-> <<args[j + 1]>>] \in F)
        BY <4>1 DEF Found
      <4>3. \/ f[j] = <<[opt |-> c, arg |-> <<>>]>> \o f[j + 1]
            \/ f[j] = <<[opt |-> c, arg |-> <<rest>>]>> \o f[j + 1]
            \/ f[j] = <<>>
            \/ j # Len(args) /\ f[j] = <<[opt |-> c, arg |-> <<args[j + 1]>>]>> \o f[j + 2]
        BY <3>0, <3>2, Zenon DEF FromHere
      <4>4. ASSUME NEW x \in F, NEW t \in Seq(F) PROVE <<x>> \o t \in Seq(F)
        <5>1. <<x>> \in Seq(F)
          OBVIOUS
        <5> QED BY <5>1, ConcatProperties
      <4> DEFINE x == [opt |-> c, arg |-> <<>>]
                 y == [opt |-> c, arg |-> <<rest>>]
                 z == [opt |-> c, arg |-> <<args[j + 1]>>]
      <4> HIDE DEF F, x, y, z
      <4>5. x \in F /\ y \in F /\ (j # Len(args) => z \in F)
        BY <4>2 DEF x, y, z
      <4>6. \/ f[j] = <<x>> \o f[j + 1] \/ f[j] = <<y>> \o f[j + 1] \/ f[j] = <<>>
            \/ j # Len(args) /\ f[j] = <<z>> \o f[j + 2]
        BY <4>3, Zenon DEF x, y, z
      <4>7. <<>> \in Seq(F)
        OBVIOUS
      <4> QED BY <4>1, <4>4, <4>5, <4>6, <4>7, Zenon
    <3> QED BY <3>1, <3>2
  <2>4. \A k \in 1 .. n : k > n - (m + 1) => k = j \/ k > n - m
    BY <1>1
  <2> HIDE DEF j, F
  <2>5. \A k \in 1 .. n : k > n - (m + 1) => f[k] \in Seq(F)
    BY <2>1, <2>3, <2>4
  <2> QED BY <1>1, <1>4, <2>5
<1> HIDE DEF S
<1>5. n \in S
  <2>1. \A m \in 0 .. n : m \in S
    BY <1>1, <1>3, <1>4, Descent
  <2> QED BY <1>1, <2>1
<1>6. ASSUME NEW k \in 1 .. n PROVE k > n - n
  BY <1>1
<1> QED BY <1>2, <1>5, <1>6 DEF S

LEMMA IsTwo == \A n \in Nat : n >= 2 /\ ~(n > 2) => n = 2
  OBVIOUS

\* What is appended to the front of a concatenation.
LEMMA OneMore ==
    ASSUME NEW F, NEW s \in Seq(F), NEW x \in F, NEW t \in Seq(F)
    PROVE  Append(s, x) \in Seq(F) /\ s \o (<<x>> \o t) = Append(s, x) \o t
<1>1. <<x>> \in Seq(F)
  OBVIOUS
<1>2. Append(s, x) = s \o <<x>> /\ Append(s, x) \in Seq(F)
  BY AppendIsConcat
<1>3. s \o (<<x>> \o t) = (s \o <<x>>) \o t
  BY <1>1, ConcatAssociative
<1> QED BY <1>2, <1>3

LEMMA PrefixOfConcat ==
    ASSUME NEW F, NEW s \in Seq(F), NEW t \in Seq(F)
    PROVE  IsPrefix(s, s \o t)
<1>1. Len(s) \in Nat /\ Len(t) \in Nat /\ s \o t \in Seq(F) /\ Len(s \o t) = Len(s) + Len(t)
  BY LenProperties, ConcatProperties
<1>2. SubSeq(s \o t, 1, Len(s)) = s
  <2>1. \A k \in 1 .. Len(s) : (s \o t)[k] = s[k]
    BY ConcatProperties
  <2>2. SubSeq(s \o t, 1, Len(s)) = [k \in 1 .. Len(s) |-> s[k]]
    BY <1>1, <2>1, SubSeqProperties
  <2> QED BY <2>2, LenProperties
<1>3. SubSeq(s, 1, Len(s)) = s
  BY <1>1, SubSeqProperties, LenProperties
<1> QED BY <1>1, <1>2, <1>3 DEF IsPrefix

LEMMA PrefixOfItself == ASSUME NEW F, NEW s \in Seq(F) PROVE IsPrefix(s, s)
<1>1. Len(s) \in Nat
  BY LenProperties
<1> QED BY <1>1 DEF IsPrefix

\* The smallest of the places where a character is found.
LEMMA FirstPlace ==
    ASSUME NEW o \in OptStrings, NEW c, c # Colon, NEW j \in DOMAIN o, o[j] = c
    PROVE  Places(o, c) # {} /\ Min(Places(o, c)) \in DOMAIN o /\ o[Min(Places(o, c))] = c
<1>1. o \in Seq(Range(o))
  BY OptStringsAssumption
<1>2. DOMAIN o \subseteq Nat
  BY <1>1, LenProperties
<1>3. j \in Places(o, c) /\ Places(o, c) \subseteq DOMAIN o
  BY DEF Places
<1>4. \E s \in Places(o, c) : \A k \in Places(o, c) : s <= k
  BY <1>2, <1>3, SmallestExists
<1>5. Min(Places(o, c)) \in Places(o, c)
  BY <1>4 DEF Min
<1> QED BY <1>3, <1>5 DEF Places

\* A call at the argument k gives the first of the options from there on, and moves behind it.
Took(args, f, k, r) ==
    /\ r.optopt = "" /\ r.opt # "-1" /\ [opt |-> r.opt, arg |-> r.optarg] \in Found(args)
    /\ r.optind \in 1 .. Len(args) + 1
    /\ f[k] = <<[opt |-> r.opt, arg |-> r.optarg]>> \o f[r.optind]

\* So does _mrsh_getopt at an option that is separate.
LEMMA OptionTaken ==
    ASSUME NEW args, NEW W, args \in Seq(W), \A t \in W : t \in Seq(Range(t)),
           NEW o \in OptStrings, Separate(args, o), NEW f, Walks(args, o, f),
           NEW k \in 1 .. Len(args) + 1, k <= Len(args), IsOption(args, k),
           NEW r, r = _mrsh_getopt(args, k, o)
    PROVE  Took(args, f, k, r)
<1> DEFINE a == args[k]
           c == a[2]
           rest == SubSeq(a, 3, Len(a))
<1>1. Len(args) \in Nat /\ DOMAIN args = 1 .. Len(args) /\ k \in DOMAIN args /\ k \in Nat
      /\ (k # Len(args) => k + 1 \in DOMAIN args)
  BY LenProperties
<1>2. a \in Seq(Range(a))
  BY <1>1, ElementOfSeq
<1>3. At(a, 1) = "-" /\ At(a, 2) = c /\ c # "-" /\ At(a, 2) # EOS /\ 2 \in DOMAIN a
  BY DEF IsOption, At
<1>4. PICK l \in Letters(o) : /\ \A m \in Letters(o) : m.c = c <=> m = l
                              /\ IF l.arg THEN Len(a) > 2 \/ k < Len(args) ELSE Len(a) = 2
  BY <1>1 DEF Separate
<1>5. PICK j \in DOMAIN o : o[j] # Colon /\ l = [c |-> o[j], arg |-> At(o, j + 1) = Colon]
  BY <1>4 DEF Letters
<1>6. l.c = c /\ o[j] = c /\ c # Colon
  BY <1>4, <1>5
<1> DEFINE p == Min(Places(o, c))
<1>7. Places(o, c) # {} /\ p \in DOMAIN o /\ o[p] = c
  BY <1>5, <1>6, FirstPlace
<1>8. l = [c |-> o[p], arg |-> At(o, p + 1) = Colon]
  <2>1. [c |-> o[p], arg |-> At(o, p + 1) = Colon] \in Letters(o)
    BY <1>6, <1>7 DEF Letters
  <2> QED BY <1>4, <1>7, <2>1
<1>9. l.arg \in BOOLEAN /\ (l.arg <=> At(o, p + 1) = Colon)
  BY <1>8
<1>10. Takes(c, o) <=> l.arg
  BY <1>4, <1>6 DEF Takes
<1>11. c # "-1"
  <2>1. o[p] \in Range(o)
    BY <1>7 DEF Range
  <2> QED BY <1>7, <2>1, OptStringsAssumption
<1>12. Len(a) \in Nat /\ (Len(a) = 2 => rest = <<>>) /\ (Len(a) > 2 => rest # <<>>)
  <2>1. Len(a) \in Nat
    BY <1>2, LenProperties
  <2>2. Len(a) = 2 => rest = <<>>
    BY <1>2, <2>1, SubSeqEmpty
  <2>3. Len(a) > 2 => Len(rest) = Len(a) - 2
    BY <1>2, <2>1, SubSeqProperties
  <2> HIDE DEF a, rest
  <2>4. Len(a) > 2 => rest # <<>>
    BY <2>1, <2>3
  <2> QED BY <2>1, <2>2, <2>4
<1>13. Len(a) >= 2
  BY <1>2, <1>3, LenProperties
<1> DEFINE end == [opt |-> "-1", optarg |-> <<>>, optopt |-> "", optind |-> k]
<1>14. r = IF ~(At(o, p + 1) = Colon) THEN [end EXCEPT !.opt = c, !.optind = IF rest = <<>> THEN k + 1 ELSE k]
           ELSE IF rest # <<>> THEN [end EXCEPT !.opt = c, !.optarg = <<rest>>, !.optind = k + 1]
           ELSE IF k + 1 > Len(args)
           THEN [end EXCEPT !.opt = IF At(o, 1) = Colon THEN Colon ELSE "?", !.optopt = c]
           ELSE [end EXCEPT !.opt = c, !.optarg = <<args[k + 1]>>, !.optind = k + 2]
  <2>1. ~(k > Len(args) \/ At(a, 1) # "-" \/ At(a, 2) = EOS)
    BY <1>1, <1>3
  <2> QED BY <1>3, <1>7, <2>1 DEF _mrsh_getopt
<1>15. f[k] = FromHere(args, o, f, k)
  <2>1. k \in 1 .. Len(args) + 2
    BY <1>1
  <2> QED BY <2>1, WalkType
<1>16. /\ [opt |-> c, arg |-> <<>>] \in Found(args) /\ [opt |-> c, arg |-> <<rest>>] \in Found(args)
       /\ (k # Len(args) => [opt |-> c, arg |-> <<args[k + 1]>>] \in Found(args))
  BY <1>1 DEF Found
<1>17. ~(k > Len(args) \/ ~IsOption(args, k))
  BY <1>1
<1> HIDE DEF c, rest
<1>21. ASSUME NEW x, NEW y, NEW d \in 1 .. Len(args) + 1, x # "-1", [opt |-> x, arg |-> y] \in Found(args),
              r.opt = x /\ r.optarg = y /\ r.optopt = "" /\ r.optind = d,
              f[k] = <<[opt |-> x, arg |-> y]>> \o f[d]
       PROVE  Took(args, f, k, r)
  BY <1>21, Zenon DEF Took
<1>22. k + 1 \in 1 .. Len(args) + 1
  BY <1>1
<1>18. CASE ~l.arg
  <2>1. rest = <<>>
    BY <1>4, <1>12, <1>18
  <2>2. r = [end EXCEPT !.opt = c, !.optind = k + 1]
    BY <1>9, <1>14, <1>18, <2>1
  <2>3. r.opt = c /\ r.optarg = <<>> /\ r.optopt = "" /\ r.optind = k + 1
    BY <2>2
  <2>4. f[k] = <<[opt |-> c, arg |-> <<>>]>> \o f[k + 1]
    BY <1>10, <1>15, <1>17, <1>18 DEF FromHere, c, rest
  <2> QED BY <1>11, <1>16, <1>21, <1>22, <2>3, <2>4, Zenon
<1>19. CASE l.arg /\ Len(a) > 2
  <2>1. rest # <<>>
    BY <1>12, <1>19
  <2>2. r = [end EXCEPT !.opt = c, !.optarg = <<rest>>, !.optind = k + 1]
    BY <1>9, <1>14, <1>19, <2>1
  <2>3. r.opt = c /\ r.optarg = <<rest>> /\ r.optopt = "" /\ r.optind = k + 1
    BY <2>2
  <2>4. f[k] = <<[opt |-> c, arg |-> <<rest>>]>> \o f[k + 1]
    BY <1>10, <1>15, <1>17, <1>19 DEF FromHere, c, rest
  <2> QED BY <1>11, <1>16, <1>21, <1>22, <2>3, <2>4, Zenon
<1>20. CASE l.arg /\ ~(Len(a) > 2)
  <2>1. Len(a) = 2 /\ rest = <<>> /\ k < Len(args) /\ k # Len(args) /\ ~(k + 1 > Len(args))
    <3>1. Len(a) = 2
      <4>1. Len(a) \in Nat /\ ~(Len(a) > 2)
        BY <1>12, <1>20, Zenon
      <4> QED BY <1>13, <4>1, IsTwo, Zenon
    <3>2. k < Len(args)
      BY <1>4, <1>20, Zenon
    <3>3. k # Len(args) /\ ~(k + 1 > Len(args))
      BY <1>1, <3>2
    <3>4. rest = <<>>
      BY <1>12, <3>1, Zenon
    <3> QED BY <3>1, <3>2, <3>3, <3>4
  <2>2. r = [end EXCEPT !.opt = c, !.optarg = <<args[k + 1]>>, !.optind = k + 2]
    BY <1>9, <1>14, <1>20, <2>1
  <2>3. r.opt = c /\ r.optarg = <<args[k + 1]>> /\ r.optopt = "" /\ r.optind = k + 2
    BY <2>2
  <2>4. f[k] = <<[opt |-> c, arg |-> <<args[k + 1]>>]>> \o f[k + 2]
    BY <1>10, <1>15, <1>17, <1>20, <2>1 DEF FromHere, c, rest
  <2>5. k + 2 \in 1 .. Len(args) + 1
    BY <1>1, <2>1
  <2> QED BY <1>11, <1>16, <1>21, <2>1, <2>3, <2>4, <2>5, Zenon
<1> QED BY <1>9, <1>18, <1>19, <1>20

\* And at what is no option it ends.
LEMMA OptionsEnd ==
    ASSUME NEW args, NEW W, args \in Seq(W), NEW o, NEW f, Walks(args, o, f),
           NEW k \in 1 .. Len(args) + 1, k > Len(args) \/ ~IsOption(args, k)
    PROVE  _mrsh_getopt(args, k, o).opt = "-1" /\ f[k] = <<>>
<1>1. Len(args) \in Nat /\ k \in 1 .. Len(args) + 2
  BY LenProperties
<1>2. f[k] = <<>>
  <2>1. f[k] = FromHere(args, o, f, k)
    BY <1>1, WalkType
  <2> QED BY <2>1 DEF FromHere
<1>3. CASE k > Len(args) \/ At(args[k], 1) # "-" \/ At(args[k], 2) = EOS
  BY <1>2, <1>3 DEF _mrsh_getopt
<1>4. CASE ~(k > Len(args) \/ At(args[k], 1) # "-" \/ At(args[k], 2) = EOS)
  <2>1. At(args[k], 2) = "-" /\ args[k][2] = "-"
    BY <1>4 DEF IsOption, At
  <2> QED BY <1>2, <1>4, <2>1 DEF _mrsh_getopt
<1> QED BY <1>3, <1>4

\* The loop has come to ind, or to its end.
Reaches(args, o, got, done, ind) ==
    \E f : /\ Walks(args, o, f) /\ Options(args, o) = f[1] /\ got \in Seq(Found(args))
           /\ IF done THEN got = f[1] ELSE ind \in 1 .. Len(args) + 1 /\ f[1] = got \o f[ind]

SeenDomain == {"kind", "depth", "optstring", "got", "done"}

\* What getopts has returned so far, and what follows from OPTIND on, are all of the options.
SeenInv ==
    seen.kind # "lost" =>
        /\ seen.kind = "seen" /\ DOMAIN seen = SeenDomain /\ seen.depth \in DOMAIN frames
        /\ seen.optstring = <<>> => seen.got = <<>> /\ optind = 1 /\ seen.done = FALSE
        /\ seen.optstring # <<>> =>
              \E o \in OptStrings :
                  /\ seen.optstring = <<o>>
                  /\ ~torn /\ Separate(params[seen.depth], o) =>
                        Reaches(params[seen.depth], o, seen.got, seen.done, optind)

\* Nothing happens to the loop of getopts when its frame and OPTIND stay as they are.
LEMMA SeenStays ==
    ASSUME SeenInv, seen' = seen, optind' = optind, torn' = torn,
           seen.kind # "lost" => seen.depth \in DOMAIN frames' /\ params'[seen.depth] = params[seen.depth]
    PROVE  SeenInv'
<1>1. CASE seen.kind = "lost"
  BY <1>1 DEF SeenInv
<1>2. CASE seen.kind # "lost"
  <2>1. seen.depth \in DOMAIN frames' /\ params'[seen.depth] = params[seen.depth] /\ seen'.depth = seen.depth
    BY <1>2
  <2> QED BY <1>2, <2>1, Zenon DEF SeenInv
<1> QED BY <1>1, <1>2

LEMMA SeenLost == ASSUME seen' = NotSeen PROVE SeenInv'
  BY DEF SeenInv, NotSeen

\* The texts of scripts are sequences of characters.
LEMMA WordsAreTexts == \A t \in Words : t \in Seq(Range(t))
  BY ScriptsAssumption DEF Words

\* A call of getopts that continues the loop that the history is of, before a shift has torn
\* anything: what _mrsh_getopt returns, and what has been returned by then.
Continues(args, o, r, got) ==
    /\ seen.kind # "lost" /\ seen.depth = Len(frames) /\ ~seen.done /\ ~torn
    /\ args = params[Len(frames)]
    /\ o \in OptStrings /\ seen.optstring \in {<<>>, <<o>>} /\ Separate(args, o)
    /\ r = _mrsh_getopt(Args(Frame), optind, o)
    /\ got = IF r.opt = "-1" THEN seen.got
             ELSE Append(seen.got, [opt |-> r.opt, arg |->
                    IF r.optopt # "" THEN (IF r.opt = Colon THEN <<<<r.optopt>>>> ELSE <<>>) ELSE r.optarg])

LEMMA SeenAdvances ==
    ASSUME Inv, SeenInv, NEW args, NEW o, NEW r, NEW got, Continues(args, o, r, got)
    PROVE  Reaches(args, o, got, r.opt = "-1", r.optind)
<1> DEFINE d == Len(frames)
           F == Found(args)
<1>0. o \in OptStrings /\ Separate(args, o) /\ args = params[d]
  BY DEF Continues
<1>1. d \in DOMAIN frames /\ frames[d] \in CallFrame /\ args \in Seq(Words) /\ Len(args) \in Nat
  <2>1. frames \in Seq(CallFrame) /\ params \in Seq(Seq(Words))
    BY DEF Inv, ShapeInv
  <2>2. DOMAIN frames = 1 .. Len(frames) /\ DOMAIN params = 1 .. Len(params) /\ Len(params) = Len(frames)
        /\ Len(frames) \in Nat \ {0}
    BY Lengths
  <2>3. d \in 1 .. Len(frames) /\ d \in 1 .. Len(params)
    BY <2>2
  <2>4. frames[d] \in CallFrame /\ args \in Seq(Words)
    BY <1>0, <2>1, <2>3, ElementOfSeq
  <2> QED BY <2>2, <2>3, <2>4, LenProperties
<1>2. Args(Frame) = args
  <2>1. Owns(frames[d], params[d], strings)
    BY <1>0, <1>1 DEF Inv, ArgumentsInv, Continues
  <2>2. Args(frames[d]) = params[d]
    BY <1>0, <1>1, <2>1, ArgsOwned
  <2> QED BY <1>0, <2>2 DEF Frame
<1>3. r = _mrsh_getopt(args, optind, o)
  BY <1>2 DEF Continues
<1> HIDE DEF d, F
<1>4. PICK f : /\ Walks(args, o, f) /\ Options(args, o) = f[1] /\ seen.got \in Seq(F)
               /\ optind \in 1 .. Len(args) + 1 /\ f[1] = seen.got \o f[optind]
  <2>1. CASE seen.optstring = <<>>
    <3>1. seen.got = <<>> /\ optind = 1
      BY <2>1 DEF SeenInv, Continues
    <3>2. PICK f : Walks(args, o, f) /\ Options(args, o) = f[1]
      BY <1>1, OptionsWalk
    <3>3. 1 \in 1 .. Len(args) + 2 /\ 1 \in 1 .. Len(args) + 1
      BY <1>1
    <3>4. f[1] \in Seq(F)
      BY <1>1, <3>2, <3>3, WalkType DEF F
    <3>5. <<>> \o f[1] = f[1] /\ <<>> \in Seq(F)
      BY <3>4, ConcatEmptySeq
    <3> QED BY <3>1, <3>2, <3>3, <3>5
  <2>2. CASE seen.optstring = <<o>>
    <3>0. <<o>> # <<>>
      OBVIOUS
    <3>1. seen.optstring # <<>> /\ seen.kind # "lost" /\ ~torn /\ seen.depth = d /\ ~seen.done
      BY <2>2, <3>0, Zenon DEF Continues, d
    <3>2. PICK p \in OptStrings :
             /\ seen.optstring = <<p>>
             /\ ~torn /\ Separate(params[seen.depth], p) =>
                  Reaches(params[seen.depth], p, seen.got, seen.done, optind)
      BY <3>1, Zenon DEF SeenInv
    <3>3. p = o
      BY <2>2, <3>2
    <3>4. Reaches(args, o, seen.got, seen.done, optind)
      BY <1>0, <3>1, <3>2, <3>3
    <3> QED BY <3>1, <3>4, Zenon DEF Reaches, F
  <2>3. seen.optstring \in {<<>>, <<o>>}
    BY DEF Continues
  <2> QED BY <2>1, <2>2, <2>3
<1>5. optind \in 1 .. Len(args) + 2 /\ f[optind] \in Seq(F)
  <2>1. optind \in 1 .. Len(args) + 2
    BY <1>1, <1>4
  <2> QED BY <1>1, <1>4, <2>1, WalkType DEF F
<1>6. CASE optind > Len(args) \/ ~IsOption(args, optind)
  <2>1. r.opt = "-1" /\ f[optind] = <<>>
    BY <1>1, <1>3, <1>4, <1>6, OptionsEnd
  <2>2. got = seen.got /\ seen.got \o <<>> = seen.got
    BY <1>4, <2>1, ConcatEmptySeq DEF Continues
  <2>3. got = f[1] /\ got \in Seq(F)
    BY <1>4, <2>1, <2>2
  <2> QED BY <1>4, <2>1, <2>3, Zenon DEF F, Reaches
<1>7. CASE optind <= Len(args) /\ IsOption(args, optind)
  <2>1. /\ r.optopt = "" /\ r.opt # "-1" /\ [opt |-> r.opt, arg |-> r.optarg] \in F
        /\ r.optind \in 1 .. Len(args) + 1
        /\ f[optind] = <<[opt |-> r.opt, arg |-> r.optarg]>> \o f[r.optind]
    <3>1. Walks(args, o, f) /\ optind \in 1 .. Len(args) + 1
      BY <1>4
    <3>2. Took(args, f, optind, r)
      BY <1>0, <1>1, <1>3, <1>7, <3>1, WordsAreTexts, OptionTaken
    <3> QED BY <3>2, Zenon DEF F, Took
  <2> DEFINE x == [opt |-> r.opt, arg |-> r.optarg]
             i == r.optind
  <2>2. got = Append(seen.got, x)
    BY <2>1 DEF Continues
  <2>3. f[i] \in Seq(F)
    <3>1. i \in 1 .. Len(args) + 2
      <4> HIDE DEF i
      <4>1. i \in 1 .. Len(args) + 1
        BY <2>1, Zenon DEF i
      <4> QED BY <1>1, <4>1
    <3> QED BY <1>1, <1>4, <3>1, WalkType, Zenon DEF F
  <2>4. x \in F /\ f[optind] = <<x>> \o f[i]
    BY <2>1, Zenon
  <2> HIDE DEF x, i
  <2>5. got \in Seq(F) /\ f[1] = got \o f[i]
    <3>1. Append(seen.got, x) \in Seq(F) /\ seen.got \o (<<x>> \o f[i]) = Append(seen.got, x) \o f[i]
      <4>1. seen.got \in Seq(F) /\ x \in F
        BY <1>4, <2>4
      <4>2. \A s, t \in Seq(F) : \A y \in F : Append(s, y) \in Seq(F) /\ s \o (<<y>> \o t) = Append(s, y) \o t
        BY OneMore
      <4> QED BY <2>3, <4>1, <4>2, Zenon
    <3> QED BY <1>4, <2>2, <2>4, <3>1, Zenon
  <2> QED BY <1>4, <2>1, <2>5, Zenon DEF F, i, Reaches
<1>8. optind > Len(args) \/ optind <= Len(args)
  BY <1>1, <1>4
<1> QED BY <1>6, <1>7, <1>8


SeenAs(s, got, done, x) == [s EXCEPT !.got = got, !.done = done, !.optstring = x]

LEMMA SeenFields ==
    ASSUME NEW s, DOMAIN s = SeenDomain, NEW got, NEW done, NEW x
    PROVE  LET t == SeenAs(s, got, done, x)
           IN  /\ DOMAIN t = SeenDomain /\ t.kind = s.kind /\ t.depth = s.depth
               /\ t.optstring = x /\ t.got = got /\ t.done = done
<1> DEFINE t == SeenAs(s, got, done, x)
<1>0. t = [s EXCEPT !.got = got, !.done = done, !.optstring = x]
  BY DEF SeenAs
<1> HIDE DEF t
<1>1. DOMAIN t = DOMAIN s
  BY <1>0
<1>2. \A k \in DOMAIN s : k \notin {"got", "done", "optstring"} => t[k] = s[k]
  BY <1>0
<1>3. "got" \in DOMAIN s /\ "done" \in DOMAIN s /\ "optstring" \in DOMAIN s
      /\ "kind" \in DOMAIN s /\ "depth" \in DOMAIN s
  BY DEF SeenDomain
<1>4. t.optstring = x /\ t.got = got /\ t.done = done
  BY <1>0, <1>3
<1>5. /\ DOMAIN t = SeenDomain /\ t.kind = s.kind /\ t.depth = s.depth
      /\ t.optstring = x /\ t.got = got /\ t.done = done
  BY <1>1, <1>2, <1>3, <1>4
<1> QED BY <1>5 DEF t

LEMMA GetoptsSeen == ASSUME Inv, SeenInv, builtin_getopts PROVE SeenInv'
<1>1. UNCHANGED <<frames, params, torn>>
  BY DEF builtin_getopts
<1>2. PICK o \in OptStrings :
        \/ UNCHANGED <<seen, optind>>
        \/ LET r == _mrsh_getopt(Args(Frame), optind, o)
               arg == IF r.optopt # "" THEN (IF r.opt = Colon THEN <<<<r.optopt>>>> ELSE <<>>) ELSE r.optarg
           IN  optind' = r.optind /\ seen' = Saw(seen, o, r.opt, arg)
  BY Zenon DEF builtin_getopts, Advanced
<1>3. CASE UNCHANGED <<seen, optind>>
  BY <1>1, <1>3, SeenStays DEF SeenInv
<1> DEFINE r == _mrsh_getopt(Args(Frame), optind, o)
           arg == IF r.optopt # "" THEN (IF r.opt = Colon THEN <<<<r.optopt>>>> ELSE <<>>) ELSE r.optarg
           got == IF r.opt = "-1" THEN seen.got ELSE Append(seen.got, [opt |-> r.opt, arg |-> arg])
           args == params[Len(frames)]
<1>4. CASE optind' = r.optind /\ seen' = Saw(seen, o, r.opt, arg) /\ seen' = NotSeen
  BY <1>4, SeenLost
<1>5. CASE optind' = r.optind /\ seen' = Saw(seen, o, r.opt, arg) /\ seen' # NotSeen
  <2>1. /\ seen.kind # "lost" /\ ~seen.done /\ seen.depth = Len(frames) /\ seen.optstring \in {<<>>, <<o>>}
        /\ seen' = [seen EXCEPT !.got = got, !.done = r.opt = "-1", !.optstring = <<o>>]
    <3> HIDE DEF r, arg
    <3> QED BY <1>5, Zenon DEF Saw
  <2>2. seen.kind = "seen" /\ DOMAIN seen = SeenDomain /\ seen.depth \in DOMAIN frames
    BY <2>1, Zenon DEF SeenInv
  <2> HIDE DEF r, arg, got, args
  <2>4. /\ seen'.kind = "seen" /\ DOMAIN seen' = SeenDomain /\ seen'.depth = seen.depth
        /\ seen'.optstring = <<o>> /\ seen'.got = got /\ seen'.done = (r.opt = "-1")
    <3> DEFINE e == r.opt = "-1"
               x == <<o>>
    <3> HIDE DEF e, x
    <3>1. seen' = SeenAs(seen, got, e, x)
      BY <2>1, Zenon DEF e, x, SeenAs
    <3>2. /\ DOMAIN seen' = SeenDomain /\ seen'.kind = seen.kind /\ seen'.depth = seen.depth
          /\ seen'.optstring = x /\ seen'.got = got /\ seen'.done = e
      <4>1. DOMAIN seen = SeenDomain
        BY <2>2
      <4> DEFINE t == SeenAs(seen, got, e, x)
      <4>2. /\ DOMAIN t = SeenDomain /\ t.kind = seen.kind /\ t.depth = seen.depth
            /\ t.optstring = x /\ t.got = got /\ t.done = e
        BY <4>1, SeenFields
      <4> QED BY <3>1, <4>2, Zenon
    <3> QED BY <2>2, <3>2, Zenon DEF e, x
  <2>6. params'[seen'.depth] = args /\ seen'.depth \in DOMAIN frames'
    BY <1>1, <2>1, <2>2, <2>4, Zenon DEF args
  <2>7. ASSUME ~torn, Separate(args, o) PROVE Reaches(args, o, got, r.opt = "-1", r.optind)
    <3>1. Continues(args, o, r, got)
      BY <1>2, <2>1, <2>7, Zenon DEF Continues, args, r, got, arg
    <3> QED BY <3>1, SeenAdvances, Zenon
  <2>8. torn' = torn /\ optind' = r.optind /\ seen'.optstring # <<>>
    BY <1>1, <1>5, <2>4
  <2>9. seen'.optstring # <<>> =>
           \E p \in OptStrings :
              /\ seen'.optstring = <<p>>
              /\ ~torn' /\ Separate(params'[seen'.depth], p) =>
                    Reaches(params'[seen'.depth], p, seen'.got, seen'.done, optind')
    BY <1>2, <2>4, <2>6, <2>7, <2>8, Zenon
  <2> QED BY <2>4, <2>6, <2>8, <2>9, Zenon DEF SeenInv
<1> QED BY <1>2, <1>3, <1>4, <1>5, Zenon

LEMMA ResetSeen == ASSUME Inv, ResetOptind PROVE SeenInv'
<1>1. seen' = Start(Len(frames)) /\ optind' = 1 /\ frames' = frames
  BY DEF ResetOptind
<1>2. Len(frames) \in DOMAIN frames
  BY Lengths
<1> QED BY <1>1, <1>2 DEF SeenInv, SeenDomain, Start

LEMMA CallSeen == ASSUME Inv, SeenInv, CallFunction PROVE SeenInv'
<1>1. PICK g, ps : frames' = Append(frames, g) /\ params' = Append(params, ps)
                   /\ UNCHANGED <<seen, optind, torn>>
  BY Zenon DEF CallFunction
<1>2. /\ frames \in Seq(CallFrame) /\ params \in Seq(Seq(Words)) /\ Len(params) = Len(frames)
      /\ Len(frames) \in Nat /\ DOMAIN frames = 1 .. Len(frames) /\ DOMAIN params = 1 .. Len(frames)
  BY Lengths DEF Inv, ShapeInv
<1>3. seen.kind # "lost" => seen.depth \in DOMAIN frames
  BY Zenon DEF SeenInv
<1>4. ASSUME NEW d \in DOMAIN frames
      PROVE  d \in DOMAIN Append(frames, g) /\ Append(params, ps)[d] = params[d]
  BY <1>2
<1> QED BY <1>1, <1>3, <1>4, SeenStays, Zenon

LEMMA ReturnSeen == ASSUME Inv, SeenInv, Return PROVE SeenInv'
<1>1. UNCHANGED <<optind, torn>> /\ Len(frames) > 1
      /\ (UNCHANGED <<frames, params>> \/ (frames' = Front(frames) /\ params' = Front(params)))
      /\ (seen' = NotSeen \/ (seen' = seen /\ ~(seen.kind = "seen" /\ seen.depth = Len(frames))))
  <2>1. UNCHANGED <<optind, torn>> /\ Len(frames) > 1
    BY DEF Return
  <2>2. UNCHANGED <<frames, params>> \/ (frames' = Front(frames) /\ params' = Front(params))
    BY DEF Return
  <2>3. seen' = IF seen.kind = "seen" /\ seen.depth = Len(frames) THEN NotSeen ELSE seen
    BY DEF Return
  <2> QED BY <2>1, <2>2, <2>3, Zenon
<1>2. CASE seen' = NotSeen
  BY <1>2, SeenLost
<1>3. CASE seen' = seen /\ ~(seen.kind = "seen" /\ seen.depth = Len(frames))
  <2>1. ASSUME seen.kind # "lost" PROVE seen.depth \in DOMAIN frames /\ seen.depth # Len(frames)
    <3>1. seen.kind = "seen" /\ seen.depth \in DOMAIN frames
      BY <2>1, Zenon DEF SeenInv
    <3> QED BY <1>3, <3>1
  <2>2. CASE UNCHANGED <<frames, params>>
    BY <1>1, <1>3, <2>1, <2>2, SeenStays
  <2>3. CASE frames' = Front(frames) /\ params' = Front(params)
    <3>1. /\ frames \in Seq(CallFrame) /\ params \in Seq(Seq(Words)) /\ Len(params) = Len(frames)
          /\ Len(frames) \in Nat \ {0} /\ DOMAIN frames = 1 .. Len(frames) /\ DOMAIN params = 1 .. Len(frames)
      BY Lengths DEF Inv, ShapeInv
    <3>2. ASSUME NEW d \in DOMAIN frames, d # Len(frames)
          PROVE  d \in DOMAIN Front(frames) /\ Front(params)[d] = params[d]
      <4>1. d \in 1 .. Len(frames) - 1 /\ Len(frames) > 1
        BY <1>1, <3>1, <3>2
      <4>2. Front(params)[d] = params[d] /\ Len(Front(frames)) = Len(frames) - 1 /\ Front(frames) \in Seq(CallFrame)
        BY <3>1, <4>1, FrontType
      <4> QED BY <4>1, <4>2, LenProperties
    <3> QED BY <1>1, <1>3, <2>1, <2>3, <3>2, SeenStays, Zenon
  <2> QED BY <1>1, <2>2, <2>3
<1> QED BY <1>1, <1>2, <1>3

LEMMA NextSeen == ASSUME Inv, SeenInv, [Next]_all PROVE SeenInv'
<1>1. CASE UNCHANGED <<frames, params, optind, torn, seen>>
  BY <1>1, SeenStays DEF SeenInv
<1>2. CASE builtin_set \/ builtin_shift
  <2>1. seen' = NotSeen
    BY <1>2, Zenon DEF builtin_set, builtin_shift
  <2> QED BY <2>1, SeenLost
<1>3. CASE CallFunction
  BY <1>3, CallSeen
<1>4. CASE Return
  BY <1>4, ReturnSeen
<1>5. CASE builtin_getopts
  BY <1>5, GetoptsSeen
<1>6. CASE ResetOptind
  BY <1>6, ResetSeen
<1>7. CASE Assign \/ builtin_export \/ builtin_unset \/ builtin_read \/ SetAllexport \/ run_process
           \/ run_function_definition \/ builtin_unset_f \/ Done \/ UNCHANGED all
  BY <1>1, <1>7 DEF Assign, builtin_export, builtin_unset, builtin_read, SetAllexport, run_process,
     run_function_definition, builtin_unset_f, Done, all, state
<1> QED BY <1>2, <1>3, <1>4, <1>5, <1>6, <1>7 DEF Next

LEMMA InitSeen == Init => SeenInv
<1> SUFFICES ASSUME Init PROVE SeenInv
  OBVIOUS
<1>1. seen = Start(1) /\ optind = 1 /\ 1 \in DOMAIN frames
  BY DEF Init
<1> QED BY <1>1 DEF SeenInv, SeenDomain, Start

\* Through any sequence of commands, whatever functions, builtins and children run in between, a
\* loop of getopts over separate options has got the first of them so far, in order and
\* each with its argument, and at its end all of them (getopts.c:12, getopt.c:13).
THEOREM OptionsHold == Spec => []OptionsInOrder
<1>1. Inv /\ SeenInv /\ [Next]_all => SeenInv'
  BY NextSeen
<1>2. ASSUME Inv, SeenInv PROVE OptionsInOrder
  <2> DEFINE args == params[seen.depth]
             o == seen.optstring[1]
  <2>1. SUFFICES ASSUME seen.kind = "seen", seen.optstring # <<>>, ~torn, Separate(args, o)
                 PROVE  IsPrefix(seen.got, Options(args, o)) /\ (seen.done => seen.got = Options(args, o))
    BY Zenon DEF OptionsInOrder
  <2>2. seen.kind # "lost"
    BY <2>1
  <2>3. PICK p \in OptStrings :
          /\ seen.optstring = <<p>>
          /\ ~torn /\ Separate(args, p) => Reaches(args, p, seen.got, seen.done, optind)
    BY <1>2, <2>1, <2>2, Zenon DEF SeenInv
  <2>4. o = p
    BY <2>3
  <2> HIDE DEF args, o
  <2>5. PICK f : /\ Walks(args, o, f) /\ Options(args, o) = f[1] /\ seen.got \in Seq(Found(args))
                 /\ IF seen.done THEN seen.got = f[1]
                    ELSE optind \in 1 .. Len(args) + 1 /\ f[1] = seen.got \o f[optind]
    BY <2>1, <2>3, <2>4, Zenon DEF Reaches
  <2>6. args \in Seq(Words) /\ Len(args) \in Nat
    <3>1. params \in Seq(Seq(Words)) /\ DOMAIN params = 1 .. Len(params) /\ DOMAIN params = DOMAIN frames
      BY <1>2, Lengths DEF Inv, ShapeInv
    <3>2. seen.depth \in DOMAIN params
      BY <1>2, <2>2, <3>1, Zenon DEF SeenInv
    <3>3. args \in Seq(Words)
      BY <3>1, <3>2, ElementOfSeq DEF args
    <3> QED BY <3>3, LenProperties
  <2>7. \A k \in 1 .. Len(args) + 2 : f[k] \in Seq(Found(args))
    BY <2>5, <2>6, WalkType
  <2>8. CASE seen.done
    <3>1. seen.got = f[1]
      BY <2>5, <2>8, Zenon
    <3> QED BY <2>5, <3>1, PrefixOfItself, Zenon
  <2>9. CASE ~seen.done
    <3>1. optind \in 1 .. Len(args) + 1 /\ f[1] = seen.got \o f[optind]
      BY <2>5, <2>9, Zenon
    <3>2. optind \in 1 .. Len(args) + 2
      BY <2>6, <3>1
    <3> QED BY <2>5, <2>7, <2>9, <3>1, <3>2, PrefixOfConcat
  <2> QED BY <2>8, <2>9
<1> QED
  BY InvHolds, InitSeen, <1>1, <1>2, PTL DEF Spec

==============================================================================
