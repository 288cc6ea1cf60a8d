------------------------- MODULE Descriptors_proofs -------------------------
(***************************************************************************)
(* Proofs about Descriptors, for every script and any number of            *)
(* descriptors and processes: the shell keeps its standard descriptors,    *)
(* and nobody keeps an end of a pipe behind which another would wait.      *)
(***************************************************************************)
EXTENDS Descriptors, FiniteSetTheorems, SequenceTheorems, WellFoundedInduction, TLAPS

Thing == {"closed", "in", "out", "err", "file", "r", "w"} \X Nat

\* The descriptors of the shell while copies of some of them are saved, with n pipes: 0 to 2
\* are open, the saved ones are what the shell was started with, and the others of 0 to 2 are so
\* still; for an end that writes to a pipe there is one that reads from it, above 2.
FdsOK(fds, saved, n) ==
    /\ fds \in [Fd -> Thing]
    /\ saved \in Seq([dup_fd : Fd, redir_fd : 0 .. 2])
    /\ \A i \in DOMAIN saved : saved[i].dup_fd > 2 /\ fds[saved[i].dup_fd] = Standard[saved[i].redir_fd]
    /\ \A i, j \in DOMAIN saved : saved[i].redir_fd = saved[j].redir_fd => i = j
    /\ \A k \in 0 .. 2 : fds[k] = Standard[k] \/ \E i \in DOMAIN saved : saved[i].redir_fd = k
    /\ \A k \in 0 .. 2 : fds[k] # Closed
    /\ \A k \in Fd : fds[k][1] \in {"r", "w"} => fds[k][2] \in 1 .. n
    /\ \A k \in Fd : fds[k][1] = "w" => \E l \in Fd : l > 2 /\ fds[l] = <<"r", fds[k][2]>>

\* The descriptor k reads from a pipe that the shell does not write to, but from w.
ReadsFrom(fds, k, w) ==
    /\ k \in Fd /\ k > 2 /\ fds[k][1] = "r"
    /\ \A l \in Fd \ {w} : fds[l] # <<"w", fds[k][2]>>

\* What each task of the shell needs.
TaskOK(t, fds, saved) ==
    /\ t.task \in {"command", "redirect", "document", "write", "cat", "restore", "stage", "wait"}
    /\ t.task = "command" => \E s \in Scripts : t.stages \in Range(s)
    /\ t.task = "redirect" =>
          /\ t.builtin /\ t.fd \in Fd \cup {None, Failed}
          /\ t.left \in Seq(Range(t.left))
          /\ \A j \in DOMAIN t.left : Redirection(t.left[j]) /\ t.left[j].to \in 0 .. 2
          /\ \A j, k \in DOMAIN t.left : t.left[j].to = t.left[k].to => j = k
          /\ \A j \in DOMAIN t.left, i \in DOMAIN saved : t.left[j].to # saved[i].redir_fd
    /\ t.task = "document" =>
          ReadsFrom(fds, t.r, t.w) /\ t.w \in Fd /\ t.w > 2 /\ fds[t.w] = <<"w", fds[t.r][2]>>
    /\ t.task = "write" => t.fd \in Fd
    /\ t.task = "stage" => t.cur_stdin = None \/ ReadsFrom(fds, t.cur_stdin, None)

\* What comes behind a task: only commands behind what is not inside of a builtin.
FollowsOK(todo, k) ==
    /\ todo[k].task \in {"command", "stage", "wait", "restore"} =>
          \A l \in DOMAIN todo : l > k => todo[l].task = "command"
    /\ todo[k].task = "redirect" => /\ k + 2 \in DOMAIN todo
                                    /\ todo[k + 1].task \in {"write", "cat"} /\ todo[k + 2].task = "restore"
    /\ todo[k].task = "document" => k + 1 \in DOMAIN todo /\ todo[k + 1].task = "redirect"
    /\ todo[k].task \in {"write", "cat"} => k + 1 \in DOMAIN todo /\ todo[k + 1].task \in {"document", "cat", "restore"}

\* Nothing is saved but inside of a builtin.
Outside(todo) == todo = <<>> \/ todo[1].task \in {"command", "stage", "wait"}

TodoOK(todo, fds, saved) ==
    /\ todo \in Seq(Range(todo))
    /\ \A k \in DOMAIN todo : TaskOK(todo[k], fds, saved) /\ FollowsOK(todo, k)
    /\ Outside(todo) => saved = <<>>

ShellOK(p, n) ==
    /\ p = [fds |-> p.fds, todo |-> p.todo, saved |-> p.saved, ended |-> FALSE]
    /\ FdsOK(p.fds, p.saved, n) /\ TodoOK(p.todo, p.fds, p.saved)

Inv ==
    /\ script \in Scripts /\ spoilt \in BOOLEAN
    /\ procs \in Seq(Range(procs)) /\ procs # <<>> /\ pipes \in Seq(Int)
    /\ ~spoilt => ShellOK(procs[1], Len(pipes))

-----------------------------------------------------------------------------

(* Tables of descriptors *)

\* A set of naturals that is not empty has a smallest element.
LEMMA SmallestExists ==
    ASSUME NEW S, S # {}, S \subseteq Nat
    PROVE  \E s \in S : \A k \in S : s <= k
<1> DEFINE R == {p \in Nat \X Nat : p[1] < p[2]}
<1>1. IsWellFoundedOn(R, Nat)
  BY NatLessThanWellFounded, Zenon DEF OpToRel
<1>2. ASSUME NEW x \in Nat, NEW y \in Nat, x < y PROVE <<x, y>> \in R
  BY <1>2, SMT
<1> HIDE DEF R
<1>3. PICK s \in S : \A k \in S : ~(<<k, s>> \in R)
  BY <1>1, WFMin
<1>4. ASSUME NEW k \in S PROVE s <= k
  <2>1. s \in Nat /\ k \in Nat /\ ~(k < s)
    BY <1>2, <1>3
  <2> QED BY <2>1
<1> QED BY <1>3, <1>4

\* What a process takes is free: open, pipe and dup return a closed descriptor.
LEMMA LowestFree ==
    ASSUME NEW fds, Free(fds) # {}
    PROVE  Lowest(fds) \in Free(fds)
<1> DEFINE S == Free(fds)
<1>1. S \subseteq Nat
  BY DescriptorsAssumption DEF Free, Fd
<1>2. \E s \in S : \A k \in S : s <= k
  BY <1>1, SmallestExists
<1> HIDE DEF S
<1>3. Min(S) \in S
  BY <1>2 DEF Min
<1> QED BY <1>3 DEF S, Lowest

\* The standard descriptors are open and differ.
LEMMA StandardDiffer ==
    /\ 0 .. 2 \subseteq Fd
    /\ \A k \in 0 .. 2 : Standard[k] \in Thing /\ Standard[k] # Closed /\ Standard[k][1] \in {"in", "out", "err"}
    /\ \A j, k \in 0 .. 2 : Standard[j] = Standard[k] => j = k
<1>1. 0 .. 2 \subseteq Fd
  BY DescriptorsAssumption DEF Fd
<1>2. Standard[0] = <<"in", 0>> /\ Standard[1] = <<"out", 0>> /\ Standard[2] = <<"err", 0>>
  BY <1>1 DEF Standard
<1>3. \A k \in 0 .. 2 : k = 0 \/ k = 1 \/ k = 2
  OBVIOUS
<1>4. Standard[0] \in Thing /\ Standard[1] \in Thing /\ Standard[2] \in Thing
  BY <1>2 DEF Thing
<1>5. Closed[1] = "closed"
  BY DEF Closed
<1>6. Standard[0][1] = "in" /\ Standard[1][1] = "out" /\ Standard[2][1] = "err"
  BY <1>2
<1>7. Standard[0] # Standard[1] /\ Standard[0] # Standard[2] /\ Standard[1] # Standard[2]
  BY <1>6
<1>8. Standard[0] # Closed /\ Standard[1] # Closed /\ Standard[2] # Closed
  BY <1>5, <1>6
<1>9. \A k \in 0 .. 2 : Standard[k] \in Thing /\ Standard[k] # Closed /\ Standard[k][1] \in {"in", "out", "err"}
  BY <1>3, <1>4, <1>6, <1>8
<1>10. \A j, k \in 0 .. 2 : Standard[j] = Standard[k] => j = k
  BY <1>3, <1>7
<1> QED BY <1>1, <1>9, <1>10

\* What is saved: copies of standard descriptors, above them.
LEMMA SavedCopies ==
    ASSUME NEW fds, NEW saved, NEW n, FdsOK(fds, saved, n), NEW i \in DOMAIN saved
    PROVE  /\ saved[i].dup_fd \in Fd /\ saved[i].redir_fd \in 0 .. 2
           /\ saved[i].dup_fd > 2 /\ fds[saved[i].dup_fd] = Standard[saved[i].redir_fd]
<1> DEFINE Copy == [dup_fd : Fd, redir_fd : 0 .. 2]
<1>1. saved \in Seq(Copy) /\ saved[i].dup_fd > 2 /\ fds[saved[i].dup_fd] = Standard[saved[i].redir_fd]
  BY DEF FdsOK
<1>2. saved[i] \in Copy
  <2> HIDE DEF Copy
  <2> QED BY <1>1, LenProperties, ElementOfSeq
<1> QED BY <1>1, <1>2

\* Something more is opened.
Opens(fds, o, n) ==
    /\ o \in Thing
    /\ o[1] \in {"r", "w"} => o[2] \in 1 .. n
    /\ o[1] = "w" => \E l \in Fd : l > 2 /\ fds[l] = <<"r", o[2]>>

\* What is opened is above the standard descriptors, which stay as they are.
LEMMA OpenKeeps ==
    ASSUME NEW fds, NEW saved, NEW n \in Nat, NEW m \in Nat, n <= m, FdsOK(fds, saved, n),
           Free(fds) # {}, NEW o, Opens(fds, o, m)
    PROVE  /\ Lowest(fds) \in Fd /\ Lowest(fds) > 2 /\ fds[Lowest(fds)] = Closed
           /\ FdsOK(Open(fds, o), saved, m)
           /\ Open(fds, o)[Lowest(fds)] = o
           /\ \A k \in Fd : k # Lowest(fds) => Open(fds, o)[k] = fds[k]
<1> DEFINE low == Lowest(fds)
           new == Open(fds, o)
<1>1. low \in Fd /\ fds[low] = Closed
  BY LowestFree DEF Free
<1>2. low > 2
  <2>1. low \notin 0 .. 2
    BY <1>1 DEF FdsOK
  <2> QED BY <1>1, <2>1 DEF Fd
<1>3. new = [fds EXCEPT ![low] = o]
  BY DEF Open
<1> HIDE DEF low, new
<1>4. new \in [Fd -> Thing] /\ new[low] = o /\ \A k \in Fd : k # low => new[k] = fds[k]
  BY <1>1, <1>3 DEF FdsOK, Opens
<1>5. 0 .. 2 \subseteq Fd
  BY StandardDiffer
<1>6. ASSUME NEW i \in DOMAIN saved
      PROVE  saved[i].dup_fd > 2 /\ new[saved[i].dup_fd] = Standard[saved[i].redir_fd]
  <2>1. saved[i].dup_fd > 2 /\ fds[saved[i].dup_fd] = Standard[saved[i].redir_fd]
    BY SavedCopies
  <2>2. saved[i].dup_fd \in Fd /\ saved[i].redir_fd \in 0 .. 2
    BY SavedCopies
  <2>3. saved[i].dup_fd # low
    BY <1>1, <2>1, <2>2, StandardDiffer
  <2> QED BY <1>4, <2>1, <2>2, <2>3
<1>7. ASSUME NEW k \in 0 .. 2
      PROVE  new[k] = fds[k]
  BY <1>2, <1>4, <1>5
<1>8. ASSUME NEW k \in Fd, new[k][1] \in {"r", "w"}
      PROVE  new[k][2] \in 1 .. m
  <2>1. CASE k = low
    BY <1>4, <1>8, <2>1 DEF Opens
  <2>2. CASE k # low
    <3>1. fds[k][2] \in 1 .. n
      BY <1>4, <1>8, <2>2 DEF FdsOK
    <3> QED BY <1>4, <2>2, <3>1
  <2> QED BY <2>1, <2>2
<1>9. ASSUME NEW k \in Fd, new[k][1] = "w"
      PROVE  \E l \in Fd : l > 2 /\ new[l] = <<"r", new[k][2]>>
  <2>1. \E l \in Fd : l > 2 /\ fds[l] = <<"r", new[k][2]>>
    <3>1. CASE k = low
      BY <1>4, <1>9, <3>1 DEF Opens
    <3>2. CASE k # low
      BY <1>4, <1>9, <3>2 DEF FdsOK
    <3> QED BY <3>1, <3>2
  <2>2. PICK l \in Fd : l > 2 /\ fds[l] = <<"r", new[k][2]>>
    BY <2>1
  <2>3. l # low
    BY <1>1, <2>2 DEF Closed
  <2> QED BY <1>4, <2>2, <2>3
<1>10. FdsOK(new, saved, m)
  BY <1>4, <1>6, <1>7, <1>8, <1>9 DEF FdsOK
<1> QED BY <1>1, <1>2, <1>4, <1>10 DEF low, new

\* Ends of pipes, those that are read with all those that are written to.
PipeEnds(fds, S) ==
    /\ \A k \in S \cap Fd : k > 2 /\ fds[k][1] \in {"r", "w"}
    /\ \A k \in S \cap Fd : fds[k][1] = "r" => \A l \in Fd \ S : fds[l] # <<"w", fds[k][2]>>

\* Closing them keeps the shell as it should be.
LEMMA CloseKeeps ==
    ASSUME NEW fds, NEW saved, NEW n \in Nat, FdsOK(fds, saved, n), NEW S, PipeEnds(fds, S)
    PROVE  /\ FdsOK(Close(fds, S), saved, n)
           /\ \A k \in Fd : Close(fds, S)[k] = IF k \in S THEN Closed ELSE fds[k]
<1> DEFINE new == Close(fds, S)
<1>1. new = [k \in Fd |-> IF k \in S THEN Closed ELSE fds[k]]
  BY DEF Close
<1> HIDE DEF new
<1>2. Closed \in Thing /\ Closed[1] = "closed"
  BY DEF Closed, Thing
<1>3. fds \in [Fd -> Thing]
  BY DEF FdsOK
<1>4. new \in [Fd -> Thing] /\ \A k \in Fd : new[k] = IF k \in S THEN Closed ELSE fds[k]
  BY <1>1, <1>2, <1>3
<1>5. \A k \in Fd : new[k][1] \in {"r", "w"} => k \notin S /\ new[k] = fds[k]
  BY <1>2, <1>4
<1>6. ASSUME NEW i \in DOMAIN saved
      PROVE  saved[i].dup_fd > 2 /\ new[saved[i].dup_fd] = Standard[saved[i].redir_fd]
  <2>1. saved[i].dup_fd > 2 /\ fds[saved[i].dup_fd] = Standard[saved[i].redir_fd]
    BY SavedCopies
  <2>2. saved[i].dup_fd \in Fd /\ saved[i].redir_fd \in 0 .. 2
    BY SavedCopies
  <2>3. fds[saved[i].dup_fd][1] \in {"in", "out", "err"}
    BY <2>1, <2>2, StandardDiffer
  <2>4. saved[i].dup_fd \notin S
    BY <2>2, <2>3 DEF PipeEnds
  <2> QED BY <1>4, <2>1, <2>2, <2>4
<1>7. \A k \in 0 .. 2 : new[k] = fds[k]
  BY <1>4, StandardDiffer DEF PipeEnds
<1>8. ASSUME NEW k \in Fd, new[k][1] = "w"
      PROVE  \E l \in Fd : l > 2 /\ new[l] = <<"r", new[k][2]>>
  <2>1. k \notin S /\ new[k] = fds[k] /\ fds[k][1] = "w" /\ fds[k] \in Thing
    BY <1>3, <1>5, <1>8
  <2>2. PICK l \in Fd : l > 2 /\ fds[l] = <<"r", fds[k][2]>>
    BY <2>1 DEF FdsOK
  <2>3. fds[k] = <<"w", fds[k][2]>>
    BY <2>1 DEF Thing
  <2>4. fds[l][1] = "r" /\ fds[l][2] = fds[k][2]
    BY <2>2
  <2>5. l \notin S
    BY <2>1, <2>3, <2>4 DEF PipeEnds
  <2> QED BY <1>4, <2>1, <2>2, <2>5
<1>9. \A k \in Fd : new[k][1] \in {"r", "w"} => new[k][2] \in 1 .. n
  BY <1>5 DEF FdsOK
<1>10. FdsOK(new, saved, n)
  BY <1>4, <1>6, <1>7, <1>8, <1>9 DEF FdsOK
<1> QED BY <1>4, <1>10 DEF new

\* A standard descriptor is copied and replaced.
LEMMA SaveKeeps ==
    ASSUME NEW fds, NEW saved, NEW n \in Nat, FdsOK(fds, saved, n), Free(fds) # {},
           NEW fd \in Fd, NEW to \in 0 .. 2, fd # to, \A i \in DOMAIN saved : saved[i].redir_fd # to,
           Open(fds, fds[to])[fd] # Closed
    PROVE  FdsOK(dup2(Open(fds, fds[to]), fd, to),
                 Append(saved, [dup_fd |-> Lowest(fds), redir_fd |-> to]), n)
<1> DEFINE low == Lowest(fds)
           copied == Open(fds, fds[to])
           new == dup2(copied, fd, to)
           copy == [dup_fd |-> low, redir_fd |-> to]
           Copy == [dup_fd : Fd, redir_fd : 0 .. 2]
           more == Append(saved, copy)
<1>1. fds[to] = Standard[to] /\ to \in Fd
  BY StandardDiffer DEF FdsOK
<1>2. Opens(fds, fds[to], n)
  <2>1. fds[to] \in Thing /\ fds[to][1] \in {"in", "out", "err"}
    BY <1>1, StandardDiffer
  <2> QED BY <2>1 DEF Opens
<1>3. /\ low \in Fd /\ low > 2 /\ fds[low] = Closed
      /\ FdsOK(copied, saved, n) /\ copied[low] = fds[to]
      /\ \A k \in Fd : k # low => copied[k] = fds[k]
  BY <1>2, OpenKeeps
<1>4. new = [copied EXCEPT ![to] = copied[fd]]
  BY DEF dup2
<1>5. copied[fd] # Closed
  OBVIOUS
<1> HIDE DEF low, copied, new
<1>6. copied \in [Fd -> Thing]
  BY <1>3 DEF FdsOK
<1>7. new \in [Fd -> Thing] /\ new[to] = copied[fd] /\ \A k \in Fd : k # to => new[k] = copied[k]
  BY <1>1, <1>4, <1>6
<1>8. saved \in Seq(Copy)
  BY <1>3 DEF FdsOK
<1>9. copy \in Copy
  BY <1>3
<1> HIDE DEF Copy
<1>10. more \in Seq(Copy) /\ Len(more) = Len(saved) + 1 /\ Len(saved) \in Nat /\ more[Len(saved) + 1] = copy
       /\ DOMAIN saved = 1 .. Len(saved) /\ DOMAIN more = 1 .. Len(saved) + 1
       /\ \A i \in DOMAIN saved : more[i] = saved[i]
  <2> HIDE DEF copy
  <2> QED BY <1>8, <1>9, AppendProperties, LenProperties
<1> HIDE DEF more
<1>11. copy.dup_fd = low /\ copy.redir_fd = to
  OBVIOUS
<1> HIDE DEF copy
<1>12. \A i \in DOMAIN more : (i \in DOMAIN saved /\ more[i] = saved[i]) \/ (i = Len(saved) + 1 /\ more[i] = copy)
  BY <1>10
<1>13. ASSUME NEW i \in DOMAIN more
       PROVE  more[i].dup_fd > 2 /\ new[more[i].dup_fd] = Standard[more[i].redir_fd]
  <2>1. CASE i \in DOMAIN saved /\ more[i] = saved[i]
    <3>1. saved[i].dup_fd \in Fd /\ saved[i].dup_fd > 2 /\ copied[saved[i].dup_fd] = Standard[saved[i].redir_fd]
      BY <1>3, <2>1, SavedCopies
    <3> QED BY <1>7, <2>1, <3>1
  <2>2. CASE more[i] = copy
    BY <1>1, <1>3, <1>7, <1>11, <2>2
  <2> QED BY <1>12, <2>1, <2>2
<1>14. ASSUME NEW i \in DOMAIN more, NEW j \in DOMAIN more, more[i].redir_fd = more[j].redir_fd
       PROVE  i = j
  <2>1. \A x, y \in DOMAIN saved : saved[x].redir_fd = saved[y].redir_fd => x = y
    BY DEF FdsOK
  <2> QED BY <1>11, <1>12, <1>14, <2>1
<1>15. ASSUME NEW k \in 0 .. 2
       PROVE  new[k] = Standard[k] \/ \E i \in DOMAIN more : more[i].redir_fd = k
  <2>1. CASE k = to
    <3>1. Len(saved) + 1 \in DOMAIN more
      BY <1>10
    <3> QED BY <1>10, <1>11, <2>1, <3>1
  <2>2. CASE k # to
    <3>1. new[k] = fds[k]
      BY <1>3, <1>7, <2>2, StandardDiffer
    <3>2. fds[k] = Standard[k] \/ \E i \in DOMAIN saved : saved[i].redir_fd = k
      BY DEF FdsOK
    <3> QED BY <1>10, <3>1, <3>2
  <2> QED BY <2>1, <2>2
<1>16. ASSUME NEW k \in 0 .. 2 PROVE new[k] # Closed
  <2>1. copied[k] # Closed
    BY <1>3 DEF FdsOK
  <2> QED BY <1>5, <1>7, <2>1, StandardDiffer
<1>17. \A k \in Fd : copied[k][1] \in {"r", "w"} => copied[k][2] \in 1 .. n
  BY <1>3 DEF FdsOK
<1>18. ASSUME NEW k \in Fd PROVE new[k][1] \in {"r", "w"} => new[k][2] \in 1 .. n
  BY <1>7, <1>17
<1>19. ASSUME NEW k \in Fd, new[k][1] = "w"
       PROVE  \E l \in Fd : l > 2 /\ new[l] = <<"r", new[k][2]>>
  <2>1. PICK q \in Fd : copied[q] = new[k]
    BY <1>7
  <2>2. \E l \in Fd : l > 2 /\ copied[l] = <<"r", copied[q][2]>>
    BY <1>3, <1>19, <2>1 DEF FdsOK
  <2> QED BY <1>7, <2>1, <2>2
<1>20. FdsOK(new, more, n)
  BY <1>7, <1>10, <1>13, <1>14, <1>15, <1>16, <1>18, <1>19 DEF FdsOK, Copy
<1> QED BY <1>20 DEF new, copied, more, copy, low

\* A standard descriptor is put back.
LEMMA RestoreKeeps ==
    ASSUME NEW fds, NEW saved, NEW n \in Nat, FdsOK(fds, saved, n), saved # <<>>
    PROVE  FdsOK(Close(dup2(fds, saved[1].dup_fd, saved[1].redir_fd), {saved[1].dup_fd}), Tail(saved), n)
<1> DEFINE from == saved[1].dup_fd
           to == saved[1].redir_fd
           back == dup2(fds, from, to)
           new == Close(back, {from})
           Copy == [dup_fd : Fd, redir_fd : 0 .. 2]
           rest == Tail(saved)
<1>1. saved \in Seq(Copy)
  BY DEF FdsOK
<1>2. /\ Len(saved) \in Nat /\ DOMAIN saved = 1 .. Len(saved) /\ 1 \in DOMAIN saved
      /\ rest \in Seq(Copy) /\ DOMAIN rest = 1 .. Len(saved) - 1
      /\ \A i \in DOMAIN rest : rest[i] = saved[i + 1] /\ i + 1 \in DOMAIN saved /\ i + 1 # 1
  <2> HIDE DEF Copy
  <2>1. Len(saved) \in Nat \ {0} /\ DOMAIN saved = 1 .. Len(saved)
    BY <1>1, LenProperties, EmptySeq
  <2>2. rest \in Seq(Copy) /\ Len(rest) = Len(saved) - 1 /\ \A i \in 1 .. Len(rest) : rest[i] = saved[i + 1]
    BY <1>1, HeadTailProperties
  <2>3. DOMAIN rest = 1 .. Len(rest)
    BY <2>2, LenProperties
  <2> QED BY <2>1, <2>2, <2>3
<1> HIDE DEF rest
<1>3. from \in Fd /\ from > 2 /\ to \in 0 .. 2 /\ to \in Fd /\ fds[from] = Standard[to]
  BY <1>2, SavedCopies, StandardDiffer
<1>4. from # to
  BY <1>3
<1>5. back = [fds EXCEPT ![to] = fds[from]] /\ new = [k \in Fd |-> IF k \in {from} THEN Closed ELSE back[k]]
  BY DEF dup2, Close
<1> HIDE DEF from, to, back, new
<1>6. fds \in [Fd -> Thing]
  BY DEF FdsOK
<1>7. Closed \in Thing /\ Closed[1] = "closed"
  BY DEF Closed, Thing
<1>8. /\ new \in [Fd -> Thing] /\ new[from] = Closed /\ new[to] = Standard[to]
      /\ \A k \in Fd : k # from /\ k # to => new[k] = fds[k]
  BY <1>3, <1>4, <1>5, <1>6, <1>7
<1>9. \A x, y \in DOMAIN saved : saved[x].redir_fd = saved[y].redir_fd => x = y
  BY DEF FdsOK
<1>10. ASSUME NEW i \in DOMAIN rest
       PROVE  rest[i].dup_fd > 2 /\ new[rest[i].dup_fd] = Standard[rest[i].redir_fd]
  <2>1. /\ rest[i].dup_fd \in Fd /\ rest[i].redir_fd \in 0 .. 2 /\ rest[i].dup_fd > 2
        /\ fds[rest[i].dup_fd] = Standard[rest[i].redir_fd]
    BY <1>2, SavedCopies
  <2>2. rest[i].redir_fd # to
    BY <1>2, <1>9 DEF to
  <2>3. rest[i].dup_fd # from
    BY <1>3, <2>1, <2>2, StandardDiffer
  <2>4. rest[i].dup_fd # to
    BY <1>3, <2>1
  <2> QED BY <1>8, <2>1, <2>3, <2>4
<1>11. ASSUME NEW i \in DOMAIN rest, NEW j \in DOMAIN rest, rest[i].redir_fd = rest[j].redir_fd
       PROVE  i = j
  <2>1. i + 1 = j + 1
    BY <1>2, <1>9, <1>11
  <2> QED BY <1>2, <2>1
<1>12. ASSUME NEW k \in 0 .. 2
       PROVE  new[k] = Standard[k] \/ \E i \in DOMAIN rest : rest[i].redir_fd = k
  <2>1. CASE k = to
    BY <1>8, <2>1
  <2>2. CASE k # to
    <3>1. new[k] = fds[k]
      BY <1>3, <1>8, <2>2, StandardDiffer
    <3>2. CASE \E i \in DOMAIN saved : saved[i].redir_fd = k
      <4>1. PICK i \in DOMAIN saved : saved[i].redir_fd = k
        BY <3>2
      <4>2. i # 1
        BY <2>2, <4>1 DEF to
      <4>3. i - 1 \in DOMAIN rest /\ (i - 1) + 1 = i
        BY <1>2, <4>1, <4>2
      <4> QED BY <1>2, <4>1, <4>3
    <3> QED BY <3>1, <3>2 DEF FdsOK
  <2> QED BY <2>1, <2>2
<1>13. ASSUME NEW k \in 0 .. 2 PROVE new[k] # Closed
  <2>1. fds[k] # Closed
    BY DEF FdsOK
  <2> QED BY <1>3, <1>8, <2>1, StandardDiffer
<1>14. \A k \in Fd : new[k][1] \in {"r", "w"} => k # from /\ k # to /\ new[k] = fds[k]
  BY <1>3, <1>7, <1>8, StandardDiffer
<1>15. \A k \in Fd : new[k][1] \in {"r", "w"} => new[k][2] \in 1 .. n
  BY <1>14 DEF FdsOK
<1>16. ASSUME NEW k \in Fd, new[k][1] = "w"
       PROVE  \E l \in Fd : l > 2 /\ new[l] = <<"r", new[k][2]>>
  <2>1. PICK l \in Fd : l > 2 /\ fds[l] = <<"r", new[k][2]>>
    BY <1>14, <1>16 DEF FdsOK
  <2>2. l # to
    BY <1>3, <2>1
  <2>3. fds[from][1] \in {"in", "out", "err"} /\ fds[l][1] = "r"
    BY <1>3, <2>1, StandardDiffer
  <2>4. l # from
    BY <2>3
  <2> QED BY <1>8, <2>1, <2>2, <2>4
<1>17. FdsOK(new, rest, n)
  BY <1>2, <1>8, <1>10, <1>11, <1>12, <1>13, <1>15, <1>16 DEF FdsOK, Copy
<1> QED BY <1>17 DEF new, back, from, to, rest

-----------------------------------------------------------------------------
(* What a process still has to do *)

\* Behind n new tasks comes s without its first m.
Behind(t, n, s, m) ==
    /\ t \in Seq(Range(t)) /\ DOMAIN t = 1 .. n + (Len(s) - m)
    /\ \A k \in DOMAIN t : k > n => (k - n) + m \in DOMAIN s /\ t[k] = s[(k - n) + m]

LEMMA RangeSeq ==
    ASSUME NEW S, NEW s \in Seq(S)
    PROVE  s \in Seq(Range(s)) /\ DOMAIN s = 1 .. Len(s) /\ Len(s) \in Nat /\ \A k \in DOMAIN s : s[k] \in Range(s)
<1>1. Len(s) \in Nat /\ s \in [1 .. Len(s) -> S] /\ DOMAIN s = 1 .. Len(s)
  BY LenProperties
<1>2. \A k \in DOMAIN s : s[k] \in Range(s)
  BY DEF Range
<1>3. s \in Seq(Range(s))
  BY <1>1, <1>2, SMT
<1> QED BY <1>1, <1>2, <1>3

LEMMA ConcatBehind ==
    ASSUME NEW S, NEW front \in Seq(S), NEW s, s \in Seq(Range(s)), NEW m \in 0 .. Len(s)
    PROVE  /\ Behind(front \o SubSeq(s, m + 1, Len(s)), Len(front), s, m)
           /\ \A k \in 1 .. Len(front) : (front \o SubSeq(s, m + 1, Len(s)))[k] = front[k]
<1> DEFINE U == S \cup Range(s)
           n == Len(front)
           rest == SubSeq(s, m + 1, Len(s))
           t == front \o rest
<1>1. Len(s) \in Nat /\ m \in Nat /\ m <= Len(s) /\ DOMAIN s = 1 .. Len(s) /\ n \in Nat
  BY RangeSeq, LenProperties
<1>2. S \subseteq U /\ Range(s) \subseteq U
  OBVIOUS
<1>3. \A k \in DOMAIN s : s[k] \in U
  BY RangeSeq
<1> HIDE DEF U
<1>4. front \in Seq(U)
  BY <1>2, SeqMonotonic
<1>5. rest \in Seq(U) /\ Len(rest) = Len(s) - m /\ \A i \in 1 .. Len(s) - m : rest[i] = s[m + i]
  <2>1. \A i \in m + 1 .. Len(s) : s[i] \in U
    BY <1>1, <1>3
  <2>2. m + 1 \in Int /\ Len(s) \in Int
    BY <1>1
  <2>3. /\ rest \in Seq(U) /\ Len(rest) = IF m + 1 <= Len(s) THEN Len(s) - (m + 1) + 1 ELSE 0
        /\ \A i \in 1 .. Len(s) - (m + 1) + 1 : rest[i] = s[(m + 1) + i - 1]
    BY <2>1, <2>2, SubSeqProperties
  <2> HIDE DEF rest
  <2>4. Len(s) - (m + 1) + 1 = Len(s) - m /\ Len(rest) = Len(s) - m
    <3>1. ASSUME NEW l \in Nat, NEW i \in Nat, i <= l
          PROVE  l - (i + 1) + 1 = l - i /\ (IF i + 1 <= l THEN l - (i + 1) + 1 ELSE 0) = l - i
      BY <3>1
    <3> QED BY <1>1, <2>3, <3>1
  <2>5. ASSUME NEW i \in 1 .. Len(s) - m PROVE rest[i] = s[m + i]
    <3>1. (m + 1) + i - 1 = m + i
      BY <1>1
    <3> QED BY <2>3, <2>4, <3>1
  <2> QED BY <2>3, <2>4, <2>5
<1> HIDE DEF rest
<1>6. /\ t \in Seq(U) /\ Len(t) = n + Len(rest)
      /\ \A i \in 1 .. n + Len(rest) : t[i] = IF i <= n THEN front[i] ELSE rest[i - n]
  BY <1>4, <1>5, ConcatProperties
<1> HIDE DEF t, n
<1>7. t \in Seq(Range(t)) /\ DOMAIN t = 1 .. n + (Len(s) - m)
  BY <1>5, <1>6, RangeSeq
<1>8. ASSUME NEW k \in DOMAIN t, k > n
      PROVE  (k - n) + m \in DOMAIN s /\ t[k] = s[(k - n) + m]
  <2>1. k - n \in 1 .. Len(s) - m /\ k \in 1 .. n + Len(rest)
    BY <1>1, <1>5, <1>7, <1>8
  <2>2. t[k] = rest[k - n]
    BY <1>1, <1>6, <1>8, <2>1
  <2>3. rest[k - n] = s[m + (k - n)]
    BY <1>5, <2>1
  <2>4. m + (k - n) = (k - n) + m /\ (k - n) + m \in DOMAIN s
    BY <1>1, <2>1
  <2> QED BY <2>2, <2>3, <2>4
<1>9. ASSUME NEW k \in 1 .. n PROVE t[k] = front[k]
  <2>1. k \in 1 .. n + Len(rest) /\ k <= n
    BY <1>1, <1>5
  <2> QED BY <1>6, <2>1
<1>10. Behind(t, n, s, m)
  BY <1>7, <1>8 DEF Behind
<1> QED BY <1>9, <1>10 DEF t, n, rest

\* The shapes in which the actions change the tasks s.
Shapes(s, a, b, c) ==
    /\ Behind(Tail(s), 0, s, 1)
    /\ Behind(<<a>> \o Tail(s), 1, s, 1) /\ (<<a>> \o Tail(s))[1] = a
    /\ Behind(<<a, b>> \o Tail(s), 2, s, 1) /\ (<<a, b>> \o Tail(s))[1] = a /\ (<<a, b>> \o Tail(s))[2] = b
    /\ Behind(<<a, b, c>> \o Tail(s), 3, s, 1) /\ (<<a, b, c>> \o Tail(s))[1] = a
    /\ (<<a, b, c>> \o Tail(s))[2] = b /\ (<<a, b, c>> \o Tail(s))[3] = c
    /\ Behind(<<a>> \o s, 1, s, 0) /\ (<<a>> \o s)[1] = a
    /\ Len(s) >= 2 => Behind(<<a>> \o SubSeq(s, 3, Len(s)), 1, s, 2) /\ (<<a>> \o SubSeq(s, 3, Len(s)))[1] = a
    /\ Len(s) >= 3 => Behind(SubSeq(s, 4, Len(s)), 0, s, 3)

LEMMA TodoShapes ==
    ASSUME NEW s, s \in Seq(Range(s)), s # <<>>, NEW a, NEW b, NEW c
    PROVE  Shapes(s, a, b, c)
<1>1. Len(s) \in Nat /\ Len(s) >= 1
  BY EmptySeq
<1>2. 0 \in 0 .. Len(s) /\ 1 \in 0 .. Len(s)
  BY <1>1
<1>3. SubSeq(s, 0 + 1, Len(s)) = s /\ SubSeq(s, 1 + 1, Len(s)) = Tail(s)
  BY SubSeqFull, TailIsSubSeq
<1>4. <<a>> \in Seq({a}) /\ Len(<<a>>) = 1 /\ <<a>>[1] = a
  OBVIOUS
<1>5. <<a, b>> \in Seq({a, b}) /\ Len(<<a, b>>) = 2 /\ <<a, b>>[1] = a /\ <<a, b>>[2] = b
  OBVIOUS
<1>6. <<a, b, c>> \in Seq({a, b, c}) /\ Len(<<a, b, c>>) = 3
      /\ <<a, b, c>>[1] = a /\ <<a, b, c>>[2] = b /\ <<a, b, c>>[3] = c
  OBVIOUS
<1>7. <<>> \in Seq({}) /\ Len(<<>>) = 0
  BY EmptySeq
<1>8. Behind(Tail(s), 0, s, 1)
  <2>1. Behind(<<>> \o Tail(s), 0, s, 1)
    BY <1>2, <1>3, <1>7, ConcatBehind
  <2>2. Tail(s) \in Seq(Range(s))
    BY HeadTailProperties
  <2> QED BY <2>1, <2>2, ConcatEmptySeq
<1>9. Behind(<<a>> \o Tail(s), 1, s, 1) /\ (<<a>> \o Tail(s))[1] = a
  <2>1. 1 \in 1 .. 1
    OBVIOUS
  <2>2. /\ Behind(<<a>> \o SubSeq(s, 1 + 1, Len(s)), Len(<<a>>), s, 1)
        /\ \A k \in 1 .. Len(<<a>>) : (<<a>> \o SubSeq(s, 1 + 1, Len(s)))[k] = <<a>>[k]
    BY <1>2, <1>4, ConcatBehind
  <2> QED BY <1>3, <1>4, <2>1, <2>2
<1>10. Behind(<<a, b>> \o Tail(s), 2, s, 1) /\ (<<a, b>> \o Tail(s))[1] = a /\ (<<a, b>> \o Tail(s))[2] = b
  <2>1. 1 \in 1 .. 2 /\ 2 \in 1 .. 2
    OBVIOUS
  <2>2. /\ Behind(<<a, b>> \o SubSeq(s, 1 + 1, Len(s)), Len(<<a, b>>), s, 1)
        /\ \A k \in 1 .. Len(<<a, b>>) : (<<a, b>> \o SubSeq(s, 1 + 1, Len(s)))[k] = <<a, b>>[k]
    BY <1>2, <1>5, ConcatBehind
  <2> QED BY <1>3, <1>5, <2>1, <2>2
<1>11. /\ Behind(<<a, b, c>> \o Tail(s), 3, s, 1) /\ (<<a, b, c>> \o Tail(s))[1] = a
       /\ (<<a, b, c>> \o Tail(s))[2] = b /\ (<<a, b, c>> \o Tail(s))[3] = c
  <2>1. 1 \in 1 .. 3 /\ 2 \in 1 .. 3 /\ 3 \in 1 .. 3
    OBVIOUS
  <2>2. /\ Behind(<<a, b, c>> \o SubSeq(s, 1 + 1, Len(s)), Len(<<a, b, c>>), s, 1)
        /\ \A k \in 1 .. Len(<<a, b, c>>) : (<<a, b, c>> \o SubSeq(s, 1 + 1, Len(s)))[k] = <<a, b, c>>[k]
    BY <1>2, <1>6, ConcatBehind
  <2> QED BY <1>3, <1>6, <2>1, <2>2
<1>12. Behind(<<a>> \o s, 1, s, 0) /\ (<<a>> \o s)[1] = a
  <2>1. 1 \in 1 .. 1
    OBVIOUS
  <2>2. /\ Behind(<<a>> \o SubSeq(s, 0 + 1, Len(s)), Len(<<a>>), s, 0)
        /\ \A k \in 1 .. Len(<<a>>) : (<<a>> \o SubSeq(s, 0 + 1, Len(s)))[k] = <<a>>[k]
    BY <1>2, <1>4, ConcatBehind
  <2> QED BY <1>3, <1>4, <2>1, <2>2
<1>13. ASSUME Len(s) >= 2
       PROVE  Behind(<<a>> \o SubSeq(s, 3, Len(s)), 1, s, 2) /\ (<<a>> \o SubSeq(s, 3, Len(s)))[1] = a
  <2>1. 2 \in 0 .. Len(s) /\ 2 + 1 = 3 /\ 1 \in 1 .. 1
    BY <1>1, <1>13
  <2>2. /\ Behind(<<a>> \o SubSeq(s, 2 + 1, Len(s)), Len(<<a>>), s, 2)
        /\ \A k \in 1 .. Len(<<a>>) : (<<a>> \o SubSeq(s, 2 + 1, Len(s)))[k] = <<a>>[k]
    BY <1>4, <2>1, ConcatBehind
  <2> QED BY <1>4, <2>1, <2>2
<1>14. ASSUME Len(s) >= 3
       PROVE  Behind(SubSeq(s, 4, Len(s)), 0, s, 3)
  <2>1. 3 \in 0 .. Len(s) /\ 3 + 1 = 4
    BY <1>1, <1>14
  <2>2. Behind(<<>> \o SubSeq(s, 4, Len(s)), 0, s, 3)
    BY <1>7, <2>1, ConcatBehind
  <2>3. SubSeq(s, 4, Len(s)) \in Seq(Range(s))
    <3>1. \A i \in 4 .. Len(s) : s[i] \in Range(s)
      BY <1>1, RangeSeq
    <3> QED BY <1>1, <3>1, SubSeqProperties
  <2> QED BY <2>2, <2>3, ConcatEmptySeq
<1> QED BY <1>8, <1>9, <1>10, <1>11, <1>12, <1>13, <1>14 DEF Shapes

\* What is behind the first m tasks does not depend on what has changed.
Unaffected(s, m, fds, saved, fds2, saved2) ==
    \/ fds2 = fds /\ saved2 = saved
    \/ \A k \in DOMAIN s : k > m => s[k].task \in {"command", "restore", "write", "cat", "wait"}
    \/ saved2 = saved /\ \A k \in DOMAIN s : s[k].task \in {"command", "restore", "write", "cat", "redirect"}

\* Then it is still as it should be, behind the new tasks.
LEMMA RestKept ==
    ASSUME NEW s, NEW fds, NEW saved, NEW t, NEW fds2, NEW saved2, NEW n \in Nat, NEW m \in Nat,
           TodoOK(s, fds, saved), Behind(t, n, s, m),
           Unaffected(s, m, fds, saved, fds2, saved2),
           \A j \in DOMAIN t : j <= n => TaskOK(t[j], fds2, saved2) /\ FollowsOK(t, j),
           Outside(t) => saved2 = <<>>
    PROVE  TodoOK(t, fds2, saved2)
<1>1. Len(s) \in Nat /\ DOMAIN s = 1 .. Len(s) /\ t \in Seq(Range(t)) /\ DOMAIN t = 1 .. n + (Len(s) - m)
  BY RangeSeq DEF TodoOK, Behind
<1>2. ASSUME NEW k \in DOMAIN t, k > n
      PROVE  TaskOK(t[k], fds2, saved2) /\ FollowsOK(t, k)
  <2> DEFINE i == (k - n) + m
  <2>1. i \in DOMAIN s /\ t[k] = s[i] /\ i > m /\ k \in Nat /\ i \in Nat
    BY <1>1, <1>2 DEF Behind
  <2>2. TaskOK(s[i], fds, saved) /\ FollowsOK(s, i)
    BY <2>1 DEF TodoOK
  <2>3. TaskOK(t[k], fds2, saved2)
    <3>1. CASE fds2 = fds /\ saved2 = saved
      BY <2>1, <2>2, <3>1
    <3>2. CASE s[i].task \in {"command", "restore", "write", "cat", "wait"}
      BY <2>1, <2>2, <3>2 DEF TaskOK
    <3>3. CASE saved2 = saved /\ s[i].task \in {"command", "restore", "write", "cat", "redirect"}
      BY <2>1, <2>2, <3>3 DEF TaskOK
    <3> QED BY <2>1, <3>1, <3>2, <3>3 DEF Unaffected
  <2>4. ASSUME NEW l \in DOMAIN t, l > k
        PROVE  (l - n) + m \in DOMAIN s /\ (l - n) + m > i /\ t[l] = s[(l - n) + m]
    <3>1. l > n /\ l \in Nat
      BY <1>1, <1>2, <2>1, <2>4
    <3> QED BY <1>1, <2>1, <2>4, <3>1 DEF Behind
  <2>5. \A j \in DOMAIN t : j > n => t[j] = s[(j - n) + m]
    BY DEF Behind
  <2>6. ASSUME i + 1 \in DOMAIN s
        PROVE  k + 1 \in DOMAIN t /\ t[k + 1] = s[i + 1]
    <3>1. k + 1 \in DOMAIN t /\ k + 1 > n /\ ((k + 1) - n) + m = i + 1
      BY <1>1, <1>2, <2>1, <2>6
    <3> QED BY <2>5, <3>1
  <2>7. ASSUME i + 2 \in DOMAIN s
        PROVE  i + 1 \in DOMAIN s /\ k + 2 \in DOMAIN t /\ t[k + 2] = s[i + 2]
    <3>1. k + 2 \in DOMAIN t /\ k + 2 > n
      <4>1. i + 2 <= Len(s)
        BY <1>1, <2>7
      <4>2. ASSUME NEW l \in Nat, i + 2 <= l PROVE k + 2 <= n + (l - m)
        BY <2>1, <4>2
      <4>3. k + 2 <= n + (Len(s) - m) /\ k + 2 \in Nat /\ k + 2 >= 1
        BY <1>1, <2>1, <4>1, <4>2
      <4> QED BY <1>1, <1>2, <2>1, <4>3
    <3>2. ((k + 2) - n) + m = i + 2
      BY <2>1
    <3>3. i + 1 \in DOMAIN s
      BY <1>1, <2>1, <2>7
    <3> QED BY <2>5, <3>1, <3>2, <3>3
  <2> HIDE DEF i
  <2>8. FollowsOK(t, k)
    <3>1. t[k].task \in {"command", "stage", "wait", "restore"} =>
            \A l \in DOMAIN t : l > k => t[l].task = "command"
      BY <2>1, <2>2, <2>4 DEF FollowsOK
    <3>2. t[k].task = "redirect" => /\ k + 2 \in DOMAIN t
                                    /\ t[k + 1].task \in {"write", "cat"} /\ t[k + 2].task = "restore"
      BY <2>1, <2>2, <2>6, <2>7 DEF FollowsOK
    <3>3. t[k].task = "document" => k + 1 \in DOMAIN t /\ t[k + 1].task = "redirect"
      BY <2>1, <2>2, <2>6 DEF FollowsOK
    <3>4. t[k].task \in {"write", "cat"} => k + 1 \in DOMAIN t /\ t[k + 1].task \in {"document", "cat", "restore"}
      BY <2>1, <2>2, <2>6 DEF FollowsOK
    <3> QED BY <3>1, <3>2, <3>3, <3>4 DEF FollowsOK
  <2> QED BY <2>3, <2>8
<1>3. \A k \in DOMAIN t : k <= n \/ k > n
  BY <1>1
<1> QED BY <1>1, <1>2, <1>3 DEF TodoOK

\* What is behind the first task.
LEMMA FirstTask ==
    ASSUME NEW s, NEW fds, NEW saved, TodoOK(s, fds, saved), s # <<>>
    PROVE  /\ s \in Seq(Range(s)) /\ Len(s) \in Nat /\ DOMAIN s = 1 .. Len(s) /\ 1 \in DOMAIN s
           /\ TaskOK(s[1], fds, saved)
           /\ s[1].task \in {"command", "stage", "wait"} => saved = <<>>
           /\ s[1].task \in {"command", "stage", "wait", "restore"} =>
                 \A k \in DOMAIN s : k > 1 => s[k].task = "command"
           /\ s[1].task = "redirect" =>
                 /\ Len(s) >= 3 /\ s[2].task \in {"write", "cat"} /\ s[3].task = "restore"
                 /\ \A k \in DOMAIN s : k > 3 => s[k].task = "command"
           /\ s[1].task = "document" =>
                 /\ Len(s) >= 4 /\ s[2].task = "redirect" /\ s[3].task \in {"write", "cat"}
                 /\ s[4].task = "restore" /\ TaskOK(s[2], fds, saved)
                 /\ \A k \in DOMAIN s : k > 4 => s[k].task = "command"
           /\ s[1].task \in {"write", "cat"} => Len(s) >= 2 /\ s[2].task \in {"document", "cat", "restore"}
<1>1. s \in Seq(Range(s)) /\ Len(s) \in Nat /\ DOMAIN s = 1 .. Len(s) /\ 1 \in DOMAIN s
  <2>1. s \in Seq(Range(s))
    BY DEF TodoOK
  <2>2. Len(s) \in Nat \ {0} /\ DOMAIN s = 1 .. Len(s)
    BY <2>1, EmptySeq, RangeSeq
  <2> QED BY <2>1, <2>2
<1>2. \A k \in DOMAIN s : TaskOK(s[k], fds, saved) /\ FollowsOK(s, k)
  BY DEF TodoOK
<1>3. s[1].task \in {"command", "stage", "wait"} => saved = <<>>
  BY DEF TodoOK, Outside
<1>4. s[1].task \in {"command", "stage", "wait", "restore"} => \A k \in DOMAIN s : k > 1 => s[k].task = "command"
  BY <1>1, <1>2 DEF FollowsOK
<1>5. ASSUME s[1].task = "redirect"
      PROVE  /\ Len(s) >= 3 /\ s[2].task \in {"write", "cat"} /\ s[3].task = "restore"
             /\ \A k \in DOMAIN s : k > 3 => s[k].task = "command"
  <2>1. 3 \in DOMAIN s /\ s[2].task \in {"write", "cat"} /\ s[3].task = "restore"
    BY <1>1, <1>2, <1>5 DEF FollowsOK
  <2>2. \A k \in DOMAIN s : k > 3 => s[k].task = "command"
    BY <1>2, <2>1 DEF FollowsOK
  <2> QED BY <1>1, <2>1, <2>2
<1>6. ASSUME s[1].task = "document"
      PROVE  /\ Len(s) >= 4 /\ s[2].task = "redirect" /\ s[3].task \in {"write", "cat"} /\ s[4].task = "restore"
             /\ TaskOK(s[2], fds, saved) /\ \A k \in DOMAIN s : k > 4 => s[k].task = "command"
  <2>1. 2 \in DOMAIN s /\ s[2].task = "redirect"
    BY <1>1, <1>2, <1>6 DEF FollowsOK
  <2>2. 4 \in DOMAIN s /\ s[3].task \in {"write", "cat"} /\ s[4].task = "restore"
    BY <1>2, <2>1 DEF FollowsOK
  <2>3. \A k \in DOMAIN s : k > 4 => s[k].task = "command"
    BY <1>2, <2>2 DEF FollowsOK
  <2> QED BY <1>1, <1>2, <2>1, <2>2, <2>3
<1>7. ASSUME s[1].task \in {"write", "cat"}
      PROVE  Len(s) >= 2 /\ s[2].task \in {"document", "cat", "restore"}
  <2>1. 2 \in DOMAIN s /\ s[2].task \in {"document", "cat", "restore"}
    BY <1>1, <1>2, <1>7 DEF FollowsOK
  <2> QED BY <1>1, <2>1
<1> QED BY <1>1, <1>2, <1>3, <1>4, <1>5, <1>6, <1>7

\* The first task is done.
LEMMA PopKeeps ==
    ASSUME NEW s, NEW fds, NEW saved, TodoOK(s, fds, saved), s # <<>>, s[1].task = "restore" => saved = <<>>
    PROVE  TodoOK(Tail(s), fds, saved)
<1>1. s \in Seq(Range(s)) /\ Len(s) \in Nat /\ DOMAIN s = 1 .. Len(s) /\ 1 \in DOMAIN s
  BY FirstTask
<1>2. Behind(Tail(s), 0, s, 1)
  <2>1. Shapes(s, 0, 0, 0)
    BY <1>1, TodoShapes
  <2> QED BY <2>1 DEF Shapes
<1>3. Outside(Tail(s)) => saved = <<>>
  <2>1. SUFFICES ASSUME ~(s[1].task \in {"command", "stage", "wait", "restore"}) PROVE ~Outside(Tail(s))
    BY FirstTask
  <2>2. s[1].task \in {"redirect", "document", "write", "cat"}
    BY <2>1, FirstTask DEF TaskOK
  <2>3. Len(s) >= 2 /\ s[2].task \in {"write", "cat", "redirect", "document", "restore"}
    BY <1>1, <2>2, FirstTask
  <2>4. DOMAIN Tail(s) = 1 .. 0 + (Len(s) - 1) /\ \A k \in DOMAIN Tail(s) : k > 0 => Tail(s)[k] = s[(k - 0) + 1]
    BY <1>2 DEF Behind
  <2>5. 1 \in DOMAIN Tail(s) /\ (1 - 0) + 1 = 2
    BY <1>1, <2>3, <2>4
  <2>6. Tail(s) # <<>> /\ Tail(s)[1] = s[2]
    BY <2>4, <2>5
  <2> QED BY <2>3, <2>6 DEF Outside
<1>4. \A j \in DOMAIN Tail(s) : j <= 0 => FALSE
  <2>1. DOMAIN Tail(s) = 1 .. 0 + (Len(s) - 1)
    BY <1>2 DEF Behind
  <2> QED BY <2>1
<1> QED
  <2>1. Unaffected(s, 1, fds, saved, fds, saved)
    BY DEF Unaffected
  <2> QED BY <1>2, <1>3, <1>4, <2>1, RestKept

\* A command or a round of run_pipeline is done, or becomes a task that only the shell itself has.
LEMMA OutsideKeeps ==
    ASSUME NEW s, NEW fds, NEW saved, TodoOK(s, fds, saved), s # <<>>, s[1].task \in {"command", "stage", "wait"},
           NEW fds2, NEW a
    PROVE  /\ saved = <<>> /\ TodoOK(Tail(s), fds2, saved)
           /\ a.task \in {"stage", "wait"} /\ TaskOK(a, fds2, saved) => TodoOK(<<a>> \o Tail(s), fds2, saved)
<1>1. /\ s \in Seq(Range(s)) /\ Len(s) \in Nat /\ DOMAIN s = 1 .. Len(s) /\ 1 \in DOMAIN s /\ saved = <<>>
      /\ \A k \in DOMAIN s : k > 1 => s[k].task = "command"
  BY FirstTask
<1> Shapes(s, a, a, a)
  BY <1>1, TodoShapes
<1>2. Behind(Tail(s), 0, s, 1)
  BY DEF Shapes
<1>3. Behind(<<a>> \o Tail(s), 1, s, 1) /\ (<<a>> \o Tail(s))[1] = a
  BY DEF Shapes
<1>4. \A k \in DOMAIN s : k > 1 => s[k].task \in {"command", "restore", "write", "cat", "wait"}
  BY <1>1
<1>5. TodoOK(Tail(s), fds2, saved)
  <2>1. \A j \in DOMAIN Tail(s) : j <= 0 => FALSE
    <3>1. DOMAIN Tail(s) = 1 .. 0 + (Len(s) - 1)
      BY <1>2 DEF Behind
    <3> QED BY <3>1
  <2> QED
    <3>1. Unaffected(s, 1, fds, saved, fds2, saved)
      BY <1>4 DEF Unaffected
    <3> QED BY <1>1, <1>2, <2>1, <3>1, RestKept
<1>6. ASSUME a.task \in {"stage", "wait"}, TaskOK(a, fds2, saved)
      PROVE  TodoOK(<<a>> \o Tail(s), fds2, saved)
  <2> DEFINE t == <<a>> \o Tail(s)
  <2> HIDE DEF t
  <2>1. /\ DOMAIN t = 1 .. 1 + (Len(s) - 1) /\ t[1] = a
        /\ \A k \in DOMAIN t : k > 1 => (k - 1) + 1 \in DOMAIN s /\ t[k] = s[(k - 1) + 1]
    BY <1>3 DEF Behind, t
  <2>2. \A k \in DOMAIN t : k > 1 => k \in DOMAIN s /\ t[k] = s[k]
    BY <1>1, <2>1
  <2>3. \A k \in DOMAIN t : k > 1 => t[k].task = "command"
    BY <1>1, <2>2
  <2>4. FollowsOK(t, 1)
    BY <1>6, <2>1, <2>3 DEF FollowsOK
  <2>5. \A j \in DOMAIN t : j <= 1 => j = 1
    BY <1>1, <2>1
  <2>6. \A j \in DOMAIN t : j <= 1 => TaskOK(t[j], fds2, saved) /\ FollowsOK(t, j)
    BY <1>6, <2>1, <2>4, <2>5
  <2>7. TodoOK(t, fds2, saved)
    <3>1. Behind(t, 1, s, 1)
      BY <1>3 DEF t
    <3> QED
      <4>1. Unaffected(s, 1, fds, saved, fds2, saved)
        BY <1>4 DEF Unaffected
      <4> QED BY <1>1, <2>6, <3>1, <4>1, RestKept
  <2> QED BY <2>7 DEF t
<1> QED BY <1>1, <1>5, <1>6

\* A redirection is made, or fails and with it the builtin.
LEMMA RedirectKeeps ==
    ASSUME NEW s, NEW fds, NEW saved, TodoOK(s, fds, saved), s # <<>>, s[1].task = "redirect",
           NEW fds2, NEW saved2, NEW a
    PROVE  /\ TodoOK(SubSeq(s, 4, Len(s)), fds2, <<>>)
           /\ a.task = "redirect" /\ TaskOK(a, fds2, saved2) => TodoOK(<<a>> \o Tail(s), fds2, saved2)
<1>1. /\ s \in Seq(Range(s)) /\ Len(s) \in Nat /\ DOMAIN s = 1 .. Len(s) /\ 1 \in DOMAIN s
      /\ Len(s) >= 3 /\ s[2].task \in {"write", "cat"} /\ s[3].task = "restore"
      /\ \A k \in DOMAIN s : k > 3 => s[k].task = "command"
  BY FirstTask
<1> Shapes(s, a, a, a)
  BY <1>1, TodoShapes
<1>2. Behind(SubSeq(s, 4, Len(s)), 0, s, 3)
  BY <1>1 DEF Shapes
<1>3. Behind(<<a>> \o Tail(s), 1, s, 1) /\ (<<a>> \o Tail(s))[1] = a
  BY DEF Shapes
<1>4. \A k \in DOMAIN s : k > 1 => s[k].task \in {"command", "restore", "write", "cat", "wait"}
  BY <1>1
<1>5. TodoOK(SubSeq(s, 4, Len(s)), fds2, <<>>)
  <2> DEFINE t == SubSeq(s, 4, Len(s))
  <2> HIDE DEF t
  <2>1. \A j \in DOMAIN t : j <= 0 => FALSE
    <3>1. DOMAIN t = 1 .. 0 + (Len(s) - 3)
      BY <1>2 DEF Behind, t
    <3> QED BY <3>1
  <2>2. \A k \in DOMAIN s : k > 3 => s[k].task \in {"command", "restore", "write", "cat", "wait"}
    BY <1>1
  <2>3. ASSUME NEW none, none = <<>>
        PROVE  TodoOK(t, fds2, none)
    <3>1. Behind(t, 0, s, 3)
      BY <1>2 DEF t
    <3>2. \A j \in DOMAIN t : j <= 0 => TaskOK(t[j], fds2, none) /\ FollowsOK(t, j)
      BY <2>1
    <3>3. Outside(t) => none = <<>>
      BY <2>3
    <3> QED
      <4>1. Unaffected(s, 3, fds, saved, fds2, none)
        BY <2>2 DEF Unaffected
      <4>2. 3 \in Nat /\ 0 \in Nat
        OBVIOUS
      <4> QED BY <2>1, <3>1, <3>3, <4>1, <4>2, RestKept
  <2> QED BY <2>3 DEF t
<1>6. ASSUME a.task = "redirect", TaskOK(a, fds2, saved2)
      PROVE  TodoOK(<<a>> \o Tail(s), fds2, saved2)
  <2> DEFINE t == <<a>> \o Tail(s)
  <2> HIDE DEF t
  <2>1. /\ DOMAIN t = 1 .. 1 + (Len(s) - 1) /\ t[1] = a
        /\ \A k \in DOMAIN t : k > 1 => (k - 1) + 1 \in DOMAIN s /\ t[k] = s[(k - 1) + 1]
    BY <1>3 DEF Behind, t
  <2>2. \A k \in DOMAIN t : k > 1 => k \in DOMAIN s /\ t[k] = s[k]
    BY <1>1, <2>1
  <2>3. 1 \in DOMAIN t /\ 2 \in DOMAIN t /\ 3 \in DOMAIN t
    BY <1>1, <2>1
  <2>4. t[2].task \in {"write", "cat"} /\ t[3].task = "restore"
    BY <1>1, <2>2, <2>3
  <2>5. FollowsOK(t, 1)
    BY <1>6, <2>1, <2>3, <2>4 DEF FollowsOK
  <2>6. \A j \in DOMAIN t : j <= 1 => j = 1
    BY <1>1, <2>1
  <2>7. \A j \in DOMAIN t : j <= 1 => TaskOK(t[j], fds2, saved2) /\ FollowsOK(t, j)
    BY <1>6, <2>1, <2>5, <2>6
  <2>8. ~Outside(t)
    BY <1>6, <2>1, <2>3 DEF Outside
  <2>9. TodoOK(t, fds2, saved2)
    <3>1. Behind(t, 1, s, 1)
      BY <1>3 DEF t
    <3> QED
      <4>1. Unaffected(s, 1, fds, saved, fds2, saved2)
        BY <1>4 DEF Unaffected
      <4> QED BY <2>7, <2>8, <3>1, <4>1, RestKept
  <2> QED BY <2>9 DEF t
<1> QED BY <1>5, <1>6

-----------------------------------------------------------------------------
(* Steps of the shell and of other processes *)

\* A step of the process p, which may start another.
Changes(p, z) == procs' = [procs EXCEPT ![p] = z] \/ \E y : procs' = Append([procs EXCEPT ![p] = z], y)

LEMMA ChangedProcs ==
    ASSUME procs \in Seq(Range(procs)), procs # <<>>, NEW p \in DOMAIN procs, NEW z, Changes(p, z)
    PROVE  procs' \in Seq(Range(procs')) /\ procs' # <<>> /\ procs'[1] = IF p = 1 THEN z ELSE procs[1]
<1> DEFINE U == Range(procs) \cup {z}
           ps == [procs EXCEPT ![p] = z]
<1>1. Len(procs) \in Nat \ {0} /\ DOMAIN procs = 1 .. Len(procs)
  BY RangeSeq, EmptySeq
<1>2. procs \in Seq(U)
  <2>1. Range(procs) \subseteq U
    OBVIOUS
  <2> HIDE DEF U
  <2> QED BY <2>1, SeqMonotonic
<1>3. ps \in Seq(U) /\ Len(ps) = Len(procs) /\ \A j \in 1 .. Len(procs) : ps[j] = IF j = p THEN z ELSE procs[j]
  <2>1. z \in U /\ p \in 1 .. Len(procs)
    BY <1>1
  <2> HIDE DEF U
  <2> QED BY <1>2, <2>1, ExceptSeq
<1> HIDE DEF U, ps
<1>4. 1 \in 1 .. Len(procs) /\ ps[1] = IF p = 1 THEN z ELSE procs[1]
  BY <1>1, <1>3
<1>5. CASE procs' = ps
  <2>1. Len(ps) \in Nat \ {0}
    BY <1>1, <1>3
  <2>2. ps # <<>>
    BY <2>1, EmptySeq
  <2>3. ps \in Seq(Range(ps))
    BY <1>3, RangeSeq
  <2> QED BY <1>4, <1>5, <2>2, <2>3
<1>6. ASSUME NEW y, procs' = Append(ps, y)
      PROVE  procs' \in Seq(Range(procs')) /\ procs' # <<>> /\ procs'[1] = IF p = 1 THEN z ELSE procs[1]
  <2> DEFINE V == U \cup {y}
             more == Append(ps, y)
  <2>1. U \subseteq V /\ y \in V
    OBVIOUS
  <2> HIDE DEF V
  <2>2. ps \in Seq(V)
    BY <1>3, <2>1, SeqMonotonic
  <2>3. more \in Seq(V) /\ more # <<>> /\ \A i \in 1 .. Len(ps) : more[i] = ps[i]
    BY <2>1, <2>2, AppendProperties
  <2> HIDE DEF more
  <2>4. more \in Seq(Range(more)) /\ more[1] = ps[1]
    BY <1>3, <1>4, <2>3, RangeSeq
  <2>5. procs' = more
    BY <1>6 DEF more
  <2> QED BY <1>4, <2>3, <2>4, <2>5
<1> QED BY <1>5, <1>6 DEF Changes, ps

\* The shell goes on with these descriptors, tasks and saved descriptors.
Continues(f, t, sv) == Changes(1, [fds |-> f, todo |-> t, saved |-> sv, ended |-> FALSE])

LEMMA ShellContinues ==
    ASSUME Inv, NEW n, NEW f, NEW t, NEW sv, Continues(f, t, sv), FdsOK(f, sv, n), TodoOK(t, f, sv)
    PROVE  ShellOK(procs'[1], n)
<1> DEFINE z == [fds |-> f, todo |-> t, saved |-> sv, ended |-> FALSE]
<1>1. 1 \in DOMAIN procs
  BY RangeSeq, EmptySeq DEF Inv
<1>2. z.fds = f /\ z.todo = t /\ z.saved = sv /\ z = [fds |-> z.fds, todo |-> z.todo, saved |-> z.saved, ended |-> FALSE]
  OBVIOUS
<1> HIDE DEF z
<1>3. procs'[1] = z
  <2>1. Changes(1, z)
    BY DEF Continues, z
  <2> QED BY <1>1, <2>1, ChangedProcs DEF Inv
<1> QED BY <1>2, <1>3 DEF ShellOK

\* What the shell is before a step that leaves it unspoilt.
ShellIs(fds, s, saved) ==
    /\ procs[1].fds = fds /\ procs[1].todo = s /\ procs[1].saved = saved
    /\ FdsOK(fds, saved, Len(pipes)) /\ TodoOK(s, fds, saved) /\ Len(pipes) \in Nat

LEMMA Shell ==
    ASSUME Inv, ~spoilt
    PROVE  ShellIs(procs[1].fds, procs[1].todo, procs[1].saved)
<1>1. Len(pipes) \in Nat
  BY LenProperties DEF Inv
<1> QED BY <1>1 DEF Inv, ShellOK, ShellIs

LEMMA ShellBecomes ==
    ASSUME NEW f, NEW t, NEW sv, NEW y
    PROVE  /\ procs' = Becomes(1, f, t, sv) => Continues(f, t, sv)
           /\ procs' = Append(Becomes(1, f, t, sv), y) => Continues(f, t, sv)
           /\ procs' = DoesWith(1, f, t) => Continues(f, t, procs[1].saved)
           /\ procs' = Append(DoesWith(1, f, t), y) => Continues(f, t, procs[1].saved)
           /\ procs' = Does(1, t) => Continues(procs[1].fds, t, procs[1].saved)
           /\ procs' = Append(Does(1, t), y) => Continues(procs[1].fds, t, procs[1].saved)
<1>1. ASSUME NEW v
      PROVE  /\ procs' = Becomes(1, f, t, v) => Continues(f, t, v)
             /\ procs' = Append(Becomes(1, f, t, v), y) => Continues(f, t, v)
  BY DEF Becomes, Continues, Changes
<1>2. ASSUME NEW g, NEW v
      PROVE  /\ procs' = Becomes(1, g, t, v) => Continues(g, t, v)
             /\ procs' = Append(Becomes(1, g, t, v), y) => Continues(g, t, v)
  BY DEF Becomes, Continues, Changes
<1> QED BY <1>1, <1>2 DEF DoesWith, Does

\* The command that is run next is one of a script.
LEMMA NextCommand ==
    ASSUME NEW s, NEW fds, NEW saved, TodoOK(s, fds, saved), s # <<>>, s[1].task = "command", Len(s[1].stages) = 1
    PROVE  LET c == s[1].stages[1]
           IN  /\ Runs(c.run) /\ c.redirs \in Seq(Range(c.redirs))
               /\ \A k \in DOMAIN c.redirs : Redirection(c.redirs[k])
<1>1. PICK sc \in Scripts : s[1].stages \in Range(sc)
  BY FirstTask DEF TaskOK
<1> DEFINE stages == s[1].stages
           c == stages[1]
<1>2. stages \in Seq(Range(stages)) /\ Len(stages) = 1
  BY <1>1, DescriptorsAssumption
<1> HIDE DEF stages
<1>3. c \in Range(stages)
  <2>1. 1 \in DOMAIN stages
    BY <1>2, RangeSeq
  <2> QED BY <2>1, RangeSeq, <1>2
<1>4. stages \in Range(sc)
  BY <1>1 DEF stages
<1> HIDE DEF c
<1>5. Runs(c.run) /\ c.redirs \in Seq(Range(c.redirs)) /\ \A r \in Range(c.redirs) : Redirection(r)
  BY <1>3, <1>4, DescriptorsAssumption
<1>6. \A k \in DOMAIN c.redirs : Redirection(c.redirs[k])
  BY <1>5, RangeSeq
<1> QED BY <1>5, <1>6 DEF c, stages

\* A builtin whose redirections are undone as they should be goes on with the first of them.
LEMMA BuiltinKeeps ==
    ASSUME NEW s, NEW fds, NEW saved, TodoOK(s, fds, saved), s # <<>>, s[1].task = "command",
           NEW redirs, redirs \in Seq(Range(redirs)), \A k \in DOMAIN redirs : Redirection(redirs[k]),
           ~Entangled(redirs), NEW run, Runs(run)
    PROVE  TodoOK(<<Redirect(redirs, TRUE, None), run, Restore>> \o Tail(s), fds, saved)
<1> DEFINE a == Redirect(redirs, TRUE, None)
           t == <<a, run, Restore>> \o Tail(s)
<1>1. /\ s \in Seq(Range(s)) /\ Len(s) \in Nat /\ DOMAIN s = 1 .. Len(s) /\ 1 \in DOMAIN s /\ saved = <<>>
      /\ \A k \in DOMAIN s : k > 1 => s[k].task = "command"
  BY FirstTask
<1>2. a.task = "redirect" /\ a.builtin = TRUE /\ a.fd = None /\ a.left = redirs
  BY DEF Redirect
<1>3. run.task \in {"write", "cat"} /\ (run.task = "write" => run.fd \in Fd)
  BY DEF Runs
<1>4. Restore.task = "restore"
  BY DEF Restore
<1> HIDE DEF a
<1>5. Behind(t, 3, s, 1) /\ t[1] = a /\ t[2] = run /\ t[3] = Restore
  <2>1. Shapes(s, a, run, Restore)
    BY <1>1, TodoShapes
  <2> QED BY <2>1 DEF Shapes
<1> HIDE DEF t
<1>6. /\ DOMAIN t = 1 .. 3 + (Len(s) - 1) /\ \A k \in DOMAIN t : k > 3 => (k - 3) + 1 \in DOMAIN s /\ t[k] = s[(k - 3) + 1]
  BY <1>5 DEF Behind
<1>7. \A k \in DOMAIN t : k > 3 => t[k].task = "command"
  BY <1>1, <1>6
<1>8. 1 \in DOMAIN t /\ 2 \in DOMAIN t /\ 3 \in DOMAIN t
  BY <1>1, <1>6
<1>9. TaskOK(a, fds, saved)
  <2>1. \A k \in DOMAIN redirs : redirs[k].to \in 0 .. 2
    <3>1. \A k \in DOMAIN redirs : redirs[k].to \in Fd /\ ~(redirs[k].to > 2)
      BY DEF Redirection, Entangled
    <3>2. \A d \in Fd : ~(d > 2) => d \in 0 .. 2
      BY DescriptorsAssumption DEF Fd
    <3> QED BY <3>1, <3>2
  <2>2. \A j, k \in DOMAIN redirs : redirs[j].to = redirs[k].to => j = k
    BY DEF Entangled
  <2>3. DOMAIN saved = {}
    BY <1>1
  <2> QED BY <1>2, <2>1, <2>2, <2>3 DEF TaskOK
<1>10. TaskOK(run, fds, saved) /\ TaskOK(Restore, fds, saved)
  BY <1>3, <1>4 DEF TaskOK
<1>11. FollowsOK(t, 1)
  BY <1>2, <1>3, <1>4, <1>5, <1>8 DEF FollowsOK
<1>12. FollowsOK(t, 2)
  BY <1>3, <1>4, <1>5, <1>8 DEF FollowsOK
<1>13. FollowsOK(t, 3)
  BY <1>4, <1>5, <1>7 DEF FollowsOK
<1>14. \A j \in DOMAIN t : j <= 3 => j = 1 \/ j = 2 \/ j = 3
  BY <1>1, <1>6
<1>15. \A j \in DOMAIN t : j <= 3 => TaskOK(t[j], fds, saved) /\ FollowsOK(t, j)
  BY <1>5, <1>9, <1>10, <1>11, <1>12, <1>13, <1>14
<1>16. TodoOK(t, fds, saved)
  <2>1. Unaffected(s, 1, fds, saved, fds, saved)
    BY DEF Unaffected
  <2> QED BY <1>1, <1>5, <1>15, <2>1, RestKept
<1> QED BY <1>16 DEF t, a

\* run_builtin keeps the shell as it should be, unless its redirections spoil it.
LEMMA RunBuiltin ==
    ASSUME Inv, ~spoilt', run_builtin(1)
    PROVE  ShellOK(procs'[1], Len(pipes'))
<1> DEFINE s == procs[1].todo
           c == s[1].stages[1]
<1>1. s # <<>> /\ s[1].task = "command" /\ Len(s[1].stages) = 1 /\ pipes' = pipes
      /\ procs' = Does(1, <<Redirect(c.redirs, TRUE, None), c.run, Restore>> \o Tail(s))
      /\ spoilt' = (spoilt \/ Entangled(c.redirs))
  BY DEF run_builtin, Doing, Now, Rest
<1>2. ~spoilt /\ ~Entangled(c.redirs)
  BY <1>1
<1>3. ShellIs(procs[1].fds, s, procs[1].saved)
  BY <1>2, Shell
<1>4. TodoOK(s, procs[1].fds, procs[1].saved) /\ FdsOK(procs[1].fds, procs[1].saved, Len(pipes'))
  BY <1>1, <1>3 DEF ShellIs
<1>5. Continues(procs[1].fds, <<Redirect(c.redirs, TRUE, None), c.run, Restore>> \o Tail(s), procs[1].saved)
  BY <1>1, ShellBecomes
<1>6. Runs(c.run) /\ c.redirs \in Seq(Range(c.redirs)) /\ \A k \in DOMAIN c.redirs : Redirection(c.redirs[k])
  BY <1>1, <1>4, NextCommand
<1> HIDE DEF c, s
<1>7. TodoOK(<<Redirect(c.redirs, TRUE, None), c.run, Restore>> \o Tail(s), procs[1].fds, procs[1].saved)
  BY <1>1, <1>2, <1>4, <1>6, BuiltinKeeps
<1> QED BY <1>4, <1>5, <1>7, ShellContinues

LEMMA RunProcess ==
    ASSUME Inv, ~spoilt', run_process(1)
    PROVE  ShellOK(procs'[1], Len(pipes'))
<1> DEFINE s == procs[1].todo
           a == Wait({Len(procs) + 1})
<1>1. /\ s # <<>> /\ s[1].task = "command" /\ pipes' = pipes /\ ~spoilt
      /\ \/ \E y : procs' = Append(Does(1, <<a>> \o Tail(s)), y)
         \/ procs' = Does(1, Tail(s))
  BY DEF run_process, Doing, Now, Rest
<1>2. ShellIs(procs[1].fds, s, procs[1].saved)
  BY <1>1, Shell
<1>3. TodoOK(s, procs[1].fds, procs[1].saved) /\ FdsOK(procs[1].fds, procs[1].saved, Len(pipes'))
  BY <1>1, <1>2 DEF ShellIs
<1>4. Continues(procs[1].fds, <<a>> \o Tail(s), procs[1].saved) \/ Continues(procs[1].fds, Tail(s), procs[1].saved)
  BY <1>1, ShellBecomes
<1>5. a.task = "wait" /\ TaskOK(a, procs[1].fds, procs[1].saved)
  BY DEF Wait, TaskOK
<1> HIDE DEF s, a
<1>6. TodoOK(Tail(s), procs[1].fds, procs[1].saved) /\ TodoOK(<<a>> \o Tail(s), procs[1].fds, procs[1].saved)
  BY <1>1, <1>3, <1>5, OutsideKeeps
<1> QED BY <1>3, <1>4, <1>6, ShellContinues

LEMMA RunPipeline ==
    ASSUME Inv, ~spoilt', run_pipeline(1)
    PROVE  ShellOK(procs'[1], Len(pipes'))
<1> DEFINE s == procs[1].todo
           a == Stage(s[1].stages, None, {})
<1>1. s # <<>> /\ s[1].task = "command" /\ pipes' = pipes /\ ~spoilt /\ procs' = Does(1, <<a>> \o Tail(s))
  BY DEF run_pipeline, Doing, Now, Rest
<1>2. ShellIs(procs[1].fds, s, procs[1].saved)
  BY <1>1, Shell
<1>3. TodoOK(s, procs[1].fds, procs[1].saved) /\ FdsOK(procs[1].fds, procs[1].saved, Len(pipes'))
  BY <1>1, <1>2 DEF ShellIs
<1>4. Continues(procs[1].fds, <<a>> \o Tail(s), procs[1].saved)
  BY <1>1, ShellBecomes
<1>5. a.task = "stage" /\ TaskOK(a, procs[1].fds, procs[1].saved)
  BY DEF Stage, TaskOK
<1> HIDE DEF s, a
<1>6. TodoOK(<<a>> \o Tail(s), procs[1].fds, procs[1].saved)
  BY <1>1, <1>3, <1>5, OutsideKeeps
<1> QED BY <1>3, <1>4, <1>6, ShellContinues

LEMMA JobWaitProcess ==
    ASSUME Inv, ~spoilt', job_wait_process(1)
    PROVE  ShellOK(procs'[1], Len(pipes'))
<1> DEFINE s == procs[1].todo
<1>1. s # <<>> /\ s[1].task = "wait" /\ pipes' = pipes /\ ~spoilt /\ procs' = Does(1, Tail(s))
  BY DEF job_wait_process, Doing, Now, Rest
<1>2. ShellIs(procs[1].fds, s, procs[1].saved)
  BY <1>1, Shell
<1>3. TodoOK(s, procs[1].fds, procs[1].saved) /\ FdsOK(procs[1].fds, procs[1].saved, Len(pipes'))
  BY <1>1, <1>2 DEF ShellIs
<1>4. Continues(procs[1].fds, Tail(s), procs[1].saved)
  BY <1>1, ShellBecomes
<1> HIDE DEF s
<1>5. TodoOK(Tail(s), procs[1].fds, procs[1].saved)
  BY <1>1, <1>3, PopKeeps
<1> QED BY <1>3, <1>4, <1>5, ShellContinues

\* A round of the loop that puts the saved descriptors back.
LEMMA Restores ==
    ASSUME Inv, ~spoilt', RestoreDescriptors(1)
    PROVE  ShellOK(procs'[1], Len(pipes'))
<1> DEFINE s == procs[1].todo
           saved == procs[1].saved
           back == Close(dup2(procs[1].fds, saved[1].dup_fd, saved[1].redir_fd), {saved[1].dup_fd})
<1>1. /\ s # <<>> /\ s[1].task = "restore" /\ pipes' = pipes /\ ~spoilt
      /\ \/ saved = <<>> /\ procs' = Does(1, Tail(s))
         \/ saved # <<>> /\ procs' = Becomes(1, back, s, Tail(saved))
  BY DEF RestoreDescriptors, Doing, Now, Rest, Unrestored
<1>2. ShellIs(procs[1].fds, s, saved)
  BY <1>1, Shell
<1>3. TodoOK(s, procs[1].fds, saved) /\ FdsOK(procs[1].fds, saved, Len(pipes')) /\ Len(pipes') \in Nat
  BY <1>1, <1>2 DEF ShellIs
<1>4. CASE saved = <<>> /\ procs' = Does(1, Tail(s))
  <2>1. Continues(procs[1].fds, Tail(s), saved)
    BY <1>4, ShellBecomes
  <2> HIDE DEF s
  <2>2. TodoOK(Tail(s), procs[1].fds, saved)
    BY <1>1, <1>3, <1>4, PopKeeps
  <2> QED BY <1>3, <2>1, <2>2, ShellContinues
<1>5. CASE saved # <<>> /\ procs' = Becomes(1, back, s, Tail(saved))
  <2>1. Continues(back, s, Tail(saved))
    BY <1>5, ShellBecomes
  <2>2. FdsOK(back, Tail(saved), Len(pipes'))
    <3> HIDE DEF saved
    <3> QED BY <1>3, <1>5, RestoreKeeps DEF back
  <2> HIDE DEF s, back, saved
  <2>3. /\ s \in Seq(Range(s)) /\ DOMAIN s = 1 .. Len(s) /\ Len(s) \in Nat /\ 1 \in DOMAIN s
        /\ \A k \in DOMAIN s : k > 1 => s[k].task = "command"
    BY <1>1, <1>3, FirstTask
  <2>4. \A k \in DOMAIN s : s[k].task \in {"restore", "command"}
    BY <1>1, <2>3
  <2>5. \A k \in DOMAIN s : TaskOK(s[k], back, Tail(saved)) /\ FollowsOK(s, k)
    <3>1. ASSUME NEW k \in DOMAIN s PROVE TaskOK(s[k], back, Tail(saved)) /\ FollowsOK(s, k)
      <4>1. TaskOK(s[k], procs[1].fds, saved) /\ FollowsOK(s, k)
        BY <1>3 DEF TodoOK
      <4> QED BY <2>4, <4>1 DEF TaskOK
    <3> QED BY <3>1
  <2>6. ~Outside(s)
    BY <1>1 DEF Outside
  <2>7. TodoOK(s, back, Tail(saved))
    BY <2>3, <2>5, <2>6 DEF TodoOK
  <2> QED BY <2>1, <2>2, <2>7, ShellContinues
<1> QED BY <1>1, <1>4, <1>5

\* The length of what is in the pipes does not matter to how many there are.
LEMMA PipesKept ==
    ASSUME pipes \in Seq(Int), NEW x, NEW v, x \in DOMAIN pipes => v \in Int
    PROVE  [pipes EXCEPT ![x] = v] \in Seq(Int) /\ Len([pipes EXCEPT ![x] = v]) = Len(pipes)
<1> DEFINE new == [pipes EXCEPT ![x] = v]
<1>1. Len(pipes) \in Nat /\ pipes \in [1 .. Len(pipes) -> Int] /\ DOMAIN pipes = 1 .. Len(pipes)
  BY LenProperties
<1>2. new \in [1 .. Len(pipes) -> Int]
  <2>1. DOMAIN new = 1 .. Len(pipes) /\ new = [i \in DOMAIN new |-> new[i]]
    BY <1>1
  <2>2. \A i \in 1 .. Len(pipes) : new[i] = IF i = x THEN v ELSE pipes[i]
    BY <1>1
  <2>3. \A i \in 1 .. Len(pipes) : pipes[i] \in Int
    BY <1>1
  <2>4. \A i \in 1 .. Len(pipes) : new[i] \in Int
    BY <1>1, <2>2, <2>3
  <2> HIDE DEF new
  <2> QED BY <2>1, <2>4
<1> HIDE DEF new
<1>3. new \in Seq(Int) /\ Len(new) = Len(pipes)
  BY <1>1, <1>2, SMT
<1> QED BY <1>3 DEF new

\* A write that is not done, or that a program or a document starts with.
LEMMA WriteKeeps ==
    ASSUME NEW s, NEW fds, NEW saved, TodoOK(s, fds, saved), s # <<>>, NEW a, a.task = "write", a.fd \in Fd
    PROVE  /\ s[1].task = "write" => TodoOK(<<a>> \o Tail(s), fds, saved)
           /\ s[1].task \in {"cat", "document"} => TodoOK(<<a>> \o s, fds, saved)
<1>1. s \in Seq(Range(s)) /\ Len(s) \in Nat /\ DOMAIN s = 1 .. Len(s) /\ 1 \in DOMAIN s
  BY FirstTask
<1>2. TaskOK(a, fds, saved)
  BY DEF TaskOK
<1> Shapes(s, a, a, a)
  BY <1>1, TodoShapes
<1>3. ASSUME s[1].task = "write"
      PROVE  TodoOK(<<a>> \o Tail(s), fds, saved)
  <2> DEFINE t == <<a>> \o Tail(s)
  <2> HIDE DEF t
  <2>1. Behind(t, 1, s, 1) /\ t[1] = a
    BY DEF Shapes, t
  <2>2. DOMAIN t = 1 .. 1 + (Len(s) - 1) /\ \A k \in DOMAIN t : k > 1 => (k - 1) + 1 \in DOMAIN s /\ t[k] = s[(k - 1) + 1]
    BY <2>1 DEF Behind
  <2>3. Len(s) >= 2 /\ s[2].task \in {"document", "cat", "restore"}
    BY <1>3, FirstTask
  <2>4. 1 \in DOMAIN t /\ 2 \in DOMAIN t /\ t[2] = s[2]
    BY <1>1, <2>2, <2>3
  <2>5. FollowsOK(t, 1) /\ ~Outside(t)
    BY <2>1, <2>3, <2>4 DEF FollowsOK, Outside
  <2>6. \A j \in DOMAIN t : j <= 1 => TaskOK(t[j], fds, saved) /\ FollowsOK(t, j)
    <3>1. \A j \in DOMAIN t : j <= 1 => j = 1
      BY <1>1, <2>2
    <3> QED BY <1>2, <2>1, <2>5, <3>1
  <2>7. TodoOK(t, fds, saved)
    <3>1. Unaffected(s, 1, fds, saved, fds, saved)
      BY DEF Unaffected
    <3> QED BY <2>1, <2>5, <2>6, <3>1, RestKept
  <2> QED BY <2>7 DEF t
<1>4. ASSUME s[1].task \in {"cat", "document"}
      PROVE  TodoOK(<<a>> \o s, fds, saved)
  <2> DEFINE t == <<a>> \o s
  <2> HIDE DEF t
  <2>1. Behind(t, 1, s, 0) /\ t[1] = a
    BY DEF Shapes, t
  <2>2. DOMAIN t = 1 .. 1 + (Len(s) - 0) /\ \A k \in DOMAIN t : k > 1 => (k - 1) + 0 \in DOMAIN s /\ t[k] = s[(k - 1) + 0]
    BY <2>1 DEF Behind
  <2>3. Len(s) >= 1
    BY <1>1
  <2>4. 1 \in DOMAIN t /\ 2 \in DOMAIN t /\ (2 - 1) + 0 = 1
    BY <1>1, <2>2, <2>3
  <2>5. t[2] = s[1]
    BY <2>2, <2>4
  <2>6. FollowsOK(t, 1) /\ ~Outside(t)
    BY <1>4, <2>1, <2>4, <2>5 DEF FollowsOK, Outside
  <2>7. \A j \in DOMAIN t : j <= 1 => TaskOK(t[j], fds, saved) /\ FollowsOK(t, j)
    <3>1. \A j \in DOMAIN t : j <= 1 => j = 1
      BY <1>1, <2>2
    <3> QED BY <1>2, <2>1, <2>6, <3>1
  <2>8. TodoOK(t, fds, saved)
    <3>1. Unaffected(s, 0, fds, saved, fds, saved)
      BY DEF Unaffected
    <3> QED BY <2>1, <2>6, <2>7, <3>1, RestKept
  <2> QED BY <2>8 DEF t
<1> QED BY <1>3, <1>4

\* The redirection goes on behind a document, or the document with its next line.
LEMMA DocumentKeeps ==
    ASSUME NEW s, NEW fds, NEW saved, TodoOK(s, fds, saved), s # <<>>, s[1].task = "document",
           NEW fds2, NEW fd \in Fd \cup {Failed}, NEW b, b.task = "write", b.fd \in Fd,
           NEW c, c.task = "document", c.r = s[1].r, c.w = s[1].w
    PROVE  /\ TodoOK(<<Redirect(s[2].left, s[2].builtin, fd)>> \o SubSeq(s, 3, Len(s)), fds2, saved)
           /\ TodoOK(<<b, c>> \o Tail(s), fds, saved)
<1> DEFINE a == Redirect(s[2].left, s[2].builtin, fd)
<1>1. /\ s \in Seq(Range(s)) /\ Len(s) \in Nat /\ DOMAIN s = 1 .. Len(s) /\ 1 \in DOMAIN s
      /\ Len(s) >= 4 /\ s[2].task = "redirect" /\ s[3].task \in {"write", "cat"} /\ s[4].task = "restore"
      /\ \A k \in DOMAIN s : k > 4 => s[k].task = "command"
  BY FirstTask
<1>2. TaskOK(s[1], fds, saved) /\ TaskOK(s[2], fds, saved)
  BY FirstTask
<1>3. TaskOK(a, fds2, saved) /\ a.task = "redirect"
  <2>1. a.task = "redirect" /\ a.builtin = s[2].builtin /\ a.left = s[2].left /\ a.fd \in Fd \cup {None, Failed}
    BY DEF Redirect
  <2> HIDE DEF a
  <2> QED BY <1>1, <1>2, <2>1 DEF TaskOK
<1> HIDE DEF a
<1>4. TodoOK(<<a>> \o SubSeq(s, 3, Len(s)), fds2, saved)
  <2> DEFINE t == <<a>> \o SubSeq(s, 3, Len(s))
  <2>1. Behind(t, 1, s, 2) /\ t[1] = a
    <3>1. Shapes(s, a, a, a)
      BY <1>1, TodoShapes
    <3> QED BY <1>1, <3>1 DEF Shapes
  <2> HIDE DEF t
  <2>2. DOMAIN t = 1 .. 1 + (Len(s) - 2) /\ \A k \in DOMAIN t : k > 1 => (k - 1) + 2 \in DOMAIN s /\ t[k] = s[(k - 1) + 2]
    BY <2>1 DEF Behind
  <2>3. 1 \in DOMAIN t /\ 2 \in DOMAIN t /\ 3 \in DOMAIN t /\ (2 - 1) + 2 = 3 /\ (3 - 1) + 2 = 4
    BY <1>1, <2>2
  <2>4. t[2] = s[3] /\ t[3] = s[4]
    BY <2>2, <2>3
  <2>5. FollowsOK(t, 1) /\ ~Outside(t)
    BY <1>1, <1>3, <2>1, <2>3, <2>4 DEF FollowsOK, Outside
  <2>6. \A j \in DOMAIN t : j <= 1 => TaskOK(t[j], fds2, saved) /\ FollowsOK(t, j)
    <3>1. \A j \in DOMAIN t : j <= 1 => j = 1
      BY <1>1, <2>2
    <3> QED BY <1>3, <2>1, <2>5, <3>1
  <2>7. \A k \in DOMAIN s : k > 2 => s[k].task \in {"command", "restore", "write", "cat", "wait"}
    <3>1. \A k \in DOMAIN s : k > 2 => k = 3 \/ k = 4 \/ k > 4
      BY <1>1
    <3> QED BY <1>1, <3>1
  <2>8. TodoOK(t, fds2, saved)
    <3>1. Unaffected(s, 2, fds, saved, fds2, saved)
      BY <2>7 DEF Unaffected
    <3> QED BY <2>1, <2>5, <2>6, <3>1, RestKept
  <2> QED BY <2>8 DEF t
<1>5. TodoOK(<<b, c>> \o Tail(s), fds, saved)
  <2> DEFINE t == <<b, c>> \o Tail(s)
  <2>1. Behind(t, 2, s, 1) /\ t[1] = b /\ t[2] = c
    <3>1. Shapes(s, b, c, c)
      BY <1>1, TodoShapes
    <3> QED BY <3>1 DEF Shapes
  <2> HIDE DEF t
  <2>2. DOMAIN t = 1 .. 2 + (Len(s) - 1) /\ \A k \in DOMAIN t : k > 2 => (k - 2) + 1 \in DOMAIN s /\ t[k] = s[(k - 2) + 1]
    BY <2>1 DEF Behind
  <2>3. 1 \in DOMAIN t /\ 2 \in DOMAIN t /\ 3 \in DOMAIN t /\ (3 - 2) + 1 = 2
    BY <1>1, <2>2
  <2>4. t[3] = s[2]
    BY <2>2, <2>3
  <2>5. FollowsOK(t, 1) /\ ~Outside(t)
    BY <2>1, <2>3 DEF FollowsOK, Outside
  <2>6. FollowsOK(t, 2)
    BY <1>1, <2>1, <2>3, <2>4 DEF FollowsOK
  <2>7. TaskOK(b, fds, saved) /\ TaskOK(c, fds, saved)
    BY <1>2 DEF TaskOK
  <2>8. \A j \in DOMAIN t : j <= 2 => TaskOK(t[j], fds, saved) /\ FollowsOK(t, j)
    <3>1. \A j \in DOMAIN t : j <= 2 => j = 1 \/ j = 2
      BY <1>1, <2>2
    <3> QED BY <2>1, <2>5, <2>6, <2>7, <3>1
  <2>9. TodoOK(t, fds, saved)
    <3>1. Unaffected(s, 1, fds, saved, fds, saved)
      BY DEF Unaffected
    <3> QED BY <2>1, <2>5, <2>8, <3>1, RestKept
  <2> QED BY <2>9 DEF t
<1> QED BY <1>4, <1>5 DEF a

LEMMA CreateDocument ==
    ASSUME Inv, ~spoilt', create_here_document_fd(1)
    PROVE  ShellOK(procs'[1], Len(pipes'))
<1> DEFINE s == procs[1].todo
           fds == procs[1].fds
           saved == procs[1].saved
           n == s[1]
           Back(f, fd) == DoesWith(1, f, <<Redirect(s[2].left, s[2].builtin, fd)>> \o SubSeq(s, 3, Len(s)))
           b == WriteTo(n.w, n.lines[1])
           c == Document(Tail(n.lines), n.r, n.w)
<1>1. /\ s # <<>> /\ n.task = "document" /\ pipes' = pipes /\ ~spoilt
      /\ \/ procs' = Back(Close(fds, {n.w}), n.r)
         \/ procs' = Does(1, <<b, c>> \o Tail(s))
         \/ \E y : procs' = Append(Back(Close(fds, {n.w}), n.r), y)
         \/ procs' = Back(Close(fds, {n.r, n.w}), Failed)
  <2>1. Doing(1, "document") /\ UNCHANGED <<script, pipes>>
    BY DEF create_here_document_fd
  <2>2. s # <<>> /\ n.task = "document" /\ pipes' = pipes /\ Now(1) = n /\ Rest(1) = Tail(s)
    BY <2>1 DEF Doing, Now, Rest
  <2>3. \A f, fd : Returns(1, f, fd) = Back(f, fd)
    BY DEF Returns
  <2> HIDE DEF Back
  <2>4. \/ procs' = Returns(1, Close(fds, {n.w}), n.r) /\ UNCHANGED spoilt
        \/ procs' = Does(1, <<b, c>> \o Tail(s)) /\ UNCHANGED spoilt
        \/ procs' = Append(Returns(1, Close(fds, {n.w}), n.r),
                           Process(Close(fds, {n.r}), <<WriteTo(n.w, Total(n.lines))>>)) /\ UNCHANGED spoilt
        \/ procs' = Returns(1, Close(fds, {n.r, n.w}), Failed) /\ UNCHANGED spoilt
    <3> HIDE DEF s
    <3> QED BY <2>2, Zenon DEF create_here_document_fd
  <2> HIDE DEF s, fds, n, b, c
  <2>5. ~spoilt
    BY <2>4
  <2>6. \/ procs' = Back(Close(fds, {n.w}), n.r)
        \/ procs' = Does(1, <<b, c>> \o Tail(s))
        \/ procs' = Append(Back(Close(fds, {n.w}), n.r), Process(Close(fds, {n.r}), <<WriteTo(n.w, Total(n.lines))>>))
        \/ procs' = Back(Close(fds, {n.r, n.w}), Failed)
    BY <2>3, <2>4, Zenon
  <2> QED BY <2>2, <2>5, <2>6, Zenon
<1>2. ShellIs(fds, s, saved)
  BY <1>1, Shell
<1>3. TodoOK(s, fds, saved) /\ FdsOK(fds, saved, Len(pipes')) /\ Len(pipes') \in Nat
  BY <1>1, <1>2 DEF ShellIs
<1>4. TaskOK(n, fds, saved)
  BY <1>1, <1>3, FirstTask
<1>5. /\ n.r \in Fd /\ n.r > 2 /\ fds[n.r][1] = "r" /\ \A l \in Fd \ {n.w} : fds[l] # <<"w", fds[n.r][2]>>
      /\ n.w \in Fd /\ n.w > 2 /\ fds[n.w][1] = "w"
  <2> HIDE DEF n, fds
  <2>1. ReadsFrom(fds, n.r, n.w) /\ n.w \in Fd /\ n.w > 2 /\ fds[n.w] = <<"w", fds[n.r][2]>>
    BY <1>1, <1>4 DEF TaskOK
  <2>2. fds[n.w][1] = "w"
    BY <2>1
  <2> QED BY <2>1, <2>2 DEF ReadsFrom
<1>6. b.task = "write" /\ b.fd = n.w /\ c.task = "document" /\ c.r = n.r /\ c.w = n.w
  BY DEF WriteTo, Document
<1>7. ASSUME NEW f, NEW fd
      PROVE  /\ procs' = Back(f, fd) =>
                  Continues(f, <<Redirect(s[2].left, s[2].builtin, fd)>> \o SubSeq(s, 3, Len(s)), saved)
             /\ (\E y : procs' = Append(Back(f, fd), y)) =>
                  Continues(f, <<Redirect(s[2].left, s[2].builtin, fd)>> \o SubSeq(s, 3, Len(s)), saved)
  BY ShellBecomes
<1>8. procs' = Does(1, <<b, c>> \o Tail(s)) => Continues(fds, <<b, c>> \o Tail(s), saved)
  BY ShellBecomes
<1> HIDE DEF s, fds, saved, Back, b, c
<1>9. FdsOK(Close(fds, {n.w}), saved, Len(pipes'))
  <2>1. \A k \in {n.w} \cap Fd : k > 2 /\ fds[k][1] \in {"r", "w"}
    BY <1>5
  <2>2. \A k \in {n.w} \cap Fd : fds[k][1] = "r" => \A l \in Fd \ {n.w} : fds[l] # <<"w", fds[k][2]>>
    BY <1>5
  <2> HIDE DEF n
  <2>3. PipeEnds(fds, {n.w})
    BY <2>1, <2>2 DEF PipeEnds
  <2> QED BY <1>3, <2>3, CloseKeeps
<1>10. FdsOK(Close(fds, {n.r, n.w}), saved, Len(pipes'))
  <2>1. \A k \in {n.r, n.w} \cap Fd : k > 2 /\ fds[k][1] \in {"r", "w"}
    BY <1>5
  <2>2. \A k \in {n.r, n.w} \cap Fd : fds[k][1] = "r" => \A l \in Fd \ {n.r, n.w} : fds[l] # <<"w", fds[k][2]>>
    BY <1>5
  <2> HIDE DEF n
  <2>3. PipeEnds(fds, {n.r, n.w})
    BY <2>1, <2>2 DEF PipeEnds
  <2> QED BY <1>3, <2>3, CloseKeeps
<1>11. \A f : \A fd \in Fd \cup {Failed} :
          TodoOK(<<Redirect(s[2].left, s[2].builtin, fd)>> \o SubSeq(s, 3, Len(s)), f, saved)
  BY <1>1, <1>3, <1>5, <1>6, DocumentKeeps
<1>12. TodoOK(<<b, c>> \o Tail(s), fds, saved)
  BY <1>1, <1>3, <1>5, <1>6, DocumentKeeps
<1>13. ASSUME NEW f, NEW fd \in Fd \cup {Failed}, FdsOK(f, saved, Len(pipes')),
              procs' = Back(f, fd) \/ \E y : procs' = Append(Back(f, fd), y)
       PROVE  ShellOK(procs'[1], Len(pipes'))
  BY <1>7, <1>11, <1>13, ShellContinues
<1>14. CASE procs' = Does(1, <<b, c>> \o Tail(s))
  BY <1>3, <1>8, <1>12, <1>14, ShellContinues
<1> QED BY <1>1, <1>5, <1>9, <1>10, <1>13, <1>14

\* The shell is not ended by SIGPIPE: it holds an end to read of what it can write to.
LEMMA Writes ==
    ASSUME Inv, ~spoilt', Write(1)
    PROVE  ShellOK(procs'[1], Len(pipes'))
<1> DEFINE s == procs[1].todo
           fds == procs[1].fds
           saved == procs[1].saved
           n == s[1]
           o == fds[n.fd]
           a == WriteTo(n.fd, n.len - 1)
<1>1. Doing(1, "write") /\ UNCHANGED <<script, faults, spoilt>>
  BY DEF Write
<1>2. s # <<>> /\ n.task = "write" /\ Now(1) = n /\ Rest(1) = Tail(s) /\ ~spoilt
  BY <1>1 DEF Doing, Now, Rest
<1>3. ShellIs(fds, s, saved)
  BY <1>2, Shell
<1>4. TodoOK(s, fds, saved) /\ FdsOK(fds, saved, Len(pipes)) /\ Len(pipes) \in Nat
  BY <1>3 DEF ShellIs
<1>5. n.fd \in Fd
  BY <1>2, <1>4, FirstTask DEF TaskOK
<1>6. o[1] = "w" => o[2] \in 1 .. Len(pipes) /\ Held("r", o[2])
  <2>1. SUFFICES ASSUME o[1] = "w" PROVE o[2] \in 1 .. Len(pipes) /\ Held("r", o[2])
    OBVIOUS
  <2>2. o[2] \in 1 .. Len(pipes) /\ \E l \in Fd : fds[l] = <<"r", o[2]>>
    BY <1>4, <1>5, <2>1 DEF FdsOK
  <2>3. 1 \in DOMAIN procs
    BY RangeSeq, EmptySeq DEF Inv
  <2> QED BY <2>2, <2>3 DEF Held
<1>7. \/ procs' = Does(1, Tail(s)) /\ pipes' = pipes
      \/ procs' = Ends(procs, 1) /\ o[1] = "w" /\ ~Held("r", o[2])
      \/ procs' = Does(1, <<a>> \o Tail(s)) /\ o[1] = "w" /\ pipes' = [pipes EXCEPT ![o[2]] = @ + 1]
  <2> HIDE DEF s
  <2> QED BY <1>2, Zenon DEF Write
<1>8. \/ Continues(fds, Tail(s), saved) /\ pipes' = pipes
      \/ Continues(fds, <<a>> \o Tail(s), saved) /\ Len(pipes') = Len(pipes)
  <2>1. CASE procs' = Does(1, Tail(s)) /\ pipes' = pipes
    BY <2>1, ShellBecomes
  <2>2. CASE procs' = Does(1, <<a>> \o Tail(s)) /\ o[1] = "w" /\ pipes' = [pipes EXCEPT ![o[2]] = @ + 1]
    <3>1. pipes \in Seq(Int) /\ DOMAIN pipes = 1 .. Len(pipes)
      BY LenProperties DEF Inv
    <3>2. pipes[o[2]] \in Int
      BY <1>6, <2>2, <3>1, ElementOfSeq
    <3>3. pipes[o[2]] + 1 \in Int
      BY <3>2
    <3> HIDE DEF o
    <3>4. Len(pipes') = Len(pipes)
      BY <2>2, <3>1, <3>3, PipesKept
    <3>5. Continues(fds, <<a>> \o Tail(s), saved)
      BY <2>2, ShellBecomes
    <3> QED BY <3>4, <3>5
  <2> QED BY <1>6, <1>7, <2>1, <2>2
<1>9. a.task = "write" /\ a.fd = n.fd
  BY DEF WriteTo
<1> HIDE DEF a, s, fds, saved
<1>10. TodoOK(Tail(s), fds, saved) /\ TodoOK(<<a>> \o Tail(s), fds, saved)
  BY <1>2, <1>4, <1>5, <1>9, PopKeeps, WriteKeeps
<1> QED BY <1>4, <1>8, <1>10, ShellContinues

LEMMA Cats ==
    ASSUME Inv, ~spoilt', Cat(1)
    PROVE  ShellOK(procs'[1], Len(pipes'))
<1> DEFINE s == procs[1].todo
           fds == procs[1].fds
           saved == procs[1].saved
           o == fds[0]
           a == WriteTo(1, 1)
<1>1. Doing(1, "cat") /\ UNCHANGED <<script, faults, spoilt>>
  BY DEF Cat
<1>2. s # <<>> /\ s[1].task = "cat" /\ Rest(1) = Tail(s) /\ ~spoilt
  BY <1>1 DEF Doing, Now, Rest
<1>3. ShellIs(fds, s, saved)
  BY <1>2, Shell
<1>4. TodoOK(s, fds, saved) /\ FdsOK(fds, saved, Len(pipes)) /\ Len(pipes) \in Nat
  BY <1>3 DEF ShellIs
<1>5. \/ procs' = Does(1, Tail(s)) /\ pipes' = pipes
      \/ procs' = Does(1, <<a>> \o s) /\ o[1] = "r" /\ pipes' = [pipes EXCEPT ![o[2]] = @ - 1]
  <2> HIDE DEF s
  <2> QED BY <1>2, Zenon DEF Cat, s
<1>6. o[1] = "r" => o[2] \in 1 .. Len(pipes)
  <2>1. 0 \in Fd
    BY StandardDiffer
  <2> QED BY <1>4, <2>1 DEF FdsOK
<1>7. (Continues(fds, Tail(s), saved) \/ Continues(fds, <<a>> \o s, saved)) /\ Len(pipes') = Len(pipes)
  <2>1. CASE procs' = Does(1, Tail(s)) /\ pipes' = pipes
    BY <2>1, ShellBecomes
  <2>2. CASE procs' = Does(1, <<a>> \o s) /\ o[1] = "r" /\ pipes' = [pipes EXCEPT ![o[2]] = @ - 1]
    <3>1. pipes \in Seq(Int) /\ DOMAIN pipes = 1 .. Len(pipes)
      BY LenProperties DEF Inv
    <3>2. pipes[o[2]] \in Int
      BY <1>6, <2>2, <3>1, ElementOfSeq
    <3>3. pipes[o[2]] - 1 \in Int
      BY <3>2
    <3> HIDE DEF o
    <3>4. Len(pipes') = Len(pipes)
      BY <2>2, <3>1, <3>3, PipesKept
    <3>5. Continues(fds, <<a>> \o s, saved)
      BY <2>2, ShellBecomes
    <3> QED BY <3>4, <3>5
  <2> QED BY <1>5, <2>1, <2>2
<1>8. a.task = "write" /\ a.fd \in Fd
  <2>1. 1 \in Fd
    BY StandardDiffer
  <2> QED BY <2>1 DEF WriteTo
<1> HIDE DEF a, s, fds, saved
<1>9. TodoOK(Tail(s), fds, saved) /\ TodoOK(<<a>> \o s, fds, saved)
  BY <1>2, <1>4, <1>8, PopKeeps, WriteKeeps
<1> QED BY <1>4, <1>7, <1>9, ShellContinues

LEMMA FreeFinite ==
    ASSUME NEW fds
    PROVE  IsFiniteSet(Free(fds)) /\ Cardinality(Free(fds)) \in Nat
<1>1. 0 \in Int /\ MaxFd \in Int
  BY DescriptorsAssumption
<1>2. IsFiniteSet(0 .. MaxFd)
  BY <1>1, FS_Interval
<1>3. Free(fds) \subseteq 0 .. MaxFd
  BY DEF Free, Fd
<1>4. IsFiniteSet(Free(fds))
  BY <1>2, <1>3, FS_Subset
<1> QED BY <1>4, FS_CardinalityType

\* Two descriptors are free: one still is when the other has been taken.
LEMMA TwoFree ==
    ASSUME NEW fds \in [Fd -> Thing], Cardinality(Free(fds)) >= 2, NEW o
    PROVE  Free(fds) # {} /\ Free(Open(fds, o)) # {}
<1>1. IsFiniteSet(Free(fds))
  BY FreeFinite
<1>2. Free(fds) # {}
  <2>1. SUFFICES ASSUME Free(fds) = {} PROVE FALSE
    OBVIOUS
  <2>2. Cardinality(Free(fds)) = 0
    BY <2>1, FS_EmptySet
  <2> QED BY <2>2
<1>3. Lowest(fds) \in Free(fds)
  BY <1>2, LowestFree
<1>4. Cardinality(Free(fds) \ {Lowest(fds)}) = Cardinality(Free(fds)) - 1 /\ IsFiniteSet(Free(fds) \ {Lowest(fds)})
  BY <1>1, <1>3, FS_RemoveElement
<1>5. Free(fds) \ {Lowest(fds)} # {}
  <2>1. SUFFICES ASSUME Free(fds) \ {Lowest(fds)} = {} PROVE FALSE
    OBVIOUS
  <2>2. Cardinality(Free(fds) \ {Lowest(fds)}) = 0
    BY <2>1, FS_EmptySet
  <2>3. Cardinality(Free(fds)) \in Nat
    BY <1>1, FS_CardinalityType
  <2> QED BY <1>4, <2>2, <2>3
<1>6. PICK k \in Free(fds) : k # Lowest(fds)
  BY <1>5
<1> DEFINE new == Open(fds, o)
<1>7. k \in Fd /\ fds[k] = Closed /\ new = [fds EXCEPT ![Lowest(fds)] = o]
  BY <1>6 DEF Free, Open
<1>8. new[k] = Closed
  BY <1>6, <1>7
<1> HIDE DEF new
<1>9. k \in Free(new)
  BY <1>7, <1>8 DEF Free
<1> QED BY <1>2, <1>9 DEF new

\* The shell makes a pipe.
Piped(fds, n) == Open(Open(fds, <<"r", n + 1>>), <<"w", n + 1>>)
ReadEnd(fds, n) == Lowest(fds)
WriteEnd(fds, n) == Lowest(Open(fds, <<"r", n + 1>>))

LEMMA PipeOpens ==
    ASSUME NEW fds, NEW saved, NEW n \in Nat, FdsOK(fds, saved, n), Cardinality(Free(fds)) >= 2
    PROVE  /\ FdsOK(Piped(fds, n), saved, n + 1)
           /\ ReadsFrom(Piped(fds, n), ReadEnd(fds, n), WriteEnd(fds, n))
           /\ Piped(fds, n)[ReadEnd(fds, n)] = <<"r", n + 1>>
           /\ WriteEnd(fds, n) \in Fd /\ WriteEnd(fds, n) > 2 /\ Piped(fds, n)[WriteEnd(fds, n)] = <<"w", n + 1>>
           /\ WriteEnd(fds, n) # ReadEnd(fds, n) /\ fds[ReadEnd(fds, n)] = Closed
           /\ \A k : ReadsFrom(fds, k, None) => ReadsFrom(Piped(fds, n), k, None)
<1> DEFINE r == Lowest(fds)
           pr == <<"r", n + 1>>
           pw == <<"w", n + 1>>
           read == Open(fds, pr)
           w == Lowest(read)
           both == Open(read, pw)
<1>1. fds \in [Fd -> Thing]
  BY DEF FdsOK
<1>2. Free(fds) # {} /\ Free(read) # {}
  BY <1>1, TwoFree
<1>3. pr[1] = "r" /\ pr[2] = n + 1 /\ pw[1] = "w" /\ pw[2] = n + 1 /\ pr \in Thing /\ pw \in Thing /\ n + 1 \in 1 .. n + 1
      /\ Closed[1] = "closed"
  BY DEF Thing, Closed
<1>4. Opens(fds, pr, n + 1)
  BY <1>3 DEF Opens
<1>5. /\ r \in Fd /\ r > 2 /\ fds[r] = Closed
      /\ FdsOK(read, saved, n + 1) /\ read[r] = pr
      /\ \A k \in Fd : k # r => read[k] = fds[k]
  <2> HIDE DEF pr
  <2>1. n + 1 \in Nat /\ n <= n + 1
    OBVIOUS
  <2> QED BY <1>2, <1>4, <2>1, OpenKeeps
<1> HIDE DEF r, read
<1>6. Opens(read, pw, n + 1)
  BY <1>3, <1>5 DEF Opens
<1>7. /\ w \in Fd /\ w > 2 /\ read[w] = Closed
      /\ FdsOK(both, saved, n + 1) /\ both[w] = pw
      /\ \A k \in Fd : k # w => both[k] = read[k]
  <2> HIDE DEF pw
  <2>1. n + 1 \in Nat /\ n + 1 <= n + 1
    OBVIOUS
  <2> QED BY <1>2, <1>5, <1>6, <2>1, OpenKeeps
<1> HIDE DEF w, both, pr, pw
<1>8. r # w
  BY <1>3, <1>5, <1>7
<1>9. both[r] = pr
  BY <1>5, <1>7, <1>8
<1>10. \A l \in Fd : fds[l][1] \in {"r", "w"} => fds[l][2] \in 1 .. n
  BY DEF FdsOK
<1>11. \A l \in Fd \ {w} : both[l] # pw
  <2>1. \A l \in Fd : fds[l] = pw => FALSE
    BY <1>3, <1>10
  <2> QED BY <1>3, <1>5, <1>7, <2>1
<1>12. pw = <<"w", both[r][2]>>
  BY <1>3, <1>9 DEF pw
<1>13. ReadsFrom(both, r, w)
  BY <1>3, <1>5, <1>9, <1>11, <1>12 DEF ReadsFrom
<1>14. ASSUME NEW k, ReadsFrom(fds, k, None)
       PROVE  ReadsFrom(both, k, None)
  <2>1. k \in Fd /\ k > 2 /\ fds[k][1] = "r" /\ \A l \in Fd \ {None} : fds[l] # <<"w", fds[k][2]>>
    BY <1>14 DEF ReadsFrom
  <2>2. k # r /\ k # w
    <3>1. fds[k] # Closed
      BY <1>3, <2>1
    <3>2. k # r
      BY <1>5, <3>1
    <3> QED BY <1>5, <1>7, <2>1, <3>1, <3>2
  <2>3. both[k] = fds[k]
    BY <1>5, <1>7, <2>1, <2>2
  <2>4. fds[k][2] \in 1 .. n /\ n + 1 # fds[k][2]
    BY <1>10, <2>1
  <2>5. \A l \in Fd \ {None} : both[l] # <<"w", fds[k][2]>>
    <3>1. pw # <<"w", fds[k][2]>> /\ pr # <<"w", fds[k][2]>>
      BY <1>3, <2>4
    <3> QED BY <1>5, <1>7, <1>9, <2>1, <3>1
  <2> QED BY <2>1, <2>3, <2>5 DEF ReadsFrom
<1> QED BY <1>5, <1>7, <1>8, <1>9, <1>13, <1>14 DEF r, w, read, both, pr, pw, Piped, ReadEnd, WriteEnd

\* A round of the loop of run_pipeline.
LEMMA StageKeeps ==
    ASSUME Inv, ~spoilt', PipelineStage(1)
    PROVE  ShellOK(procs'[1], Len(pipes'))
<1> DEFINE s == procs[1].todo
           fds == procs[1].fds
           saved == procs[1].saved
           n == s[1]
           last == Len(n.left) = 1
           pipe == Len(pipes) + 1
           room == last \/ Cardinality(Free(fds)) >= 2
           read == Open(fds, <<"r", pipe>>)
           both == IF last THEN fds ELSE Open(read, <<"w", pipe>>)
           next_stdin == IF last THEN None ELSE Lowest(fds)
           cur_stdout == IF last THEN None ELSE Lowest(read)
           pids == n.pids \cup {Len(procs) + 1}
           a == IF last THEN Wait(pids) ELSE Stage(Tail(n.left), next_stdin, pids)
           new == ParentEnds(both, n.cur_stdin, cur_stdout)
           more == IF last THEN pipes ELSE Append(pipes, 0)
           child == Process(ChildEnds(both, n.cur_stdin, next_stdin, cur_stdout), <<Command(<<n.left[1]>>)>>)
<1>1. Doing(1, "stage") /\ UNCHANGED <<script, spoilt>>
  BY DEF PipelineStage
<1>2. s # <<>> /\ n.task = "stage" /\ Now(1) = n /\ Rest(1) = Tail(s) /\ ~spoilt
  BY <1>1 DEF Doing, Now, Rest
<1>3. ShellIs(fds, s, saved)
  BY <1>2, Shell
<1>4. TodoOK(s, fds, saved) /\ FdsOK(fds, saved, Len(pipes)) /\ Len(pipes) \in Nat
  BY <1>3 DEF ShellIs
<1>5. \/ room /\ pipes' = more /\ procs' = Append(DoesWith(1, new, <<a>> \o Tail(s)), child)
      \/ pipes' = pipes /\ procs' = Does(1, Tail(s))
      \/ room /\ pipes' = more /\ procs' = DoesWith(1, both, Tail(s))
  <2> HIDE DEF s
  <2> QED BY <1>2, Zenon DEF PipelineStage
<1>6. \/ room /\ pipes' = more /\ Continues(new, <<a>> \o Tail(s), saved)
      \/ pipes' = pipes /\ Continues(fds, Tail(s), saved)
      \/ room /\ pipes' = more /\ Continues(both, Tail(s), saved)
  <2> HIDE DEF a, new, both, child, room, more
  <2>1. procs' = Append(DoesWith(1, new, <<a>> \o Tail(s)), child) => Continues(new, <<a>> \o Tail(s), saved)
    BY ShellBecomes
  <2>2. procs' = Does(1, Tail(s)) => Continues(fds, Tail(s), saved)
    BY ShellBecomes
  <2>3. procs' = DoesWith(1, both, Tail(s)) => Continues(both, Tail(s), saved)
    BY ShellBecomes
  <2> HIDE DEF s, fds, saved
  <2> QED BY <1>5, <2>1, <2>2, <2>3
<1>7. n.cur_stdin = None \/ ReadsFrom(fds, n.cur_stdin, None)
  <2>1. TaskOK(n, fds, saved)
    BY <1>2, <1>4, FirstTask
  <2> HIDE DEF n
  <2> QED BY <1>2, <2>1 DEF TaskOK
<1>8. None \notin Fd
  BY DescriptorsAssumption DEF None, Fd
<1>9. new = Close(both, {n.cur_stdin, cur_stdout})
  BY DEF ParentEnds
<1>10. last => a.task = "wait" /\ both = fds /\ cur_stdout = None /\ more = pipes
  BY DEF Wait
<1>11. ~last => /\ a.task = "stage" /\ a.cur_stdin = next_stdin
                /\ both = Piped(fds, Len(pipes)) /\ next_stdin = ReadEnd(fds, Len(pipes))
                /\ cur_stdout = WriteEnd(fds, Len(pipes)) /\ more = Append(pipes, 0)
  BY DEF Stage, Piped, ReadEnd, WriteEnd
<1>12. Len(more) = IF last THEN Len(pipes) ELSE Len(pipes) + 1
  <2>1. Len(Append(pipes, 0)) = Len(pipes) + 1
    BY AppendProperties DEF Inv
  <2> QED BY <1>10, <1>11, <2>1
<1> HIDE DEF s, fds, saved, new, a, both, next_stdin, cur_stdout, more, child, n
<1>13. ASSUME room
       PROVE  /\ FdsOK(both, saved, Len(more)) /\ FdsOK(new, saved, Len(more))
              /\ a.task \in {"stage", "wait"} /\ TaskOK(a, new, saved)
  <2>1. CASE last
    <3>1. FdsOK(both, saved, Len(more))
      BY <1>4, <1>10, <1>12, <2>1
    <3>2. \A k \in {n.cur_stdin, cur_stdout} \cap Fd : k > 2 /\ both[k][1] \in {"r", "w"}
      BY <1>7, <1>8, <1>10, <2>1 DEF ReadsFrom
    <3>3. \A k \in {n.cur_stdin, cur_stdout} \cap Fd :
              both[k][1] = "r" => \A l \in Fd \ {n.cur_stdin, cur_stdout} : both[l] # <<"w", both[k][2]>>
      BY <1>7, <1>8, <1>10, <2>1 DEF ReadsFrom
    <3>4. Len(more) \in Nat
      BY <1>4, <1>12, <2>1
    <3>5. FdsOK(new, saved, Len(more))
      <4>1. PipeEnds(both, {n.cur_stdin, cur_stdout})
        BY <3>2, <3>3 DEF PipeEnds
      <4> QED BY <1>9, <3>1, <3>4, <4>1, CloseKeeps
    <3> QED BY <1>10, <2>1, <3>1, <3>5 DEF TaskOK
  <2>2. CASE ~last
    <3> DEFINE piped == Piped(fds, Len(pipes))
               rd == ReadEnd(fds, Len(pipes))
               wr == WriteEnd(fds, Len(pipes))
    <3>1. Cardinality(Free(fds)) >= 2
      BY <1>13, <2>2
    <3>2. /\ FdsOK(piped, saved, Len(pipes) + 1) /\ ReadsFrom(piped, rd, wr)
          /\ wr \in Fd /\ wr > 2 /\ piped[wr] = <<"w", Len(pipes) + 1>>
          /\ piped[rd] = <<"r", Len(pipes) + 1>> /\ wr # rd /\ fds[rd] = Closed
          /\ \A k : ReadsFrom(fds, k, None) => ReadsFrom(piped, k, None)
      BY <1>4, <3>1, PipeOpens
    <3> HIDE DEF piped, rd, wr
    <3>3. both = piped /\ next_stdin = rd /\ cur_stdout = wr /\ Len(more) = Len(pipes) + 1 /\ Len(more) \in Nat
      BY <1>4, <1>11, <1>12, <2>2 DEF piped, rd, wr
    <3>4. FdsOK(both, saved, Len(more))
      BY <3>2, <3>3
    <3>5. n.cur_stdin = None \/ ReadsFrom(piped, n.cur_stdin, None)
      BY <1>7, <3>2
    <3> DEFINE S == {n.cur_stdin, wr}
    <3>6. piped[wr][1] = "w"
      BY <3>2
    <3>7. \A k \in S \cap Fd : k > 2 /\ piped[k][1] \in {"r", "w"}
      BY <1>8, <3>2, <3>5, <3>6 DEF ReadsFrom
    <3>8. \A k \in S \cap Fd : piped[k][1] = "r" => \A l \in Fd \ S : piped[l] # <<"w", piped[k][2]>>
      BY <1>8, <3>5, <3>6 DEF ReadsFrom
    <3>9. new = Close(piped, S)
      BY <1>9, <3>3
    <3>10. rd \in Fd /\ rd > 2 /\ piped[rd][1] = "r" /\ \A l \in Fd \ {wr} : piped[l] # <<"w", piped[rd][2]>>
      BY <3>2 DEF ReadsFrom
    <3>11. rd \notin S
      <4>1. n.cur_stdin = None \/ fds[n.cur_stdin][1] = "r"
        BY <1>7 DEF ReadsFrom
      <4>2. n.cur_stdin # rd
        BY <1>8, <3>2, <3>10, <4>1 DEF Closed
      <4> QED BY <3>2, <4>2
    <3>12. wr \in S
      OBVIOUS
    <3> HIDE DEF S
    <3>13. FdsOK(new, saved, Len(more)) /\ \A k \in Fd : new[k] = IF k \in S THEN Closed ELSE piped[k]
      <4>1. FdsOK(piped, saved, Len(more)) /\ Len(more) \in Nat
        BY <3>3, <3>4
      <4>2. /\ FdsOK(Close(piped, S), saved, Len(more))
            /\ \A k \in Fd : Close(piped, S)[k] = IF k \in S THEN Closed ELSE piped[k]
        <5>1. PipeEnds(piped, S)
          BY <3>7, <3>8 DEF PipeEnds
        <5> QED BY <4>1, <5>1, CloseKeeps
      <4> QED BY <3>9, <4>2
    <3>14. ReadsFrom(new, rd, None)
      <4>1. new[rd] = piped[rd] /\ new[wr] = Closed
        BY <3>2, <3>10, <3>11, <3>12, <3>13
      <4>2. \A l \in Fd \ {None} : new[l] # <<"w", new[rd][2]>>
        <5>1. \A x : Closed # <<"w", x>>
          BY DEF Closed
        <5>2. \A l \in Fd : l # wr => new[l] # <<"w", piped[rd][2]>>
          BY <3>10, <3>13, <5>1
        <5>3. new[wr] # <<"w", piped[rd][2]>>
          BY <4>1, <5>1
        <5> QED BY <4>1, <5>2, <5>3
      <4> QED BY <3>10, <4>1, <4>2 DEF ReadsFrom
    <3>15. a.task = "stage" /\ a.cur_stdin = rd
      BY <1>11, <2>2, <3>3
    <3>16. TaskOK(a, new, saved)
      BY <3>14, <3>15 DEF TaskOK
    <3> QED BY <3>4, <3>13, <3>15, <3>16
  <2> QED BY <2>1, <2>2
<1>14. n.task \in {"command", "stage", "wait"}
  BY <1>2
<1>15. \A f : TodoOK(Tail(s), f, saved)
  BY <1>2, <1>4, <1>14, OutsideKeeps DEF n
<1>16. a.task \in {"stage", "wait"} /\ TaskOK(a, new, saved) => TodoOK(<<a>> \o Tail(s), new, saved)
  BY <1>2, <1>4, <1>14, OutsideKeeps DEF n
<1>17. CASE room /\ pipes' = more /\ Continues(new, <<a>> \o Tail(s), saved)
  BY <1>13, <1>16, <1>17, ShellContinues
<1>18. CASE pipes' = pipes /\ Continues(fds, Tail(s), saved)
  BY <1>4, <1>15, <1>18, ShellContinues
<1>19. CASE room /\ pipes' = more /\ Continues(both, Tail(s), saved)
  BY <1>13, <1>15, <1>19, ShellContinues
<1> QED BY <1>6, <1>17, <1>18, <1>19

\* A redirection that fails leaves nothing saved, or spoils the shell.
LEMMA RedirectionFails ==
    ASSUME Inv, ~spoilt', procs[1].todo # <<>>, procs[1].todo[1].task = "redirect",
           NEW f, RedirectFails(1, f), FdsOK(f, procs[1].saved, Len(pipes'))
    PROVE  ShellOK(procs'[1], Len(pipes'))
<1> DEFINE s == procs[1].todo
           saved == procs[1].saved
<1>1. ~spoilt
  BY DEF RedirectFails
<1>2. ShellIs(procs[1].fds, s, saved)
  BY <1>1, Shell
<1>3. TodoOK(s, procs[1].fds, saved)
  BY <1>2 DEF ShellIs
<1>4. s[1].builtin
  BY <1>3, FirstTask DEF TaskOK
<1>5. procs' = Becomes(1, f, SubSeq(s, 4, Len(s)), <<>>) /\ saved = <<>>
  BY <1>4 DEF RedirectFails, Now
<1>6. Continues(f, SubSeq(s, 4, Len(s)), <<>>)
  BY <1>5, ShellBecomes
<1>7. TodoOK(SubSeq(s, 4, Len(s)), f, <<>>)
  <2> HIDE DEF s, saved
  <2> QED BY <1>3, RedirectKeeps DEF s
<1>8. FdsOK(f, <<>>, Len(pipes'))
  BY <1>5
<1> HIDE DEF s, saved
<1> QED BY <1>6, <1>7, <1>8, ShellContinues

\* The redirections that are left when the first is made.
LEMMA RedirectionsLeft ==
    ASSUME NEW t, NEW fds, NEW saved, TaskOK(t, fds, saved), t.task = "redirect", t.left # <<>>,
           NEW fds2, NEW Copy, saved \in Seq(Copy), NEW copy \in Copy, copy.redir_fd = t.left[1].to
    PROVE  /\ TaskOK(Redirect(Tail(t.left), t.builtin, None), fds2, saved)
           /\ TaskOK(Redirect(Tail(t.left), t.builtin, None), fds2, Append(saved, copy))
<1> DEFINE left == t.left
           rest == Tail(left)
           a == Redirect(rest, t.builtin, None)
           more == Append(saved, copy)
<1>1. /\ t.builtin /\ left \in Seq(Range(left)) /\ left # <<>>
      /\ \A j \in DOMAIN left : Redirection(left[j]) /\ left[j].to \in 0 .. 2
      /\ \A j, k \in DOMAIN left : left[j].to = left[k].to => j = k
      /\ \A j \in DOMAIN left, i \in DOMAIN saved : left[j].to # saved[i].redir_fd
  BY DEF TaskOK
<1>2. a.task = "redirect" /\ a.builtin = t.builtin /\ a.left = rest /\ a.fd = None
  BY DEF Redirect
<1> HIDE DEF left, a
<1>3. Len(left) \in Nat \ {0} /\ DOMAIN left = 1 .. Len(left)
  BY <1>1, EmptySeq, RangeSeq
<1>4. rest \in Seq(Range(left)) /\ Len(rest) = Len(left) - 1 /\ \A i \in 1 .. Len(rest) : rest[i] = left[i + 1]
  BY <1>1, HeadTailProperties
<1> HIDE DEF rest
<1>5. rest \in Seq(Range(rest)) /\ DOMAIN rest = 1 .. Len(rest)
  BY <1>4, RangeSeq
<1>6. \A j \in DOMAIN rest : j + 1 \in DOMAIN left /\ j + 1 # 1 /\ rest[j] = left[j + 1]
  BY <1>3, <1>4, <1>5
<1>7. 1 \in DOMAIN left
  BY <1>3
<1>8. \A j, k \in DOMAIN rest : rest[j].to = rest[k].to => j = k
  <2>1. ASSUME NEW j \in DOMAIN rest, NEW k \in DOMAIN rest, rest[j].to = rest[k].to PROVE j = k
    <3>1. j + 1 = k + 1
      BY <1>1, <1>6, <2>1
    <3> QED BY <1>5, <3>1
  <2> QED BY <2>1
<1>9. \A j \in DOMAIN rest : rest[j].to # left[1].to
  BY <1>1, <1>6, <1>7
<1>10. \A j \in DOMAIN rest : Redirection(rest[j]) /\ rest[j].to \in 0 .. 2
  BY <1>1, <1>6
<1>11. \A j \in DOMAIN rest, i \in DOMAIN saved : rest[j].to # saved[i].redir_fd
  BY <1>1, <1>6
<1>12. \A i \in DOMAIN more : (i \in DOMAIN saved /\ more[i] = saved[i]) \/ more[i] = copy
  <2>1. /\ Len(more) = Len(saved) + 1 /\ \A i \in 1 .. Len(saved) : more[i] = saved[i]
        /\ more[Len(saved) + 1] = copy /\ more \in Seq(Copy)
    BY AppendProperties
  <2>2. Len(saved) \in Nat /\ DOMAIN saved = 1 .. Len(saved) /\ DOMAIN more = 1 .. Len(more)
    BY <2>1, LenProperties
  <2> HIDE DEF more
  <2> QED BY <2>1, <2>2
<1>13. copy.redir_fd = left[1].to
  BY DEF left
<1> HIDE DEF more
<1>14. \A j \in DOMAIN rest, i \in DOMAIN more : rest[j].to # more[i].redir_fd
  BY <1>9, <1>11, <1>12, <1>13
<1>15. a.builtin
  BY <1>1, <1>2
<1>16. TaskOK(a, fds2, saved)
  BY <1>2, <1>5, <1>8, <1>10, <1>11, <1>15 DEF TaskOK
<1>17. TaskOK(a, fds2, more)
  BY <1>2, <1>5, <1>8, <1>10, <1>14, <1>15 DEF TaskOK
<1> QED BY <1>16, <1>17 DEF a, rest, left, more

\* A redirection of a builtin is made, with the descriptor fd, or fails.
LEMMA RedirectionMade ==
    ASSUME Inv, ~spoilt', procs[1].todo # <<>>, procs[1].todo[1].task = "redirect", procs[1].todo[1].left # <<>>,
           NEW f, NEW fd \in Fd, dup_and_save_fd(1, f, fd, procs[1].todo[1].left[1].to),
           FdsOK(f, procs[1].saved, Len(pipes')), Len(pipes') \in Nat
    PROVE  ShellOK(procs'[1], Len(pipes'))
<1> DEFINE s == procs[1].todo
           saved == procs[1].saved
           n == Len(pipes')
           to == s[1].left[1].to
           a == Redirect(Tail(s[1].left), s[1].builtin, None)
           copied == Open(f, f[to])
           Copy == [dup_fd : Fd, redir_fd : 0 .. 2]
           copy == [dup_fd |-> Lowest(f), redir_fd |-> to]
<1>1. ~spoilt
  BY DEF dup_and_save_fd, RedirectFails
<1>2. ShellIs(procs[1].fds, s, saved)
  BY <1>1, Shell
<1>3. TodoOK(s, procs[1].fds, saved) /\ TaskOK(s[1], procs[1].fds, saved)
  BY <1>2, FirstTask DEF ShellIs
<1>4. 1 \in DOMAIN s[1].left
  <2>1. s[1].left \in Seq(Range(s[1].left))
    BY <1>3 DEF TaskOK
  <2> QED BY <2>1, EmptySeq, RangeSeq
<1>5. to \in 0 .. 2 /\ \A i \in DOMAIN saved : saved[i].redir_fd # to
  BY <1>3, <1>4 DEF TaskOK
<1>6. /\ fd = to => procs' = DoesWith(1, f, <<a>> \o Tail(s))
      /\ fd # to => \/ RedirectFails(1, f)
                    \/ Free(f) # {} /\ RedirectFails(1, copied)
                    \/ /\ Free(f) # {} /\ copied[fd] # Closed
                       /\ procs' = Becomes(1, dup2(copied, fd, to), <<a>> \o Tail(s), Append(saved, copy))
  <2>1. Redirected(1) = <<a>> \o Tail(s)
    BY DEF Redirected, Now, Rest
  <2> HIDE DEF a, to
  <2>2. dup_and_save_fd(1, f, fd, to)
    BY DEF to
  <2> HIDE DEF s
  <2> QED BY <2>1, <2>2 DEF dup_and_save_fd
<1>7. f[to] = Standard[to]
  <2>1. FdsOK(f, saved, n)
    OBVIOUS
  <2> HIDE DEF saved, to, n
  <2>2. f[to] = Standard[to] \/ \E i \in DOMAIN saved : saved[i].redir_fd = to
    BY <1>5, <2>1 DEF FdsOK
  <2> QED BY <1>5, <2>2
<1>8. Opens(f, f[to], n)
  <2>1. f[to] \in Thing /\ f[to][1] \in {"in", "out", "err"}
    BY <1>5, <1>7, StandardDiffer
  <2> QED BY <2>1 DEF Opens
<1> HIDE DEF n
<1>9. FdsOK(f, saved, n) /\ n \in Nat
  BY DEF n
<1>10. Free(f) # {} => FdsOK(copied, saved, n) /\ Lowest(f) \in Fd
  BY <1>8, <1>9, OpenKeeps
<1>11. saved \in Seq(Copy)
  BY <1>9 DEF FdsOK
<1>12. Free(f) # {} => copy \in Copy
  BY <1>5, <1>10
<1>13. copy.redir_fd = to
  OBVIOUS
<1> DEFINE none == [dup_fd |-> 0, redir_fd |-> to]
<1>14. none \in Copy /\ none.redir_fd = to
  BY <1>5, StandardDiffer
<1> HIDE DEF copy, Copy, none
<1>15. s[1].task = "redirect" /\ s[1].left # <<>> /\ s # <<>>
  OBVIOUS
<1>16. a.task = "redirect"
  BY DEF Redirect
<1> DEFINE new == dup2(copied, fd, to)
<1>17. TaskOK(a, f, saved)
  <2>1. none.redir_fd = s[1].left[1].to
    BY <1>14
  <2> HIDE DEF s, saved, to
  <2> QED BY <1>3, <1>11, <1>14, <1>15, <2>1, RedirectionsLeft
<1>18. Free(f) # {} => TaskOK(a, new, Append(saved, copy))
  <2>1. copy.redir_fd = s[1].left[1].to
    BY <1>13
  <2> HIDE DEF s, saved, to, new
  <2> QED BY <1>3, <1>11, <1>12, <1>15, <2>1, RedirectionsLeft
<1> HIDE DEF a, to, copied
<1>19. CASE procs' = DoesWith(1, f, <<a>> \o Tail(s))
  <2>1. Continues(f, <<a>> \o Tail(s), saved)
    BY <1>19, ShellBecomes
  <2> HIDE DEF s, saved
  <2>2. TodoOK(<<a>> \o Tail(s), f, saved)
    BY <1>3, <1>15, <1>16, <1>17, RedirectKeeps
  <2> QED BY <1>9, <2>1, <2>2, ShellContinues DEF n
<1>20. CASE /\ fd # to /\ Free(f) # {} /\ copied[fd] # Closed
            /\ procs' = Becomes(1, new, <<a>> \o Tail(s), Append(saved, copy))
  <2>1. Continues(new, <<a>> \o Tail(s), Append(saved, copy))
    BY <1>20, ShellBecomes
  <2>2. FdsOK(new, Append(saved, copy), n)
    <3>1. FdsOK(dup2(Open(f, f[to]), fd, to), Append(saved, [dup_fd |-> Lowest(f), redir_fd |-> to]), n)
      <4>1. Open(f, f[to])[fd] # Closed
        BY <1>20 DEF copied
      <4> HIDE DEF saved
      <4> QED BY <1>5, <1>9, <1>20, <4>1, SaveKeeps
    <3> QED BY <3>1 DEF copied, copy
  <2> HIDE DEF s, saved, new
  <2>3. TodoOK(<<a>> \o Tail(s), new, Append(saved, copy))
    BY <1>3, <1>15, <1>16, <1>18, <1>20, RedirectKeeps
  <2> QED BY <2>1, <2>2, <2>3, ShellContinues DEF n
<1>21. CASE RedirectFails(1, f)
  BY <1>9, <1>21, RedirectionFails DEF n
<1>22. CASE Free(f) # {} /\ RedirectFails(1, copied)
  BY <1>10, <1>22, RedirectionFails DEF n
<1> QED BY <1>6, <1>19, <1>20, <1>21, <1>22

\* A document is made for a redirection.
LEMMA DocumentStarts ==
    ASSUME NEW s, NEW fds, NEW saved, TodoOK(s, fds, saved), s # <<>>, s[1].task = "redirect",
           NEW fds2, NEW a, a.task = "document", TaskOK(a, fds2, saved)
    PROVE  TodoOK(<<a>> \o s, fds2, saved)
<1> DEFINE t == <<a>> \o s
<1>1. /\ s \in Seq(Range(s)) /\ Len(s) \in Nat /\ DOMAIN s = 1 .. Len(s) /\ 1 \in DOMAIN s
      /\ Len(s) >= 3 /\ s[2].task \in {"write", "cat"} /\ s[3].task = "restore"
      /\ \A k \in DOMAIN s : k > 3 => s[k].task = "command"
  BY FirstTask
<1>2. Behind(t, 1, s, 0) /\ t[1] = a
  <2>1. Shapes(s, a, a, a)
    BY <1>1, TodoShapes
  <2> QED BY <2>1 DEF Shapes
<1> HIDE DEF t
<1>3. DOMAIN t = 1 .. 1 + (Len(s) - 0) /\ \A k \in DOMAIN t : k > 1 => (k - 1) + 0 \in DOMAIN s /\ t[k] = s[(k - 1) + 0]
  BY <1>2 DEF Behind
<1>4. 1 \in DOMAIN t /\ 2 \in DOMAIN t /\ (2 - 1) + 0 = 1
  BY <1>1, <1>3
<1>5. t[2] = s[1]
  BY <1>3, <1>4
<1>6. FollowsOK(t, 1) /\ ~Outside(t)
  BY <1>2, <1>4, <1>5 DEF FollowsOK, Outside
<1>7. \A j \in DOMAIN t : j <= 1 => TaskOK(t[j], fds2, saved) /\ FollowsOK(t, j)
  <2>1. \A j \in DOMAIN t : j <= 1 => j = 1
    BY <1>1, <1>3
  <2> QED BY <1>2, <1>6, <2>1
<1>8. Unaffected(s, 0, fds, saved, fds2, saved)
  <2>1. \A k \in DOMAIN s : k = 1 \/ k = 2 \/ k = 3 \/ k > 3
    BY <1>1
  <2>2. \A k \in DOMAIN s : s[k].task \in {"command", "restore", "write", "cat", "redirect"}
    BY <1>1, <2>1
  <2> QED BY <2>2 DEF Unaffected
<1>9. TodoOK(t, fds2, saved)
  BY <1>2, <1>6, <1>7, <1>8, RestKept
<1> QED BY <1>9 DEF t

\* A round of the loop over the redirections.
LEMMA ProcessRedir ==
    ASSUME Inv, ~spoilt', process_redir(1)
    PROVE  ShellOK(procs'[1], Len(pipes'))
<1> DEFINE s == procs[1].todo
           fds == procs[1].fds
           saved == procs[1].saved
           n == s[1]
           r == n.left[1]
           Made(fs, fd) == IF n.builtin THEN dup_and_save_fd(1, fs, fd, r.to) ELSE RedirectChild(1, fs, fd, r.to)
           file == Open(fds, <<"file", r.from>>)
           read == Open(fds, <<"r", Len(pipes) + 1>>)
           doc == Document(r.from, Lowest(fds), Lowest(read))
           both == Open(read, <<"w", Len(pipes) + 1>>)
<1>1. Doing(1, "redirect")
  BY DEF process_redir
<1>2. s # <<>> /\ n.task = "redirect" /\ Now(1) = n /\ Rest(1) = Tail(s)
  BY <1>1 DEF Doing, Now, Rest
<1>3. \/ procs' = Does(1, Tail(s)) /\ UNCHANGED <<spoilt, pipes>>
      \/ n.left # <<>> /\ n.fd # None /\ pipes' = pipes /\ IF n.fd = Failed THEN RedirectFails(1, fds) ELSE Made(fds, n.fd)
      \/ /\ n.left # <<>> /\ r.op = "open" /\ pipes' = pipes
         /\ IF r.from = None \/ Free(fds) = {} THEN RedirectFails(1, fds) ELSE Made(file, Lowest(fds))
      \/ n.left # <<>> /\ r.op = "dup" /\ pipes' = pipes /\ Made(fds, r.from)
      \/ /\ n.left # <<>> /\ r.op = "here"
         /\ IF Cardinality(Free(fds)) < 2 THEN RedirectFails(1, fds) /\ pipes' = pipes
            ELSE pipes' = Append(pipes, 0) /\ procs' = DoesWith(1, both, <<doc>> \o s) /\ UNCHANGED spoilt
  <2>1. Now(1) = procs[1].todo[1] /\ Rest(1) = Tail(procs[1].todo)
    BY DEF Now, Rest
  <2> QED BY <2>1, Zenon DEF process_redir
<1>4. ~spoilt
  <2>1. \A f : RedirectFails(1, f) => ~spoilt
    BY DEF RedirectFails
  <2>2. \A f, fd, to : dup_and_save_fd(1, f, fd, to) => ~spoilt
    BY <2>1 DEF dup_and_save_fd
  <2>3. \A f, fd, to : RedirectChild(1, f, fd, to) => ~spoilt
    BY <2>1 DEF RedirectChild
  <2>4. \A f, fd : Made(f, fd) => ~spoilt
    BY <2>2, <2>3
  <2> HIDE DEF Made, s, fds, n, r, file, both, doc
  <2> QED BY <1>3, <2>1, <2>4
<1>5. ShellIs(fds, s, saved)
  BY <1>4, Shell
<1>6. TodoOK(s, fds, saved) /\ FdsOK(fds, saved, Len(pipes)) /\ Len(pipes) \in Nat
  BY <1>5 DEF ShellIs
<1>7. TaskOK(n, fds, saved)
  BY <1>2, <1>6, FirstTask
<1>8. n.builtin /\ n.fd \in Fd \cup {None, Failed}
  <2> HIDE DEF n
  <2> QED BY <1>2, <1>7 DEF TaskOK
<1>9. n.left # <<>> => Redirection(r)
  <2> HIDE DEF n, fds, saved
  <2>1. n.left \in Seq(Range(n.left)) /\ \A j \in DOMAIN n.left : Redirection(n.left[j])
    BY <1>2, <1>7 DEF TaskOK
  <2>2. n.left # <<>> => 1 \in DOMAIN n.left
    BY <2>1, EmptySeq, RangeSeq
  <2> QED BY <2>1, <2>2
<1>10. CASE procs' = Does(1, Tail(s)) /\ UNCHANGED <<spoilt, pipes>>
  <2>1. Continues(fds, Tail(s), saved)
    BY <1>10, ShellBecomes
  <2>2. TodoOK(Tail(s), fds, saved)
    <3> HIDE DEF s, fds, saved
    <3> QED BY <1>2, <1>6, PopKeeps DEF n
  <2> HIDE DEF s, fds, saved
  <2> QED BY <1>6, <1>10, <2>1, <2>2, ShellContinues
<1>11. ASSUME NEW f, RedirectFails(1, f), FdsOK(f, saved, Len(pipes'))
       PROVE  ShellOK(procs'[1], Len(pipes'))
  BY <1>2, <1>11, RedirectionFails
<1>12. ASSUME NEW f, NEW fd \in Fd, n.left # <<>>, Made(f, fd), FdsOK(f, saved, Len(pipes')), Len(pipes') \in Nat
       PROVE  ShellOK(procs'[1], Len(pipes'))
  <2>1. dup_and_save_fd(1, f, fd, r.to)
    BY <1>8, <1>12
  <2> QED BY <1>2, <1>12, <2>1, RedirectionMade
<1>13. CASE /\ n.left # <<>> /\ n.fd # None /\ pipes' = pipes
            /\ IF n.fd = Failed THEN RedirectFails(1, fds) ELSE Made(fds, n.fd)
  <2> HIDE DEF s, fds, saved, n, Made
  <2> QED BY <1>6, <1>8, <1>11, <1>12, <1>13
<1>14. CASE /\ n.left # <<>> /\ r.op = "open" /\ pipes' = pipes
            /\ IF r.from = None \/ Free(fds) = {} THEN RedirectFails(1, fds) ELSE Made(file, Lowest(fds))
  <2>1. CASE r.from = None \/ Free(fds) = {}
    <3> HIDE DEF s, fds, saved, n, Made, r, file
    <3> QED BY <1>6, <1>11, <1>14, <2>1
  <2>2. CASE ~(r.from = None \/ Free(fds) = {})
    <3> HIDE DEF s, fds, saved, n, Made, r
    <3>1. r.from \in Nat
      BY <1>9, <1>14, <2>2 DEF Redirection
    <3>2. Opens(fds, <<"file", r.from>>, Len(pipes))
      BY <3>1 DEF Opens, Thing
    <3> DEFINE o == <<"file", r.from>>
    <3>3. FdsOK(Open(fds, o), saved, Len(pipes)) /\ Lowest(fds) \in Fd
      <4> HIDE DEF o
      <4>1. Opens(fds, o, Len(pipes)) /\ Free(fds) # {} /\ Len(pipes) <= Len(pipes)
        BY <1>6, <2>2, <3>2 DEF o
      <4> QED BY <1>6, <4>1, OpenKeeps
    <3>4. FdsOK(file, saved, Len(pipes'))
      BY <1>14, <3>3
    <3> HIDE DEF file
    <3> QED BY <1>6, <1>12, <1>14, <2>2, <3>3, <3>4
  <2> QED BY <2>1, <2>2
<1>15. CASE n.left # <<>> /\ r.op = "dup" /\ pipes' = pipes /\ Made(fds, r.from)
  <2> HIDE DEF s, fds, saved, n, Made, r
  <2>1. r.from \in Fd
    BY <1>9, <1>15 DEF Redirection
  <2> QED BY <1>6, <1>12, <1>15, <2>1
<1>16. CASE /\ n.left # <<>> /\ r.op = "here"
            /\ IF Cardinality(Free(fds)) < 2 THEN RedirectFails(1, fds) /\ pipes' = pipes
               ELSE pipes' = Append(pipes, 0) /\ procs' = DoesWith(1, both, <<doc>> \o s) /\ UNCHANGED spoilt
  <2>1. CASE Cardinality(Free(fds)) < 2
    <3> HIDE DEF s, fds, saved, n, Made, r, both, doc
    <3> QED BY <1>6, <1>11, <1>16, <2>1
  <2>2. CASE ~(Cardinality(Free(fds)) < 2)
    <3>1. pipes' = Append(pipes, 0) /\ procs' = DoesWith(1, both, <<doc>> \o s)
      <4> HIDE DEF s, fds, saved, n, Made, r, both, doc
      <4> QED BY <1>16, <2>2
    <3>2. Len(pipes') = Len(pipes) + 1
      BY <3>1, AppendProperties DEF Inv
    <3>3. Continues(both, <<doc>> \o s, saved)
      BY <3>1, ShellBecomes
    <3>4. /\ both = Piped(fds, Len(pipes)) /\ doc.task = "document"
          /\ doc.r = ReadEnd(fds, Len(pipes)) /\ doc.w = WriteEnd(fds, Len(pipes))
      BY DEF Piped, ReadEnd, WriteEnd, Document
    <3> HIDE DEF s, fds, saved, both, doc
    <3>5. Cardinality(Free(fds)) >= 2
      BY <2>2, FreeFinite
    <3>6. /\ FdsOK(both, saved, Len(pipes')) /\ ReadsFrom(both, doc.r, doc.w)
          /\ doc.w \in Fd /\ doc.w > 2 /\ both[doc.w] = <<"w", Len(pipes) + 1>> /\ both[doc.r] = <<"r", Len(pipes) + 1>>
      BY <1>6, <3>2, <3>4, <3>5, PipeOpens
    <3>7. both[doc.w] = <<"w", both[doc.r][2]>>
      BY <3>6
    <3>8. TaskOK(doc, both, saved)
      BY <3>4, <3>6, <3>7 DEF TaskOK
    <3>9. TodoOK(<<doc>> \o s, both, saved)
      BY <1>2, <1>6, <3>4, <3>8, DocumentStarts DEF n
    <3> QED BY <3>3, <3>6, <3>9, ShellContinues
  <2> QED BY <2>1, <2>2
<1> HIDE DEF s, fds, saved, n, r, Made, file, both, doc
<1> QED BY <1>3, <1>10, <1>13, <1>14, <1>15, <1>16

-----------------------------------------------------------------------------
(* The theorem *)

\* What the steps of a process have in common.
Steps(p) ==
    /\ script' = script /\ spoilt' \in BOOLEAN /\ (p # 1 => spoilt' = spoilt)
    /\ \E z : Changes(p, z)
    /\ pipes' \in Seq(Int) /\ Len(pipes') \in Nat /\ Len(pipes) <= Len(pipes')

LEMMA ProcessBecomes ==
    ASSUME NEW p, NEW f, NEW t, NEW sv, NEW y
    PROVE  /\ procs' = Becomes(p, f, t, sv) => \E z : Changes(p, z)
           /\ procs' = DoesWith(p, f, t) => \E z : Changes(p, z)
           /\ procs' = Append(DoesWith(p, f, t), y) => \E z : Changes(p, z)
           /\ procs' = Does(p, t) => \E z : Changes(p, z)
           /\ procs' = Append(Does(p, t), y) => \E z : Changes(p, z)
           /\ procs' = Ends(procs, p) => \E z : Changes(p, z)
<1>1. ASSUME NEW g, NEW v
      PROVE  /\ procs' = Becomes(p, g, t, v) => \E z : Changes(p, z)
             /\ procs' = Append(Becomes(p, g, t, v), y) => \E z : Changes(p, z)
  BY DEF Becomes, Changes
<1>2. procs' = Ends(procs, p) => \E z : Changes(p, z)
  BY DEF Ends, Changes
<1> QED BY <1>1, <1>2 DEF DoesWith, Does

\* How many pipes there are after a step.
LEMMA PipesAfter ==
    ASSUME Inv
    PROVE  /\ pipes' = pipes => pipes' \in Seq(Int) /\ Len(pipes') \in Nat /\ Len(pipes) <= Len(pipes')
           /\ pipes' = Append(pipes, 0) => pipes' \in Seq(Int) /\ Len(pipes') \in Nat /\ Len(pipes) <= Len(pipes')
           /\ \A x : pipes' = [pipes EXCEPT ![x] = @ + 1] =>
                  pipes' \in Seq(Int) /\ Len(pipes') \in Nat /\ Len(pipes) <= Len(pipes')
           /\ \A x : pipes' = [pipes EXCEPT ![x] = @ - 1] =>
                  pipes' \in Seq(Int) /\ Len(pipes') \in Nat /\ Len(pipes) <= Len(pipes')
<1>1. pipes \in Seq(Int) /\ Len(pipes) \in Nat /\ DOMAIN pipes = 1 .. Len(pipes)
  BY LenProperties DEF Inv
<1>2. ASSUME pipes' = Append(pipes, 0)
      PROVE  pipes' \in Seq(Int) /\ Len(pipes') \in Nat /\ Len(pipes) <= Len(pipes')
  <2>1. Append(pipes, 0) \in Seq(Int) /\ Len(Append(pipes, 0)) = Len(pipes) + 1
    BY <1>1, AppendProperties
  <2> QED BY <1>1, <1>2, <2>1
<1>3. ASSUME NEW x, pipes' = [pipes EXCEPT ![x] = @ + 1]
      PROVE  pipes' \in Seq(Int) /\ Len(pipes') \in Nat /\ Len(pipes) <= Len(pipes')
  <2>1. x \in DOMAIN pipes => pipes[x] + 1 \in Int
    <3>1. x \in DOMAIN pipes => pipes[x] \in Int
      BY <1>1, ElementOfSeq
    <3> QED BY <3>1
  <2>2. pipes' \in Seq(Int) /\ Len(pipes') = Len(pipes)
    BY <1>1, <1>3, <2>1, PipesKept
  <2> QED BY <1>1, <2>2
<1>4. ASSUME NEW x, pipes' = [pipes EXCEPT ![x] = @ - 1]
      PROVE  pipes' \in Seq(Int) /\ Len(pipes') \in Nat /\ Len(pipes) <= Len(pipes')
  <2>1. x \in DOMAIN pipes => pipes[x] - 1 \in Int
    <3>1. x \in DOMAIN pipes => pipes[x] \in Int
      BY <1>1, ElementOfSeq
    <3> QED BY <3>1
  <2>2. pipes' \in Seq(Int) /\ Len(pipes') = Len(pipes)
    BY <1>1, <1>4, <2>1, PipesKept
  <2> QED BY <1>1, <2>2
<1> QED BY <1>1, <1>2, <1>3, <1>4

\* Each action is a step of this kind.
LEMMA StepsOf ==
    ASSUME Inv, NEW p, Step(p)
    PROVE  Steps(p)
<1> USE DEF Steps
<1>1. spoilt \in BOOLEAN
  BY DEF Inv
<1>2. CASE run_builtin(p)
  BY <1>1, <1>2, ProcessBecomes, PipesAfter DEF run_builtin
<1>3. CASE run_process(p)
  BY <1>1, <1>3, ProcessBecomes, PipesAfter DEF run_process
<1>4. CASE run_pipeline(p)
  BY <1>1, <1>4, ProcessBecomes, PipesAfter DEF run_pipeline
<1>5. CASE PipelineStage(p)
  <2>1. script' = script /\ spoilt' = spoilt
    BY <1>5 DEF PipelineStage
  <2>2. (\E f, t, y : procs' = Append(DoesWith(p, f, t), y)) \/ (\E t : procs' = Does(p, t)) \/ (\E f, t : procs' = DoesWith(p, f, t))
    BY <1>5, Zenon DEF PipelineStage
  <2>3. pipes' = pipes \/ pipes' = Append(pipes, 0)
    BY <1>5 DEF PipelineStage
  <2> QED BY <1>1, <2>1, <2>2, <2>3, ProcessBecomes, PipesAfter
<1>6. CASE job_wait_process(p)
  BY <1>1, <1>6, ProcessBecomes, PipesAfter DEF job_wait_process
<1>7. CASE process_redir(p)
  <2>1. ASSUME NEW f, RedirectFails(p, f)
        PROVE  spoilt' \in BOOLEAN /\ (p # 1 => spoilt' = spoilt) /\ \E z : Changes(p, z)
    <3>1. (\E t : procs' = Becomes(p, f, t, <<>>)) \/ procs' = Ends(procs, p)
      BY <2>1, Zenon DEF RedirectFails
    <3>2. spoilt' \in BOOLEAN /\ (p # 1 => spoilt' = spoilt)
      BY <1>1, <2>1 DEF RedirectFails
    <3> QED BY <3>1, <3>2, ProcessBecomes
  <2>2. ASSUME NEW f, NEW fd, NEW to, dup_and_save_fd(p, f, fd, to)
        PROVE  spoilt' \in BOOLEAN /\ (p # 1 => spoilt' = spoilt) /\ \E z : Changes(p, z)
    <3>1. \/ \E g, t : procs' = DoesWith(p, g, t) /\ UNCHANGED spoilt
          \/ \E g, t, sv : procs' = Becomes(p, g, t, sv) /\ UNCHANGED spoilt
          \/ \E g : RedirectFails(p, g)
      BY <2>2, Zenon DEF dup_and_save_fd
    <3> QED BY <1>1, <2>1, <3>1, ProcessBecomes
  <2>3. ASSUME NEW f, NEW fd, NEW to, RedirectChild(p, f, fd, to)
        PROVE  spoilt' \in BOOLEAN /\ (p # 1 => spoilt' = spoilt) /\ \E z : Changes(p, z)
    <3>1. (\E g, t : procs' = DoesWith(p, g, t) /\ UNCHANGED spoilt) \/ \E g : RedirectFails(p, g)
      BY <2>3, Zenon DEF RedirectChild
    <3> QED BY <1>1, <2>1, <3>1, ProcessBecomes
  <2>4. /\ script' = script /\ (pipes' = pipes \/ pipes' = Append(pipes, 0))
        /\ \/ \E t : procs' = Does(p, t) /\ UNCHANGED spoilt
           \/ \E f, t : procs' = DoesWith(p, f, t) /\ UNCHANGED spoilt
           \/ \E f : RedirectFails(p, f)
           \/ \E f, fd, to : dup_and_save_fd(p, f, fd, to)
           \/ \E f, fd, to : RedirectChild(p, f, fd, to)
    BY <1>7, ZenonT(60) DEF process_redir
  <2> QED BY <1>1, <2>1, <2>2, <2>3, <2>4, ProcessBecomes, PipesAfter
<1>8. CASE create_here_document_fd(p)
  <2>1. script' = script /\ pipes' = pipes /\ spoilt' = spoilt
    BY <1>8 DEF create_here_document_fd
  <2>2. \A f, fd : \E t : Returns(p, f, fd) = DoesWith(p, f, t)
    BY DEF Returns
  <2>3. \/ \E f, fd : procs' = Returns(p, f, fd)
        \/ \E t : procs' = Does(p, t)
        \/ \E f, fd, y : procs' = Append(Returns(p, f, fd), y)
    BY <1>8, Zenon DEF create_here_document_fd
  <2>4. \/ \E f, t : procs' = DoesWith(p, f, t)
        \/ \E t : procs' = Does(p, t)
        \/ \E f, t, y : procs' = Append(DoesWith(p, f, t), y)
    BY <2>2, <2>3, Zenon
  <2> QED BY <1>1, <2>1, <2>4, ProcessBecomes, PipesAfter
<1>9. CASE RestoreDescriptors(p)
  <2>1. script' = script /\ pipes' = pipes /\ spoilt' = spoilt
    BY <1>9 DEF RestoreDescriptors
  <2>2. (\E t : procs' = Does(p, t)) \/ \E f, t, sv : procs' = Becomes(p, f, t, sv)
    BY <1>9, Zenon DEF RestoreDescriptors
  <2> QED BY <1>1, <2>1, <2>2, ProcessBecomes, PipesAfter
<1>10. CASE Write(p)
  <2>1. script' = script /\ spoilt' = spoilt
    BY <1>10 DEF Write
  <2>2. (\E t : procs' = Does(p, t)) \/ procs' = Ends(procs, p)
    BY <1>10, Zenon DEF Write
  <2>3. pipes' = pipes \/ \E x : pipes' = [pipes EXCEPT ![x] = @ + 1]
    BY <1>10, Zenon DEF Write
  <2> QED BY <1>1, <2>1, <2>2, <2>3, ProcessBecomes, PipesAfter
<1>11. CASE Cat(p)
  <2>1. script' = script /\ spoilt' = spoilt
    BY <1>11 DEF Cat
  <2>2. \E t : procs' = Does(p, t)
    BY <1>11, Zenon DEF Cat
  <2>3. pipes' = pipes \/ \E x : pipes' = [pipes EXCEPT ![x] = @ - 1]
    BY <1>11, Zenon DEF Cat
  <2> QED BY <1>1, <2>1, <2>2, <2>3, ProcessBecomes, PipesAfter
<1>12. CASE Exit(p)
  BY <1>1, <1>12, ProcessBecomes, PipesAfter DEF Exit
<1> QED BY <1>2, <1>3, <1>4, <1>5, <1>6, <1>7, <1>8, <1>9, <1>10, <1>11, <1>12 DEF Step

\* More pipes do not change the shell.
LEMMA ShellStays ==
    ASSUME NEW p, NEW n \in Nat, NEW m \in Nat, n <= m, ShellOK(p, n)
    PROVE  ShellOK(p, m)
<1>1. FdsOK(p.fds, p.saved, n)
  BY DEF ShellOK
<1>2. \A k \in Fd : p.fds[k][1] \in {"r", "w"} => p.fds[k][2] \in 1 .. m
  <2>1. \A k \in Fd : p.fds[k][1] \in {"r", "w"} => p.fds[k][2] \in 1 .. n
    BY <1>1 DEF FdsOK
  <2> QED BY <2>1
<1>3. FdsOK(p.fds, p.saved, m)
  BY <1>1, <1>2 DEF FdsOK
<1> QED BY <1>3 DEF ShellOK

LEMMA StandardTable == Standard \in [Fd -> Thing] /\ \A k \in Fd : Standard[k][1] \in {"in", "out", "err", "closed"}
<1>1. \A k \in Fd : Standard[k] = IF k = 0 THEN <<"in", 0>> ELSE IF k = 1 THEN <<"out", 0>>
                                  ELSE IF k = 2 THEN <<"err", 0>> ELSE Closed
  BY DEF Standard
<1>2. <<"in", 0>> \in Thing /\ <<"out", 0>> \in Thing /\ <<"err", 0>> \in Thing /\ Closed \in Thing
  BY DEF Thing, Closed
<1>3. \A k \in Fd : Standard[k] \in Thing
  BY <1>1, <1>2
<1>4. Standard \in [Fd -> Thing]
  BY <1>3 DEF Standard
<1>5. <<"in", 0>>[1] = "in" /\ <<"out", 0>>[1] = "out" /\ <<"err", 0>>[1] = "err" /\ Closed[1] = "closed"
  BY DEF Closed
<1>6. \A k \in Fd : Standard[k][1] \in {"in", "out", "err", "closed"}
  BY <1>1, <1>5
<1> QED BY <1>4, <1>6

LEMMA InvInit == Init => Inv
<1> SUFFICES ASSUME Init PROVE Inv
  OBVIOUS
<1> DEFINE todo == [k \in DOMAIN script |-> Command(script[k])]
           z == Process(Standard, todo)
<1>1. script \in Scripts /\ procs = <<z>> /\ pipes = <<>> /\ spoilt = FALSE
  BY DEF Init
<1>2. script \in Seq(Range(script)) /\ DOMAIN script = 1 .. Len(script) /\ Len(script) \in Nat
      /\ \A k \in DOMAIN script : script[k] \in Range(script)
  BY <1>1, DescriptorsAssumption, RangeSeq
<1>3. todo \in Seq(Range(todo)) /\ DOMAIN todo = DOMAIN script
  <2> DEFINE S == {Command(script[k]) : k \in DOMAIN script}
  <2>1. todo \in [1 .. Len(script) -> S] /\ DOMAIN todo = DOMAIN script
    BY <1>2
  <2> HIDE DEF todo, S
  <2>2. todo \in Seq(S)
    BY <1>2, <2>1, SMT
  <2> QED BY <2>1, <2>2, RangeSeq
<1>4. \A k \in DOMAIN todo : todo[k] = Command(script[k]) /\ todo[k].task = "command" /\ todo[k].stages = script[k]
  BY DEF Command
<1> HIDE DEF todo
<1>5. z = [fds |-> Standard, todo |-> todo, saved |-> <<>>, ended |-> FALSE]
  BY DEF Process
<1>6. z.fds = Standard /\ z.todo = todo /\ z.saved = <<>>
  BY <1>5
<1>7. z = [fds |-> z.fds, todo |-> z.todo, saved |-> z.saved, ended |-> FALSE]
  BY <1>5, <1>6
<1> HIDE DEF z
<1>8. FdsOK(Standard, <<>>, 0)
  <2>1. DOMAIN <<>> = {} /\ <<>> \in Seq([dup_fd : Fd, redir_fd : 0 .. 2])
    OBVIOUS
  <2>2. \A k \in Fd : ~(Standard[k][1] \in {"r", "w"})
    BY StandardTable
  <2> QED BY <2>1, <2>2, StandardTable, StandardDiffer DEF FdsOK
<1>9. TodoOK(todo, Standard, <<>>)
  <2>1. \A k \in DOMAIN todo : TaskOK(todo[k], Standard, <<>>)
    BY <1>1, <1>2, <1>3, <1>4 DEF TaskOK
  <2>2. \A k \in DOMAIN todo : FollowsOK(todo, k)
    BY <1>4 DEF FollowsOK
  <2> QED BY <1>3, <2>1, <2>2 DEF TodoOK
<1>10. ShellOK(z, 0)
  BY <1>6, <1>7, <1>8, <1>9 DEF ShellOK
<1>11. procs \in Seq({z}) /\ procs # <<>> /\ procs[1] = z
  BY <1>1
<1>12. procs \in Seq(Range(procs))
  BY <1>11, RangeSeq
<1>13. pipes \in Seq(Int) /\ Len(pipes) = 0
  BY <1>1
<1> QED BY <1>1, <1>10, <1>11, <1>12, <1>13 DEF Inv

LEMMA InvNext == Inv /\ [Next]_all => Inv'
<1> SUFFICES ASSUME Inv, [Next]_all PROVE Inv'
  OBVIOUS
<1>1. CASE UNCHANGED all
  BY <1>1 DEF all, Inv
<1>2. ASSUME NEW p \in 1 .. MaxProcess, Step(p)
      PROVE  Inv'
  <2>1. Steps(p) /\ p \in DOMAIN procs
    BY <1>2, StepsOf DEF Step
  <2>2. script' \in Scripts /\ spoilt' \in BOOLEAN /\ pipes' \in Seq(Int) /\ Len(pipes') \in Nat /\ Len(pipes) <= Len(pipes')
    BY <2>1 DEF Steps, Inv
  <2>3. PICK z : Changes(p, z)
    BY <2>1 DEF Steps
  <2>4. procs' \in Seq(Range(procs')) /\ procs' # <<>> /\ procs'[1] = IF p = 1 THEN z ELSE procs[1]
    BY <2>1, <2>3, ChangedProcs DEF Inv
  <2>5. ASSUME ~spoilt' PROVE ShellOK(procs'[1], Len(pipes'))
    <3>1. CASE p = 1
      <4>1. ~Exit(1)
        BY DEF Exit
      <4> QED BY <1>2, <2>5, <3>1, <4>1, RunBuiltin, RunProcess, RunPipeline, StageKeeps, JobWaitProcess, ProcessRedir,
                 CreateDocument, Restores, Writes, Cats DEF Step
    <3>2. CASE p # 1
      <4>1. spoilt' = spoilt /\ procs'[1] = procs[1]
        BY <2>1, <2>4, <3>2 DEF Steps
      <4>2. Len(pipes) \in Nat
        BY LenProperties DEF Inv
      <4>3. ShellOK(procs[1], Len(pipes))
        BY <2>5, <4>1 DEF Inv
      <4> QED BY <2>2, <4>1, <4>2, <4>3, ShellStays
    <3> QED BY <3>1, <3>2
  <2> QED BY <2>2, <2>4, <2>5 DEF Inv
<1> QED BY <1>1, <1>2 DEF Next

LEMMA InvKeepsStandard == Inv => StandardDescriptorsKept
<1> SUFFICES ASSUME Inv, ~spoilt, procs[1].todo = <<>> \/ Doing(1, "command")
             PROVE  \A k \in 0 .. 2 : procs[1].fds[k] = Standard[k]
  BY DEF StandardDescriptorsKept
<1>1. FdsOK(procs[1].fds, procs[1].saved, Len(pipes)) /\ TodoOK(procs[1].todo, procs[1].fds, procs[1].saved)
  BY DEF Inv, ShellOK
<1>2. Outside(procs[1].todo)
  BY DEF Outside, Doing, Now
<1>3. procs[1].saved = <<>>
  BY <1>1, <1>2 DEF TodoOK
<1> QED BY <1>1, <1>3 DEF FdsOK

\* Inv is an invariant of the shell.
THEOREM InvHolds == Spec => []Inv
BY InvInit, InvNext, PTL DEF Spec

\* Between two commands the shell has its standard input, output and error, unless a builtin had
\* redirections that are not undone as they should be (run_simple_command of simple_command.c).
THEOREM StandardDescriptorsHold == Spec => []StandardDescriptorsKept
BY InvHolds, InvKeepsStandard, PTL

-----------------------------------------------------------------------------
(* The ends of pipes *)

\* A table whose ends are of the first n pipes.
ThingsOK(fds, n) ==
    fds \in [Fd -> Thing] /\ \A k \in Fd : fds[k][1] \in {"r", "w"} => fds[k][2] \in 1 .. n

\* Both ends of one pipe.
Pairs(fds, r, w) == fds[r][1] = "r" /\ fds[w] = <<"w", fds[r][2]>>
Apart(fds) == \A r, w \in Fd : ~Pairs(fds, r, w)
NoWrites(fds) == \A k \in Fd : fds[k][1] # "w"

\* What is asked of the process p: the shell is the first.
Clear(p, fds) == Apart(fds) /\ (p = 1 => NoWrites(fds))

CommandOK(c) ==
    /\ Runs(c.run) /\ c.redirs \in Seq(Range(c.redirs))
    /\ \A j \in DOMAIN c.redirs : Redirection(c.redirs[j])
StagesOK(stages) == stages \in Seq(Range(stages)) /\ \A j \in DOMAIN stages : CommandOK(stages[j])

\* What a task of any process needs.
NeedsOK(t) ==
    /\ t.task = "command" => StagesOK(t.stages)
    /\ t.task = "stage" => StagesOK(t.left) /\ t.left # <<>> /\ t.cur_stdin \in Fd \cup {None}
    /\ t.task = "redirect" => /\ t.fd \in Fd \cup {None, Failed} /\ t.left \in Seq(Range(t.left))
                              /\ \A j \in DOMAIN t.left : Redirection(t.left[j])
    /\ t.task = "document" => t.r \in Fd /\ t.w \in Fd

\* A document is being written, or will be when a line has been: its redirection waits behind it.
PlaceOK(todo, k) ==
    todo[k].task = "document" =>
        /\ k = 1 \/ (k = 2 /\ todo[1].task = "write")
        /\ k + 1 \in DOMAIN todo /\ todo[k + 1].task = "redirect"

TasksOK(todo) ==
    todo \in Seq(Range(todo)) /\ \A k \in DOMAIN todo : NeedsOK(todo[k]) /\ PlaceOK(todo, k)
NoDocument(todo, m) == \A k \in DOMAIN todo : k > m => todo[k].task # "document"

\* Both ends of a pipe are those of a document.
PairsOK(fds, todo) ==
    \A r, w \in Fd : Pairs(fds, r, w) =>
        \E k \in DOMAIN todo : todo[k].task = "document" /\ todo[k].r = r /\ todo[k].w = w

\* And so are the ends that the shell writes to.
HeldOK(fds, todo) ==
    \A w \in Fd : fds[w][1] = "w" => \E k \in DOMAIN todo : todo[k].task = "document" /\ todo[k].w = w
EndsOK(p, fds, todo) == PairsOK(fds, todo) /\ (p = 1 => HeldOK(fds, todo))

ProcessOK(p, q, n) ==
    /\ ThingsOK(q.fds, n) /\ q.saved \in Seq([dup_fd : Fd, redir_fd : Fd])
    /\ TasksOK(q.todo) /\ EndsOK(p, q.fds, q.todo)

ApartInv ==
    /\ faults \in Nat
    /\ faults = 0 => \A p \in DOMAIN procs : ProcessOK(p, procs[p], Len(pipes))

\* The ends in f are ends in g.
Drawn(f, g) ==
    f \in [Fd -> Thing] /\ \A k \in Fd : f[k][1] \in {"r", "w"} => \E l \in Fd : g[l] = f[k]

LEMMA DrawnKeeps ==
    ASSUME NEW f, NEW g, Drawn(f, g)
    PROVE  /\ \A n : ThingsOK(g, n) => ThingsOK(f, n)
           /\ \A p : Clear(p, g) => Clear(p, f)
<1>1. ASSUME NEW n, ThingsOK(g, n) PROVE ThingsOK(f, n)
  BY <1>1 DEF ThingsOK, Drawn
<1>2. ASSUME NEW r \in Fd, NEW w \in Fd, Pairs(f, r, w) PROVE \E k, l \in Fd : Pairs(g, k, l)
  <2>1. f[r][1] = "r" /\ f[w] = <<"w", f[r][2]>> /\ f[w][1] = "w"
    BY <1>2 DEF Pairs
  <2>2. PICK k \in Fd : g[k] = f[r]
    BY <2>1 DEF Drawn
  <2>3. PICK l \in Fd : g[l] = f[w]
    BY <2>1 DEF Drawn
  <2> QED BY <2>1, <2>2, <2>3 DEF Pairs
<1>3. Apart(g) => Apart(f)
  BY <1>2 DEF Apart
<1>4. NoWrites(g) => NoWrites(f)
  BY DEF NoWrites, Drawn
<1> QED BY <1>1, <1>3, <1>4 DEF Clear

LEMMA DrawnClose ==
    ASSUME NEW g \in [Fd -> Thing], NEW S
    PROVE  Drawn(Close(g, S), g)
<1> DEFINE f == Close(g, S)
<1>1. Closed \in Thing /\ Closed[1] = "closed"
  BY DEF Closed, Thing
<1>2. f = [k \in Fd |-> IF k \in S THEN Closed ELSE g[k]]
  BY DEF Close
<1> HIDE DEF f
<1>3. f \in [Fd -> Thing]
  BY <1>1, <1>2
<1>4. \A k \in Fd : f[k][1] \in {"r", "w"} => f[k] = g[k]
  BY <1>1, <1>2
<1> QED BY <1>3, <1>4 DEF Drawn, f

LEMMA DrawnDup ==
    ASSUME NEW g \in [Fd -> Thing], NEW from \in Fd, NEW to
    PROVE  Drawn(dup2(g, from, to), g)
<1>1. dup2(g, from, to) \in [Fd -> Thing] /\ \A k \in Fd : dup2(g, from, to)[k] \in {g[k], g[from]}
  BY DEF dup2
<1> QED BY <1>1 DEF Drawn

LEMMA DrawnOpen ==
    ASSUME NEW g \in [Fd -> Thing], NEW o \in Thing, o[1] \in {"r", "w"} => \E l \in Fd : g[l] = o
    PROVE  Drawn(Open(g, o), g)
<1>1. Open(g, o) \in [Fd -> Thing] /\ \A k \in Fd : Open(g, o)[k] \in {g[k], o}
  BY DEF Open
<1> QED BY <1>1 DEF Drawn

LEMMA DrawnTwice ==
    ASSUME NEW f, NEW g, NEW h, Drawn(f, g), Drawn(g, h)
    PROVE  Drawn(f, h)
BY DEF Drawn

\* The ends of a new pipe.
LEMMA PipeThings ==
    ASSUME NEW fds, NEW n \in Nat, ThingsOK(fds, n), Apart(fds), Cardinality(Free(fds)) >= 2,
           NEW r, r = ReadEnd(fds, n), NEW w, w = WriteEnd(fds, n)
    PROVE  /\ r \in Fd /\ w \in Fd /\ ThingsOK(Piped(fds, n), n + 1)
           /\ \A i, j \in Fd : Pairs(Piped(fds, n), i, j) => i = r /\ j = w
           /\ NoWrites(fds) => \A j \in Fd : Piped(fds, n)[j][1] = "w" => j = w
<1> DEFINE pr == <<"r", n + 1>>
           pw == <<"w", n + 1>>
           read == Open(fds, pr)
           both == Open(read, pw)
<1>1. fds \in [Fd -> Thing] /\ \A k \in Fd : fds[k][1] \in {"r", "w"} => fds[k][2] \in 1 .. n
  BY DEF ThingsOK
<1>2. Free(fds) # {} /\ Free(read) # {}
  BY <1>1, TwoFree
<1>3. pr \in Thing /\ pw \in Thing /\ pr[1] = "r" /\ pw[1] = "w" /\ pr[2] = n + 1 /\ pw[2] = n + 1 /\ n + 1 \in 1 .. n + 1
      /\ \A x \in 1 .. n : x \in 1 .. n + 1 /\ x # n + 1
  BY DEF Thing
<1>4. r = Lowest(fds) /\ w = Lowest(read)
  BY DEF ReadEnd, WriteEnd
<1>5. r \in Fd /\ w \in Fd
  BY <1>2, <1>4, LowestFree DEF Free
<1> HIDE DEF pr, pw
<1>6. read = [fds EXCEPT ![r] = pr] /\ both = [read EXCEPT ![w] = pw]
  BY <1>4 DEF Open
<1> HIDE DEF read, both
<1>7. both \in [Fd -> Thing] /\ \A k \in Fd : both[k] = IF k = w THEN pw ELSE IF k = r THEN pr ELSE fds[k]
  BY <1>1, <1>3, <1>5, <1>6
<1>8. ThingsOK(both, n + 1)
  BY <1>1, <1>3, <1>7 DEF ThingsOK
<1>9. ASSUME NEW i \in Fd, NEW j \in Fd, Pairs(both, i, j)
      PROVE  i = r /\ j = w
  <2>1. both[i][1] = "r" /\ both[j] = <<"w", both[i][2]>> /\ both[j][1] = "w" /\ both[j][2] = both[i][2]
    BY <1>9 DEF Pairs
  <2>2. (i # w /\ j # r) \/ r = w
    BY <1>3, <1>7, <2>1
  <2>3. both[i] = IF i = r THEN pr ELSE fds[i]
    BY <1>3, <1>7, <2>1
  <2>4. both[j] = IF j = w THEN pw ELSE fds[j]
    BY <1>3, <1>7, <2>1
  <2>5. CASE i = r /\ j # w
    <3>1. fds[j][1] = "w" /\ fds[j][2] = n + 1
      BY <1>3, <2>1, <2>3, <2>4, <2>5
    <3> QED BY <1>1, <1>3, <3>1
  <2>6. CASE i # r /\ j = w
    <3>1. fds[i][1] = "r" /\ fds[i][2] = n + 1
      BY <1>3, <2>1, <2>3, <2>4, <2>6
    <3> QED BY <1>1, <1>3, <3>1
  <2>7. CASE i # r /\ j # w
    <3>1. both[i] = fds[i] /\ both[j] = fds[j]
      BY <2>3, <2>4, <2>7
    <3> QED BY <2>1, <3>1 DEF Apart, Pairs
  <2> QED BY <2>5, <2>6, <2>7
<1>10. ASSUME NoWrites(fds), NEW j \in Fd, both[j][1] = "w"
       PROVE  j = w
  BY <1>3, <1>7, <1>10 DEF NoWrites
<1> QED BY <1>5, <1>8, <1>9, <1>10 DEF Piped, both, read, pr, pw

\* One of them is closed.
LEMMA OneCloses ==
    ASSUME NEW fds \in [Fd -> Thing], NEW r, NEW w,
           \A i, j \in Fd : Pairs(fds, i, j) => i = r /\ j = w,
           NEW S, r \in S \/ w \in S
    PROVE  Apart(Close(fds, S))
<1> DEFINE f == Close(fds, S)
<1>1. Closed[1] = "closed"
  BY DEF Closed
<1>2. f = [k \in Fd |-> IF k \in S THEN Closed ELSE fds[k]]
  BY DEF Close
<1> HIDE DEF f
<1>3. SUFFICES ASSUME NEW i \in Fd, NEW j \in Fd, Pairs(f, i, j) PROVE FALSE
  BY DEF Apart, f
<1>4. f[i][1] = "r" /\ f[j] = <<"w", f[i][2]>> /\ f[j][1] = "w"
  BY <1>3 DEF Pairs
<1>5. i \notin S /\ j \notin S /\ f[i] = fds[i] /\ f[j] = fds[j]
  BY <1>1, <1>2, <1>4
<1>6. Pairs(fds, i, j)
  BY <1>4, <1>5 DEF Pairs
<1> QED BY <1>5, <1>6

LEMMA WriteCloses ==
    ASSUME NEW fds \in [Fd -> Thing], NEW w, \A j \in Fd : fds[j][1] = "w" => j = w, NEW S, w \in S
    PROVE  NoWrites(Close(fds, S))
<1> DEFINE f == Close(fds, S)
<1>1. Closed[1] = "closed"
  BY DEF Closed
<1>2. f = [k \in Fd |-> IF k \in S THEN Closed ELSE fds[k]]
  BY DEF Close
<1> HIDE DEF f
<1>3. ASSUME NEW j \in Fd PROVE f[j][1] # "w"
  BY <1>1, <1>2
<1> QED BY <1>3 DEF NoWrites, f

\* With no document there are no two ends.
LEMMA ApartThen ==
    ASSUME NEW fds, NEW todo, NoDocument(todo, 0), DOMAIN todo \subseteq Nat \ {0}
    PROVE  \A p : EndsOK(p, fds, todo) <=> Clear(p, fds)
<1>1. \A k \in DOMAIN todo : k > 0
  OBVIOUS
<1>2. \A k \in DOMAIN todo : todo[k].task # "document"
  BY <1>1 DEF NoDocument
<1> QED BY <1>2 DEF EndsOK, Clear, PairsOK, HeldOK, Apart, NoWrites

-----------------------------------------------------------------------------
(* Documents among the tasks *)

LEMMA NoneBehind ==
    ASSUME NEW s, TasksOK(s), s # <<>>, s[1].task # "write"
    PROVE  NoDocument(s, 1) /\ (s[1].task # "document" => NoDocument(s, 0))
<1>1. \A k \in DOMAIN s : s[k].task = "document" => k = 1
  BY DEF TasksOK, PlaceOK
<1>2. \A k \in DOMAIN s : k \in Nat \ {0}
  BY RangeSeq DEF TasksOK
<1> QED BY <1>1, <1>2 DEF NoDocument

\* New tasks that are none, in front of tasks that are none.
LEMMA NewTasks ==
    ASSUME NEW s, TasksOK(s), NEW m \in Nat, NoDocument(s, m), NEW n \in Nat, NEW t, Behind(t, n, s, m),
           \A k \in DOMAIN t : k <= n => NeedsOK(t[k]) /\ t[k].task # "document"
    PROVE  TasksOK(t) /\ NoDocument(t, 0)
<1>1. t \in Seq(Range(t)) /\ DOMAIN t \subseteq Nat
  BY RangeSeq DEF Behind
<1>2. ASSUME NEW k \in DOMAIN t PROVE NeedsOK(t[k]) /\ t[k].task # "document"
  <2>1. CASE k <= n
    BY <2>1
  <2>2. CASE k > n
    <3>1. (k - n) + m \in DOMAIN s /\ t[k] = s[(k - n) + m] /\ (k - n) + m > m
      BY <1>1, <2>2 DEF Behind
    <3> QED BY <3>1 DEF TasksOK, NoDocument
  <2>3. k <= n \/ k > n
    BY <1>1
  <2> QED BY <2>1, <2>2, <2>3
<1> QED BY <1>1, <1>2 DEF TasksOK, PlaceOK, NoDocument

\* A line has been written, or a part of it.
LEMMA AfterWrite ==
    ASSUME NEW s, TasksOK(s), s # <<>>, s[1].task = "write", NEW t, Behind(t, 0, s, 1)
    PROVE  TasksOK(t) /\ \A p, fds : EndsOK(p, fds, s) => EndsOK(p, fds, t)
<1>1. /\ DOMAIN s = 1 .. Len(s) /\ Len(s) \in Nat \ {0} /\ t \in Seq(Range(t)) /\ DOMAIN t = 1 .. Len(s) - 1
      /\ \A k \in DOMAIN t : k + 1 \in DOMAIN s /\ t[k] = s[k + 1]
  <2>1. DOMAIN s = 1 .. Len(s) /\ Len(s) \in Nat \ {0}
    BY RangeSeq, EmptySeq DEF TasksOK
  <2>2. DOMAIN t = 1 .. 0 + (Len(s) - 1) /\ \A k \in DOMAIN t : k > 0 => (k - 0) + 1 \in DOMAIN s /\ t[k] = s[(k - 0) + 1]
    BY DEF Behind
  <2>3. 0 + (Len(s) - 1) = Len(s) - 1 /\ \A k \in 1 .. Len(s) - 1 : k > 0 /\ (k - 0) + 1 = k + 1
    BY <2>1
  <2> QED BY <2>1, <2>2, <2>3 DEF Behind
<1>2. ASSUME NEW k \in DOMAIN t PROVE NeedsOK(t[k]) /\ PlaceOK(t, k)
  <2>1. k + 1 \in DOMAIN s /\ t[k] = s[k + 1] /\ NeedsOK(s[k + 1]) /\ PlaceOK(s, k + 1)
    BY <1>1 DEF TasksOK
  <2>2. ASSUME t[k].task = "document" PROVE k = 1 /\ k + 1 \in DOMAIN t /\ t[k + 1].task = "redirect"
    <3>1. (k + 1 = 1 \/ k + 1 = 2) /\ (k + 1) + 1 \in DOMAIN s /\ s[(k + 1) + 1].task = "redirect"
      BY <2>1, <2>2 DEF PlaceOK
    <3>2. k = 1 /\ k + 1 \in DOMAIN t
      BY <1>1, <3>1
    <3> QED BY <1>1, <3>1, <3>2
  <2> QED BY <2>1, <2>2 DEF PlaceOK
<1>3. ASSUME NEW k \in DOMAIN s, s[k].task = "document" PROVE k - 1 \in DOMAIN t /\ t[k - 1] = s[k]
  <2>1. k # 1
    BY <1>3
  <2>2. k - 1 \in DOMAIN t /\ (k - 1) + 1 = k
    BY <1>1, <2>1
  <2> QED BY <1>1, <2>2
<1>4. ASSUME NEW fds, PairsOK(fds, s) PROVE PairsOK(fds, t)
  <2> SUFFICES ASSUME NEW r \in Fd, NEW w \in Fd, Pairs(fds, r, w)
               PROVE  \E k \in DOMAIN t : t[k].task = "document" /\ t[k].r = r /\ t[k].w = w
    BY DEF PairsOK
  <2>1. PICK k \in DOMAIN s : s[k].task = "document" /\ s[k].r = r /\ s[k].w = w
    BY <1>4 DEF PairsOK
  <2>2. k - 1 \in DOMAIN t /\ t[k - 1] = s[k]
    BY <1>3, <2>1
  <2> QED BY <2>1, <2>2, Zenon
<1>5. ASSUME NEW fds, HeldOK(fds, s) PROVE HeldOK(fds, t)
  <2> SUFFICES ASSUME NEW w \in Fd, fds[w][1] = "w"
               PROVE  \E k \in DOMAIN t : t[k].task = "document" /\ t[k].w = w
    BY DEF HeldOK
  <2>1. PICK k \in DOMAIN s : s[k].task = "document" /\ s[k].w = w
    BY <1>5 DEF HeldOK
  <2>2. k - 1 \in DOMAIN t /\ t[k - 1] = s[k]
    BY <1>3, <2>1
  <2> QED BY <2>1, <2>2, Zenon
<1> QED BY <1>1, <1>2, <1>4, <1>5 DEF TasksOK, EndsOK

LEMMA WriteGoesOn ==
    ASSUME NEW s, TasksOK(s), s # <<>>, s[1].task = "write", NEW t, Behind(t, 1, s, 1), t[1].task = "write"
    PROVE  TasksOK(t) /\ \A p, fds : EndsOK(p, fds, s) => EndsOK(p, fds, t)
<1>1. /\ DOMAIN s = 1 .. Len(s) /\ Len(s) \in Nat \ {0} /\ t \in Seq(Range(t)) /\ DOMAIN t = DOMAIN s
      /\ \A k \in DOMAIN t : k # 1 => t[k] = s[k]
  <2>1. DOMAIN s = 1 .. Len(s) /\ Len(s) \in Nat \ {0}
    BY RangeSeq, EmptySeq DEF TasksOK
  <2>2. DOMAIN t = 1 .. 1 + (Len(s) - 1) /\ \A k \in DOMAIN t : k > 1 => t[k] = s[(k - 1) + 1]
    BY DEF Behind
  <2>3. 1 + (Len(s) - 1) = Len(s) /\ \A k \in 1 .. Len(s) : (k # 1 => k > 1) /\ (k - 1) + 1 = k
    BY <2>1
  <2> QED BY <2>1, <2>2, <2>3 DEF Behind
<1>2. ASSUME NEW k \in DOMAIN t PROVE NeedsOK(t[k]) /\ PlaceOK(t, k)
  <2>1. CASE k = 1
    BY <2>1 DEF NeedsOK, PlaceOK
  <2>2. CASE k # 1
    <3>1. t[k] = s[k] /\ NeedsOK(s[k]) /\ PlaceOK(s, k)
      BY <1>1, <2>2 DEF TasksOK
    <3>2. k + 1 \in DOMAIN t => t[k + 1] = s[k + 1]
      BY <1>1
    <3> QED BY <1>1, <3>1, <3>2 DEF PlaceOK
  <2> QED BY <2>1, <2>2
<1>3. \A k \in DOMAIN s : s[k].task = "document" => t[k] = s[k]
  BY <1>1
<1> QED BY <1>1, <1>2, <1>3 DEF TasksOK, EndsOK, PairsOK, HeldOK

\* A document starts, or goes on with its next line.
LEMMA DocumentBegins ==
    ASSUME NEW s, TasksOK(s), NoDocument(s, 0), s # <<>>, s[1].task = "redirect",
           NEW t, Behind(t, 1, s, 0), t[1].task = "document", t[1].r \in Fd, t[1].w \in Fd
    PROVE  TasksOK(t) /\ 1 \in DOMAIN t
<1>1. /\ DOMAIN s = 1 .. Len(s) /\ Len(s) \in Nat \ {0} /\ t \in Seq(Range(t)) /\ DOMAIN t = 1 .. Len(s) + 1
      /\ \A k \in DOMAIN t : k # 1 => k - 1 \in DOMAIN s /\ t[k] = s[k - 1]
  <2>1. DOMAIN s = 1 .. Len(s) /\ Len(s) \in Nat \ {0}
    BY RangeSeq, EmptySeq DEF TasksOK
  <2>2. DOMAIN t = 1 .. 1 + (Len(s) - 0) /\ \A k \in DOMAIN t : k > 1 => (k - 1) + 0 \in DOMAIN s /\ t[k] = s[(k - 1) + 0]
    BY DEF Behind
  <2>3. 1 + (Len(s) - 0) = Len(s) + 1 /\ \A k \in 1 .. Len(s) + 1 : (k # 1 => k > 1) /\ (k - 1) + 0 = k - 1
    BY <2>1
  <2> QED BY <2>1, <2>2, <2>3 DEF Behind
<1>2. 2 \in DOMAIN t /\ t[2] = s[1] /\ 1 \in DOMAIN t
  <2>1. 2 \in DOMAIN t /\ 2 # 1 /\ 2 - 1 = 1 /\ 1 \in DOMAIN t
    BY <1>1
  <2> QED BY <1>1, <2>1
<1>3. ASSUME NEW k \in DOMAIN t PROVE NeedsOK(t[k]) /\ PlaceOK(t, k)
  <2>1. CASE k = 1
    BY <1>2, <2>1 DEF NeedsOK, PlaceOK
  <2>2. CASE k # 1
    <3>1. k - 1 \in DOMAIN s /\ t[k] = s[k - 1] /\ k - 1 > 0
      BY <1>1, <2>2
    <3> QED BY <3>1 DEF TasksOK, NoDocument, PlaceOK
  <2> QED BY <2>1, <2>2
<1> QED BY <1>1, <1>2, <1>3 DEF TasksOK

LEMMA DocumentGoesOn ==
    ASSUME NEW s, TasksOK(s), s # <<>>, s[1].task = "document", NEW t, Behind(t, 2, s, 1),
           t[1].task = "write", t[2].task = "document", t[2].r = s[1].r, t[2].w = s[1].w
    PROVE  TasksOK(t) /\ \A p, fds : EndsOK(p, fds, s) => EndsOK(p, fds, t)
<1>1. /\ DOMAIN s = 1 .. Len(s) /\ Len(s) \in Nat \ {0} /\ t \in Seq(Range(t)) /\ DOMAIN t = 1 .. Len(s) + 1
      /\ \A k \in DOMAIN t : k # 1 /\ k # 2 => k - 1 \in DOMAIN s /\ k - 1 > 1 /\ t[k] = s[k - 1]
  <2>1. DOMAIN s = 1 .. Len(s) /\ Len(s) \in Nat \ {0}
    BY RangeSeq, EmptySeq DEF TasksOK
  <2>2. DOMAIN t = 1 .. 2 + (Len(s) - 1) /\ \A k \in DOMAIN t : k > 2 => (k - 2) + 1 \in DOMAIN s /\ t[k] = s[(k - 2) + 1]
    BY DEF Behind
  <2>3. 2 + (Len(s) - 1) = Len(s) + 1
        /\ \A k \in 1 .. Len(s) + 1 : (k # 1 /\ k # 2 => k > 2 /\ k - 1 > 1) /\ (k - 2) + 1 = k - 1
    BY <2>1
  <2> QED BY <2>1, <2>2, <2>3 DEF Behind
<1>2. NoDocument(s, 1) /\ 2 \in DOMAIN s /\ s[2].task = "redirect" /\ NeedsOK(s[1])
  <2>1. 1 \in DOMAIN s
    BY <1>1
  <2>2. PlaceOK(s, 1) /\ NeedsOK(s[1]) /\ 1 + 1 = 2
    BY <2>1 DEF TasksOK
  <2> QED BY <2>2, NoneBehind DEF PlaceOK
<1>3. 2 \in DOMAIN t /\ 3 \in DOMAIN t /\ t[3] = s[2]
  <2>1. 2 \in DOMAIN t /\ 3 \in DOMAIN t /\ 3 # 1 /\ 3 # 2 /\ 3 - 1 = 2
    BY <1>1, <1>2
  <2> QED BY <1>1, <2>1
<1>4. ASSUME NEW k \in DOMAIN t PROVE NeedsOK(t[k]) /\ PlaceOK(t, k)
  <2>1. CASE k = 1
    BY <2>1 DEF NeedsOK, PlaceOK
  <2>2. CASE k = 2
    <3>1. k + 1 = 3
      BY <2>2
    <3> QED BY <1>2, <1>3, <2>2, <3>1 DEF NeedsOK, PlaceOK
  <2>3. CASE k # 1 /\ k # 2
    <3>1. k - 1 \in DOMAIN s /\ t[k] = s[k - 1] /\ k - 1 > 1
      BY <1>1, <2>3
    <3> QED BY <1>2, <3>1 DEF TasksOK, NoDocument, PlaceOK
  <2> QED BY <2>1, <2>2, <2>3
<1>5. ASSUME NEW k \in DOMAIN s, s[k].task = "document" PROVE k = 1
  BY <1>1, <1>2, <1>5 DEF NoDocument
<1> QED BY <1>1, <1>3, <1>4, <1>5 DEF TasksOK, EndsOK, PairsOK, HeldOK

-----------------------------------------------------------------------------
(* Steps of any process *)

\* The process p goes on with these descriptors, tasks and saved descriptors, and may start another.
GoesOn(p, f, t, sv) == procs' = Becomes(p, f, t, sv)
Starts(p, f, t, sv, y) == procs' = Append(Becomes(p, f, t, sv), y)

LEMMA MorePipes ==
    ASSUME NEW p, NEW q, NEW n \in Nat, NEW m \in Nat, n <= m, ProcessOK(p, q, n)
    PROVE  ProcessOK(p, q, m)
<1>1. ThingsOK(q.fds, m)
  BY DEF ProcessOK, ThingsOK
<1> QED BY <1>1 DEF ProcessOK

LEMMA OtherProcesses ==
    ASSUME Inv, ApartInv, faults = 0, NEW p \in DOMAIN procs, NEW z, ProcessOK(p, z, Len(pipes')),
           Len(pipes') \in Nat, Len(pipes) <= Len(pipes'),
           \/ procs' = [procs EXCEPT ![p] = z]
           \/ \E y : procs' = Append([procs EXCEPT ![p] = z], y) /\ ProcessOK(Len(procs) + 1, y, Len(pipes'))
    PROVE  \A q \in DOMAIN procs' : ProcessOK(q, procs'[q], Len(pipes'))
<1> DEFINE ps == [procs EXCEPT ![p] = z]
           m == Len(pipes')
<1>1. procs \in Seq(Range(procs)) /\ Len(pipes) \in Nat
  BY LenProperties DEF Inv
<1>2. Len(procs) \in Nat /\ DOMAIN procs = 1 .. Len(procs)
  BY <1>1, RangeSeq
<1>3. ps \in Seq(Range(procs) \cup {z}) /\ Len(ps) = Len(procs) /\ DOMAIN ps = 1 .. Len(procs)
      /\ \A q \in DOMAIN ps : ps[q] = IF q = p THEN z ELSE procs[q]
  <2> DEFINE U == Range(procs) \cup {z}
  <2>1. Range(procs) \subseteq U /\ z \in U /\ p \in 1 .. Len(procs)
    BY <1>2
  <2> HIDE DEF U
  <2>2. procs \in Seq(U)
    BY <1>1, <2>1, SeqMonotonic
  <2>3. ps \in Seq(U) /\ Len(ps) = Len(procs) /\ \A j \in 1 .. Len(procs) : ps[j] = IF j = p THEN z ELSE procs[j]
    BY <2>1, <2>2, ExceptSeq
  <2> QED BY <2>3, LenProperties DEF U
<1>4. ASSUME NEW q \in DOMAIN procs PROVE ProcessOK(q, procs[q], m)
  <2>1. ProcessOK(q, procs[q], Len(pipes))
    BY DEF ApartInv
  <2> QED BY <1>1, <2>1, MorePipes
<1> HIDE DEF ps, m
<1>5. ASSUME NEW q \in DOMAIN ps PROVE ProcessOK(q, ps[q], m)
  <2>1. CASE q = p
    BY <1>3, <2>1 DEF m
  <2>2. CASE q # p
    BY <1>2, <1>3, <1>4, <2>2
  <2> QED BY <2>1, <2>2
<1>6. CASE procs' = ps
  BY <1>5, <1>6 DEF m
<1>7. ASSUME NEW y, procs' = Append(ps, y), ProcessOK(Len(procs) + 1, y, m)
      PROVE  \A q \in DOMAIN procs' : ProcessOK(q, procs'[q], m)
  <2>1. DOMAIN Append(ps, y) = 1 .. Len(ps) + 1 /\ Append(ps, y)[Len(ps) + 1] = y
        /\ \A q \in 1 .. Len(ps) : Append(ps, y)[q] = ps[q]
    BY <1>3
  <2>2. \A q \in 1 .. Len(ps) + 1 : q \in 1 .. Len(ps) \/ q = Len(ps) + 1
    BY <1>2, <1>3
  <2> QED BY <1>3, <1>5, <1>7, <2>1, <2>2
<1> QED BY <1>6, <1>7 DEF ps, m

\* What holds of the process p before its step.
MineIs(p, f, s, sv) ==
    /\ p \in DOMAIN procs /\ procs[p].fds = f /\ procs[p].todo = s /\ procs[p].saved = sv
    /\ f \in [Fd -> Thing] /\ ThingsOK(f, Len(pipes)) /\ EndsOK(p, f, s)
    /\ sv \in Seq([dup_fd : Fd, redir_fd : Fd]) /\ TasksOK(s)
    /\ Len(pipes) \in Nat

LEMMA Mine ==
    ASSUME Inv, ApartInv, faults = 0, NEW p \in DOMAIN procs
    PROVE  MineIs(p, procs[p].fds, procs[p].todo, procs[p].saved)
<1>1. ProcessOK(p, procs[p], Len(pipes))
  BY DEF ApartInv
<1>2. Len(pipes) \in Nat
  BY LenProperties DEF Inv
<1> QED BY <1>1, <1>2 DEF MineIs, ProcessOK, ThingsOK

\* A step that is allowed.
Allowed == \A q \in DOMAIN procs' : ProcessOK(q, procs'[q], Len(pipes'))

ChildOK(y) == ProcessOK(Len(procs) + 1, y, Len(pipes'))

LEMMA StepAllowed ==
    ASSUME Inv, ApartInv, faults = 0, NEW p \in DOMAIN procs, NEW f, NEW t, NEW sv,
           Len(pipes') \in Nat, Len(pipes) <= Len(pipes'),
           GoesOn(p, f, t, sv) \/ \E y : Starts(p, f, t, sv, y) /\ ChildOK(y),
           ThingsOK(f, Len(pipes')), sv \in Seq([dup_fd : Fd, redir_fd : Fd]), TasksOK(t), EndsOK(p, f, t)
    PROVE  Allowed
<1> DEFINE z == [fds |-> f, todo |-> t, saved |-> sv, ended |-> FALSE]
<1>1. z.fds = f /\ z.todo = t /\ z.saved = sv
  OBVIOUS
<1> HIDE DEF z
<1>2. ProcessOK(p, z, Len(pipes'))
  BY <1>1 DEF ProcessOK
<1>3. \/ procs' = [procs EXCEPT ![p] = z]
      \/ \E y : procs' = Append([procs EXCEPT ![p] = z], y) /\ ProcessOK(Len(procs) + 1, y, Len(pipes'))
  BY DEF GoesOn, Starts, ChildOK, Becomes, z
<1> QED BY <1>2, <1>3, OtherProcesses DEF Allowed

LEMMA EndAllowed ==
    ASSUME Inv, ApartInv, faults = 0, NEW p \in DOMAIN procs, procs' = Ends(procs, p),
           Len(pipes') \in Nat, Len(pipes) <= Len(pipes')
    PROVE  Allowed
<1> DEFINE z == [fds |-> [k \in Fd |-> Closed], todo |-> <<>>, saved |-> <<>>, ended |-> TRUE]
<1>1. z.fds = [k \in Fd |-> Closed] /\ z.todo = <<>> /\ z.saved = <<>>
  OBVIOUS
<1>2. procs' = [procs EXCEPT ![p] = z]
  BY DEF Ends
<1> HIDE DEF z
<1>3. Closed \in Thing /\ Closed[1] = "closed"
  BY DEF Closed, Thing
<1>4. ThingsOK(z.fds, Len(pipes')) /\ \A k \in Fd : z.fds[k][1] = "closed"
  BY <1>1, <1>3 DEF ThingsOK
<1>5. EndsOK(p, z.fds, z.todo)
  BY <1>4 DEF EndsOK, PairsOK, HeldOK, Pairs
<1>6. <<>> \in Seq([dup_fd : Fd, redir_fd : Fd]) /\ <<>> \in Seq(Range(<<>>)) /\ DOMAIN <<>> = {}
  OBVIOUS
<1>7. TasksOK(z.todo)
  BY <1>1, <1>6 DEF TasksOK
<1>8. ProcessOK(p, z, Len(pipes'))
  BY <1>1, <1>4, <1>5, <1>6, <1>7 DEF ProcessOK
<1> QED BY <1>2, <1>8, OtherProcesses DEF Allowed

\* The ways in which the actions write it.
LEMMA GoesOnForms ==
    ASSUME NEW p, NEW f, NEW t, NEW sv, NEW y
    PROVE  /\ procs' = Becomes(p, f, t, sv) => GoesOn(p, f, t, sv)
           /\ procs' = DoesWith(p, f, t) => GoesOn(p, f, t, procs[p].saved)
           /\ procs' = Append(DoesWith(p, f, t), y) => Starts(p, f, t, procs[p].saved, y)
           /\ procs' = Does(p, t) => GoesOn(p, procs[p].fds, t, procs[p].saved)
           /\ procs' = Append(Does(p, t), y) => Starts(p, procs[p].fds, t, procs[p].saved, y)
BY DEF GoesOn, Starts, DoesWith, Does

\* A new process with one or two tasks that are no documents.
LEMMA ProcessStarts ==
    ASSUME NEW fds, NEW n, ThingsOK(fds, n), Apart(fds), NEW todo, todo \in Seq(Range(todo)),
           \A k \in DOMAIN todo : NeedsOK(todo[k]) /\ todo[k].task # "document"
    PROVE  \A c : c # 1 => ProcessOK(c, Process(fds, todo), n)
<1> DEFINE z == Process(fds, todo)
<1>1. z.fds = fds /\ z.todo = todo /\ z.saved = <<>>
  BY DEF Process
<1> HIDE DEF z
<1>2. \A c : c # 1 => EndsOK(c, fds, todo)
  BY DEF EndsOK, PairsOK, Apart
<1>3. TasksOK(todo)
  BY DEF TasksOK, PlaceOK
<1>4. <<>> \in Seq([dup_fd : Fd, redir_fd : Fd])
  OBVIOUS
<1> QED BY <1>1, <1>2, <1>3, <1>4 DEF ProcessOK, z

\* Before a step of the process p that is not a fault.
Before(p) == Inv /\ ApartInv /\ faults = 0 /\ faults' = 0 /\ p \in DOMAIN procs /\ Steps(p)

\* A step that ends the first task, which is no write, and is left with the two ends of no pipe.
LEMMA PlainStep ==
    ASSUME NEW p, Before(p), NEW s, s = procs[p].todo, s # <<>>, s[1].task # "write",
           NEW n \in Nat, NEW m \in Nat, m >= 1 \/ s[1].task # "document", NEW t, Behind(t, n, s, m),
           \A k \in DOMAIN t : k <= n => NeedsOK(t[k]) /\ t[k].task # "document",
           NEW g, ThingsOK(g, Len(pipes')), Clear(p, g), NEW v \in Seq([dup_fd : Fd, redir_fd : Fd]),
           GoesOn(p, g, t, v) \/ \E y : Starts(p, g, t, v, y) /\ ChildOK(y)
    PROVE  Allowed
<1>1. TasksOK(s) /\ p \in DOMAIN procs
  BY Mine DEF Before, MineIs
<1>2. NoDocument(s, m)
  <2>1. NoDocument(s, 1) /\ (s[1].task # "document" => NoDocument(s, 0))
    BY <1>1, NoneBehind
  <2>2. \A k \in DOMAIN s : k \in Nat
    BY <1>1, RangeSeq DEF TasksOK
  <2> QED BY <2>1, <2>2 DEF NoDocument
<1>3. TasksOK(t) /\ NoDocument(t, 0)
  BY <1>1, <1>2, NewTasks
<1>4. DOMAIN t \subseteq Nat \ {0}
  BY <1>3, RangeSeq DEF TasksOK
<1>5. EndsOK(p, g, t)
  BY <1>3, <1>4, ApartThen
<1> QED BY <1>1, <1>3, <1>5, StepAllowed DEF Before, Steps

\* The process that is started is not the shell.
LEMMA ChildStarts ==
    ASSUME NEW p, Before(p), NEW y, \A c : c # 1 => ProcessOK(c, y, Len(pipes'))
    PROVE  ChildOK(y)
<1>1. Len(procs) \in Nat \ {0}
  BY EmptySeq DEF Before, Inv
<1>2. Len(procs) + 1 # 1
  BY <1>1
<1> QED BY <1>2 DEF ChildOK

\* What the process p has when its first task is neither a document nor a write.
LEMMA NothingPaired ==
    ASSUME NEW p, Before(p), NEW s, s = procs[p].todo, s # <<>>, s[1].task \notin {"write", "document"}
    PROVE  Clear(p, procs[p].fds)
<1>1. TasksOK(s) /\ EndsOK(p, procs[p].fds, s)
  BY Mine DEF Before, MineIs
<1>2. NoDocument(s, 0) /\ DOMAIN s \subseteq Nat \ {0}
  BY <1>1, NoneBehind, RangeSeq DEF TasksOK
<1> QED BY <1>1, <1>2, ApartThen

\* What the first task needs.
LEMMA FirstNeeds ==
    ASSUME NEW p, Before(p), NEW s, s = procs[p].todo, s # <<>>
    PROVE  NeedsOK(s[1]) /\ PlaceOK(s, 1) /\ s \in Seq(Range(s)) /\ 1 \in DOMAIN s /\ Len(s) \in Nat \ {0} /\ TasksOK(s)
<1>1. TasksOK(s)
  BY Mine DEF Before, MineIs
<1>2. 1 \in DOMAIN s /\ Len(s) \in Nat \ {0}
  BY <1>1, RangeSeq, EmptySeq DEF TasksOK
<1> QED BY <1>1, <1>2 DEF TasksOK

LEMMA FirstOf ==
    ASSUME NEW stages, StagesOK(stages), Len(stages) >= 1
    PROVE  CommandOK(stages[1]) /\ 1 \in DOMAIN stages
<1>1. 1 \in DOMAIN stages
  BY RangeSeq DEF StagesOK
<1> QED BY <1>1 DEF StagesOK

LEMMA CommandTasks ==
    ASSUME NEW c, CommandOK(c), NEW b
    PROVE  /\ NeedsOK(Redirect(c.redirs, b, None)) /\ Redirect(c.redirs, b, None).task = "redirect"
           /\ NeedsOK(c.run) /\ c.run.task \in {"write", "cat"} /\ NeedsOK(Restore) /\ Restore.task = "restore"
<1> DEFINE a == Redirect(c.redirs, b, None)
<1>1. a.task = "redirect" /\ a.left = c.redirs /\ a.fd = None
  BY DEF Redirect
<1> HIDE DEF a
<1>2. NeedsOK(a)
  BY <1>1 DEF CommandOK, NeedsOK
<1>3. c.run.task \in {"write", "cat"}
  BY DEF CommandOK, Runs
<1>4. NeedsOK(c.run)
  BY <1>3 DEF NeedsOK
<1>5. Restore.task = "restore"
  BY DEF Restore
<1>6. NeedsOK(Restore)
  BY <1>5 DEF NeedsOK
<1> QED BY <1>1, <1>2, <1>3, <1>4, <1>5, <1>6 DEF a

LEMMA BuiltinAllowed == ASSUME NEW p, Before(p), run_builtin(p) PROVE Allowed
<1> DEFINE s == procs[p].todo
           f == procs[p].fds
           sv == procs[p].saved
           c == s[1].stages[1]
           a == Redirect(c.redirs, TRUE, None)
           t == <<a, c.run, Restore>> \o Tail(s)
<1>1. /\ s # <<>> /\ s[1].task = "command" /\ Len(s[1].stages) = 1 /\ pipes' = pipes
      /\ procs' = Does(p, t)
  BY DEF run_builtin, Doing, Now, Rest
<1>2. MineIs(p, f, s, sv)
  BY Mine DEF Before
<1>3. Clear(p, f) /\ NeedsOK(s[1]) /\ s \in Seq(Range(s)) /\ s # <<>>
  <2> HIDE DEF f
  <2> QED BY <1>1, NothingPaired, FirstNeeds DEF f
<1> HIDE DEF s, f, sv
<1>4. CommandOK(c)
  BY <1>1, <1>3, FirstOf DEF NeedsOK
<1>5. /\ NeedsOK(a) /\ a.task = "redirect" /\ NeedsOK(c.run) /\ c.run.task \in {"write", "cat"}
      /\ NeedsOK(Restore) /\ Restore.task = "restore"
  BY <1>4, CommandTasks
<1>6. GoesOn(p, f, t, sv)
  BY <1>1, GoesOnForms DEF f, sv
<1>7. Behind(t, 3, s, 1) /\ t[1] = a /\ t[2] = c.run /\ t[3] = Restore
  <2> DEFINE run == c.run
             u == <<a, run, Restore>> \o Tail(s)
  <2> HIDE DEF a, run
  <2>1. Behind(u, 3, s, 1) /\ u[1] = a /\ u[2] = run /\ u[3] = Restore
    <3>1. Shapes(s, a, run, Restore)
      BY <1>3, TodoShapes
    <3> QED BY <3>1 DEF Shapes
  <2> QED BY <2>1 DEF run
<1> HIDE DEF c, a, t
<1>8. ASSUME NEW k \in DOMAIN t, k <= 3 PROVE NeedsOK(t[k]) /\ t[k].task # "document"
  <2>1. k \in Nat \ {0}
    BY <1>7, RangeSeq DEF Behind
  <2>2. k = 1 \/ k = 2 \/ k = 3
    BY <1>8, <2>1
  <2> QED BY <1>5, <1>7, <2>2
<1>9. ThingsOK(f, Len(pipes')) /\ sv \in Seq([dup_fd : Fd, redir_fd : Fd])
  BY <1>1, <1>2 DEF MineIs
<1> QED BY <1>1, <1>3, <1>6, <1>7, <1>8, <1>9, PlainStep DEF s

LEMMA ProgramAllowed == ASSUME NEW p, Before(p), run_process(p) PROVE Allowed
<1> DEFINE s == procs[p].todo
           f == procs[p].fds
           sv == procs[p].saved
           c == s[1].stages[1]
           a == Redirect(c.redirs, FALSE, None)
           w == Wait({Len(procs) + 1})
           t == <<w>> \o Tail(s)
           y == Process(f, <<a, c.run>>)
<1>1. /\ s # <<>> /\ s[1].task = "command" /\ Len(s[1].stages) = 1 /\ pipes' = pipes
      /\ procs' = Append(Does(p, t), y)
  <2>1. ~Fault
    BY DEF Fault, Before
  <2> QED BY <2>1 DEF run_process, Doing, Now, Rest
<1>2. MineIs(p, f, s, sv)
  BY Mine DEF Before
<1>3. Clear(p, f) /\ NeedsOK(s[1]) /\ s \in Seq(Range(s)) /\ s # <<>>
  <2> HIDE DEF f
  <2> QED BY <1>1, NothingPaired, FirstNeeds DEF f
<1> HIDE DEF s, f, sv
<1>4. CommandOK(c)
  BY <1>1, <1>3, FirstOf DEF NeedsOK
<1>5. NeedsOK(a) /\ a.task = "redirect" /\ NeedsOK(c.run) /\ c.run.task \in {"write", "cat"}
  BY <1>4, CommandTasks
<1>6. Starts(p, f, t, sv, y)
  BY <1>1, GoesOnForms DEF f, sv
<1>7. Behind(t, 1, s, 1) /\ t[1] = w
  <2> HIDE DEF w
  <2> QED BY <1>3, TodoShapes DEF Shapes
<1>8. w.task = "wait"
  BY DEF Wait
<1>9. ThingsOK(f, Len(pipes')) /\ sv \in Seq([dup_fd : Fd, redir_fd : Fd])
  BY <1>1, <1>2 DEF MineIs
<1> HIDE DEF a, t, w
<1>10. ChildOK(y)
  <2> DEFINE run == c.run
             todo == <<a, run>>
  <2> HIDE DEF run
  <2>1. todo \in Seq({a, run}) /\ DOMAIN todo = {1, 2} /\ todo[1] = a /\ todo[2] = run
    OBVIOUS
  <2>2. todo \in Seq(Range(todo))
    BY <2>1, RangeSeq
  <2> HIDE DEF todo, c
  <2>3. \A k \in DOMAIN todo : NeedsOK(todo[k]) /\ todo[k].task # "document"
    BY <1>5, <2>1 DEF run
  <2>4. Apart(f)
    BY <1>3 DEF Clear
  <2>5. ChildOK(Process(f, todo))
    BY <1>9, <2>2, <2>3, <2>4, ProcessStarts, ChildStarts
  <2> QED BY <2>5 DEF todo, run
<1> HIDE DEF c, y
<1>11. ASSUME NEW k \in DOMAIN t, k <= 1 PROVE NeedsOK(t[k]) /\ t[k].task # "document"
  <2>1. k \in Nat \ {0}
    BY <1>7, RangeSeq DEF Behind
  <2>2. k = 1
    BY <1>11, <2>1
  <2> QED BY <1>7, <1>8, <2>2 DEF NeedsOK
<1> QED BY <1>1, <1>3, <1>6, <1>7, <1>9, <1>10, <1>11, PlainStep DEF s

LEMMA OneTask ==
    ASSUME NEW t, NEW s, NEW m, Behind(t, 1, s, m), NeedsOK(t[1]), t[1].task # "document"
    PROVE  \A k \in DOMAIN t : k <= 1 => NeedsOK(t[k]) /\ t[k].task # "document"
<1>1. \A k \in DOMAIN t : k \in Nat \ {0}
  BY RangeSeq DEF Behind
<1>2. \A k \in DOMAIN t : k <= 1 => k = 1
  BY <1>1
<1> QED BY <1>2

LEMMA NoTask ==
    ASSUME NEW t, NEW s, NEW m, Behind(t, 0, s, m)
    PROVE  \A k \in DOMAIN t : ~(k <= 0)
<1>1. \A k \in DOMAIN t : k \in Nat \ {0}
  BY RangeSeq DEF Behind
<1> QED BY <1>1

LEMMA PipelineAllowed == ASSUME NEW p, Before(p), run_pipeline(p) PROVE Allowed
<1> DEFINE s == procs[p].todo
           f == procs[p].fds
           sv == procs[p].saved
           a == Stage(s[1].stages, None, {})
           t == <<a>> \o Tail(s)
<1>1. s # <<>> /\ s[1].task = "command" /\ Len(s[1].stages) > 1 /\ pipes' = pipes /\ procs' = Does(p, t)
  BY DEF run_pipeline, Doing, Now, Rest
<1>2. MineIs(p, f, s, sv)
  BY Mine DEF Before
<1>3. Clear(p, f) /\ NeedsOK(s[1]) /\ s \in Seq(Range(s)) /\ s # <<>>
  <2> HIDE DEF f
  <2> QED BY <1>1, NothingPaired, FirstNeeds DEF f
<1> HIDE DEF s, f, sv
<1>4. GoesOn(p, f, t, sv)
  BY <1>1, GoesOnForms DEF f, sv
<1>5. a.task = "stage" /\ a.left = s[1].stages /\ a.cur_stdin = None
  BY DEF Stage
<1>6. NeedsOK(a)
  <2>1. s[1].stages # <<>>
    BY <1>1
  <2>2. StagesOK(s[1].stages)
    BY <1>1, <1>3 DEF NeedsOK
  <2> HIDE DEF a
  <2> QED BY <1>5, <2>1, <2>2 DEF NeedsOK
<1>7. Behind(t, 1, s, 1) /\ t[1] = a
  BY <1>3, TodoShapes DEF Shapes
<1> HIDE DEF a, t
<1>8. \A k \in DOMAIN t : k <= 1 => NeedsOK(t[k]) /\ t[k].task # "document"
  BY <1>5, <1>6, <1>7, OneTask
<1>9. ThingsOK(f, Len(pipes')) /\ sv \in Seq([dup_fd : Fd, redir_fd : Fd])
  BY <1>1, <1>2 DEF MineIs
<1> QED BY <1>1, <1>3, <1>4, <1>7, <1>8, <1>9, PlainStep DEF s

\* The first task is done and nothing else happens.
LEMMA PopAllowed ==
    ASSUME NEW p, Before(p), NEW s, s = procs[p].todo, s # <<>>, s[1].task \notin {"write", "document"},
           Len(pipes') = Len(pipes), procs' = Does(p, Tail(s))
    PROVE  Allowed
<1> DEFINE f == procs[p].fds
           sv == procs[p].saved
<1>1. MineIs(p, f, s, sv)
  BY Mine DEF Before
<1>2. Clear(p, f) /\ s \in Seq(Range(s))
  <2> HIDE DEF f
  <2> QED BY NothingPaired, FirstNeeds DEF f
<1> HIDE DEF f, sv
<1>3. GoesOn(p, f, Tail(s), sv)
  BY GoesOnForms DEF f, sv
<1>4. Behind(Tail(s), 0, s, 1)
  BY <1>2, TodoShapes DEF Shapes
<1>5. \A k \in DOMAIN Tail(s) : ~(k <= 0)
  BY <1>4, NoTask
<1>6. ThingsOK(f, Len(pipes')) /\ sv \in Seq([dup_fd : Fd, redir_fd : Fd])
  BY <1>1 DEF MineIs
<1> QED BY <1>2, <1>3, <1>4, <1>5, <1>6, PlainStep

LEMMA WaitAllowed == ASSUME NEW p, Before(p), job_wait_process(p) PROVE Allowed
<1> DEFINE s == procs[p].todo
<1>1. s # <<>> /\ s[1].task = "wait" /\ pipes' = pipes /\ procs' = Does(p, Tail(s))
  BY DEF job_wait_process, Doing, Now, Rest
<1> HIDE DEF s
<1> QED BY <1>1, PopAllowed DEF s

LEMMA ExitAllowed == ASSUME NEW p, Before(p), Exit(p) PROVE Allowed
BY EndAllowed DEF Exit, Before, Steps

LEMMA CatAllowed == ASSUME NEW p, Before(p), Cat(p) PROVE Allowed
<1> DEFINE s == procs[p].todo
           f == procs[p].fds
           sv == procs[p].saved
           a == WriteTo(1, 1)
           t == <<a>> \o s
<1>1. s # <<>> /\ s[1].task = "cat" /\ ((procs' = Does(p, Tail(s)) /\ pipes' = pipes) \/ procs' = Does(p, t))
  BY DEF Cat, Doing, Now, Rest
<1>2. MineIs(p, f, s, sv)
  BY Mine DEF Before
<1>3. Clear(p, f) /\ s \in Seq(Range(s)) /\ s # <<>>
  <2> HIDE DEF f
  <2> QED BY <1>1, NothingPaired, FirstNeeds DEF f
<1> HIDE DEF s, f, sv
<1>4. CASE procs' = Does(p, Tail(s)) /\ pipes' = pipes
  BY <1>1, <1>4, PopAllowed DEF s
<1>5. CASE procs' = Does(p, t)
  <2>1. GoesOn(p, f, t, sv)
    BY <1>5, GoesOnForms DEF f, sv
  <2>2. a.task = "write" /\ NeedsOK(a)
    BY DEF WriteTo, NeedsOK
  <2> HIDE DEF a
  <2>3. Behind(t, 1, s, 0) /\ t[1] = a
    <3>1. Shapes(s, a, a, a)
      BY <1>3, TodoShapes
    <3> QED BY <3>1 DEF Shapes
  <2> HIDE DEF t
  <2>4. \A k \in DOMAIN t : k <= 1 => NeedsOK(t[k]) /\ t[k].task # "document"
    BY <2>2, <2>3, OneTask
  <2>5. ThingsOK(f, Len(pipes')) /\ sv \in Seq([dup_fd : Fd, redir_fd : Fd])
    <3>1. ThingsOK(f, Len(pipes)) /\ Len(pipes) \in Nat /\ Len(pipes') \in Nat /\ Len(pipes) <= Len(pipes')
          /\ sv \in Seq([dup_fd : Fd, redir_fd : Fd])
      BY <1>2 DEF MineIs, Before, Steps
    <3> QED BY <3>1 DEF ThingsOK
  <2> QED BY <1>1, <1>3, <2>1, <2>3, <2>4, <2>5, PlainStep DEF s
<1> QED BY <1>1, <1>4, <1>5

LEMMA WriteAllowed == ASSUME NEW p, Before(p), Write(p) PROVE Allowed
<1> DEFINE s == procs[p].todo
           f == procs[p].fds
           sv == procs[p].saved
           a == WriteTo(s[1].fd, s[1].len - 1)
           t == <<a>> \o Tail(s)
<1>1. s # <<>> /\ s[1].task = "write"
      /\ (procs' = Does(p, Tail(s)) \/ procs' = Ends(procs, p) \/ procs' = Does(p, t))
  BY DEF Write, Doing, Now, Rest
<1>2. MineIs(p, f, s, sv)
  BY Mine DEF Before
<1>3. /\ ThingsOK(f, Len(pipes')) /\ sv \in Seq([dup_fd : Fd, redir_fd : Fd]) /\ TasksOK(s) /\ EndsOK(p, f, s)
      /\ p \in DOMAIN procs /\ Len(pipes') \in Nat /\ Len(pipes) <= Len(pipes')
  <2>1. ThingsOK(f, Len(pipes)) /\ Len(pipes) \in Nat /\ Len(pipes') \in Nat /\ Len(pipes) <= Len(pipes')
    BY <1>2 DEF MineIs, Before, Steps
  <2>2. ThingsOK(f, Len(pipes'))
    BY <2>1 DEF ThingsOK
  <2> QED BY <1>2, <2>1, <2>2 DEF MineIs
<1>4. CASE procs' = Ends(procs, p)
  BY <1>3, <1>4, EndAllowed DEF Before
<1> HIDE DEF s, f, sv
<1>5. Behind(Tail(s), 0, s, 1) /\ Behind(t, 1, s, 1) /\ t[1].task = "write"
  <2>1. a.task = "write"
    BY DEF WriteTo
  <2> HIDE DEF a
  <2>2. Shapes(s, a, a, a)
    BY <1>1, <1>3, TodoShapes DEF TasksOK
  <2> QED BY <2>1, <2>2 DEF Shapes
<1> HIDE DEF t
<1>6. CASE procs' = Does(p, Tail(s))
  <2>1. GoesOn(p, f, Tail(s), sv)
    BY <1>6, GoesOnForms DEF f, sv
  <2>2. TasksOK(Tail(s)) /\ EndsOK(p, f, Tail(s))
    BY <1>1, <1>3, <1>5, AfterWrite
  <2> QED BY <1>3, <2>1, <2>2, StepAllowed DEF Before
<1>7. CASE procs' = Does(p, t)
  <2>1. GoesOn(p, f, t, sv)
    BY <1>7, GoesOnForms DEF f, sv
  <2>2. TasksOK(t) /\ EndsOK(p, f, t)
    BY <1>1, <1>3, <1>5, WriteGoesOn
  <2> QED BY <1>3, <2>1, <2>2, StepAllowed DEF Before
<1> QED BY <1>1, <1>4, <1>6, <1>7

LEMMA RestoreAllowed == ASSUME NEW p, Before(p), RestoreDescriptors(p) PROVE Allowed
<1> DEFINE s == procs[p].todo
           f == procs[p].fds
           sv == procs[p].saved
           g == Close(dup2(f, sv[1].dup_fd, sv[1].redir_fd), {sv[1].dup_fd})
<1>1. s # <<>> /\ s[1].task = "restore" /\ pipes' = pipes
      /\ (procs' = Does(p, Tail(s)) \/ (sv # <<>> /\ procs' = Becomes(p, g, s, Tail(sv))))
  BY DEF RestoreDescriptors, Unrestored, Doing, Now, Rest
<1>2. MineIs(p, f, s, sv)
  BY Mine DEF Before
<1>3. Clear(p, f) /\ s \in Seq(Range(s)) /\ TasksOK(s)
  <2> HIDE DEF f
  <2> QED BY <1>1, NothingPaired, FirstNeeds DEF f
<1> HIDE DEF s, f, sv
<1>4. CASE procs' = Does(p, Tail(s))
  BY <1>1, <1>4, PopAllowed DEF s
<1>5. CASE sv # <<>> /\ procs' = Becomes(p, g, s, Tail(sv))
  <2>1. sv \in Seq([dup_fd : Fd, redir_fd : Fd]) /\ f \in [Fd -> Thing] /\ ThingsOK(f, Len(pipes')) /\ Len(pipes') \in Nat
    BY <1>1, <1>2 DEF MineIs
  <2>2. Tail(sv) \in Seq([dup_fd : Fd, redir_fd : Fd]) /\ sv[1] \in [dup_fd : Fd, redir_fd : Fd]
    <3> DEFINE V == [dup_fd : Fd, redir_fd : Fd]
    <3> HIDE DEF V
    <3>1. sv \in Seq(V) /\ sv # <<>>
      BY <1>5, <2>1 DEF V
    <3>2. 1 \in 1 .. Len(sv)
      BY <3>1, EmptySeq, LenProperties
    <3>3. sv[1] \in V
      BY <3>1, <3>2, ElementOfSeq
    <3>4. Tail(sv) \in Seq(V)
      BY <3>1, HeadTailProperties
    <3> QED BY <3>3, <3>4 DEF V
  <2> DEFINE x == sv[1]
  <2>3. Drawn(dup2(f, sv[1].dup_fd, sv[1].redir_fd), f)
    <3>1. x \in [dup_fd : Fd, redir_fd : Fd]
      BY <2>2
    <3> HIDE DEF x
    <3>2. x.dup_fd \in Fd
      BY <3>1
    <3>3. Drawn(dup2(f, x.dup_fd, x.redir_fd), f)
      BY <2>1, <3>2, DrawnDup
    <3> QED BY <3>3 DEF x
  <2>4. Drawn(g, dup2(f, sv[1].dup_fd, sv[1].redir_fd))
    <3> DEFINE h == dup2(f, sv[1].dup_fd, sv[1].redir_fd)
    <3>1. h \in [Fd -> Thing]
      BY <2>3 DEF Drawn
    <3> HIDE DEF h
    <3>2. Drawn(Close(h, {sv[1].dup_fd}), h)
      BY <3>1, DrawnClose
    <3> QED BY <3>2 DEF h
  <2>5. Drawn(g, f)
    BY <2>3, <2>4, DrawnTwice
  <2> HIDE DEF g
  <2>6. ThingsOK(g, Len(pipes')) /\ Clear(p, g)
    BY <1>3, <2>1, <2>5, DrawnKeeps
  <2>7. EndsOK(p, g, s)
    BY <2>6 DEF EndsOK, Clear, PairsOK, HeldOK, Apart, NoWrites
  <2>8. GoesOn(p, g, s, Tail(sv))
    BY <1>5 DEF GoesOn
  <2>9. p \in DOMAIN procs /\ Len(pipes) <= Len(pipes')
    BY DEF Before, Steps
  <2> QED BY <1>3, <2>1, <2>2, <2>6, <2>7, <2>8, <2>9, StepAllowed DEF Before
<1> QED BY <1>1, <1>4, <1>5

\* The redirections that are left behind one.
LEMMA RestRedirections ==
    ASSUME NEW n, NeedsOK(n), n.task = "redirect", n.left # <<>>
    PROVE  /\ Redirection(n.left[1])
           /\ \A b : NeedsOK(Redirect(Tail(n.left), b, None)) /\ Redirect(Tail(n.left), b, None).task = "redirect"
<1> DEFINE left == n.left
           rest == Tail(left)
<1>1. left \in Seq(Range(left)) /\ left # <<>> /\ \A j \in DOMAIN left : Redirection(left[j])
  BY DEF NeedsOK
<1> HIDE DEF left
<1>2. Len(left) \in Nat \ {0} /\ DOMAIN left = 1 .. Len(left)
  BY <1>1, EmptySeq, RangeSeq
<1>3. rest \in Seq(Range(left)) /\ Len(rest) = Len(left) - 1 /\ \A i \in 1 .. Len(rest) : rest[i] = left[i + 1]
  BY <1>1, HeadTailProperties
<1> HIDE DEF rest
<1>4. rest \in Seq(Range(rest)) /\ DOMAIN rest = 1 .. Len(rest)
  BY <1>3, RangeSeq
<1>5. \A j \in DOMAIN rest : j + 1 \in DOMAIN left /\ rest[j] = left[j + 1]
  BY <1>2, <1>3, <1>4
<1>6. \A j \in DOMAIN rest : Redirection(rest[j])
  BY <1>1, <1>5
<1>7. 1 \in DOMAIN left
  BY <1>2
<1>8. ASSUME NEW b PROVE NeedsOK(Redirect(rest, b, None)) /\ Redirect(rest, b, None).task = "redirect"
  <2> DEFINE a == Redirect(rest, b, None)
  <2>1. a.task = "redirect" /\ a.left = rest /\ a.fd = None
    BY DEF Redirect
  <2> HIDE DEF a
  <2>2. NeedsOK(a)
    BY <1>4, <1>6, <2>1 DEF NeedsOK
  <2> QED BY <2>1, <2>2 DEF a
<1> QED BY <1>1, <1>7, <1>8 DEF left, rest

\* A redirection fails: all that belongs to the command is dropped.
LEMMA FailAllowed ==
    ASSUME NEW p, Before(p), NEW s, s = procs[p].todo, s # <<>>, s[1].task = "redirect",
           NEW f, ThingsOK(f, Len(pipes')), Clear(p, f), RedirectFails(p, f)
    PROVE  Allowed
<1> DEFINE t == SubSeq(s, 4, Len(s))
<1>1. /\ s \in Seq(Range(s)) /\ Len(s) \in Nat \ {0} /\ p \in DOMAIN procs
      /\ Len(pipes') \in Nat /\ Len(pipes) <= Len(pipes')
  BY FirstNeeds DEF Before, Steps
<1>2. procs' = Ends(procs, p) \/ GoesOn(p, f, t, <<>>)
  BY DEF RedirectFails, GoesOn
<1>3. CASE procs' = Ends(procs, p)
  BY <1>1, <1>3, EndAllowed DEF Before
<1>4. <<>> \in Seq([dup_fd : Fd, redir_fd : Fd])
  OBVIOUS
<1>5. CASE GoesOn(p, f, t, <<>>) /\ Len(s) >= 3
  <2>1. Behind(t, 0, s, 3)
    BY <1>1, <1>5, TodoShapes DEF Shapes
  <2> HIDE DEF t
  <2>2. \A k \in DOMAIN t : ~(k <= 0)
    BY <2>1, NoTask
  <2> QED BY <1>1, <1>4, <1>5, <2>1, <2>2, PlainStep
<1>6. CASE GoesOn(p, f, t, <<>>) /\ Len(s) < 3
  <2>1. t = <<>>
    BY <1>1, <1>6
  <2> HIDE DEF t
  <2>2. DOMAIN t = {} /\ t \in Seq(Range(t))
    BY <2>1
  <2>3. TasksOK(t) /\ EndsOK(p, f, t)
    BY <2>2 DEF TasksOK, EndsOK, Clear, PairsOK, HeldOK, Apart, NoWrites
  <2> QED BY <1>1, <1>4, <1>6, <2>3, StepAllowed DEF Before
<1> QED BY <1>1, <1>2, <1>3, <1>5, <1>6

\* A redirection is made, with the descriptor fd, or fails.
LEMMA MadeAllowed ==
    ASSUME NEW p, Before(p), NEW s, s = procs[p].todo, s # <<>>, s[1].task = "redirect", s[1].left # <<>>,
           NEW f, ThingsOK(f, Len(pipes')), Clear(p, f), NEW fd \in Fd,
           NEW to, to = s[1].left[1].to,
           dup_and_save_fd(p, f, fd, to) \/ RedirectChild(p, f, fd, to)
    PROVE  Allowed
<1> DEFINE sv == procs[p].saved
           a == Redirect(Tail(s[1].left), s[1].builtin, None)
           t == <<a>> \o Tail(s)
           copied == Open(f, f[to])
           copy == [dup_fd |-> Lowest(f), redir_fd |-> to]
           V == [dup_fd : Fd, redir_fd : Fd]
<1>1. s \in Seq(Range(s)) /\ NeedsOK(s[1])
  BY FirstNeeds
<1>2. to \in Fd /\ NeedsOK(a) /\ a.task = "redirect"
  <2>1. Redirection(s[1].left[1]) /\ NeedsOK(a) /\ a.task = "redirect"
    BY <1>1, RestRedirections
  <2> HIDE DEF a
  <2> QED BY <2>1 DEF Redirection
<1>3. Redirected(p) = t
  BY DEF Redirected, Now, Rest
<1>4. sv \in Seq(V)
  <2>1. MineIs(p, procs[p].fds, s, sv)
    BY Mine DEF Before
  <2> HIDE DEF sv
  <2> QED BY <2>1 DEF MineIs
<1> HIDE DEF sv, a
<1>5. Behind(t, 1, s, 1) /\ t[1] = a
  <2>1. Shapes(s, a, a, a)
    BY <1>1, TodoShapes
  <2> QED BY <2>1 DEF Shapes
<1> HIDE DEF t
<1>6. \A k \in DOMAIN t : k <= 1 => NeedsOK(t[k]) /\ t[k].task # "document"
  BY <1>2, <1>5, OneTask
<1>7. f \in [Fd -> Thing]
  BY DEF ThingsOK
<1> HIDE DEF V, copied, copy
<1>8. ASSUME NEW g, NEW v \in Seq(V), Drawn(g, f), GoesOn(p, g, t, v)
      PROVE  Allowed
  <2>1. ThingsOK(g, Len(pipes')) /\ Clear(p, g)
    BY <1>8, DrawnKeeps
  <2>2. v \in Seq([dup_fd : Fd, redir_fd : Fd])
    BY <1>8 DEF V
  <2> QED BY <1>5, <1>6, <1>8, <2>1, <2>2, PlainStep
<1>9. Drawn(f, f)
  BY <1>7 DEF Drawn
<1>10. Drawn(dup2(f, fd, to), f)
  BY <1>7, DrawnDup
<1>11. Drawn(copied, f)
  <2>1. f[to] \in Thing
    BY <1>2, <1>7
  <2>2. Drawn(Open(f, f[to]), f)
    BY <1>2, <1>7, <2>1, DrawnOpen
  <2> QED BY <2>2 DEF copied
<1>12. Drawn(dup2(copied, fd, to), f)
  <2>1. copied \in [Fd -> Thing]
    BY <1>11 DEF Drawn
  <2>2. Drawn(dup2(copied, fd, to), copied)
    BY <2>1, DrawnDup
  <2> QED BY <1>11, <2>2, DrawnTwice
<1>13. Free(f) # {} => Append(sv, copy) \in Seq(V)
  <2> SUFFICES ASSUME Free(f) # {} PROVE Append(sv, copy) \in Seq(V)
    OBVIOUS
  <2>1. Lowest(f) \in Fd
    BY LowestFree DEF Free
  <2>2. copy \in V
    BY <1>2, <2>1 DEF copy, V
  <2> QED BY <1>4, <2>2, AppendProperties
<1>14. ASSUME NEW h, Drawn(h, f), RedirectFails(p, h)
       PROVE  Allowed
  <2>1. ThingsOK(h, Len(pipes')) /\ Clear(p, h)
    BY <1>14, DrawnKeeps
  <2> QED BY <1>14, <2>1, FailAllowed
<1>15. ASSUME RedirectChild(p, f, fd, to) PROVE RedirectFails(p, f) \/ GoesOn(p, dup2(f, fd, to), t, sv)
  <2>1. RedirectFails(p, f) \/ procs' = DoesWith(p, dup2(f, fd, to), Redirected(p))
    BY <1>15 DEF RedirectChild
  <2> QED BY <1>3, <2>1, GoesOnForms DEF sv
<1>16. ASSUME dup_and_save_fd(p, f, fd, to)
       PROVE  \/ RedirectFails(p, f) \/ RedirectFails(p, copied)
              \/ GoesOn(p, f, t, sv)
              \/ Free(f) # {} /\ GoesOn(p, dup2(copied, fd, to), t, Append(sv, copy))
  <2>1. \/ RedirectFails(p, f) \/ RedirectFails(p, copied)
        \/ procs' = DoesWith(p, f, Redirected(p))
        \/ Free(f) # {} /\ procs' = Becomes(p, dup2(copied, fd, to), Redirected(p), Append(sv, copy))
    BY <1>16 DEF dup_and_save_fd, copied, copy, sv
  <2>2. procs' = DoesWith(p, f, t) => GoesOn(p, f, t, sv)
    BY GoesOnForms DEF sv
  <2> QED BY <1>3, <2>1, <2>2 DEF GoesOn
<1>17. CASE RedirectFails(p, f) \/ RedirectFails(p, copied)
  BY <1>9, <1>11, <1>14, <1>17
<1>18. CASE GoesOn(p, dup2(f, fd, to), t, sv) \/ GoesOn(p, f, t, sv)
  BY <1>4, <1>8, <1>9, <1>10, <1>18
<1>19. CASE Free(f) # {} /\ GoesOn(p, dup2(copied, fd, to), t, Append(sv, copy))
  BY <1>8, <1>12, <1>13, <1>19
<1> QED BY <1>15, <1>16, <1>17, <1>18, <1>19

LEMMA RedirectAllowed == ASSUME NEW p, Before(p), process_redir(p) PROVE Allowed
<1> DEFINE s == procs[p].todo
           f == procs[p].fds
           sv == procs[p].saved
           n == s[1]
           r == n.left[1]
           Made(fs, fd) == IF n.builtin THEN dup_and_save_fd(p, fs, fd, r.to) ELSE RedirectChild(p, fs, fd, r.to)
           file == Open(f, <<"file", r.from>>)
           read == Open(f, <<"r", Len(pipes) + 1>>)
           doc == Document(r.from, Lowest(f), Lowest(read))
           both == Open(read, <<"w", Len(pipes) + 1>>)
<1>1. s # <<>> /\ n.task = "redirect" /\ Now(p) = n /\ Rest(p) = Tail(s)
  <2>1. Doing(p, "redirect")
    BY DEF process_redir
  <2> QED BY <2>1 DEF Doing, Now, Rest
<1>2. \/ procs' = Does(p, Tail(s)) /\ pipes' = pipes
      \/ n.left # <<>> /\ n.fd # None /\ pipes' = pipes /\ IF n.fd = Failed THEN RedirectFails(p, f) ELSE Made(f, n.fd)
      \/ /\ n.left # <<>> /\ r.op = "open" /\ pipes' = pipes
         /\ IF r.from = None \/ Free(f) = {} THEN RedirectFails(p, f) ELSE Made(file, Lowest(f))
      \/ n.left # <<>> /\ r.op = "dup" /\ pipes' = pipes /\ Made(f, r.from)
      \/ /\ n.left # <<>> /\ r.op = "here"
         /\ IF Cardinality(Free(f)) < 2 THEN RedirectFails(p, f) /\ pipes' = pipes
            ELSE pipes' = Append(pipes, 0) /\ procs' = DoesWith(p, both, <<doc>> \o s)
  <2>1. Now(p) = procs[p].todo[1] /\ Rest(p) = Tail(procs[p].todo)
    BY DEF Now, Rest
  <2> QED BY <2>1, Zenon DEF process_redir
<1>3. MineIs(p, f, s, sv)
  BY Mine DEF Before
<1>4. Clear(p, f) /\ NeedsOK(n) /\ s \in Seq(Range(s)) /\ TasksOK(s)
  <2> HIDE DEF f
  <2> QED BY <1>1, NothingPaired, FirstNeeds DEF f
<1>5. \A fs, fd : Made(fs, fd) => dup_and_save_fd(p, fs, fd, r.to) \/ RedirectChild(p, fs, fd, r.to)
  OBVIOUS
<1>6. /\ read = Open(f, <<"r", Len(pipes) + 1>>) /\ both = Piped(f, Len(pipes)) /\ doc.task = "document"
      /\ doc.r = ReadEnd(f, Len(pipes)) /\ doc.w = WriteEnd(f, Len(pipes))
  BY DEF Piped, ReadEnd, WriteEnd, Document
<1>7. procs' = DoesWith(p, both, <<doc>> \o s) => GoesOn(p, both, <<doc>> \o s, sv)
  BY GoesOnForms
<1>8. s = procs[p].todo
  OBVIOUS
<1> HIDE DEF s, f, sv, Made, file, read, doc, both
<1>9. n.fd \in Fd \cup {None, Failed} /\ (n.left # <<>> => Redirection(r))
  <2> HIDE DEF n
  <2> QED BY <1>1, <1>4, RestRedirections DEF NeedsOK
<1>10. ThingsOK(f, Len(pipes)) /\ f \in [Fd -> Thing] /\ Len(pipes) \in Nat /\ Len(pipes') \in Nat /\ Len(pipes) <= Len(pipes')
  BY <1>3 DEF MineIs, Before, Steps
<1>11. ThingsOK(f, Len(pipes'))
  BY <1>10 DEF ThingsOK
<1>12. ASSUME NEW fs, ThingsOK(fs, Len(pipes')), Clear(p, fs), NEW fd \in Fd, Made(fs, fd), n.left # <<>>
       PROVE  Allowed
  <2>1. dup_and_save_fd(p, fs, fd, r.to) \/ RedirectChild(p, fs, fd, r.to)
    BY <1>5, <1>12
  <2> QED BY <1>1, <1>8, <1>12, <2>1, MadeAllowed
<1>13. ASSUME RedirectFails(p, f) PROVE Allowed
  BY <1>1, <1>4, <1>8, <1>11, <1>13, FailAllowed
<1>14. CASE procs' = Does(p, Tail(s)) /\ pipes' = pipes
  BY <1>1, <1>8, <1>14, PopAllowed
<1>15. CASE n.left # <<>> /\ n.fd # None /\ pipes' = pipes /\ IF n.fd = Failed THEN RedirectFails(p, f) ELSE Made(f, n.fd)
  <2> HIDE DEF n
  <2> QED BY <1>4, <1>9, <1>11, <1>12, <1>13, <1>15
<1>16. CASE /\ n.left # <<>> /\ r.op = "open" /\ pipes' = pipes
            /\ IF r.from = None \/ Free(f) = {} THEN RedirectFails(p, f) ELSE Made(file, Lowest(f))
  <2> HIDE DEF r, n
  <2>1. CASE r.from = None \/ Free(f) = {}
    BY <1>13, <1>16, <2>1
  <2>2. CASE ~(r.from = None \/ Free(f) = {})
    <3>1. r.from \in Nat /\ Lowest(f) \in Fd
      BY <1>9, <1>16, <2>2, LowestFree DEF Redirection, Free
    <3> DEFINE o == <<"file", r.from>>
    <3>2. o \in Thing /\ o[1] = "file"
      BY <3>1 DEF Thing
    <3> HIDE DEF o
    <3>3. Drawn(Open(f, o), f)
      BY <1>10, <3>2, DrawnOpen
    <3>4. ThingsOK(file, Len(pipes')) /\ Clear(p, file)
      BY <1>4, <1>11, <3>3, DrawnKeeps DEF file, o
    <3>5. Made(file, Lowest(f))
      BY <1>16, <2>2
    <3> QED BY <1>12, <1>16, <3>1, <3>4, <3>5
  <2> QED BY <2>1, <2>2
<1>17. CASE n.left # <<>> /\ r.op = "dup" /\ pipes' = pipes /\ Made(f, r.from)
  <2> HIDE DEF r, n
  <2>1. r.from \in Fd
    BY <1>9, <1>17 DEF Redirection
  <2> QED BY <1>4, <1>11, <1>12, <1>17, <2>1
<1>18. CASE /\ n.left # <<>> /\ r.op = "here"
            /\ IF Cardinality(Free(f)) < 2 THEN RedirectFails(p, f) /\ pipes' = pipes
               ELSE pipes' = Append(pipes, 0) /\ procs' = DoesWith(p, both, <<doc>> \o s)
  <2> HIDE DEF r, n
  <2>1. CASE Cardinality(Free(f)) < 2
    BY <1>13, <1>18, <2>1
  <2>2. CASE ~(Cardinality(Free(f)) < 2)
    <3>1. pipes' = Append(pipes, 0) /\ GoesOn(p, both, <<doc>> \o s, sv)
      BY <1>7, <1>18, <2>2
    <3>2. Len(pipes') = Len(pipes) + 1
      <4>1. pipes \in Seq(Int)
        BY DEF Before, Inv
      <4> QED BY <3>1, <4>1, AppendProperties
    <3>3. Cardinality(Free(f)) >= 2
      BY <2>2, FreeFinite
    <3>4. /\ doc.r \in Fd /\ doc.w \in Fd /\ ThingsOK(both, Len(pipes'))
          /\ \A i, j \in Fd : Pairs(both, i, j) => i = doc.r /\ j = doc.w
          /\ p = 1 => \A j \in Fd : both[j][1] = "w" => j = doc.w
      BY <1>4, <1>6, <1>10, <3>2, <3>3, PipeThings DEF Clear
    <3> DEFINE t == <<doc>> \o s
    <3>5. Behind(t, 1, s, 0) /\ t[1] = doc
      <4>1. Shapes(s, doc, doc, doc)
        BY <1>1, <1>4, TodoShapes
      <4> QED BY <4>1 DEF Shapes
    <3> HIDE DEF t
    <3>6. NoDocument(s, 0)
      <4>1. s[1].task = "redirect"
        BY <1>1 DEF n
      <4> QED BY <1>1, <1>4, <4>1, NoneBehind
    <3>7. TasksOK(t) /\ 1 \in DOMAIN t
      <4>1. s[1].task = "redirect" /\ t[1].task = "document" /\ t[1].r \in Fd /\ t[1].w \in Fd
        BY <1>1, <1>6, <3>4, <3>5 DEF n
      <4> QED BY <1>1, <1>4, <3>5, <3>6, <4>1, DocumentBegins
    <3>8. EndsOK(p, both, t)
      <4>1. \A i, j \in Fd : Pairs(both, i, j) => t[1].task = "document" /\ t[1].r = i /\ t[1].w = j
        BY <1>6, <3>4, <3>5
      <4>2. p = 1 => \A j \in Fd : both[j][1] = "w" => t[1].task = "document" /\ t[1].w = j
        BY <1>6, <3>4, <3>5
      <4> QED BY <3>7, <4>1, <4>2 DEF EndsOK, PairsOK, HeldOK
    <3>9. sv \in Seq([dup_fd : Fd, redir_fd : Fd]) /\ p \in DOMAIN procs
      BY <1>3 DEF MineIs
    <3>10. GoesOn(p, both, t, sv)
      BY <3>1 DEF t
    <3> QED BY <1>10, <3>4, <3>7, <3>8, <3>9, <3>10, StepAllowed DEF Before
  <2> QED BY <2>1, <2>2
<1> HIDE DEF n, r
<1> QED BY <1>2, <1>14, <1>15, <1>16, <1>17, <1>18

LEMMA DocumentAllowed == ASSUME NEW p, Before(p), create_here_document_fd(p) PROVE Allowed
<1> DEFINE s == procs[p].todo
           f == procs[p].fds
           sv == procs[p].saved
           n == s[1]
           a == Redirect(s[2].left, s[2].builtin, n.r)
           t == <<a>> \o SubSeq(s, 3, Len(s))
           g == Close(f, {n.w})
           b == WriteTo(n.w, n.lines[1])
           c == Document(Tail(n.lines), n.r, n.w)
           u == <<b, c>> \o Tail(s)
           d == WriteTo(n.w, Total(n.lines))
           y == Process(Close(f, {n.r}), <<d>>)
<1>1. s # <<>> /\ n.task = "document" /\ pipes' = pipes /\ Now(p) = n /\ Rest(p) = Tail(s)
  <2>1. Doing(p, "document") /\ UNCHANGED <<script, pipes>>
    BY DEF create_here_document_fd
  <2> QED BY <2>1 DEF Doing, Now, Rest
<1>2. procs' = DoesWith(p, g, t) \/ procs' = Does(p, u) \/ procs' = Append(DoesWith(p, g, t), y)
  <2>1. Returns(p, g, n.r) = DoesWith(p, g, t)
    BY DEF Returns
  <2>2. ~Fault
    BY DEF Fault, Before
  <2> HIDE DEF t
  <2>3. procs' = Returns(p, g, n.r) \/ procs' = Does(p, u) \/ procs' = Append(Returns(p, g, n.r), y)
    <3> HIDE DEF s
    <3> QED BY <1>1, <2>2, Zenon DEF create_here_document_fd
  <2> QED BY <2>1, <2>3
<1>3. MineIs(p, f, s, sv)
  BY Mine DEF Before
<1>4. NeedsOK(n) /\ PlaceOK(s, 1) /\ s \in Seq(Range(s)) /\ TasksOK(s)
  BY <1>1, FirstNeeds
<1>5. /\ procs' = DoesWith(p, g, t) => GoesOn(p, g, t, sv)
      /\ procs' = Does(p, u) => GoesOn(p, f, u, sv)
      /\ procs' = Append(DoesWith(p, g, t), y) => Starts(p, g, t, sv, y)
  BY GoesOnForms
<1>6. /\ a.task = "redirect" /\ a.left = s[2].left /\ a.fd = n.r /\ b.task = "write"
      /\ c.task = "document" /\ c.r = n.r /\ c.w = n.w /\ d.task = "write"
  BY DEF Redirect, WriteTo, Document
<1>7. s = procs[p].todo
  OBVIOUS
<1> HIDE DEF s, f, sv, a, b, c, d
<1>8. n.r \in Fd /\ n.w \in Fd
  <2> HIDE DEF n
  <2> QED BY <1>1, <1>4 DEF NeedsOK
<1>9. 2 \in DOMAIN s /\ s[2].task = "redirect" /\ NeedsOK(s[2]) /\ Len(s) >= 2
  <2>1. 1 + 1 \in DOMAIN s /\ s[1 + 1].task = "redirect"
    BY <1>1, <1>4 DEF PlaceOK, n
  <2>2. 2 \in DOMAIN s /\ s[2].task = "redirect"
    BY <2>1
  <2>3. DOMAIN s = 1 .. Len(s) /\ Len(s) \in Nat
    BY <1>4, RangeSeq
  <2> QED BY <1>4, <2>2, <2>3 DEF TasksOK
<1>10. NeedsOK(a)
  <2> DEFINE x == s[2]
  <2>1. x.task = "redirect" /\ NeedsOK(x) /\ a.left = x.left
    BY <1>6, <1>9
  <2> HIDE DEF x
  <2>2. a.left \in Seq(Range(a.left)) /\ \A j \in DOMAIN a.left : Redirection(a.left[j])
    BY <2>1 DEF NeedsOK
  <2> QED BY <1>6, <1>8, <2>2 DEF NeedsOK
<1>11. Behind(t, 1, s, 2) /\ t[1] = a
  <2>1. Shapes(s, a, a, a)
    BY <1>1, <1>4, TodoShapes
  <2> QED BY <1>9, <2>1 DEF Shapes
<1>12. Behind(u, 2, s, 1) /\ u[1] = b /\ u[2] = c
  <2>1. Shapes(s, b, c, a)
    BY <1>1, <1>4, TodoShapes
  <2> QED BY <2>1 DEF Shapes
<1>13. /\ \A i, j \in Fd : Pairs(f, i, j) => i = n.r /\ j = n.w
       /\ p = 1 => \A j \in Fd : f[j][1] = "w" => j = n.w
  <2>1. s[1].task = "document" /\ s # <<>> /\ TasksOK(s)
    BY <1>1, <1>4 DEF n
  <2>2. NoDocument(s, 1)
    BY <2>1, NoneBehind
  <2>3. \A k \in DOMAIN s : k \in Nat \ {0}
    BY <1>4, RangeSeq
  <2>4. \A k \in DOMAIN s : s[k].task = "document" => k = 1
    <3>1. \A k \in DOMAIN s : ~(k > 1) => k = 1
      BY <2>3
    <3> QED BY <2>2, <3>1 DEF NoDocument
  <2>5. EndsOK(p, f, s)
    BY <1>3 DEF MineIs
  <2>6. \A i, j \in Fd : Pairs(f, i, j) => i = n.r /\ j = n.w
    BY <2>4, <2>5 DEF EndsOK, PairsOK, n
  <2>7. p = 1 => \A j \in Fd : f[j][1] = "w" => j = n.w
    BY <2>4, <2>5 DEF EndsOK, HeldOK, n
  <2> QED BY <2>6, <2>7
<1>14. /\ ThingsOK(f, Len(pipes')) /\ f \in [Fd -> Thing] /\ EndsOK(p, f, s) /\ p \in DOMAIN procs
       /\ sv \in Seq([dup_fd : Fd, redir_fd : Fd]) /\ Len(pipes') \in Nat /\ Len(pipes) <= Len(pipes')
  BY <1>1, <1>3 DEF MineIs
<1> HIDE DEF t, u, g, y
<1>15. CASE GoesOn(p, f, u, sv)
  <2>1. TasksOK(u) /\ EndsOK(p, f, u)
    <3>1. s[1].task = "document" /\ u[1].task = "write" /\ u[2].task = "document" /\ u[2].r = s[1].r /\ u[2].w = s[1].w
      BY <1>1, <1>6, <1>12 DEF n
    <3> QED BY <1>1, <1>4, <1>12, <1>14, <3>1, DocumentGoesOn
  <2> QED BY <1>14, <1>15, <2>1, StepAllowed DEF Before
<1>16. ThingsOK(g, Len(pipes')) /\ Clear(p, g)
  <2>1. Drawn(g, f)
    BY <1>14, DrawnClose DEF g
  <2>2. Apart(g)
    BY <1>13, <1>14, OneCloses DEF g
  <2>3. p = 1 => NoWrites(g)
    <3> DEFINE w == n.w
               S == {w}
    <3>1. w \in S /\ (p = 1 => \A j \in Fd : f[j][1] = "w" => j = w)
      BY <1>13
    <3> HIDE DEF w, S
    <3>2. p = 1 => NoWrites(Close(f, S))
      BY <1>14, <3>1, WriteCloses
    <3> QED BY <3>2 DEF S, w, g
  <2> QED BY <1>14, <2>1, <2>2, <2>3, DrawnKeeps DEF Clear
<1>17. ChildOK(y)
  <2> DEFINE h == Close(f, {n.r})
             todo == <<d>>
  <2>1. Drawn(h, f)
    BY <1>14, DrawnClose
  <2>2. Apart(h)
    <3> DEFINE x == n.r
               w == n.w
               S == {x}
    <3>1. x \in S /\ \A i, j \in Fd : Pairs(f, i, j) => i = x /\ j = w
      BY <1>13
    <3> HIDE DEF x, w, S
    <3>2. Apart(Close(f, S))
      BY <1>14, <3>1, OneCloses
    <3> QED BY <3>2 DEF S, x
  <2>3. ThingsOK(h, Len(pipes'))
    BY <1>14, <2>1, DrawnKeeps
  <2>4. todo \in Seq({d}) /\ DOMAIN todo = {1} /\ todo[1] = d
    <3>1. Len(todo) = 1 /\ todo \in Seq({d}) /\ todo[1] = d
      OBVIOUS
    <3>2. DOMAIN todo = 1 .. Len(todo)
      BY <3>1, RangeSeq
    <3> HIDE DEF todo
    <3> QED BY <3>1, <3>2
  <2>5. NeedsOK(d)
    BY <1>6 DEF NeedsOK
  <2> HIDE DEF h, todo
  <2>6. todo \in Seq(Range(todo))
    BY <2>4, RangeSeq
  <2>7. \A k \in DOMAIN todo : NeedsOK(todo[k]) /\ todo[k].task # "document"
    BY <1>6, <2>4, <2>5
  <2>8. ChildOK(Process(h, todo))
    BY <2>2, <2>3, <2>6, <2>7, ProcessStarts, ChildStarts
  <2> QED BY <2>8 DEF y, h, todo
<1>18. CASE GoesOn(p, g, t, sv) \/ Starts(p, g, t, sv, y)
  <2>1. \A k \in DOMAIN t : k <= 1 => NeedsOK(t[k]) /\ t[k].task # "document"
    BY <1>6, <1>10, <1>11, OneTask
  <2>2. s[1].task # "write"
    BY <1>1 DEF n
  <2>3. GoesOn(p, g, t, sv) \/ \E z : Starts(p, g, t, sv, z) /\ ChildOK(z)
    BY <1>17, <1>18
  <2>4. 1 \in Nat /\ 2 \in Nat /\ 2 >= 1
    OBVIOUS
  <2> QED BY <1>1, <1>7, <1>11, <1>14, <1>16, <2>1, <2>2, <2>3, <2>4, PlainStep
<1> QED BY <1>2, <1>5, <1>15, <1>18

\* The stages of a pipeline but the first, and the first alone.
LEMMA StagesLeft ==
    ASSUME NEW left, StagesOK(left), left # <<>>
    PROVE  StagesOK(<<left[1]>>) /\ (Len(left) # 1 => StagesOK(Tail(left)) /\ Tail(left) # <<>>)
<1> DEFINE rest == Tail(left)
           x == left[1]
           one == <<x>>
<1>1. left \in Seq(Range(left)) /\ Len(left) \in Nat \ {0} /\ DOMAIN left = 1 .. Len(left)
  BY EmptySeq, RangeSeq DEF StagesOK
<1>2. CommandOK(x)
  BY <1>1 DEF StagesOK
<1> HIDE DEF x
<1>3. Len(one) = 1 /\ one \in Seq({x}) /\ one[1] = x
  OBVIOUS
<1>4. DOMAIN one = 1 .. Len(one) /\ one \in Seq(Range(one))
  BY <1>3, RangeSeq
<1> HIDE DEF one
<1>5. \A j \in DOMAIN one : j = 1
  BY <1>3, <1>4
<1>6. StagesOK(one)
  BY <1>2, <1>3, <1>4, <1>5 DEF StagesOK
<1>7. rest \in Seq(Range(left)) /\ Len(rest) = Len(left) - 1 /\ \A i \in 1 .. Len(rest) : rest[i] = left[i + 1]
  BY <1>1, HeadTailProperties
<1> HIDE DEF rest
<1>8. rest \in Seq(Range(rest)) /\ DOMAIN rest = 1 .. Len(rest)
  BY <1>7, RangeSeq
<1>9. \A j \in DOMAIN rest : j + 1 \in DOMAIN left /\ rest[j] = left[j + 1]
  BY <1>1, <1>7, <1>8
<1>10. StagesOK(rest)
  BY <1>8, <1>9 DEF StagesOK
<1>11. Len(left) # 1 => rest # <<>>
  BY <1>1, <1>7
<1> QED BY <1>6, <1>10, <1>11 DEF one, x, rest

\* What a child of a pipeline has.
LEMMA ChildDrawn ==
    ASSUME NEW fds \in [Fd -> Thing], NEW cur_stdin \in Fd \cup {None}, NEW next_stdin, NEW cur_stdout \in Fd \cup {None}
    PROVE  Drawn(ChildEnds(fds, cur_stdin, next_stdin, cur_stdout),
                 IF next_stdin = None THEN fds ELSE Close(fds, {next_stdin}))
<1> DEFINE Moved(h, fd, to) == IF fd \in {None, to} THEN h ELSE Close(dup2(h, fd, to), {fd})
           a == IF next_stdin = None THEN fds ELSE Close(fds, {next_stdin})
           b == Moved(a, cur_stdin, 0)
           c == Moved(b, cur_stdout, 1)
<1>1. ASSUME NEW h \in [Fd -> Thing], NEW fd \in Fd \cup {None}, NEW to
      PROVE  Drawn(Moved(h, fd, to), h)
  <2>1. Drawn(h, h)
    BY DEF Drawn
  <2>2. CASE fd \in Fd
    <3> DEFINE g == dup2(h, fd, to)
    <3>1. Drawn(g, h)
      BY <2>2, DrawnDup
    <3> HIDE DEF g
    <3>2. g \in [Fd -> Thing]
      BY <3>1 DEF Drawn
    <3>3. Drawn(Close(g, {fd}), g)
      BY <3>2, DrawnClose
    <3>4. Drawn(Close(g, {fd}), h)
      BY <3>1, <3>3, DrawnTwice
    <3> QED BY <2>1, <3>4 DEF g
  <2> QED BY <2>1, <2>2
<1>2. ChildEnds(fds, cur_stdin, next_stdin, cur_stdout) = c
  BY DEF ChildEnds
<1>3. a \in [Fd -> Thing]
  BY DrawnClose DEF Drawn
<1> HIDE DEF Moved, a
<1>4. Drawn(b, a) /\ b \in [Fd -> Thing]
  <2>1. Drawn(b, a)
    BY <1>1, <1>3
  <2> QED BY <2>1 DEF Drawn
<1> HIDE DEF b
<1>5. Drawn(c, b)
  BY <1>1, <1>4
<1> HIDE DEF c
<1>6. Drawn(c, a)
  BY <1>4, <1>5, DrawnTwice
<1> QED BY <1>2, <1>6 DEF a

LEMMA StageAllowed == ASSUME NEW p, Before(p), PipelineStage(p) PROVE Allowed
<1> DEFINE s == procs[p].todo
           f == procs[p].fds
           sv == procs[p].saved
           n == s[1]
           left == n.left
           last == Len(n.left) = 1
           pipe == Len(pipes) + 1
           room == last \/ Cardinality(Free(f)) >= 2
           read == Open(f, <<"r", pipe>>)
           both == IF last THEN f ELSE Open(read, <<"w", pipe>>)
           next_stdin == IF last THEN None ELSE Lowest(f)
           cur_stdout == IF last THEN None ELSE Lowest(read)
           pids == n.pids \cup {Len(procs) + 1}
           a == IF last THEN Wait(pids) ELSE Stage(Tail(n.left), next_stdin, pids)
           t == <<a>> \o Tail(s)
           new == ParentEnds(both, n.cur_stdin, cur_stdout)
           more == IF last THEN pipes ELSE Append(pipes, 0)
           ends == ChildEnds(both, n.cur_stdin, next_stdin, cur_stdout)
           c == Command(<<n.left[1]>>)
           child == Process(ends, <<c>>)
<1>1. s # <<>> /\ n.task = "stage" /\ Now(p) = n /\ Rest(p) = Tail(s)
  <2>1. Doing(p, "stage")
    BY DEF PipelineStage
  <2> QED BY <2>1 DEF Doing, Now, Rest
<1>2. \/ room /\ pipes' = more /\ procs' = Append(DoesWith(p, new, t), child)
      \/ pipes' = pipes /\ procs' = Does(p, Tail(s))
  <2>1. ~Fault
    BY DEF Fault, Before
  <2> HIDE DEF s
  <2> QED BY <1>1, <2>1, Zenon DEF PipelineStage
<1>3. MineIs(p, f, s, sv)
  BY Mine DEF Before
<1>4. NeedsOK(n) /\ s \in Seq(Range(s)) /\ TasksOK(s) /\ Clear(p, f)
  <2> HIDE DEF f
  <2> QED BY <1>1, FirstNeeds, NothingPaired DEF f
<1>5. procs' = Append(DoesWith(p, new, t), child) => Starts(p, new, t, sv, child)
  BY GoesOnForms
<1>6. new = Close(both, {n.cur_stdin, cur_stdout})
  BY DEF ParentEnds
<1>7. last => a.task = "wait" /\ both = f /\ cur_stdout = None /\ next_stdin = None /\ more = pipes
  BY DEF Wait
<1>8. ~last => /\ a.task = "stage" /\ a.cur_stdin = next_stdin /\ a.left = Tail(left)
               /\ both = Piped(f, Len(pipes)) /\ next_stdin = ReadEnd(f, Len(pipes))
               /\ cur_stdout = WriteEnd(f, Len(pipes)) /\ more = Append(pipes, 0)
  BY DEF Stage, Piped, ReadEnd, WriteEnd
<1>9. c.task = "command" /\ c.stages = <<left[1]>>
  BY DEF Command
<1>10. s = procs[p].todo
  OBVIOUS
<1> HIDE DEF s, f, sv, new, a, both, next_stdin, cur_stdout, more, ends, c, n
<1>11. /\ ThingsOK(f, Len(pipes)) /\ f \in [Fd -> Thing] /\ Len(pipes) \in Nat /\ Len(pipes') \in Nat
       /\ Len(pipes) <= Len(pipes') /\ sv \in Seq([dup_fd : Fd, redir_fd : Fd]) /\ p \in DOMAIN procs
  BY <1>3 DEF MineIs, Before, Steps
<1>12. StagesOK(left) /\ left # <<>> /\ n.cur_stdin \in Fd \cup {None}
  BY <1>1, <1>4 DEF NeedsOK
<1>13. StagesOK(<<left[1]>>) /\ (~last => StagesOK(Tail(left)) /\ Tail(left) # <<>>)
  BY <1>12, StagesLeft
<1>14. None \notin Fd
  BY DescriptorsAssumption DEF None, Fd
<1>15. CASE pipes' = pipes /\ procs' = Does(p, Tail(s))
  <2>1. s[1].task = "stage"
    BY <1>1 DEF n
  <2> QED BY <1>1, <1>10, <1>15, <2>1, PopAllowed
<1>16. CASE room /\ pipes' = more /\ procs' = Append(DoesWith(p, new, t), child)
  <2> DEFINE base == IF next_stdin = None THEN both ELSE Close(both, {next_stdin})
  <2>1. /\ ThingsOK(both, Len(pipes')) /\ Clear(p, new) /\ Apart(base) /\ NeedsOK(a) /\ a.task # "document"
        /\ cur_stdout \in Fd \cup {None}
    <3>1. CASE last
      <4>1. new = Close(f, {n.cur_stdin, cur_stdout}) /\ base = f /\ both = f /\ pipes' = pipes /\ cur_stdout = None
        BY <1>6, <1>7, <1>16, <3>1
      <4>2. Drawn(Close(f, {n.cur_stdin, cur_stdout}), f)
        BY <1>11, DrawnClose
      <4>3. Clear(p, new) /\ Apart(f)
        BY <1>4, <4>1, <4>2, DrawnKeeps DEF Clear
      <4>4. NeedsOK(a) /\ a.task # "document"
        BY <1>7, <3>1 DEF NeedsOK
      <4> QED BY <1>4, <1>11, <4>1, <4>3, <4>4
    <3>2. CASE ~last
      <4> DEFINE rd == ReadEnd(f, Len(pipes))
                 wr == WriteEnd(f, Len(pipes))
                 piped == Piped(f, Len(pipes))
      <4>1. both = piped /\ next_stdin = rd /\ cur_stdout = wr /\ Cardinality(Free(f)) >= 2
        BY <1>8, <1>16, <3>2
      <4>2. Len(pipes') = Len(pipes) + 1
        <5>1. pipes \in Seq(Int) /\ pipes' = Append(pipes, 0)
          BY <1>8, <1>16, <3>2 DEF Before, Inv
        <5> QED BY <5>1, AppendProperties
      <4>3. /\ rd \in Fd /\ wr \in Fd /\ ThingsOK(piped, Len(pipes) + 1)
            /\ \A i, j \in Fd : Pairs(piped, i, j) => i = rd /\ j = wr
            /\ p = 1 => \A j \in Fd : piped[j][1] = "w" => j = wr
        BY <1>4, <1>11, <4>1, PipeThings DEF Clear
      <4> HIDE DEF rd, wr, piped
      <4>4. piped \in [Fd -> Thing]
        BY <4>3 DEF ThingsOK
      <4>5. Clear(p, Close(piped, {n.cur_stdin, wr})) /\ Apart(Close(piped, {rd}))
        <5> DEFINE S == {n.cur_stdin, wr}
                   T == {rd}
        <5>1. wr \in S /\ rd \in T
          OBVIOUS
        <5> HIDE DEF S, T
        <5>2. Apart(Close(piped, S)) /\ Apart(Close(piped, T))
          BY <4>3, <4>4, <5>1, OneCloses
        <5>3. p = 1 => NoWrites(Close(piped, S))
          BY <4>3, <4>4, <5>1, WriteCloses
        <5> QED BY <5>2, <5>3 DEF S, T, Clear
      <4>6. new = Close(piped, {n.cur_stdin, wr}) /\ base = Close(piped, {rd})
        BY <1>6, <1>14, <4>1, <4>3
      <4>7. NeedsOK(a) /\ a.task # "document"
        BY <1>8, <1>13, <3>2, <4>1, <4>3 DEF NeedsOK
      <4> QED BY <4>1, <4>2, <4>3, <4>5, <4>6, <4>7
    <3> QED BY <3>1, <3>2
  <2>2. both \in [Fd -> Thing]
    BY <2>1 DEF ThingsOK
  <2>3. ThingsOK(new, Len(pipes'))
    <3>1. Drawn(new, both)
      BY <1>6, <2>2, DrawnClose
    <3> QED BY <2>1, <3>1, DrawnKeeps
  <2>4. ThingsOK(ends, Len(pipes')) /\ Apart(ends)
    <3>1. Drawn(base, both)
      <4>1. Drawn(both, both)
        BY <2>2 DEF Drawn
      <4>2. Drawn(Close(both, {next_stdin}), both)
        BY <2>2, DrawnClose
      <4> QED BY <4>1, <4>2
    <3>2. Drawn(ends, base)
      BY <1>12, <2>1, <2>2, ChildDrawn DEF ends
    <3> HIDE DEF base
    <3>3. Clear(2, base)
      BY <2>1 DEF Clear
    <3>4. ThingsOK(ends, Len(pipes')) /\ Clear(2, ends)
      BY <2>1, <3>1, <3>2, <3>3, DrawnKeeps
    <3> QED BY <3>4 DEF Clear
  <2> HIDE DEF base
  <2>5. ChildOK(child)
    <3> DEFINE todo == <<c>>
    <3>1. todo \in Seq(Range(todo)) /\ DOMAIN todo = 1 .. 1 /\ todo[1] = c
      <4>1. Len(todo) = 1 /\ todo \in Seq({c}) /\ todo[1] = c
        OBVIOUS
      <4> HIDE DEF todo
      <4> QED BY <4>1, RangeSeq
    <3>2. NeedsOK(c) /\ c.task # "document"
      BY <1>9, <1>13 DEF NeedsOK
    <3> HIDE DEF todo
    <3>3. \A k \in DOMAIN todo : NeedsOK(todo[k]) /\ todo[k].task # "document"
      BY <3>1, <3>2
    <3>4. ChildOK(Process(ends, todo))
      BY <2>4, <3>1, <3>3, ProcessStarts, ChildStarts
    <3> QED BY <3>4 DEF todo
  <2>6. Behind(t, 1, s, 1) /\ t[1] = a
    <3>1. Shapes(s, a, a, a)
      BY <1>1, <1>4, TodoShapes
    <3> QED BY <3>1 DEF Shapes
  <2> DEFINE u == t
             z == child
  <2>7. u = t /\ Starts(p, new, u, sv, z) /\ ChildOK(z)
    BY <1>5, <1>16, <2>5
  <2> HIDE DEF u, z
  <2>8. Behind(u, 1, s, 1) /\ u[1] = a
    BY <2>6, <2>7
  <2>9. \A k \in DOMAIN u : k <= 1 => NeedsOK(u[k]) /\ u[k].task # "document"
    BY <2>1, <2>8, OneTask
  <2>10. s[1].task # "write"
    BY <1>1 DEF n
  <2>11. 1 \in Nat /\ 1 >= 1
    OBVIOUS
  <2>12. GoesOn(p, new, u, sv) \/ \E y : Starts(p, new, u, sv, y) /\ ChildOK(y)
    BY <2>7
  <2> QED BY <1>1, <1>10, <1>11, <2>1, <2>3, <2>8, <2>9, <2>10, <2>11, <2>12, PlainStep
<1> QED BY <1>2, <1>15, <1>16

-----------------------------------------------------------------------------
(* Both ends of a pipe *)

LEMMA ApartInit == Init => Inv /\ ApartInv
<1> SUFFICES ASSUME Init PROVE Inv /\ ApartInv
  OBVIOUS
<1> DEFINE todo == [k \in DOMAIN script |-> Command(script[k])]
           z == Process(Standard, todo)
<1>1. Inv
  BY InvInit
<1>2. faults = 0 /\ procs = <<z>> /\ pipes = <<>>
  BY DEF Init
<1>3. script \in Seq(Range(script)) /\ \A k \in DOMAIN script : StagesOK(script[k])
  <2>1. script \in Scripts
    BY DEF Init
  <2>2. script \in Seq(Range(script)) /\ \A stages \in Range(script) :
           /\ stages \in Seq(Range(stages))
           /\ \A c \in Range(stages) :
                 /\ c.builtin \in BOOLEAN /\ Runs(c.run)
                 /\ c.redirs \in Seq(Range(c.redirs)) /\ \A r \in Range(c.redirs) : Redirection(r)
    BY <2>1, DescriptorsAssumption
  <2>3. ASSUME NEW k \in DOMAIN script PROVE StagesOK(script[k])
    <3> DEFINE stages == script[k]
    <3>1. stages \in Range(script)
      BY <2>2, RangeSeq
    <3> HIDE DEF stages
    <3>2. stages \in Seq(Range(stages)) /\ \A c \in Range(stages) :
                 /\ c.builtin \in BOOLEAN /\ Runs(c.run)
                 /\ c.redirs \in Seq(Range(c.redirs)) /\ \A r \in Range(c.redirs) : Redirection(r)
      BY <2>2, <3>1
    <3>3. ASSUME NEW j \in DOMAIN stages PROVE CommandOK(stages[j])
      <4>1. stages[j] \in Range(stages)
        BY <3>2, RangeSeq
      <4> DEFINE c == stages[j]
      <4> HIDE DEF c
      <4>2. Runs(c.run) /\ c.redirs \in Seq(Range(c.redirs)) /\ \A r \in Range(c.redirs) : Redirection(r)
        BY <3>2, <4>1 DEF c
      <4>3. \A i \in DOMAIN c.redirs : c.redirs[i] \in Range(c.redirs)
        BY <4>2, RangeSeq
      <4>4. CommandOK(c)
        BY <4>2, <4>3 DEF CommandOK
      <4> QED BY <4>4 DEF c
    <3>4. StagesOK(stages)
      BY <3>2, <3>3 DEF StagesOK
    <3> QED BY <3>4 DEF stages
  <2> QED BY <2>2, <2>3
<1>4. todo \in Seq(Range(todo)) /\ \A k \in DOMAIN todo : NeedsOK(todo[k]) /\ todo[k].task # "document"
  <2>1. Len(script) \in Nat /\ DOMAIN script = 1 .. Len(script)
    BY <1>3, RangeSeq
  <2> DEFINE T == {Command(script[k]) : k \in DOMAIN script}
  <2>2. todo \in [1 .. Len(script) -> T]
    BY <2>1
  <2>3. todo \in Seq(T)
    <3> HIDE DEF todo, T
    <3> QED BY <2>1, <2>2
  <2>4. ASSUME NEW k \in DOMAIN script PROVE NeedsOK(Command(script[k])) /\ Command(script[k]).task = "command"
    <3> DEFINE c == Command(script[k])
    <3>1. c.task = "command" /\ c.stages = script[k]
      BY DEF Command
    <3> HIDE DEF c
    <3>2. NeedsOK(c)
      BY <1>3, <3>1 DEF NeedsOK
    <3> QED BY <3>1, <3>2 DEF c
  <2>5. DOMAIN todo = DOMAIN script /\ \A k \in DOMAIN script : todo[k] = Command(script[k])
    OBVIOUS
  <2> HIDE DEF todo, T
  <2>6. todo \in Seq(Range(todo))
    BY <2>3, RangeSeq
  <2> QED BY <2>4, <2>5, <2>6
<1>5. ThingsOK(Standard, 0) /\ Clear(1, Standard)
  BY StandardTable DEF ThingsOK, Clear, Apart, Pairs, NoWrites
<1> HIDE DEF todo
<1>6. ProcessOK(1, z, 0)
  <2>1. z.fds = Standard /\ z.todo = todo /\ z.saved = <<>>
    BY DEF Process
  <2>2. TasksOK(todo) /\ EndsOK(1, Standard, todo)
    BY <1>4, <1>5 DEF TasksOK, PlaceOK, EndsOK, Clear, PairsOK, HeldOK, Apart, NoWrites
  <2>3. <<>> \in Seq([dup_fd : Fd, redir_fd : Fd])
    OBVIOUS
  <2> HIDE DEF z
  <2> QED BY <1>5, <2>1, <2>2, <2>3 DEF ProcessOK
<1> HIDE DEF z
<1>7. Len(pipes) = 0 /\ DOMAIN procs = {1} /\ procs[1] = z
  <2>1. Len(procs) = 1 /\ procs \in Seq({z}) /\ procs[1] = z
    BY <1>2
  <2>2. DOMAIN procs = 1 .. 1
    BY <2>1, RangeSeq
  <2> QED BY <1>2, <2>1, <2>2
<1> QED BY <1>1, <1>2, <1>6, <1>7 DEF ApartInv

LEMMA ApartNext == Inv /\ ApartInv /\ [Next]_all => ApartInv'
<1> SUFFICES ASSUME Inv, ApartInv, [Next]_all PROVE ApartInv'
  OBVIOUS
<1>1. CASE UNCHANGED all
  BY <1>1 DEF all, ApartInv
<1>2. ASSUME NEW p \in 1 .. MaxProcess, Step(p)
      PROVE  ApartInv'
  <2>1. Steps(p) /\ p \in DOMAIN procs
    BY <1>2, StepsOf DEF Step
  <2>2. faults' = faults \/ faults' = faults + 1
    <3>1. CASE run_builtin(p) \/ run_process(p) \/ run_pipeline(p) \/ job_wait_process(p)
      BY <3>1 DEF run_builtin, run_process, run_pipeline, job_wait_process, Fault
    <3>2. CASE PipelineStage(p)
      BY <3>2 DEF PipelineStage, Fault
    <3>3. CASE process_redir(p)
      BY <3>3 DEF process_redir
    <3>4. CASE create_here_document_fd(p)
      BY <3>4 DEF create_here_document_fd, Fault
    <3>5. CASE RestoreDescriptors(p) \/ Write(p) \/ Cat(p) \/ Exit(p)
      BY <3>5 DEF RestoreDescriptors, Write, Cat, Exit
    <3> QED BY <1>2, <3>1, <3>2, <3>3, <3>4, <3>5 DEF Step
  <2>3. faults \in Nat /\ faults' \in Nat /\ (faults' = 0 => faults = 0)
    BY <2>2 DEF ApartInv
  <2>4. ASSUME faults' = 0 PROVE Allowed
    <3>1. Before(p)
      BY <2>1, <2>3, <2>4 DEF Before
    <3> QED BY <1>2, <3>1, BuiltinAllowed, ProgramAllowed, PipelineAllowed, StageAllowed, WaitAllowed, RedirectAllowed,
               DocumentAllowed, RestoreAllowed, WriteAllowed, CatAllowed, ExitAllowed DEF Step
  <2> QED BY <2>3, <2>4 DEF ApartInv, Allowed
<1> QED BY <1>1, <1>2 DEF Next

\* The descriptor w is that of a document that the process p is writing.
LEMMA DocumentIsWritten ==
    ASSUME NEW p, NEW s, s = procs[p].todo, TasksOK(s), NEW k \in DOMAIN s, s[k].task = "document"
    PROVE  WritesDocument(p, s[k].r, s[k].w)
<1>1. k = 1 \/ (k = 2 /\ s[1].task = "write")
  BY DEF TasksOK, PlaceOK
<1>2. k \in 1 .. 2
  BY <1>1
<1>3. k = 2 => Doing(p, "write")
  <2>1. s # <<>>
    BY RangeSeq, EmptySeq DEF TasksOK
  <2> QED BY <1>1, <2>1 DEF Doing, Now
<1> QED BY <1>2, <1>3 DEF WritesDocument

LEMMA ApartReleases == Inv /\ ApartInv => PipeEndsReleased
<1> SUFFICES ASSUME Inv, ApartInv, faults = 0 PROVE EndsApart /\ NoneHeld
  BY DEF PipeEndsReleased
<1>1. ASSUME NEW p \in DOMAIN procs, NEW r \in Fd, NEW w \in Fd, Pairs(procs[p].fds, r, w)
      PROVE  WritesDocument(p, r, w)
  <2> DEFINE s == procs[p].todo
  <2>1. ProcessOK(p, procs[p], Len(pipes))
    BY DEF ApartInv
  <2>2. TasksOK(s) /\ PairsOK(procs[p].fds, s)
    BY <2>1 DEF ProcessOK, EndsOK
  <2> HIDE DEF s
  <2>3. PICK k \in DOMAIN s : s[k].task = "document" /\ s[k].r = r /\ s[k].w = w
    BY <1>1, <2>2 DEF PairsOK
  <2> QED BY <2>2, <2>3, DocumentIsWritten DEF s
<1>2. ASSUME NEW w \in Fd, procs[1].fds[w][1] = "w"
      PROVE  \E r \in Fd : WritesDocument(1, r, w)
  <2> DEFINE s == procs[1].todo
  <2>1. 1 \in DOMAIN procs
    BY RangeSeq, EmptySeq DEF Inv
  <2>2. ProcessOK(1, procs[1], Len(pipes))
    BY <2>1 DEF ApartInv
  <2>3. TasksOK(s) /\ HeldOK(procs[1].fds, s)
    BY <2>2 DEF ProcessOK, EndsOK
  <2> HIDE DEF s
  <2>4. PICK k \in DOMAIN s : s[k].task = "document" /\ s[k].w = w
    BY <1>2, <2>3 DEF HeldOK
  <2>5. s[k].r \in Fd
    BY <2>3, <2>4 DEF TasksOK, NeedsOK
  <2> QED BY <2>3, <2>4, <2>5, DocumentIsWritten DEF s
<1> QED BY <1>1, <1>2 DEF EndsApart, NoneHeld, Pairs

\* run_pipeline and its children let go of the ends that they make and inherit (pipeline.c), and
\* create_here_document_fd of those of its own pipe (redir.c), whatever the commands and redirections.
THEOREM PipeEndsHold == Spec => []PipeEndsReleased
<1>1. Inv /\ ApartInv /\ [Next]_all => (Inv /\ ApartInv)'
  BY InvNext, ApartNext
<1> QED BY <1>1, ApartInit, ApartReleases, PTL DEF Spec

==============================================================================
