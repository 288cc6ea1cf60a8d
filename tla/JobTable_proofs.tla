--------------------------- MODULE JobTable_proofs ---------------------------
(***************************************************************************)
(* Proofs about the job table of JobControl: which processes a job lists,  *)
(* which group they are in, and what destroying jobs may lose.             *)
(***************************************************************************)
EXTENDS JobControl_proofs

USE DEF kernelVars, forkVars, tableVars, evalVars

\* The process that was forked last.
Newest == procs[Len(procs)]

\* A process is in one job's array at most, ...
ListedOnce == \A p \in Pid, j, k \in JobId : Listed(p, j) /\ Listed(p, k) => j = k

\* ... a process in a job's array is registered, ...
ListedRegistered == \A p \in Pid, j \in JobId : Listed(p, j) => p \in processes

\* ... and no process is there before the parent's half of its initialisation.
FreshUnlisted ==
    \A p \in Pid, j \in JobId :
        kstate[p] = "none" \/ (pc = "forked" /\ p = Newest) => ~Listed(p, j)

\* A job without a group has no processes.
ListedHaveGroup == \A j \in JobId : job[j].pgid = NoGroup => job[j].processes = <<>>

\* The process p is on its way into the group g: it has not left the shell's group,
\* or it is there, and its own setpgid asks for no other.
Joins(p, g) == pgrp[p] \in {Shell, g} /\ (kstate[p] = "forked" => target[p] = g)

\* The two setpgid calls of a fork, in the child and in the parent, agree.
FreshInShell == \A p \in Pid : kstate[p] = "none" => pgrp[p] = Shell
ListedJoin   == \A p \in Pid, j \in JobId : Listed(p, j) => Joins(p, job[j].pgid)
NewestJoins  == pc = "forked" => Joins(Newest, GroupOfJob(cur, Newest))

ListInv  == ListedOnce /\ ListedRegistered /\ FreshUnlisted /\ ListedHaveGroup
GroupInv == FreshInShell /\ ListedJoin /\ NewestJoins

TableInv == ListInv /\ GroupInv

-----------------------------------------------------------------------------
(* How steps change the job table *)

\* The group and the process array of the job j stay, or an unused entry is cleared.
Kept(j)    == job'[j].pgid = job[j].pgid /\ job'[j].processes = job[j].processes
Cleared(j) == job'[j].pgid = NoGroup /\ job'[j].processes = <<>>

JobsKept == \A j \in JobId : Kept(j) \/ (j \notin jobs /\ Cleared(j))

\* job_create clears the entry it hands out.
LEMMA JobWithKeeps ==
    ASSUME TableType, NEW n \in JobId
    PROVE  \A j \in JobId :
              \/ JobWith(n)[j] = job[j]
              \/ j \notin jobs /\ JobWith(n)[j] = NewJob
<1>1. job \in [JobId -> JobRecord]
  BY DEF TableType
<1> QED
  BY <1>1 DEF JobWith

LEMMA JobWithKept ==
    ASSUME TableType, NEW n \in JobId, job' = JobWith(n)
    PROVE  JobsKept
  BY JobWithKeeps DEF JobsKept, Kept, Cleared, NewJob

\* A notification concerns neither the group nor the processes.
LEMMA QueueKeeps ==
    ASSUME NEW r \in JobRecord, NEW s, NEW b
    PROVE  /\ job_queue_notification(r, s, b).pgid = r.pgid
           /\ job_queue_notification(r, s, b).processes = r.processes
  BY DEF job_queue_notification, JobRecord

\* update_job changes no group and no process array.
LEMMA UpdateJobKept ==
    ASSUME TableType, NEW np, update_job(np)
    PROVE  JobsKept
<1> SUFFICES ASSUME NEW j \in JobId PROVE Kept(j)
  BY DEF JobsKept
<1>1. job[j] \in JobRecord
  BY DEF TableType
<1> DEFINE s == job_poll(job[j].processes, np)
<1>2. \/ job'[j] = job[j]
      \/ job'[j] = job_queue_notification(job[j], s, foreground_job = j /\ s >= 0)
  BY DEF update_job
<1> HIDE DEF s
<1> QED
  BY <1>1, <1>2, QueueKeeps DEF Kept

\* Neither does job_set_foreground.
LEMMA SetForegroundKeeps ==
    ASSUME NEW jb \in [JobId -> JobRecord], NEW t \in JobId, NEW f, NEW c, NEW pg, NEW pr,
           job_set_foreground(jb, t, f, c, pg, pr)
    PROVE  \A j \in JobId : job'[j].pgid = jb[j].pgid /\ job'[j].processes = jb[j].processes
<1>1. PICK s, b : job' = jb \/ job' = [jb EXCEPT ![t] = job_queue_notification(jb[t], s, b)]
  BY DEF job_set_foreground
<1>2. jb[t] \in JobRecord
  OBVIOUS
<1> QED
  BY <1>1, <1>2, QueueKeeps

-----------------------------------------------------------------------------
(* Preservation, by kind of step *)

\* What is listed after a step that keeps the jobs was listed before, under the same group.
LEMMA ListedBefore ==
    ASSUME JobsKept, NEW p \in Pid, NEW j \in JobId, Listed(p, j)'
    PROVE  Listed(p, j) /\ job'[j].pgid = job[j].pgid
<1>1. CASE Kept(j)
  BY <1>1 DEF Kept, Listed
<1>2. CASE Cleared(j)
  BY <1>2 DEF Cleared, Listed
<1> QED
  BY <1>1, <1>2 DEF JobsKept

\* A step that keeps the jobs, forks nothing and moves no process between groups.
Settled ==
    /\ JobsKept /\ jobs \subseteq jobs'
    /\ UNCHANGED <<processes, pgrp, execed, forkVars>>
    /\ \A p \in Pid : /\ kstate'[p] = "none" <=> kstate[p] = "none"
                      /\ kstate'[p] = "forked" <=> kstate[p] = "forked"
                      /\ kstate[p] = "reaped" => kstate'[p] = "reaped"
    /\ pc' # "forked"

\* The invariant survives such a step.
LEMMA SettledInv == ASSUME TableInv, Settled PROVE TableInv'
<1>1. ListedOnce'
  BY ListedBefore DEF ListedOnce, TableInv, ListInv, Settled
<1>2. ListedRegistered'
  BY ListedBefore DEF ListedRegistered, TableInv, ListInv, Settled
<1>3. FreshUnlisted'
  BY ListedBefore DEF FreshUnlisted, TableInv, ListInv, Settled
<1>4. ListedHaveGroup'
  BY DEF ListedHaveGroup, TableInv, ListInv, Settled, JobsKept, Kept, Cleared
<1>5. FreshInShell'
  BY DEF FreshInShell, TableInv, GroupInv, Settled
<1>6. ListedJoin'
  BY ListedBefore DEF ListedJoin, Joins, TableInv, GroupInv, Settled
<1>7. NewestJoins'
  BY DEF NewestJoins, Settled
<1> QED
  BY <1>1, <1>2, <1>3, <1>4, <1>5, <1>6, <1>7 DEF TableInv, ListInv, GroupInv

\* Leaving the job table alone keeps the jobs.
LEMMA SameJobsKept == ASSUME UNCHANGED job PROVE JobsKept
  BY DEF JobsKept, Kept

\* The steps that touch at most the evaluation of the line and hand out a job id.
LEMMA QuietSettled ==
    ASSUME Inv, \/ ReadLine \/ ReadEof \/ WaitInterrupted \/ EndLine \/ RunNothing \/ RunCommand
                \/ ForkFails \/ WaitReturns \/ FgReturns \/ AssertFails \/ builtin_wait
                \/ (\E w \in waits : WaitEchild(w)) \/ BuiltinWaitReturns \/ builtin_exit
                \/ RefreshReturns
    PROVE  Settled /\ UNCHANGED <<kernelVars, proc, foreground_job>>
<1>1. TableType
  BY DEF Inv, TypeOK
<1>2. CASE ReadLine
  <2>1. JobsKept
    BY <1>1, <1>2, JobWithKept, SameJobsKept DEF ReadLine
  <2> QED BY <1>2, <2>1 DEF ReadLine, Settled, JobsWith
<1>3. CASE RunNothing \/ RunCommand
  <2>1. JobsKept
    BY <1>1, <1>3, JobWithKept DEF RunNothing, RunCommand
  <2> QED BY <1>3, <2>1 DEF RunNothing, RunCommand, Settled, JobsWith
<1>4. CASE AssertFails
  <2>1. JobsKept
    BY <1>1, <1>4, JobWithKept, SameJobsKept DEF AssertFails
  <2>2. /\ UNCHANGED <<kernelVars, forkVars, processes, proc, foreground_job>>
        /\ pc' # "forked" /\ jobs \subseteq jobs'
    BY <1>4 DEF AssertFails, BuiltinOnJob, JobsWith
  <2> QED BY <2>1, <2>2 DEF Settled
<1>5. CASE builtin_wait \/ builtin_exit
  <2>1. JobsKept
    BY <1>1, <1>5, JobWithKept DEF builtin_wait, builtin_exit
  <2>2. /\ UNCHANGED <<kernelVars, forkVars, processes, proc, foreground_job>>
        /\ pc' # "forked" /\ jobs \subseteq jobs'
    BY <1>5 DEF builtin_wait, builtin_exit, BuiltinOnJob, Returned, JobsWith
  <2> QED BY <2>1, <2>2 DEF Settled
<1>6. CASE ReadEof \/ EndLine \/ RefreshReturns
  BY <1>6, SameJobsKept DEF ReadEof, EndLine, RefreshReturns, Settled
<1>7. CASE WaitInterrupted \/ ForkFails \/ WaitReturns \/ FgReturns \/ BuiltinWaitReturns
  <2>1. UNCHANGED <<kernelVars, forkVars, tableVars>> /\ pc' # "forked"
    BY <1>7 DEF WaitInterrupted, ForkFails, WaitReturns, FgReturns, BuiltinWaitReturns, Returned
  <2> QED BY <2>1, SameJobsKept DEF Settled
<1>8. CASE \E w \in waits : WaitEchild(w)
  <2>1. UNCHANGED <<kernelVars, forkVars, tableVars>> /\ pc' # "forked"
    BY <1>8 DEF WaitEchild
  <2> QED BY <2>1, SameJobsKept DEF Settled
<1> QED
  BY <1>2, <1>3, <1>4, <1>5, <1>6, <1>7, <1>8

\* What waitpid does to the kernel's state settles.
LEMMA WaitpidSettled ==
    ASSUME KernelType, NEW p \in Pid, kstate[p] \in {"zombie", "stopped"}, Waitpid(p)
    PROVE  \A q \in Pid : /\ kstate'[q] = "none" <=> kstate[q] = "none"
                          /\ kstate'[q] = "forked" <=> kstate[q] = "forked"
                          /\ kstate[q] = "reaped" => kstate'[q] = "reaped"
  BY DEF KernelType, Waitpid

LEMMA WaitingSettled ==
    ASSUME Inv, \/ WaitBlocks \/ FgBlocks
                \/ (\E w \in waits, p \in Pid : WaitReaps(w, p))
                \/ (\E j \in jobs : refresh_jobs_status(j))
    PROVE  Settled
<1>1. TableType /\ KernelType
  BY DEF Inv, TypeOK
<1>2. ASSUME NEW p \in Pid, job_wait_report(p), pc' # "forked",
             UNCHANGED <<processes, pgrp, execed, forkVars, jobs>>
      PROVE  Settled
  <2>1. JobsKept
    BY <1>1, <1>2, UpdateJobKept DEF job_wait_report
  <2>2. kstate[p] \in {"zombie", "stopped"} /\ Waitpid(p)
    BY <1>2 DEF job_wait_report, Reportable
  <2> QED BY <1>1, <1>2, <2>1, <2>2, WaitpidSettled DEF Settled
<1>3. CASE WaitBlocks
  BY <1>2, <1>3, HeadOfProcs DEF WaitBlocks
<1>4. CASE FgBlocks
  BY <1>2, <1>4 DEF FgBlocks
<1>5. ASSUME NEW w \in waits, NEW p \in Pid, WaitReaps(w, p) PROVE Settled
  <2>1. /\ kstate[p] \in {"zombie", "stopped"} /\ Waitpid(p) /\ pc' # "forked"
        /\ UNCHANGED <<jobs, job, processes, pgrp, execed, forkVars>>
    BY <1>5 DEF WaitReaps
  <2> QED BY <1>1, <2>1, WaitpidSettled, SameJobsKept DEF Settled
<1>6. ASSUME NEW j \in jobs, refresh_jobs_status(j) PROVE Settled
  <2>1. pc' # "forked" /\ UNCHANGED <<jobs, processes, pgrp, execed, forkVars>>
    BY <1>6 DEF refresh_jobs_status
  <2>2. CASE \E p \in Pid : job_wait_report(p)
    BY <2>1, <2>2, <1>2
  <2>3. CASE UNCHANGED <<kstate, job>>
    BY <2>1, <2>3, SameJobsKept DEF Settled
  <2> QED BY <1>6, <2>2, <2>3 DEF refresh_jobs_status
<1> QED
  BY <1>3, <1>4, <1>5, <1>6

\* kill(-pgid, SIGCONT) forks nothing.
LEMMA SetForegroundSettles ==
    ASSUME KernelType, NEW jb, NEW t, NEW f, NEW c, NEW pg, NEW pr,
           job_set_foreground(jb, t, f, c, pg, pr)
    PROVE  \A q \in Pid : /\ kstate'[q] = "none" <=> kstate[q] = "none"
                          /\ kstate'[q] = "forked" <=> kstate[q] = "forked"
                          /\ kstate[q] = "reaped" => kstate'[q] = "reaped"
  BY DEF KernelType, job_set_foreground, SigcontState

LEMMA ForegroundSettled ==
    ASSUME Inv, NEW n \in JobId, NEW t \in JobId, builtin_fg(n, t) \/ builtin_bg(n, t)
    PROVE  Settled
<1>1. TableType /\ KernelType /\ HistoryType
  BY DEF Inv, TypeOK
<1>2. JobWith(n) \in [JobId -> JobRecord]
  BY <1>1, JobWithType
<1>3. PICK f \in BOOLEAN : job_set_foreground(JobWith(n), t, f, TRUE, pgrp, proc)
  BY DEF builtin_fg, builtin_bg
<1>4. JobsKept
  <2> DEFINE jb == JobWith(n)
  <2>1. \A j \in JobId : job'[j].pgid = jb[j].pgid /\ job'[j].processes = jb[j].processes
    <3>1. jb \in [JobId -> JobRecord] /\ job_set_foreground(jb, t, f, TRUE, pgrp, proc)
      BY <1>2, <1>3
    <3> HIDE DEF jb
    <3> QED BY <3>1, SetForegroundKeeps
  <2>2. \A j \in JobId : jb[j] = job[j] \/ (j \notin jobs /\ jb[j] = NewJob)
    BY <1>1, JobWithKeeps
  <2> HIDE DEF jb
  <2> QED BY <2>1, <2>2 DEF JobsKept, Kept, Cleared, NewJob
<1>5. pc' # "forked" /\ UNCHANGED <<processes, pgrp, execed, forkVars>> /\ jobs \subseteq jobs'
  BY DEF builtin_fg, builtin_bg, BuiltinOnJob, Returned, JobsWith
<1> QED
  BY <1>1, <1>3, <1>4, <1>5, SetForegroundSettles DEF Settled

\* fork() gives a process that no job lists, in the shell's group.
LEMMA ForkTable == ASSUME Inv, TableInv, NEW p \in Pid, Fork(p) PROVE TableInv'
<1>1. /\ kstate \in [Pid -> {"none", "forked", "run", "stopped", "zombie", "reaped"}]
      /\ target \in [Pid -> Pid] /\ procs \in Seq(Pid)
  BY DEF Inv, TypeOK, KernelType, ForkType, EvalType
<1>2. /\ kstate[p] = "none" /\ kstate' = [kstate EXCEPT ![p] = "forked"]
      /\ target' = [target EXCEPT ![p] = GroupOfJob(cur, p)]
      /\ procs' = Append(procs, p) /\ pc' = "forked"
      /\ UNCHANGED <<pgrp, processes, job, cur>>
  BY DEF Fork
<1>3. Newest' = p
  BY <1>1, <1>2 DEF Newest
<1>4. ASSUME NEW q \in Pid, NEW j \in JobId PROVE Listed(q, j)' <=> Listed(q, j)
  BY <1>2 DEF Listed
<1>5. \A j \in JobId : ~Listed(p, j)
  BY <1>2 DEF TableInv, ListInv, FreshUnlisted
<1>6. \A q \in Pid : q # p => kstate'[q] = kstate[q] /\ target'[q] = target[q]
  BY <1>1, <1>2
<1>7. kstate'[p] = "forked" /\ target'[p] = GroupOfJob(cur, p)
  BY <1>1, <1>2
<1>8. ListedOnce' /\ ListedRegistered' /\ ListedHaveGroup'
  BY <1>2, <1>4 DEF TableInv, ListInv, ListedOnce, ListedRegistered, ListedHaveGroup
<1>9. FreshUnlisted'
  BY <1>3, <1>4, <1>5, <1>6, <1>7 DEF TableInv, ListInv, FreshUnlisted
<1>10. FreshInShell'
  BY <1>2, <1>6, <1>7 DEF TableInv, GroupInv, FreshInShell
<1>11. ListedJoin'
  BY <1>2, <1>4, <1>5, <1>6 DEF TableInv, GroupInv, ListedJoin, Joins
<1>12. NewestJoins'
  <2>1. pgrp[p] = Shell
    BY <1>2 DEF TableInv, GroupInv, FreshInShell
  <2>2. GroupOfJob(cur, p)' = GroupOfJob(cur, p)
    BY <1>2 DEF GroupOfJob
  <2>3. Joins(p, GroupOfJob(cur, p))'
    BY <1>2, <1>7, <2>1, <2>2 DEF Joins
  <2> QED BY <1>3, <2>3 DEF NewestJoins
<1> QED
  BY <1>8, <1>9, <1>10, <1>11, <1>12 DEF TableInv, ListInv, GroupInv

\* job_add_process gives the job its group and, unless the child was faster, the process.
LEMMA AddProcess ==
    ASSUME NEW jb \in [JobId -> JobRecord], NEW j \in JobId, NEW p \in Pid, NEW g, NEW err
    PROVE  LET r == job_add_process(jb, j, p, g, err)
           IN  /\ \A k \in JobId : k # j => r[k] = jb[k]
               /\ r[j].pgid = g
               /\ r[j].processes = IF err = "EACCES" THEN jb[j].processes
                                   ELSE Append(jb[j].processes, p)
<1> DEFINE a == Append(jb[j].processes, p)
<1>1. jb[j] \in JobRecord
  OBVIOUS
<1>2. job_add_process(jb, j, p, g, err) =
          [jb EXCEPT ![j].pgid = g, ![j].processes = IF err = "EACCES" THEN @ ELSE Append(@, p)]
  BY DEF job_add_process
<1> QED
  BY <1>1, <1>2 DEF JobRecord

\* What the parent's half of the initialisation does to the job table and the groups.
ParentFacts(p) ==
    LET g   == GroupOfJob(cur, p)
        err == SetpgidError(p, g)
    IN  /\ \A j \in JobId : j # cur => Kept(j)
        /\ \/ Kept(cur) /\ to_fork.how = "run_subshell" /\ pgrp' = pgrp
           \/ /\ to_fork.how # "run_subshell"
              /\ pgrp' = SetpgidEffect(p, g)
              /\ job'[cur].pgid = g
              /\ job'[cur].processes = IF err = "EACCES" THEN job[cur].processes
                                       ELSE Append(job[cur].processes, p)
        /\ kstate' = kstate

LEMMA ParentStep ==
    ASSUME Inv, NEW p \in Pid, ParentInit(p)
    PROVE  /\ ParentFacts(p)
           /\ cur \in jobs /\ cur \in JobId /\ Newest = p
           /\ GroupOfJob(cur, p) \in Pid
<1> DEFINE h  == to_fork.how
           g  == GroupOfJob(cur, p)
           jb == job_add_process(job, cur, p, g, SetpgidError(p, g))
           pg == SetpgidEffect(p, g)
           pr == [proc EXCEPT ![p] = NewProcess]
<1>1. cur \in jobs /\ cur \in JobId /\ Newest = p
  BY DEF Inv, TypeOK, TableType, ControlInv, ParentInit, Newest
<1>2. job \in [JobId -> JobRecord]
  BY DEF Inv, TypeOK, TableType
<1>3. g \in Pid
  BY <1>1, <1>2 DEF GroupOfJob, JobRecord
<1>4. /\ \A k \in JobId : k # cur => jb[k] = job[k]
      /\ jb[cur].pgid = g
      /\ jb[cur].processes = IF SetpgidError(p, g) = "EACCES" THEN job[cur].processes
                             ELSE Append(job[cur].processes, p)
  BY <1>1, <1>2, AddProcess
<1>a. jb \in [JobId -> JobRecord]
  <2> DEFINE r == job[cur]
             ps == IF SetpgidError(p, g) = "EACCES" THEN r.processes ELSE Append(r.processes, p)
             r2 == [r EXCEPT !.pgid = g, !.processes = ps]
  <2>1. r2 \in JobRecord
    <3>1. r \in JobRecord /\ r.processes \in Seq(Pid)
      BY <1>1, <1>2 DEF JobRecord
    <3>2. ps \in Seq(Pid)
      <4> HIDE DEF r
      <4> QED BY <3>1
    <3> HIDE DEF r, ps, g
    <3> QED BY <3>1, <3>2, <1>3 DEF JobRecord
  <2>2. jb = [job EXCEPT ![cur] = r2]
    BY DEF job_add_process
  <2> HIDE DEF r2, jb, g
  <2> QED BY <2>1, <2>2, <1>1, <1>2
<1>5. ParentFacts(p)
  <2> HIDE DEF g, jb, pg, pr
  <2>1. CASE h = "run_subshell"
    <3>1. UNCHANGED <<kstate, pgrp, job>>
      BY <2>1 DEF ParentInit
    <3> QED BY <2>1, <3>1 DEF ParentFacts, Kept
  <2>2. CASE h = "async"
    <3>1. job' = jb /\ pgrp' = pg /\ UNCHANGED kstate
      BY <2>2 DEF ParentInit, g, jb, pg, pr
    <3> QED BY <2>2, <3>1, <1>4 DEF ParentFacts, Kept, g, pg
  <2>3. CASE h \notin {"run_subshell", "async"}
    <3>1. pgrp' = pg /\ job_set_foreground(jb, cur, TRUE, FALSE, pg, pr)
      BY <2>3 DEF ParentInit, g, jb, pg, pr
    <3>2. kstate' = kstate
      BY <3>1 DEF job_set_foreground, Continues
    <3>3. \A j \in JobId : job'[j].pgid = jb[j].pgid /\ job'[j].processes = jb[j].processes
      BY <3>1, <1>1, <1>a, SetForegroundKeeps
    <3> QED BY <2>3, <3>1, <3>2, <3>3, <1>1, <1>4 DEF ParentFacts, Kept, g, pg
  <2> QED BY <2>1, <2>2, <2>3
<1> QED
  BY <1>1, <1>3, <1>5

\* The parent adds a process that no job lists, to a job whose group it joins.
LEMMA ParentTable == ASSUME Inv, TableInv, NEW p \in Pid, ParentInit(p) PROVE TableInv'
<1> DEFINE g == GroupOfJob(cur, p)
<1>1. ParentFacts(p) /\ cur \in jobs /\ cur \in JobId /\ Newest = p /\ g \in Pid
  BY ParentStep
<1>2. /\ pc = "forked" /\ pc' # "forked" /\ processes' = processes \cup {p}
      /\ UNCHANGED <<target, cur>>
  BY DEF ParentInit, Returned
<1>3. Unreaped(p) /\ Joins(p, g)
  BY <1>1, <1>2 DEF Inv, ForkedInv, TableInv, GroupInv, NewestJoins, Newest
<1>4. /\ job \in [JobId -> JobRecord] /\ pgrp \in [Pid -> Pid \cup {Shell}]
      /\ kstate' = kstate
  BY <1>1 DEF Inv, TypeOK, TableType, KernelType, ParentFacts
<1>5. \A j \in JobId : ~Listed(p, j)
  BY <1>1, <1>2 DEF TableInv, ListInv, FreshUnlisted
<1>6. ASSUME NEW q \in Pid, NEW j \in JobId, Listed(q, j)', q # p
      PROVE  Listed(q, j) /\ job'[j].pgid = job[j].pgid
  <2>1. CASE j # cur \/ to_fork.how = "run_subshell"
    <3>1. Kept(j)
      BY <1>1, <2>1 DEF ParentFacts
    <3> QED BY <1>6, <3>1 DEF Kept, Listed
  <2>2. CASE j = cur /\ to_fork.how # "run_subshell"
    <3> DEFINE ps == job[cur].processes
               nps == job'[cur].processes
    <3>1. /\ job'[cur].pgid = g /\ (nps = ps \/ nps = Append(ps, p))
      BY <1>1, <2>2 DEF ParentFacts
    <3>2. ps \in Seq(Pid)
      BY <1>1, <1>4 DEF JobRecord
    <3>3. PICK i \in DOMAIN nps : nps[i] = q
      BY <1>6, <2>2 DEF Listed
    <3>4. i \in DOMAIN ps /\ ps[i] = q
      <4> HIDE DEF ps, nps
      <4> QED BY <3>1, <3>2, <3>3, <1>6
    <3>5. Listed(q, cur)
      BY <3>4 DEF Listed
    <3>6. job[cur].pgid # NoGroup
      <4>1. ps # <<>>
        BY <3>4
      <4> QED BY <4>1, <1>1 DEF TableInv, ListInv, ListedHaveGroup
    <3>7. g = job[cur].pgid
      BY <3>6 DEF GroupOfJob
    <3> QED BY <2>2, <3>1, <3>5, <3>7
  <2> QED BY <2>1, <2>2
<1>7. ASSUME NEW j \in JobId, Listed(p, j)'
      PROVE  j = cur /\ job'[j].pgid = g /\ to_fork.how # "run_subshell"
  <2>1. ~Kept(j)
    BY <1>5, <1>7 DEF Kept, Listed
  <2> QED BY <1>1, <2>1 DEF ParentFacts
<1>8. \A q \in Pid : q # p => pgrp'[q] = pgrp[q]
  BY <1>1, <1>4 DEF ParentFacts, SetpgidEffect
<1>9. pgrp'[p] \in {pgrp[p], g}
  BY <1>1, <1>4 DEF ParentFacts, SetpgidEffect
<1>10. ListedOnce'
  BY <1>6, <1>7 DEF TableInv, ListInv, ListedOnce
<1>11. ListedRegistered'
  BY <1>2, <1>6, <1>7 DEF TableInv, ListInv, ListedRegistered
<1>12. FreshUnlisted'
  BY <1>2, <1>3, <1>4, <1>6 DEF TableInv, ListInv, FreshUnlisted, Unreaped
<1>13. ListedHaveGroup'
  <2> SUFFICES ASSUME NEW j \in JobId, job'[j].pgid = NoGroup PROVE job'[j].processes = <<>>
    BY DEF ListedHaveGroup
  <2>1. g # NoGroup
    BY <1>1, ConstantsAssumption DEF NoGroup
  <2>2. Kept(j)
    BY <1>1, <2>1 DEF ParentFacts
  <2> QED BY <2>2 DEF Kept, TableInv, ListInv, ListedHaveGroup
<1>14. FreshInShell'
  <2>1. kstate[p] # "none"
    BY <1>3 DEF Unreaped
  <2> QED BY <2>1, <1>4, <1>8 DEF TableInv, GroupInv, FreshInShell
<1>15. ListedJoin'
  <2> SUFFICES ASSUME NEW q \in Pid, NEW j \in JobId, Listed(q, j)'
               PROVE  Joins(q, job[j].pgid)'
    BY DEF ListedJoin
  <2>1. CASE q # p
    BY <1>2, <1>4, <1>6, <1>8, <2>1 DEF TableInv, GroupInv, ListedJoin, Joins
  <2>2. CASE q = p
    BY <1>2, <1>3, <1>4, <1>7, <1>9, <2>2 DEF Joins
  <2> QED BY <2>1, <2>2
<1>16. NewestJoins'
  BY <1>2 DEF NewestJoins
<1> QED
  BY <1>10, <1>11, <1>12, <1>13, <1>14, <1>15, <1>16 DEF TableInv, ListInv, GroupInv

\* A child changes its own group only, to the one it was forked for.
LEMMA ChildTable == ASSUME Inv, TableInv, NEW p \in Pid, ChildStep(p) PROVE TableInv'
<1>1. /\ kstate \in [Pid -> {"none", "forked", "run", "stopped", "zombie", "reaped"}]
      /\ pgrp \in [Pid -> Pid \cup {Shell}] /\ target \in [Pid -> Pid]
  BY DEF Inv, TypeOK, KernelType, ForkType
<1>2. UNCHANGED <<processes, job, pc, procs, cur>>
  BY DEF ChildStep, ChildInit, Execv, Terminate, Stop, Continue
<1>3. /\ \A q \in Pid : q # p => /\ kstate'[q] = kstate[q] /\ pgrp'[q] = pgrp[q]
                                 /\ target'[q] = target[q]
      /\ kstate[p] # "none" /\ kstate'[p] # "none"
      /\ kstate'[p] = "forked" => kstate[p] = "forked" /\ target'[p] = target[p]
      /\ pgrp'[p] = pgrp[p] \/ (kstate[p] = "forked" /\ pgrp'[p] = target[p])
  <2>1. CASE ChildInit(p)
    <3>1. /\ kstate[p] = "forked"
          /\ \/ kstate' = [kstate EXCEPT ![p] = "zombie"]
             \/ kstate' = [kstate EXCEPT ![p] = "run"]
          /\ target' = [target EXCEPT ![p] = p]
          /\ pgrp' = pgrp \/ pgrp' = SetpgidEffect(p, target[p])
      BY <2>1 DEF ChildInit, ForgetFork
    <3>2. pgrp' = pgrp \/ pgrp' = [pgrp EXCEPT ![p] = target[p]]
      BY <3>1 DEF SetpgidEffect
    <3> QED BY <1>1, <3>1, <3>2
  <2>2. CASE Terminate(p)
    BY <1>1, <2>2 DEF Terminate, ForgetFork
  <2>3. CASE Execv(p) \/ Stop(p) \/ Continue(p)
    BY <1>1, <2>3 DEF Execv, Stop, Continue
  <2> QED BY <2>1, <2>2, <2>3 DEF ChildStep
<1>4. ASSUME NEW q \in Pid, NEW j \in JobId PROVE Listed(q, j)' <=> Listed(q, j)
  BY <1>2 DEF Listed
<1>5. Newest' = Newest
  BY <1>2 DEF Newest
<1>6. ASSUME NEW q \in Pid, NEW g, Joins(q, g)
      PROVE  pgrp'[q] \in {Shell, g} /\ (kstate'[q] = "forked" => target'[q] = g)
  BY <1>3, <1>6 DEF Joins
<1>7. ListedOnce' /\ ListedRegistered' /\ ListedHaveGroup'
  BY <1>2, <1>4 DEF TableInv, ListInv, ListedOnce, ListedRegistered, ListedHaveGroup
<1>8. FreshUnlisted'
  BY <1>2, <1>3, <1>4, <1>5 DEF TableInv, ListInv, FreshUnlisted
<1>9. FreshInShell'
  BY <1>3 DEF TableInv, GroupInv, FreshInShell
<1>10. ListedJoin'
  <2> SUFFICES ASSUME NEW q \in Pid, NEW j \in JobId, Listed(q, j)'
               PROVE  Joins(q, job[j].pgid)'
    BY DEF ListedJoin
  <2>1. Joins(q, job[j].pgid)
    BY <1>4 DEF TableInv, GroupInv, ListedJoin
  <2> QED BY <1>2, <1>6, <2>1 DEF Joins
<1>11. NewestJoins'
  <2> SUFFICES ASSUME pc = "forked" PROVE Joins(Newest, GroupOfJob(cur, Newest))'
    BY <1>2 DEF NewestJoins
  <2>1. Newest \in Pid
    <3>1. procs \in Seq(Pid) /\ procs # <<>>
      BY DEF Inv, ControlInv, TypeOK, EvalType
    <3> QED BY <3>1 DEF Newest
  <2>2. Joins(Newest, GroupOfJob(cur, Newest))
    BY DEF TableInv, GroupInv, NewestJoins
  <2>3. GroupOfJob(cur, Newest)' = GroupOfJob(cur, Newest)
    BY <1>2, <1>5 DEF GroupOfJob
  <2> QED BY <1>5, <1>6, <2>1, <2>2, <2>3 DEF Joins
<1> QED
  BY <1>7, <1>8, <1>9, <1>10, <1>11 DEF TableInv, ListInv, GroupInv

\* Destroying jobs forgets their processes and no others.
LEMMA DestroyTable ==
    ASSUME Inv, TableInv, mrsh_destroy_terminated_jobs \/ mrsh_state_destroy
    PROVE  TableInv'
<1>1. /\ pc' # "forked"
      /\ UNCHANGED <<kstate, pgrp, target>>
  BY DEF mrsh_destroy_terminated_jobs, mrsh_state_destroy
<1>2. /\ \A j \in JobId : Kept(j) \/ Cleared(j)
      /\ \A j \in JobId : Kept(j) => \/ Cleared(j)
                                     \/ \A p \in Pid : Listed(p, j) /\ p \in processes => p \in processes'
  <2>1. CASE mrsh_state_destroy
    BY <2>1 DEF mrsh_state_destroy, Cleared, NewJob
  <2>2. CASE mrsh_destroy_terminated_jobs
    <3> SUFFICES ASSUME NEW j \in JobId
                 PROVE  \/ Cleared(j)
                        \/ /\ Kept(j)
                           /\ \A p \in Pid : Listed(p, j) /\ p \in processes => p \in processes'
      OBVIOUS
    <3>1. CASE j \in Terminated
      BY <2>2, <3>1 DEF mrsh_destroy_terminated_jobs, Cleared, NewJob
    <3>2. CASE j \notin Terminated
      <4>1. job[j] \in JobRecord
        BY DEF Inv, TypeOK, TableType
      <4>2. job'[j] = [job[j] EXCEPT !.pending_notification = @ /\ ~Notify]
        BY <2>2, <3>2 DEF mrsh_destroy_terminated_jobs
      <4>3. Kept(j)
        BY <4>1, <4>2 DEF Kept, JobRecord
      <4>4. ASSUME NEW p \in Pid, Listed(p, j), p \in processes PROVE p \in processes'
        <5>1. \A k \in Terminated : k \in JobId
          BY DEF Terminated, Inv, TypeOK, TableType
        <5>2. \A k \in Terminated : ~Listed(p, k)
          BY <3>2, <4>4, <5>1 DEF TableInv, ListInv, ListedOnce
        <5> QED BY <2>2, <4>4, <5>2 DEF mrsh_destroy_terminated_jobs
      <4> QED BY <4>3, <4>4
    <3> QED BY <3>1, <3>2
  <2> QED BY <2>1, <2>2
<1>3. ASSUME NEW p \in Pid, NEW j \in JobId, Listed(p, j)'
      PROVE  Listed(p, j) /\ job'[j].pgid = job[j].pgid /\ (p \in processes => p \in processes')
  <2>1. ~Cleared(j)
    BY <1>3 DEF Cleared, Listed
  <2>2. Kept(j)
    BY <1>2, <2>1
  <2>3. Listed(p, j)
    BY <1>3, <2>2 DEF Kept, Listed
  <2> QED BY <1>2, <2>1, <2>2, <2>3 DEF Kept
<1>4. ListedOnce' /\ ListedRegistered' /\ FreshUnlisted'
  BY <1>1, <1>3 DEF TableInv, ListInv, ListedOnce, ListedRegistered, FreshUnlisted
<1>5. ListedHaveGroup'
  BY <1>2 DEF TableInv, ListInv, ListedHaveGroup, Kept, Cleared
<1>6. FreshInShell' /\ NewestJoins'
  BY <1>1 DEF TableInv, GroupInv, FreshInShell, NewestJoins
<1>7. ListedJoin'
  BY <1>1, <1>3 DEF TableInv, GroupInv, ListedJoin, Joins
<1> QED
  BY <1>4, <1>5, <1>6, <1>7 DEF TableInv, ListInv, GroupInv

\* A step that changes nothing.
LEMMA HaltedTable == ASSUME TableInv, UNCHANGED vars PROVE TableInv'
<1>1. ListedOnce' /\ ListedRegistered' /\ FreshUnlisted' /\ ListedHaveGroup'
  BY DEF vars, TableInv, ListInv, ListedOnce, ListedRegistered, FreshUnlisted, ListedHaveGroup,
         Listed, Newest
<1>2. FreshInShell' /\ ListedJoin' /\ NewestJoins'
  BY DEF vars, TableInv, GroupInv, FreshInShell, ListedJoin, NewestJoins, Joins, Listed, Newest,
         GroupOfJob
<1> QED
  BY <1>1, <1>2 DEF TableInv, ListInv, GroupInv

\* Every step is settled or one of those looked at above.
LEMMA StepKinds ==
    ASSUME Inv, [Next]_vars
    PROVE  \/ Settled
           \/ \E p \in Pid : Fork(p) \/ ParentInit(p) \/ ChildStep(p)
           \/ mrsh_destroy_terminated_jobs \/ mrsh_state_destroy
           \/ UNCHANGED vars
<1>1. CASE UserStep
  BY <1>1, QuietSettled DEF UserStep
<1>2. CASE ShellStep
  <2>1. CASE EndLine \/ RunNothing \/ RunCommand \/ ForkFails \/ WaitReturns \/ FgReturns
    BY <2>1, QuietSettled
  <2>2. CASE AssertFails \/ builtin_wait \/ BuiltinWaitReturns \/ builtin_exit \/ RefreshReturns
    BY <2>2, QuietSettled
  <2>3. CASE \E w \in waits : WaitEchild(w) \/ \E p \in Pid : WaitReaps(w, p)
    BY <2>3, QuietSettled, WaitingSettled
  <2>4. CASE WaitBlocks \/ FgBlocks \/ \E j \in jobs : refresh_jobs_status(j)
    BY <2>4, WaitingSettled
  <2>5. CASE \E n, t \in JobId : builtin_fg(n, t) \/ builtin_bg(n, t)
    BY <2>5, ForegroundSettled
  <2> QED
    BY <1>2, <2>1, <2>2, <2>3, <2>4, <2>5 DEF ShellStep
<1> QED
  BY <1>1, <1>2 DEF Next, Halted

LEMMA TableInit == Init => TableInv
<1> SUFFICES ASSUME Init PROVE TableInv
  OBVIOUS
<1>1. \A j \in JobId : job[j] = NewJob
  BY DEF Init
<1>2. \A j \in JobId : job[j].pgid = NoGroup /\ job[j].processes = <<>>
  BY <1>1 DEF NewJob
<1>3. \A p \in Pid, j \in JobId : ~Listed(p, j)
  BY <1>2 DEF Listed
<1>4. pc = "prompt" /\ \A p \in Pid : pgrp[p] = Shell
  BY DEF Init
<1> QED
  BY <1>2, <1>3, <1>4 DEF TableInv, ListInv, GroupInv, ListedOnce, ListedRegistered,
     FreshUnlisted, ListedHaveGroup, FreshInShell, ListedJoin, NewestJoins

LEMMA TableNext == ASSUME Inv, TableInv, [Next]_vars PROVE TableInv'
  BY StepKinds, SettledInv, ForkTable, ParentTable, ChildTable, DestroyTable, HaltedTable

\* The job table and the groups stay consistent in every reachable state.
LEMMA TableInvariance == Spec => [](Inv /\ TableInv)
<1>1. Init => Inv /\ TableInv
  BY InitInv, TableInit
<1>2. (Inv /\ TableInv) /\ [Next]_vars => (Inv /\ TableInv)'
  BY NextInv, TableNext
<1> QED
  BY <1>1, <1>2, PTL DEF Spec

-----------------------------------------------------------------------------
(* The theorems *)

\* A job counts as terminated only when each of its processes was reaped.
LEMMA TerminatedReaped ==
    ASSUME Inv, TableInv, NEW j \in Terminated, NEW p \in Pid, Listed(p, j)
    PROVE  kstate[p] = "reaped"
<1>1. j \in JobId /\ job_poll(job[j].processes, proc) >= 0
  BY DEF Terminated, Inv, TypeOK, TableType
<1>2. PICK i \in DOMAIN job[j].processes : job[j].processes[i] = p
  BY DEF Listed
<1>3. /\ process_poll(proc[p]) # TASK_STATUS_WAIT
      /\ process_poll(proc[p]) # TASK_STATUS_STOPPED
  BY <1>1, <1>2 DEF job_poll, TASK_STATUS_WAIT, TASK_STATUS_STOPPED
<1>4. proc[p].terminated
  BY <1>3 DEF process_poll
<1>5. p \in processes
  BY <1>1 DEF TableInv, ListInv, ListedRegistered
<1> QED
  BY <1>4, <1>5 DEF Inv, ReapedIsRecorded

\* tcsetpgrp, kill(-pgid, SIGCONT) and kill(-pgid, SIGHUP) of a job never reach a process
\* of another job: whichever of the child's and the parent's setpgid comes first, or fails,
\* a listed process is in its job's group or still in the shell's.
THEOREM GroupsStayApart == Spec => []GroupsDoNotMix
<1>1. Inv /\ TableInv => GroupsDoNotMix
  BY DEF GroupsDoNotMix, Inv, TypeOK, TableType, TableInv, GroupInv, ListedJoin, Joins
<1> QED
  BY <1>1, TableInvariance, PTL

\* job_destroy, in mrsh_destroy_terminated_jobs, frees no process that waitpid could still
\* report, and no other step takes a process out of its job.
THEOREM LiveProcessesStay == Spec => LiveProcessKeepsItsJob
<1> DEFINE Step == \A j \in jobs, p \in Pid :
                      Listed(p, j) /\ Unreaped(p)' /\ pc' # "done" => j \in jobs' /\ Listed(p, j)'
<1>1. ASSUME Inv, TableInv, [Next]_vars PROVE Step
  <2> SUFFICES ASSUME NEW j \in jobs, NEW p \in Pid, Listed(p, j), Unreaped(p)', pc' # "done"
               PROVE  j \in jobs' /\ Listed(p, j)'
    OBVIOUS
  <2>1. j \in JobId /\ job[j] \in JobRecord
    BY <1>1 DEF Inv, TypeOK, TableType
  <2>2. CASE Settled
    <3>1. Kept(j) /\ j \in jobs'
      BY <2>1, <2>2 DEF Settled, JobsKept
    <3> QED BY <3>1 DEF Kept, Listed
  <2>3. CASE \E q \in Pid : Fork(q) \/ ChildStep(q)
    <3>1. UNCHANGED <<jobs, job>>
      BY <2>3 DEF Fork, ChildStep, ChildInit, Execv, Terminate, Stop, Continue
    <3> QED BY <3>1 DEF Listed
  <2>4. ASSUME NEW q \in Pid, ParentInit(q) PROVE j \in jobs' /\ Listed(p, j)'
    <3>1. ParentFacts(q) /\ jobs' = jobs
      BY <1>1, <2>4, ParentStep DEF ParentInit
    <3> DEFINE ps == job[j].processes
               nps == job'[j].processes
    <3>2. nps = ps \/ nps = Append(ps, q)
      BY <2>1, <3>1 DEF ParentFacts, Kept
    <3>3. PICK i \in DOMAIN ps : ps[i] = p
      BY DEF Listed
    <3>4. ps \in Seq(Pid)
      BY <2>1 DEF JobRecord
    <3>5. i \in DOMAIN nps /\ nps[i] = p
      <4> HIDE DEF ps, nps
      <4> QED BY <3>2, <3>3, <3>4
    <3> QED BY <3>1, <3>5 DEF Listed
  <2>5. CASE mrsh_destroy_terminated_jobs
    <3>1. j \notin Terminated
      <4>1. kstate'[p] = kstate[p] /\ kstate[p] # "reaped"
        BY <2>5 DEF mrsh_destroy_terminated_jobs, Unreaped
      <4> QED BY <1>1, <4>1, TerminatedReaped
    <3>2. job'[j] = [job[j] EXCEPT !.pending_notification = @ /\ ~Notify]
      BY <2>1, <2>5, <3>1 DEF mrsh_destroy_terminated_jobs
    <3>3. Kept(j)
      BY <2>1, <3>2 DEF Kept, JobRecord
    <3>4. j \in jobs'
      BY <2>5, <3>1 DEF mrsh_destroy_terminated_jobs, job_destroy
    <3> QED BY <3>3, <3>4 DEF Kept, Listed
  <2>6. CASE mrsh_state_destroy
    BY <2>6 DEF mrsh_state_destroy
  <2>7. CASE UNCHANGED vars
    BY <2>7 DEF vars, Listed
  <2> QED BY <1>1, <2>2, <2>3, <2>4, <2>5, <2>6, <2>7, StepKinds
<1>2. (Inv /\ TableInv) /\ [Next]_vars => [Step]_vars
  BY <1>1
<1> QED
  BY <1>2, TableInvariance, PTL DEF Spec, LiveProcessKeepsItsJob

\* broadcast_sighup_to_jobs skips no job with a process that is still there: when the shell
\* exits, every such process in its job's group is sent SIGHUP.
THEOREM ExitSendsHangup == Spec => ExitHangsUp
<1> DEFINE Step == pc = "exit" /\ pc' = "done" =>
                      \A j \in jobs, p \in Pid :
                          Listed(p, j) /\ Unreaped(p) /\ pgrp[p] = job[j].pgid => p \in hup'
<1>1. ASSUME Inv, TableInv, [Next]_vars PROVE Step
  <2> SUFFICES ASSUME pc = "exit", pc' = "done", NEW j \in jobs, NEW p \in Pid,
                      Listed(p, j), Unreaped(p), pgrp[p] = job[j].pgid
               PROVE  p \in hup'
    OBVIOUS
  <2>1. mrsh_state_destroy
    BY <1>1 DEF Next, UserStep, ReadLine, ReadEof, WaitInterrupted, ShellStep, EndLine, RunNothing,
       RunCommand, ForkFails, Fork, ParentInit, WaitBlocks, WaitReturns, FgBlocks, FgReturns,
       builtin_fg, builtin_bg, BuiltinOnJob, AssertFails, builtin_wait, WaitEchild, WaitReaps,
       BuiltinWaitReturns, builtin_exit, refresh_jobs_status, RefreshReturns,
       mrsh_destroy_terminated_jobs, Halted, ChildStep, ChildInit, Execv, Terminate, Stop,
       Continue, vars
  <2>2. j \notin Terminated
    BY <1>1, TerminatedReaped DEF Unreaped
  <2> QED BY <2>1, <2>2 DEF mrsh_state_destroy
<1>2. (Inv /\ TableInv) /\ [Next]_vars => [Step]_vars
  BY <1>1
<1> QED
  BY <1>2, TableInvariance, PTL DEF Spec, ExitHangsUp

==============================================================================
