--------------------------- MODULE Terminal_proofs ---------------------------
(***************************************************************************)
(* Proofs about the terminal of JobControl and about the prompt: who owns  *)
(* the terminal, that a child which takes it for its job never takes it    *)
(* back from the shell, what may still hold it when the shell prompts, and *)
(* what the user was told by then.                                         *)
(***************************************************************************)
EXTENDS JobTable_proofs

USE DEF kernelVars, forkVars, tableVars, evalVars

\* The functions whose children move the terminal, in init_child.
Foreground == {"run_process", "run_pipeline"}

\* A group that a job was given is led by the process it is named for, which is in it or
\* was before it was reaped.
LeaderInv ==
    \A j \in JobId : job[j].pgid # NoGroup =>
        LET g == job[j].pgid
        IN  /\ kstate[g] # "none" /\ pgrp[g] = g
            /\ kstate[g] = "forked" => target[g] = g

\* Before its initialisation a process has neither called execv nor been seen stopped.
FreshRecord ==
    \A p \in Pid : kstate[p] \in {"none", "forked"} => ~execed[p] /\ ~proc[p].stopped

\* Between fork and the parent's half: what the child was told, that a child which got
\* through its own half leads its group, and that only it may have moved the terminal.
NewestTold ==
    pc = "forked" =>
        /\ how[Newest] = to_fork.how
        /\ kstate[Newest] = "forked" => fork_job[Newest] = cur /\ fork_fg[Newest] = foreground_job
NewestLeads ==
    pc = "forked" /\ to_fork.how # "run_subshell" /\ GroupOfJob(cur, Newest) = Newest
        /\ (kstate[Newest] \in {"run", "stopped"} \/ execed[Newest])
    => pgrp[Newest] = Newest
NewestAhead ==
    pc = "forked" /\ foreground_job = NoJob =>
        term = Shell \/ (to_fork.how \in Foreground /\ term = GroupOfJob(cur, Newest))

\* Only a pipeline forks more than once, and its job is in the foreground from the second
\* fork on.
PipelineInv ==
    /\ pc = "fork" => /\ to_fork.n > 1 => to_fork.how = "run_pipeline"
                      /\ procs # <<>> => to_fork.how = "run_pipeline" /\ foreground_job = cur
    /\ pc = "forked" => /\ to_fork.n > 0 => to_fork.how = "run_pipeline"
                        /\ Len(procs) > 1 => to_fork.how = "run_pipeline" /\ foreground_job = cur

\* The group g is gone for good: its leader was reaped and nobody is left in it.
Dead(g) == g \in Pid /\ kstate[g] = "reaped" /\ ~GroupExists(g, pgrp)

\* The child p is still to call tcsetpgrp for its job.
Grabbing(p) ==
    /\ kstate[p] = "forked" /\ how[p] \in Foreground
    /\ fork_fg[p] = NoJob /\ fork_job[p] # NoJob

\* It is between fork and the parent's half, ...
AtFork(p) == pc = "forked" /\ p = Newest /\ foreground_job = NoJob

\* ... or its job is in the foreground and has the terminal already, ...
InForeground(p) ==
    /\ foreground_job = fork_job[p] /\ Listed(p, foreground_job) /\ term = target[p]
    /\ pc \in {"fork", "forked", "wait", "refresh", "destroy", "prompt", "exit"}
    /\ pc \in {"fork", "forked", "wait"} => procs # <<>> /\ Head(procs) = p

\* ... or the group it asks for is gone.  A child is never that late that it takes the
\* terminal away from the shell.
GrabInv ==
    pc \notin {"done", "aborted"} =>
        \A p \in Pid : Grabbing(p) => AtFork(p) \/ InForeground(p) \/ Dead(target[p])

NewestInv == NewestTold /\ NewestLeads /\ NewestAhead
OwnerInv  == TerminalFollowsForeground /\ ForegroundJobValid
TermInv   == OwnerInv /\ LeaderInv /\ FreshRecord /\ NewestInv /\ PipelineInv /\ GrabInv

\* What the proofs below assume of a state.
AllInv == Inv /\ TableInv /\ TermInv

-----------------------------------------------------------------------------
(* Groups *)

\* A group that is gone stays gone in a step that moves no process.
LEMMA DeadSettled ==
    ASSUME Settled, NEW g, Dead(g)
    PROVE  Dead(g)'
<1>1. ASSUME NEW p \in Pid, Unreaped(p)' PROVE Unreaped(p) /\ pgrp'[p] = pgrp[p]
  BY <1>1 DEF Settled, Unreaped
<1>2. g # Shell /\ ~ \E p \in Pid : pgrp[p] = g /\ Unreaped(p)
  BY DEF Dead, GroupExists
<1>3. ~ \E p \in Pid : pgrp'[p] = g /\ Unreaped(p)'
  BY <1>1, <1>2
<1>4. ~GroupExists(g, pgrp)'
  BY <1>2, <1>3 DEF GroupExists
<1> QED
  BY <1>4 DEF Dead, Settled

\* No process comes to life or back to it.
NoneRevived ==
    \A q \in Pid : /\ Unreaped(q)' => Unreaped(q)
                   /\ kstate[q] = "reaped" => kstate'[q] = "reaped"

\* Processes stay in their groups, but for a setpgid(p, h).
MayMove(p, h) == pgrp' = pgrp \/ pgrp' = SetpgidEffect(p, h)

\* setpgid brings no group back.
LEMMA DeadSetpgid ==
    ASSUME pgrp \in [Pid -> Pid \cup {Shell}], NEW p \in Pid, Unreaped(p), NEW h,
           MayMove(p, h), NoneRevived, NEW g, Dead(g)
    PROVE  Dead(g)'
<1>1. g # Shell /\ g \in Pid /\ ~ \E q \in Pid : pgrp[q] = g /\ Unreaped(q)
  BY DEF Dead, GroupExists
<1>2. kstate[g] = "reaped" /\ g # p
  BY DEF Dead, Unreaped
<1>3. ASSUME NEW q \in Pid, pgrp'[q] = g, Unreaped(q)' PROVE FALSE
  <2>1. pgrp[q] # g
    BY <1>1, <1>3 DEF NoneRevived
  <2>2. SetpgidError(p, h) = "none" /\ pgrp' = [pgrp EXCEPT ![p] = h]
    BY <1>3, <2>1 DEF SetpgidEffect, MayMove
  <2>3. q = p /\ h = g
    BY <1>3, <2>1, <2>2
  <2>4. GroupExists(g, pgrp)
    BY <1>2, <2>2, <2>3 DEF SetpgidError
  <2> QED BY <2>4 DEF Dead
<1>4. ~GroupExists(g, pgrp)'
  BY <1>1, <1>3 DEF GroupExists
<1> QED
  BY <1>1, <1>2, <1>4 DEF Dead, NoneRevived

LEMMA LeaderSettled == ASSUME TableType, LeaderInv, Settled PROVE LeaderInv'
<1> SUFFICES ASSUME NEW j \in JobId, job'[j].pgid # NoGroup
             PROVE  LET g == job'[j].pgid
                    IN  /\ kstate'[g] # "none" /\ pgrp'[g] = g
                        /\ kstate'[g] = "forked" => target'[g] = g
  BY DEF LeaderInv
<1>1. job'[j].pgid = job[j].pgid
  BY DEF Settled, JobsKept, Kept, Cleared
<1>2. job[j].pgid \in Pid
  BY <1>1 DEF TableType, JobRecord
<1> QED
  BY <1>1, <1>2 DEF LeaderInv, Settled

\* A child that still has to take the terminal after a settled step had to before.
LEMMA GrabbingSettled ==
    ASSUME Settled, NEW p \in Pid, Grabbing(p)'
    PROVE  Grabbing(p) /\ target'[p] = target[p] /\ fork_job'[p] = fork_job[p]
  BY DEF Settled, Grabbing

-----------------------------------------------------------------------------
(* Steps of the shell that leave processes and terminal alone *)

\* No child is being waited for in the foreground while it still has to take the terminal.
NoneInForeground == \A p \in Pid : Grabbing(p) => ~InForeground(p)

LEMMA GrabSettled ==
    ASSUME GrabInv, Settled, pc # "forked",
           \/ NoneInForeground
           \/ /\ pc' \in {"refresh", "destroy", "prompt", "exit"}
              /\ UNCHANGED <<foreground_job, term>>
              /\ foreground_job \in jobs /\ foreground_job \in JobId,
           pc \notin {"done", "aborted"}
    PROVE  GrabInv'
<1> SUFFICES ASSUME NEW p \in Pid, Grabbing(p)' PROVE InForeground(p)' \/ Dead(target[p])'
  BY DEF GrabInv
<1>1. Grabbing(p) /\ target'[p] = target[p] /\ fork_job'[p] = fork_job[p]
  BY GrabbingSettled
<1>2. CASE Dead(target[p])
  BY <1>1, <1>2, DeadSettled DEF Dead
<1>3. CASE InForeground(p)
  <2>1. /\ pc' \in {"refresh", "destroy", "prompt", "exit"}
        /\ UNCHANGED <<foreground_job, term>>
        /\ foreground_job \in jobs /\ foreground_job \in JobId
    BY <1>1, <1>3 DEF NoneInForeground
  <2>2. Kept(foreground_job)
    BY <2>1 DEF Settled, JobsKept
  <2>3. Listed(p, foreground_job)'
    BY <1>3, <2>1, <2>2 DEF Kept, InForeground, Listed
  <2> QED BY <1>1, <1>3, <2>1, <2>3 DEF InForeground
<1> QED
  BY <1>1, <1>2, <1>3 DEF GrabInv, AtFork

\* Nobody is in the foreground without a job there.
LEMMA NoForegroundNone ==
    ASSUME foreground_job = NoJob
    PROVE  NoneInForeground
  BY DEF NoneInForeground, Grabbing, InForeground

\* The job in the foreground survives a settled step that leaves it there.
LEMMA OwnerSettled ==
    ASSUME Inv, ForegroundJobValid, Settled, UNCHANGED <<foreground_job, term>>
    PROVE  ForegroundJobValid'
<1> SUFFICES ASSUME foreground_job # NoJob
             PROVE  /\ foreground_job \in jobs'
                    /\ job'[foreground_job].pgid # NoGroup
                    /\ term \in {Shell, job'[foreground_job].pgid}
  BY DEF ForegroundJobValid
<1>1. foreground_job \in jobs /\ foreground_job \in JobId
  BY DEF Inv, TypeOK, TableType, ForegroundJobValid
<1>2. Kept(foreground_job) /\ foreground_job \in jobs'
  BY <1>1 DEF Settled, JobsKept
<1> QED
  BY <1>2 DEF Kept, ForegroundJobValid

LEMMA FreshSettled ==
    ASSUME FreshRecord, Settled,
           \A p \in Pid : kstate[p] \in {"none", "forked"} /\ ~proc[p].stopped => ~proc'[p].stopped
    PROVE  FreshRecord'
  BY DEF FreshRecord, Settled

LEMMA NewestGone == ASSUME pc' # "forked" PROVE NewestInv'
  BY DEF NewestInv, NewestTold, NewestLeads, NewestAhead

\* Steps that change only the evaluation of the line.
LEMMA QuietTerm ==
    ASSUME AllInv, Settled, UNCHANGED <<kernelVars, proc, foreground_job>>, PipelineInv',
           \/ pc' = "aborted" /\ (pc = "forked" => foreground_job # NoJob)
           \/ /\ pc \notin {"forked", "done", "aborted"}
              /\ NoneInForeground \/ pc' \in {"refresh", "destroy", "prompt", "exit"}
    PROVE  TermInv'
<1>1. ForegroundJobValid'
  BY OwnerSettled DEF AllInv, TermInv, OwnerInv
<1>2. TerminalFollowsForeground'
  BY DEF AllInv, TermInv, OwnerInv, TerminalFollowsForeground
<1>3. LeaderInv'
  BY LeaderSettled DEF AllInv, TermInv, Inv, TypeOK
<1>4. FreshRecord'
  BY FreshSettled DEF AllInv, TermInv
<1>5. NewestInv'
  BY NewestGone DEF Settled
<1>6. GrabInv'
  <2>1. CASE pc' = "aborted"
    BY <2>1 DEF GrabInv
  <2>2. CASE pc \notin {"forked", "done", "aborted"} /\ NoneInForeground
    BY <2>2, GrabSettled DEF AllInv, TermInv
  <2>3. CASE /\ pc \notin {"forked", "done", "aborted"}
             /\ pc' \in {"refresh", "destroy", "prompt", "exit"}
    <3>1. CASE foreground_job = NoJob
      BY <2>2, <2>3, <3>1, NoForegroundNone
    <3>2. CASE foreground_job # NoJob
      <4>1. foreground_job \in jobs /\ foreground_job \in JobId
        BY <3>2 DEF AllInv, TermInv, OwnerInv, ForegroundJobValid, Inv, TypeOK, TableType
      <4> QED BY <2>3, <4>1, GrabSettled DEF AllInv, TermInv
    <3> QED BY <3>1, <3>2
  <2> QED BY <2>1, <2>2, <2>3
<1> QED
  BY <1>1, <1>2, <1>3, <1>4, <1>5, <1>6 DEF TermInv, OwnerInv

LEMMA NoPipeline == ASSUME pc' \notin {"fork", "forked"} PROVE PipelineInv'
  BY DEF PipelineInv

\* While the shell is elsewhere than at a fork, a wait or the prompt, no child is late.
LEMMA NoneOutside ==
    ASSUME pc \notin {"fork", "forked", "wait", "refresh", "destroy", "prompt", "exit"}
    PROVE  NoneInForeground
  BY DEF NoneInForeground, InForeground

\* The process a wait has returned for is not a child that still has to take the terminal.
LEMMA WaitedNotForked ==
    ASSUME AllInv, NEW p \in Pid, kstate[p] = "forked", \E j \in JobId : Listed(p, j)
    PROVE  process_poll(proc[p]) = TASK_STATUS_WAIT
<1>1. p \in processes
  BY DEF AllInv, TableInv, ListInv, ListedRegistered
<1>2. ~proc[p].terminated
  BY <1>1 DEF AllInv, Inv, ReapedIsRecorded
<1>3. ~proc[p].stopped
  BY DEF AllInv, TermInv, FreshRecord
<1> QED
  BY <1>2, <1>3 DEF process_poll

LEMMA QuietActions ==
    ASSUME AllInv, \/ ReadLine \/ ReadEof \/ WaitInterrupted \/ EndLine \/ RunNothing \/ RunCommand
                   \/ ForkFails \/ WaitReturns \/ FgReturns \/ AssertFails \/ builtin_wait
                   \/ (\E w \in waits : WaitEchild(w)) \/ BuiltinWaitReturns \/ builtin_exit
                   \/ RefreshReturns
    PROVE  TermInv'
<1>1. Settled /\ UNCHANGED <<kernelVars, proc, foreground_job>>
  BY QuietSettled DEF AllInv
<1>2. CASE ReadLine
  <2>1. pc = "prompt" /\ pc' = "line" /\ term = Shell
    BY <1>2 DEF ReadLine
  <2>2. \A p \in Pid : target[p] # Shell
    BY ConstantsAssumption DEF AllInv, Inv, TypeOK, ForkType
  <2>3. NoneInForeground
    BY <2>1, <2>2 DEF NoneInForeground, InForeground
  <2> QED BY <1>1, <2>1, <2>3, QuietTerm, NoPipeline
<1>3. CASE ReadEof \/ EndLine \/ RefreshReturns
  <2>1. pc \in {"prompt", "line", "refresh"} /\ pc' \in {"exit", "refresh", "destroy"}
    BY <1>3 DEF ReadEof, EndLine, RefreshReturns
  <2> QED BY <1>1, <2>1, QuietTerm, NoPipeline
<1>4. CASE ForkFails
  <2>1. pc = "fork" /\ pc' = "refresh"
    BY <1>4 DEF ForkFails, Returned, TASK_STATUS_ERROR
  <2> QED BY <1>1, <2>1, QuietTerm, NoPipeline
<1>5. CASE \/ WaitInterrupted \/ RunNothing \/ FgReturns \/ builtin_wait
           \/ (\E w \in waits : WaitEchild(w)) \/ BuiltinWaitReturns \/ builtin_exit
  <2>1. pc \in {"builtin_wait", "line", "fg"} /\ pc' \in {"builtin_wait", "line", "refresh"}
    BY <1>5 DEF WaitInterrupted, RunNothing, FgReturns, builtin_wait, BuiltinWaitReturns,
       builtin_exit, Returned, BuiltinOnJob, WaitEchild
  <2> QED BY <1>1, <2>1, QuietTerm, NoPipeline, NoneOutside
<1>6. CASE RunCommand
  <2>1. pc = "line" /\ pc' = "fork" /\ procs' = <<>>
    BY <1>6 DEF RunCommand
  <2>2. PICK h \in Hows, k \in 1 .. MaxPipeline :
            ((h = "run_pipeline") <=> (k > 1)) /\ to_fork' = [how |-> h, n |-> k]
    BY <1>6 DEF RunCommand
  <2>3. PipelineInv'
    BY <2>1, <2>2 DEF PipelineInv
  <2> QED BY <1>1, <2>1, <2>3, QuietTerm, NoneOutside
<1>7. CASE AssertFails
  <2>1. pc' = "aborted" /\ (pc = "forked" => foreground_job # NoJob)
    BY <1>7 DEF AssertFails, BuiltinOnJob
  <2> QED BY <1>1, <2>1, QuietTerm, NoPipeline
<1>8. CASE WaitReturns
  <2>1. /\ pc = "wait" /\ pc' \in {"wait", "line", "refresh"}
        /\ process_poll(proc[Head(procs)]) # TASK_STATUS_WAIT
    BY <1>8 DEF WaitReturns, Returned
  <2>2. ASSUME NEW p \in Pid, Grabbing(p), InForeground(p) PROVE FALSE
    <3>1. p = Head(procs) /\ kstate[p] = "forked" /\ Listed(p, foreground_job)
      BY <2>1, <2>2 DEF InForeground, Grabbing
    <3>2. foreground_job \in JobId
      BY <2>2 DEF InForeground, Grabbing, AllInv, Inv, TypeOK, TableType
    <3> QED BY <2>1, <3>1, <3>2, WaitedNotForked
  <2>3. NoneInForeground
    BY <2>2 DEF NoneInForeground
  <2> QED BY <1>1, <2>1, <2>3, QuietTerm, NoPipeline
<1> QED
  BY <1>2, <1>3, <1>4, <1>5, <1>6, <1>7, <1>8

-----------------------------------------------------------------------------
(* Steps that learn about processes, or put a job into the foreground *)

\* update_process enters nothing for a process that was not reported.
LEMMA UpdateOther ==
    ASSUME TableType, NEW p \in Pid, NEW q \in Pid, q # p
    PROVE  update_process(p)[q] = proc[q]
  BY DEF TableType, update_process

\* The foreground job does not leave the foreground while it has a child that is not
\* initialised: the terminal is not taken back before the child asks for it.
LEMMA StaysInForeground ==
    ASSUME AllInv, NEW p \in Pid, NEW q \in Pid, kstate[p] \in {"zombie", "stopped"},
           update_job(update_process(p)), Grabbing(q), InForeground(q)
    PROVE  UNCHANGED <<foreground_job, term>>
<1> DEFINE np == update_process(p)
           j  == foreground_job
           ps == job[j].processes
<1>1. kstate[q] = "forked" /\ Listed(q, j)
  BY DEF Grabbing, InForeground
<1>2. j \in JobId
  BY DEF InForeground, Grabbing, AllInv, Inv, TypeOK, TableType
<1>3. process_poll(proc[q]) = TASK_STATUS_WAIT
  BY <1>1, <1>2, WaitedNotForked
<1>4. np[q] = proc[q]
  BY <1>1, UpdateOther DEF AllInv, Inv, TypeOK
<1>5. job_poll(ps, np) = TASK_STATUS_WAIT
  <2>1. \E i \in DOMAIN ps : process_poll(np[ps[i]]) = TASK_STATUS_WAIT
    BY <1>1, <1>3, <1>4 DEF Listed
  <2> HIDE DEF np, ps
  <2> QED BY <2>1 DEF job_poll
<1>6. ~ \E k \in jobs : /\ foreground_job = k
                        /\ job_poll(job[k].processes, np) # TASK_STATUS_WAIT
                        /\ job[k].pgid # NoGroup
  BY <1>5
<1> HIDE DEF np
<1>7. update_job(np)
  BY DEF np
<1> QED
  BY <1>6, <1>7 DEF update_job

\* _job_wait and refresh_jobs_status.
LEMMA ReportTerm ==
    ASSUME AllInv, NEW p \in Pid, job_wait_report(p), Settled,
           pc \in {"wait", "fg", "refresh"}, UNCHANGED <<pc, procs>>
    PROVE  TermInv'
<1>1. kstate[p] \in {"zombie", "stopped"} /\ update_job(update_process(p))
  BY DEF job_wait_report, Reportable
<1>2. UNCHANGED <<foreground_job, term>> \/ (foreground_job' = NoJob /\ term' = Shell)
  BY <1>1 DEF update_job
<1>3. proc' = update_process(p)
  BY <1>1 DEF update_job
<1>4. ForegroundJobValid'
  <2>1. CASE UNCHANGED <<foreground_job, term>>
    BY <2>1, OwnerSettled DEF AllInv, TermInv, OwnerInv
  <2>2. CASE foreground_job' = NoJob
    BY <2>2 DEF ForegroundJobValid
  <2> QED BY <1>2, <2>1, <2>2
<1>5. TerminalFollowsForeground'
  BY <1>2 DEF AllInv, TermInv, OwnerInv, TerminalFollowsForeground
<1>6. LeaderInv'
  BY LeaderSettled DEF AllInv, TermInv, Inv, TypeOK
<1>7. FreshRecord'
  <2>1. \A q \in Pid : kstate[q] \in {"none", "forked"} => proc'[q] = proc[q]
    BY <1>1, <1>3, UpdateOther DEF AllInv, Inv, TypeOK
  <2> QED BY <2>1, FreshSettled DEF AllInv, TermInv
<1>8. NewestInv' /\ PipelineInv'
  BY NewestGone, NoPipeline
<1>9. GrabInv'
  <2> SUFFICES ASSUME NEW q \in Pid, Grabbing(q)' PROVE InForeground(q)' \/ Dead(target[q])'
    BY DEF GrabInv
  <2>1. Grabbing(q) /\ target'[q] = target[q] /\ fork_job'[q] = fork_job[q]
    BY GrabbingSettled
  <2>2. CASE Dead(target[q])
    BY <2>1, <2>2, DeadSettled DEF Dead
  <2>3. CASE InForeground(q)
    <3>1. UNCHANGED <<foreground_job, term>>
      BY <1>1, <2>1, <2>3, StaysInForeground
    <3>2. foreground_job \in jobs /\ foreground_job \in JobId
      BY <2>1, <2>3 DEF AllInv, TermInv, OwnerInv, ForegroundJobValid, Inv, TypeOK, TableType,
                        Grabbing, InForeground
    <3>3. Kept(foreground_job)
      BY <3>2 DEF Settled, JobsKept
    <3>4. Listed(q, foreground_job)'
      BY <2>3, <3>1, <3>3 DEF Kept, InForeground, Listed
    <3> QED BY <2>1, <2>3, <3>1, <3>4 DEF InForeground
  <2> QED BY <2>1, <2>2, <2>3 DEF AllInv, TermInv, GrabInv, AtFork
<1> QED
  BY <1>4, <1>5, <1>6, <1>7, <1>8, <1>9 DEF TermInv, OwnerInv

LEMMA WaitingTerm ==
    ASSUME AllInv, \/ WaitBlocks \/ FgBlocks
                   \/ (\E w \in waits, p \in Pid : WaitReaps(w, p))
                   \/ (\E j \in jobs : refresh_jobs_status(j))
    PROVE  TermInv'
<1>1. Settled
  BY WaitingSettled DEF AllInv
<1>2. CASE WaitBlocks
  BY <1>1, <1>2, ReportTerm, HeadOfProcs DEF AllInv, WaitBlocks
<1>3. CASE FgBlocks
  BY <1>1, <1>3, ReportTerm DEF FgBlocks
<1>4. ASSUME NEW w \in waits, NEW p \in Pid, WaitReaps(w, p) PROVE TermInv'
  <2>1. /\ pc = "builtin_wait" /\ pc' = pc /\ proc' = update_process(p)
        /\ UNCHANGED <<foreground_job, term>> /\ kstate[p] = "zombie"
    BY <1>4 DEF WaitReaps
  <2>2. OwnerInv'
    BY <1>1, <2>1, OwnerSettled DEF AllInv, TermInv, OwnerInv, TerminalFollowsForeground
  <2>3. LeaderInv'
    BY <1>1, LeaderSettled DEF AllInv, TermInv, Inv, TypeOK
  <2>4. FreshRecord'
    <3>1. \A q \in Pid : kstate[q] \in {"none", "forked"} => proc'[q] = proc[q]
      BY <2>1, UpdateOther DEF AllInv, Inv, TypeOK
    <3> QED BY <1>1, <3>1, FreshSettled DEF AllInv, TermInv
  <2>5. NewestInv' /\ PipelineInv'
    BY <2>1, NewestGone, NoPipeline
  <2>6. GrabInv'
    BY <1>1, <2>1, GrabSettled, NoneOutside DEF AllInv, TermInv
  <2> QED BY <2>2, <2>3, <2>4, <2>5, <2>6 DEF TermInv
<1>5. ASSUME NEW j \in jobs, refresh_jobs_status(j) PROVE TermInv'
  <2>1. pc = "refresh" /\ UNCHANGED <<pc, procs, execed>>
    BY <1>5 DEF refresh_jobs_status
  <2>2. CASE \E p \in Pid : job_wait_report(p)
    BY <1>1, <2>1, <2>2, ReportTerm
  <2>3. CASE UNCHANGED <<kstate, fresh_stop, proc, job, foreground_job, term>>
    <3>1. UNCHANGED <<kernelVars, proc, foreground_job>>
      BY <1>5, <2>3 DEF refresh_jobs_status
    <3> QED BY <1>1, <2>1, <3>1, QuietTerm, NoPipeline
  <2> QED BY <1>5, <2>2, <2>3 DEF refresh_jobs_status
<1> QED
  BY <1>2, <1>3, <1>4, <1>5

\* fg and bg: called from a line, when no child is late.
LEMMA ForegroundTerm ==
    ASSUME AllInv, NEW n \in JobId, NEW t \in JobId, builtin_fg(n, t) \/ builtin_bg(n, t)
    PROVE  TermInv'
<1>1. Settled
  BY ForegroundSettled DEF AllInv
<1>2. pc = "line" /\ pc' \in {"fg", "line", "refresh"} /\ t \in jobs'
  BY DEF builtin_fg, builtin_bg, BuiltinOnJob, Returned
<1>3. /\ foreground_job = NoJob => term = Shell
      /\ JobWith(n)[t].pgid # NoGroup
  BY <1>2 DEF AllInv, TermInv, OwnerInv, TerminalFollowsForeground, builtin_fg, builtin_bg
<1>4. PICK f \in BOOLEAN : /\ job_set_foreground(JobWith(n), t, f, TRUE, pgrp, proc)
                           /\ f => foreground_job \in {NoJob, t}
  BY DEF builtin_fg, builtin_bg
<1>5. /\ TableType /\ HistoryType /\ JobWith(n) \in [JobId -> JobRecord]
      /\ proc \in [Pid -> ProcRecord]
  BY JobWithType DEF AllInv, Inv, TypeOK, TableType
<1>6. job'[t].pgid = JobWith(n)[t].pgid
  BY <1>4, <1>5, SetForegroundKeeps
<1>7. job'[t].pgid # NoGroup
  BY <1>3, <1>6
<1>8. LeaderInv'
  BY <1>1, <1>5, LeaderSettled DEF AllInv, TermInv
<1>9. FreshRecord'
  <2>1. \A q \in Pid : proc'[q] = proc[q] \/ proc'[q] = [proc[q] EXCEPT !.stopped = FALSE]
    BY <1>4, <1>5 DEF job_set_foreground
  <2>2. \A q \in Pid : ~proc[q].stopped => ~proc'[q].stopped
    BY <1>5, <2>1 DEF ProcRecord
  <2> QED BY <1>1, <2>2, FreshSettled DEF AllInv, TermInv
<1>10. NewestInv' /\ PipelineInv'
  BY <1>2, NewestGone, NoPipeline
<1>11. GrabInv'
  BY <1>1, <1>2, GrabSettled, NoneOutside DEF AllInv, TermInv
<1>12. OwnerInv'
  <2>1. CASE UNCHANGED <<foreground_job, term>>
    BY <1>1, <1>2, <2>1, OwnerSettled DEF AllInv, TermInv, OwnerInv, TerminalFollowsForeground
  <2>2. CASE f
    <3>1. foreground_job' = t /\ (foreground_job = t => term' = term)
      BY <1>4, <2>2 DEF job_set_foreground
    <3>2. CASE foreground_job = t
      BY <2>1, <3>1, <3>2
    <3>3. CASE foreground_job = NoJob
      <4>1. t # NoJob
        BY DEF NoJob, JobId
      <4>2. term' \in {term, JobWith(n)[t].pgid}
        BY <1>4, <2>2 DEF job_set_foreground, Tcsetpgrp
      <4> QED BY <1>2, <1>3, <1>6, <1>7, <3>1, <3>3, <4>1, <4>2
              DEF OwnerInv, ForegroundJobValid, TerminalFollowsForeground
    <3> QED BY <1>4, <2>2, <3>2, <3>3
  <2>3. CASE ~f /\ foreground_job # t
    <3>1. UNCHANGED <<foreground_job, term>>
      BY <1>4, <2>3 DEF job_set_foreground
    <3> QED BY <2>1, <3>1
  <2>4. CASE ~f /\ foreground_job = t
    <3>1. NoJob # t
      BY DEF NoJob, JobId
    <3>2. foreground_job' = NoJob /\ term' = Tcsetpgrp(Shell, pgrp)
      BY <1>4, <2>4, <3>1 DEF job_set_foreground
    <3>3. term' = Shell
      BY <3>2 DEF Tcsetpgrp, GroupExists
    <3> QED BY <3>2, <3>3 DEF OwnerInv, ForegroundJobValid, TerminalFollowsForeground
  <2> QED BY <2>2, <2>3, <2>4
<1> QED
  BY <1>8, <1>9, <1>10, <1>11, <1>12 DEF TermInv

-----------------------------------------------------------------------------
(* The fork and its two halves *)

LEMMA ForkTerm == ASSUME AllInv, NEW p \in Pid, Fork(p) PROVE TermInv'
<1>1. /\ kstate \in [Pid -> {"none", "forked", "run", "stopped", "zombie", "reaped"}]
      /\ how \in [Pid -> Hows] /\ target \in [Pid -> Pid]
      /\ fork_fg \in [Pid -> JobId \cup {NoJob}] /\ fork_job \in [Pid -> JobId \cup {NoJob}]
      /\ procs \in Seq(Pid) /\ to_fork \in [how : Hows, n : Nat]
  BY DEF AllInv, Inv, TypeOK, KernelType, ForkType, EvalType
<1>2. /\ pc = "fork" /\ pc' = "forked"
      /\ kstate[p] = "none" /\ kstate' = [kstate EXCEPT ![p] = "forked"]
      /\ how' = [how EXCEPT ![p] = to_fork.how]
      /\ target' = [target EXCEPT ![p] = GroupOfJob(cur, p)]
      /\ fork_fg' = [fork_fg EXCEPT ![p] = foreground_job]
      /\ fork_job' = [fork_job EXCEPT ![p] = cur]
      /\ procs' = Append(procs, p)
      /\ to_fork' = [to_fork EXCEPT !.n = @ - 1]
      /\ UNCHANGED <<pgrp, execed, term, tableVars, cur>>
  BY DEF Fork
<1>3. /\ Newest' = p
      /\ procs # <<>> => procs' # <<>> /\ Head(procs') = Head(procs)
      /\ Len(procs') > 1 => procs # <<>>
      /\ to_fork'.how = to_fork.how /\ (to_fork'.n > 0 => to_fork.n > 1)
  BY <1>1, <1>2 DEF Newest
<1>4. \A q \in Pid : q # p => /\ kstate'[q] = kstate[q] /\ how'[q] = how[q]
                              /\ target'[q] = target[q] /\ fork_fg'[q] = fork_fg[q]
                              /\ fork_job'[q] = fork_job[q]
  BY <1>1, <1>2
<1>5. /\ kstate'[p] = "forked" /\ how'[p] = to_fork.how
      /\ target'[p] = GroupOfJob(cur, p) /\ fork_fg'[p] = foreground_job /\ fork_job'[p] = cur
  BY <1>1, <1>2
<1>6. OwnerInv'
  BY <1>2 DEF AllInv, TermInv, OwnerInv, ForegroundJobValid, TerminalFollowsForeground
<1>7. LeaderInv'
  <2> SUFFICES ASSUME NEW j \in JobId, job[j].pgid # NoGroup
               PROVE  LET g == job[j].pgid
                      IN  /\ kstate'[g] # "none" /\ pgrp'[g] = g
                          /\ kstate'[g] = "forked" => target'[g] = g
    BY <1>2 DEF LeaderInv
  <2> DEFINE g == job[j].pgid
  <2>1. /\ kstate[g] # "none" /\ pgrp[g] = g
        /\ kstate[g] = "forked" => target[g] = g
    BY DEF AllInv, TermInv, LeaderInv
  <2>2. g \in Pid /\ g # p
    BY <1>2, <2>1 DEF AllInv, Inv, TypeOK, TableType, JobRecord
  <2> QED BY <1>2, <1>4, <2>1, <2>2
<1>8. FreshRecord'
  BY <1>2, <1>4 DEF AllInv, TermInv, FreshRecord
<1>9. NewestInv'
  <2>1. NewestTold'
    BY <1>2, <1>3, <1>5 DEF NewestTold
  <2>2. NewestLeads'
    <3>1. ~execed'[p]
      BY <1>2 DEF AllInv, TermInv, FreshRecord
    <3> QED BY <1>3, <1>5, <3>1 DEF NewestLeads
  <2>3. NewestAhead'
    BY <1>2 DEF AllInv, TermInv, OwnerInv, TerminalFollowsForeground, NewestAhead
  <2> QED BY <2>1, <2>2, <2>3 DEF NewestInv
<1>10. PipelineInv'
  BY <1>2, <1>3 DEF AllInv, TermInv, PipelineInv
<1>11. GrabInv'
  <2> SUFFICES ASSUME NEW q \in Pid, Grabbing(q)'
               PROVE  AtFork(q)' \/ InForeground(q)' \/ Dead(target[q])'
    BY DEF GrabInv
  <2>1. CASE q = p
    BY <1>2, <1>3, <1>5, <2>1 DEF Grabbing, AtFork
  <2>2. CASE q # p
    <3>1. Grabbing(q) /\ target'[q] = target[q] /\ fork_job'[q] = fork_job[q]
      BY <1>4, <2>2 DEF Grabbing
    <3>2. CASE InForeground(q)
      BY <1>2, <1>3, <3>1, <3>2 DEF InForeground, Listed
    <3>3. CASE Dead(target[q])
      <4> DEFINE g == target[q]
      <4>1. g \in Pid /\ g # Shell /\ kstate[g] = "reaped" /\ g # p
        BY <1>2, <3>3 DEF Dead, GroupExists
      <4>2. pgrp[p] = Shell
        BY <1>2 DEF AllInv, TableInv, GroupInv, FreshInShell
      <4>3. ~ \E r \in Pid : pgrp[r] = g /\ Unreaped(r)
        BY <3>3 DEF Dead, GroupExists
      <4>4. ~ \E r \in Pid : pgrp'[r] = g /\ Unreaped(r)'
        BY <1>2, <1>4, <4>1, <4>2, <4>3 DEF Unreaped
      <4>5. kstate'[g] = "reaped"
        BY <1>4, <4>1
      <4> QED BY <3>1, <4>1, <4>4, <4>5 DEF Dead, GroupExists
    <3> QED BY <1>2, <3>1, <3>2, <3>3 DEF AllInv, TermInv, GrabInv, AtFork
  <2> QED BY <2>1, <2>2
<1> QED
  BY <1>6, <1>7, <1>8, <1>9, <1>10, <1>11 DEF TermInv

\* What the parent's half does to the terminal and the registry.
LEMMA ParentTerminal ==
    ASSUME Inv, NEW p \in Pid, ParentInit(p)
    PROVE  LET g == GroupOfJob(cur, p)
           IN  /\ to_fork.how \notin Foreground => UNCHANGED <<foreground_job, term>>
               /\ to_fork.how \in Foreground =>
                     /\ foreground_job \in {NoJob, cur} /\ foreground_job' = cur
                     /\ term' = IF foreground_job = cur THEN term ELSE Tcsetpgrp(g, pgrp')
               /\ proc' = [proc EXCEPT ![p] = NewProcess]
<1> DEFINE h  == to_fork.how
           g  == GroupOfJob(cur, p)
           jb == job_add_process(job, cur, p, g, SetpgidError(p, g))
           pg == SetpgidEffect(p, g)
           pr == [proc EXCEPT ![p] = NewProcess]
<1>1. h \in Hows
  BY DEF Inv, TypeOK, EvalType
<1>2. CASE h \notin Foreground
  BY <1>1, <1>2 DEF ParentInit, Foreground, Hows
<1>3. CASE h \in Foreground
  <2> HIDE DEF g, jb, pg, pr
  <2>1. pgrp' = pg /\ job_set_foreground(jb, cur, TRUE, FALSE, pg, pr) /\ foreground_job \in {NoJob, cur}
    BY <1>3 DEF ParentInit, Foreground, g, jb, pg, pr
  <2>2. jb[cur].pgid = g
    <3>1. cur \in JobId /\ job \in [JobId -> JobRecord]
      BY ParentStep DEF Inv, TypeOK, TableType
    <3> QED BY <3>1, AddProcess DEF jb
  <2>3. /\ foreground_job' = cur /\ proc' = pr
        /\ term' = IF cur = foreground_job THEN term ELSE Tcsetpgrp(jb[cur].pgid, pg)
    BY <2>1 DEF job_set_foreground, Continues
  <2> QED BY <1>3, <2>1, <2>2, <2>3 DEF g, pr
<1> QED
  BY <1>2, <1>3

\* The group the parent gives the terminal to exists, unless it is gone for good.
LEMMA GroupOrDead ==
    ASSUME AllInv, NEW p \in Pid, ParentInit(p), to_fork.how # "run_subshell"
    PROVE  GroupExists(GroupOfJob(cur, p), pgrp') \/ Dead(GroupOfJob(cur, p))'
<1> DEFINE g == GroupOfJob(cur, p)
<1>1. ParentFacts(p) /\ cur \in jobs /\ cur \in JobId /\ Newest = p /\ g \in Pid
  BY ParentStep DEF AllInv
<1>2. /\ kstate' = kstate /\ pgrp' = SetpgidEffect(p, g)
      /\ pgrp \in [Pid -> Pid \cup {Shell}] /\ Unreaped(p)
      /\ cur' = cur /\ GroupOfJob(cur, p)' = g
  <2>1. job'[cur].pgid = g /\ cur' = cur
    BY <1>1 DEF ParentFacts, ParentInit
  <2>2. GroupOfJob(cur, p)' = g
    BY <1>1, <2>1, ConstantsAssumption DEF GroupOfJob, NoGroup
  <2>3. Unreaped(p)
    BY DEF AllInv, Inv, ForkedInv, ParentInit
  <2> QED
    BY <1>1, <2>1, <2>2, <2>3 DEF ParentFacts, AllInv, Inv, TypeOK, KernelType
<1> HIDE DEF g
<1>3. CASE GroupExists(g, pgrp)
  <2>1. CASE g = Shell
    BY <2>1 DEF GroupExists, g
  <2>2. CASE \E q \in Pid : pgrp[q] = g /\ Unreaped(q)
    <3>1. PICK q \in Pid : pgrp[q] = g /\ Unreaped(q)
      BY <2>2
    <3>2. pgrp'[q] = g
      BY <1>1, <1>2, <3>1 DEF SetpgidEffect
    <3> QED BY <3>1, <3>2 DEF GroupExists, g
  <2> QED BY <1>3, <2>1, <2>2 DEF GroupExists
<1>4. CASE ~GroupExists(g, pgrp) /\ g = p
  <2>1. pgrp'[p] = p
    <3>1. CASE execed[p]
      <4>1. pgrp[p] = p
        BY <1>1, <1>4, <3>1 DEF AllInv, TermInv, NewestInv, NewestLeads, ParentInit, g
      <4> QED BY <1>2, <1>4, <4>1 DEF SetpgidEffect
    <3>2. CASE ~execed[p]
      BY <1>2, <1>4, <3>2 DEF SetpgidEffect, SetpgidError
    <3> QED BY <3>1, <3>2
  <2> QED BY <1>2, <1>4, <2>1 DEF GroupExists, g
<1>5. CASE ~GroupExists(g, pgrp) /\ g # p
  <2>1. g = job[cur].pgid /\ job[cur].pgid # NoGroup
    BY <1>5 DEF g, GroupOfJob
  <2>2. kstate[g] # "none" /\ pgrp[g] = g
    BY <1>1, <2>1 DEF AllInv, TermInv, LeaderInv
  <2>3. kstate[g] = "reaped"
    BY <1>1, <1>5, <2>2 DEF GroupExists, Unreaped
  <2>4. pgrp' = pgrp
    BY <1>2, <1>5 DEF SetpgidEffect, SetpgidError
  <2>5. ~GroupExists(g, pgrp)'
    BY <1>2, <1>5, <2>4 DEF GroupExists, Unreaped, g
  <2> QED BY <1>1, <1>2, <2>3, <2>5 DEF Dead, g
<1> QED
  BY <1>3, <1>4, <1>5

\* Whom the parent's half gives the terminal.
LEMMA ParentOwner == ASSUME AllInv, NEW p \in Pid, ParentInit(p) PROVE OwnerInv'
<1> DEFINE g == GroupOfJob(cur, p)
<1>1. ParentFacts(p) /\ cur \in jobs /\ cur \in JobId /\ Newest = p /\ g \in Pid
  BY ParentStep DEF AllInv
<1>2. pc = "forked" /\ pc' # "forked" /\ jobs' = jobs
  BY DEF ParentInit, Returned
<1>3. foreground_job = NoJob =>
          term = Shell \/ (to_fork.how \in Foreground /\ term = g)
  BY <1>1, <1>2 DEF AllInv, TermInv, NewestInv, NewestAhead
<1>4. foreground_job # NoJob =>
          /\ foreground_job \in jobs /\ foreground_job \in JobId
          /\ job[foreground_job].pgid # NoGroup
          /\ term \in {Shell, job[foreground_job].pgid}
  BY DEF AllInv, TermInv, OwnerInv, ForegroundJobValid, Inv, TypeOK, TableType
<1>5. \A j \in JobId : job[j].pgid # NoGroup => job'[j].pgid = job[j].pgid
  <2>1. job[cur].pgid # NoGroup => g = job[cur].pgid
    BY DEF GroupOfJob
  <2> HIDE DEF g
  <2>2. \A j \in JobId : j # cur => job'[j].pgid = job[j].pgid
    BY <1>1 DEF ParentFacts, Kept
  <2>3. job'[cur].pgid \in {job[cur].pgid, g}
    BY <1>1 DEF ParentFacts, Kept, g
  <2> QED BY <2>1, <2>2, <2>3
<1>6. CASE to_fork.how \notin Foreground
  <2>1. UNCHANGED <<foreground_job, term>>
    BY <1>6, ParentTerminal DEF AllInv
  <2> HIDE DEF g
  <2> QED BY <1>2, <1>3, <1>4, <1>5, <1>6, <2>1
          DEF OwnerInv, ForegroundJobValid, TerminalFollowsForeground
<1>7. CASE to_fork.how \in Foreground
  <2>1. /\ foreground_job \in {NoJob, cur} /\ foreground_job' = cur
        /\ term' = IF foreground_job = cur THEN term ELSE Tcsetpgrp(g, pgrp')
    BY <1>7, ParentTerminal DEF AllInv
  <2>2. job'[cur].pgid = g /\ g # NoGroup /\ cur # NoJob
    BY <1>1, <1>7, ConstantsAssumption DEF ParentFacts, Foreground, NoGroup, NoJob, JobId
  <2> HIDE DEF g
  <2>3. term' \in {Shell, g}
    <3>1. CASE foreground_job = cur
      BY <1>4, <1>5, <2>1, <2>2, <3>1
    <3>2. CASE foreground_job = NoJob
      BY <1>3, <2>1, <2>2, <3>2 DEF Tcsetpgrp
    <3> QED BY <2>1, <3>1, <3>2
  <2> QED BY <1>1, <1>2, <2>1, <2>2, <2>3
          DEF OwnerInv, ForegroundJobValid, TerminalFollowsForeground
<1> QED
  BY <1>6, <1>7

LEMMA ParentLeader == ASSUME AllInv, NEW p \in Pid, ParentInit(p) PROVE LeaderInv'
<1> DEFINE g == GroupOfJob(cur, p)
<1>1. ParentFacts(p) /\ cur \in jobs /\ cur \in JobId /\ Newest = p /\ g \in Pid
  BY ParentStep DEF AllInv
<1>2. /\ kstate' = kstate /\ target' = target /\ pgrp \in [Pid -> Pid \cup {Shell}]
      /\ pc = "forked" /\ kstate[p] # "none"
  BY <1>1 DEF ParentFacts, ParentInit, AllInv, Inv, TypeOK, KernelType, ForkedInv, Unreaped, Newest
<1>3. Joins(p, g)
  BY <1>1, <1>2 DEF AllInv, TableInv, GroupInv, NewestJoins
<1>4. pgrp' = pgrp \/ pgrp' = [pgrp EXCEPT ![p] = g]
  BY <1>1 DEF ParentFacts, SetpgidEffect
<1> SUFFICES ASSUME NEW j \in JobId, job'[j].pgid # NoGroup
             PROVE  LET k == job'[j].pgid
                    IN  /\ kstate'[k] # "none" /\ pgrp'[k] = k
                        /\ kstate'[k] = "forked" => target'[k] = k
  BY DEF LeaderInv
<1>5. CASE job'[j].pgid = job[j].pgid
  <2> DEFINE k == job[j].pgid
  <2>1. k \in Pid /\ kstate[k] # "none" /\ pgrp[k] = k /\ (kstate[k] = "forked" => target[k] = k)
    BY <1>5 DEF AllInv, TermInv, LeaderInv, Inv, TypeOK, TableType, JobRecord
  <2>2. pgrp'[k] = k
    <3>1. k = p => g = p
      BY <1>3, <2>1, ConstantsAssumption DEF Joins
    <3> HIDE DEF k, g
    <3> QED BY <1>2, <1>4, <2>1, <3>1
  <2> QED BY <1>2, <1>5, <2>1, <2>2
<1>6. CASE job'[j].pgid # job[j].pgid
  <2>1. j = cur /\ to_fork.how # "run_subshell" /\ job'[j].pgid = g /\ pgrp' = SetpgidEffect(p, g)
    BY <1>1, <1>6 DEF ParentFacts, Kept
  <2>2. g = p
    BY <1>6, <2>1 DEF GroupOfJob
  <2>3. pgrp'[p] = p
    <3>1. CASE execed[p]
      <4>1. pgrp[p] = p
        BY <1>1, <1>2, <2>1, <2>2, <3>1 DEF AllInv, TermInv, NewestInv, NewestLeads
      <4> QED BY <1>2, <1>4, <2>2, <4>1
    <3>2. CASE ~execed[p]
      <4> HIDE DEF g
      <4> QED BY <1>2, <2>1, <2>2, <3>2 DEF SetpgidEffect, SetpgidError
    <3> QED BY <3>1, <3>2
  <2>4. kstate[p] = "forked" => target[p] = p
    BY <1>3, <2>2 DEF Joins
  <2> QED BY <1>2, <2>1, <2>2, <2>3, <2>4
<1> QED
  BY <1>5, <1>6

\* After the parent's half a child that is behind has its job, its group and its terminal
\* waiting for it.
LEMMA ParentGrab == ASSUME AllInv, NEW p \in Pid, ParentInit(p) PROVE GrabInv'
<1> DEFINE g == GroupOfJob(cur, p)
<1>1. ParentFacts(p) /\ cur \in jobs /\ cur \in JobId /\ Newest = p /\ g \in Pid
  BY ParentStep DEF AllInv
<1>2. /\ pc = "forked" /\ kstate' = kstate /\ procs \in Seq(Pid) /\ procs # <<>>
      /\ UNCHANGED <<forkVars, procs, cur>>
      /\ pgrp \in [Pid -> Pid \cup {Shell}] /\ Unreaped(p) /\ job \in [JobId -> JobRecord]
  BY <1>1 DEF ParentFacts, ParentInit, AllInv, Inv, TypeOK, EvalType, ControlInv, KernelType,
     ForkedInv, Newest, TableType
<1>3. to_fork.how \in Foreground => pc' \in {"fork", "wait"}
  BY DEF ParentInit, Foreground
<1>a. MayMove(p, g)
  BY <1>1 DEF ParentFacts, MayMove
<1>b. Len(procs) \in Nat /\ Len(procs) # 0
  BY <1>2, EmptySeq
<1> SUFFICES ASSUME NEW q \in Pid, Grabbing(q)'
             PROVE  InForeground(q)' \/ Dead(target[q])'
  BY DEF GrabInv
<1>4. Grabbing(q) /\ target'[q] = target[q] /\ fork_job'[q] = fork_job[q]
  BY <1>2 DEF Grabbing
<1>5. CASE Dead(target[q])
  <2>1. NoneRevived
    BY <1>2 DEF Unreaped, NoneRevived
  <2> HIDE DEF g
  <2>2. ASSUME NEW k, Dead(k) PROVE Dead(k)'
    <3>1. PICK h : MayMove(p, h)
      BY <1>a
    <3> QED BY <1>2, <2>1, <2>2, <3>1, DeadSetpgid
  <2> QED BY <1>4, <1>5, <2>2 DEF Dead
<1>6. CASE q = p
  <2>1. /\ to_fork.how \in Foreground /\ foreground_job = NoJob /\ fork_job[p] = cur
        /\ kstate[p] = "forked" /\ target[p] = g /\ ~execed[p]
    BY <1>1, <1>2, <1>4, <1>6 DEF Grabbing, AllInv, TermInv, NewestInv, NewestTold, TableInv,
       GroupInv, NewestJoins, Joins, FreshRecord
  <2>2. /\ foreground_job' = cur /\ cur # NoJob /\ term' = Tcsetpgrp(g, pgrp')
    BY <1>1, <2>1, ParentTerminal DEF AllInv, NoJob, JobId
  <2>3. Listed(p, cur)'
    <3> DEFINE ps == job[cur].processes
    <3>1. SetpgidError(p, g) # "EACCES"
      BY <2>1 DEF SetpgidError
    <3>2. job'[cur].processes = Append(ps, p) /\ ps \in Seq(Pid)
      BY <1>1, <1>2, <2>1, <3>1 DEF ParentFacts, Foreground, JobRecord
    <3>3. Len(ps) + 1 \in DOMAIN Append(ps, p) /\ Append(ps, p)[Len(ps) + 1] = p
      <4> HIDE DEF ps
      <4> QED BY <3>2
    <3> QED BY <1>2, <3>2, <3>3 DEF Listed
  <2>4. Head(procs) = p
    <3>1. ~(Len(procs) > 1)
      BY <1>2, <2>1, <2>2 DEF AllInv, TermInv, PipelineInv
    <3>2. Len(procs) = 1
      <4> DEFINE n == Len(procs)
      <4>1. n \in Nat /\ n # 0 /\ ~(n > 1)
        BY <1>b, <3>1
      <4> HIDE DEF n
      <4>2. n = 1
        BY <4>1
      <4> QED BY <4>2 DEF n
    <3> QED BY <1>1, <1>2, <3>2 DEF Newest
  <2>5. GroupExists(g, pgrp') \/ Dead(g)'
    BY <2>1, GroupOrDead DEF Foreground
  <2>6. CASE GroupExists(g, pgrp')
    <3>1. term' = g
      BY <2>2, <2>6 DEF Tcsetpgrp
    <3> QED BY <1>2, <1>3, <1>4, <1>6, <2>1, <2>2, <2>3, <2>4, <3>1 DEF InForeground
  <2>7. CASE Dead(g)'
    <3>1. g' = g
      <4>1. job'[cur].pgid = g
        BY <1>1, <2>1 DEF ParentFacts, Foreground
      <4> QED BY <1>1, <1>2, <4>1, ConstantsAssumption DEF GroupOfJob, NoGroup
    <3> QED BY <1>4, <1>6, <2>1, <2>7, <3>1
  <2> QED BY <2>5, <2>6, <2>7
<1>7. CASE q # p /\ InForeground(q)
  <2>1. Head(procs) = q /\ Listed(q, foreground_job) /\ foreground_job # NoJob /\ term = target[q]
        /\ foreground_job = fork_job[q]
    BY <1>2, <1>4, <1>7 DEF InForeground, Grabbing
  <2>2. Len(procs) > 1
    <3>1. Len(procs) # 1
      BY <1>1, <1>2, <1>7, <2>1 DEF Newest
    <3> QED BY <1>b, <3>1
  <2>3. to_fork.how = "run_pipeline" /\ foreground_job = cur
    BY <1>2, <2>2 DEF AllInv, TermInv, PipelineInv
  <2>4. UNCHANGED <<foreground_job, term>>
    BY <2>3, ParentTerminal DEF AllInv, Foreground
  <2>5. Listed(q, cur)'
    <3> DEFINE ps == job[cur].processes
               nps == job'[cur].processes
    <3>1. nps = ps \/ nps = Append(ps, p)
      BY <1>1 DEF ParentFacts, Kept
    <3>2. PICK i \in DOMAIN ps : ps[i] = q
      BY <2>1, <2>3 DEF Listed
    <3>3. ps \in Seq(Pid)
      BY <1>1, <1>2 DEF JobRecord
    <3>4. i \in DOMAIN nps /\ nps[i] = q
      <4> HIDE DEF ps, nps
      <4> QED BY <3>1, <3>2, <3>3
    <3> QED BY <1>2, <3>4 DEF Listed
  <2> QED BY <1>2, <1>3, <1>4, <2>1, <2>3, <2>4, <2>5 DEF InForeground, Foreground
<1> QED
  BY <1>1, <1>2, <1>4, <1>5, <1>6, <1>7 DEF AllInv, TermInv, GrabInv, AtFork

LEMMA ParentTerm == ASSUME AllInv, NEW p \in Pid, ParentInit(p) PROVE TermInv'
<1>1. ParentFacts(p) /\ cur \in jobs /\ cur \in JobId /\ Newest = p
  BY ParentStep DEF AllInv
<1>2. /\ pc = "forked" /\ pc' # "forked" /\ kstate' = kstate
      /\ UNCHANGED <<execed, to_fork, procs, cur>>
      /\ pc' = "fork" => to_fork.n > 0
  BY <1>1 DEF ParentFacts, ParentInit, Returned
<1>3. FreshRecord'
  <2>1. \A q \in Pid : proc'[q] = proc[q] \/ proc'[q] = NewProcess
    BY ParentTerminal DEF AllInv, Inv, TypeOK, TableType
  <2> QED BY <1>2, <2>1 DEF AllInv, TermInv, FreshRecord, NewProcess
<1>4. NewestInv'
  BY <1>2, NewestGone
<1>5. PipelineInv'
  <2>1. pc' = "fork" => to_fork.how = "run_pipeline"
    BY <1>2 DEF AllInv, TermInv, PipelineInv
  <2>2. pc' = "fork" => foreground_job' = cur
    BY <2>1, ParentTerminal DEF AllInv, Foreground
  <2> QED BY <1>2, <2>1, <2>2 DEF PipelineInv
<1> QED
  BY <1>3, <1>4, <1>5, ParentOwner, ParentLeader, ParentGrab DEF TermInv

\* What a step of a child changes.
LEMMA ChildFacts ==
    ASSUME Inv, NEW p \in Pid, ChildStep(p)
    PROVE  /\ UNCHANGED <<tableVars, evalVars, how>> /\ pc \notin {"done", "aborted"}
           /\ \A q \in Pid : q # p =>
                 /\ kstate'[q] = kstate[q] /\ execed'[q] = execed[q] /\ pgrp'[q] = pgrp[q]
                 /\ target'[q] = target[q] /\ fork_fg'[q] = fork_fg[q]
                 /\ fork_job'[q] = fork_job[q]
           /\ Unreaped(p) /\ kstate'[p] \in {"run", "stopped", "zombie"} /\ NoneRevived
           /\ MayMove(p, target[p])
<1>1. /\ kstate \in [Pid -> {"none", "forked", "run", "stopped", "zombie", "reaped"}]
      /\ pgrp \in [Pid -> Pid \cup {Shell}] /\ execed \in [Pid -> BOOLEAN]
      /\ target \in [Pid -> Pid]
      /\ fork_fg \in [Pid -> JobId \cup {NoJob}] /\ fork_job \in [Pid -> JobId \cup {NoJob}]
  BY DEF Inv, TypeOK, KernelType, ForkType
<1>2. UNCHANGED <<tableVars, evalVars, how>> /\ pc \notin {"done", "aborted"}
  BY DEF ChildStep, ChildInit, Execv, Terminate, Stop, Continue
<1>3. ForgetFork(p) \/ UNCHANGED <<target, fork_fg, fork_job>>
  BY DEF ChildStep, ChildInit, Execv, Terminate, Stop, Continue
<1>4. \A q \in Pid : q # p => /\ target'[q] = target[q] /\ fork_fg'[q] = fork_fg[q]
                              /\ fork_job'[q] = fork_job[q]
  BY <1>1, <1>3 DEF ForgetFork
<1>5. MayMove(p, target[p])
  BY DEF MayMove, ChildStep, ChildInit, Execv, Terminate, Stop, Continue
<1>6. \A q \in Pid : q # p => pgrp'[q] = pgrp[q]
  BY <1>1, <1>5 DEF MayMove, SetpgidEffect
<1>7. /\ \A q \in Pid : q # p => kstate'[q] = kstate[q]
      /\ Unreaped(p) /\ kstate'[p] \in {"run", "stopped", "zombie"}
  BY <1>1 DEF Unreaped, ChildStep, ChildInit, Execv, Terminate, Stop, Continue
<1>8. \A q \in Pid : q # p => execed'[q] = execed[q]
  BY <1>1 DEF ChildStep, ChildInit, Execv, Terminate, Stop, Continue
<1>9. NoneRevived
  BY <1>7 DEF NoneRevived, Unreaped
<1> QED
  BY <1>2, <1>4, <1>5, <1>6, <1>7, <1>8, <1>9

\* The terminal moves in a child's step only between fork and the parent's half of a child
\* that runs in the foreground, and then to that child's group.
LEMMA ChildTerminal ==
    ASSUME AllInv, NEW p \in Pid, ChildStep(p)
    PROVE  \/ term' = term
           \/ /\ AtFork(p) /\ kstate[p] = "forked" /\ how[p] \in Foreground
              /\ term' = target[p]
<1> SUFFICES ASSUME term' # term
             PROVE  /\ AtFork(p) /\ kstate[p] = "forked" /\ how[p] \in Foreground
                    /\ term' = target[p]
  OBVIOUS
<1>1. ChildInit(p)
  BY DEF ChildStep, Execv, Terminate, Stop, Continue
<1>2. /\ kstate[p] = "forked" /\ how[p] \in Foreground /\ fork_fg[p] # fork_job[p]
      /\ fork_fg[p] = NoJob /\ term' = Tcsetpgrp(target[p], SetpgidEffect(p, target[p]))
  BY <1>1 DEF ChildInit, Foreground
<1>3. Grabbing(p) /\ pc \notin {"done", "aborted"}
  BY <1>2, ChildFacts DEF Grabbing, AllInv
<1>4. term' = target[p] /\ GroupExists(target[p], SetpgidEffect(p, target[p]))
  BY <1>2 DEF Tcsetpgrp
<1>5. ~InForeground(p)
  BY <1>4 DEF InForeground
<1>6. ~Dead(target[p])
  <2> SUFFICES ASSUME Dead(target[p]) PROVE FALSE
    OBVIOUS
  <2>1. target[p] # p /\ ~GroupExists(target[p], pgrp)
    BY <1>2 DEF Dead
  <2>2. SetpgidEffect(p, target[p]) = pgrp
    BY <2>1 DEF SetpgidEffect, SetpgidError
  <2> QED BY <1>4, <2>1, <2>2
<1> QED
  BY <1>2, <1>3, <1>4, <1>5, <1>6 DEF AllInv, TermInv, GrabInv

LEMMA ChildNewest == ASSUME AllInv, NEW p \in Pid, ChildStep(p) PROVE NewestInv'
<1> SUFFICES ASSUME pc' = "forked" PROVE NewestInv'
  BY NewestGone
<1>1. /\ UNCHANGED <<tableVars, evalVars, how>>
      /\ \A q \in Pid : q # p =>
            /\ kstate'[q] = kstate[q] /\ execed'[q] = execed[q] /\ pgrp'[q] = pgrp[q]
            /\ target'[q] = target[q] /\ fork_fg'[q] = fork_fg[q]
            /\ fork_job'[q] = fork_job[q]
      /\ kstate'[p] \in {"run", "stopped", "zombie"}
  BY ChildFacts DEF AllInv
<1>2. pc = "forked" /\ Newest' = Newest /\ Newest \in Pid
  <2>1. pc = "forked"
    BY <1>1
  <2>2. procs \in Seq(Pid) /\ procs # <<>>
    BY <2>1 DEF AllInv, Inv, ControlInv, TypeOK, EvalType
  <2> QED BY <1>1, <2>1, <2>2 DEF Newest
<1>3. GroupOfJob(cur, Newest)' = GroupOfJob(cur, Newest)
  BY <1>1, <1>2 DEF GroupOfJob
<1>4. Joins(Newest, GroupOfJob(cur, Newest)) /\ how[Newest] = to_fork.how
  BY <1>2 DEF AllInv, TableInv, GroupInv, NewestJoins, TermInv, NewestInv, NewestTold
<1>5. NewestTold'
  BY <1>1, <1>2 DEF AllInv, TermInv, NewestInv, NewestTold
<1>6. NewestAhead'
  <2> SUFFICES ASSUME foreground_job = NoJob
               PROVE  term' = Shell \/ (to_fork.how \in Foreground /\ term' = GroupOfJob(cur, Newest))
    BY <1>1, <1>3 DEF NewestAhead
  <2>1. CASE term' = term
    BY <1>2, <2>1 DEF AllInv, TermInv, NewestInv, NewestAhead
  <2>2. CASE AtFork(p) /\ kstate[p] = "forked" /\ how[p] \in Foreground /\ term' = target[p]
    BY <1>4, <2>2 DEF AtFork, Joins
  <2> QED BY <2>1, <2>2, ChildTerminal
<1>7. NewestLeads'
  <2> SUFFICES ASSUME to_fork.how # "run_subshell", GroupOfJob(cur, Newest) = Newest,
                      kstate'[Newest] \in {"run", "stopped"} \/ execed'[Newest]
               PROVE  pgrp'[Newest] = Newest
    BY <1>1, <1>2, <1>3 DEF NewestLeads
  <2>1. CASE kstate[Newest] \in {"run", "stopped"} \/ execed[Newest]
    <3>1. pgrp[Newest] = Newest
      BY <1>2, <2>1 DEF AllInv, TermInv, NewestInv, NewestLeads
    <3>2. pgrp' = pgrp \/ Newest # p \/ (kstate[p] = "forked" /\ ~execed[p])
      BY DEF AllInv, TermInv, FreshRecord, ChildStep, ChildInit, Execv, Terminate, Stop, Continue
    <3> QED BY <1>1, <1>2, <2>1, <3>1, <3>2
  <2>2. CASE ~(kstate[Newest] \in {"run", "stopped"} \/ execed[Newest])
    <3>1. Newest = p
      BY <1>1, <1>2, <2>2
    <3>2. ChildInit(p)
      <4>1. execed \in [Pid -> BOOLEAN] /\ kstate \in [Pid -> {"none", "forked", "run", "stopped", "zombie", "reaped"}]
        BY DEF AllInv, Inv, TypeOK, KernelType
      <4> QED BY <2>2, <3>1, <4>1 DEF ChildStep, Execv, Terminate, Stop, Continue
    <3>3. kstate[p] = "forked" /\ target[p] = p /\ how[p] # "run_subshell"
      BY <1>4, <3>1, <3>2 DEF ChildInit, Joins
    <3>4. pgrp' = SetpgidEffect(p, p) /\ ~execed[p]
      BY <3>2, <3>3 DEF ChildInit, AllInv, TermInv, FreshRecord
    <3>5. pgrp' = [pgrp EXCEPT ![p] = p]
      BY <3>4 DEF SetpgidEffect, SetpgidError
    <3> QED BY <3>1, <3>5 DEF AllInv, Inv, TypeOK, KernelType
  <2> QED BY <2>1, <2>2
<1> QED
  BY <1>5, <1>6, <1>7 DEF NewestInv

LEMMA ChildTerm == ASSUME AllInv, NEW p \in Pid, ChildStep(p) PROVE TermInv'
<1>1. /\ UNCHANGED <<tableVars, evalVars, how>> /\ pc \notin {"done", "aborted"}
      /\ \A q \in Pid : q # p =>
            /\ kstate'[q] = kstate[q] /\ execed'[q] = execed[q] /\ pgrp'[q] = pgrp[q]
            /\ target'[q] = target[q] /\ fork_fg'[q] = fork_fg[q]
            /\ fork_job'[q] = fork_job[q]
      /\ Unreaped(p) /\ kstate'[p] \in {"run", "stopped", "zombie"} /\ NoneRevived
      /\ MayMove(p, target[p])
  BY ChildFacts DEF AllInv
<1>2. term' = term \/ (AtFork(p) /\ kstate[p] = "forked" /\ term' = target[p])
  BY ChildTerminal
<1>3. pgrp \in [Pid -> Pid \cup {Shell}]
  BY DEF AllInv, Inv, TypeOK, KernelType
<1>4. OwnerInv'
  BY <1>1, <1>2 DEF AllInv, TermInv, OwnerInv, TerminalFollowsForeground, ForegroundJobValid,
                    AtFork
<1>5. LeaderInv'
  <2> SUFFICES ASSUME NEW j \in JobId, job[j].pgid # NoGroup
               PROVE  LET g == job[j].pgid
                      IN  /\ kstate'[g] # "none" /\ pgrp'[g] = g
                          /\ kstate'[g] = "forked" => target'[g] = g
    BY <1>1 DEF LeaderInv
  <2> DEFINE g == job[j].pgid
  <2>1. g \in Pid /\ kstate[g] # "none" /\ pgrp[g] = g /\ (kstate[g] = "forked" => target[g] = g)
    BY DEF AllInv, TermInv, LeaderInv, Inv, TypeOK, TableType, JobRecord
  <2>2. CASE g # p
    BY <1>1, <2>1, <2>2
  <2>3. CASE g = p
    <3>1. pgrp' = pgrp \/ (kstate[p] = "forked" /\ MayMove(p, p))
      <4>1. pgrp' = pgrp \/ kstate[p] = "forked"
        BY DEF ChildStep, ChildInit, Execv, Terminate, Stop, Continue
      <4> QED BY <1>1, <2>1, <2>3, <4>1
    <3>2. pgrp'[p] = p
      BY <1>3, <2>1, <2>3, <3>1 DEF MayMove, SetpgidEffect
    <3> QED BY <1>1, <2>3, <3>2
  <2> QED BY <2>2, <2>3
<1>6. FreshRecord'
  BY <1>1 DEF AllInv, TermInv, FreshRecord
<1>7. PipelineInv'
  BY <1>1 DEF AllInv, TermInv, PipelineInv
<1>8. GrabInv'
  <2> SUFFICES ASSUME NEW q \in Pid, Grabbing(q)'
               PROVE  AtFork(q)' \/ InForeground(q)' \/ Dead(target[q])'
    BY DEF GrabInv
  <2>1. q # p /\ Grabbing(q) /\ target'[q] = target[q] /\ fork_job'[q] = fork_job[q]
    BY <1>1 DEF Grabbing
  <2>2. CASE AtFork(q)
    BY <1>1, <2>2 DEF AtFork, Newest
  <2>3. CASE InForeground(q)
    <3>1. ~AtFork(p)
      BY <2>1, <2>3 DEF AtFork, InForeground, Grabbing
    <3>2. term' = term
      BY <1>2, <3>1
    <3> QED BY <1>1, <2>1, <2>3, <3>2 DEF InForeground, Listed
  <2>4. CASE Dead(target[q])
    <3>1. ASSUME NEW k, Dead(k) PROVE Dead(k)'
      <4>1. PICK h : MayMove(p, h)
        BY <1>1
      <4> QED BY <1>1, <1>3, <3>1, <4>1, DeadSetpgid
    <3> QED BY <2>1, <2>4, <3>1 DEF Dead
  <2> QED BY <1>1, <2>1, <2>2, <2>3, <2>4 DEF AllInv, TermInv, GrabInv
<1> QED
  BY <1>4, <1>5, <1>6, <1>7, <1>8, ChildNewest DEF TermInv

-----------------------------------------------------------------------------
(* Destroying jobs, and the theorems *)

LEMMA DestroyTerm ==
    ASSUME AllInv, mrsh_destroy_terminated_jobs \/ mrsh_state_destroy
    PROVE  TermInv'
<1>1. UNCHANGED <<kstate, pgrp, execed, forkVars, proc>>
  BY DEF mrsh_destroy_terminated_jobs, mrsh_state_destroy
<1>2. \A j \in JobId : Kept(j) \/ Cleared(j)
  <2>1. CASE mrsh_state_destroy
    BY <2>1 DEF mrsh_state_destroy, Cleared, NewJob
  <2>2. CASE mrsh_destroy_terminated_jobs
    <3> SUFFICES ASSUME NEW j \in JobId PROVE Kept(j) \/ Cleared(j)
      OBVIOUS
    <3>1. job[j] \in JobRecord
      BY DEF AllInv, Inv, TypeOK, TableType
    <3>2. job'[j] = NewJob \/ job'[j] = [job[j] EXCEPT !.pending_notification = @ /\ ~Notify]
      BY <2>2 DEF mrsh_destroy_terminated_jobs
    <3> QED BY <3>1, <3>2 DEF Kept, Cleared, NewJob, JobRecord
  <2> QED BY <2>1, <2>2
<1>3. pc \in {"destroy", "exit"} /\ pc' \in {"exit", "prompt", "done"}
  BY DEF mrsh_destroy_terminated_jobs, mrsh_state_destroy
<1>4. LeaderInv'
  <2> SUFFICES ASSUME NEW j \in JobId, job'[j].pgid # NoGroup
               PROVE  LET g == job'[j].pgid
                      IN  /\ kstate'[g] # "none" /\ pgrp'[g] = g
                          /\ kstate'[g] = "forked" => target'[g] = g
    BY DEF LeaderInv
  <2>1. job'[j].pgid = job[j].pgid
    BY <1>2 DEF Kept, Cleared
  <2> QED BY <1>1, <2>1 DEF AllInv, TermInv, LeaderInv
<1>5. FreshRecord'
  BY <1>1 DEF AllInv, TermInv, FreshRecord
<1>6. NewestInv' /\ PipelineInv'
  BY <1>3, NewestGone, NoPipeline
<1>7. foreground_job = NoJob => term = Shell
  BY <1>3 DEF AllInv, TermInv, OwnerInv, TerminalFollowsForeground
<1>8. foreground_job # NoJob => foreground_job \in jobs /\ foreground_job \in JobId
  BY DEF AllInv, TermInv, OwnerInv, ForegroundJobValid, Inv, TypeOK, TableType
<1>9. NoJob \notin jobs
  BY DEF AllInv, Inv, TypeOK, TableType, JobId, NoJob
<1>10. CASE mrsh_state_destroy
  <2>1. pc' = "done" /\ job_destroy(jobs)
    BY <1>10 DEF mrsh_state_destroy
  <2>2. foreground_job' = NoJob /\ term' = Shell
    BY <1>7, <1>8, <1>9, <2>1 DEF job_destroy
  <2>3. OwnerInv' /\ GrabInv'
    BY <2>1, <2>2 DEF OwnerInv, TerminalFollowsForeground, ForegroundJobValid, GrabInv
  <2> QED BY <1>4, <1>5, <1>6, <2>3 DEF TermInv
<1>11. CASE mrsh_destroy_terminated_jobs
  <2>1. pc = "destroy" /\ pc' \in {"exit", "prompt"} /\ job_destroy(Terminated)
    BY <1>11 DEF mrsh_destroy_terminated_jobs
  <2>2. CASE foreground_job \in Terminated
    <3>1. foreground_job' = NoJob /\ term' = Shell
      BY <2>1, <2>2 DEF job_destroy
    <3>2. OwnerInv'
      BY <3>1 DEF OwnerInv, TerminalFollowsForeground, ForegroundJobValid
    <3>3. ASSUME NEW q \in Pid, Grabbing(q) PROVE ~InForeground(q)
      BY <2>2, <3>3, TerminatedReaped DEF AllInv, InForeground, Grabbing
    <3>4. ASSUME NEW q \in Pid, Grabbing(q)' PROVE Dead(target[q])'
      <4>1. Grabbing(q)
        BY <1>1, <3>4 DEF Grabbing
      <4>2. Dead(target[q])
        BY <2>1, <3>3, <4>1 DEF AllInv, TermInv, GrabInv, AtFork
      <4> QED BY <1>1, <4>2 DEF Dead, GroupExists, Unreaped
    <3>5. GrabInv'
      BY <3>4 DEF GrabInv
    <3> QED BY <1>4, <1>5, <1>6, <3>2, <3>5 DEF TermInv
  <2>3. CASE foreground_job \notin Terminated
    <3>1. UNCHANGED <<foreground_job, term>> /\ jobs' = jobs \ Terminated
      BY <2>1, <2>3 DEF job_destroy
    <3>2. foreground_job # NoJob => Kept(foreground_job)
      <4> SUFFICES ASSUME foreground_job # NoJob PROVE Kept(foreground_job)
        OBVIOUS
      <4>1. foreground_job \in JobId /\ job[foreground_job] \in JobRecord
        BY <1>8 DEF AllInv, Inv, TypeOK, TableType
      <4>2. job'[foreground_job] =
                [job[foreground_job] EXCEPT !.pending_notification = @ /\ ~Notify]
        BY <1>11, <2>3, <4>1 DEF mrsh_destroy_terminated_jobs
      <4> QED BY <4>1, <4>2 DEF Kept, JobRecord
    <3>3. OwnerInv'
      BY <1>3, <1>7, <1>8, <2>3, <3>1, <3>2 DEF AllInv, TermInv, OwnerInv,
         TerminalFollowsForeground, ForegroundJobValid, Kept
    <3>4. ASSUME NEW q \in Pid, Grabbing(q)' PROVE InForeground(q)' \/ Dead(target[q])'
      <4>1. Grabbing(q)
        BY <1>1, <3>4 DEF Grabbing
      <4>2. CASE Dead(target[q])
        BY <1>1, <4>2 DEF Dead, GroupExists, Unreaped
      <4>3. CASE InForeground(q)
        <5>1. foreground_job # NoJob
          BY <4>1, <4>3 DEF InForeground, Grabbing
        <5>2. Listed(q, foreground_job)'
          BY <3>1, <3>2, <4>3, <5>1 DEF Kept, InForeground, Listed
        <5> QED BY <1>1, <2>1, <3>1, <4>3, <5>2 DEF InForeground
      <4> QED BY <2>1, <4>1, <4>2, <4>3 DEF AllInv, TermInv, GrabInv, AtFork
    <3>5. GrabInv'
      BY <3>4 DEF GrabInv
    <3> QED BY <1>4, <1>5, <1>6, <3>3, <3>5 DEF TermInv
  <2> QED BY <2>2, <2>3
<1> QED
  BY <1>10, <1>11

\* A step that changes nothing.
LEMMA HaltedTerm == ASSUME TermInv, UNCHANGED vars PROVE TermInv'
<1>1. OwnerInv' /\ LeaderInv' /\ FreshRecord' /\ PipelineInv'
  BY DEF vars, TermInv, OwnerInv, TerminalFollowsForeground, ForegroundJobValid, LeaderInv,
         FreshRecord, PipelineInv
<1>2. NewestInv'
  BY DEF vars, TermInv, NewestInv, NewestTold, NewestLeads, NewestAhead, Newest, GroupOfJob
<1>3. GrabInv'
  BY DEF vars, TermInv, GrabInv, Grabbing, AtFork, InForeground, Dead, GroupExists, Unreaped,
         Newest, Listed
<1> QED
  BY <1>1, <1>2, <1>3 DEF TermInv

LEMMA TermInit == Init => TermInv
<1> SUFFICES ASSUME Init PROVE TermInv
  OBVIOUS
<1>1. \A j \in JobId : job[j].pgid = NoGroup
  BY DEF Init, NewJob
<1>2. \A p \in Pid : kstate[p] = "none" /\ ~execed[p] /\ ~proc[p].stopped
  BY DEF Init, NewProcess
<1>3. pc = "prompt" /\ foreground_job = NoJob /\ term = Shell
  BY DEF Init
<1> QED
  BY <1>1, <1>2, <1>3 DEF TermInv, OwnerInv, TerminalFollowsForeground, ForegroundJobValid,
     LeaderInv, FreshRecord, NewestInv, NewestTold, NewestLeads, NewestAhead, PipelineInv,
     GrabInv, Grabbing

LEMMA TermNext == ASSUME AllInv, [Next]_vars PROVE TermInv'
<1>1. CASE UserStep
  BY <1>1, QuietActions DEF UserStep
<1>2. CASE ShellStep
  <2>1. CASE EndLine \/ RunNothing \/ RunCommand \/ ForkFails \/ WaitReturns \/ FgReturns
    BY <2>1, QuietActions
  <2>2. CASE AssertFails \/ builtin_wait \/ BuiltinWaitReturns \/ builtin_exit \/ RefreshReturns
    BY <2>2, QuietActions
  <2>3. CASE \E w \in waits : WaitEchild(w) \/ \E p \in Pid : WaitReaps(w, p)
    BY <2>3, QuietActions, WaitingTerm
  <2>4. CASE WaitBlocks \/ FgBlocks \/ \E j \in jobs : refresh_jobs_status(j)
    BY <2>4, WaitingTerm
  <2>5. CASE \E n, t \in JobId : builtin_fg(n, t) \/ builtin_bg(n, t)
    BY <2>5, ForegroundTerm
  <2>6. CASE \E p \in Pid : Fork(p) \/ ParentInit(p)
    BY <2>6, ForkTerm, ParentTerm
  <2>7. CASE mrsh_destroy_terminated_jobs \/ mrsh_state_destroy
    BY <2>7, DestroyTerm
  <2> QED
    BY <1>2, <2>1, <2>2, <2>3, <2>4, <2>5, <2>6, <2>7 DEF ShellStep
<1>3. CASE \E p \in Pid : ChildStep(p)
  BY <1>3, ChildTerm
<1>4. CASE Halted \/ UNCHANGED vars
  BY <1>4, HaltedTerm DEF Halted, AllInv
<1> QED
  BY <1>1, <1>2, <1>3, <1>4 DEF Next

\* The terminal's invariant holds in every reachable state.
LEMMA TermInvariance == Spec => []AllInv
<1>1. Init => AllInv
  BY InitInv, TableInit, TermInit DEF AllInv
<1>2. AllInv /\ [Next]_vars => AllInv'
  BY NextInv, TableNext, TermNext DEF AllInv
<1> QED
  BY <1>1, <1>2, PTL DEF Spec

\* Whenever foreground_job is NULL the terminal belongs to the shell, except between a fork
\* and the parent's half of init_child: no child, however late it runs its own half, takes
\* the terminal after update_job, bg or job_destroy gave it back.
THEOREM TerminalFollows == Spec => []TerminalFollowsForeground
<1>1. AllInv => TerminalFollowsForeground
  BY DEF AllInv, TermInv, OwnerInv
<1> QED
  BY <1>1, TermInvariance, PTL

\* foreground_job never dangles: it names a job of the table with a group, and the terminal
\* is that group's or the shell's, never another job's.
THEOREM ForegroundValid == Spec => []ForegroundJobValid
<1>1. AllInv => ForegroundJobValid
  BY DEF AllInv, TermInv, OwnerInv
<1> QED
  BY <1>1, TermInvariance, PTL

-----------------------------------------------------------------------------
(* The terminal at the prompt.  The jobs the line is concerned with have no  *)
(* stopped member and no unfinished program, except for the one that is      *)
(* being waited for, so that the line does not end before the foreground job *)
(* has either left the foreground or got a member that nobody waits for.     *)

Status(j) == job_poll(job[j].processes, proc)

\* The foreground job has the terminal.
Held == foreground_job # NoJob /\ term # Shell

\* The process p was not left stopped and, if it is a command of its own, has ended.
Tame(p) == ~proc[p].stopped /\ (how[p] = "run_process" => proc[p].terminated)

\* The jobs the line is concerned with, and what it is waiting for.
Current(j) ==
    \/ j = ctx_job
    \/ pc \in {"fork", "forked", "wait"} /\ j = cur
    \/ Held /\ j = foreground_job
Awaited(p, j) == (pc = "wait" /\ p = Head(procs)) \/ (pc = "fg" /\ j = cur)

Inside   == {"line", "builtin_wait", "fork", "forked", "wait", "fg"}
AtTheEnd == {"refresh", "destroy", "prompt", "exit"}

\* Jobs list processes only while they are in the table, and none of run_subshell.
MembersInv ==
    \A p \in Pid, j \in JobId : Listed(p, j) => j \in jobs /\ how[p] # "run_subshell"

TameInv ==
    pc \in Inside => \A p \in Pid, j \in jobs :
                        Current(j) /\ Listed(p, j) => Tame(p) \/ Awaited(p, j)

\* No command of its own is running in the foreground job.
NoProgramRuns ==
    \A p \in Pid : Listed(p, foreground_job) /\ how[p] = "run_process" =>
                      process_poll(proc[p]) # TASK_STATUS_WAIT

\* The job that has the terminal is not a stopped one; once the line is over it has no
\* command of its own that runs, and at the prompt it has something that does.
HeldInv ==
    Held => /\ pc \in AtTheEnd \cup {"wait", "fg"} => Status(foreground_job) # TASK_STATUS_STOPPED
            /\ pc = "fg" => foreground_job = cur
            /\ pc \in AtTheEnd => NoProgramRuns
            /\ pc = "prompt" => Status(foreground_job) = TASK_STATUS_WAIT

PromptInv == MembersInv /\ TameInv /\ HeldInv

\* A job none of whose members is stopped is not stopped.
LEMMA NoneStopped ==
    ASSUME NEW ps \in Seq(Pid), NEW pr \in [Pid -> ProcRecord],
           \A i \in DOMAIN ps : ~pr[ps[i]].stopped
    PROVE  job_poll(ps, pr) # TASK_STATUS_STOPPED
<1>1. ASSUME NEW i \in DOMAIN ps PROVE process_poll(pr[ps[i]]) # TASK_STATUS_STOPPED
  <2>1. pr[ps[i]] \in ProcRecord /\ ~pr[ps[i]].stopped
    OBVIOUS
  <2> QED BY <2>1 DEF process_poll, ProcRecord, TASK_STATUS_STOPPED, TASK_STATUS_WAIT
<1>2. ps # <<>> => Len(ps) \in DOMAIN ps
  OBVIOUS
<1> QED
  BY <1>1, <1>2 DEF job_poll, TASK_STATUS_STOPPED, TASK_STATUS_WAIT

\* A job is running, stopped or terminated.
LEMMA StatusKinds ==
    ASSUME NEW ps \in Seq(Pid), NEW pr \in [Pid -> ProcRecord]
    PROVE  \/ job_poll(ps, pr) = TASK_STATUS_WAIT
           \/ job_poll(ps, pr) = TASK_STATUS_STOPPED
           \/ job_poll(ps, pr) \in {0, 129}
<1>1. ASSUME ps # <<>>
      PROVE  process_poll(pr[ps[Len(ps)]]) \in {TASK_STATUS_WAIT, TASK_STATUS_STOPPED, 0, 129}
  <2>1. pr[ps[Len(ps)]] \in ProcRecord
    BY <1>1
  <2> QED BY <2>1 DEF process_poll, ProcRecord
<1> QED
  BY <1>1 DEF job_poll

\* Once all members of a terminated job are known, none is stopped or running.
LEMMA EndedTame ==
    ASSUME TableType, NEW j \in JobId, Status(j) >= 0, NEW p \in Pid, Listed(p, j)
    PROVE  Tame(p)
<1>1. PICK i \in DOMAIN job[j].processes : job[j].processes[i] = p
  BY DEF Listed
<1>2. /\ process_poll(proc[p]) # TASK_STATUS_WAIT
      /\ process_poll(proc[p]) # TASK_STATUS_STOPPED
  BY <1>1 DEF Status, job_poll, TASK_STATUS_WAIT, TASK_STATUS_STOPPED
<1> QED
  BY <1>2 DEF process_poll, Tame

\* A step that keeps the jobs keeps what is said of their members.
LEMMA MembersSettled == ASSUME MembersInv, Settled PROVE MembersInv'
  BY ListedBefore DEF MembersInv, Settled

\* If every member of the foreground job is tame, what is asked of the job that has the
\* terminal at the end of a line holds.
LEMMA TameHeld ==
    ASSUME TableType, foreground_job \in JobId,
           \A p \in Pid : Listed(p, foreground_job) => Tame(p)
    PROVE  Status(foreground_job) # TASK_STATUS_STOPPED /\ NoProgramRuns
<1> DEFINE ps == job[foreground_job].processes
<1>1. ps \in Seq(Pid) /\ proc \in [Pid -> ProcRecord]
  BY DEF TableType, JobRecord
<1>2. \A i \in DOMAIN ps : ~proc[ps[i]].stopped
  BY <1>1 DEF Listed, Tame
<1>3. job_poll(ps, proc) # TASK_STATUS_STOPPED
  <2> HIDE DEF ps
  <2> QED BY <1>1, <1>2, NoneStopped
<1>4. NoProgramRuns
  <2> SUFFICES ASSUME NEW p \in Pid, Tame(p), how[p] = "run_process"
               PROVE  process_poll(proc[p]) # TASK_STATUS_WAIT
    BY DEF NoProgramRuns
  <2>1. proc[p] \in ProcRecord /\ ~proc[p].stopped /\ proc[p].terminated
    BY <1>1 DEF Tame
  <2> QED BY <2>1 DEF process_poll, ProcRecord, TASK_STATUS_WAIT
<1> QED
  BY <1>3, <1>4 DEF Status

\* After a settled step only the members need a look that jobs of the table had before.
LEMMA TameMembers ==
    ASSUME Inv', MembersInv, Settled,
           \A p \in Pid, j \in jobs : Current(j)' /\ Listed(p, j) => Tame(p)' \/ Awaited(p, j)'
    PROVE  TameInv'
<1> SUFFICES ASSUME NEW p \in Pid, NEW j \in jobs', Current(j)', Listed(p, j)'
             PROVE  Tame(p)' \/ Awaited(p, j)'
  BY DEF TameInv
<1>1. j \in JobId
  BY DEF Inv, TypeOK, TableType
<1>2. Listed(p, j) /\ j \in jobs
  BY <1>1, ListedBefore DEF Settled, MembersInv
<1> QED
  BY <1>2

\* What is said of the members of current jobs stays true in a settled step that makes no
\* job of the table current and accounts for the members of those that stay current.
LEMMA TameCarried ==
    ASSUME Inv', MembersInv, TameInv, Settled,
           \A j \in jobs : Current(j)' => pc \in Inside /\ Current(j),
           \A p \in Pid, j \in jobs :
              Current(j)' /\ Listed(p, j) /\ (Tame(p) \/ Awaited(p, j))
                  => Tame(p)' \/ Awaited(p, j)'
    PROVE  TameInv'
<1>1. \A p \in Pid, j \in jobs : Current(j)' /\ Listed(p, j) => Tame(p)' \/ Awaited(p, j)'
  BY DEF TameInv
<1> QED
  BY <1>1, TameMembers

\* The same for a step that leaves the tame tame.
LEMMA TameSettled ==
    ASSUME Inv', MembersInv, TameInv, Settled,
           \A p \in Pid : Tame(p) => Tame(p)',
           \A j \in jobs : Current(j)' => pc \in Inside /\ Current(j),
           \A p \in Pid, j \in jobs :
              Current(j)' /\ Listed(p, j) /\ Awaited(p, j) => Tame(p)' \/ Awaited(p, j)'
    PROVE  TameInv'
<1>1. \A p \in Pid, j \in jobs :
          Current(j)' /\ Listed(p, j) /\ (Tame(p) \/ Awaited(p, j)) => Tame(p)' \/ Awaited(p, j)'
  OBVIOUS
<1> QED
  BY <1>1, TameCarried

\* The job that has the terminal is looked at in the same way after a step that leaves it
\* and its members alone.
LEMMA HeldSame ==
    ASSUME AllInv, Settled, UNCHANGED <<term, proc, foreground_job>>, Held
    PROVE  /\ Held' /\ foreground_job \in jobs /\ foreground_job \in JobId
           /\ Status(foreground_job)' = Status(foreground_job)
           /\ NoProgramRuns' <=> NoProgramRuns
           /\ \A p \in Pid : Listed(p, foreground_job)' <=> Listed(p, foreground_job)
<1>1. foreground_job \in jobs /\ foreground_job \in JobId
  BY DEF AllInv, TermInv, OwnerInv, ForegroundJobValid, Held, Inv, TypeOK, TableType
<1>2. Kept(foreground_job)
  BY <1>1 DEF Settled, JobsKept
<1>3. \A p \in Pid : Listed(p, foreground_job)' <=> Listed(p, foreground_job)
  BY <1>2 DEF Kept, Listed
<1> QED
  BY <1>1, <1>2, <1>3 DEF Kept, Held, Status, NoProgramRuns, Settled

\* A line that is given up or over leaves the terminal to a job without a stopped member
\* and without a command of its own.
LEMMA HeldQuiet ==
    ASSUME AllInv, PromptInv, Settled, UNCHANGED <<term, proc, foreground_job>>,
           \/ pc' \notin AtTheEnd \cup {"wait", "fg"}
           \/ pc = "wait" /\ pc' = "wait"
           \/ pc \in AtTheEnd /\ pc' \in AtTheEnd \ {"prompt"}
           \/ /\ pc \in Inside /\ pc' = "refresh"
              /\ \A p \in Pid : Held /\ Listed(p, foreground_job) =>
                    ~Awaited(p, foreground_job) \/ Tame(p)
           \/ /\ pc = "wait" /\ pc' = "refresh"
              /\ process_poll(proc[Head(procs)]) # TASK_STATUS_WAIT
    PROVE  HeldInv'
<1> SUFFICES ASSUME Held PROVE HeldInv'
  BY DEF Held, HeldInv
<1>1. /\ foreground_job \in jobs /\ foreground_job \in JobId
      /\ Status(foreground_job)' = Status(foreground_job)
      /\ NoProgramRuns' <=> NoProgramRuns
  BY HeldSame
<1>2. CASE pc' \notin AtTheEnd \cup {"wait", "fg"}
  BY <1>2 DEF HeldInv, AtTheEnd
<1>3. CASE pc = "wait" /\ pc' = "wait"
  BY <1>1, <1>3 DEF HeldInv, AtTheEnd, PromptInv
<1>4. CASE pc \in AtTheEnd /\ pc' \in AtTheEnd \ {"prompt"}
  BY <1>1, <1>4 DEF HeldInv, AtTheEnd, PromptInv
<1>5. Current(foreground_job)
  BY DEF Current
<1>6. CASE /\ pc \in Inside /\ pc' = "refresh"
           /\ \A p \in Pid : Held /\ Listed(p, foreground_job) =>
                 ~Awaited(p, foreground_job) \/ Tame(p)
  <2>1. \A p \in Pid : Listed(p, foreground_job) => Tame(p)
    BY <1>1, <1>5, <1>6 DEF PromptInv, TameInv
  <2>2. Status(foreground_job) # TASK_STATUS_STOPPED /\ NoProgramRuns
    BY <1>1, <2>1, TameHeld DEF AllInv, Inv, TypeOK
  <2> QED BY <1>1, <1>6, <2>2 DEF HeldInv, AtTheEnd
<1>7. CASE /\ pc = "wait" /\ pc' = "refresh"
           /\ process_poll(proc[Head(procs)]) # TASK_STATUS_WAIT
  <2>1. NoProgramRuns
    <3> SUFFICES ASSUME NEW p \in Pid, Listed(p, foreground_job), how[p] = "run_process"
                 PROVE  process_poll(proc[p]) # TASK_STATUS_WAIT
      BY DEF NoProgramRuns
    <3>1. Tame(p) \/ p = Head(procs)
      BY <1>1, <1>5, <1>7 DEF PromptInv, TameInv, Inside, Awaited
    <3>2. proc[p] \in ProcRecord
      BY DEF AllInv, Inv, TypeOK, TableType
    <3>3. Tame(p) => process_poll(proc[p]) # TASK_STATUS_WAIT
      BY <3>2 DEF Tame, process_poll, ProcRecord, TASK_STATUS_WAIT
    <3> QED BY <1>7, <3>1, <3>3
  <2>2. Status(foreground_job) # TASK_STATUS_STOPPED
    BY <1>7 DEF PromptInv, HeldInv
  <2> QED BY <1>1, <1>7, <2>1, <2>2 DEF HeldInv, AtTheEnd
<1> QED
  BY <1>2, <1>3, <1>4, <1>6, <1>7

LEMMA QuietPrompt ==
    ASSUME AllInv, PromptInv, Inv',
           \/ ReadLine \/ ReadEof \/ WaitInterrupted \/ EndLine \/ RunNothing \/ RunCommand
           \/ ForkFails \/ WaitReturns \/ FgReturns \/ AssertFails \/ builtin_wait
           \/ (\E w \in waits : WaitEchild(w)) \/ BuiltinWaitReturns \/ builtin_exit
           \/ RefreshReturns
    PROVE  PromptInv'
<1>1. Settled /\ UNCHANGED <<term, proc, foreground_job, how>>
  <2>1. Settled /\ UNCHANGED <<kernelVars, proc, foreground_job>>
    BY QuietSettled DEF AllInv
  <2> QED BY <2>1 DEF Settled
<1>2. MembersInv'
  BY <1>1, MembersSettled DEF PromptInv
<1>3. /\ Held' <=> Held
      /\ \A p \in Pid : Tame(p)' <=> Tame(p)
  BY <1>1 DEF Held, Tame
<1>4. Inv /\ MembersInv /\ TameInv /\ HeldInv /\ NoJob \notin jobs
  BY DEF AllInv, PromptInv, Inv, TypeOK, TableType, JobId, NoJob
<1>5. CASE ReadLine
  <2>1. pc = "prompt" /\ pc' = "line" /\ term = Shell
    BY <1>5 DEF ReadLine
  <2>2. ctx_job' \notin jobs
    <3>1. ctx_job' = NoJob \/ IsNewId(ctx_job')
      BY <1>5 DEF ReadLine
    <3>2. ASSUME NEW n, IsNewId(n) PROVE n \notin jobs
      BY <3>2 DEF IsNewId, JobId
    <3> QED BY <1>4, <3>1, <3>2
  <2>3. \A j \in jobs : ~Current(j)'
    BY <1>1, <2>1, <2>2 DEF Current, Held
  <2>4. TameInv'
    BY <1>1, <1>3, <1>4, <2>3, TameSettled
  <2>5. HeldInv'
    BY <1>1, <2>1, HeldQuiet DEF AtTheEnd
  <2> QED BY <1>2, <2>4, <2>5 DEF PromptInv
<1>6. CASE ReadEof \/ EndLine \/ RefreshReturns \/ ForkFails \/ builtin_exit
  <2>1. /\ pc' \in AtTheEnd \ {"prompt"}
        /\ pc \in AtTheEnd \/ (pc \in {"line", "fork"} /\ pc' = "refresh")
    BY <1>6 DEF ReadEof, EndLine, RefreshReturns, ForkFails, builtin_exit, BuiltinOnJob, Returned,
                AtTheEnd, TASK_STATUS_ERROR, TASK_STATUS_INTERRUPTED
  <2>2. TameInv'
    BY <2>1 DEF TameInv, AtTheEnd, Inside
  <2>3. HeldInv'
    BY <1>1, <2>1, HeldQuiet DEF Awaited, Inside
  <2> QED BY <1>2, <2>2, <2>3 DEF PromptInv
<1>7. CASE AssertFails
  <2>1. pc' = "aborted"
    BY <1>7 DEF AssertFails
  <2>2. TameInv' /\ HeldInv'
    BY <2>1 DEF TameInv, HeldInv, Inside, AtTheEnd
  <2> QED BY <1>2, <2>2 DEF PromptInv
<1>8. CASE RunNothing \/ RunCommand \/ builtin_wait
  <2>1. /\ pc = "line" /\ pc' \in {"line", "fork", "builtin_wait"} /\ ctx_job' = ctx_job
        /\ pc' = "fork" => cur' = ctx_job \/ cur' \notin jobs
    BY <1>4, <1>8 DEF RunNothing, RunCommand, builtin_wait, BuiltinOnJob, JobOfCommand, IsNewId,
                Inv, TypeOK, TableType, JobId
  <2>2. \A j \in jobs : Current(j)' => pc \in Inside /\ Current(j)
    BY <1>1, <1>3, <2>1 DEF Current, Inside
  <2>3. TameInv'
    BY <1>1, <1>3, <1>4, <2>1, <2>2, TameSettled DEF Awaited
  <2>4. HeldInv'
    BY <1>1, <2>1, HeldQuiet DEF AtTheEnd
  <2> QED BY <1>2, <2>3, <2>4 DEF PromptInv
<1>9. CASE WaitInterrupted \/ (\E w \in waits : WaitEchild(w)) \/ BuiltinWaitReturns
  <2>1. /\ pc = "builtin_wait" /\ pc' \in {"line", "refresh", "builtin_wait"}
        /\ ctx_job' = ctx_job
    BY <1>9 DEF WaitInterrupted, WaitEchild, BuiltinWaitReturns, Returned
  <2>2. \A j \in jobs : Current(j)' => pc \in Inside /\ Current(j)
    BY <1>1, <1>3, <2>1 DEF Current, Inside
  <2>3. TameInv'
    BY <1>1, <1>3, <1>4, <2>1, <2>2, TameSettled DEF Awaited
  <2>4. HeldInv'
    BY <1>1, <2>1, HeldQuiet DEF AtTheEnd, Inside, Awaited
  <2> QED BY <1>2, <2>3, <2>4 DEF PromptInv
<1>10. CASE WaitReturns
  <2> DEFINE p == Head(procs)
             s == process_poll(proc[p])
  <2>1. p \in Pid /\ proc[p] \in ProcRecord
    BY <1>4, <1>10, HeadOfProcs DEF WaitReturns, Inv, TypeOK, TableType
  <2>2. /\ pc = "wait" /\ s # TASK_STATUS_WAIT /\ UNCHANGED <<ctx_job, cur>>
        /\ pc' \in {"wait", "line", "refresh"} /\ (s < 0 => pc' = "refresh")
    <3>1. s \in TaskStatus
      BY <2>1, ProcessPollType
    <3>2. /\ pc = "wait" /\ s # TASK_STATUS_WAIT /\ UNCHANGED <<ctx_job, cur>>
          /\ \/ s >= 0 /\ pc' = pc
             \/ Returned(s)
      BY <1>10 DEF WaitReturns
    <3> HIDE DEF s
    <3> QED BY <3>1, <3>2 DEF Returned, TaskStatus
  <2>3. pc' # "refresh" => Tame(p)
    <3>1. s >= 0 => ~proc[p].stopped /\ proc[p].terminated
      BY <2>1 DEF process_poll, ProcRecord, TASK_STATUS_STOPPED, TASK_STATUS_WAIT
    <3>2. s \in TaskStatus
      BY <2>1, ProcessPollType
    <3> HIDE DEF s, p
    <3> QED BY <2>2, <3>1, <3>2 DEF Tame, TaskStatus
  <2>4. TameInv'
    <3>1. CASE pc' = "refresh"
      BY <3>1 DEF TameInv, Inside
    <3>2. CASE pc' # "refresh"
      <4>1. \A j \in jobs : Current(j)' => pc \in Inside /\ Current(j)
        BY <1>1, <1>3, <2>2, <3>2 DEF Current, Inside
      <4>2. \A q \in Pid, j \in jobs : Awaited(q, j) => Tame(q)
        BY <2>2, <2>3, <3>2 DEF Awaited
      <4> QED BY <1>1, <1>3, <1>4, <4>1, <4>2, TameSettled
    <3> QED BY <3>1, <3>2
  <2>5. HeldInv'
    BY <1>1, <2>2, HeldQuiet DEF AtTheEnd
  <2> QED BY <1>2, <2>4, <2>5 DEF PromptInv
<1>11. CASE FgReturns
  <2>1. /\ pc = "fg" /\ UNCHANGED <<ctx_job, cur>> /\ Status(cur) # TASK_STATUS_WAIT
        /\ Returned(Status(cur))
    BY <1>11 DEF FgReturns, Status
  <2>2. cur \in jobs /\ cur \in JobId /\ TableType
    BY <1>4, <2>1 DEF Inv, ControlInv, TypeOK, TableType
  <2>3. Status(cur) = TASK_STATUS_STOPPED \/ Status(cur) \in {0, 129}
    <3>1. job[cur].processes \in Seq(Pid) /\ proc \in [Pid -> ProcRecord]
      BY <2>2 DEF TableType, JobRecord
    <3> QED BY <2>1, <3>1, StatusKinds DEF Status
  <2>4. CASE Status(cur) = TASK_STATUS_STOPPED
    <3>1. pc' = "refresh"
      BY <2>1, <2>4 DEF Returned, TASK_STATUS_STOPPED
    <3>2. ~Held
      BY <1>4, <2>1, <2>4 DEF HeldInv
    <3>3. TameInv' /\ HeldInv'
      BY <1>3, <3>1, <3>2 DEF TameInv, HeldInv, Inside
    <3> QED BY <1>2, <3>3 DEF PromptInv
  <2>5. CASE Status(cur) \in {0, 129}
    <3>1. pc' = "line"
      BY <2>1, <2>5 DEF Returned
    <3>2. \A p \in Pid : Listed(p, cur) => Tame(p)
      BY <2>2, <2>5, EndedTame
    <3>3. \A j \in jobs : Current(j)' => pc \in Inside /\ Current(j)
      BY <1>1, <1>3, <2>1, <3>1 DEF Current, Inside
    <3>4. TameInv'
      BY <1>1, <1>3, <1>4, <2>1, <3>2, <3>3, TameSettled DEF Awaited
    <3>5. HeldInv'
      BY <1>1, <3>1, HeldQuiet DEF AtTheEnd
    <3> QED BY <1>2, <3>4, <3>5 DEF PromptInv
  <2> QED BY <2>3, <2>4, <2>5
<1> QED
  BY <1>5, <1>6, <1>7, <1>8, <1>9, <1>10, <1>11

\* update_job leaves a job in the foreground only if it is running.
LEMMA ReportHeld ==
    ASSUME AllInv, NEW np, update_job(np), Held'
    PROVE  /\ Held /\ UNCHANGED <<foreground_job, term>>
           /\ Kept(foreground_job) /\ Status(foreground_job)' = TASK_STATUS_WAIT
<1>1. UNCHANGED <<foreground_job, term>> /\ proc' = np
  BY DEF update_job, Held
<1>2. foreground_job # NoJob /\ foreground_job \in jobs /\ foreground_job \in JobId
  BY <1>1 DEF AllInv, TermInv, OwnerInv, ForegroundJobValid, Held, Inv, TypeOK, TableType
<1>3. job[foreground_job].pgid # NoGroup
  BY <1>2 DEF AllInv, TermInv, OwnerInv, ForegroundJobValid
<1>4. job_poll(job[foreground_job].processes, np) = TASK_STATUS_WAIT
  BY <1>1, <1>2, <1>3 DEF update_job
<1>5. Kept(foreground_job)
  BY <1>2, UpdateJobKept DEF JobsKept, AllInv, Inv, TypeOK
<1> QED
  BY <1>1, <1>4, <1>5 DEF Held, Status, Kept

\* waitpid reports about one process; nothing it reports makes a process run again, and the
\* end of a process does not make it a stopped one.
LEMMA ReportedProcess ==
    ASSUME TableType, KernelType, NEW p \in Pid, proc' = update_process(p),
           kstate[p] \in {"zombie", "stopped"}
    PROVE  /\ \A q \in Pid : q # p => proc'[q] = proc[q]
           /\ \A q \in Pid : process_poll(proc[q]) # TASK_STATUS_WAIT =>
                                 process_poll(proc'[q]) # TASK_STATUS_WAIT
           /\ kstate[p] = "zombie" =>
                 \A q \in Pid : /\ ~proc[q].stopped => ~proc'[q].stopped
                                /\ proc[q].terminated => proc'[q].terminated
<1>1. proc \in [Pid -> ProcRecord] /\ proc[p] \in ProcRecord /\ code[p] \in {0, 129}
  BY DEF TableType, KernelType
<1>2. \A q \in Pid : q # p => proc'[q] = proc[q]
  BY UpdateOther
<1>3. proc'[p] = IF p \in processes THEN Reported(proc[p], p) ELSE proc[p]
  BY <1>1 DEF update_process
<1>4. CASE kstate[p] = "zombie"
  <2>1. \/ proc'[p] = proc[p]
        \/ /\ proc'[p].stopped = proc[p].stopped /\ proc'[p].terminated
           /\ proc'[p].stat = code[p]
    BY <1>1, <1>3, <1>4 DEF Reported, ProcRecord
  <2>2. process_poll(proc[p]) # TASK_STATUS_WAIT => process_poll(proc'[p]) # TASK_STATUS_WAIT
    BY <1>1, <2>1 DEF process_poll, TASK_STATUS_WAIT, TASK_STATUS_STOPPED
  <2> QED BY <1>2, <2>1, <2>2 DEF Tame
<1>5. CASE kstate[p] = "stopped"
  <2>1. proc'[p] = proc[p] \/ proc'[p].stopped
    BY <1>1, <1>3, <1>5 DEF Reported, ProcRecord
  <2> QED BY <1>2, <1>5, <2>1 DEF process_poll, TASK_STATUS_WAIT, TASK_STATUS_STOPPED
<1> QED
  BY <1>4, <1>5

LEMMA WaitingPrompt ==
    ASSUME AllInv, PromptInv, Inv',
           \/ WaitBlocks \/ FgBlocks
           \/ (\E w \in waits, p \in Pid : WaitReaps(w, p))
           \/ (\E j \in jobs : refresh_jobs_status(j))
    PROVE  PromptInv'
<1>1. Settled /\ how' = how
  BY WaitingSettled DEF AllInv, Settled
<1>2. MembersInv'
  BY <1>1, MembersSettled DEF PromptInv
<1>3. Inv /\ MembersInv /\ TameInv /\ HeldInv /\ TableType /\ KernelType
  BY DEF AllInv, PromptInv, Inv, TypeOK
<1>4. CASE WaitBlocks
  <2> DEFINE p == Head(procs)
  <2>1. /\ p \in Pid /\ pc = "wait" /\ UNCHANGED <<pc, procs, cur, ctx_job>>
        /\ kstate[p] \in {"zombie", "stopped"} /\ update_job(update_process(p))
    BY <1>3, <1>4, HeadOfProcs DEF WaitBlocks, job_wait_report, Reportable
  <2>2. proc' = update_process(p)
    BY <2>1 DEF update_job
  <2>3. \A q \in Pid : q # p => proc'[q] = proc[q]
    BY <1>3, <2>1, <2>2, ReportedProcess
  <2>4. Held' => /\ Held /\ UNCHANGED <<foreground_job, term>>
                 /\ Status(foreground_job)' = TASK_STATUS_WAIT
    BY <2>1, ReportHeld
  <2>5. \A j \in jobs : Current(j)' => pc \in Inside /\ Current(j)
    BY <2>1, <2>4 DEF Current, Inside
  <2>6. \A q \in Pid, j \in jobs : Tame(q) \/ Awaited(q, j) => Tame(q)' \/ Awaited(q, j)'
    BY <1>1, <2>1, <2>3 DEF Tame, Awaited
  <2>7. TameInv'
    BY <1>1, <1>3, <2>5, <2>6, TameCarried
  <2>8. HeldInv'
    BY <2>1, <2>4 DEF HeldInv, AtTheEnd, TASK_STATUS_WAIT, TASK_STATUS_STOPPED
  <2> QED BY <1>2, <2>7, <2>8 DEF PromptInv
<1>5. CASE FgBlocks
  <2>1. PICK p \in Pid : job_get_running_process(cur, p) /\ job_wait_report(p)
    BY <1>5 DEF FgBlocks
  <2>2. /\ pc = "fg" /\ UNCHANGED <<pc, procs, cur, ctx_job>>
        /\ kstate[p] \in {"zombie", "stopped"} /\ update_job(update_process(p))
    BY <1>5, <2>1 DEF FgBlocks, job_wait_report, Reportable
  <2>3. proc' = update_process(p)
    BY <2>2 DEF update_job
  <2>4. \A q \in Pid : q # p => proc'[q] = proc[q]
    BY <1>3, <2>2, <2>3, ReportedProcess
  <2>5. Held' => /\ Held /\ UNCHANGED <<foreground_job, term>>
                 /\ Status(foreground_job)' = TASK_STATUS_WAIT
    BY <2>2, ReportHeld
  <2>6. \A j \in jobs : Current(j)' => pc \in Inside /\ Current(j)
    BY <2>2, <2>5 DEF Current, Inside
  <2>7. ASSUME NEW q \in Pid, NEW j \in jobs, Listed(q, j), Tame(q) \/ Awaited(q, j)
        PROVE  Tame(q)' \/ Awaited(q, j)'
    <3>1. CASE q # p
      BY <1>1, <2>2, <2>4, <2>7, <3>1 DEF Tame, Awaited
    <3>2. CASE q = p
      <4>1. Listed(p, cur)
        BY <2>1 DEF job_get_running_process, Listed
      <4>2. cur \in JobId /\ j \in JobId
        BY <1>3, <2>2 DEF Inv, ControlInv, TableType
      <4>3. j = cur
        BY <2>7, <3>2, <4>1, <4>2 DEF AllInv, TableInv, ListInv, ListedOnce
      <4> QED BY <2>2, <4>3 DEF Awaited
    <3> QED BY <3>1, <3>2
  <2>8. TameInv'
    BY <1>1, <1>3, <2>6, <2>7, TameCarried
  <2>9. HeldInv'
    BY <1>3, <2>2, <2>5 DEF HeldInv, AtTheEnd, TASK_STATUS_WAIT, TASK_STATUS_STOPPED
  <2> QED BY <1>2, <2>8, <2>9 DEF PromptInv
<1>6. ASSUME NEW w \in waits, NEW p \in Pid, WaitReaps(w, p) PROVE PromptInv'
  <2>1. /\ kstate[p] \in {"zombie", "stopped"} /\ kstate[p] = "zombie"
        /\ proc' = update_process(p) /\ pc = "builtin_wait"
        /\ UNCHANGED <<pc, procs, cur, ctx_job, foreground_job, term>>
    BY <1>6 DEF WaitReaps
  <2>2. \A q \in Pid : /\ ~proc[q].stopped => ~proc'[q].stopped
                       /\ proc[q].terminated => proc'[q].terminated
    BY <1>3, <2>1, ReportedProcess
  <2>3. \A q \in Pid : Tame(q) => Tame(q)'
    BY <1>1, <2>2 DEF Tame
  <2>4. \A j \in jobs : Current(j)' => pc \in Inside /\ Current(j)
    BY <2>1 DEF Current, Inside, Held
  <2>5. TameInv'
    BY <1>1, <1>3, <2>1, <2>3, <2>4, TameSettled DEF Awaited
  <2>6. HeldInv'
    BY <2>1 DEF HeldInv, AtTheEnd
  <2> QED BY <1>2, <2>5, <2>6 DEF PromptInv
<1>7. ASSUME NEW j \in jobs, refresh_jobs_status(j) PROVE PromptInv'
  <2>1. pc = "refresh" /\ pc' = pc
    BY <1>7 DEF refresh_jobs_status
  <2>2. TameInv'
    BY <2>1 DEF TameInv, Inside
  <2>3. CASE UNCHANGED <<proc, foreground_job, term>>
    <3>1. HeldInv'
      BY <1>1, <2>1, <2>3, HeldQuiet DEF AtTheEnd
    <3> QED BY <1>2, <2>2, <3>1 DEF PromptInv
  <2>4. CASE \E p \in Pid : job_wait_report(p)
    <3>1. PICK p \in Pid : job_wait_report(p)
      BY <2>4
    <3>2. kstate[p] \in {"zombie", "stopped"} /\ update_job(update_process(p))
      BY <3>1 DEF job_wait_report, Reportable
    <3>3. proc' = update_process(p)
      BY <3>2 DEF update_job
    <3>4. HeldInv'
      <4> SUFFICES ASSUME Held' PROVE HeldInv'
        BY DEF HeldInv
      <4>1. /\ Held /\ UNCHANGED <<foreground_job, term>> /\ Kept(foreground_job)
            /\ Status(foreground_job)' = TASK_STATUS_WAIT
        BY <3>2, ReportHeld
      <4>2. NoProgramRuns
        BY <1>3, <2>1, <4>1 DEF HeldInv, AtTheEnd
      <4>3. \A q \in Pid : process_poll(proc[q]) # TASK_STATUS_WAIT =>
                              process_poll(proc'[q]) # TASK_STATUS_WAIT
        BY <1>3, <3>2, <3>3, ReportedProcess
      <4>4. NoProgramRuns'
        <5>1. \A q \in Pid : Listed(q, foreground_job)' => Listed(q, foreground_job)
          BY <4>1 DEF Kept, Listed
        <5> QED BY <1>1, <4>1, <4>2, <4>3, <5>1 DEF NoProgramRuns
      <4> QED BY <2>1, <4>1, <4>4 DEF HeldInv, TASK_STATUS_WAIT, TASK_STATUS_STOPPED
    <3> QED BY <1>2, <2>2, <3>4 DEF PromptInv
  <2> QED BY <1>7, <2>3, <2>4 DEF refresh_jobs_status
<1> QED
  BY <1>4, <1>5, <1>6, <1>7

\* fg gives the terminal only to a job that is not, or no longer, stopped: when its group is
\* gone the terminal stays where it is.
LEMMA ForegroundPrompt ==
    ASSUME AllInv, PromptInv, Inv', NEW n \in JobId, NEW t \in JobId,
           builtin_fg(n, t) \/ builtin_bg(n, t)
    PROVE  PromptInv'
<1> DEFINE r == job[t]
<1>1. Settled /\ how' = how
  BY ForegroundSettled DEF AllInv, Settled
<1>2. MembersInv'
  BY <1>1, MembersSettled DEF PromptInv
<1>3. /\ Inv /\ MembersInv /\ TameInv /\ HeldInv /\ TableType /\ HistoryType
      /\ r \in JobRecord /\ proc \in [Pid -> ProcRecord] /\ t # NoJob
      /\ JobWith(n) \in [JobId -> JobRecord]
  BY JobWithType DEF AllInv, PromptInv, Inv, TypeOK, TableType, JobId, NoJob
<1>4. /\ pc = "line" /\ ctx_job' = ctx_job /\ JobWith(n)[t].pgid # NoGroup
      /\ t \in JobsWith(n) /\ (foreground_job = NoJob => term = Shell)
  BY DEF builtin_fg, builtin_bg, BuiltinOnJob, AllInv, TermInv, OwnerInv,
         TerminalFollowsForeground
<1>5. JobWith(n)[t] = r
  BY <1>3, <1>4, JobWithKeeps DEF NewJob
<1>6. PICK f \in BOOLEAN : /\ job_set_foreground(JobWith(n), t, f, TRUE, pgrp, proc)
                           /\ f <=> builtin_fg(n, t)
  BY DEF builtin_fg, builtin_bg
<1>7. \A q \in Pid : proc'[q] = proc[q] \/ proc'[q] = [proc[q] EXCEPT !.stopped = FALSE]
  BY <1>3, <1>6 DEF job_set_foreground
<1>8. \A q \in Pid : Tame(q) => Tame(q)'
  BY <1>1, <1>3, <1>7 DEF Tame, ProcRecord
<1>9. CASE f /\ job_set_foreground_result(r, proc, TRUE)
  <2>1. pc' = "fg" /\ cur' = t /\ foreground_job' = t
    BY <1>5, <1>6, <1>9 DEF builtin_fg, job_set_foreground
  <2>2. TameInv'
    <3> SUFFICES ASSUME NEW p \in Pid, NEW j \in jobs, Current(j)', Listed(p, j)
                 PROVE  Tame(p)' \/ Awaited(p, j)'
      BY <1>1, <1>3, TameMembers
    <3>1. CASE j = t
      BY <2>1, <3>1 DEF Awaited
    <3>2. CASE j = ctx_job
      BY <1>3, <1>4, <1>8, <3>2 DEF TameInv, Current, Inside, Awaited
    <3> QED BY <1>4, <2>1, <3>1, <3>2 DEF Current
  <2>3. Status(t)' # TASK_STATUS_STOPPED
    <3> DEFINE ps == r.processes
    <3>1. job'[t].processes = ps
      BY <1>3, <1>5, <1>6, SetForegroundKeeps
    <3>2. ps \in Seq(Pid) /\ proc' \in [Pid -> ProcRecord]
      BY <1>3 DEF JobRecord, Inv, TypeOK, TableType
    <3>3. CASE Continues(r, proc, TRUE)
      <4>1. proc' = [p \in Pid |-> IF \E i \in DOMAIN ps : ps[i] = p
                                   THEN [proc[p] EXCEPT !.stopped = FALSE] ELSE proc[p]]
        BY <1>5, <1>6, <1>9, <3>3 DEF job_set_foreground
      <4> HIDE DEF ps
      <4>2. \A i \in DOMAIN ps : ~proc'[ps[i]].stopped
        BY <1>3, <3>2, <4>1 DEF ProcRecord
      <4> QED BY <3>1, <3>2, <4>2, NoneStopped DEF Status
    <3>4. CASE ~Continues(r, proc, TRUE)
      <4>1. proc' = proc
        BY <1>5, <1>6, <3>4 DEF job_set_foreground
      <4> QED BY <3>1, <3>4, <4>1 DEF Status, Continues
    <3> QED BY <3>3, <3>4
  <2>4. HeldInv'
    BY <2>1, <2>3 DEF HeldInv, AtTheEnd
  <2> QED BY <1>2, <2>2, <2>4 DEF PromptInv
<1>10. CASE ~(f /\ job_set_foreground_result(r, proc, TRUE))
  <2>1. pc' = "line"
    <3> DEFINE ok == job_set_foreground_result(r, proc, TRUE)
    <3>1. CASE f
      <4>1. ~ok /\ builtin_fg(n, t)
        BY <1>6, <1>10, <3>1
      <4>2. Returned(1)
        BY <1>5, <4>1 DEF builtin_fg
      <4> QED BY <4>2 DEF Returned
    <3>2. CASE ~f
      <4>1. PICK s \in {0, 1} : Returned(s)
        BY <1>6, <3>2 DEF builtin_bg
      <4> QED BY <4>1 DEF Returned
    <3> QED BY <3>1, <3>2
  <2>2. HeldInv'
    BY <2>1 DEF HeldInv, AtTheEnd
  <2>3. Held' => Held /\ foreground_job' = foreground_job
    <3>1. CASE ~f
      <4>1. CASE foreground_job = t
        BY <1>3, <1>6, <3>1, <4>1 DEF job_set_foreground, Held
      <4>2. CASE foreground_job # t
        BY <1>6, <3>1, <4>2 DEF job_set_foreground, Held
      <4> QED BY <4>1, <4>2
    <3>2. CASE f /\ foreground_job = NoJob
      <4>1. ~GroupExists(r.pgid, pgrp)
        BY <1>10, <3>2 DEF job_set_foreground_result
      <4>2. term' = Tcsetpgrp(r.pgid, pgrp)
        BY <1>3, <1>5, <1>6, <3>2 DEF job_set_foreground
      <4> QED BY <1>4, <3>2, <4>1, <4>2 DEF Tcsetpgrp, Held
    <3>3. CASE f /\ foreground_job = t
      <4>1. term' = term /\ foreground_job' = t
        BY <1>6, <3>3 DEF job_set_foreground
      <4> QED BY <3>3, <4>1 DEF Held
    <3>4. f => foreground_job \in {NoJob, t}
      BY <1>6 DEF builtin_fg
    <3> QED BY <3>1, <3>2, <3>3, <3>4
  <2>4. \A j \in jobs : Current(j)' => pc \in Inside /\ Current(j)
    BY <1>4, <2>1, <2>3 DEF Current, Inside
  <2>5. TameInv'
    BY <1>1, <1>3, <1>4, <1>8, <2>4, TameSettled DEF Awaited
  <2> QED BY <1>2, <2>2, <2>5 DEF PromptInv
<1> QED
  BY <1>9, <1>10

LEMMA ForkPrompt == ASSUME AllInv, PromptInv, NEW p \in Pid, Fork(p) PROVE PromptInv'
<1>1. /\ pc = "fork" /\ pc' = "forked" /\ kstate[p] = "none"
      /\ how' = [how EXCEPT ![p] = to_fork.how]
      /\ UNCHANGED <<term, proc, jobs, job, foreground_job, ctx_job, cur>>
  BY DEF Fork
<1>2. \A q \in Pid, j \in JobId : Listed(q, j)' => Listed(q, j) /\ q # p
  BY <1>1 DEF Listed, AllInv, TableInv, ListInv, FreshUnlisted
<1>3. \A q \in Pid : q # p => how'[q] = how[q]
  BY <1>1 DEF AllInv, Inv, TypeOK, ForkType
<1>4. MembersInv'
  BY <1>1, <1>2, <1>3 DEF PromptInv, MembersInv
<1>5. TameInv'
  <2> SUFFICES ASSUME NEW q \in Pid, NEW j \in jobs, Current(j)', Listed(q, j)' PROVE Tame(q)'
    BY <1>1 DEF TameInv
  <2>1. j \in JobId
    BY DEF AllInv, Inv, TypeOK, TableType
  <2>2. Current(j) /\ Listed(q, j) /\ q # p
    BY <1>1, <1>2, <2>1 DEF Current, Held
  <2>3. Tame(q)
    BY <1>1, <2>2 DEF PromptInv, TameInv, Inside, Awaited
  <2> QED BY <1>1, <1>3, <2>2, <2>3 DEF Tame
<1>6. HeldInv'
  BY <1>1 DEF HeldInv, AtTheEnd
<1> QED
  BY <1>4, <1>5, <1>6 DEF PromptInv

\* The parent's half: the new process is not stopped, and a command of its own is the only
\* process of its fork, which is waited for.
LEMMA ParentPrompt ==
    ASSUME AllInv, PromptInv, Inv', NEW p \in Pid, ParentInit(p) PROVE PromptInv'
<1>1. ParentFacts(p) /\ cur \in jobs /\ cur \in JobId /\ Newest = p
  BY ParentStep DEF AllInv
<1>2. /\ pc = "forked" /\ pc' \in {"fork", "wait", "line"}
      /\ to_fork.how # "async" => pc' = IF to_fork.n > 0 THEN "fork" ELSE "wait"
      /\ UNCHANGED <<how, jobs, ctx_job, cur, procs>>
      /\ jobs \subseteq JobId /\ procs \in Seq(Pid) /\ procs # <<>> /\ to_fork.n \in Nat
  <2>1. /\ pc = "forked" /\ UNCHANGED <<how, jobs, ctx_job, cur, procs>>
        /\ \/ to_fork.how = "async" /\ Returned(0)
           \/ to_fork.how # "async" /\ pc' = (IF to_fork.n > 0 THEN "fork" ELSE "wait")
    BY DEF ParentInit
  <2>2. /\ jobs \subseteq JobId /\ procs \in Seq(Pid) /\ procs # <<>> /\ to_fork.n \in Nat
    BY <2>1 DEF AllInv, Inv, TypeOK, TableType, ControlInv, EvalType
  <2> QED BY <2>1, <2>2 DEF Returned
<1>3. /\ to_fork.how \notin Foreground => UNCHANGED <<foreground_job, term>>
      /\ to_fork.how \in Foreground => foreground_job' = cur
      /\ proc' = [proc EXCEPT ![p] = NewProcess] /\ proc \in [Pid -> ProcRecord]
  BY ParentTerminal DEF AllInv, Inv, TypeOK, TableType
<1>4. \A j \in JobId : ~Listed(p, j)
  BY <1>1, <1>2 DEF AllInv, TableInv, ListInv, FreshUnlisted
<1>5. how[p] = to_fork.how
  BY <1>1, <1>2 DEF AllInv, TermInv, NewestInv, NewestTold
<1>6. ASSUME NEW q \in Pid, NEW j \in JobId, Listed(q, j)'
      PROVE  (q # p /\ Listed(q, j)) \/ (q = p /\ j = cur /\ to_fork.how # "run_subshell")
  <2>1. CASE Kept(j)
    BY <1>4, <1>6, <2>1 DEF Kept, Listed
  <2>2. CASE ~Kept(j)
    <3>1. /\ j = cur /\ to_fork.how # "run_subshell"
          /\ \/ job'[cur].processes = job[cur].processes
             \/ job'[cur].processes = Append(job[cur].processes, p)
      BY <1>1, <2>2 DEF ParentFacts
    <3>2. CASE job'[cur].processes = job[cur].processes
      BY <1>4, <1>6, <3>1, <3>2 DEF Listed
    <3>3. CASE job'[cur].processes = Append(job[cur].processes, p)
      <4> DEFINE ps == job[cur].processes
                 m  == Len(ps)
      <4>1. ps \in Seq(Pid) /\ m \in Nat /\ DOMAIN ps = 1 .. m
        BY <1>1 DEF AllInv, Inv, TypeOK, TableType, JobRecord
      <4>2. PICK i \in DOMAIN Append(ps, p) : Append(ps, p)[i] = q
        BY <1>6, <3>1, <3>3 DEF Listed
      <4>3. i = m + 1 \/ i \in DOMAIN ps
        <5>1. DOMAIN Append(ps, p) = 1 .. m + 1
          <6> HIDE DEF ps
          <6> QED BY <4>1 DEF m
        <5> HIDE DEF ps, m
        <5> QED BY <4>1, <4>2, <5>1
      <4>4. (i = m + 1 => q = p) /\ (i \in DOMAIN ps => ps[i] = q)
        <5> HIDE DEF ps
        <5> QED BY <4>1, <4>2 DEF m
      <4>5. i \in DOMAIN ps => Listed(q, cur)
        BY <4>4 DEF Listed
      <4> QED BY <1>1, <1>4, <3>1, <4>3, <4>4, <4>5
    <3> QED BY <3>1, <3>2, <3>3
  <2> QED BY <2>1, <2>2
<1>7. MembersInv'
  BY <1>1, <1>2, <1>5, <1>6 DEF PromptInv, MembersInv
<1>8. \A j \in jobs : Current(j)' => Current(j)
  BY <1>2, <1>3 DEF Current, Held, Foreground
<1>9. ASSUME NEW q \in Pid, NEW j \in jobs, Current(j)', Listed(q, j)', q # p PROVE Tame(q)'
  <2>1. Tame(q)
    BY <1>2, <1>6, <1>8, <1>9 DEF PromptInv, TameInv, Inside, Awaited
  <2>2. proc'[q] = proc[q] /\ how'[q] = how[q]
    BY <1>2, <1>3, <1>9
  <2> QED BY <2>1, <2>2 DEF Tame
<1>10. ~proc'[p].stopped
  BY <1>3 DEF NewProcess
<1>11. how[p] = "run_process" => pc' = "wait" /\ p = Head(procs)
  <2> SUFFICES ASSUME how[p] = "run_process" PROVE pc' = "wait" /\ p = Head(procs)
    OBVIOUS
  <2>1. ~(to_fork.n > 0) /\ ~(Len(procs) > 1)
    BY <1>2, <1>5 DEF AllInv, TermInv, PipelineInv
  <2>2. Newest = Head(procs)
    <3> DEFINE n == Len(procs)
    <3>1. n \in Nat /\ n # 0
      BY <1>2
    <3>2. n = 1
      <4> HIDE DEF n
      <4>1. ~(n > 1)
        BY <2>1 DEF n
      <4> QED BY <3>1, <4>1
    <3> QED BY <1>2, <3>2 DEF Newest
  <2> QED BY <1>1, <1>2, <1>5, <2>1, <2>2
<1>12. TameInv'
  <2> SUFFICES ASSUME NEW j \in jobs', Current(j)', Listed(p, j)'
               PROVE  Tame(p)' \/ Awaited(p, j)'
    BY <1>2, <1>9 DEF TameInv
  <2> QED BY <1>2, <1>10, <1>11 DEF Tame, Awaited
<1>13. HeldInv'
  <2> SUFFICES ASSUME Held', pc' = "wait", NEW j, j = foreground_job'
               PROVE  job_poll(job'[j].processes, proc') # TASK_STATUS_STOPPED
    BY <1>2 DEF HeldInv, AtTheEnd, Status
  <2>1. j \in jobs /\ j \in JobId
    <3>1. foreground_job' \in {cur, foreground_job} /\ foreground_job' # NoJob
      BY <1>3 DEF Held
    <3> QED BY <1>1, <1>2, <3>1 DEF AllInv, TermInv, OwnerInv, ForegroundJobValid
  <2>2. Current(j)'
    BY DEF Current
  <2>3. \A q \in Pid : Listed(q, j)' => ~proc'[q].stopped
    BY <1>9, <1>10, <2>1, <2>2 DEF Tame
  <2>4. job'[j].processes \in Seq(Pid) /\ proc' \in [Pid -> ProcRecord]
    BY <2>1 DEF Inv, TypeOK, TableType, JobRecord
  <2>5. \A i \in DOMAIN job'[j].processes : ~proc'[job'[j].processes[i]].stopped
    BY <2>3, <2>4 DEF Listed
  <2> QED BY <2>4, <2>5, NoneStopped
<1> QED
  BY <1>7, <1>12, <1>13 DEF PromptInv

\* A child takes the terminal only while no job is in the foreground.
LEMMA ChildPrompt ==
    ASSUME AllInv, PromptInv, NEW p \in Pid, ChildStep(p) PROVE PromptInv'
<1>1. UNCHANGED <<tableVars, evalVars, how>>
  BY ChildFacts DEF AllInv
<1>2. Held' <=> Held
  BY <1>1, ChildTerminal DEF Held, AtFork
<1>3. \A q \in Pid, j \in JobId : Listed(q, j)' <=> Listed(q, j)
  BY <1>1 DEF Listed
<1>4. \A q \in Pid : Listed(q, foreground_job)' <=> Listed(q, foreground_job)
  BY <1>1 DEF Listed
<1>5. MembersInv'
  BY <1>1, <1>3 DEF PromptInv, MembersInv
<1>6. TameInv'
  <2> SUFFICES ASSUME pc \in Inside, NEW q \in Pid, NEW j \in jobs, Current(j)', Listed(q, j)'
               PROVE  Tame(q)' \/ Awaited(q, j)'
    BY <1>1 DEF TameInv
  <2>1. Current(j) /\ Listed(q, j)
    BY <1>1, <1>2 DEF Current, Listed
  <2>2. Tame(q) \/ Awaited(q, j)
    BY <2>1 DEF PromptInv, TameInv
  <2> QED BY <1>1, <2>2 DEF Tame, Awaited
<1>7. HeldInv'
  BY <1>1, <1>2, <1>4 DEF PromptInv, HeldInv, Status, NoProgramRuns
<1> QED
  BY <1>5, <1>6, <1>7 DEF PromptInv

\* The job that keeps the terminal up to the prompt is a running one: terminated jobs are
\* destroyed, and a stopped one has left the foreground.
LEMMA DestroyPrompt ==
    ASSUME AllInv, PromptInv, mrsh_destroy_terminated_jobs \/ mrsh_state_destroy
    PROVE  PromptInv'
<1>1. /\ UNCHANGED <<proc, how>> /\ TableType
      /\ pc' \in {"prompt", "exit", "done"}
  BY DEF mrsh_destroy_terminated_jobs, mrsh_state_destroy, AllInv, Inv, TypeOK
<1>2. TameInv'
  BY <1>1 DEF TameInv, Inside
<1>3. CASE mrsh_state_destroy
  <2>1. pc' = "done" /\ \A j \in JobId : job'[j].processes = <<>>
    BY <1>3 DEF mrsh_state_destroy, NewJob
  <2>2. MembersInv'
    BY <2>1 DEF MembersInv, Listed
  <2>3. HeldInv'
    BY <2>1 DEF HeldInv, AtTheEnd
  <2> QED BY <1>2, <2>2, <2>3 DEF PromptInv
<1>4. CASE mrsh_destroy_terminated_jobs
  <2>1. /\ pc = "destroy" /\ jobs' = jobs \ Terminated
        /\ job' = [j \in JobId |->
               IF j \in Terminated THEN NewJob
               ELSE [job[j] EXCEPT !.pending_notification = @ /\ ~Notify]]
        /\ IF foreground_job \in Terminated
           THEN foreground_job' = NoJob /\ term' = Shell
           ELSE UNCHANGED <<foreground_job, term>>
    BY <1>4 DEF mrsh_destroy_terminated_jobs, job_destroy
  <2>2. ASSUME NEW j \in JobId
        PROVE  IF j \in Terminated THEN job'[j].processes = <<>> ELSE Kept(j)
    <3>1. job[j] \in JobRecord
      BY <1>1 DEF TableType
    <3>2. CASE j \in Terminated
      BY <2>1, <3>2 DEF NewJob
    <3>3. CASE j \notin Terminated
      BY <2>1, <3>1, <3>3 DEF Kept, JobRecord
    <3> QED BY <3>2, <3>3
  <2>3. \A q \in Pid, j \in JobId : Listed(q, j)' => Listed(q, j) /\ j \notin Terminated
    BY <2>2 DEF Listed, Kept
  <2>4. MembersInv'
    BY <1>1, <2>1, <2>3 DEF PromptInv, MembersInv
  <2>5. HeldInv'
    <3> SUFFICES ASSUME Held'
                 PROVE  /\ Status(foreground_job)' = TASK_STATUS_WAIT
                        /\ NoProgramRuns'
      BY <1>1 DEF HeldInv, TASK_STATUS_WAIT, TASK_STATUS_STOPPED
    <3>1. Held /\ UNCHANGED <<foreground_job, term>> /\ foreground_job \notin Terminated
      BY <2>1 DEF Held
    <3>2. foreground_job \in jobs /\ foreground_job \in JobId
      BY <1>1, <3>1 DEF Held, AllInv, TermInv, OwnerInv, ForegroundJobValid, TableType
    <3>3. Kept(foreground_job)
      BY <2>2, <3>1, <3>2
    <3>4. Status(foreground_job) # TASK_STATUS_STOPPED /\ NoProgramRuns
      BY <2>1, <3>1 DEF PromptInv, HeldInv, AtTheEnd
    <3>5. ~(Status(foreground_job) >= 0)
      BY <3>1, <3>2 DEF Terminated, Status
    <3>6. Status(foreground_job) = TASK_STATUS_WAIT
      <4>1. job[foreground_job].processes \in Seq(Pid) /\ proc \in [Pid -> ProcRecord]
        BY <1>1, <3>2 DEF TableType, JobRecord
      <4>2. \/ Status(foreground_job) = TASK_STATUS_WAIT
            \/ Status(foreground_job) = TASK_STATUS_STOPPED
            \/ Status(foreground_job) \in {0, 129}
        BY <4>1, StatusKinds DEF Status
      <4> QED BY <3>4, <3>5, <4>2
    <3>7. Status(foreground_job)' = Status(foreground_job)
      BY <1>1, <3>1, <3>3 DEF Status, Kept
    <3>8. NoProgramRuns'
      BY <1>1, <3>1, <3>3, <3>4 DEF NoProgramRuns, Kept, Listed
    <3> QED BY <3>6, <3>7, <3>8
  <2> QED BY <1>2, <2>4, <2>5 DEF PromptInv
<1> QED
  BY <1>3, <1>4

LEMMA HaltedPrompt == ASSUME PromptInv, UNCHANGED vars PROVE PromptInv'
<1>1. MembersInv'
  BY DEF vars, PromptInv, MembersInv, Listed
<1>2. TameInv'
  BY DEF vars, PromptInv, TameInv, Current, Held, Listed, Tame, Awaited
<1>3. HeldInv'
  BY DEF vars, PromptInv, HeldInv, Held, Status, NoProgramRuns, Listed
<1> QED
  BY <1>1, <1>2, <1>3 DEF PromptInv

LEMMA PromptInit == Init => PromptInv
<1> SUFFICES ASSUME Init PROVE PromptInv
  OBVIOUS
<1>1. \A j \in JobId : job[j].processes = <<>>
  BY DEF Init, NewJob
<1>2. pc = "prompt" /\ term = Shell
  BY DEF Init
<1> QED
  BY <1>1, <1>2 DEF PromptInv, MembersInv, TameInv, HeldInv, Held, Inside, Listed

LEMMA PromptNext == ASSUME AllInv, AllInv', PromptInv, [Next]_vars PROVE PromptInv'
<1>1. Inv'
  BY DEF AllInv
<1>2. CASE UserStep
  BY <1>1, <1>2, QuietPrompt DEF UserStep
<1>3. CASE ShellStep
  <2>1. CASE EndLine \/ RunNothing \/ RunCommand \/ ForkFails \/ WaitReturns \/ FgReturns
    BY <1>1, <2>1, QuietPrompt
  <2>2. CASE AssertFails \/ builtin_wait \/ BuiltinWaitReturns \/ builtin_exit \/ RefreshReturns
    BY <1>1, <2>2, QuietPrompt
  <2>3. CASE \E w \in waits : WaitEchild(w) \/ \E p \in Pid : WaitReaps(w, p)
    BY <1>1, <2>3, QuietPrompt, WaitingPrompt
  <2>4. CASE WaitBlocks \/ FgBlocks \/ \E j \in jobs : refresh_jobs_status(j)
    BY <1>1, <2>4, WaitingPrompt
  <2>5. CASE \E n, t \in JobId : builtin_fg(n, t) \/ builtin_bg(n, t)
    BY <1>1, <2>5, ForegroundPrompt
  <2>6. CASE \E p \in Pid : Fork(p) \/ ParentInit(p)
    BY <1>1, <2>6, ForkPrompt, ParentPrompt
  <2>7. CASE mrsh_destroy_terminated_jobs \/ mrsh_state_destroy
    BY <2>7, DestroyPrompt
  <2> QED
    BY <1>3, <2>1, <2>2, <2>3, <2>4, <2>5, <2>6, <2>7 DEF ShellStep
<1>4. CASE \E p \in Pid : ChildStep(p)
  BY <1>4, ChildPrompt
<1>5. CASE Halted \/ UNCHANGED vars
  BY <1>5, HaltedPrompt DEF Halted
<1> QED
  BY <1>2, <1>3, <1>4, <1>5 DEF Next

LEMMA PromptInvariance == Spec => [](AllInv /\ PromptInv)
<1>1. Init => PromptInv
  BY PromptInit
<1>2. AllInv /\ AllInv' /\ PromptInv /\ [Next]_vars => PromptInv'
  BY PromptNext
<1> QED
  BY <1>1, <1>2, TermInvariance, PTL DEF Spec

\* When the shell prompts without the terminal, the foreground job has a member that nobody
\* waited for: never a command of its own, which job_wait_process and update_job see to the
\* end, and never a stopped job, which update_job and fg keep out of the foreground.
THEOREM PromptWithTerminal == Spec => []PromptHasTerminal
<1>1. AllInv /\ PromptInv => PromptHasTerminal
  <2> SUFFICES ASSUME AllInv, PromptInv, pc = "prompt", term # Shell
               PROVE  \E p \in Pid : /\ Listed(p, foreground_job)
                                     /\ how[p] \in {"run_pipeline", "async"}
                                     /\ process_poll(proc[p]) = TASK_STATUS_WAIT
    BY DEF PromptHasTerminal
  <2> DEFINE ps == job[foreground_job].processes
  <2>1. Held
    BY DEF Held, AllInv, TermInv, OwnerInv, TerminalFollowsForeground
  <2>2. foreground_job \in JobId /\ ps \in Seq(Pid)
    BY <2>1 DEF Held, AllInv, Inv, TypeOK, TableType, JobRecord
  <2>3. job_poll(ps, proc) = TASK_STATUS_WAIT /\ NoProgramRuns
    BY <2>1 DEF PromptInv, HeldInv, AtTheEnd, Status
  <2>4. \E i \in DOMAIN ps : process_poll(proc[ps[i]]) = TASK_STATUS_WAIT
    <3>1. proc \in [Pid -> ProcRecord]
      BY DEF AllInv, Inv, TypeOK, TableType
    <3>2. ps # <<>> => Len(ps) \in DOMAIN ps
      BY <2>2
    <3> HIDE DEF ps
    <3> QED BY <2>3, <3>1, <3>2 DEF job_poll, TASK_STATUS_WAIT, TASK_STATUS_STOPPED
  <2>5. PICK p \in Pid : Listed(p, foreground_job) /\ process_poll(proc[p]) = TASK_STATUS_WAIT
    BY <2>2, <2>4 DEF Listed
  <2>6. how[p] \in Hows /\ how[p] # "run_process" /\ how[p] # "run_subshell"
    BY <2>2, <2>3, <2>5 DEF NoProgramRuns, PromptInv, MembersInv, AllInv, Inv, TypeOK, ForkType
  <2> QED BY <2>5, <2>6 DEF Hows
<1> QED
  BY <1>1, PromptInvariance, PTL

-----------------------------------------------------------------------------
(* What the user was told when the shell prompts, for lines without compound *)
(* commands: each command has a job of its own, so that a notification that  *)
(* is pending is never about a status that has changed since.                *)

Last(j)    == job[j].last_status
Pending(j) == job[j].pending_notification

\* A job that was recorded as stopped or terminated does not run, ...
StatusKept == \A j \in jobs : Last(j) # TASK_STATUS_WAIT => Status(j) # TASK_STATUS_WAIT

\* ... a pending notification is about the status that the job still has, ...
PendingInv == \A j \in jobs : Pending(j) /\ Status(j) < 0 => Last(j) = Status(j)

\* ... a stop that was not recorded is that of a process that is being waited for, ...
PendingTame ==
    pc \in Inside => \A p \in Pid, j \in jobs :
        Pending(j) /\ Last(j) = TASK_STATUS_WAIT /\ Listed(p, j)
            => ~proc[p].stopped \/ Awaited(p, j)

\* ... and what is not pending was told, but for a job that ended and for one that fg has
\* just continued.
ToldInv ==
    \A j \in jobs : ~Pending(j) =>
        \/ told[j] = Last(j)
        \/ Status(j) >= 0
        \/ pc = "fg" /\ j = cur /\ Last(j) = TASK_STATUS_WAIT /\ Status(j) = TASK_STATUS_WAIT

\* The job of the command that is being forked is new.
FreshJob ==
    pc \in {"fork", "forked"} =>
        /\ ~Pending(cur) /\ told[cur] = TASK_STATUS_WAIT
        /\ (Last(cur) = TASK_STATUS_WAIT \/ to_fork.how \in Foreground)

Cleaned == pc = "prompt" => \A j \in jobs : ~Pending(j) /\ Status(j) < 0

NoticeInv ==
    /\ ctx_job = NoJob
    /\ StatusKept /\ PendingInv /\ PendingTame /\ ToldInv /\ FreshJob /\ Cleaned

\* A job runs while one of its processes does.
LEMMA PollWaits ==
    ASSUME NEW ps \in Seq(Pid), NEW pr \in [Pid -> ProcRecord]
    PROVE  job_poll(ps, pr) = TASK_STATUS_WAIT
               <=> \E i \in DOMAIN ps : process_poll(pr[ps[i]]) = TASK_STATUS_WAIT
<1>1. ps # <<>> => Len(ps) \in DOMAIN ps
  OBVIOUS
<1> QED
  BY <1>1 DEF job_poll, TASK_STATUS_WAIT, TASK_STATUS_STOPPED

\* Its status depends on its own processes.
LEMMA SamePoll ==
    ASSUME NEW ps \in Seq(Pid), NEW pr, NEW qr, \A i \in DOMAIN ps : pr[ps[i]] = qr[ps[i]]
    PROVE  job_poll(ps, pr) = job_poll(ps, qr)
<1>1. ps # <<>> => Len(ps) \in DOMAIN ps
  OBVIOUS
<1> QED
  BY <1>1 DEF job_poll

\* waitpid makes no job run again, ...
LEMMA StaysEnded ==
    ASSUME TableType, TableType', NEW j \in JobId, Kept(j), Status(j) # TASK_STATUS_WAIT,
           \A q \in Pid : process_poll(proc[q]) # TASK_STATUS_WAIT =>
                             process_poll(proc'[q]) # TASK_STATUS_WAIT
    PROVE  Status(j)' # TASK_STATUS_WAIT
<1> DEFINE ps == job[j].processes
<1>1. /\ ps \in Seq(Pid) /\ job'[j].processes = ps
      /\ proc \in [Pid -> ProcRecord] /\ proc' \in [Pid -> ProcRecord]
  BY DEF TableType, JobRecord, Kept
<1>2. \A i \in DOMAIN ps : process_poll(proc[ps[i]]) # TASK_STATUS_WAIT
  BY <1>1, PollWaits DEF Status
<1> HIDE DEF ps
<1>3. \A i \in DOMAIN ps : process_poll(proc'[ps[i]]) # TASK_STATUS_WAIT
  BY <1>1, <1>2
<1> QED
  BY <1>1, <1>3, PollWaits DEF Status

\* ... and has nothing to report of a job that has terminated.
LEMMA EndedStays ==
    ASSUME Inv, TableInv, NEW j \in Terminated, NEW p \in Pid, kstate[p] \in {"zombie", "stopped"},
           \A q \in Pid : q # p => proc'[q] = proc[q], Kept(j)
    PROVE  Status(j)' = Status(j)
<1> DEFINE ps == job[j].processes
<1>1. ps \in Seq(Pid) /\ job'[j].processes = ps
  BY DEF Terminated, Inv, TypeOK, TableType, JobRecord, Kept
<1>2. \A i \in DOMAIN ps : ps[i] \in Pid /\ ps[i] # p
  BY <1>1, TerminatedReaped DEF Listed
<1> HIDE DEF ps
<1>3. \A i \in DOMAIN ps : proc'[ps[i]] = proc[ps[i]]
  BY <1>2
<1>4. job_poll(ps, proc') = job_poll(ps, proc)
  BY <1>1, <1>3, SamePoll
<1> QED
  BY <1>1, <1>4 DEF Status, ps

\* What _job_wait and refresh_jobs_status make of a job: update_job records every status that
\* is not running, and queues what is new.
LEMMA ReportNotice ==
    ASSUME AllInv, NoticeInv, Inv', NEW p \in Pid, kstate[p] \in {"zombie", "stopped"},
           update_job(update_process(p)), NEW j \in jobs
    PROVE  /\ Last(j)' # TASK_STATUS_WAIT => Status(j)' # TASK_STATUS_WAIT
           /\ Pending(j)' /\ Status(j)' < 0 => Last(j)' = Status(j)'
           /\ Pending(j)' /\ Last(j)' = TASK_STATUS_WAIT => Pending(j) /\ Last(j) = TASK_STATUS_WAIT
           /\ ~Pending(j)' => \/ told[j] = Last(j)'
                              \/ Status(j)' >= 0
                              \/ /\ pc = "fg" /\ j = cur
                                 /\ Last(j)' = TASK_STATUS_WAIT /\ Status(j)' = TASK_STATUS_WAIT
<1> DEFINE np == update_process(p)
           ps == job[j].processes
           s  == job_poll(ps, np)
<1>1. /\ TableType /\ KernelType /\ TableType' /\ j \in JobId /\ job[j] \in JobRecord
      /\ ps \in Seq(Pid) /\ proc \in [Pid -> ProcRecord] /\ proc' \in [Pid -> ProcRecord]
  BY DEF AllInv, Inv, TypeOK, TableType, JobRecord
<1>2. /\ proc' = np
      /\ job'[j] = IF s = TASK_STATUS_WAIT THEN job[j]
                   ELSE job_queue_notification(job[j], s, foreground_job = j /\ s >= 0)
  <2> HIDE DEF np
  <2> QED BY <1>1 DEF update_job, np
<1>3. Kept(j)
  <2>1. j \notin jobs \/ Kept(j)
    <3> HIDE DEF np
    <3>1. update_job(np)
      BY DEF np
    <3> QED BY <1>1, <3>1, UpdateJobKept DEF JobsKept
  <2> QED BY <2>1
<1>4. Status(j)' = s
  BY <1>2, <1>3 DEF Status, Kept
<1>5. /\ \A q \in Pid : q # p => proc'[q] = proc[q]
      /\ \A q \in Pid : process_poll(proc[q]) # TASK_STATUS_WAIT =>
                           process_poll(proc'[q]) # TASK_STATUS_WAIT
  BY <1>1, <1>2, ReportedProcess
<1>6. Status(j) # TASK_STATUS_WAIT => s # TASK_STATUS_WAIT
  BY <1>1, <1>3, <1>4, <1>5, StaysEnded
<1>7. Status(j) >= 0 => s >= 0
  <2> SUFFICES ASSUME Status(j) >= 0 PROVE Status(j)' = Status(j)
    BY <1>4
  <2>1. j \in Terminated
    BY DEF Terminated, Status
  <2> QED BY <1>3, <1>5, <2>1, EndedStays DEF AllInv
<1>8. s = TASK_STATUS_WAIT \/ s = TASK_STATUS_STOPPED \/ s \in {0, 129}
  BY <1>1, <1>2, StatusKinds
<1>9. /\ Last(j) # TASK_STATUS_WAIT => Status(j) # TASK_STATUS_WAIT
      /\ Pending(j) /\ Status(j) < 0 => Last(j) = Status(j)
      /\ ~Pending(j) => \/ told[j] = Last(j)
                        \/ Status(j) >= 0
                        \/ /\ pc = "fg" /\ j = cur
                           /\ Last(j) = TASK_STATUS_WAIT /\ Status(j) = TASK_STATUS_WAIT
  BY DEF NoticeInv, StatusKept, PendingInv, ToldInv
<1>10. CASE s = TASK_STATUS_WAIT
  <2>1. job'[j] = job[j] /\ Status(j) = TASK_STATUS_WAIT /\ Status(j)' = TASK_STATUS_WAIT
    BY <1>2, <1>4, <1>6, <1>10
  <2> QED BY <1>9, <2>1 DEF Last, Pending, TASK_STATUS_WAIT
<1>11. CASE s # TASK_STATUS_WAIT
  <2>1. s # TASK_STATUS_STOPPED => s >= 0
    BY <1>8, <1>11
  <2>2. job[j].pgid # NoGroup \/ s >= 0
    <3>1. ps = <<>> => s = 0
      BY DEF job_poll
    <3> HIDE DEF s
    <3> QED BY <1>1, <3>1 DEF AllInv, TableInv, ListInv, ListedHaveGroup
  <2>3. job'[j] = [job[j] EXCEPT !.pending_notification =
                       @ \/ (s # job[j].last_status /\ job[j].pgid # NoGroup
                                 /\ ~(foreground_job = j /\ s >= 0)),
                   !.last_status = s]
    BY <1>2, <1>11 DEF job_queue_notification
  <2>4. Last(j)' = s
    BY <1>1, <2>3 DEF Last, JobRecord
  <2>5. ~Pending(j)' => ~Pending(j) /\ (s < 0 => s = Last(j))
    <3>1. job'[j].pending_notification =
              (job[j].pending_notification \/ (s # job[j].last_status /\ job[j].pgid # NoGroup
                                                /\ ~(foreground_job = j /\ s >= 0)))
      BY <1>1, <2>3 DEF JobRecord
    <3>2. s < 0 => ~(s >= 0)
      BY <1>8 DEF TASK_STATUS_STOPPED, TASK_STATUS_WAIT
    <3> HIDE DEF s
    <3> QED BY <2>2, <3>1, <3>2 DEF Pending, Last
  <2>6. s < 0 => ~(Status(j) >= 0) /\ s # TASK_STATUS_WAIT
    BY <1>7, <1>8, <1>11 DEF TASK_STATUS_STOPPED
  <2>7. s < 0 \/ s >= 0
    BY <1>8 DEF TASK_STATUS_STOPPED, TASK_STATUS_WAIT
  <2> HIDE DEF s
  <2>8. /\ Last(j)' # TASK_STATUS_WAIT => Status(j)' # TASK_STATUS_WAIT
        /\ Pending(j)' /\ Status(j)' < 0 => Last(j)' = Status(j)'
        /\ Pending(j)' /\ Last(j)' = TASK_STATUS_WAIT => Pending(j) /\ Last(j) = TASK_STATUS_WAIT
    BY <1>4, <1>11, <2>4
  <2>9. ~Pending(j)' => told[j] = Last(j)' \/ Status(j)' >= 0
    BY <1>4, <1>9, <2>4, <2>5, <2>6, <2>7
  <2> QED BY <2>8, <2>9
<1> QED
  BY <1>10, <1>11

\* Jobs are added, and nothing is learnt about processes.
Grown ==
    /\ \A j \in jobs : job'[j] = job[j] /\ told'[j] = told[j]
    /\ \A j \in jobs' \ jobs : job'[j] = NewJob /\ told'[j] = TASK_STATUS_WAIT
    /\ jobs \subseteq jobs' /\ proc' = proc

LEMMA JobWithGrows ==
    ASSUME TableType, HistoryType, NEW n \in JobId, proc' = proc,
           jobs' = JobsWith(n), job' = JobWith(n), told' = ToldWith(n)
    PROVE  Grown
<1>1. /\ job \in [JobId -> JobRecord] /\ told \in [JobId -> TaskStatus] /\ jobs \subseteq JobId
  BY DEF TableType, HistoryType
<1> QED
  BY <1>1 DEF Grown, JobsWith, JobWith, ToldWith

LEMMA QuietGrown ==
    ASSUME Inv, \/ ReadLine \/ ReadEof \/ WaitInterrupted \/ EndLine \/ RunNothing \/ RunCommand
                \/ ForkFails \/ WaitReturns \/ FgReturns \/ AssertFails \/ builtin_wait
                \/ (\E w \in waits : WaitEchild(w)) \/ BuiltinWaitReturns \/ builtin_exit
                \/ RefreshReturns
    PROVE  Grown
<1>1. TableType /\ HistoryType
  BY DEF Inv, TypeOK
<1>2. CASE UNCHANGED <<jobs, job, told, proc>>
  BY <1>2 DEF Grown
<1>3. CASE \E n \in JobId : /\ jobs' = JobsWith(n) /\ job' = JobWith(n) /\ told' = ToldWith(n)
                            /\ proc' = proc
  BY <1>1, <1>3, JobWithGrows
<1>4. CASE ReadLine
  BY <1>2, <1>3, <1>4 DEF ReadLine
<1>5. CASE RunNothing \/ RunCommand
  BY <1>3, <1>5 DEF RunNothing, RunCommand
<1>6. CASE AssertFails
  BY <1>2, <1>3, <1>6 DEF AssertFails, BuiltinOnJob
<1>7. CASE builtin_wait \/ builtin_exit
  BY <1>3, <1>7 DEF builtin_wait, builtin_exit, BuiltinOnJob
<1>8. CASE ReadEof \/ EndLine \/ RefreshReturns
  BY <1>2, <1>8 DEF ReadEof, EndLine, RefreshReturns
<1>9. CASE WaitInterrupted \/ ForkFails \/ WaitReturns \/ FgReturns \/ BuiltinWaitReturns
  BY <1>2, <1>9 DEF WaitInterrupted, ForkFails, WaitReturns, FgReturns, BuiltinWaitReturns
<1>10. CASE \E w \in waits : WaitEchild(w)
  BY <1>2, <1>10 DEF WaitEchild
<1> QED
  BY <1>4, <1>5, <1>6, <1>7, <1>8, <1>9, <1>10

\* Such a step keeps what is known of the jobs, if it forgets no process that is waited for.
LEMMA NoticeGrown ==
    ASSUME NoticeInv, Grown, ctx_job' = NoJob, FreshJob', pc' # "prompt",
           pc' \in Inside => pc \in Inside \cup {"prompt"},
           \A p \in Pid, j \in jobs :
              pc' \in Inside /\ Listed(p, j) /\ Awaited(p, j)
                  => ~proc[p].stopped \/ Awaited(p, j)',
           pc = "fg" /\ cur \in jobs => Status(cur) # TASK_STATUS_WAIT
    PROVE  NoticeInv'
<1>1. ASSUME NEW j \in jobs
      PROVE  /\ job'[j] = job[j] /\ told'[j] = told[j] /\ Status(j)' = Status(j)
             /\ Last(j)' = Last(j) /\ Pending(j)' = Pending(j)
             /\ \A p \in Pid : Listed(p, j)' <=> Listed(p, j)
  BY DEF Grown, Status, Last, Pending, Listed
<1>2. ASSUME NEW j \in jobs' \ jobs
      PROVE  /\ Last(j)' = TASK_STATUS_WAIT /\ ~Pending(j)' /\ told'[j] = TASK_STATUS_WAIT
             /\ Status(j)' = 0 /\ \A p \in Pid : ~Listed(p, j)'
  BY DEF Grown, Status, Last, Pending, Listed, NewJob, job_poll
<1>3. StatusKept'
  BY <1>1, <1>2 DEF NoticeInv, StatusKept
<1>4. PendingInv'
  BY <1>1, <1>2 DEF NoticeInv, PendingInv
<1>5. PendingTame'
  <2> SUFFICES ASSUME pc' \in Inside, NEW p \in Pid, NEW j \in jobs',
                      Pending(j)', Last(j)' = TASK_STATUS_WAIT, Listed(p, j)'
               PROVE  ~proc'[p].stopped \/ Awaited(p, j)'
    BY DEF PendingTame
  <2>1. j \in jobs
    BY <1>2
  <2>2. Pending(j) /\ Last(j) = TASK_STATUS_WAIT /\ Listed(p, j) /\ proc' = proc
    BY <1>1, <2>1 DEF Grown
  <2>3. pc \in Inside
    BY <2>1, <2>2 DEF NoticeInv, Cleaned
  <2>4. ~proc[p].stopped \/ Awaited(p, j)
    BY <2>1, <2>2, <2>3 DEF NoticeInv, PendingTame
  <2> QED BY <2>1, <2>2, <2>4
<1>6. ToldInv'
  <2> SUFFICES ASSUME NEW j \in jobs', ~Pending(j)'
               PROVE  \/ told'[j] = Last(j)'
                      \/ Status(j)' >= 0
                      \/ /\ pc' = "fg" /\ j = cur' /\ Last(j)' = TASK_STATUS_WAIT
                         /\ Status(j)' = TASK_STATUS_WAIT
    BY DEF ToldInv
  <2>1. CASE j \in jobs
    BY <1>1, <2>1 DEF NoticeInv, ToldInv
  <2>2. CASE j \notin jobs
    BY <1>2, <2>2
  <2> QED BY <2>1, <2>2
<1>7. Cleaned'
  BY DEF Cleaned
<1> QED
  BY <1>3, <1>4, <1>5, <1>6, <1>7 DEF NoticeInv

\* A line without compound commands, and a shell that notifies.
Plain == TRUE \notin Compounds /\ Notify

LEMMA QuietNotice ==
    ASSUME AllInv, PromptInv, NoticeInv, Plain,
           \/ ReadLine \/ ReadEof \/ WaitInterrupted \/ EndLine \/ RunNothing \/ RunCommand
           \/ ForkFails \/ WaitReturns \/ FgReturns \/ AssertFails \/ builtin_wait
           \/ (\E w \in waits : WaitEchild(w)) \/ BuiltinWaitReturns \/ builtin_exit
           \/ RefreshReturns
    PROVE  NoticeInv'
<1>1. Grown
  BY QuietGrown DEF AllInv
<1>2. ctx_job = NoJob /\ Inv /\ TableType
  BY DEF NoticeInv, AllInv, Inv, TypeOK
<1>3. CASE ReadLine \/ ReadEof
  <2>1. /\ pc = "prompt" /\ pc' \in {"line", "exit"} /\ ctx_job' = NoJob
    BY <1>2, <1>3 DEF ReadLine, ReadEof, Plain
  <2> QED BY <1>1, <2>1, NoticeGrown DEF FreshJob, Awaited
<1>4. CASE RunCommand
  <2>1. /\ pc = "line" /\ pc' = "fork" /\ ctx_job' = NoJob
        /\ cur' \in jobs' /\ cur' \notin jobs
    <3>1. PICK n \in JobId : JobOfCommand(n) /\ cur' = n /\ jobs' = JobsWith(n)
      BY <1>4 DEF RunCommand
    <3>2. IsNewId(n)
      BY <1>2, <3>1 DEF JobOfCommand, JobId, NoJob
    <3>3. n \in jobs' /\ n \notin jobs
      BY <3>1, <3>2 DEF JobsWith, IsNewId, JobId
    <3> QED BY <1>2, <1>4, <3>1, <3>3 DEF RunCommand
  <2>2. job'[cur'] = NewJob /\ told'[cur'] = TASK_STATUS_WAIT
    BY <1>1, <2>1 DEF Grown
  <2>3. FreshJob'
    BY <2>2 DEF FreshJob, Pending, Last, NewJob
  <2> QED BY <1>1, <2>1, <2>3, NoticeGrown DEF Awaited, Inside
<1>5. CASE \/ EndLine \/ RunNothing \/ ForkFails \/ WaitInterrupted \/ builtin_wait
           \/ (\E w \in waits : WaitEchild(w)) \/ BuiltinWaitReturns \/ builtin_exit
           \/ RefreshReturns
  <2>1. /\ pc \in {"line", "fork", "builtin_wait", "refresh"} /\ ctx_job' = NoJob
        /\ pc' \in {"line", "builtin_wait", "refresh", "destroy"}
        /\ pc' \in Inside => pc \in Inside
    BY <1>2, <1>5 DEF EndLine, RunNothing, ForkFails, WaitInterrupted, builtin_wait, WaitEchild,
       BuiltinWaitReturns, builtin_exit, RefreshReturns, Returned, BuiltinOnJob, Inside
  <2> QED BY <1>1, <2>1, NoticeGrown DEF FreshJob, Awaited
<1>6. CASE AssertFails
  <2>1. pc' = "aborted" /\ pc \in {"line", "forked"} /\ ctx_job' = NoJob
    BY <1>2, <1>6 DEF AssertFails, BuiltinOnJob
  <2> QED BY <1>1, <2>1, NoticeGrown DEF FreshJob, Inside
<1>7. CASE WaitReturns
  <2> DEFINE p == Head(procs)
             s == process_poll(proc[p])
  <2>1. p \in Pid /\ proc[p] \in ProcRecord
    BY <1>2, <1>7, HeadOfProcs DEF WaitReturns, Inv, TypeOK, TableType
  <2>2. /\ pc = "wait" /\ ctx_job' = NoJob
        /\ pc' \in {"wait", "line", "refresh"} /\ (s < 0 => pc' = "refresh")
    <3>1. s \in TaskStatus
      BY <2>1, ProcessPollType
    <3>2. pc = "wait" /\ ctx_job' = NoJob /\ ((s >= 0 /\ pc' = pc) \/ Returned(s))
      BY <1>2, <1>7 DEF WaitReturns
    <3> HIDE DEF s
    <3> QED BY <3>1, <3>2 DEF Returned, TaskStatus
  <2>3. pc' \in Inside => ~proc[p].stopped
    <3>1. proc[p].stopped => s < 0
      BY <2>1 DEF process_poll, TASK_STATUS_STOPPED
    <3> QED BY <2>2, <3>1 DEF Inside
  <2> QED BY <1>1, <2>2, <2>3, NoticeGrown DEF FreshJob, Awaited, Inside
<1>8. CASE FgReturns
  <2>1. /\ pc = "fg" /\ ctx_job' = NoJob /\ Status(cur) # TASK_STATUS_WAIT
        /\ Returned(Status(cur))
    BY <1>2, <1>8 DEF FgReturns, Status
  <2>2. pc' \in {"line", "refresh"} /\ (pc' = "line" => Status(cur) >= 0)
    BY <2>1 DEF Returned
  <2>3. cur \in JobId
    BY <1>2, <2>1 DEF Inv, ControlInv, TableType
  <2>4. pc' \in Inside => \A p \in Pid : Listed(p, cur) => ~proc[p].stopped
    BY <1>2, <2>2, <2>3, EndedTame DEF Tame, Inside
  <2> QED BY <1>1, <2>1, <2>2, <2>4, NoticeGrown DEF FreshJob, Awaited, Inside
<1> QED
  BY <1>3, <1>4, <1>5, <1>6, <1>7, <1>8

\* A report of waitpid on a process that the line waits for, or after the line.
LEMMA ReportedNotice ==
    ASSUME AllInv, NoticeInv, Inv', NEW p \in Pid, kstate[p] \in {"zombie", "stopped"},
           update_job(update_process(p)),
           UNCHANGED <<jobs, told, pc, cur, ctx_job, procs>>, pc \in {"wait", "fg", "refresh"},
           pc \in Inside => \A j \in jobs : Listed(p, j) => Awaited(p, j)
    PROVE  NoticeInv'
<1>1. /\ TableType /\ KernelType /\ ctx_job' = NoJob /\ proc' = update_process(p)
      /\ JobsKept /\ jobs \subseteq JobId
  BY UpdateJobKept DEF NoticeInv, AllInv, Inv, TypeOK, TableType, update_job
<1>2. StatusKept' /\ PendingInv'
  BY ReportNotice DEF StatusKept, PendingInv
<1>3. PendingTame'
  <2> SUFFICES ASSUME pc \in Inside, NEW q \in Pid, NEW j \in jobs,
                      Pending(j)', Last(j)' = TASK_STATUS_WAIT, Listed(q, j)'
               PROVE  ~proc'[q].stopped \/ Awaited(q, j)'
    BY DEF PendingTame
  <2>1. Pending(j) /\ Last(j) = TASK_STATUS_WAIT
    BY ReportNotice
  <2>2. Listed(q, j)
    BY <1>1 DEF JobsKept, Kept, Listed
  <2>3. ~proc[q].stopped \/ Awaited(q, j)
    BY <2>1, <2>2 DEF NoticeInv, PendingTame
  <2>4. q = p => Awaited(q, j)
    BY <2>2
  <2>5. q # p => proc'[q] = proc[q]
    BY <1>1, UpdateOther
  <2>6. Awaited(q, j)' <=> Awaited(q, j)
    BY DEF Awaited
  <2> QED BY <2>3, <2>4, <2>5, <2>6
<1>4. ToldInv'
  BY ReportNotice DEF ToldInv
<1>5. FreshJob' /\ Cleaned'
  BY DEF FreshJob, Cleaned
<1> QED
  BY <1>1, <1>2, <1>3, <1>4, <1>5 DEF NoticeInv

\* The wait builtin enters the end of a process without looking at the jobs.
LEMMA ReapedNotice ==
    ASSUME AllInv, NoticeInv, Inv', NEW w \in waits, NEW p \in Pid, WaitReaps(w, p)
    PROVE  NoticeInv'
<1>1. /\ pc = "builtin_wait" /\ kstate[p] = "zombie" /\ kstate[p] \in {"zombie", "stopped"}
      /\ proc' = update_process(p) /\ UNCHANGED <<jobs, job, told, pc, ctx_job>>
      /\ TableType /\ TableType' /\ KernelType /\ jobs \subseteq JobId
      /\ Inv /\ TableInv
  BY DEF WaitReaps, AllInv, Inv, TypeOK, TableType
<1>2. /\ \A q \in Pid : q # p => proc'[q] = proc[q]
      /\ \A q \in Pid : process_poll(proc[q]) # TASK_STATUS_WAIT =>
                           process_poll(proc'[q]) # TASK_STATUS_WAIT
      /\ \A q \in Pid : ~proc[q].stopped => ~proc'[q].stopped
  BY <1>1, ReportedProcess
<1>3. ASSUME NEW j \in jobs
      PROVE  /\ Last(j)' = Last(j) /\ Pending(j)' = Pending(j)
             /\ Status(j) # TASK_STATUS_WAIT => Status(j)' # TASK_STATUS_WAIT
             /\ Status(j) >= 0 => Status(j)' >= 0
             /\ Status(j)' \in {TASK_STATUS_WAIT, TASK_STATUS_STOPPED, 0, 129}
             /\ Status(j) \in {TASK_STATUS_WAIT, TASK_STATUS_STOPPED, 0, 129}
  <2>1. Kept(j) /\ j \in JobId
    BY <1>1 DEF Kept
  <2>2. Status(j) # TASK_STATUS_WAIT => Status(j)' # TASK_STATUS_WAIT
    BY <1>1, <1>2, <2>1, StaysEnded
  <2>3. Status(j) >= 0 => Status(j)' >= 0
    <3> SUFFICES ASSUME Status(j) >= 0 PROVE Status(j)' = Status(j)
      OBVIOUS
    <3>1. j \in Terminated
      BY DEF Terminated, Status
    <3> QED BY <1>1, <1>2, <2>1, <3>1, EndedStays
  <2>4. /\ job[j].processes \in Seq(Pid) /\ proc \in [Pid -> ProcRecord]
        /\ job'[j].processes \in Seq(Pid) /\ proc' \in [Pid -> ProcRecord]
    BY <1>1 DEF TableType, JobRecord
  <2>5. Status(j) \in {TASK_STATUS_WAIT, TASK_STATUS_STOPPED, 0, 129}
    BY <2>4, StatusKinds DEF Status
  <2>6. Status(j)' \in {TASK_STATUS_WAIT, TASK_STATUS_STOPPED, 0, 129}
    BY <2>4, StatusKinds DEF Status
  <2> QED BY <1>1, <2>2, <2>3, <2>5, <2>6 DEF Last, Pending
<1>4. StatusKept'
  BY <1>1, <1>3 DEF StatusKept, NoticeInv
<1>5. PendingInv'
  <2> SUFFICES ASSUME NEW j \in jobs, Pending(j), Status(j)' < 0 PROVE Last(j) = Status(j)'
    BY <1>1, <1>3 DEF PendingInv
  <2>1. Status(j) < 0
    <3> HIDE DEF Status
    <3> DEFINE s == Status(j)
               z == Status(j)'
    <3>1. (s >= 0 => z >= 0) /\ z \in {TASK_STATUS_WAIT, TASK_STATUS_STOPPED, 0, 129} /\ z < 0
          /\ s \in {TASK_STATUS_WAIT, TASK_STATUS_STOPPED, 0, 129}
      BY <1>3
    <3> HIDE DEF s, z
    <3>2. s < 0
      BY <3>1 DEF TASK_STATUS_WAIT, TASK_STATUS_STOPPED
    <3> QED BY <3>2 DEF s
  <2>2. Last(j) = Status(j)
    BY <2>1 DEF NoticeInv, PendingInv
  <2>3. Status(j) = TASK_STATUS_WAIT \/ Status(j) = TASK_STATUS_STOPPED
    BY <1>3, <2>1
  <2>4. Status(j)' = TASK_STATUS_WAIT \/ Status(j)' = TASK_STATUS_STOPPED
    BY <1>3
  <2>5. Status(j) = TASK_STATUS_WAIT => Status(j)' # TASK_STATUS_STOPPED
    <3> SUFFICES ASSUME Status(j) = TASK_STATUS_WAIT PROVE Status(j)' # TASK_STATUS_STOPPED
      OBVIOUS
    <3> DEFINE ps == job[j].processes
    <3>1. \A q \in Pid : Listed(q, j) => ~proc'[q].stopped
      BY <1>1, <1>2, <2>2 DEF NoticeInv, PendingTame, Awaited, Inside
    <3>2. ps \in Seq(Pid) /\ proc' \in [Pid -> ProcRecord]
      BY <1>1 DEF TableType, JobRecord
    <3>3. \A i \in DOMAIN ps : ~proc'[ps[i]].stopped
      BY <3>1, <3>2 DEF Listed
    <3>4. job_poll(ps, proc') # TASK_STATUS_STOPPED
      <4> HIDE DEF ps
      <4> QED BY <3>2, <3>3, NoneStopped
    <3> QED BY <1>1, <3>4 DEF Status
  <2> QED BY <1>3, <2>2, <2>3, <2>4, <2>5
<1>6. PendingTame'
  <2> SUFFICES ASSUME NEW q \in Pid, NEW j \in jobs, Pending(j), Last(j) = TASK_STATUS_WAIT,
                      Listed(q, j)'
               PROVE  ~proc'[q].stopped
    BY <1>1, <1>3 DEF PendingTame
  <2>1. Listed(q, j)
    BY <1>1 DEF Listed
  <2>2. ~proc[q].stopped
    BY <1>1, <2>1 DEF NoticeInv, PendingTame, Awaited, Inside
  <2> QED BY <1>2, <2>2
<1>7. ToldInv'
  <2> SUFFICES ASSUME NEW j \in jobs, ~Pending(j) PROVE told[j] = Last(j) \/ Status(j)' >= 0
    BY <1>1, <1>3 DEF ToldInv
  <2>1. told[j] = Last(j) \/ Status(j) >= 0
    BY <1>1 DEF NoticeInv, ToldInv
  <2> QED BY <1>3, <2>1
<1>8. FreshJob' /\ Cleaned' /\ ctx_job' = NoJob
  BY <1>1 DEF FreshJob, Cleaned, NoticeInv
<1> QED
  BY <1>4, <1>5, <1>6, <1>7, <1>8 DEF NoticeInv

LEMMA WaitingNotice ==
    ASSUME AllInv, NoticeInv, Inv',
           \/ WaitBlocks \/ FgBlocks
           \/ (\E w \in waits, p \in Pid : WaitReaps(w, p))
           \/ (\E j \in jobs : refresh_jobs_status(j))
    PROVE  NoticeInv'
<1>1. Inv /\ TableType /\ jobs \subseteq JobId
  BY DEF AllInv, Inv, TypeOK, TableType
<1>2. CASE WaitBlocks
  <2>1. /\ Head(procs) \in Pid /\ pc = "wait" /\ UNCHANGED <<jobs, told, pc, cur, ctx_job, procs>>
        /\ kstate[Head(procs)] \in {"zombie", "stopped"}
        /\ update_job(update_process(Head(procs)))
    BY <1>1, <1>2, HeadOfProcs DEF WaitBlocks, job_wait_report, Reportable
  <2> QED BY <2>1, ReportedNotice DEF Awaited
<1>3. CASE FgBlocks
  <2>1. PICK p \in Pid : job_get_running_process(cur, p) /\ job_wait_report(p)
    BY <1>3 DEF FgBlocks
  <2>2. /\ pc = "fg" /\ UNCHANGED <<jobs, told, pc, cur, ctx_job, procs>>
        /\ kstate[p] \in {"zombie", "stopped"} /\ update_job(update_process(p))
        /\ Listed(p, cur) /\ cur \in JobId
    BY <1>1, <1>3, <2>1 DEF FgBlocks, job_wait_report, Reportable, job_get_running_process, Listed,
       Inv, ControlInv
  <2>3. \A j \in jobs : Listed(p, j) => Awaited(p, j)
    BY <1>1, <2>2 DEF Awaited, AllInv, TableInv, ListInv, ListedOnce
  <2> QED BY <2>2, <2>3, ReportedNotice
<1>4. ASSUME NEW j \in jobs, refresh_jobs_status(j) PROVE NoticeInv'
  <2>1. pc = "refresh" /\ UNCHANGED <<jobs, told, pc, cur, ctx_job, procs>>
    BY <1>4 DEF refresh_jobs_status
  <2>2. CASE UNCHANGED <<proc, job>>
    <3>1. UNCHANGED <<jobs, told, pc, cur, ctx_job, job, proc>>
      BY <2>1, <2>2
    <3>2. Grown
      BY <3>1 DEF Grown
    <3>3. pc' = "refresh" /\ ctx_job' = NoJob /\ FreshJob'
      BY <2>1 DEF NoticeInv, FreshJob
    <3> QED BY <2>1, <3>2, <3>3, NoticeGrown DEF Inside
  <2>3. CASE \E p \in Pid : job_wait_report(p)
    <3>1. PICK p \in Pid : job_wait_report(p)
      BY <2>3
    <3>2. kstate[p] \in {"zombie", "stopped"} /\ update_job(update_process(p))
      BY <3>1 DEF job_wait_report, Reportable
    <3> QED BY <2>1, <3>2, ReportedNotice DEF Inside
  <2> QED BY <1>4, <2>2, <2>3 DEF refresh_jobs_status
<1> QED
  BY <1>2, <1>3, <1>4, ReapedNotice

\* fg and bg record the status of the job they continue; fg does not announce it.
LEMMA ContinuedNotice ==
    ASSUME AllInv, NoticeInv, Inv', NEW t \in jobs, NEW f \in BOOLEAN, NEW jb \in [JobId -> JobRecord],
           jb[t] = job[t], job[t].pgid # NoGroup, pc = "line",
           job_set_foreground(jb, t, f, TRUE, pgrp, proc),
           pc' = IF f /\ job_set_foreground_result(job[t], proc, TRUE) THEN "fg" ELSE "line",
           f => cur' = t, told'[t] = told[t]
    PROVE  /\ Last(t)' # TASK_STATUS_WAIT => Status(t)' # TASK_STATUS_WAIT
           /\ Pending(t)' /\ Status(t)' < 0 => Last(t)' = Status(t)'
           /\ \A p \in Pid : Pending(t)' /\ Last(t)' = TASK_STATUS_WAIT /\ Listed(p, t)
                 => ~proc'[p].stopped \/ Awaited(p, t)'
           /\ ~Pending(t)' => \/ told'[t] = Last(t)'
                              \/ Status(t)' >= 0
                              \/ /\ pc' = "fg" /\ t = cur'
                                 /\ Last(t)' = TASK_STATUS_WAIT /\ Status(t)' = TASK_STATUS_WAIT
<1> DEFINE r  == job[t]
           ps == job[t].processes
           s  == Status(t)'
           ok == job_set_foreground_result(r, proc, TRUE)
           conts == Continues(r, proc, TRUE)
<1>1. /\ t \in JobId /\ r \in JobRecord /\ ps \in Seq(Pid)
      /\ proc \in [Pid -> ProcRecord] /\ proc' \in [Pid -> ProcRecord]
  BY DEF AllInv, Inv, TypeOK, TableType, JobRecord
<1>2. job'[t].processes = ps
  BY <1>1, SetForegroundKeeps
<1>3. s = job_poll(ps, proc')
  BY <1>2 DEF Status
<1>4. conts /\ ok => proc' = [p \in Pid |-> IF \E i \in DOMAIN ps : ps[i] = p
                                           THEN [proc[p] EXCEPT !.stopped = FALSE] ELSE proc[p]]
  BY DEF job_set_foreground
<1>5. ~(conts /\ ok) => proc' = proc /\ s = Status(t)
  <2>1. ~(conts /\ ok) => proc' = proc
    BY DEF job_set_foreground
  <2> QED BY <1>3, <2>1 DEF Status
<1>6. conts <=> Status(t) = TASK_STATUS_STOPPED
  BY DEF Continues, Status
<1>7. conts /\ ok => \A i \in DOMAIN ps : ~proc'[ps[i]].stopped
  <2> HIDE DEF ps, conts, ok
  <2> QED BY <1>1, <1>4 DEF ProcRecord
<1>8. ok => s # TASK_STATUS_STOPPED
  <2>1. CASE conts /\ ok
    <3> HIDE DEF ps, s, conts, ok
    <3> QED BY <1>1, <1>3, <1>7, <2>1, NoneStopped
  <2>2. CASE ~conts
    BY <1>5, <1>6, <2>2
  <2> QED BY <2>1, <2>2
<1>9. s = TASK_STATUS_WAIT \/ s = TASK_STATUS_STOPPED \/ s \in {0, 129}
  <2> HIDE DEF ps, s
  <2> QED BY <1>1, <1>3, StatusKinds
<1>10. /\ Last(t) # TASK_STATUS_WAIT => Status(t) # TASK_STATUS_WAIT
       /\ Pending(t) /\ Status(t) < 0 => Last(t) = Status(t)
       /\ \A p \in Pid : Pending(t) /\ Last(t) = TASK_STATUS_WAIT /\ Listed(p, t)
                             => ~proc[p].stopped
       /\ ~Pending(t) => told[t] = Last(t) \/ Status(t) >= 0
  BY DEF NoticeInv, StatusKept, PendingInv, PendingTame, ToldInv, Inside, Awaited
<1>11. CASE ~ok
  <2>1. job'[t] = job[t] /\ pc' = "line"
    BY <1>11 DEF job_set_foreground
  <2>2. Last(t)' = Last(t) /\ Pending(t)' = Pending(t) /\ s = Status(t) /\ proc' = proc
    BY <1>5, <1>11, <2>1 DEF Last, Pending
  <2> QED BY <1>10, <2>2
<1>12. CASE ok
  <2> DEFINE inf == foreground_job' = t
  <2>1. job'[t] = job_queue_notification(r, s, inf)
    <3>1. job'[t] = job_queue_notification(r, job_poll(ps, proc'), inf)
      BY <1>1, <1>12 DEF job_set_foreground
    <3> QED BY <1>3, <3>1
  <2>2. /\ Last(t)' = s
        /\ Pending(t)' = (Pending(t) \/ (s # Last(t) /\ ~inf))
    <3>1. job'[t].last_status = s
      <4> HIDE DEF s, inf
      <4> QED BY <1>1, <2>1 DEF job_queue_notification, JobRecord
    <3>2. job'[t].pending_notification =
              (r.pending_notification \/ (s # r.last_status /\ r.pgid # NoGroup /\ ~inf))
      <4> HIDE DEF s, inf
      <4> QED BY <1>1, <2>1 DEF job_queue_notification, JobRecord
    <3> HIDE DEF s, inf
    <3> QED BY <3>1, <3>2 DEF Last, Pending
  <2>3. Pending(t)' /\ s = TASK_STATUS_WAIT /\ ~f =>
            \A p \in Pid : Listed(p, t) => ~proc'[p].stopped
    <3>1. CASE conts
      BY <1>1, <1>7, <1>12, <3>1 DEF Listed
    <3>2. CASE ~conts
      <4>1. proc' = proc /\ s = Status(t)
        BY <1>5, <3>2
      <4> SUFFICES ASSUME Pending(t)', s = TASK_STATUS_WAIT
                   PROVE  \A p \in Pid : Listed(p, t) => ~proc'[p].stopped
        OBVIOUS
      <4>2. Last(t) = TASK_STATUS_WAIT
        BY <1>10, <4>1
      <4>3. Pending(t)
        BY <2>2, <4>2
      <4> QED BY <1>10, <4>1, <4>2, <4>3
    <3> QED BY <3>1, <3>2
  <2>4. f => pc' = "fg" /\ cur' = t
    BY <1>12
  <2>5. ~f => ~inf
    <3>1. t # NoJob
      BY <1>1 DEF JobId, NoJob
    <3> QED BY <3>1 DEF job_set_foreground
  <2>6. ~f /\ ~Pending(t)' => told'[t] = Last(t)' \/ s >= 0
    <3> SUFFICES ASSUME ~f, ~Pending(t)' PROVE told'[t] = s \/ s >= 0
      BY <2>2
    <3>1. ~Pending(t) /\ s = Last(t)
      BY <2>2, <2>5
    <3>2. ASSUME Status(t) >= 0 PROVE s >= 0
      <4>1. Status(t) # TASK_STATUS_STOPPED
        BY <3>2 DEF TASK_STATUS_STOPPED
      <4>2. ~(conts /\ ok)
        BY <1>6, <4>1
      <4>3. s = Status(t)
        BY <1>5, <4>2
      <4> QED BY <3>2, <4>3
    <3> QED BY <1>10, <3>1, <3>2
  <2>7. f => s = TASK_STATUS_WAIT \/ s >= 0
    BY <1>8, <1>9, <1>12
  <2>8. f => \A p \in Pid : Awaited(p, t)'
    BY <2>4 DEF Awaited
  <2> HIDE DEF s
  <2>9. Pending(t)' /\ Status(t)' < 0 => Last(t)' = Status(t)'
    BY <2>2 DEF s
  <2>10. Last(t)' # TASK_STATUS_WAIT => Status(t)' # TASK_STATUS_WAIT
    BY <2>2 DEF s
  <2> QED BY <2>2, <2>3, <2>4, <2>6, <2>7, <2>8, <2>9, <2>10 DEF s
<1> QED
  BY <1>11, <1>12

LEMMA ForegroundNotice ==
    ASSUME AllInv, NoticeInv, Inv', NEW n \in JobId, NEW t \in JobId,
           builtin_fg(n, t) \/ builtin_bg(n, t)
    PROVE  NoticeInv'
<1>1. PICK f \in BOOLEAN : /\ job_set_foreground(JobWith(n), t, f, TRUE, pgrp, proc)
                           /\ f => builtin_fg(n, t)
                           /\ ~f => builtin_bg(n, t)
  BY DEF builtin_fg, builtin_bg
<1> DEFINE jb == JobWith(n)
           ok == job_set_foreground_result(job[t], proc, TRUE)
<1>2. /\ pc = "line" /\ ctx_job = NoJob /\ ctx_job' = NoJob /\ jb[t].pgid # NoGroup
      /\ t \in JobsWith(n) /\ jobs' = JobsWith(n) /\ told' = ToldWith(n) /\ JobOfCommand(n)
  BY DEF builtin_fg, builtin_bg, BuiltinOnJob, NoticeInv
<1>3. /\ TableType /\ HistoryType /\ jobs \subseteq JobId /\ told \in [JobId -> TaskStatus]
      /\ proc \in [Pid -> ProcRecord] /\ job \in [JobId -> JobRecord]
      /\ jb \in [JobId -> JobRecord]
  BY JobWithType DEF AllInv, Inv, TypeOK, TableType, HistoryType
<1>4. n \notin jobs
  BY <1>2 DEF JobOfCommand, IsNewId, JobId, NoJob
<1>5. jb = [job EXCEPT ![n] = NewJob] /\ told' = [told EXCEPT ![n] = TASK_STATUS_WAIT]
  BY <1>2, <1>4 DEF JobWith, ToldWith
<1>6. t \in jobs /\ t # n /\ jb[t] = job[t] /\ job[t].pgid # NoGroup
  BY <1>2, <1>3, <1>4, <1>5 DEF JobsWith, NewJob
<1>7. ASSUME NEW j \in jobs PROVE told'[j] = told[j] /\ j \in JobId /\ jb[j] = job[j]
  BY <1>3, <1>4, <1>5
<1>8. pc' = IF f /\ ok THEN "fg" ELSE "line"
  <2>1. f => pc' = IF ok THEN "fg" ELSE "line"
    <3>1. f => IF ok THEN pc' = "fg" ELSE Returned(1)
      BY <1>1, <1>6 DEF builtin_fg
    <3> HIDE DEF ok
    <3> QED BY <3>1 DEF Returned
  <2>2. ~f => pc' = "line"
    <3>1. ~f => \E s \in {0, 1} : Returned(s)
      BY <1>1 DEF builtin_bg
    <3> QED BY <3>1 DEF Returned
  <2> QED BY <2>1, <2>2
<1>9. f => cur' = t
  BY <1>1 DEF builtin_fg
<1>10. /\ Last(t)' # TASK_STATUS_WAIT => Status(t)' # TASK_STATUS_WAIT
       /\ Pending(t)' /\ Status(t)' < 0 => Last(t)' = Status(t)'
       /\ \A p \in Pid : Pending(t)' /\ Last(t)' = TASK_STATUS_WAIT /\ Listed(p, t)
             => ~proc'[p].stopped \/ Awaited(p, t)'
       /\ ~Pending(t)' => \/ told'[t] = Last(t)'
                          \/ Status(t)' >= 0
                          \/ /\ pc' = "fg" /\ t = cur'
                             /\ Last(t)' = TASK_STATUS_WAIT /\ Status(t)' = TASK_STATUS_WAIT
  <2>1. told'[t] = told[t]
    BY <1>6, <1>7
  <2>2. job_set_foreground(jb, t, f, TRUE, pgrp, proc)
    BY <1>1
  <2> HIDE DEF jb
  <2> QED BY <1>2, <1>3, <1>6, <1>8, <1>9, <2>1, <2>2, ContinuedNotice
<1>11. \A j \in JobId : j # t => job'[j] = jb[j]
  <2> HIDE DEF jb
  <2> QED BY <1>1, <1>3 DEF job_set_foreground, jb
<1>12. \A j \in JobId : job'[j].processes = jb[j].processes
  <2> HIDE DEF jb
  <2> QED BY <1>1, <1>3, SetForegroundKeeps DEF jb
<1>13. \A p \in Pid : ~Listed(p, t) => proc'[p] = proc[p]
  BY <1>1, <1>3, <1>6 DEF job_set_foreground, Listed
<1>14. ASSUME NEW j \in jobs, j # t
       PROVE  /\ Last(j)' = Last(j) /\ Pending(j)' = Pending(j) /\ Status(j)' = Status(j)
              /\ \A p \in Pid : Listed(p, j) => proc'[p] = proc[p]
  <2> DEFINE ps == job[j].processes
  <2>1. job'[j] = job[j]
    BY <1>7, <1>11, <1>14
  <2>2. \A p \in Pid : Listed(p, j) => proc'[p] = proc[p]
    BY <1>7, <1>13, <1>14 DEF AllInv, TableInv, ListInv, ListedOnce
  <2>3. ps \in Seq(Pid)
    BY <1>3, <1>7 DEF JobRecord
  <2>4. \A i \in DOMAIN ps : proc'[ps[i]] = proc[ps[i]]
    BY <2>2, <2>3 DEF Listed
  <2>5. job_poll(ps, proc') = job_poll(ps, proc)
    <3> HIDE DEF ps
    <3> QED BY <2>3, <2>4, SamePoll
  <2> QED BY <2>1, <2>2, <2>5 DEF Last, Pending, Status
<1>15. ASSUME NEW j \in jobs' \ jobs
       PROVE  /\ Last(j)' = TASK_STATUS_WAIT /\ ~Pending(j)' /\ told'[j] = TASK_STATUS_WAIT
              /\ Status(j)' = 0
  <2>1. j = n /\ job'[j] = NewJob
    BY <1>2, <1>3, <1>5, <1>6, <1>11, <1>15 DEF JobsWith
  <2> QED BY <1>3, <1>5, <2>1 DEF Last, Pending, Status, NewJob, job_poll
<1>16. StatusKept'
  BY <1>10, <1>14, <1>15 DEF StatusKept, NoticeInv
<1>17. PendingInv'
  BY <1>10, <1>14, <1>15 DEF PendingInv, NoticeInv
<1>18. PendingTame'
  <2> SUFFICES ASSUME NEW p \in Pid, NEW j \in jobs', Pending(j)', Last(j)' = TASK_STATUS_WAIT,
                      Listed(p, j)'
               PROVE  ~proc'[p].stopped \/ Awaited(p, j)'
    BY DEF PendingTame
  <2>1. j \in jobs
    BY <1>15
  <2>2. Listed(p, j)
    BY <1>7, <1>12, <2>1 DEF Listed
  <2>3. CASE j = t
    BY <1>10, <2>2, <2>3
  <2>4. CASE j # t
    <3>1. ~proc[p].stopped
      BY <1>2, <1>14, <2>1, <2>2, <2>4 DEF NoticeInv, PendingTame, Awaited, Inside
    <3> QED BY <1>14, <2>1, <2>2, <2>4, <3>1
  <2> QED BY <2>3, <2>4
<1>19. ToldInv'
  <2> SUFFICES ASSUME NEW j \in jobs', ~Pending(j)'
               PROVE  \/ told'[j] = Last(j)'
                      \/ Status(j)' >= 0
                      \/ /\ pc' = "fg" /\ j = cur' /\ Last(j)' = TASK_STATUS_WAIT
                         /\ Status(j)' = TASK_STATUS_WAIT
    BY DEF ToldInv
  <2>1. CASE j = t
    BY <1>10, <2>1
  <2>2. CASE j \notin jobs
    BY <1>15, <2>2
  <2>3. CASE j \in jobs /\ j # t
    <3>1. told[j] = Last(j) \/ Status(j) >= 0
      BY <1>2, <1>14, <2>3 DEF NoticeInv, ToldInv
    <3> QED BY <1>7, <1>14, <2>3, <3>1
  <2> QED BY <2>1, <2>2, <2>3
<1>20. FreshJob' /\ Cleaned'
  BY <1>8 DEF FreshJob, Cleaned
<1> QED
  BY <1>2, <1>16, <1>17, <1>18, <1>19, <1>20 DEF NoticeInv

\* A step that leaves the jobs, the registry and the line alone changes nothing.
LEMMA SameNotice ==
    ASSUME NoticeInv,
           UNCHANGED <<jobs, job, proc, told, pc, cur, procs, ctx_job, to_fork>>
    PROVE  NoticeInv'
<1>1. \A j : /\ Last(j)' = Last(j) /\ Pending(j)' = Pending(j) /\ Status(j)' = Status(j)
             /\ \A p : (Listed(p, j)' <=> Listed(p, j)) /\ (Awaited(p, j)' <=> Awaited(p, j))
  BY DEF Last, Pending, Status, Listed, Awaited
<1>2. StatusKept' /\ PendingInv'
  BY <1>1 DEF NoticeInv, StatusKept, PendingInv
<1>3. PendingTame'
  BY <1>1 DEF NoticeInv, PendingTame
<1>4. ToldInv' /\ Cleaned'
  BY <1>1 DEF NoticeInv, ToldInv, Cleaned
<1>5. FreshJob'
  BY <1>1 DEF NoticeInv, FreshJob
<1> QED
  BY <1>2, <1>3, <1>4, <1>5 DEF NoticeInv

LEMMA ForkNotice == ASSUME AllInv, NoticeInv, NEW p \in Pid, Fork(p) PROVE NoticeInv'
<1>1. /\ pc = "fork" /\ pc' = "forked" /\ to_fork'.how = to_fork.how
      /\ UNCHANGED <<jobs, job, proc, told, cur, ctx_job>>
  <2>1. /\ pc = "fork" /\ pc' = "forked" /\ to_fork' = [to_fork EXCEPT !.n = @ - 1]
        /\ UNCHANGED <<jobs, job, proc, told, cur, ctx_job>>
    BY DEF Fork
  <2>2. to_fork \in [how : Hows, n : Nat]
    BY DEF AllInv, Inv, TypeOK, EvalType
  <2> QED BY <2>1, <2>2
<1>2. \A j : /\ Last(j)' = Last(j) /\ Pending(j)' = Pending(j) /\ Status(j)' = Status(j)
             /\ \A q : (Listed(q, j)' <=> Listed(q, j)) /\ ~Awaited(q, j)
  BY <1>1 DEF Last, Pending, Status, Listed, Awaited
<1>3. StatusKept' /\ PendingInv'
  BY <1>1, <1>2 DEF NoticeInv, StatusKept, PendingInv
<1>4. PendingTame'
  BY <1>1, <1>2 DEF NoticeInv, PendingTame, Inside
<1>5. ToldInv' /\ Cleaned'
  BY <1>1, <1>2 DEF NoticeInv, ToldInv, Cleaned
<1>6. FreshJob'
  BY <1>1, <1>2 DEF NoticeInv, FreshJob
<1> QED
  BY <1>1, <1>3, <1>4, <1>5, <1>6 DEF NoticeInv

\* The parent's half of a fork touches no other job.
LEMMA ParentOthers ==
    ASSUME Inv, NEW p \in Pid, ParentInit(p), NEW j \in JobId, j # cur
    PROVE  job'[j] = job[j]
<1> DEFINE h  == to_fork.how
           g  == GroupOfJob(cur, p)
           jb == job_add_process(job, cur, p, g, SetpgidError(p, g))
           pg == SetpgidEffect(p, g)
           pr == [proc EXCEPT ![p] = NewProcess]
<1>1. jb[j] = job[j]
  BY DEF Inv, TypeOK, TableType, job_add_process
<1>2. h = "run_subshell" \/ h = "async" \/ h \notin {"run_subshell", "async"}
  OBVIOUS
<1>3. job' = job \/ job' = jb \/ job_set_foreground(jb, cur, TRUE, FALSE, pg, pr)
  BY <1>2 DEF ParentInit
<1>4. jb \in [JobId -> JobRecord] => DOMAIN jb = JobId
  OBVIOUS
<1>5. job_set_foreground(jb, cur, TRUE, FALSE, pg, pr) => job'[j] = jb[j]
  <2>1. DOMAIN jb = JobId
    BY DEF Inv, TypeOK, TableType, job_add_process
  <2> HIDE DEF jb, pg, pr
  <2> QED BY <2>1 DEF job_set_foreground
<1> QED
  BY <1>1, <1>3, <1>5

\* The job of the command that was forked: a new job was not announced and has no status to
\* announce, as its first process is running.
LEMMA ParentJob ==
    ASSUME AllInv, PromptInv, NoticeInv, Inv', NEW p \in Pid, ParentInit(p)
    PROVE  /\ ~Pending(cur)'
           /\ \/ Last(cur)' = TASK_STATUS_WAIT
              \/ /\ to_fork.how \in Foreground /\ Last(cur)' = Status(cur)' /\ Status(cur)' >= 0
<1> DEFINE h  == to_fork.how
           g  == GroupOfJob(cur, p)
           err == SetpgidError(p, g)
           jb == job_add_process(job, cur, p, g, err)
           pg == SetpgidEffect(p, g)
           pr == [proc EXCEPT ![p] = NewProcess]
<1>1. /\ pc = "forked" /\ cur' = cur /\ cur \in jobs /\ cur \in JobId /\ h \in Hows
      /\ job \in [JobId -> JobRecord] /\ proc \in [Pid -> ProcRecord]
      /\ ~Pending(cur) /\ (Last(cur) = TASK_STATUS_WAIT \/ h \in Foreground)
  <2>1. pc = "forked" /\ cur' = cur
    BY DEF ParentInit
  <2>2. cur \in jobs /\ cur \in JobId
    BY ParentStep DEF AllInv
  <2>3. /\ h \in Hows /\ job \in [JobId -> JobRecord] /\ proc \in [Pid -> ProcRecord]
    BY DEF AllInv, Inv, TypeOK, TableType, EvalType
  <2> QED BY <2>1, <2>2, <2>3 DEF NoticeInv, FreshJob
<1>2. /\ jb[cur].last_status = job[cur].last_status
      /\ jb[cur].pending_notification = job[cur].pending_notification
      /\ jb[cur] \in [pgid : {g}, processes : {jb[cur].processes},
                      last_status : {job[cur].last_status},
                      pending_notification : {job[cur].pending_notification}]
  BY <1>1 DEF job_add_process, JobRecord
<1>3. CASE h \notin Foreground
  <2>1. job' = job \/ job' = jb
    BY <1>1, <1>3 DEF ParentInit, Hows, Foreground
  <2>2. Last(cur)' = Last(cur) /\ Pending(cur)' = Pending(cur)
    <3> HIDE DEF jb
    <3> QED BY <1>1, <1>2, <2>1 DEF Last, Pending
  <2> QED BY <1>1, <1>3, <2>2
<1>4. CASE h \in Foreground
  <2> DEFINE s == Status(cur)'
  <2>1. job_set_foreground(jb, cur, TRUE, FALSE, pg, pr)
    BY <1>4 DEF ParentInit, Foreground
  <2>2. job' = [jb EXCEPT ![cur] =
                   job_queue_notification(jb[cur], job_poll(jb[cur].processes, pr), TRUE)]
        /\ proc' = pr
    <3> HIDE DEF jb, pg, pr
    <3> QED BY <2>1 DEF job_set_foreground, job_set_foreground_result, Continues
  <2>3. DOMAIN jb = JobId
    BY <1>1 DEF job_add_process
  <2>4. job'[cur] = job_queue_notification(jb[cur], job_poll(jb[cur].processes, pr), TRUE)
    <3> HIDE DEF jb, pr
    <3> QED BY <1>1, <2>2, <2>3
  <2>5. /\ job'[cur].processes = jb[cur].processes
        /\ job'[cur].last_status = job_poll(jb[cur].processes, pr)
        /\ job'[cur].pending_notification = job[cur].pending_notification
    <3> DEFINE st == job_poll(jb[cur].processes, pr)
    <3>1. job'[cur] = job_queue_notification(jb[cur], st, TRUE)
      BY <2>4
    <3>2. job[cur].pending_notification \in BOOLEAN
      BY <1>1 DEF JobRecord
    <3> HIDE DEF jb, st
    <3>3. job'[cur].processes = jb[cur].processes /\ job'[cur].last_status = st
      BY <1>2, <3>1 DEF job_queue_notification
    <3>4. job'[cur].pending_notification = job[cur].pending_notification
      BY <1>2, <3>1, <3>2 DEF job_queue_notification
    <3> QED BY <3>3, <3>4 DEF st
  <2>6. Last(cur)' = s /\ Pending(cur)' = Pending(cur)
    <3>1. s = job_poll(jb[cur].processes, pr)
      BY <1>1, <2>2, <2>5 DEF Status
    <3>2. Last(cur)' = job'[cur].last_status /\ Pending(cur)' = job'[cur].pending_notification
      BY <1>1 DEF Last, Pending
    <3> HIDE DEF s, jb, pr
    <3> QED BY <2>5, <3>1, <3>2 DEF Pending
  <2>7. \A q \in Pid : Listed(q, cur)' => ~proc'[q].stopped
    <3> SUFFICES ASSUME NEW q \in Pid, Listed(q, cur)' PROVE ~proc'[q].stopped
      OBVIOUS
    <3>1. CASE q = p
      BY <1>1, <2>2, <3>1 DEF NewProcess
    <3>2. CASE q # p
      <4> DEFINE ps == job[cur].processes
                 m  == Len(ps)
      <4>1. ps \in Seq(Pid) /\ m \in Nat /\ DOMAIN ps = 1 .. m
        BY <1>1 DEF JobRecord
      <4>2. job'[cur].processes = ps \/ job'[cur].processes = Append(ps, p)
        <5>1. jb[cur].processes = ps \/ jb[cur].processes = Append(ps, p)
          BY <1>1 DEF job_add_process, JobRecord
        <5> HIDE DEF jb, ps
        <5> QED BY <2>5, <5>1
      <4>3. PICK i \in DOMAIN job'[cur].processes : job'[cur].processes[i] = q
        BY <1>1 DEF Listed
      <4>4. CASE job'[cur].processes = ps
        <5>1. Listed(q, cur)
          BY <4>3, <4>4 DEF Listed
        <5> QED BY <1>1, <2>2, <3>2, <5>1 DEF PromptInv, TameInv, Inside, Current, Awaited, Tame
      <4>5. CASE job'[cur].processes = Append(ps, p)
        <5>1. i \in 1 .. m + 1 /\ Append(ps, p)[i] = q
          <6>1. DOMAIN Append(ps, p) = 1 .. m + 1
            <7> HIDE DEF ps
            <7> QED BY <4>1 DEF m
          <6> QED BY <4>3, <4>5, <6>1
        <5>2. i = m + 1 \/ i \in 1 .. m
          <6> HIDE DEF ps, m
          <6> QED BY <4>1, <5>1
        <5>3. (i = m + 1 => q = p) /\ (i \in 1 .. m => ps[i] = q)
          <6> HIDE DEF ps
          <6> QED BY <4>1, <5>1 DEF m
        <5>4. Listed(q, cur)
          BY <3>2, <4>1, <5>2, <5>3 DEF Listed
        <5> QED BY <1>1, <2>2, <3>2, <5>4 DEF PromptInv, TameInv, Inside, Current, Awaited, Tame
      <4> QED BY <4>2, <4>4, <4>5
    <3> QED BY <3>1, <3>2
  <2>8. s = TASK_STATUS_WAIT \/ s >= 0
    <3> DEFINE qs == job'[cur].processes
    <3>1. qs \in Seq(Pid) /\ proc' \in [Pid -> ProcRecord]
      BY <1>1 DEF Inv, TypeOK, TableType, JobRecord
    <3>2. \A i \in DOMAIN qs : ~proc'[qs[i]].stopped
      BY <1>1, <2>7, <3>1 DEF Listed
    <3>3. s = job_poll(qs, proc')
      BY <1>1 DEF Status
    <3> HIDE DEF qs, s
    <3>4. /\ s # TASK_STATUS_STOPPED
          /\ s = TASK_STATUS_WAIT \/ s = TASK_STATUS_STOPPED \/ s \in {0, 129}
      BY <3>1, <3>2, <3>3, NoneStopped, StatusKinds
    <3> QED BY <3>4
  <2> HIDE DEF s
  <2> QED BY <1>1, <1>4, <2>6, <2>8 DEF s
<1> QED
  BY <1>3, <1>4

LEMMA ParentNotice ==
    ASSUME AllInv, PromptInv, NoticeInv, Inv', NEW p \in Pid, ParentInit(p) PROVE NoticeInv'
<1>1. /\ pc = "forked" /\ UNCHANGED <<jobs, told, cur, ctx_job, to_fork>>
      /\ to_fork.how = "async" \/ pc' = (IF to_fork.n > 0 THEN "fork" ELSE "wait")
      /\ to_fork.how = "async" => Returned(0)
  BY DEF ParentInit
<1>2. /\ cur \in jobs /\ cur \in JobId /\ Newest = p /\ jobs \subseteq JobId
      /\ proc' = [proc EXCEPT ![p] = NewProcess] /\ proc \in [Pid -> ProcRecord]
      /\ job \in [JobId -> JobRecord]
  BY ParentStep, ParentTerminal DEF AllInv, Inv, TypeOK, TableType
<1>3. ~Pending(cur) /\ told[cur] = TASK_STATUS_WAIT
  BY <1>1 DEF NoticeInv, FreshJob
<1>4. ASSUME NEW j, j = cur
      PROVE  /\ ~Pending(j)'
             /\ \/ Last(j)' = TASK_STATUS_WAIT
                \/ /\ to_fork.how \in Foreground /\ Last(j)' = Status(j)' /\ Status(j)' >= 0
  <2>1. /\ ~Pending(cur)'
        /\ \/ Last(cur)' = TASK_STATUS_WAIT
           \/ to_fork.how \in Foreground /\ Last(cur)' = Status(cur)' /\ Status(cur)' >= 0
    BY ParentJob
  <2>2. j = cur'
    BY <1>1, <1>4
  <2>3. Pending(cur)' = Pending(j)' /\ Last(cur)' = Last(j)' /\ Status(cur)' = Status(j)'
    BY <2>2 DEF Pending, Last, Status
  <2> QED BY <2>1, <2>3
<1>5. ASSUME NEW j \in jobs, j # cur
      PROVE  /\ Last(j)' = Last(j) /\ Pending(j)' = Pending(j) /\ Status(j)' = Status(j)
             /\ \A q \in Pid : Listed(q, j)' => Listed(q, j) /\ proc'[q] = proc[q]
  <2> DEFINE ps == job[j].processes
  <2>1. j \in JobId /\ job'[j] = job[j]
    BY <1>2, <1>5, ParentOthers DEF AllInv
  <2>2. ps \in Seq(Pid) /\ \A q \in Pid : Listed(q, j) => q # p
    BY <1>1, <1>2, <2>1 DEF JobRecord, AllInv, TableInv, ListInv, FreshUnlisted
  <2>3. \A q \in Pid : Listed(q, j) => proc'[q] = proc[q]
    BY <1>2, <2>2
  <2>4. \A i \in DOMAIN ps : proc'[ps[i]] = proc[ps[i]]
    BY <2>2, <2>3 DEF Listed
  <2>5. job_poll(ps, proc') = job_poll(ps, proc)
    <3> HIDE DEF ps
    <3> QED BY <2>2, <2>4, SamePoll
  <2>6. \A q \in Pid : Listed(q, j)' => Listed(q, j)
    BY <2>1 DEF Listed
  <2> QED BY <2>1, <2>3, <2>5, <2>6 DEF Last, Pending, Status
<1>6. StatusKept'
  <2> SUFFICES ASSUME NEW j \in jobs, Last(j)' # TASK_STATUS_WAIT
               PROVE  Status(j)' # TASK_STATUS_WAIT
    BY <1>1 DEF StatusKept
  <2>1. CASE j = cur
    BY <1>4, <2>1
  <2>2. CASE j # cur
    BY <1>5, <2>2 DEF NoticeInv, StatusKept
  <2> QED BY <2>1, <2>2
<1>7. PendingInv'
  <2> SUFFICES ASSUME NEW j \in jobs, Pending(j)', Status(j)' < 0
               PROVE  Last(j)' = Status(j)'
    BY <1>1 DEF PendingInv
  <2>1. j # cur
    BY <1>4
  <2> QED BY <1>5, <2>1 DEF NoticeInv, PendingInv
<1>8. PendingTame'
  <2> SUFFICES ASSUME NEW q \in Pid, NEW j \in jobs, Pending(j)', Last(j)' = TASK_STATUS_WAIT,
                      Listed(q, j)'
               PROVE  ~proc'[q].stopped
    BY <1>1 DEF PendingTame
  <2>1. j # cur
    BY <1>4
  <2>2. ~proc[q].stopped
    BY <1>1, <1>5, <2>1 DEF NoticeInv, PendingTame, Inside, Awaited
  <2> QED BY <1>5, <2>1, <2>2
<1>9. ToldInv'
  <2> SUFFICES ASSUME NEW j \in jobs, ~Pending(j)' PROVE told[j] = Last(j)' \/ Status(j)' >= 0
    BY <1>1 DEF ToldInv
  <2>1. CASE j = cur
    BY <1>3, <1>4, <2>1
  <2>2. CASE j # cur
    BY <1>1, <1>5, <2>2 DEF NoticeInv, ToldInv
  <2> QED BY <2>1, <2>2
<1>10. FreshJob'
  <2> SUFFICES ASSUME pc' \in {"fork", "forked"}
               PROVE  to_fork.how \in Foreground
    <3>1. ~Pending(cur)'
      BY <1>1, <1>4 DEF Pending
    <3> QED BY <1>1, <1>3, <3>1 DEF FreshJob
  <2>1. to_fork.n > 0
    <3>1. Returned(0) => pc' = "line"
      BY DEF Returned
    <3> QED BY <1>1, <3>1
  <2> QED BY <1>1, <2>1 DEF AllInv, TermInv, PipelineInv, Foreground
<1>11. Cleaned' /\ ctx_job' = NoJob
  BY <1>1 DEF NoticeInv, Cleaned, Returned
<1> QED
  BY <1>6, <1>7, <1>8, <1>9, <1>10, <1>11 DEF NoticeInv

\* mrsh_destroy_terminated_jobs tells the user what is pending; what is left is not terminated.
LEMMA DestroyNotice ==
    ASSUME AllInv, NoticeInv, Plain, mrsh_destroy_terminated_jobs \/ mrsh_state_destroy
    PROVE  NoticeInv'
<1>1. /\ ctx_job' = NoJob /\ TableType /\ proc' = proc /\ pc' \in {"prompt", "exit", "done"}
  BY DEF mrsh_destroy_terminated_jobs, mrsh_state_destroy, job_destroy, AllInv, Inv, TypeOK
<1>2. FreshJob' /\ PendingTame'
  BY <1>1 DEF FreshJob, PendingTame, Inside
<1>3. CASE mrsh_state_destroy
  <2>1. jobs' = {} /\ pc' = "done"
    BY <1>3 DEF mrsh_state_destroy, job_destroy
  <2> QED BY <1>1, <1>2, <2>1 DEF NoticeInv, StatusKept, PendingInv, ToldInv, Cleaned
<1>4. CASE mrsh_destroy_terminated_jobs
  <2>1. /\ pc = "destroy" /\ jobs' = jobs \ Terminated
        /\ told' = [j \in JobId |->
               IF j \in jobs /\ Notify /\ job[j].pending_notification
               THEN job_poll(job[j].processes, proc) ELSE told[j]]
        /\ job' = [j \in JobId |->
               IF j \in Terminated THEN NewJob
               ELSE [job[j] EXCEPT !.pending_notification = @ /\ ~Notify]]
    BY <1>4 DEF mrsh_destroy_terminated_jobs, job_destroy
  <2>2. ASSUME NEW j \in jobs'
        PROVE  /\ j \in jobs /\ Last(j)' = Last(j) /\ ~Pending(j)'
               /\ Status(j)' = Status(j) /\ Status(j) < 0
               /\ told'[j] = IF Pending(j) THEN Status(j) ELSE told[j]
    <3>1. j \in jobs /\ j \notin Terminated /\ j \in JobId /\ job[j] \in JobRecord
      BY <1>1, <2>1 DEF TableType
    <3>2. job'[j] = [job[j] EXCEPT !.pending_notification = FALSE]
      <4>1. job'[j] = [job[j] EXCEPT !.pending_notification = @ /\ ~Notify]
        BY <2>1, <3>1
      <4>2. (job[j].pending_notification /\ ~Notify) = FALSE
        BY DEF Plain
      <4> QED BY <4>1, <4>2
    <3>3. /\ job'[j].processes = job[j].processes /\ job'[j].last_status = job[j].last_status
          /\ ~job'[j].pending_notification
      BY <3>1, <3>2 DEF JobRecord
    <3>4. Status(j) < 0
      <4>1. ~(Status(j) >= 0)
        BY <3>1 DEF Terminated, Status
      <4>2. job[j].processes \in Seq(Pid) /\ proc \in [Pid -> ProcRecord]
        BY <1>1, <3>1 DEF TableType, JobRecord
      <4>3. \/ Status(j) = TASK_STATUS_WAIT \/ Status(j) = TASK_STATUS_STOPPED
            \/ Status(j) \in {0, 129}
        BY <4>2, StatusKinds DEF Status
      <4> QED BY <4>1, <4>3 DEF TASK_STATUS_WAIT, TASK_STATUS_STOPPED
    <3>5. told'[j] = IF Pending(j) THEN Status(j) ELSE told[j]
      BY <2>1, <3>1 DEF Plain, Pending, Status
    <3>6. Status(j)' = Status(j)
      BY <1>1, <3>3 DEF Status
    <3> QED BY <3>1, <3>3, <3>4, <3>5, <3>6 DEF Last, Pending
  <2>3. StatusKept' /\ PendingInv' /\ Cleaned'
    BY <2>2 DEF NoticeInv, StatusKept, PendingInv, Cleaned
  <2>4. ToldInv'
    <3> SUFFICES ASSUME NEW j \in jobs' PROVE told'[j] = Last(j)'
      BY DEF ToldInv
    <3>1. CASE Pending(j)
      BY <2>2, <3>1 DEF NoticeInv, PendingInv
    <3>2. CASE ~Pending(j)
      <4>1. ~(Status(j) >= 0)
        <5> DEFINE s == Status(j)
        <5>1. s < 0 /\ s \in {TASK_STATUS_WAIT, TASK_STATUS_STOPPED, 0, 129}
          <6>1. job[j].processes \in Seq(Pid) /\ proc \in [Pid -> ProcRecord]
            BY <1>1, <2>2 DEF TableType, JobRecord
          <6> QED BY <2>2, <6>1, StatusKinds DEF Status
        <5> HIDE DEF s
        <5>2. ~(s >= 0)
          BY <5>1 DEF TASK_STATUS_WAIT, TASK_STATUS_STOPPED
        <5> QED BY <5>2 DEF s
      <4> QED BY <2>1, <2>2, <3>2, <4>1 DEF NoticeInv, ToldInv
    <3> QED BY <3>1, <3>2
  <2> QED BY <1>1, <1>2, <2>3, <2>4 DEF NoticeInv
<1> QED
  BY <1>3, <1>4

LEMMA NoticeInit == Init => NoticeInv
  BY DEF Init, NoticeInv, StatusKept, PendingInv, PendingTame, ToldInv, FreshJob, Cleaned, Inside

LEMMA NoticeNext ==
    ASSUME Plain, AllInv, AllInv', PromptInv, NoticeInv, [Next]_vars PROVE NoticeInv'
<1>1. Inv'
  BY DEF AllInv
<1>2. CASE UserStep
  BY <1>1, <1>2, QuietNotice DEF UserStep
<1>3. CASE ShellStep
  <2>1. CASE EndLine \/ RunNothing \/ RunCommand \/ ForkFails \/ WaitReturns \/ FgReturns
    BY <1>1, <2>1, QuietNotice
  <2>2. CASE AssertFails \/ builtin_wait \/ BuiltinWaitReturns \/ builtin_exit \/ RefreshReturns
    BY <1>1, <2>2, QuietNotice
  <2>3. CASE \E w \in waits : WaitEchild(w) \/ \E p \in Pid : WaitReaps(w, p)
    BY <1>1, <2>3, QuietNotice, WaitingNotice
  <2>4. CASE WaitBlocks \/ FgBlocks \/ \E j \in jobs : refresh_jobs_status(j)
    BY <1>1, <2>4, WaitingNotice
  <2>5. CASE \E n, t \in JobId : builtin_fg(n, t) \/ builtin_bg(n, t)
    BY <1>1, <2>5, ForegroundNotice
  <2>6. CASE \E p \in Pid : Fork(p) \/ ParentInit(p)
    BY <1>1, <2>6, ForkNotice, ParentNotice
  <2>7. CASE mrsh_destroy_terminated_jobs \/ mrsh_state_destroy
    BY <2>7, DestroyNotice
  <2> QED
    BY <1>3, <2>1, <2>2, <2>3, <2>4, <2>5, <2>6, <2>7 DEF ShellStep
<1>4. CASE \E p \in Pid : ChildStep(p)
  <2>1. PICK p \in Pid : ChildStep(p)
    BY <1>4
  <2>2. UNCHANGED <<tableVars, evalVars, told>>
    BY <2>1 DEF ChildStep, ChildInit, Execv, Terminate, Stop, Continue
  <2> QED BY <2>2, SameNotice
<1>5. CASE Halted \/ UNCHANGED vars
  BY <1>5, SameNotice DEF Halted, vars
<1> QED
  BY <1>2, <1>3, <1>4, <1>5 DEF Next

LEMMA NoticeInvariance == Spec => [](Plain => AllInv /\ NoticeInv)
<1> DEFINE PlainInv == Plain => NoticeInv
<1>1. Init => PlainInv
  BY NoticeInit
<1>2. AllInv /\ AllInv' /\ PromptInv /\ PlainInv /\ [Next]_vars => PlainInv'
  BY NoticeNext DEF Plain
<1>3. AllInv /\ PlainInv => (Plain => AllInv /\ NoticeInv)
  OBVIOUS
<1> QED
  BY <1>1, <1>2, <1>3, PromptInvariance, PTL DEF Spec

\* With -b, when the shell prompts after lines without compound commands, the user has been
\* told what the shell last recorded of every job: what update_job, job_set_foreground and
\* refresh_jobs_status record is pending until mrsh_destroy_terminated_jobs tells it, and what
\* it tells then is still so.
THEOREM NotifiedWhenPrompting == Spec => [](TRUE \notin Compounds => NotifiedAtPrompt)
<1>1. (Plain => AllInv /\ NoticeInv) => (TRUE \notin Compounds => NotifiedAtPrompt)
  <2> SUFFICES ASSUME Plain, AllInv, NoticeInv, pc = "prompt", NEW j \in jobs
               PROVE  told[j] = job[j].last_status
    BY DEF Plain, NotifiedAtPrompt
  <2>1. ~Pending(j) /\ Status(j) < 0
    BY DEF NoticeInv, Cleaned
  <2>2. ~(Status(j) >= 0)
    <3> DEFINE s == Status(j)
    <3>1. s \in {TASK_STATUS_WAIT, TASK_STATUS_STOPPED, 0, 129}
      <4>1. job[j].processes \in Seq(Pid) /\ proc \in [Pid -> ProcRecord]
        BY DEF AllInv, Inv, TypeOK, TableType, JobRecord
      <4> QED BY <4>1, StatusKinds DEF Status
    <3>2. s < 0
      BY <2>1
    <3> HIDE DEF s
    <3>3. ~(s >= 0)
      BY <3>1, <3>2 DEF TASK_STATUS_WAIT, TASK_STATUS_STOPPED
    <3> QED BY <3>3 DEF s
  <2> QED BY <2>1, <2>2 DEF NoticeInv, ToldInv, Last
<1> QED
  BY <1>1, NoticeInvariance, PTL

==============================================================================
