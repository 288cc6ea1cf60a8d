-------------------------- MODULE JobControl_proofs --------------------------
(***************************************************************************)
(* Proofs about JobControl, for every set of pids and every bound.         *)
(***************************************************************************)
EXTENDS JobControl, SequenceTheorems, TLAPS

\* What the evaluation of a line relies on: the job of the command being run is in
\* the table, and there is a process to initialise or to wait for.
ControlInv ==
    /\ pc \in {"fork", "forked", "wait", "fg"} => cur \in jobs
    /\ pc \in {"forked", "wait"} => procs # <<>>
    /\ pc = "fork" => to_fork.n > 0

-----------------------------------------------------------------------------
(* The status functions *)

LEMMA ProcessPollType ==
    ASSUME NEW r \in ProcRecord
    PROVE  process_poll(r) \in TaskStatus
  BY DEF ProcRecord, process_poll, TaskStatus, TASK_STATUS_WAIT, TASK_STATUS_STOPPED

\* The status of a job is a task status.
LEMMA JobPollType ==
    ASSUME NEW ps \in Seq(Pid), NEW pr \in [Pid -> ProcRecord]
    PROVE  job_poll(ps, pr) \in TaskStatus
<1>1. ps # <<>> => pr[ps[Len(ps)]] \in ProcRecord
  OBVIOUS
<1>2. ps # <<>> => process_poll(pr[ps[Len(ps)]]) \in TaskStatus
  BY <1>1, ProcessPollType
<1> QED
  BY <1>2 DEF job_poll, TaskStatus, TASK_STATUS_WAIT, TASK_STATUS_STOPPED

LEMMA QueueType ==
    ASSUME NEW r \in JobRecord, NEW s \in TaskStatus, NEW b \in BOOLEAN
    PROVE  job_queue_notification(r, s, b) \in JobRecord
  BY DEF job_queue_notification, JobRecord

LEMMA NewJobType == NewJob \in JobRecord
  BY DEF NewJob, JobRecord, TaskStatus, TASK_STATUS_WAIT

LEMMA UpdateProcessType ==
    ASSUME KernelType, TableType, NEW p \in Pid
    PROVE  update_process(p) \in [Pid -> ProcRecord]
<1>1. proc \in [Pid -> ProcRecord] /\ code[p] \in {0, 129}
  BY DEF KernelType, TableType
<1> DEFINE r == proc[p]
           c == code[p]
<1>2. r \in ProcRecord /\ c \in {0, 129}
  BY <1>1
<1>3. Reported(r, p) \in ProcRecord
  <2> HIDE DEF r
  <2>1. [r EXCEPT !.terminated = TRUE, !.stat = c] \in ProcRecord
    <3> HIDE DEF c
    <3> QED BY <1>2 DEF ProcRecord
  <2>2. [r EXCEPT !.stopped = TRUE] \in ProcRecord
    BY <1>2 DEF ProcRecord
  <2> QED BY <2>1, <2>2 DEF Reported
<1> QED
  BY <1>1, <1>3 DEF update_process

LEMMA JobWithType ==
    ASSUME TableType, HistoryType, NEW n \in JobId
    PROVE  /\ JobsWith(n) \subseteq JobId
           /\ JobWith(n) \in [JobId -> JobRecord]
           /\ ToldWith(n) \in [JobId -> TaskStatus]
<1>1. /\ jobs \subseteq JobId
      /\ job \in [JobId -> JobRecord]
      /\ told \in [JobId -> TaskStatus]
  BY DEF TableType, HistoryType
<1>2. TASK_STATUS_WAIT \in TaskStatus
  BY DEF TaskStatus, TASK_STATUS_WAIT
<1> QED
  BY <1>1, <1>2, NewJobType DEF JobsWith, JobWith, ToldWith

\* update_job keeps the types of what it assigns.
LEMMA UpdateJobType ==
    ASSUME KernelType, TableType, NEW np \in [Pid -> ProcRecord], update_job(np)
    PROVE  /\ proc' \in [Pid -> ProcRecord]
           /\ job' \in [JobId -> JobRecord]
           /\ foreground_job' \in JobId \cup {NoJob}
           /\ term' \in Pid \cup {Shell}
<1>1. ASSUME NEW j \in JobId PROVE job'[j] \in JobRecord
  <2> DEFINE s == job_poll(job[j].processes, np)
  <2>1. job[j] \in JobRecord /\ job[j].processes \in Seq(Pid)
    BY DEF TableType, JobRecord
  <2>2. s \in TaskStatus
    BY <2>1, JobPollType
  <2>3. job_queue_notification(job[j], s, foreground_job = j /\ s >= 0) \in JobRecord
    BY <2>1, <2>2, QueueType
  <2> QED
    BY <2>1, <2>3 DEF update_job
<1>2. job' \in [JobId -> JobRecord]
  BY <1>1 DEF update_job
<1>3. foreground_job \in JobId \cup {NoJob} /\ term \in Pid \cup {Shell}
  BY DEF TableType, KernelType
<1> QED
  BY <1>2, <1>3 DEF update_job

LEMMA StatusType ==
    /\ TASK_STATUS_WAIT \in TaskStatus
    /\ TASK_STATUS_ERROR \in TaskStatus
    /\ TASK_STATUS_STOPPED \in TaskStatus
    /\ TASK_STATUS_INTERRUPTED \in TaskStatus
    /\ 0 \in TaskStatus /\ 1 \in TaskStatus /\ -1 \in TaskStatus
  BY DEF TaskStatus, TASK_STATUS_WAIT, TASK_STATUS_ERROR, TASK_STATUS_STOPPED,
         TASK_STATUS_INTERRUPTED

LEMMA ReturnedType ==
    ASSUME NEW r \in TaskStatus, Returned(r)
    PROVE  ret' \in TaskStatus /\ pc' \in {"line", "refresh"}
  BY DEF Returned

LEMMA ClearStoppedType ==
    ASSUME NEW r \in ProcRecord
    PROVE  /\ [r EXCEPT !.stopped = FALSE] \in ProcRecord
           /\ [r EXCEPT !.stopped = FALSE].terminated = r.terminated
           /\ [r EXCEPT !.stopped = FALSE].stat = r.stat
  BY DEF ProcRecord

\* job_set_foreground keeps the types, and touches neither what was recorded of a
\* termination nor which processes were reaped.
LEMMA SetForegroundType ==
    ASSUME KernelType, TableType,
           NEW jb \in [JobId -> JobRecord], NEW t \in JobId, jb[t].pgid # NoGroup,
           NEW f \in BOOLEAN, NEW c \in BOOLEAN, NEW pg, NEW pr \in [Pid -> ProcRecord],
           job_set_foreground(jb, t, f, c, pg, pr)
    PROVE  /\ kstate' \in [Pid -> {"none", "forked", "run", "stopped", "zombie", "reaped"}]
           /\ fresh_stop' \in [Pid -> BOOLEAN]
           /\ term' \in Pid \cup {Shell}
           /\ proc' \in [Pid -> ProcRecord]
           /\ job' \in [JobId -> JobRecord]
           /\ foreground_job' \in JobId \cup {NoJob}
           /\ \A q \in Pid : /\ proc'[q].terminated = pr[q].terminated
                             /\ proc'[q].stat = pr[q].stat
                             /\ kstate'[q] = "reaped" <=> kstate[q] = "reaped"
<1> DEFINE r == jb[t]
           conts == Continues(r, pr, c)
           ok == job_set_foreground_result(r, pr, c)
           cleared == [q \in Pid |-> IF \E i \in DOMAIN r.processes : r.processes[i] = q
                                     THEN [pr[q] EXCEPT !.stopped = FALSE] ELSE pr[q]]
           np == IF conts /\ ok THEN cleared ELSE pr
           fg == IF f THEN t ELSE IF foreground_job = t THEN NoJob ELSE foreground_job
<1>1. r \in JobRecord /\ r.pgid \in Pid /\ r.processes \in Seq(Pid)
  BY DEF JobRecord
<1>2. /\ foreground_job' = fg
      /\ term' = IF fg = foreground_job THEN term ELSE Tcsetpgrp(IF f THEN r.pgid ELSE Shell, pg)
      /\ kstate' = IF conts THEN SigcontState(r.pgid) ELSE kstate
      /\ fresh_stop' = IF conts THEN SigcontFreshStop(r.pgid) ELSE fresh_stop
      /\ proc' = np
      /\ job' = IF ok THEN [jb EXCEPT ![t] =
                               job_queue_notification(r, job_poll(r.processes, np), fg = t)]
                ELSE jb
  BY DEF job_set_foreground
<1>3. /\ kstate' \in [Pid -> {"none", "forked", "run", "stopped", "zombie", "reaped"}]
      /\ \A q \in Pid : kstate'[q] = "reaped" <=> kstate[q] = "reaped"
  BY <1>2 DEF KernelType, SigcontState
<1>4. fresh_stop' \in [Pid -> BOOLEAN]
  BY <1>2 DEF KernelType, SigcontFreshStop
<1>5. term' \in Pid \cup {Shell}
  BY <1>1, <1>2 DEF KernelType, Tcsetpgrp
<1>6. /\ np \in [Pid -> ProcRecord]
      /\ \A q \in Pid : np[q].terminated = pr[q].terminated /\ np[q].stat = pr[q].stat
  <2>1. /\ cleared \in [Pid -> ProcRecord]
        /\ \A q \in Pid : cleared[q].terminated = pr[q].terminated /\ cleared[q].stat = pr[q].stat
    BY ClearStoppedType
  <2> QED BY <2>1
<1>7. job_poll(r.processes, np) \in TaskStatus
  <2> HIDE DEF np
  <2> QED BY <1>1, <1>6, JobPollType
<1>8. job' \in [JobId -> JobRecord]
  <2> DEFINE q == job_queue_notification(r, job_poll(r.processes, np), fg = t)
  <2>1. q \in JobRecord
    <3> HIDE DEF np, fg
    <3> QED BY <1>1, <1>7, QueueType
  <2>2. job' = IF ok THEN [jb EXCEPT ![t] = q] ELSE jb
    BY <1>2
  <2> HIDE DEF q, ok
  <2> QED BY <2>1, <2>2
<1>9. foreground_job' \in JobId \cup {NoJob}
  BY <1>2 DEF TableType
<1> HIDE DEF np
<1> QED
  BY <1>2, <1>3, <1>4, <1>5, <1>6, <1>8, <1>9

-----------------------------------------------------------------------------
(* The inductive invariant *)

\* The process between fork and init_child was not reaped.
ForkedInv == pc = "forked" => Unreaped(procs[Len(procs)])

Inv == TypeOK /\ ControlInv /\ ReapedIsRecorded /\ ForkedInv

USE DEF kernelVars, forkVars, tableVars, evalVars

\* A zombie that is reaped gets its status recorded; a stop leaves terminations alone.
LEMMA ReapStep ==
    ASSUME KernelType, TableType, ReapedIsRecorded, NEW p \in Pid,
           kstate[p] \in {"zombie", "stopped"}, Waitpid(p), proc' = update_process(p),
           UNCHANGED <<code, processes>>
    PROVE  ReapedIsRecorded'
<1>1. /\ proc \in [Pid -> ProcRecord] /\ kstate \in [Pid -> {"none", "forked", "run", "stopped", "zombie", "reaped"}]
      /\ processes \subseteq Pid
  BY DEF KernelType, TableType
<1> SUFFICES ASSUME NEW q \in processes
             PROVE  /\ proc'[q].terminated <=> kstate'[q] = "reaped"
                    /\ proc'[q].terminated => proc'[q].stat = code[q]
  BY DEF ReapedIsRecorded
<1>2. proc[q].terminated <=> kstate[q] = "reaped"
  BY DEF ReapedIsRecorded
<1>3. proc[q].terminated => proc[q].stat = code[q]
  BY DEF ReapedIsRecorded
<1>4. CASE q # p
  <2>1. proc'[q] = proc[q] /\ kstate'[q] = kstate[q]
    BY <1>1, <1>4 DEF update_process, Waitpid
  <2> QED BY <2>1, <1>2, <1>3
<1>5. CASE q = p
  <2>1. proc'[p] = Reported(proc[p], p)
    BY <1>1, <1>5 DEF update_process
  <2>2. proc[p] \in ProcRecord
    BY <1>1
  <2>3. CASE kstate[p] = "zombie"
    <3>1. kstate'[p] = "reaped"
      BY <1>1, <2>3 DEF Waitpid
    <3>2. Reported(proc[p], p).terminated = TRUE /\ Reported(proc[p], p).stat = code[p]
      BY <2>2, <2>3 DEF Reported, ProcRecord
    <3> QED BY <3>1, <3>2, <2>1, <1>5
  <2>4. CASE kstate[p] = "stopped"
    <3>1. kstate'[p] = kstate[p]
      BY <2>4 DEF Waitpid
    <3>2. /\ Reported(proc[p], p).terminated = proc[p].terminated
          /\ Reported(proc[p], p).stat = proc[p].stat
      BY <2>2, <2>4 DEF Reported, ProcRecord
    <3> QED BY <3>1, <3>2, <2>1, <1>2, <1>3, <1>5
  <2> QED BY <2>3, <2>4
<1> QED
  BY <1>4, <1>5

\* What waitpid reports is recorded: _job_wait and refresh_jobs_status.
LEMMA JobWaitReport ==
    ASSUME KernelType, TableType, ReapedIsRecorded, NEW p \in Pid, job_wait_report(p),
           UNCHANGED <<pgrp, execed, code, stops, processes, jobs>>
    PROVE  KernelType' /\ TableType' /\ ReapedIsRecorded'
<1>1. update_process(p) \in [Pid -> ProcRecord]
  BY UpdateProcessType
<1>2. /\ proc' \in [Pid -> ProcRecord] /\ job' \in [JobId -> JobRecord]
      /\ foreground_job' \in JobId \cup {NoJob} /\ term' \in Pid \cup {Shell}
  BY <1>1, UpdateJobType DEF job_wait_report
<1>3. KernelType'
  BY <1>2 DEF KernelType, job_wait_report, Waitpid
<1>4. TableType'
  BY <1>2 DEF TableType
<1>5. proc' = update_process(p)
  BY DEF job_wait_report, update_job
<1>6. ReapedIsRecorded'
  BY <1>5, ReapStep DEF job_wait_report, Reportable
<1> QED
  BY <1>3, <1>4, <1>6

LEMMA ReadLineInv == ASSUME Inv, ReadLine PROVE Inv'
<1>1. left' \in Nat
  BY ConstantsAssumption DEF ReadLine
<1>2. /\ ctx_job' \in JobId \cup {NoJob}
      /\ jobs' \subseteq JobId /\ job' \in [JobId -> JobRecord] /\ told' \in [JobId -> TaskStatus]
  BY JobWithType DEF Inv, TypeOK, TableType, HistoryType, ReadLine
<1>3. KernelType' /\ ForkType'
  BY DEF Inv, TypeOK, KernelType, ForkType, ReadLine
<1>4. TableType' /\ HistoryType'
  BY <1>2 DEF Inv, TypeOK, TableType, HistoryType, ReadLine
<1>5. EvalType'
  BY <1>1, <1>2, StatusType DEF Inv, TypeOK, EvalType, ReadLine, PcValues
<1>6. ControlInv' /\ ForkedInv' /\ ReapedIsRecorded'
  BY DEF Inv, ControlInv, ForkedInv, ReapedIsRecorded, ReadLine
<1> QED
  BY <1>3, <1>4, <1>5, <1>6 DEF Inv, TypeOK

\* The steps that only move pc to a place that needs nothing.
LEMMA PcOnlyInv ==
    ASSUME Inv, ReadEof \/ EndLine \/ RefreshReturns
    PROVE  Inv'
<1>1. /\ pc' \in {"exit", "refresh", "destroy"}
      /\ UNCHANGED <<kernelVars, forkVars, tableVars, ctx_job, cur, left, to_fork, procs, waits,
                     scan, ret, exiting, assert_failed, told, hup>>
  BY DEF ReadEof, EndLine, RefreshReturns
<1>2. TypeOK'
  BY <1>1 DEF Inv, TypeOK, KernelType, ForkType, TableType, EvalType, HistoryType, PcValues
<1>3. ControlInv' /\ ForkedInv' /\ ReapedIsRecorded'
  BY <1>1 DEF Inv, ControlInv, ForkedInv, ReapedIsRecorded
<1> QED
  BY <1>2, <1>3 DEF Inv

LEMMA RunNothingInv == ASSUME Inv, RunNothing PROVE Inv'
<1>1. PICK n \in JobId : /\ cur' = n /\ jobs' = JobsWith(n) /\ job' = JobWith(n)
                         /\ told' = ToldWith(n)
  BY DEF RunNothing
<1>2. left > 0 /\ left' = left - 1 /\ left \in Nat
  BY DEF Inv, TypeOK, EvalType, RunNothing
<1>3. left' \in Nat
  BY <1>2
<1>4. KernelType' /\ ForkType' /\ EvalType'
  BY <1>1, <1>3 DEF Inv, TypeOK, KernelType, ForkType, EvalType, RunNothing
<1>5. TableType' /\ HistoryType'
  BY <1>1, JobWithType DEF Inv, TypeOK, TableType, HistoryType, RunNothing
<1>6. ControlInv' /\ ForkedInv' /\ ReapedIsRecorded'
  BY DEF Inv, ControlInv, ForkedInv, ReapedIsRecorded, RunNothing
<1> QED
  BY <1>4, <1>5, <1>6 DEF Inv, TypeOK

LEMMA RunCommandInv == ASSUME Inv, RunCommand PROVE Inv'
<1>1. PICK n \in JobId : /\ cur' = n /\ jobs' = JobsWith(n) /\ job' = JobWith(n)
                         /\ told' = ToldWith(n)
  BY DEF RunCommand
<1>2. PICK h \in Hows, k \in 1 .. MaxPipeline : to_fork' = [how |-> h, n |-> k]
  BY DEF RunCommand
<1>3. k \in Nat /\ k > 0
  BY ConstantsAssumption
<1>4. left > 0 /\ left' = left - 1 /\ left \in Nat
  BY DEF Inv, TypeOK, EvalType, RunCommand
<1>5. left' \in Nat
  BY <1>4
<1>6. to_fork' \in [how : Hows, n : Nat] /\ to_fork'.n > 0
  BY <1>2, <1>3
<1>a. procs' \in Seq(Pid)
  BY DEF RunCommand
<1>7. KernelType' /\ ForkType' /\ EvalType'
  <2> HIDE DEF JobId
  <2>1. pc' \in PcValues /\ cur' \in JobId \cup {NoJob}
    BY <1>1 DEF RunCommand, PcValues
  <2> QED
    BY <2>1, <1>5, <1>6, <1>a DEF Inv, TypeOK, KernelType, ForkType, EvalType, RunCommand
<1>8. TableType' /\ HistoryType'
  BY <1>1, JobWithType DEF Inv, TypeOK, TableType, HistoryType, RunCommand
<1>9. ControlInv' /\ ForkedInv' /\ ReapedIsRecorded'
  BY <1>1, <1>6 DEF Inv, ControlInv, ForkedInv, ReapedIsRecorded, RunCommand, JobsWith
<1> QED
  BY <1>7, <1>8, <1>9 DEF Inv, TypeOK

LEMMA ForkInv == ASSUME Inv, NEW p \in Pid, Fork(p) PROVE Inv'
<1>1. cur \in JobId /\ job[cur] \in JobRecord
  <2>1. cur \in jobs
    BY DEF Inv, ControlInv, Fork
  <2> QED BY <2>1 DEF Inv, TypeOK, TableType
<1>2. to_fork' \in [how : Hows, n : Nat]
  <2>1. /\ to_fork \in [how : Hows, n : Nat] /\ to_fork.n > 0
        /\ to_fork' = [to_fork EXCEPT !.n = @ - 1]
    BY DEF Inv, TypeOK, EvalType, ControlInv, Fork
  <2> QED BY <2>1
<1>3. GroupOfJob(cur, p) \in Pid
  BY <1>1 DEF GroupOfJob, JobRecord
<1>4. KernelType' /\ ForkType'
  BY <1>3 DEF Inv, TypeOK, KernelType, ForkType, TableType, EvalType, Fork
<1>a. procs' \in Seq(Pid) /\ pc' \in PcValues
  <2>1. procs' = Append(procs, p) /\ procs \in Seq(Pid) /\ pc' = "forked"
    BY DEF Inv, TypeOK, EvalType, Fork
  <2> QED BY <2>1 DEF PcValues
<1>b. UNCHANGED <<ctx_job, cur, left, waits, scan, ret, exiting, assert_failed>>
  BY DEF Fork
<1>5. EvalType'
  BY <1>2, <1>a, <1>b DEF Inv, TypeOK, EvalType
<1>6. TableType' /\ HistoryType'
  BY DEF Inv, TypeOK, TableType, HistoryType, Fork
<1>7. procs' = Append(procs, p) /\ procs \in Seq(Pid)
  BY DEF Inv, TypeOK, EvalType, Fork
<1>8. procs'[Len(procs')] = p /\ procs' # <<>>
  BY <1>7
<1>9. ControlInv' /\ ForkedInv'
  BY <1>8 DEF Inv, TypeOK, KernelType, ControlInv, ForkedInv, Fork, Unreaped
<1>10. ReapedIsRecorded'
  BY DEF Inv, TypeOK, KernelType, ReapedIsRecorded, Fork
<1> QED
  BY <1>4, <1>5, <1>6, <1>9, <1>10 DEF Inv, TypeOK

LEMMA ForkFailsInv == ASSUME Inv, ForkFails PROVE Inv'
<1>1. ret' \in TaskStatus /\ pc' \in {"line", "refresh"}
  BY ReturnedType, StatusType DEF ForkFails
<1>2. TypeOK'
  BY <1>1 DEF Inv, TypeOK, KernelType, ForkType, TableType, EvalType, HistoryType, ForkFails,
              PcValues
<1>3. ControlInv' /\ ForkedInv' /\ ReapedIsRecorded'
  BY <1>1 DEF Inv, ControlInv, ForkedInv, ReapedIsRecorded, ForkFails
<1> QED
  BY <1>2, <1>3 DEF Inv

\* Registering a process that was not reaped keeps the registry truthful.
LEMMA RegisterStep ==
    ASSUME KernelType, TableType, ReapedIsRecorded, NEW p \in Pid, Unreaped(p),
           processes' = processes \cup {p}, code' = code,
           \A q \in Pid : /\ proc'[q].terminated = [proc EXCEPT ![p] = NewProcess][q].terminated
                          /\ proc'[q].stat = [proc EXCEPT ![p] = NewProcess][q].stat
                          /\ kstate'[q] = "reaped" <=> kstate[q] = "reaped"
    PROVE  ReapedIsRecorded'
<1>1. proc \in [Pid -> ProcRecord] /\ processes \subseteq Pid
  BY DEF TableType
<1> SUFFICES ASSUME NEW q \in processes'
             PROVE  /\ proc'[q].terminated <=> kstate'[q] = "reaped"
                    /\ proc'[q].terminated => proc'[q].stat = code'[q]
  BY DEF ReapedIsRecorded
<1>2. CASE q = p
  <2>1. proc'[p].terminated = FALSE
    BY <1>1, <1>2 DEF NewProcess
  <2>2. kstate'[p] # "reaped"
    BY DEF Unreaped
  <2> QED BY <1>2, <2>1, <2>2
<1>3. CASE q # p
  <2>1. q \in processes /\ q \in Pid
    BY <1>1, <1>3
  <2>2. proc'[q].terminated = proc[q].terminated /\ proc'[q].stat = proc[q].stat
    BY <1>1, <1>3, <2>1
  <2> QED BY <2>1, <2>2 DEF ReapedIsRecorded
<1> QED
  BY <1>2, <1>3

LEMMA ParentInitInv == ASSUME Inv, NEW p \in Pid, ParentInit(p) PROVE Inv'
<1> DEFINE h  == to_fork.how
           g  == GroupOfJob(cur, p)
           jb == job_add_process(job, cur, p, g, SetpgidError(p, g))
           pg == SetpgidEffect(p, g)
           pr == [proc EXCEPT ![p] = NewProcess]
<1>1. KernelType /\ ForkType /\ TableType /\ EvalType /\ HistoryType
  BY DEF Inv, TypeOK
<1>2. cur \in jobs /\ cur \in JobId /\ job[cur] \in JobRecord
  <2>1. cur \in jobs
    BY DEF Inv, ControlInv, ParentInit
  <2> QED BY <2>1, <1>1 DEF TableType
<1>3. g \in Pid
  BY <1>2 DEF GroupOfJob, JobRecord
<1>4. jb \in [JobId -> JobRecord] /\ jb[cur].pgid = g
  <2> DEFINE r == job[cur]
             ps == IF SetpgidError(p, g) = "EACCES" THEN r.processes ELSE Append(r.processes, p)
             r2 == [r EXCEPT !.pgid = g, !.processes = ps]
  <2>1. r2 \in JobRecord /\ r2.pgid = g
    <3>1. r \in JobRecord /\ r.processes \in Seq(Pid)
      BY <1>2 DEF JobRecord
    <3>2. ps \in Seq(Pid)
      <4> HIDE DEF r
      <4> QED BY <3>1
    <3> HIDE DEF r, ps, g
    <3> QED BY <3>1, <3>2, <1>3 DEF JobRecord
  <2>2. jb = [job EXCEPT ![cur] = r2]
    BY DEF job_add_process
  <2>3. job \in [JobId -> JobRecord]
    BY <1>1 DEF TableType
  <2> HIDE DEF r2, jb, g
  <2> QED BY <2>1, <2>2, <2>3, <1>2
<1>5. pg \in [Pid -> Pid \cup {Shell}]
  BY <1>1, <1>3 DEF KernelType, SetpgidEffect
<1>6. pr \in [Pid -> ProcRecord]
  BY <1>1 DEF TableType, NewProcess, ProcRecord
<1>7. Unreaped(p)
  BY DEF Inv, ForkedInv, ParentInit
<1>8. /\ kstate' \in [Pid -> {"none", "forked", "run", "stopped", "zombie", "reaped"}]
      /\ fresh_stop' \in [Pid -> BOOLEAN]
      /\ pgrp' \in [Pid -> Pid \cup {Shell}]
      /\ term' \in Pid \cup {Shell}
      /\ proc' \in [Pid -> ProcRecord]
      /\ job' \in [JobId -> JobRecord]
      /\ foreground_job' \in JobId \cup {NoJob}
      /\ \A q \in Pid : /\ proc'[q].terminated = pr[q].terminated
                        /\ proc'[q].stat = pr[q].stat
                        /\ kstate'[q] = "reaped" <=> kstate[q] = "reaped"
  <2> HIDE DEF g, jb, pg, pr
  <2>1. CASE h = "run_subshell"
    <3>1. proc' = pr /\ UNCHANGED <<kstate, fresh_stop, pgrp, term, job, foreground_job>>
      BY <2>1 DEF ParentInit, pr
    <3> QED BY <3>1, <1>1, <1>6 DEF KernelType, TableType
  <2>2. CASE h = "async"
    <3>1. /\ proc' = pr /\ job' = jb /\ pgrp' = pg
          /\ UNCHANGED <<kstate, fresh_stop, term, foreground_job>>
      BY <2>2 DEF ParentInit, g, jb, pg, pr
    <3> QED BY <3>1, <1>1, <1>4, <1>5, <1>6 DEF KernelType, TableType
  <2>3. CASE h \notin {"run_subshell", "async"}
    <3>1. pgrp' = pg /\ job_set_foreground(jb, cur, TRUE, FALSE, pg, pr)
      BY <2>3 DEF ParentInit, g, jb, pg, pr
    <3>2. jb[cur].pgid # NoGroup
      BY <1>3, <1>4, ConstantsAssumption DEF NoGroup
    <3> QED BY <3>1, <3>2, <1>1, <1>2, <1>4, <1>5, <1>6, SetForegroundType
  <2> QED BY <2>1, <2>2, <2>3
<1>9. KernelType' /\ ForkType' /\ HistoryType'
  BY <1>1, <1>8 DEF KernelType, ForkType, HistoryType, ParentInit
<1>10. TableType'
  <2>1. processes' = processes \cup {p} /\ jobs' = jobs
    BY DEF ParentInit
  <2> QED BY <2>1, <1>1, <1>8 DEF TableType
<1>11. ret' \in TaskStatus /\ pc' \in {"line", "refresh", "fork", "wait"}
       /\ (pc' = "fork" => to_fork.n > 0)
  BY <1>1, ReturnedType, StatusType DEF ParentInit, EvalType, Returned
<1>12. UNCHANGED <<ctx_job, cur, left, to_fork, procs, waits, scan, exiting, assert_failed, jobs>>
  BY DEF ParentInit
<1>13. EvalType'
  BY <1>1, <1>11, <1>12 DEF EvalType, PcValues
<1>14. ControlInv' /\ ForkedInv'
  BY <1>2, <1>11, <1>12 DEF Inv, ControlInv, ForkedInv, ParentInit
<1>15. ReapedIsRecorded'
  <2>1. processes' = processes \cup {p} /\ code' = code
    BY DEF ParentInit
  <2>2. ReapedIsRecorded
    BY DEF Inv
  <2> QED BY <2>1, <2>2, <1>1, <1>7, <1>8, RegisterStep
<1> QED
  BY <1>9, <1>10, <1>13, <1>14, <1>15 DEF Inv, TypeOK

\* A wait for one process, from run_process, a pipeline or fg.
LEMMA BlocksInv ==
    ASSUME Inv, NEW p \in Pid, job_wait_report(p), pc # "forked",
           UNCHANGED <<pgrp, execed, code, stops, forkVars, processes, jobs, evalVars, told, hup>>
    PROVE  Inv'
<1>1. KernelType /\ TableType /\ ReapedIsRecorded
  BY DEF Inv, TypeOK
<1>2. KernelType' /\ TableType' /\ ReapedIsRecorded'
  BY <1>1, JobWaitReport
<1>3. ForkType' /\ EvalType' /\ HistoryType'
  BY DEF Inv, TypeOK, ForkType, EvalType, HistoryType
<1>4. ControlInv' /\ ForkedInv'
  BY DEF Inv, ControlInv, ForkedInv
<1> QED
  BY <1>2, <1>3, <1>4 DEF Inv, TypeOK

LEMMA HeadOfProcs == ASSUME Inv, pc = "wait" PROVE procs # <<>> /\ Head(procs) \in Pid
<1>1. procs \in Seq(Pid) /\ procs # <<>>
  BY DEF Inv, TypeOK, EvalType, ControlInv
<1> QED
  BY <1>1

LEMMA WaitBlocksInv == ASSUME Inv, WaitBlocks PROVE Inv'
<1>1. Head(procs) \in Pid
  BY HeadOfProcs DEF WaitBlocks
<1> QED
  BY <1>1, BlocksInv DEF WaitBlocks

LEMMA FgBlocksInv == ASSUME Inv, FgBlocks PROVE Inv'
<1>1. PICK p \in Pid : job_wait_report(p)
  BY DEF FgBlocks
<1> QED
  BY <1>1, BlocksInv DEF FgBlocks

LEMMA WaitReturnsInv == ASSUME Inv, WaitReturns PROVE Inv'
<1> DEFINE s == process_poll(proc[Head(procs)])
<1>1. procs \in Seq(Pid) /\ procs # <<>> /\ procs' = Tail(procs) /\ pc = "wait"
  BY HeadOfProcs DEF Inv, TypeOK, EvalType, WaitReturns
<1>2. s \in TaskStatus
  BY <1>1, HeadOfProcs, ProcessPollType DEF Inv, TypeOK, TableType
<1>3. /\ procs' \in Seq(Pid)
      /\ Len(procs) > 1 => procs' # <<>>
  <2>1. procs' \in Seq(Pid) /\ Len(procs') = Len(procs) - 1
    BY <1>1, HeadTailProperties
  <2>2. procs' = <<>> => Len(procs') = 0
    OBVIOUS
  <2>3. Len(procs) \in Nat
    BY <1>1
  <2> QED BY <2>1, <2>2, <2>3
<1>4. \/ Len(procs) > 1 /\ UNCHANGED <<pc, ret>>
      \/ pc' \in {"line", "refresh"} /\ ret' \in TaskStatus
  <2> HIDE DEF s
  <2>1. (s >= 0 /\ Len(procs) > 1 /\ UNCHANGED <<pc, ret>>) \/ Returned(s)
    BY DEF WaitReturns, s
  <2> QED BY <1>2, <2>1, ReturnedType
<1>5. UNCHANGED <<kernelVars, forkVars, tableVars, ctx_job, cur, left, to_fork, waits, scan,
                  exiting, assert_failed, told, hup>>
  BY DEF WaitReturns
<1>6. KernelType' /\ ForkType' /\ TableType' /\ HistoryType' /\ ReapedIsRecorded'
  BY <1>5 DEF Inv, TypeOK, KernelType, ForkType, TableType, HistoryType, ReapedIsRecorded
<1>a. pc' \in PcValues /\ ret' \in TaskStatus
  BY <1>4 DEF Inv, TypeOK, EvalType, PcValues
<1>b. procs' \in Seq(Pid)
  BY <1>3
<1>7. EvalType'
  BY <1>a, <1>b, <1>5 DEF Inv, TypeOK, EvalType
<1>8. ControlInv' /\ ForkedInv'
  BY <1>1, <1>3, <1>4, <1>5 DEF Inv, ControlInv, ForkedInv
<1> QED
  BY <1>6, <1>7, <1>8 DEF Inv, TypeOK

LEMMA FgReturnsInv == ASSUME Inv, FgReturns PROVE Inv'
<1> DEFINE s == job_poll(job[cur].processes, proc)
<1>1. cur \in JobId
  <2>1. cur \in jobs
    BY DEF Inv, ControlInv, FgReturns
  <2> QED BY <2>1 DEF Inv, TypeOK, TableType
<1>2. job[cur].processes \in Seq(Pid) /\ proc \in [Pid -> ProcRecord]
  BY <1>1 DEF Inv, TypeOK, TableType, JobRecord
<1>3. s \in TaskStatus
  BY <1>2, JobPollType
<1>4. pc' \in {"line", "refresh"} /\ ret' \in TaskStatus
  <2> HIDE DEF s
  <2>1. Returned(s)
    BY DEF FgReturns, s
  <2> QED BY <1>3, <2>1, ReturnedType
<1>5. UNCHANGED <<kernelVars, forkVars, tableVars, ctx_job, cur, left, to_fork, procs, waits,
                  scan, exiting, assert_failed, told, hup>>
  BY DEF FgReturns
<1>6. TypeOK'
  BY <1>4, <1>5 DEF Inv, TypeOK, KernelType, ForkType, TableType, EvalType, HistoryType, PcValues
<1>7. ControlInv' /\ ForkedInv' /\ ReapedIsRecorded'
  BY <1>4, <1>5 DEF Inv, ControlInv, ForkedInv, ReapedIsRecorded
<1> QED
  BY <1>6, <1>7 DEF Inv

\* What every builtin that names a job does.
LEMMA BuiltinOnJobType ==
    ASSUME Inv, NEW n \in JobId, NEW t \in JobId, BuiltinOnJob(n, t)
    PROVE  /\ left' \in Nat
           /\ t \in jobs' /\ n \in jobs'
           /\ jobs' \subseteq JobId /\ processes' = processes
           /\ JobWith(n) \in [JobId -> JobRecord]
           /\ ForkType' /\ HistoryType'
           /\ UNCHANGED <<ctx_job, to_fork, procs, scan>>
<1>1. left > 0 /\ left \in Nat /\ left' = left - 1
  BY DEF Inv, TypeOK, EvalType, BuiltinOnJob
<1>2. left' \in Nat
  BY <1>1
<1>3. /\ JobsWith(n) \subseteq JobId /\ JobWith(n) \in [JobId -> JobRecord]
      /\ ToldWith(n) \in [JobId -> TaskStatus]
  BY JobWithType DEF Inv, TypeOK
<1> QED
  BY <1>2, <1>3 DEF Inv, TypeOK, ForkType, HistoryType, BuiltinOnJob, JobsWith

\* What job_set_foreground guarantees to fg and bg.
SetForegroundFacts ==
    /\ kstate' \in [Pid -> {"none", "forked", "run", "stopped", "zombie", "reaped"}]
    /\ fresh_stop' \in [Pid -> BOOLEAN]
    /\ term' \in Pid \cup {Shell}
    /\ proc' \in [Pid -> ProcRecord]
    /\ job' \in [JobId -> JobRecord]
    /\ foreground_job' \in JobId \cup {NoJob}
    /\ \A q \in Pid : /\ proc'[q].terminated = proc[q].terminated
                      /\ proc'[q].stat = proc[q].stat
                      /\ kstate'[q] = "reaped" <=> kstate[q] = "reaped"

LEMMA ForegroundFacts ==
    ASSUME Inv, NEW n \in JobId, NEW t \in JobId, NEW f \in BOOLEAN,
           JobWith(n) \in [JobId -> JobRecord], JobWith(n)[t].pgid # NoGroup,
           job_set_foreground(JobWith(n), t, f, TRUE, pgrp, proc)
    PROVE  SetForegroundFacts
<1>1. KernelType /\ TableType /\ proc \in [Pid -> ProcRecord]
  BY DEF Inv, TypeOK, TableType
<1> QED
  BY <1>1, SetForegroundType DEF SetForegroundFacts

LEMMA FgInv == ASSUME Inv, NEW n \in JobId, NEW t \in JobId, builtin_fg(n, t) PROVE Inv'
<1>1. BuiltinOnJob(n, t)
  BY DEF builtin_fg
<1>2. /\ left' \in Nat /\ t \in jobs' /\ jobs' \subseteq JobId /\ processes' = processes
      /\ JobWith(n) \in [JobId -> JobRecord] /\ ForkType' /\ HistoryType'
      /\ UNCHANGED <<ctx_job, to_fork, procs, scan>>
  BY <1>1, BuiltinOnJobType
<1>3. SetForegroundFacts
  BY <1>2, ForegroundFacts DEF builtin_fg
<1>4. pc' \in {"fg", "line", "refresh"} /\ ret' \in TaskStatus
  BY ReturnedType, StatusType DEF Inv, TypeOK, EvalType, builtin_fg
<1>5. cur' = t /\ UNCHANGED <<pgrp, execed, code, stops, waits, exiting, assert_failed>>
  BY DEF builtin_fg
<1>6. KernelType' /\ TableType' /\ ReapedIsRecorded'
  BY <1>2, <1>3, <1>5 DEF Inv, TypeOK, KernelType, TableType, ReapedIsRecorded, SetForegroundFacts
<1>7. EvalType'
  BY <1>2, <1>4, <1>5 DEF Inv, TypeOK, EvalType, PcValues
<1>8. ControlInv' /\ ForkedInv'
  BY <1>2, <1>4, <1>5 DEF ControlInv, ForkedInv
<1> QED
  BY <1>2, <1>6, <1>7, <1>8 DEF Inv, TypeOK

LEMMA BgInv == ASSUME Inv, NEW n \in JobId, NEW t \in JobId, builtin_bg(n, t) PROVE Inv'
<1>1. BuiltinOnJob(n, t)
  BY DEF builtin_bg
<1>2. /\ left' \in Nat /\ jobs' \subseteq JobId /\ processes' = processes
      /\ JobWith(n) \in [JobId -> JobRecord] /\ ForkType' /\ HistoryType'
      /\ UNCHANGED <<ctx_job, to_fork, procs, scan>>
  BY <1>1, BuiltinOnJobType
<1>3. SetForegroundFacts
  BY <1>2, ForegroundFacts DEF builtin_bg
<1>4. pc' \in {"line", "refresh"} /\ ret' \in TaskStatus
  <2>1. Returned(0) \/ Returned(1)
    BY DEF builtin_bg
  <2> QED BY <2>1, ReturnedType, StatusType
<1>5. cur' = n /\ UNCHANGED <<pgrp, execed, code, stops, waits, exiting, assert_failed>>
  BY DEF builtin_bg
<1>6. KernelType' /\ TableType' /\ ReapedIsRecorded'
  BY <1>2, <1>3, <1>5 DEF Inv, TypeOK, KernelType, TableType, ReapedIsRecorded, SetForegroundFacts
<1>7. EvalType'
  BY <1>2, <1>4, <1>5 DEF Inv, TypeOK, EvalType, PcValues
<1>8. ControlInv' /\ ForkedInv'
  BY <1>4 DEF ControlInv, ForkedInv
<1> QED
  BY <1>2, <1>6, <1>7, <1>8 DEF Inv, TypeOK

\* The builtins that leave processes and terminal alone for the moment.
LEMMA QuietBuiltin ==
    ASSUME Inv, NEW n \in JobId, NEW t \in JobId, BuiltinOnJob(n, t),
           job' = JobWith(n), cur' \in JobId \cup {NoJob},
           UNCHANGED <<kernelVars, proc, foreground_job>>
    PROVE  /\ KernelType' /\ ForkType' /\ TableType' /\ HistoryType' /\ ReapedIsRecorded'
<1>1. /\ left' \in Nat /\ jobs' \subseteq JobId /\ processes' = processes
      /\ JobWith(n) \in [JobId -> JobRecord] /\ ForkType' /\ HistoryType'
  BY BuiltinOnJobType
<1> QED
  BY <1>1 DEF Inv, TypeOK, KernelType, TableType, ReapedIsRecorded

LEMMA AssertFailsInv == ASSUME Inv, AssertFails PROVE Inv'
<1>1. /\ pc' = "aborted"
      /\ UNCHANGED <<kernelVars, proc, foreground_job, cur, waits, ret, exiting>>
      /\ assert_failed' \in {"none", "job->pgid > 0", "priv->foreground_job == NULL"}
  BY DEF AssertFails
<1>2. CASE \E n, t \in JobId : BuiltinOnJob(n, t) /\ job' = JobWith(n)
  <2>1. PICK n \in JobId, t \in JobId : BuiltinOnJob(n, t) /\ job' = JobWith(n)
    BY <1>2
  <2>2. /\ left' \in Nat /\ UNCHANGED <<ctx_job, to_fork, procs, scan>>
    BY <2>1, BuiltinOnJobType
  <2>3. cur' \in JobId \cup {NoJob}
    BY <1>1 DEF Inv, TypeOK, EvalType
  <2>4. KernelType' /\ ForkType' /\ TableType' /\ HistoryType' /\ ReapedIsRecorded'
    BY <1>1, <2>1, <2>3, QuietBuiltin
  <2>5. EvalType'
    BY <1>1, <2>2, <2>3 DEF Inv, TypeOK, EvalType, PcValues
  <2>6. ControlInv' /\ ForkedInv'
    BY <1>1 DEF ControlInv, ForkedInv
  <2> QED BY <2>4, <2>5, <2>6 DEF Inv, TypeOK
<1>3. CASE UNCHANGED <<forkVars, processes, ctx_job, to_fork, procs, scan, hup, left, jobs, job,
                       told>>
  <2>1. TypeOK'
    BY <1>1, <1>3 DEF Inv, TypeOK, KernelType, ForkType, TableType, EvalType, HistoryType, PcValues
  <2>2. ControlInv' /\ ForkedInv' /\ ReapedIsRecorded'
    BY <1>1, <1>3 DEF Inv, ControlInv, ForkedInv, ReapedIsRecorded
  <2> QED BY <2>1, <2>2 DEF Inv
<1> QED
  BY <1>2, <1>3 DEF AssertFails

LEMMA BuiltinWaitInv == ASSUME Inv, builtin_wait PROVE Inv'
<1>1. PICK n \in JobId, t \in JobId :
          /\ BuiltinOnJob(n, t) /\ job' = JobWith(n) /\ cur' = n
          /\ \/ waits' = {[pid |-> p, of_job |-> FALSE] :
                              p \in {q \in processes : ~proc[q].terminated}}
             \/ \E p \in Pid : waits' = {[pid |-> p, of_job |-> FALSE]}
             \/ waits' = {[pid |-> IF JobWith(n)[t].pgid = NoGroup THEN NoPid
                                   ELSE JobWith(n)[t].pgid, of_job |-> TRUE]}
  BY DEF builtin_wait
<1>2. /\ left' \in Nat /\ JobWith(n) \in [JobId -> JobRecord]
      /\ UNCHANGED <<ctx_job, to_fork, procs, scan>>
  BY <1>1, BuiltinOnJobType
<1>3. waits' \subseteq [pid : Pid \cup {NoPid}, of_job : BOOLEAN]
  <2>1. JobWith(n)[t].pgid \in Pid \cup {NoGroup}
    BY <1>2 DEF JobRecord
  <2>2. processes \subseteq Pid
    BY DEF Inv, TypeOK, TableType
  <2>3. CASE waits' = {[pid |-> p, of_job |-> FALSE] :
                           p \in {q \in processes : ~proc[q].terminated}}
    <3> DEFINE P == {q \in processes : ~proc[q].terminated}
    <3>1. P \subseteq Pid
      BY <2>2
    <3>2. waits' = {[pid |-> p, of_job |-> FALSE] : p \in P}
      BY <2>3
    <3> HIDE DEF P
    <3> SUFFICES ASSUME NEW w \in waits'
                 PROVE  w \in [pid : Pid \cup {NoPid}, of_job : BOOLEAN]
      OBVIOUS
    <3>3. PICK p \in P : w = [pid |-> p, of_job |-> FALSE]
      BY <3>2
    <3> QED BY <3>1, <3>3
  <2>4. CASE \E p \in Pid : waits' = {[pid |-> p, of_job |-> FALSE]}
    BY <2>4
  <2>5. CASE waits' = {[pid |-> IF JobWith(n)[t].pgid = NoGroup THEN NoPid
                                ELSE JobWith(n)[t].pgid, of_job |-> TRUE]}
    BY <2>1, <2>5
  <2> QED BY <1>1, <2>3, <2>4, <2>5
<1>4. /\ pc' = "builtin_wait" /\ ret' = 0
      /\ UNCHANGED <<kernelVars, proc, foreground_job, exiting, assert_failed>>
  BY DEF builtin_wait
<1>5. KernelType' /\ ForkType' /\ TableType' /\ HistoryType' /\ ReapedIsRecorded'
  BY <1>1, <1>4, QuietBuiltin
<1>6. EvalType'
  BY <1>1, <1>2, <1>3, <1>4, StatusType DEF Inv, TypeOK, EvalType, PcValues
<1>7. ControlInv' /\ ForkedInv'
  BY <1>4 DEF ControlInv, ForkedInv
<1> QED
  BY <1>5, <1>6, <1>7 DEF Inv, TypeOK

LEMMA WaitReapsInv ==
    ASSUME Inv, NEW w \in waits, NEW p \in Pid, WaitReaps(w, p) PROVE Inv'
<1>1. KernelType /\ TableType /\ ReapedIsRecorded
  BY DEF Inv, TypeOK
<1>2. /\ kstate[p] = "zombie" /\ Waitpid(p) /\ proc' = update_process(p)
      /\ UNCHANGED <<pgrp, execed, code, term, stops, processes, jobs, job, foreground_job>>
  BY DEF WaitReaps
<1>3. update_process(p) \in [Pid -> ProcRecord]
  BY <1>1, UpdateProcessType
<1>4. KernelType' /\ TableType'
  BY <1>1, <1>2, <1>3 DEF KernelType, TableType, Waitpid
<1>5. ReapedIsRecorded'
  BY <1>1, <1>2, ReapStep
<1>6. ForkType' /\ HistoryType' /\ EvalType'
  BY DEF Inv, TypeOK, ForkType, HistoryType, EvalType, WaitReaps
<1>7. ControlInv' /\ ForkedInv'
  BY DEF ControlInv, ForkedInv, WaitReaps
<1> QED
  BY <1>4, <1>5, <1>6, <1>7 DEF Inv, TypeOK

LEMMA WaitEchildInv == ASSUME Inv, NEW w \in waits, WaitEchild(w) PROVE Inv'
<1>1. ret' \in TaskStatus
  BY StatusType DEF Inv, TypeOK, EvalType, WaitEchild
<1>2. /\ pc' = "builtin_wait" /\ waits' \subseteq waits
      /\ UNCHANGED <<kernelVars, forkVars, tableVars, ctx_job, cur, left, to_fork, procs, scan,
                     exiting, assert_failed, told, hup>>
  BY DEF WaitEchild
<1>3. TypeOK'
  BY <1>1, <1>2 DEF Inv, TypeOK, KernelType, ForkType, TableType, EvalType, HistoryType, PcValues
<1>4. ControlInv' /\ ForkedInv' /\ ReapedIsRecorded'
  BY <1>2 DEF Inv, ControlInv, ForkedInv, ReapedIsRecorded
<1> QED
  BY <1>3, <1>4 DEF Inv

LEMMA BuiltinWaitReturnsInv == ASSUME Inv, BuiltinWaitReturns PROVE Inv'
<1>1. ret \in TaskStatus
  BY DEF Inv, TypeOK, EvalType
<1>2. pc' \in {"line", "refresh"} /\ ret' \in TaskStatus
  BY <1>1, ReturnedType DEF BuiltinWaitReturns
<1>3. UNCHANGED <<kernelVars, forkVars, tableVars, ctx_job, cur, left, to_fork, procs, waits,
                  scan, exiting, assert_failed, told, hup>>
  BY DEF BuiltinWaitReturns
<1>4. TypeOK'
  BY <1>2, <1>3 DEF Inv, TypeOK, KernelType, ForkType, TableType, EvalType, HistoryType, PcValues
<1>5. ControlInv' /\ ForkedInv' /\ ReapedIsRecorded'
  BY <1>2, <1>3 DEF Inv, ControlInv, ForkedInv, ReapedIsRecorded
<1> QED
  BY <1>4, <1>5 DEF Inv

LEMMA WaitInterruptedInv == ASSUME Inv, WaitInterrupted PROVE Inv'
<1>1. pc' \in {"line", "refresh"} /\ ret' \in TaskStatus
  BY StatusType, ReturnedType DEF WaitInterrupted
<1>2. /\ waits' = {}
      /\ UNCHANGED <<kernelVars, forkVars, tableVars, ctx_job, cur, left, to_fork, procs,
                     scan, exiting, assert_failed, told, hup>>
  BY DEF WaitInterrupted
<1>3. TypeOK'
  BY <1>1, <1>2 DEF Inv, TypeOK, KernelType, ForkType, TableType, EvalType, HistoryType, PcValues
<1>4. ControlInv' /\ ForkedInv' /\ ReapedIsRecorded'
  BY <1>1, <1>2 DEF Inv, ControlInv, ForkedInv, ReapedIsRecorded
<1> QED
  BY <1>3, <1>4 DEF Inv

LEMMA BuiltinExitInv == ASSUME Inv, builtin_exit PROVE Inv'
<1>1. PICK n \in JobId : BuiltinOnJob(n, n) /\ job' = JobWith(n) /\ cur' = n
  BY DEF builtin_exit
<1>2. /\ left' \in Nat
      /\ UNCHANGED <<ctx_job, to_fork, procs, scan>>
  BY <1>1, BuiltinOnJobType
<1>3. pc' \in {"line", "refresh"} /\ ret' \in TaskStatus
  BY ReturnedType, StatusType DEF builtin_exit
<1>4. exiting' = TRUE /\ UNCHANGED <<kernelVars, proc, foreground_job, waits, assert_failed>>
  BY DEF builtin_exit
<1>5. KernelType' /\ ForkType' /\ TableType' /\ HistoryType' /\ ReapedIsRecorded'
  BY <1>1, <1>4, QuietBuiltin
<1>6. EvalType'
  BY <1>1, <1>2, <1>3, <1>4 DEF Inv, TypeOK, EvalType, PcValues
<1>7. ControlInv' /\ ForkedInv'
  BY <1>3 DEF ControlInv, ForkedInv
<1> QED
  BY <1>5, <1>6, <1>7 DEF Inv, TypeOK

LEMMA RefreshInv == ASSUME Inv, NEW j \in jobs, refresh_jobs_status(j) PROVE Inv'
<1>1. KernelType /\ TableType /\ ReapedIsRecorded
  BY DEF Inv, TypeOK
<1>2. /\ pc = "refresh" /\ scan' = j
      /\ UNCHANGED <<pgrp, execed, code, stops, forkVars, processes, jobs, pc, ctx_job, cur, left,
                     to_fork, procs, waits, ret, exiting, assert_failed, told, hup>>
  BY DEF refresh_jobs_status
<1>3. KernelType' /\ TableType' /\ ReapedIsRecorded'
  <2>1. CASE \E p \in Pid : job_get_running_process(j, p) /\ job_wait_report(p)
    BY <1>1, <1>2, <2>1, JobWaitReport
  <2>2. CASE UNCHANGED <<kstate, fresh_stop, proc, job, foreground_job, term>>
    BY <1>1, <1>2, <2>2 DEF KernelType, TableType, ReapedIsRecorded
  <2> QED BY <2>1, <2>2 DEF refresh_jobs_status
<1>4. scan' \in Nat
  BY <1>1, <1>2 DEF TableType, JobId
<1>5. EvalType' /\ ForkType' /\ HistoryType'
  BY <1>2, <1>4 DEF Inv, TypeOK, EvalType, ForkType, HistoryType
<1>6. ControlInv' /\ ForkedInv'
  BY <1>2 DEF ControlInv, ForkedInv
<1> QED
  BY <1>3, <1>5, <1>6 DEF Inv, TypeOK

\* What job_destroy leaves of the line.
LEMMA JobDestroyType ==
    ASSUME Inv, NEW js, job_destroy(js)
    PROVE  /\ jobs' \subseteq JobId
           /\ foreground_job' \in JobId \cup {NoJob}
           /\ term' \in Pid \cup {Shell}
           /\ ctx_job' \in JobId \cup {NoJob} /\ cur' \in JobId \cup {NoJob}
           /\ left' \in Nat /\ scan' \in Nat
           /\ to_fork' \in [how : Hows, n : Nat]
           /\ procs' \in Seq(Pid)
<1>1. jobs \subseteq JobId /\ foreground_job \in JobId \cup {NoJob} /\ term \in Pid \cup {Shell}
  BY DEF Inv, TypeOK, TableType, KernelType
<1>2. /\ jobs' \subseteq JobId
      /\ foreground_job' \in JobId \cup {NoJob} /\ term' \in Pid \cup {Shell}
  BY <1>1 DEF job_destroy
<1>3. to_fork' \in [how : Hows, n : Nat]
  BY DEF job_destroy, Hows
<1>4. procs' \in Seq(Pid)
  BY DEF job_destroy
<1>5. /\ ctx_job' \in JobId \cup {NoJob} /\ cur' \in JobId \cup {NoJob}
      /\ left' \in Nat /\ scan' \in Nat
  BY DEF job_destroy
<1> QED
  BY <1>2, <1>3, <1>4, <1>5

LEMMA DestroyTerminatedInv == ASSUME Inv, mrsh_destroy_terminated_jobs PROVE Inv'
<1>1. KernelType /\ ForkType /\ TableType /\ EvalType /\ HistoryType /\ ReapedIsRecorded
  BY DEF Inv, TypeOK
<1>2. /\ pc' \in {"exit", "prompt"} /\ ret' = 0 /\ processes' \subseteq processes
      /\ job_destroy(Terminated)
      /\ UNCHANGED <<kstate, fresh_stop, pgrp, execed, code, stops, forkVars, proc, waits, exiting,
                     assert_failed, hup>>
  BY DEF mrsh_destroy_terminated_jobs
<1>3. /\ jobs' \subseteq JobId
      /\ foreground_job' \in JobId \cup {NoJob}
      /\ term' \in Pid \cup {Shell}
      /\ ctx_job' \in JobId \cup {NoJob} /\ cur' \in JobId \cup {NoJob}
      /\ left' \in Nat /\ scan' \in Nat
      /\ to_fork' \in [how : Hows, n : Nat]
      /\ procs' \in Seq(Pid)
  BY <1>2, JobDestroyType
<1>4. job' \in [JobId -> JobRecord]
  <2>1. ASSUME NEW j \in JobId PROVE job'[j] \in JobRecord
    <3>1. job[j] \in JobRecord
      BY <1>1 DEF TableType
    <3>2. [job[j] EXCEPT !.pending_notification = @ /\ ~Notify] \in JobRecord
      BY <3>1 DEF JobRecord
    <3> QED BY <3>2, NewJobType DEF mrsh_destroy_terminated_jobs
  <2> QED BY <2>1 DEF mrsh_destroy_terminated_jobs
<1>5. told' \in [JobId -> TaskStatus]
  <2>1. ASSUME NEW j \in JobId PROVE told'[j] \in TaskStatus
    <3>1. job[j].processes \in Seq(Pid) /\ proc \in [Pid -> ProcRecord]
      BY <1>1 DEF TableType, JobRecord
    <3>2. job_poll(job[j].processes, proc) \in TaskStatus
      BY <3>1, JobPollType
    <3>3. told[j] \in TaskStatus
      BY <1>1 DEF HistoryType
    <3> QED BY <3>2, <3>3 DEF mrsh_destroy_terminated_jobs
  <2> QED BY <2>1 DEF mrsh_destroy_terminated_jobs
<1>6. KernelType' /\ ForkType' /\ TableType' /\ HistoryType'
  BY <1>1, <1>2, <1>3, <1>4, <1>5 DEF KernelType, ForkType, TableType, HistoryType
<1>7. EvalType'
  BY <1>1, <1>2, <1>3, StatusType DEF EvalType, PcValues
<1>8. ControlInv' /\ ForkedInv' /\ ReapedIsRecorded'
  BY <1>1, <1>2 DEF ControlInv, ForkedInv, ReapedIsRecorded
<1> QED
  BY <1>6, <1>7, <1>8 DEF Inv, TypeOK

LEMMA StateDestroyInv == ASSUME Inv, mrsh_state_destroy PROVE Inv'
<1>1. KernelType /\ ForkType /\ TableType /\ EvalType /\ HistoryType
  BY DEF Inv, TypeOK
<1>2. /\ pc' = "done" /\ processes' = {} /\ hup' \subseteq Pid
      /\ job_destroy(jobs) /\ job' = [j \in JobId |-> NewJob]
      /\ UNCHANGED <<kstate, fresh_stop, pgrp, execed, code, stops, forkVars, proc, waits, ret,
                     exiting, assert_failed, told>>
  BY DEF mrsh_state_destroy
<1>3. /\ jobs' \subseteq JobId
      /\ foreground_job' \in JobId \cup {NoJob}
      /\ term' \in Pid \cup {Shell}
      /\ ctx_job' \in JobId \cup {NoJob} /\ cur' \in JobId \cup {NoJob}
      /\ left' \in Nat /\ scan' \in Nat
      /\ to_fork' \in [how : Hows, n : Nat]
      /\ procs' \in Seq(Pid)
  BY <1>2, JobDestroyType
<1>4. job' \in [JobId -> JobRecord]
  BY <1>2, NewJobType
<1>5. KernelType' /\ ForkType' /\ TableType' /\ HistoryType'
  BY <1>1, <1>2, <1>3, <1>4 DEF KernelType, ForkType, TableType, HistoryType
<1>6. EvalType'
  BY <1>1, <1>2, <1>3 DEF EvalType, PcValues
<1>7. ControlInv' /\ ForkedInv' /\ ReapedIsRecorded'
  BY <1>2 DEF ControlInv, ForkedInv, ReapedIsRecorded
<1> QED
  BY <1>5, <1>6, <1>7 DEF Inv, TypeOK

LEMMA HaltedInv == ASSUME Inv, UNCHANGED vars PROVE Inv'
<1>1. TypeOK'
  BY DEF Inv, TypeOK, KernelType, ForkType, TableType, EvalType, HistoryType, vars
<1>2. ControlInv' /\ ForkedInv' /\ ReapedIsRecorded'
  BY DEF Inv, ControlInv, ForkedInv, ReapedIsRecorded, Unreaped, vars
<1> QED BY <1>1, <1>2 DEF Inv

\* A child, or a signal to it, changes only what the kernel knows of it, and reaps nothing.
LEMMA ChildStepInv == ASSUME Inv, NEW p \in Pid, ChildStep(p) PROVE Inv'
<1>1. KernelType /\ ForkType /\ TableType /\ EvalType /\ HistoryType /\ ReapedIsRecorded
  BY DEF Inv, TypeOK
<1>2. UNCHANGED <<tableVars, evalVars, told, hup>>
  BY DEF ChildStep, ChildInit, Execv, Terminate, Stop, Continue
<1>3. /\ kstate' \in [Pid -> {"none", "forked", "run", "stopped", "zombie", "reaped"}]
      /\ \A q \in Pid : kstate'[q] = "reaped" <=> kstate[q] = "reaped"
      /\ \A q \in Pid : Unreaped(q) => Unreaped(q)'
  BY <1>1 DEF KernelType, Unreaped, ChildStep, ChildInit, Execv, Terminate, Stop, Continue
<1>4. /\ fresh_stop' \in [Pid -> BOOLEAN] /\ execed' \in [Pid -> BOOLEAN]
      /\ code' \in [Pid -> {0, 129}]
      /\ \A q \in Pid : kstate[q] = "reaped" => code'[q] = code[q]
  <2>1. /\ kstate \in [Pid -> {"none", "forked", "run", "stopped", "zombie", "reaped"}]
        /\ fresh_stop \in [Pid -> BOOLEAN] /\ execed \in [Pid -> BOOLEAN]
        /\ code \in [Pid -> {0, 129}]
    BY <1>1 DEF KernelType
  <2>2. CASE ChildInit(p)
    BY <2>1, <2>2 DEF ChildInit
  <2>3. CASE Terminate(p)
    <3>1. /\ fresh_stop' = [fresh_stop EXCEPT ![p] = FALSE] /\ execed' = execed
          /\ kstate[p] # "reaped"
      BY <2>3 DEF Terminate
    <3>2. PICK c \in {0, 129} : code' = [code EXCEPT ![p] = c]
      BY <2>3 DEF Terminate
    <3> QED BY <2>1, <3>1, <3>2
  <2>4. CASE Execv(p) \/ Stop(p) \/ Continue(p)
    <3>1. /\ code' = code
          /\ \/ fresh_stop' = fresh_stop \/ fresh_stop' = [fresh_stop EXCEPT ![p] = FALSE]
             \/ fresh_stop' = [fresh_stop EXCEPT ![p] = TRUE]
          /\ execed' = execed \/ execed' = [execed EXCEPT ![p] = TRUE]
      BY <2>4 DEF Execv, Stop, Continue
    <3> QED BY <2>1, <3>1
  <2> QED BY <2>2, <2>3, <2>4 DEF ChildStep
<1>5. /\ pgrp' \in [Pid -> Pid \cup {Shell}] /\ term' \in Pid \cup {Shell}
  <2>1. target[p] \in Pid
    BY <1>1 DEF ForkType
  <2>2. SetpgidEffect(p, target[p]) \in [Pid -> Pid \cup {Shell}]
    BY <1>1, <2>1 DEF KernelType, SetpgidEffect
  <2>3. ASSUME NEW pg PROVE Tcsetpgrp(target[p], pg) \in Pid \cup {Shell}
    BY <1>1, <2>1 DEF KernelType, Tcsetpgrp
  <2>4. CASE ChildInit(p)
    BY <1>1, <2>2, <2>3, <2>4 DEF KernelType, ChildInit
  <2>5. CASE Execv(p) \/ Terminate(p) \/ Stop(p) \/ Continue(p)
    BY <1>1, <2>5 DEF KernelType, Execv, Terminate, Stop, Continue
  <2> QED BY <2>4, <2>5 DEF ChildStep
<1>6. stops' \in [Pid -> Nat]
  <2>1. stops \in [Pid -> Nat]
    BY <1>1 DEF KernelType
  <2>2. CASE Stop(p)
    BY <2>1, <2>2 DEF Stop
  <2>3. CASE UNCHANGED stops
    BY <2>1, <2>3
  <2> QED BY <2>2, <2>3 DEF ChildStep, ChildInit, Execv, Terminate, Continue
<1>7. ForkType'
  <2>1. how' = how
    BY DEF ChildStep, ChildInit, Execv, Terminate, Stop, Continue
  <2>2. ForgetFork(p) \/ UNCHANGED forkVars
    BY DEF ChildStep, ChildInit, Execv, Terminate, Stop, Continue
  <2>3. CASE ForgetFork(p)
    BY <1>1, <2>1, <2>3 DEF ForkType, ForgetFork
  <2>4. CASE UNCHANGED forkVars
    BY <1>1, <2>4 DEF ForkType
  <2> QED BY <2>2, <2>3, <2>4
<1>8. KernelType'
  BY <1>3, <1>4, <1>5, <1>6 DEF KernelType
<1>9. TableType' /\ EvalType' /\ HistoryType'
  BY <1>1, <1>2 DEF TableType, EvalType, HistoryType
<1>10. ReapedIsRecorded'
  BY <1>1, <1>2, <1>3, <1>4 DEF ReapedIsRecorded, TableType
<1>11. ControlInv'
  BY <1>2 DEF Inv, ControlInv
<1>12. ForkedInv'
  <2>1. ASSUME pc = "forked" PROVE procs[Len(procs)] \in Pid
    <3>1. procs \in Seq(Pid) /\ procs # <<>>
      BY <1>1, <2>1 DEF Inv, ControlInv, EvalType
    <3> QED BY <3>1
  <2> QED BY <1>2, <1>3, <2>1 DEF Inv, ForkedInv
<1> QED
  BY <1>7, <1>8, <1>9, <1>10, <1>11, <1>12 DEF Inv, TypeOK

LEMMA InitInv == Init => Inv
<1> SUFFICES ASSUME Init PROVE Inv
  OBVIOUS
<1>1. KernelType
  BY DEF Init, KernelType
<1>2. ForkType /\ HistoryType
  BY StatusType DEF Init, ForkType, HistoryType, Hows
<1>3. TableType
  <2>1. NewProcess \in ProcRecord
    BY DEF NewProcess, ProcRecord
  <2> QED BY <2>1, NewJobType DEF Init, TableType
<1>4. EvalType
  <2>1. to_fork \in [how : Hows, n : Nat]
    BY DEF Init, Hows
  <2>2. procs \in Seq(Pid)
    BY DEF Init
  <2>3. /\ ctx_job \in JobId \cup {NoJob} /\ cur \in JobId \cup {NoJob}
        /\ left \in Nat /\ scan \in Nat /\ waits = {}
    BY DEF Init
  <2>4. /\ pc = "prompt" /\ ret = 0 /\ exiting = FALSE /\ assert_failed = "none"
    BY DEF Init
  <2> QED BY <2>1, <2>2, <2>3, <2>4, StatusType DEF EvalType, PcValues
<1>5. ControlInv /\ ForkedInv /\ ReapedIsRecorded
  BY DEF Init, ControlInv, ForkedInv, ReapedIsRecorded
<1> QED
  BY <1>1, <1>2, <1>3, <1>4, <1>5 DEF Inv, TypeOK

LEMMA NextInv == Inv /\ [Next]_vars => Inv'
<1> SUFFICES ASSUME Inv, [Next]_vars PROVE Inv'
  OBVIOUS
<1>1. CASE UserStep
  BY <1>1, ReadLineInv, PcOnlyInv, WaitInterruptedInv DEF UserStep
<1>2. CASE ShellStep
  <2>1. CASE EndLine \/ RunNothing \/ RunCommand \/ ForkFails
    BY <2>1, PcOnlyInv, RunNothingInv, RunCommandInv, ForkFailsInv
  <2>2. CASE \E p \in Pid : Fork(p) \/ ParentInit(p)
    BY <2>2, ForkInv, ParentInitInv
  <2>3. CASE WaitBlocks \/ WaitReturns \/ FgBlocks \/ FgReturns
    BY <2>3, WaitBlocksInv, WaitReturnsInv, FgBlocksInv, FgReturnsInv
  <2>4. CASE \E n, t \in JobId : builtin_fg(n, t) \/ builtin_bg(n, t)
    BY <2>4, FgInv, BgInv
  <2>5. CASE AssertFails \/ builtin_wait \/ BuiltinWaitReturns \/ builtin_exit
    BY <2>5, AssertFailsInv, BuiltinWaitInv, BuiltinWaitReturnsInv, BuiltinExitInv
  <2>6. CASE \E w \in waits : WaitEchild(w) \/ \E p \in Pid : WaitReaps(w, p)
    BY <2>6, WaitEchildInv, WaitReapsInv
  <2>7. CASE \E j \in jobs : refresh_jobs_status(j)
    BY <2>7, RefreshInv
  <2>8. CASE RefreshReturns \/ mrsh_destroy_terminated_jobs \/ mrsh_state_destroy
    BY <2>8, PcOnlyInv, DestroyTerminatedInv, StateDestroyInv
  <2> QED
    BY <1>2, <2>1, <2>2, <2>3, <2>4, <2>5, <2>6, <2>7, <2>8 DEF ShellStep
<1>3. CASE Halted \/ UNCHANGED vars
  BY <1>3, HaltedInv DEF Halted
<1>4. CASE \E p \in Pid : ChildStep(p)
  BY <1>4, ChildStepInv
<1> QED
  BY <1>1, <1>2, <1>3, <1>4 DEF Next

-----------------------------------------------------------------------------
(* The theorems *)

\* The inductive invariant holds in every reachable state.
LEMMA Invariance == Spec => []Inv
  BY InitInv, NextInv, PTL DEF Spec

\* Every variable keeps its type: the tables of shell/process.c and shell/job.c hold
\* only processes and jobs that exist, whatever the children do.
THEOREM TypeCorrect == Spec => []TypeOK
<1>1. Inv => TypeOK
  BY DEF Inv
<1> QED
  BY <1>1, Invariance, PTL

\* No waitpid call of _job_wait, refresh_jobs_status or builtin_wait loses a status:
\* a registered process is marked terminated exactly when it was reaped, with the
\* status it died with.
THEOREM StatusIsRecorded == Spec => []ReapedIsRecorded
<1>1. Inv => ReapedIsRecorded
  BY DEF Inv
<1> QED
  BY <1>1, Invariance, PTL
==============================================================================
