----------------------------- MODULE JobControl -----------------------------
(***************************************************************************)
(* Job control of an interactive mrsh with MRSH_OPT_MONITOR: the process   *)
(* registry (shell/process.c), the job table and the terminal's foreground *)
(* process group (shell/job.c), the places that fork and wait (shell/task) *)
(* and the fg, bg, wait and exit builtins, interleaved with the children   *)
(* and with the kernel's view of them.                                     *)
(*                                                                         *)
(* A process is a direct child of the shell.  Every pid is used once.  The *)
(* order of a job's process array is the order of the sequence             *)
(* job[j].processes; the order of the job array is the order of job ids    *)
(* (job_create appends an id larger than all others).                      *)
(***************************************************************************)
EXTENDS Integers, Sequences

CONSTANTS
    Pid,          \* the pids fork() may return
    Shell,        \* the shell's own process group
    MaxJobs,      \* bound: largest job id; a line is read only if ids are left for it
    MaxPipeline,  \* bound: commands in a pipeline
    MaxList,      \* bound: commands in one input line
    Compounds,    \* the kinds of line: TRUE \in Compounds iff { ...; } occurs
    MaxStops,     \* bound: how often a process is stopped
    Notify        \* MRSH_OPT_NOTIFY (-b)

ASSUME ConstantsAssumption ==
    /\ Shell \notin Pid /\ 0 \notin Pid /\ Shell # 0
    /\ MaxJobs \in Nat /\ MaxPipeline \in Nat /\ MaxList \in Nat /\ MaxStops \in Nat
    /\ Compounds \subseteq BOOLEAN
    /\ Notify \in BOOLEAN

VARIABLES
    \* The kernel (external).
    kstate,     \* "none", "forked", "run", "stopped", "zombie" or "reaped"
    fresh_stop, \* a stop that waitpid(WUNTRACED) has not reported yet
    pgrp,       \* process group of a process
    execed,     \* the child has called execv
    code,       \* what process_poll makes of the termination status
    term,       \* foreground process group of the terminal
    stops,      \* how often a process was stopped (bound only)
    \* Facts a child keeps from the moment of the fork.
    how,        \* which function forked it
    target,     \* the group its job_add_process will use
    fork_fg,    \* foreground_job at the fork
    fork_job,   \* ctx->job at the fork
    \* struct mrsh_state_priv.
    processes,  \* registered processes
    proc,       \* struct mrsh_process of each
    jobs,       \* ids of the job array
    job,        \* struct mrsh_job of each
    foreground_job,
    \* The evaluation of the current line.
    pc, ctx_job, cur, left, to_fork, procs, waits, scan, ret, exiting, assert_failed,
    \* History.
    told,       \* last status shown to the user for a job
    hup         \* processes that were sent SIGHUP

kernelVars == <<kstate, fresh_stop, pgrp, execed, code, term, stops>>
forkVars   == <<how, target, fork_fg, fork_job>>
tableVars  == <<processes, proc, jobs, job, foreground_job>>
evalVars   == <<pc, ctx_job, cur, left, to_fork, procs, waits, scan, ret, exiting, assert_failed>>
vars == <<kernelVars, forkVars, tableVars, evalVars, told, hup>>

JobId == 1 .. MaxJobs
NoJob == 0           \* NULL
NoGroup == 0         \* job->pgid = -1
NoPid == 0           \* the pid -1 that `wait %n' passes for a job without a group

TASK_STATUS_WAIT    == -1
TASK_STATUS_ERROR   == -2
TASK_STATUS_STOPPED == -3
TASK_STATUS_INTERRUPTED == -4
TaskStatus == -4 .. 255

Hows == {"run_process", "run_pipeline", "async", "run_subshell"}

-----------------------------------------------------------------------------
(* shell/process.c *)

\* A struct mrsh_process as calloc leaves it.
NewProcess == [stopped |-> FALSE, terminated |-> FALSE, stat |-> 0]

process_poll(r) ==
    IF r.stopped THEN TASK_STATUS_STOPPED
    ELSE IF ~r.terminated THEN TASK_STATUS_WAIT
    ELSE r.stat

\* Mutant: the raw wait status is kept where its exit status is meant.
Reported_raw(r, p) ==
    IF kstate[p] = "zombie" THEN [r EXCEPT !.terminated = TRUE, !.stat = 256 * code[p]]
    ELSE [r EXCEPT !.stopped = TRUE]

\* Mutant: a stop is reported but not recorded.
Reported_exits(r, p) ==
    IF kstate[p] = "zombie" THEN [r EXCEPT !.terminated = TRUE, !.stat = code[p]] ELSE r

\* What waitpid reported of p, entered into its record r.
Reported(r, p) ==
    IF kstate[p] = "zombie" THEN [r EXCEPT !.terminated = TRUE, !.stat = code[p]]
    ELSE [r EXCEPT !.stopped = TRUE]

\* The registry after update_process(pid, stat).
update_process(p) ==
    IF p \in processes THEN [proc EXCEPT ![p] = Reported(@, p)] ELSE proc

-----------------------------------------------------------------------------
(* The kernel (external) *)

Unreaped(p) == kstate[p] \notin {"none", "reaped"}

\* A process group exists while it has a member that was not reaped.
GroupExists(g, pg) == g = Shell \/ \E p \in Pid : pg[p] = g /\ Unreaped(p)

\* setpgid(p, g): EACCES once the child has called execv, EPERM if the group is
\* gone and p is not its leader.
SetpgidError(p, g) ==
    IF execed[p] THEN "EACCES"
    ELSE IF g # p /\ ~GroupExists(g, pgrp) THEN "EPERM"
    ELSE "none"

SetpgidEffect(p, g) ==
    IF SetpgidError(p, g) = "none" THEN [pgrp EXCEPT ![p] = g] ELSE pgrp

\* tcsetpgrp(term_fd, g) has no effect on a group that does not exist.
Tcsetpgrp(g, pg) == IF GroupExists(g, pg) THEN g ELSE term

\* waitpid(p, WUNTRACED) has something to report.
Reportable(p) == kstate[p] = "zombie" \/ (kstate[p] = "stopped" /\ fresh_stop[p])

\* ... and its effect on the kernel's state.
Waitpid(p) ==
    /\ kstate' = IF kstate[p] = "zombie" THEN [kstate EXCEPT ![p] = "reaped"] ELSE kstate
    /\ fresh_stop' = [fresh_stop EXCEPT ![p] = FALSE]

\* kill(-g, SIGCONT).
SigcontState(g) ==
    [p \in Pid |-> IF pgrp[p] = g /\ kstate[p] = "stopped" THEN "run" ELSE kstate[p]]
SigcontFreshStop(g) == [p \in Pid |-> fresh_stop[p] /\ pgrp[p] # g]

-----------------------------------------------------------------------------
(* shell/job.c *)

\* job_create: a job without processes and without a group.
NewJob == [pgid |-> NoGroup, processes |-> <<>>,
           last_status |-> TASK_STATUS_WAIT, pending_notification |-> FALSE]

\* The id job_create picks.
IsNewId(n) ==
    /\ n \in JobId
    /\ \A j \in jobs : j < n
    /\ n = 1 \/ n - 1 \in jobs

\* Status of the processes ps under the registry pr.
job_poll(ps, pr) ==
    LET status(i) == process_poll(pr[ps[i]])
    IN  IF \E i \in DOMAIN ps : status(i) = TASK_STATUS_WAIT THEN TASK_STATUS_WAIT
        ELSE IF \E i \in DOMAIN ps : status(i) = TASK_STATUS_STOPPED THEN TASK_STATUS_STOPPED
        ELSE IF ps = <<>> THEN 0
        ELSE status(Len(ps))

\* Mutant: only a termination is notified.
job_queue_notification_terminated(r, s, in_foreground) ==
    [r EXCEPT !.pending_notification =
                  @ \/ (s >= 0 /\ s # r.last_status /\ r.pgid # NoGroup /\ ~in_foreground),
              !.last_status = s]

\* job_queue_notification(r) for the status s, with the job in the foreground or not.
job_queue_notification(r, s, in_foreground) ==
    [r EXCEPT !.pending_notification =
                  @ \/ (s # r.last_status /\ r.pgid # NoGroup /\ ~in_foreground),
              !.last_status = s]

\* Mutant: an asynchronous list always starts a group.
GroupOfJob_async(j, p) ==
    IF job[j].pgid = NoGroup \/ to_fork.how = "async" THEN p ELSE job[j].pgid

\* The group job_add_process puts p into.
GroupOfJob(j, p) == IF job[j].pgid = NoGroup THEN p ELSE job[j].pgid

\* The job table after job_add_process(j, p) for the group g when setpgid failed with err.
job_add_process(jb, j, p, g, err) ==
    [jb EXCEPT ![j].pgid = g,
               ![j].processes = IF err = "EACCES" THEN @ ELSE Append(@, p)]

\* The process p is in the process array of the job j.
Listed(p, j) == \E i \in DOMAIN job[j].processes : job[j].processes[i] = p

\* Mutant: the terminal is not given back when the foreground job ends or stops.
update_job_keeps_terminal(np) ==
    LET status(j) == job_poll(job[j].processes, np)
    IN  /\ proc' = np
        /\ job' = [j \in JobId |->
               IF j \notin jobs \/ status(j) = TASK_STATUS_WAIT THEN job[j]
               ELSE job_queue_notification(job[j], status(j),
                        foreground_job = j /\ status(j) >= 0)]
        /\ foreground_job' = IF \E j \in jobs : /\ foreground_job = j /\ job[j].pgid # NoGroup
                                                /\ status(j) # TASK_STATUS_WAIT
                             THEN NoJob ELSE foreground_job
        /\ UNCHANGED term

\* Mutant: a stopped job stays in the foreground.
update_job_terminated(np) ==
    LET status(j) == job_poll(job[j].processes, np)
    IN  /\ proc' = np
        /\ job' = [j \in JobId |->
               IF j \notin jobs \/ status(j) = TASK_STATUS_WAIT THEN job[j]
               ELSE job_queue_notification(job[j], status(j),
                        foreground_job = j /\ status(j) >= 0)]
        /\ IF \E j \in jobs : foreground_job = j /\ status(j) >= 0 /\ job[j].pgid # NoGroup
           THEN foreground_job' = NoJob /\ term' = Shell
           ELSE UNCHANGED <<foreground_job, term>>

\* update_job: every job that is stopped or terminated under the registry np
\* queues a notification and leaves the foreground.
update_job(np) ==
    LET status(j) == job_poll(job[j].processes, np)
        leaves(j) == foreground_job = j /\ status(j) # TASK_STATUS_WAIT /\ job[j].pgid # NoGroup
    IN  /\ proc' = np
        /\ job' = [j \in JobId |->
               IF j \notin jobs \/ status(j) = TASK_STATUS_WAIT THEN job[j]
               ELSE job_queue_notification(job[j], status(j),
                        foreground_job = j /\ status(j) >= 0)]
        /\ IF \E j \in jobs : leaves(j)
           THEN foreground_job' = NoJob /\ term' = Shell
           ELSE UNCHANGED <<foreground_job, term>>

\* _job_wait(p) once waitpid returns p.
job_wait_report(p) ==
    /\ Reportable(p)
    /\ Waitpid(p)
    /\ update_job(update_process(p))

\* The process _job_wait is called for: the first running one of the job.
job_get_running_process(j, p) ==
    \E i \in DOMAIN job[j].processes :
        /\ p = job[j].processes[i]
        /\ process_poll(proc[p]) = TASK_STATUS_WAIT
        /\ \A k \in 1 .. i - 1 : process_poll(proc[job[j].processes[k]]) # TASK_STATUS_WAIT

\* job_set_foreground(t, foreground, cont) on the job table jb, with the groups
\* pg and the registry pr, once its two assertions hold.  It returns false, before
\* queueing a notification, if the job's group is gone when it is continued.
Continues(r, pr, cont) == cont /\ job_poll(r.processes, pr) = TASK_STATUS_STOPPED

job_set_foreground_result(r, pr, cont) ==
    ~Continues(r, pr, cont) \/ GroupExists(r.pgid, pgrp)

job_set_foreground(jb, t, foreground, cont, pg, pr) ==
    LET r     == jb[t]
        conts == Continues(r, pr, cont)
        ok    == job_set_foreground_result(r, pr, cont)
        np    == IF conts /\ ok
                 THEN [p \in Pid |-> IF \E i \in DOMAIN r.processes : r.processes[i] = p
                                     THEN [pr[p] EXCEPT !.stopped = FALSE] ELSE pr[p]]
                 ELSE pr
        fg    == IF foreground THEN t
                 ELSE IF foreground_job = t THEN NoJob ELSE foreground_job
    IN  /\ foreground_job' = fg
        /\ term' = IF fg = foreground_job THEN term
                   ELSE Tcsetpgrp(IF foreground THEN r.pgid ELSE Shell, pg)
        /\ kstate' = IF conts THEN SigcontState(r.pgid) ELSE kstate
        /\ fresh_stop' = IF conts THEN SigcontFreshStop(r.pgid) ELSE fresh_stop
        /\ proc' = np
        /\ job' = IF ok
                  THEN [jb EXCEPT ![t] = job_queue_notification(r, job_poll(r.processes, np), fg = t)]
                  ELSE jb

-----------------------------------------------------------------------------
(* Steps of a child and of whoever sends it signals.  SIGTSTP, SIGTTIN and   *)
(* SIGTTOU stay ignored in a child until init_job_child_process, so a child  *)
(* is stopped only after its own initialisation.                             *)

\* What a child kept from the fork is of no use after its initialisation.
ForgetFork(p) ==
    /\ target' = [target EXCEPT ![p] = p]
    /\ fork_fg' = [fork_fg EXCEPT ![p] = NoJob]
    /\ fork_job' = [fork_job EXCEPT ![p] = NoJob]

\* The child's half of init_child / init_async_child: job_add_process and, in the
\* foreground, job_set_foreground on its own copy of the state.  run_subshell's
\* child does neither.
ChildInit(p) ==
    LET joins == how[p] # "run_subshell"
        pg    == IF joins THEN SetpgidEffect(p, target[p]) ELSE pgrp
        grabs == how[p] \in {"run_process", "run_pipeline"} /\ fork_fg[p] # fork_job[p]
    IN  /\ kstate[p] = "forked"
        /\ pgrp' = pg
        /\ IF grabs /\ fork_fg[p] # NoJob   \* assert(priv->foreground_job == NULL)
           THEN /\ kstate' = [kstate EXCEPT ![p] = "zombie"]
                /\ code' = [code EXCEPT ![p] = 129]
                /\ UNCHANGED term
           ELSE /\ kstate' = [kstate EXCEPT ![p] = "run"]
                /\ term' = IF grabs THEN Tcsetpgrp(target[p], pg) ELSE term
                /\ UNCHANGED code
        /\ ForgetFork(p)
        /\ UNCHANGED <<fresh_stop, execed, stops, how, tableVars, evalVars, told, hup>>

\* Only run_process calls execv in the shell's own child; the children of a
\* pipeline, an asynchronous list and a subshell evaluate commands themselves.
Execv(p) ==
    /\ how[p] = "run_process" /\ kstate[p] = "run" /\ ~execed[p]
    /\ execed' = [execed EXCEPT ![p] = TRUE]
    /\ UNCHANGED <<kstate, fresh_stop, pgrp, code, term, stops, forkVars, tableVars,
                   evalVars, told, hup>>

\* Exit with status 0, or death by a signal, which process_poll reports as 129.
Terminate(p) ==
    /\ kstate[p] \in {"forked", "run", "stopped"}
    /\ \E c \in {0, 129} :
          /\ kstate[p] = "run" \/ c = 129
          /\ code' = [code EXCEPT ![p] = c]
    /\ kstate' = [kstate EXCEPT ![p] = "zombie"]
    /\ fresh_stop' = [fresh_stop EXCEPT ![p] = FALSE]
    /\ ForgetFork(p)
    /\ UNCHANGED <<pgrp, execed, term, stops, how, tableVars, evalVars, told, hup>>

Stop(p) ==
    /\ kstate[p] = "run" /\ stops[p] < MaxStops
    /\ kstate' = [kstate EXCEPT ![p] = "stopped"]
    /\ fresh_stop' = [fresh_stop EXCEPT ![p] = TRUE]
    /\ stops' = [stops EXCEPT ![p] = @ + 1]
    /\ UNCHANGED <<pgrp, execed, code, term, forkVars, tableVars, evalVars, told, hup>>

\* SIGCONT from outside the shell.
Continue(p) ==
    /\ kstate[p] = "stopped"
    /\ kstate' = [kstate EXCEPT ![p] = "run"]
    /\ fresh_stop' = [fresh_stop EXCEPT ![p] = FALSE]
    /\ UNCHANGED <<pgrp, execed, code, term, stops, forkVars, tableVars, evalVars, told, hup>>

\* Children are followed as long as the shell is there.
ChildStep(p) ==
    /\ pc \notin {"done", "aborted"}
    /\ ChildInit(p) \/ Execv(p) \/ Terminate(p) \/ Stop(p) \/ Continue(p)

-----------------------------------------------------------------------------
(* The evaluation of a line.  pc:                                            *)
(*   "prompt"   reading a line           "line"    before the next command   *)
(*   "fork"     before a fork            "forked"  between fork and init     *)
(*   "wait"     job_wait_process         "fg"      job_wait of builtin_fg    *)
(*   "builtin_wait"                      "refresh" refresh_jobs_status       *)
(*   "destroy"  destroying jobs          "exit"    before the shell is left  *)
(*   "done"     the shell has exited     "aborted" an assertion failed       *)

\* The job a command runs in: the enclosing compound command's, or a new one.
JobOfCommand(n) == n = ctx_job \/ (ctx_job = NoJob /\ IsNewId(n))
JobsWith(n) == jobs \cup {n}
JobWith(n)  == IF n \in jobs THEN job ELSE [job EXCEPT ![n] = NewJob]
ToldWith(n) == IF n \in jobs THEN told ELSE [told EXCEPT ![n] = TASK_STATUS_WAIT]

\* The command being evaluated returned r: a negative status abandons the line.
Returned(r) ==
    /\ ret' = r
    /\ pc' = IF r >= 0 THEN "line" ELSE "refresh"

\* main: a line is read and parsed.  A read by a shell that is not in the
\* terminal's foreground fails (SIGTTIN is ignored), which is ReadEof.
ReadLine ==
    /\ pc = "prompt" /\ term = Shell
    /\ pc' = "line" /\ ret' = 0
    /\ left' \in {k \in 1 .. MaxList : k <= MaxJobs /\ \A j \in jobs : j + k <= MaxJobs}
    /\ \/ /\ FALSE \in Compounds
          /\ ctx_job' = NoJob
          /\ UNCHANGED <<jobs, job, told>>
       \/ /\ TRUE \in Compounds
          /\ \E n \in JobId :
                /\ IsNewId(n)
                /\ ctx_job' = n
                /\ jobs' = JobsWith(n) /\ job' = JobWith(n) /\ told' = ToldWith(n)
    /\ UNCHANGED <<kernelVars, forkVars, processes, proc, foreground_job, cur, to_fork,
                   procs, waits, scan, exiting, assert_failed, hup>>

ReadEof ==
    /\ pc = "prompt"
    /\ pc' = "exit"
    /\ UNCHANGED <<kernelVars, forkVars, tableVars, ctx_job, cur, left, to_fork, procs, waits,
                   scan, ret, exiting, assert_failed, told, hup>>

\* The last command of the line returned.
EndLine ==
    /\ pc = "line" /\ left = 0
    /\ pc' = "refresh"
    /\ UNCHANGED <<kernelVars, forkVars, tableVars, ctx_job, cur, left, to_fork, procs, waits,
                   scan, ret, exiting, assert_failed, told, hup>>

\* A command that forks nothing: another builtin, or one that is not found.
RunNothing ==
    /\ pc = "line" /\ left > 0
    /\ left' = left - 1
    /\ \E n \in JobId :
          /\ JobOfCommand(n)
          /\ cur' = n
          /\ jobs' = JobsWith(n) /\ job' = JobWith(n) /\ told' = ToldWith(n)
    /\ UNCHANGED <<kernelVars, forkVars, processes, proc, foreground_job, pc, ctx_job, to_fork,
                   procs, waits, scan, ret, exiting, assert_failed, hup>>

\* run_pipeline, run_process, run_subshell or the & of run_command_list_array up
\* to the first fork.
RunCommand ==
    /\ pc = "line" /\ left > 0
    /\ left' = left - 1
    /\ pc' = "fork"
    /\ \E n \in JobId :
          /\ JobOfCommand(n)
          /\ cur' = n
          /\ jobs' = JobsWith(n) /\ job' = JobWith(n) /\ told' = ToldWith(n)
    /\ \E h \in Hows, k \in 1 .. MaxPipeline :
          /\ (h = "run_pipeline") <=> (k > 1)
          /\ to_fork' = [how |-> h, n |-> k]
    /\ procs' = <<>>
    /\ UNCHANGED <<kernelVars, forkVars, processes, proc, foreground_job, ctx_job, waits, scan,
                   ret, exiting, assert_failed, hup>>

\* fork(): the child starts in the shell's group with a copy of its state.
Fork(p) ==
    /\ pc = "fork"
    /\ kstate[p] = "none"
    /\ kstate' = [kstate EXCEPT ![p] = "forked"]
    /\ how' = [how EXCEPT ![p] = to_fork.how]
    /\ target' = [target EXCEPT ![p] = GroupOfJob(cur, p)]
    /\ fork_fg' = [fork_fg EXCEPT ![p] = foreground_job]
    /\ fork_job' = [fork_job EXCEPT ![p] = cur]
    /\ procs' = Append(procs, p)
    /\ to_fork' = [to_fork EXCEPT !.n = @ - 1]
    /\ pc' = "forked"
    /\ UNCHANGED <<fresh_stop, pgrp, execed, code, term, stops, tableVars, ctx_job, cur, left,
                   waits, scan, ret, exiting, assert_failed, told, hup>>

\* fork() or pipe() failed; the members forked before are left alone.
ForkFails ==
    /\ pc = "fork"
    /\ Returned(TASK_STATUS_ERROR)
    /\ UNCHANGED <<kernelVars, forkVars, tableVars, ctx_job, cur, left, to_fork, procs, waits,
                   scan, exiting, assert_failed, told, hup>>

\* The parent's half of init_child / init_async_child, or run_subshell's
\* process_create.
ParentInit(p) ==
    LET h   == to_fork.how
        g   == GroupOfJob(cur, p)
        jb  == job_add_process(job, cur, p, g, SetpgidError(p, g))
        pg  == SetpgidEffect(p, g)
        pr  == [proc EXCEPT ![p] = NewProcess]
    IN  /\ pc = "forked" /\ procs[Len(procs)] = p
        /\ h \in {"run_process", "run_pipeline"} => foreground_job \in {NoJob, cur}
        /\ processes' = processes \cup {p}
        /\ CASE h = "run_subshell" ->
                  /\ proc' = pr
                  /\ UNCHANGED <<kstate, fresh_stop, pgrp, term, job, foreground_job>>
             [] h = "async" ->
                  /\ proc' = pr /\ job' = jb /\ pgrp' = pg
                  /\ UNCHANGED <<kstate, fresh_stop, term, foreground_job>>
             [] OTHER ->
                  /\ pgrp' = pg
                  /\ job_set_foreground(jb, cur, TRUE, FALSE, pg, pr)
        /\ IF h = "async" THEN Returned(0)
           ELSE pc' = (IF to_fork.n > 0 THEN "fork" ELSE "wait") /\ UNCHANGED ret
        /\ UNCHANGED <<execed, code, stops, forkVars, jobs, ctx_job, cur, left, to_fork, procs,
                       waits, scan, exiting, assert_failed, told, hup>>

\* job_wait_process(procs[0]) blocks in waitpid until it has a status to report.
WaitBlocks ==
    /\ pc = "wait"
    /\ process_poll(proc[Head(procs)]) = TASK_STATUS_WAIT
    /\ job_wait_report(Head(procs))
    /\ UNCHANGED <<pgrp, execed, code, stops, forkVars, processes, jobs, evalVars, told, hup>>

\* ... and returns; a pipeline goes on with its next member unless this one stopped.
WaitReturns ==
    LET s == process_poll(proc[Head(procs)])
    IN  /\ pc = "wait"
        /\ s # TASK_STATUS_WAIT
        /\ procs' = Tail(procs)
        /\ IF s >= 0 /\ Len(procs) > 1 THEN UNCHANGED <<pc, ret>> ELSE Returned(s)
        /\ UNCHANGED <<kernelVars, forkVars, tableVars, ctx_job, cur, left, to_fork, waits, scan,
                       exiting, assert_failed, told, hup>>

\* The start of a builtin that names the job t, in the job n of the command line.
BuiltinOnJob(n, t) ==
    /\ pc = "line" /\ left > 0
    /\ JobOfCommand(n)
    /\ t \in JobsWith(n)
    /\ left' = left - 1
    /\ jobs' = JobsWith(n)
    /\ told' = ToldWith(n)
    /\ UNCHANGED <<forkVars, processes, ctx_job, to_fork, procs, scan, hup>>

builtin_fg(n, t) ==
    LET r == JobWith(n)[t]
    IN  /\ BuiltinOnJob(n, t)
        /\ r.pgid # NoGroup /\ foreground_job \in {NoJob, t}
        /\ job_set_foreground(JobWith(n), t, TRUE, TRUE, pgrp, proc)
        /\ cur' = t
        /\ IF job_set_foreground_result(r, proc, TRUE)
           THEN pc' = "fg" /\ UNCHANGED ret
           ELSE Returned(1)
        /\ UNCHANGED <<pgrp, execed, code, stops, waits, exiting, assert_failed>>

builtin_bg(n, t) ==
    LET r == JobWith(n)[t]
    IN  /\ BuiltinOnJob(n, t)
        /\ r.pgid # NoGroup
        /\ job_set_foreground(JobWith(n), t, FALSE, TRUE, pgrp, proc)
        /\ cur' = n
        /\ Returned(IF job_set_foreground_result(r, proc, TRUE) THEN 0 ELSE 1)
        /\ UNCHANGED <<pgrp, execed, code, stops, waits, exiting, assert_failed>>

\* The assertions at the head of job_set_foreground.
AssertFails ==
    /\ \/ \E n, t \in JobId :
             /\ BuiltinOnJob(n, t)
             /\ job' = JobWith(n)
             /\ \/ JobWith(n)[t].pgid = NoGroup /\ assert_failed' = "job->pgid > 0"
                \/ /\ JobWith(n)[t].pgid # NoGroup /\ foreground_job \notin {NoJob, t}
                   /\ assert_failed' = "priv->foreground_job == NULL"
       \/ /\ pc = "forked" /\ to_fork.how \in {"run_process", "run_pipeline"}
          /\ foreground_job \notin {NoJob, cur}
          /\ assert_failed' = "priv->foreground_job == NULL"
          /\ UNCHANGED <<forkVars, processes, ctx_job, to_fork, procs, scan, hup, left, jobs, job,
                         told>>
    /\ pc' = "aborted"
    /\ UNCHANGED <<kernelVars, proc, foreground_job, cur, waits, ret, exiting>>

\* job_wait of builtin_fg.
FgBlocks ==
    /\ pc = "fg"
    /\ \E p \in Pid : job_get_running_process(cur, p) /\ job_wait_report(p)
    /\ UNCHANGED <<pgrp, execed, code, stops, forkVars, processes, jobs, evalVars, told, hup>>

FgReturns ==
    LET s == job_poll(job[cur].processes, proc)
    IN  /\ pc = "fg"
        /\ s # TASK_STATUS_WAIT
        /\ Returned(s)
        /\ UNCHANGED <<kernelVars, forkVars, tableVars, ctx_job, cur, left, to_fork, procs, waits,
                       scan, exiting, assert_failed, told, hup>>

\* builtin_wait: all registered processes, one pid, or the group of one job as a
\* pid.  The pids are waited for in turn; the model takes them in any order.
builtin_wait ==
    /\ \E n, t \in JobId :
          /\ BuiltinOnJob(n, t)
          /\ job' = JobWith(n)
          /\ cur' = n
          /\ \/ waits' = {[pid |-> p, of_job |-> FALSE] :
                              p \in {q \in processes : ~proc[q].terminated}}
             \/ \E p \in Pid : waits' = {[pid |-> p, of_job |-> FALSE]}
             \/ waits' = {[pid |-> IF JobWith(n)[t].pgid = NoGroup THEN NoPid
                                   ELSE JobWith(n)[t].pgid, of_job |-> TRUE]}
    /\ pc' = "builtin_wait" /\ ret' = 0
    /\ UNCHANGED <<kernelVars, proc, foreground_job, exiting, assert_failed>>

\* Mutant: builtin_wait reaps without update_process.
WaitReaps_unrecorded(w, p) ==
    /\ pc = "builtin_wait"
    /\ w.pid \in {p, NoPid}
    /\ kstate[p] = "zombie"
    /\ Waitpid(p)
    /\ waits' = waits \ {w}
    /\ UNCHANGED <<pgrp, execed, code, term, stops, forkVars, tableVars, pc, ctx_job, cur, left,
                   to_fork, procs, scan, ret, exiting, assert_failed, told, hup>>

\* waitpid without WUNTRACED reaps a process; only update_process is called.
WaitReaps(w, p) ==
    /\ pc = "builtin_wait"
    /\ w.pid \in {p, NoPid}
    /\ kstate[p] = "zombie"
    /\ Waitpid(p)
    /\ proc' = update_process(p)
    /\ waits' = waits \ {w}
    /\ UNCHANGED <<pgrp, execed, code, term, stops, forkVars, processes, jobs, job,
                   foreground_job, pc, ctx_job, cur, left, to_fork, procs, scan, ret, exiting,
                   assert_failed, told, hup>>

\* ECHILD: the status stays what it was, -1 for a job.
WaitEchild(w) ==
    /\ pc = "builtin_wait"
    /\ \A p \in Pid : w.pid \in {p, NoPid} => ~Unreaped(p)
    /\ waits' = waits \ {w}
    /\ ret' = IF w.of_job THEN -1 ELSE ret
    /\ UNCHANGED <<kernelVars, forkVars, tableVars, pc, ctx_job, cur, left, to_fork, procs, scan,
                   exiting, assert_failed, told, hup>>

\* A signal with a trap ends waitpid with EINTR, and builtin_wait with a failure.
WaitInterrupted ==
    /\ pc = "builtin_wait" /\ waits # {}
    /\ waits' = {}
    /\ Returned(1)
    /\ UNCHANGED <<kernelVars, forkVars, tableVars, ctx_job, cur, left, to_fork, procs, scan,
                   exiting, assert_failed, told, hup>>

BuiltinWaitReturns ==
    /\ pc = "builtin_wait" /\ waits = {}
    /\ Returned(ret)
    /\ UNCHANGED <<kernelVars, forkVars, tableVars, ctx_job, cur, left, to_fork, procs, waits,
                   scan, exiting, assert_failed, told, hup>>

\* builtin_exit returns TASK_STATUS_INTERRUPTED, which abandons the line.
builtin_exit ==
    /\ \E n \in JobId : BuiltinOnJob(n, n) /\ job' = JobWith(n) /\ cur' = n
    /\ exiting' = TRUE
    /\ Returned(TASK_STATUS_INTERRUPTED)
    /\ UNCHANGED <<kernelVars, proc, foreground_job, waits, assert_failed>>

\* One iteration of refresh_jobs_status: waitpid(WNOHANG) for the first running
\* process of the next job.
refresh_jobs_status(j) ==
    /\ pc = "refresh"
    /\ j > scan /\ \A k \in jobs : k > scan => j <= k
    /\ scan' = j
    /\ \/ \E p \in Pid : job_get_running_process(j, p) /\ job_wait_report(p)
       \/ /\ ~ \E p \in Pid : job_get_running_process(j, p) /\ Reportable(p)
          /\ UNCHANGED <<kstate, fresh_stop, proc, job, foreground_job, term>>
    /\ UNCHANGED <<pgrp, execed, code, stops, forkVars, processes, jobs, pc, ctx_job, cur, left,
                   to_fork, procs, waits, ret, exiting, assert_failed, told, hup>>

RefreshReturns ==
    /\ pc = "refresh"
    /\ \A k \in jobs : k <= scan
    /\ pc' = "destroy"
    /\ UNCHANGED <<kernelVars, forkVars, tableVars, ctx_job, cur, left, to_fork, procs, waits,
                   scan, ret, exiting, assert_failed, told, hup>>

\* Mutant: stopped jobs are destroyed too.
Terminated_not_running == {j \in jobs : job_poll(job[j].processes, proc) # TASK_STATUS_WAIT}

\* The jobs mrsh_destroy_terminated_jobs destroys.
Terminated == {j \in jobs : job_poll(job[j].processes, proc) >= 0}

\* Mutant: job_destroy leaves foreground_job dangling.
job_destroy_dangling(js) ==
    /\ jobs' = jobs \ js
    /\ UNCHANGED <<foreground_job, term>>
    /\ ctx_job' = NoJob /\ cur' = NoJob /\ left' = 0 /\ procs' = <<>> /\ scan' = 0
    /\ to_fork' = [how |-> "run_process", n |-> 0]

\* job_destroy for every job of js, but for process_destroy; the local variables of the line are dropped.
job_destroy(js) ==
    /\ jobs' = jobs \ js
    /\ IF foreground_job \in js
       THEN foreground_job' = NoJob /\ term' = Shell
       ELSE UNCHANGED <<foreground_job, term>>
    /\ ctx_job' = NoJob /\ cur' = NoJob /\ left' = 0 /\ procs' = <<>> /\ scan' = 0
    /\ to_fork' = [how |-> "run_process", n |-> 0]

\* The loop of mrsh_destroy_terminated_jobs.
mrsh_destroy_terminated_jobs ==
    /\ pc = "destroy"
    /\ told' = [j \in JobId |->
           IF j \in jobs /\ Notify /\ job[j].pending_notification
           THEN job_poll(job[j].processes, proc) ELSE told[j]]
    /\ job' = [j \in JobId |->
           IF j \in Terminated THEN NewJob
           ELSE [job[j] EXCEPT !.pending_notification = @ /\ ~Notify]]
    /\ job_destroy(Terminated)
    /\ processes' = {p \in processes : \A j \in Terminated : ~Listed(p, j)}
    /\ pc' = IF exiting THEN "exit" ELSE "prompt"
    /\ ret' = 0
    /\ UNCHANGED <<kstate, fresh_stop, pgrp, execed, code, stops, forkVars, proc, waits, exiting,
                   assert_failed, hup>>

\* Mutant: stopped jobs are not sent SIGHUP.
mrsh_state_destroy_running ==
    /\ pc = "exit"
    /\ pc' = "done"
    /\ hup' = {p \in Pid : Unreaped(p) /\ \E j \in jobs \ Terminated_not_running :
                                              pgrp[p] = job[j].pgid}
    /\ job' = [j \in JobId |-> NewJob]
    /\ job_destroy(jobs)
    /\ processes' = {}
    /\ UNCHANGED <<kstate, fresh_stop, pgrp, execed, code, stops, forkVars, proc, waits, ret,
                   exiting, assert_failed, told>>

\* mrsh_state_destroy: broadcast_sighup_to_jobs, then every job is destroyed.
mrsh_state_destroy ==
    /\ pc = "exit"
    /\ pc' = "done"
    /\ hup' = {p \in Pid : Unreaped(p) /\ \E j \in jobs \ Terminated : pgrp[p] = job[j].pgid}
    /\ job' = [j \in JobId |-> NewJob]
    /\ job_destroy(jobs)
    /\ processes' = {}
    /\ UNCHANGED <<kstate, fresh_stop, pgrp, execed, code, stops, forkVars, proc, waits, ret,
                   exiting, assert_failed, told>>

\* The shell is gone.
Halted == pc \in {"done", "aborted"} /\ UNCHANGED vars

-----------------------------------------------------------------------------
Init ==
    /\ kstate = [p \in Pid |-> "none"]
    /\ fresh_stop = [p \in Pid |-> FALSE]
    /\ pgrp = [p \in Pid |-> Shell]
    /\ execed = [p \in Pid |-> FALSE]
    /\ code = [p \in Pid |-> 0]
    /\ term = Shell
    /\ stops = [p \in Pid |-> 0]
    /\ how = [p \in Pid |-> "run_process"]
    /\ target = [p \in Pid |-> p]
    /\ fork_fg = [p \in Pid |-> NoJob]
    /\ fork_job = [p \in Pid |-> NoJob]
    /\ processes = {}
    /\ proc = [p \in Pid |-> NewProcess]
    /\ jobs = {}
    /\ job = [j \in JobId |-> NewJob]
    /\ foreground_job = NoJob
    /\ pc = "prompt"
    /\ ctx_job = NoJob /\ cur = NoJob /\ left = 0 /\ procs = <<>> /\ waits = {} /\ scan = 0
    /\ to_fork = [how |-> "run_process", n |-> 0]
    /\ ret = 0 /\ exiting = FALSE /\ assert_failed = "none"
    /\ told = [j \in JobId |-> TASK_STATUS_WAIT]
    /\ hup = {}

\* What the user does, and what the shell then does by itself.
UserStep == ReadLine \/ ReadEof \/ WaitInterrupted

ShellStep ==
    \/ EndLine \/ RunNothing \/ RunCommand \/ ForkFails
    \/ \E p \in Pid : Fork(p) \/ ParentInit(p)
    \/ WaitBlocks \/ WaitReturns \/ FgBlocks \/ FgReturns
    \/ \E n, t \in JobId : builtin_fg(n, t) \/ builtin_bg(n, t)
    \/ AssertFails
    \/ builtin_wait
    \/ \E w \in waits : WaitEchild(w) \/ \E p \in Pid : WaitReaps(w, p)
    \/ BuiltinWaitReturns
    \/ builtin_exit
    \/ \E j \in jobs : refresh_jobs_status(j)
    \/ RefreshReturns
    \/ mrsh_destroy_terminated_jobs
    \/ mrsh_state_destroy

Next == UserStep \/ ShellStep \/ Halted \/ \E p \in Pid : ChildStep(p)

Spec == Init /\ [][Next]_vars

\* The shell runs, its children get through their initialisation, and a child that
\* can run ends.  Nobody is obliged to type a line or to continue a stopped child.
LiveSpec ==
    /\ Spec
    /\ WF_vars(ShellStep)
    /\ \A p \in Pid : WF_vars(ChildStep(p) /\ kstate[p] = "forked")
    /\ \A p \in Pid : WF_vars(ChildStep(p) /\ kstate[p] = "run" /\ kstate'[p] = "zombie")

-----------------------------------------------------------------------------
(* Properties *)

ProcRecord == [stopped : BOOLEAN, terminated : BOOLEAN, stat : {0, 129}]

JobRecord == [pgid : Pid \cup {NoGroup}, processes : Seq(Pid),
              last_status : TaskStatus, pending_notification : BOOLEAN]

PcValues == {"prompt", "line", "fork", "forked", "wait", "fg", "builtin_wait", "refresh",
             "destroy", "exit", "done", "aborted"}

KernelType ==
    /\ kstate \in [Pid -> {"none", "forked", "run", "stopped", "zombie", "reaped"}]
    /\ fresh_stop \in [Pid -> BOOLEAN]
    /\ pgrp \in [Pid -> Pid \cup {Shell}]
    /\ execed \in [Pid -> BOOLEAN]
    /\ code \in [Pid -> {0, 129}]
    /\ term \in Pid \cup {Shell}
    /\ stops \in [Pid -> Nat]

ForkType ==
    /\ how \in [Pid -> Hows]
    /\ target \in [Pid -> Pid]
    /\ fork_fg \in [Pid -> JobId \cup {NoJob}]
    /\ fork_job \in [Pid -> JobId \cup {NoJob}]

TableType ==
    /\ processes \subseteq Pid
    /\ proc \in [Pid -> ProcRecord]
    /\ jobs \subseteq JobId
    /\ job \in [JobId -> JobRecord]
    /\ foreground_job \in JobId \cup {NoJob}

EvalType ==
    /\ pc \in PcValues
    /\ ctx_job \in JobId \cup {NoJob}
    /\ cur \in JobId \cup {NoJob}
    /\ left \in Nat
    /\ to_fork \in [how : Hows, n : Nat]
    /\ procs \in Seq(Pid)
    /\ waits \subseteq [pid : Pid \cup {NoPid}, of_job : BOOLEAN]
    /\ scan \in Nat
    /\ ret \in TaskStatus
    /\ exiting \in BOOLEAN
    /\ assert_failed \in {"none", "job->pgid > 0", "priv->foreground_job == NULL"}

HistoryType ==
    /\ told \in [JobId -> TaskStatus]
    /\ hup \subseteq Pid

\* Every variable has its type: jobs, groups and processes refer only to one another.
TypeOK == KernelType /\ ForkType /\ TableType /\ EvalType /\ HistoryType

\* No job is in the foreground => the terminal belongs to the shell.  Both halves
\* of init_child and update_job move the terminal and foreground_job; only between
\* the fork and the parent's half may the child be ahead.
TerminalFollowsForeground ==
    foreground_job = NoJob /\ pc # "forked" => term = Shell

\* foreground_job points into the job table, at a job with a group, and the terminal
\* belongs to that group or, if the group was gone when tcsetpgrp was called, to the
\* shell: never to another job's group.
ForegroundJobValid ==
    foreground_job # NoJob =>
        /\ foreground_job \in jobs
        /\ job[foreground_job].pgid # NoGroup
        /\ term \in {Shell, job[foreground_job].pgid}

\* A registered process is marked terminated exactly when the shell reaped it, with
\* the status it died with: no waitpid call loses a status, and waitpid is never
\* called for a process that is gone.
ReapedIsRecorded ==
    \A p \in processes :
        /\ proc[p].terminated <=> kstate[p] = "reaped"
        /\ proc[p].terminated => proc[p].stat = code[p]

\* The terminal, SIGCONT and SIGHUP of a job never reach a process of another job: a
\* process of a job that was not reaped is in its job's group or in the shell's.
GroupsDoNotMix ==
    \A j \in jobs, p \in Pid :
        Listed(p, j) /\ Unreaped(p) => pgrp[p] \in {Shell, job[j].pgid}

\* A process that was added to a job stays in the table until it is reaped, and its job
\* with it: job_destroy frees nothing that waitpid could still report.
LiveProcessKeepsItsJob ==
    [][\A j \in jobs, p \in Pid :
          Listed(p, j) /\ Unreaped(p)' /\ pc' # "done" => j \in jobs' /\ Listed(p, j)']_vars

\* With -b, when the shell prompts, the user has been told the state that the shell
\* last recorded for every job but the one in the foreground.
NotifiedAtPrompt ==
    pc = "prompt" /\ Notify =>
        \A j \in jobs \ {foreground_job} : told[j] = job[j].last_status

\* When the shell exits, every process of a job that is still there is sent SIGHUP,
\* unless it never made it into its job's group.
ExitHangsUp ==
    [][pc = "exit" /\ pc' = "done" =>
          \A j \in jobs, p \in Pid :
              Listed(p, j) /\ Unreaped(p) /\ pgrp[p] = job[j].pgid => p \in hup']_vars

\* The shell prompts with the terminal in its hands, unless the job in the foreground has a
\* member it did not wait for: the rest of a pipeline that was given up because one member
\* stopped or could not be forked, or the asynchronous part of a compound command.
PromptHasTerminal ==
    pc = "prompt" /\ term # Shell =>
        \E p \in Pid : /\ Listed(p, foreground_job) /\ how[p] \in {"run_pipeline", "async"}
                      /\ process_poll(proc[p]) = TASK_STATUS_WAIT

\* Every line comes to an end: waitpid in the foreground is only ever called for a
\* child that can still report, and stopped members do not block it.  (The wait builtin
\* does block on a stopped child.)
LineEnds == pc = "line" ~> pc \in {"prompt", "done", "aborted", "builtin_wait"}

-----------------------------------------------------------------------------
(* What the repository says of this code and the code does not keep. *)

\* shell/job.c asserts that no other job is in the foreground when one is put there.
ForegroundAssertion == assert_failed # "priv->foreground_job == NULL"

=============================================================================
