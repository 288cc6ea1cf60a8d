---------------------------- MODULE Descriptors -----------------------------
(***************************************************************************)
(* The file descriptors of the shell and of the processes it starts:       *)
(* redirections, here-documents and pipelines.                             *)
(*                                                                         *)
(* A process has a table of descriptors and a list of what it still has to *)
(* do.  What is open is <<"in", 0>>, <<"out", 0>> or <<"err", 0>> for what *)
(* the shell was started with, <<"file", n>>, or an end <<"r", p>> or      *)
(* <<"w", p>> of the pipe p.  Of what is in a pipe only the length is kept.*)
(* The first process is an interactive shell that runs a script, a         *)
(* sequence of pipelines.                                                  *)
(***************************************************************************)
EXTENDS Integers, FiniteSets, SequencesExt

CONSTANTS
    Scripts,    \* the scripts that are run: sequences of pipelines, which are sequences of commands
    PipeBuf,    \* PIPE_BUF
    Capacity,   \* how much a pipe holds
    MaxFd,      \* the highest descriptor that a process may have
    MaxProcess, \* bound: processes that are started
    MaxFaults   \* bound: calls of pipe and fork that fail

None == -1
Failed == -2
Fd == 0 .. MaxFd

\* A file that is not there is None; a program copies its input, or writes to a descriptor.
Redirection(r) ==
    /\ r.to \in Fd
    /\ r.op = "open" => r.from \in Nat \cup {None}
    /\ r.op = "dup" => r.from \in Fd
Runs(task) == task.task \in {"write", "cat"} /\ (task.task = "write" => task.fd \in Fd)

ASSUME DescriptorsAssumption ==
    /\ MaxFd \in Nat /\ MaxFd >= 2
    /\ \A s \in Scripts : s \in Seq(Range(s)) /\ \A stages \in Range(s) :
          /\ stages \in Seq(Range(stages))
          /\ \A c \in Range(stages) :
                /\ c.builtin \in BOOLEAN /\ Runs(c.run)
                /\ c.redirs \in Seq(Range(c.redirs)) /\ \A r \in Range(c.redirs) : Redirection(r)

VARIABLES
    script,
    procs,   \* the processes, in the order in which they were started: descriptors, tasks, the
             \* descriptors that run_builtin has saved, and whether it has ended
    pipes,   \* how much is in each pipe
    faults,  \* calls of pipe and fork that have failed
    spoilt   \* history: a builtin of the shell had redirections that are not undone

all == <<script, procs, pipes, faults, spoilt>>

Closed == <<"closed", 0>>

Free(fds) == {k \in Fd : fds[k] = Closed}
Lowest(fds) == Min(Free(fds))
Open(fds, o) == [fds EXCEPT ![Lowest(fds)] = o]
Close(fds, S) == [k \in Fd |-> IF k \in S THEN Closed ELSE fds[k]]
dup2(fds, from, to) == [fds EXCEPT ![to] = fds[from]]

Now(p) == procs[p].todo[1]
Doing(p, task) == procs[p].todo # <<>> /\ Now(p).task = task
Rest(p) == Tail(procs[p].todo)
Process(fds, todo) == [fds |-> fds, todo |-> todo, saved |-> <<>>, ended |-> FALSE]
Becomes(p, fds, todo, saved) ==
    [procs EXCEPT ![p] = [fds |-> fds, todo |-> todo, saved |-> saved, ended |-> FALSE]]
DoesWith(p, fds, todo) == Becomes(p, fds, todo, procs[p].saved)
Does(p, todo) == DoesWith(p, procs[p].fds, todo)
Ends(ps, p) == [ps EXCEPT ![p] = [fds |-> [k \in Fd |-> Closed], todo |-> <<>>, saved |-> <<>>, ended |-> TRUE]]
Held(end, pipe) == \E q \in DOMAIN procs : \E k \in Fd : procs[q].fds[k] = <<end, pipe>>

CanFork == Len(procs) < MaxProcess
Fault == faults < MaxFaults /\ faults' = faults + 1

-----------------------------------------------------------------------------
(* Commands and pipelines *)

Command(stages) == [task |-> "command", stages |-> stages]
Redirect(redirs, builtin, fd) == [task |-> "redirect", left |-> redirs, builtin |-> builtin, fd |-> fd]
Document(lines, r, w) == [task |-> "document", lines |-> lines, r |-> r, w |-> w]
WriteTo(fd, len) == [task |-> "write", fd |-> fd, len |-> len]
Restore == [task |-> "restore"]
Stage(stages, cur_stdin, pids) == [task |-> "stage", left |-> stages, cur_stdin |-> cur_stdin, pids |-> pids]
Wait(pids) == [task |-> "wait", pids |-> pids]

\* Redirections of a builtin that the shell does not undo as it should: one descriptor twice,
\* or one that may be a saved copy.
Entangled(redirs) ==
    \/ \E j, k \in DOMAIN redirs : j # k /\ redirs[j].to = redirs[k].to
    \/ \E k \in DOMAIN redirs : redirs[k].to > 2

run_builtin(p) ==
    /\ Doing(p, "command") /\ Len(Now(p).stages) = 1 /\ Now(p).stages[1].builtin
    /\ LET c == Now(p).stages[1]
       IN  /\ procs' = Does(p, <<Redirect(c.redirs, TRUE, None), c.run, Restore>> \o Rest(p))
           /\ spoilt' = (spoilt \/ (p = 1 /\ Entangled(c.redirs)))
    /\ UNCHANGED <<script, pipes, faults>>

\* The child redirects and runs the program.
run_process(p) ==
    /\ Doing(p, "command") /\ Len(Now(p).stages) = 1 /\ ~Now(p).stages[1].builtin
    /\ LET c == Now(p).stages[1]
       IN  \/ /\ CanFork
              /\ procs' = Append(Does(p, <<Wait({Len(procs) + 1})>> \o Rest(p)),
                                 Process(procs[p].fds, <<Redirect(c.redirs, FALSE, None), c.run>>))
              /\ UNCHANGED faults
           \/ Fault /\ procs' = Does(p, Rest(p))
    /\ UNCHANGED <<script, pipes, spoilt>>

run_pipeline(p) ==
    /\ Doing(p, "command") /\ Len(Now(p).stages) > 1
    /\ procs' = Does(p, <<Stage(Now(p).stages, None, {})>> \o Rest(p))
    /\ UNCHANGED <<script, pipes, faults, spoilt>>

\* Mutant: a child keeps the end that its successor reads from.
ChildEnds_open(fds, cur_stdin, next_stdin, cur_stdout) ==
    LET a == IF cur_stdin \in {None, 0} THEN fds ELSE Close(dup2(fds, cur_stdin, 0), {cur_stdin})
    IN  IF cur_stdout \in {None, 1} THEN a ELSE Close(dup2(a, cur_stdout, 1), {cur_stdout})

\* What a child of a pipeline does with the ends that it inherits.
ChildEnds(fds, cur_stdin, next_stdin, cur_stdout) ==
    LET a == IF next_stdin = None THEN fds ELSE Close(fds, {next_stdin})
        b == IF cur_stdin \in {None, 0} THEN a ELSE Close(dup2(a, cur_stdin, 0), {cur_stdin})
    IN  IF cur_stdout \in {None, 1} THEN b ELSE Close(dup2(b, cur_stdout, 1), {cur_stdout})

\* Mutant: the shell keeps the end that its child writes to.
ParentEnds_open(fds, cur_stdin, cur_stdout) == Close(fds, {cur_stdin})

\* And what the shell closes after the fork.
ParentEnds(fds, cur_stdin, cur_stdout) == Close(fds, {cur_stdin, cur_stdout})

\* One round of the loop over the commands.  A call of pipe or fork that fails returns with
\* the ends that are open by then, and without waiting for the children that were started.
PipelineStage(p) ==
    /\ Doing(p, "stage")
    /\ LET n == Now(p)
           fds == procs[p].fds
           last == Len(n.left) = 1
           pipe == Len(pipes) + 1
           room == last \/ Cardinality(Free(fds)) >= 2
           read == Open(fds, <<"r", pipe>>)
           both == IF last THEN fds ELSE Open(read, <<"w", pipe>>)
           next_stdin == IF last THEN None ELSE Lowest(fds)
           cur_stdout == IF last THEN None ELSE Lowest(read)
           pids == n.pids \cup {Len(procs) + 1}
       IN  \/ /\ room /\ CanFork
              /\ pipes' = IF last THEN pipes ELSE Append(pipes, 0)
              /\ procs' = Append(DoesWith(p, ParentEnds(both, n.cur_stdin, cur_stdout),
                                          <<IF last THEN Wait(pids)
                                            ELSE Stage(Tail(n.left), next_stdin, pids)>> \o Rest(p)),
                                 Process(ChildEnds(both, n.cur_stdin, next_stdin, cur_stdout),
                                         <<Command(<<n.left[1]>>)>>))
              /\ UNCHANGED faults
           \/ /\ ~last /\ IF room THEN Fault ELSE UNCHANGED faults    \* pipe
              /\ procs' = Does(p, Rest(p)) /\ UNCHANGED pipes
           \/ /\ room /\ Fault                                        \* fork
              /\ procs' = DoesWith(p, both, Rest(p))
              /\ pipes' = IF last THEN pipes ELSE Append(pipes, 0)
    /\ UNCHANGED <<script, spoilt>>

job_wait_process(p) ==
    /\ Doing(p, "wait") /\ \A q \in Now(p).pids : procs[q].ended
    /\ procs' = Does(p, Rest(p))
    /\ UNCHANGED <<script, pipes, faults, spoilt>>

-----------------------------------------------------------------------------
(* Redirections: a redirection has the operator op, "open", "dup" or "here", the descriptor *)
(* to that it redirects, and what it takes from: a file that may not be there, a descriptor,*)
(* or the lengths of the lines of a document                                                *)

\* A redirection that fails ends a child; a builtin of the shell is not run, and what its
\* earlier redirections have done is not undone.
RedirectFails(p, fds) ==
    IF Now(p).builtin
    THEN /\ procs' = Becomes(p, fds, SubSeq(procs[p].todo, 4, Len(procs[p].todo)), <<>>)
         /\ spoilt' = (spoilt \/ (p = 1 /\ procs[p].saved # <<>>))
    ELSE procs' = Ends(procs, p) /\ UNCHANGED spoilt

\* On to the next redirection.
Redirected(p) == <<Redirect(Tail(Now(p).left), Now(p).builtin, None)>> \o Rest(p)

\* dup2 in a child.
RedirectChild(p, fds, fd, to) ==
    IF fd # to /\ fds[fd] = Closed THEN RedirectFails(p, fds)
    ELSE procs' = DoesWith(p, dup2(fds, fd, to), Redirected(p)) /\ UNCHANGED spoilt

dup_and_save_fd(p, fds, fd, to) ==
    LET copied == Open(fds, fds[to])
    IN  IF fd = to THEN procs' = DoesWith(p, fds, Redirected(p)) /\ UNCHANGED spoilt
        ELSE IF fds[to] = Closed \/ Free(fds) = {} THEN RedirectFails(p, fds)
        ELSE IF copied[fd] = Closed THEN RedirectFails(p, copied)
        ELSE /\ procs' = Becomes(p, dup2(copied, fd, to), Redirected(p),
                                 Append(procs[p].saved, [dup_fd |-> Lowest(fds), redir_fd |-> to]))
             /\ UNCHANGED spoilt

\* One round of the loop over the redirections, or the end of the loop.  The descriptor of a
\* file stays open in the shell behind the redirection.
process_redir(p) ==
    /\ Doing(p, "redirect")
    /\ LET n == Now(p)
           r == n.left[1]
           fds == procs[p].fds
           Applied(fs, fd) == IF n.builtin THEN dup_and_save_fd(p, fs, fd, r.to) ELSE RedirectChild(p, fs, fd, r.to)
       IN  \/ /\ n.left = <<>> /\ procs' = Does(p, Rest(p)) /\ UNCHANGED <<spoilt, pipes>>
           \/ /\ n.left # <<>> /\ n.fd # None /\ UNCHANGED pipes
              /\ IF n.fd = Failed THEN RedirectFails(p, fds) ELSE Applied(fds, n.fd)
           \/ /\ n.left # <<>> /\ n.fd = None /\ r.op = "open"
              /\ IF r.from = None \/ Free(fds) = {} THEN RedirectFails(p, fds)
                 ELSE Applied(Open(fds, <<"file", r.from>>), Lowest(fds))
              /\ UNCHANGED pipes
           \/ /\ n.left # <<>> /\ n.fd = None /\ r.op = "dup" /\ Applied(fds, r.from) /\ UNCHANGED pipes
           \/ /\ n.left # <<>> /\ n.fd = None /\ r.op = "here"
              /\ IF Cardinality(Free(fds)) < 2 THEN RedirectFails(p, fds) /\ UNCHANGED pipes
                 ELSE LET read == Open(fds, <<"r", Len(pipes) + 1>>)
                      IN  /\ pipes' = Append(pipes, 0)
                          /\ procs' = DoesWith(p, Open(read, <<"w", Len(pipes) + 1>>),
                                 <<Document(r.from, Lowest(fds), Lowest(read))>> \o procs[p].todo)
                          /\ UNCHANGED spoilt
    /\ UNCHANGED <<script, faults>>

Total(lines) == FoldLeft(LAMBDA s, l : s + l, 0, lines)
\* The redirection goes on with the descriptor fd.
Returns(p, fds, fd) ==
    LET n == procs[p].todo[2]
    IN  DoesWith(p, fds, <<Redirect(n.left, n.builtin, fd)>> \o SubSeq(procs[p].todo, 3, Len(procs[p].todo)))

\* The lines are written up to one that is longer than PIPE_BUF, which with all that
\* follow it is left to a process of its own; remaining is not lowered.
create_here_document_fd(p) ==
    /\ Doing(p, "document")
    /\ LET n == Now(p)
           fds == procs[p].fds
       IN  \/ /\ n.lines = <<>>
              /\ procs' = Returns(p, Close(fds, {n.w}), n.r) /\ UNCHANGED <<faults, spoilt>>
           \/ /\ n.lines # <<>> /\ n.lines[1] <= PipeBuf
              /\ procs' = Does(p, <<WriteTo(n.w, n.lines[1]), Document(Tail(n.lines), n.r, n.w)>> \o Rest(p))
              /\ UNCHANGED <<faults, spoilt>>
           \/ /\ n.lines # <<>> /\ n.lines[1] > PipeBuf /\ CanFork
              /\ procs' = Append(Returns(p, Close(fds, {n.w}), n.r),
                                 Process(Close(fds, {n.r}), <<WriteTo(n.w, Total(n.lines))>>))
              /\ UNCHANGED <<faults, spoilt>>
           \/ /\ n.lines # <<>> /\ n.lines[1] > PipeBuf /\ Fault
              /\ procs' = Returns(p, Close(fds, {n.r, n.w}), Failed) /\ UNCHANGED spoilt
    /\ UNCHANGED <<script, pipes>>

\* Mutant: only the first of the saved descriptors is put back.
Unrestored_none(saved) == <<>>

\* What is left to put back after a round of the loop.
Unrestored(saved) == Tail(saved)

\* One round of the loop over the saved descriptors, in the order in which they were
\* saved, or the end of the loop.
RestoreDescriptors(p) ==
    /\ Doing(p, "restore")
    /\ LET saved == procs[p].saved
           s == saved[1]
       IN  \/ saved = <<>> /\ procs' = Does(p, Rest(p))
           \/ /\ saved # <<>>
              /\ procs' = Becomes(p, Close(dup2(procs[p].fds, s.dup_fd, s.redir_fd), {s.dup_fd}),
                                  procs[p].todo, Unrestored(saved))
    /\ UNCHANGED <<script, pipes, faults, spoilt>>

-----------------------------------------------------------------------------
(* Programs, and what the operating system does for them *)

\* write blocks while a pipe is full, and the signal SIGPIPE ends who writes to one that
\* nobody reads.  What is not open for writing is an error that the program lives with.
Write(p) ==
    /\ Doing(p, "write")
    /\ LET n == Now(p)
           o == procs[p].fds[n.fd]
       IN  \/ /\ n.len = 0 \/ o[1] # "w"
              /\ procs' = Does(p, Rest(p)) /\ UNCHANGED pipes
           \/ /\ n.len > 0 /\ o[1] = "w" /\ ~Held("r", o[2])
              /\ procs' = Ends(procs, p) /\ UNCHANGED pipes
           \/ /\ n.len > 0 /\ o[1] = "w" /\ Held("r", o[2]) /\ pipes[o[2]] < Capacity
              /\ pipes' = [pipes EXCEPT ![o[2]] = @ + 1]
              /\ procs' = Does(p, <<WriteTo(n.fd, n.len - 1)>> \o Rest(p))
    /\ UNCHANGED <<script, faults, spoilt>>

\* Standard input is copied to standard output, up to its end: that of a pipe comes when it
\* is empty and nobody can write to it.
Cat(p) ==
    /\ Doing(p, "cat")
    /\ LET o == procs[p].fds[0]
       IN  \/ /\ o[1] # "r" \/ (pipes[o[2]] = 0 /\ ~Held("w", o[2]))
              /\ procs' = Does(p, Rest(p)) /\ UNCHANGED pipes
           \/ /\ o[1] = "r" /\ pipes[o[2]] > 0
              /\ pipes' = [pipes EXCEPT ![o[2]] = @ - 1]
              /\ procs' = Does(p, <<WriteTo(1, 1)>> \o procs[p].todo)
    /\ UNCHANGED <<script, faults, spoilt>>

\* The shell itself waits for the next line.
Exit(p) ==
    /\ p # 1 /\ procs[p].todo = <<>> /\ ~procs[p].ended
    /\ procs' = Ends(procs, p)
    /\ UNCHANGED <<script, pipes, faults, spoilt>>

-----------------------------------------------------------------------------

Standard == [k \in Fd |-> IF k = 0 THEN <<"in", 0>> ELSE IF k = 1 THEN <<"out", 0>>
                          ELSE IF k = 2 THEN <<"err", 0>> ELSE Closed]

Init ==
    /\ script \in Scripts
    /\ procs = <<Process(Standard, [k \in DOMAIN script |-> Command(script[k])])>>
    /\ pipes = <<>> /\ faults = 0 /\ spoilt = FALSE

Step(p) ==
    /\ p \in DOMAIN procs
    /\ \/ run_builtin(p) \/ run_process(p) \/ run_pipeline(p) \/ PipelineStage(p) \/ job_wait_process(p)
       \/ process_redir(p) \/ create_here_document_fd(p) \/ RestoreDescriptors(p)
       \/ Write(p) \/ Cat(p) \/ Exit(p)

Next == \E p \in 1 .. MaxProcess : Step(p)

Spec == Init /\ [][Next]_all

\* The operating system runs every process that can run.
FairSpec == Spec /\ \A p \in 1 .. MaxProcess : WF_all(Step(p))

-----------------------------------------------------------------------------
(* Properties *)

\* Between two commands the shell has the standard input, output and error that it was
\* started with, after any builtins, processes and pipelines with their redirections, unless
\* a builtin had a redirection that failed after others had been made (simple_command.c:160),
\* or redirections that are put back in the wrong order (:179: one descriptor twice) or over
\* a saved copy (one above 2).
StandardDescriptorsKept ==
    ~spoilt /\ (procs[1].todo = <<>> \/ Doing(1, "command")) =>
        \A k \in 0 .. 2 : procs[1].fds[k] = Standard[k]

\* The process p is writing a here-document to the descriptor w, to be read from r.
WritesDocument(p, r, w) ==
    LET todo == procs[p].todo
    IN  \E k \in DOMAIN todo \cap 1 .. 2 :
            todo[k].task = "document" /\ todo[k].r = r /\ todo[k].w = w /\ (k = 2 => Doing(p, "write"))

\* No process keeps an end of a pipe that makes one wait for ever.  None, the shell or a child, has
\* one for writing and one of the same pipe for reading, which it would find no end of, or fill with
\* no other to read.  And the shell has none at all for writing, in the loop of run_pipeline, while
\* it waits and between two commands: those who read from the pipe would find no end for as long as it runs.
\* Excepted are the shell or child that writes a here-document into a pipe of its own
\* (redir.c:37), for as long as it does, and a call of fork that failed, behind which
\* the shell keeps both ends (pipeline.c:63).
EndsApart ==
    \A p \in DOMAIN procs : \A r, w \in Fd :
        LET fds == procs[p].fds
        IN  fds[r][1] = "r" /\ fds[w] = <<"w", fds[r][2]>> => WritesDocument(p, r, w)
NoneHeld == \A w \in Fd : procs[1].fds[w][1] = "w" => \E r \in Fd : WritesDocument(1, r, w)
PipeEndsReleased == faults = 0 => EndsApart /\ NoneHeld

\* The part of a document that is written before a process is started for it.
Unforked(lines) ==
    LET long == {k \in DOMAIN lines : lines[k] > PipeBuf}
    IN  Total(SubSeq(lines, 1, IF long = {} THEN Len(lines) ELSE Min(long) - 1))

\* What the shell or a child writes to a here-document itself fits the pipe, and so does all
\* of it when it is for a builtin, which does not read it.
DocumentsFit ==
    \A j \in DOMAIN script : \A k \in DOMAIN script[j] : \A r \in Range(script[j][k].redirs) :
        r.op = "here" => /\ Unforked(r.from) <= Capacity
                         /\ script[j][k].builtin => Total(r.from) <= Capacity

Quiet == \A p \in DOMAIN procs : procs[p].todo = <<>> /\ (p = 1 \/ procs[p].ended)

\* Every pipeline and every here-document is read and written to its end: no process waits for
\* ever for another to read, to write or to close its end of a pipe, and the shell comes
\* back (run_pipeline closes the ends at pipeline.c:73-93 and :106-116; the writer of a long
\* here-document is a process of its own, redir.c:71).  Excepted are a call of pipe or
\* fork that failed (pipeline.c:48) and here-documents that do not fit (redir.c:54).
EveryCommandEnds == <>(Quiet \/ faults > 0 \/ ~DocumentsFit)

=============================================================================
