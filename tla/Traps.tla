------------------------------- MODULE Traps -------------------------------
(***************************************************************************)
(* Traps of mrsh: the table of shell/trap.c and its counters of pending    *)
(* signals, the signal handler that interrupts the shell at any point,     *)
(* run_pending_traps at the end of every mrsh_run_program (an input line,  *)
(* eval, the dot builtin, a command substitution), the exit trap, and      *)
(* what becomes of traps in the processes the shell forks.                 *)
(*                                                                         *)
(* A trap that is caught has a program and no other has one.  A program    *)
(* that replaces the very trap it runs for, and one shared by several      *)
(* conditions, are left out: set_trap frees them while they are in use.    *)
(***************************************************************************)
EXTENDS Integers, Sequences

CONSTANTS
    Conditions,      \* the signal numbers looked at; 0 is EXIT
    Interactive,     \* state->interactive
    IgnoredOnEntry,  \* signals with SIG_IGN when the shell starts
    Statuses,        \* values of $?
    MaxSignals       \* bound: how often each signal is delivered

ASSUME ConditionsAssumption ==
    /\ Conditions \subseteq 0 .. 63 /\ 0 \in Conditions
    /\ Interactive \in BOOLEAN
    /\ IgnoredOnEntry \subseteq Conditions \ {0}
    /\ 0 \in Statuses /\ Statuses \subseteq 0 .. 255
    /\ MaxSignals \in Nat

VARIABLES
    traps,         \* priv->traps
    disp,          \* the disposition sigaction installed (external)
    pending_sigs,
    in_trap,       \* the static flag of run_pending_traps
    last_status,   \* $?
    exit,          \* state->exit was set
    job_control,
    kind,          \* "main", or what the process followed was forked for
    pc,            \* where the shell is, outside run_pending_traps
    stack,         \* the active calls of run_pending_traps
    \* History.
    delivered,     \* how often a condition arose
    runs,          \* how often its trap was run
    owed           \* conditions the running call of run_pending_traps has yet to serve

vars == <<traps, disp, pending_sigs, in_trap, last_status, exit, job_control, kind, pc, stack,
          delivered, runs, owed>>

\* SIGINT, SIGQUIT, SIGTSTP, SIGTTIN and SIGTTOU.
ignored_job_control_sigs == <<2, 3, 20, 21, 22>>

JobControlSigs == {ignored_job_control_sigs[k] : k \in DOMAIN ignored_job_control_sigs}

Actions == {"DEFAULT", "IGNORE", "CATCH"}
Kinds == {"main", "subshell", "substitution", "child"}

NoTrap == [set |-> FALSE, action |-> "DEFAULT"]

Handler(action) ==
    CASE action = "DEFAULT" -> "SIG_DFL"
      [] action = "IGNORE"  -> "SIG_IGN"
      [] action = "CATCH"   -> "handle_signal"

-----------------------------------------------------------------------------
(* The trap table *)

\* A signal that was ignored on entry to a non-interactive shell cannot be trapped.
CannotTrap(s) == s # 0 /\ ~traps[s].set /\ ~Interactive /\ disp[s] = "SIG_IGN"

\* With job control jc some signals are ignored by default.
Effective(s, action, jc) ==
    IF s # 0 /\ action = "DEFAULT" /\ jc /\ s \in JobControlSigs THEN "IGNORE" ELSE action

set_trap(s, action) ==
    LET e == Effective(s, action, job_control)
    IN  /\ ~CannotTrap(s)
        /\ traps' = [traps EXCEPT ![s] = [set |-> TRUE, action |-> e]]
        /\ disp' = IF s = 0 THEN disp ELSE [disp EXCEPT ![s] = Handler(e)]

\* set_job_control_traps(state, enabled): the handlers of the job control signals,
\* and the table entries of the conditions 0 .. 4.
JobControlHandlers(enabled) ==
    [s \in Conditions |->
        IF s \notin JobControlSigs THEN disp[s]
        ELSE IF enabled THEN "SIG_IGN" ELSE "SIG_DFL"]

JobControlTraps ==
    [s \in Conditions |-> IF s < Len(ignored_job_control_sigs) THEN NoTrap ELSE traps[s]]

\* reset_caught_traps on the table t and the handlers d.
Caught(t) == {s \in Conditions : t[s].set /\ t[s].action # "IGNORE"}

ResetTraps(t, jc) ==
    [s \in Conditions |->
        IF s \in Caught(t) THEN [set |-> TRUE, action |-> Effective(s, "DEFAULT", jc)] ELSE t[s]]

ResetHandlers(t, d, jc) ==
    [s \in Conditions |->
        IF s \in Caught(t) \ {0} THEN Handler(Effective(s, "DEFAULT", jc)) ELSE d[s]]

-----------------------------------------------------------------------------
(* run_pending_traps *)

Top == stack[Len(stack)]
Pop == SubSeq(stack, 1, Len(stack) - 1)
WithTop(f) == [stack EXCEPT ![Len(stack)] = f]

\* Mutant: no guard against a trap that runs a program of its own.
run_pending_traps_unguarded(st, ps) ==
    /\ in_trap' = TRUE
    /\ stack' = Append(st, [at |-> "test", i |-> 0, saved |-> last_status, load |-> 0,
                            negative |-> FALSE])
    /\ owed' = {s \in Conditions : ps[s] > 0 /\ traps[s].set /\ traps[s].action = "CATCH"}

\* The call itself, on top of the calls st and with the counters ps.
run_pending_traps(st, ps) ==
    IF in_trap THEN stack' = st /\ UNCHANGED <<in_trap, owed>>
    ELSE /\ in_trap' = TRUE
         /\ stack' = Append(st, [at |-> "test", i |-> 0, saved |-> last_status, load |-> 0,
                                 negative |-> FALSE])
         /\ owed' = {s \in Conditions : ps[s] > 0 /\ traps[s].set /\ traps[s].action = "CATCH"}

At(place) == stack # <<>> /\ Top.at = place

\* Mutant: continue in place of break, for a signal that is pending and not caught.
TestPending_continues ==
    LET i == Top.i
        caught == traps[i].set /\ traps[i].action = "CATCH"
    IN  /\ At("test")
        /\ IF pending_sigs[i] > 0 /\ caught
           THEN /\ stack' = WithTop([Top EXCEPT !.at = "trap"])
                /\ runs' = [runs EXCEPT ![i] = @ + 1]
                /\ owed' = owed \ {i}
           ELSE /\ stack' = IF pending_sigs[i] > 0 THEN stack
                            ELSE WithTop([Top EXCEPT !.at = "clear"])
                /\ UNCHANGED <<runs, owed>>
        /\ UNCHANGED <<traps, disp, pending_sigs, in_trap, last_status, exit, job_control, kind,
                       pc, delivered>>

\* while (pending_sigs[i] > 0), and the conditions under which it breaks.
TestPending ==
    LET i == Top.i
    IN  /\ At("test")
        /\ IF pending_sigs[i] > 0 /\ traps[i].set /\ traps[i].action = "CATCH"
           THEN /\ stack' = WithTop([Top EXCEPT !.at = "trap"])
                /\ runs' = [runs EXCEPT ![i] = @ + 1]
                /\ owed' = owed \ {i}
           ELSE /\ stack' = WithTop([Top EXCEPT !.at = "clear"])
                /\ UNCHANGED <<runs, owed>>
        /\ UNCHANGED <<traps, disp, pending_sigs, in_trap, last_status, exit, job_control, kind,
                       pc, delivered>>

\* mrsh_run_program returned: a negative status leaves run_pending_traps at once.
TrapReturns ==
    /\ At("ended")
    /\ stack' = IF Top.negative THEN Pop
                ELSE WithTop([Top EXCEPT !.at = "store", !.load = pending_sigs[Top.i]])
    /\ UNCHANGED <<traps, disp, pending_sigs, in_trap, last_status, exit, job_control, kind, pc,
                   delivered, runs, owed>>

\* Mutants: every signal that arrived is taken as served; $? is not restored; the
\* counter is not decremented.
Decrement_to_zero ==
    /\ At("store")
    /\ pending_sigs' = [pending_sigs EXCEPT ![Top.i] = 0]
    /\ last_status' = Top.saved
    /\ stack' = WithTop([Top EXCEPT !.at = "test"])
    /\ UNCHANGED <<traps, disp, in_trap, exit, job_control, kind, pc, delivered, runs, owed>>

Decrement_keeps_status ==
    /\ At("store")
    /\ pending_sigs' = [pending_sigs EXCEPT ![Top.i] = Top.load - 1]
    /\ stack' = WithTop([Top EXCEPT !.at = "test"])
    /\ UNCHANGED <<traps, disp, in_trap, last_status, exit, job_control, kind, pc, delivered, runs,
                   owed>>

Decrement_none ==
    /\ At("store")
    /\ last_status' = Top.saved
    /\ stack' = WithTop([Top EXCEPT !.at = "test"])
    /\ UNCHANGED <<traps, disp, pending_sigs, in_trap, exit, job_control, kind, pc, delivered, runs,
                   owed>>

\* Mutant: the counter is decremented twice.
Decrement_twice ==
    /\ At("store")
    /\ pending_sigs' = [pending_sigs EXCEPT ![Top.i] = Top.load - 2]
    /\ last_status' = Top.saved
    /\ stack' = WithTop([Top EXCEPT !.at = "test"])
    /\ UNCHANGED <<traps, disp, in_trap, exit, job_control, kind, pc, delivered, runs, owed>>

\* pending_sigs[i]--, which reads the counter first, and the restored status.
Decrement ==
    /\ At("store")
    /\ pending_sigs' = [pending_sigs EXCEPT ![Top.i] = Top.load - 1]
    /\ last_status' = Top.saved
    /\ stack' = WithTop([Top EXCEPT !.at = "test"])
    /\ UNCHANGED <<traps, disp, in_trap, exit, job_control, kind, pc, delivered, runs, owed>>

\* pending_sigs[i] = 0, and the next condition or the end of the loop.
Clear ==
    LET i    == Top.i
        more == {s \in Conditions : s > i}
    IN  /\ At("clear")
        /\ pending_sigs' = [pending_sigs EXCEPT ![i] = 0]
        /\ \/ /\ more # {}
              /\ stack' = WithTop([Top EXCEPT !.at = "test",
                                              !.i = CHOOSE s \in more : \A k \in more : s <= k])
              /\ UNCHANGED in_trap
           \/ /\ more = {}
              /\ stack' = Pop
              /\ in_trap' = FALSE
        /\ UNCHANGED <<traps, disp, last_status, exit, job_control, kind, pc, delivered, runs, owed>>

-----------------------------------------------------------------------------
(* The commands of a program: of the line, or of the trap on top.  pc:       *)
(*   "read"  reading a line              "run"     in the program            *)
(*   "after" traps after the program     "eval"    traps after an eval       *)
(*   "leaving" the main loop was left    "exiting" in run_exit_trap          *)
(*   "entered" a child starts            "done"    the process has exited    *)

Executing == (pc = "run" /\ stack = <<>>) \/ At("trap")

\* The conditions whose programs are in use.
InUse == {stack[k].i : k \in DOMAIN stack}

\* A command that changes nothing but $?.
RunCommand ==
    /\ Executing
    /\ last_status' \in Statuses
    /\ UNCHANGED <<traps, disp, pending_sigs, in_trap, exit, job_control, kind, pc, stack,
                   delivered, runs, owed>>

builtin_trap(s, action) ==
    /\ Executing /\ s \notin InUse
    /\ set_trap(s, action)
    /\ owed' = owed \ {s}
    /\ UNCHANGED <<pending_sigs, in_trap, last_status, exit, job_control, kind, pc, stack,
                   delivered, runs>>

\* set -m and set +m: mrsh_set_job_control.
builtin_set(enabled) ==
    /\ Executing /\ job_control # enabled
    /\ \A s \in InUse : s >= Len(ignored_job_control_sigs)
    /\ job_control' = enabled
    /\ traps' = JobControlTraps
    /\ disp' = JobControlHandlers(enabled)
    /\ owed' = {s \in owed : s >= Len(ignored_job_control_sigs)}
    /\ UNCHANGED <<pending_sigs, in_trap, last_status, exit, kind, pc, stack, delivered, runs>>

\* eval and the dot builtin run a program of their own and the traps after it.
builtin_eval ==
    /\ Executing
    /\ pc' = IF stack = <<>> THEN "eval" ELSE pc
    /\ run_pending_traps(stack, pending_sigs)
    /\ UNCHANGED <<traps, disp, pending_sigs, last_status, exit, job_control, kind, delivered, runs>>

EvalReturns ==
    /\ pc = "eval" /\ stack = <<>>
    /\ pc' = "run"
    /\ UNCHANGED <<traps, disp, pending_sigs, in_trap, last_status, exit, job_control, kind, stack,
                   delivered, runs, owed>>

\* The body of a program ends, with a negative status or not, and by exit or not.
EndProgram(negative, exits) ==
    /\ exits => negative
    /\ exit' = (exit \/ exits)
    /\ \/ /\ At("trap")
          /\ run_pending_traps(WithTop([Top EXCEPT !.at = "ended", !.negative = negative]),
                               pending_sigs)
          /\ UNCHANGED pc
       \/ /\ pc = "run" /\ stack = <<>> /\ kind \in {"main", "substitution"}
          /\ run_pending_traps(stack, pending_sigs)
          /\ pc' = "after"
       \/ /\ pc = "run" /\ stack = <<>> /\ kind \in {"subshell", "child"}
          /\ pc' = "done"
          /\ UNCHANGED <<stack, in_trap, owed>>
    /\ UNCHANGED <<traps, disp, pending_sigs, last_status, job_control, kind, delivered, runs>>

ProgramReturns ==
    /\ pc = "after" /\ stack = <<>>
    /\ pc' = IF kind # "main" THEN "done" ELSE IF exit THEN "leaving" ELSE "read"
    /\ UNCHANGED <<traps, disp, pending_sigs, in_trap, last_status, exit, job_control, kind, stack,
                   delivered, runs, owed>>

\* A fork, followed into the child.  run_subshell resets the caught traps, a command
\* substitution leaves job control first and resets them unless it only prints them,
\* a pipeline or an asynchronous list only leaves job control.
Forks(k, resets) ==
    LET leaves == k # "subshell" /\ job_control
        t      == IF leaves THEN JobControlTraps ELSE traps
        d      == IF leaves THEN JobControlHandlers(FALSE) ELSE disp
        jc     == job_control /\ ~leaves
    IN  /\ Executing
        /\ k # "main"
        /\ resets \in (IF k = "substitution" THEN BOOLEAN ELSE {k = "subshell"})
        /\ kind' = k
        /\ pc' = "entered"
        /\ stack' = <<>>
        /\ job_control' = jc
        /\ traps' = IF resets THEN ResetTraps(t, jc) ELSE t
        /\ disp' = IF resets THEN ResetHandlers(t, d, jc) ELSE d
        /\ owed' = {}
        /\ UNCHANGED <<pending_sigs, in_trap, last_status, exit, delivered, runs>>

ChildStarts ==
    /\ pc = "entered"
    /\ pc' = "run"
    /\ UNCHANGED <<traps, disp, pending_sigs, in_trap, last_status, exit, job_control, kind, stack,
                   delivered, runs, owed>>

-----------------------------------------------------------------------------
(* main and the signal handler *)

ReadLine ==
    /\ pc = "read"
    /\ pc' \in {"run", "leaving"}
    /\ UNCHANGED <<traps, disp, pending_sigs, in_trap, last_status, exit, job_control, kind, stack,
                   delivered, runs, owed>>

run_exit_trap ==
    LET ps == [pending_sigs EXCEPT ![0] = @ + 1]
    IN  /\ pc = "leaving"
        /\ pending_sigs' = ps
        /\ delivered' = [delivered EXCEPT ![0] = @ + 1]
        /\ run_pending_traps(stack, ps)
        /\ pc' = "exiting"
        /\ UNCHANGED <<traps, disp, last_status, exit, job_control, kind, runs>>

ExitTrapReturns ==
    /\ pc = "exiting" /\ stack = <<>>
    /\ pc' = "done"
    /\ UNCHANGED <<traps, disp, pending_sigs, in_trap, last_status, exit, job_control, kind, stack,
                   delivered, runs, owed>>

\* (History) a signal that arrives now has to be served by the running call: its turn
\* is to come, or its own trap is running.
StillServed(s) ==
    /\ stack # <<>> /\ traps[s].set /\ traps[s].action = "CATCH"
    /\ s > Top.i \/ (s = Top.i /\ Top.at \in {"test", "trap", "ended"})

\* The handler runs between any two steps of the shell.
handle_signal(s) ==
    /\ pc # "done"
    /\ s # 0 /\ disp[s] = "handle_signal" /\ delivered[s] < MaxSignals
    /\ pending_sigs' = [pending_sigs EXCEPT ![s] = @ + 1]
    /\ delivered' = [delivered EXCEPT ![s] = @ + 1]
    /\ owed' = IF StillServed(s) THEN owed \cup {s} ELSE owed
    /\ UNCHANGED <<traps, disp, in_trap, last_status, exit, job_control, kind, pc, stack, runs>>

Done == pc = "done" /\ UNCHANGED vars

-----------------------------------------------------------------------------
\* An interactive shell starts with job control, another without.
Init ==
    /\ traps = [s \in Conditions |-> NoTrap]
    /\ disp = [s \in Conditions |->
                  IF s \in IgnoredOnEntry \/ (Interactive /\ s \in JobControlSigs)
                  THEN "SIG_IGN" ELSE "SIG_DFL"]
    /\ pending_sigs = [s \in Conditions |-> 0]
    /\ in_trap = FALSE
    /\ last_status = 0
    /\ exit = FALSE
    /\ job_control = Interactive
    /\ kind = "main"
    /\ pc = "read"
    /\ stack = <<>>
    /\ delivered = [s \in Conditions |-> 0]
    /\ runs = [s \in Conditions |-> 0]
    /\ owed = {}

PendingStep == TestPending \/ TrapReturns \/ Decrement \/ Clear
ReturnStep == EvalReturns \/ ProgramReturns \/ ChildStarts \/ run_exit_trap \/ ExitTrapReturns

CommandStep ==
    \/ RunCommand
    \/ \E s \in Conditions, a \in Actions : builtin_trap(s, a)
    \/ \E b \in BOOLEAN : builtin_set(b)
    \/ builtin_eval
    \/ \E b, e \in BOOLEAN : EndProgram(b, e)
    \/ \E k \in Kinds, b \in BOOLEAN : Forks(k, b)

Next ==
    \/ PendingStep
    \/ ReturnStep
    \/ CommandStep
    \/ ReadLine
    \/ \E s \in Conditions : handle_signal(s)
    \/ Done

Spec == Init /\ [][Next]_vars

\* The shell takes its own steps, and programs end.
LiveSpec ==
    /\ Spec
    /\ WF_vars(PendingStep)
    /\ WF_vars(ReturnStep)
    /\ WF_vars(\E b, e \in BOOLEAN : EndProgram(b, e))

-----------------------------------------------------------------------------
(* Properties *)

Frame == [at : {"test", "trap", "ended", "store", "clear"}, i : Conditions, saved : Statuses,
          load : Nat, negative : BOOLEAN]

\* Every variable has its type; in particular no counter of pending signals is negative,
\* however the handler and the loop interleave.
TypeOK ==
    /\ traps \in [Conditions -> [set : BOOLEAN, action : Actions]]
    /\ disp \in [Conditions -> {"SIG_DFL", "SIG_IGN", "handle_signal"}]
    /\ pending_sigs \in [Conditions -> Nat]
    /\ in_trap \in BOOLEAN
    /\ last_status \in Statuses
    /\ exit \in BOOLEAN
    /\ job_control \in BOOLEAN
    /\ kind \in Kinds
    /\ pc \in {"read", "run", "after", "eval", "leaving", "exiting", "entered", "done"}
    /\ stack \in Seq(Frame)
    /\ delivered \in [Conditions -> Nat]
    /\ runs \in [Conditions -> Nat]
    /\ owed \subseteq Conditions

\* A trap never runs while another is running, although it may run programs itself.
TrapsDoNotNest == Len(stack) <= 1

\* A trap runs at most once for each time its condition arose, whatever signals arrive
\* during its program and however that program ends.
RunsAreDelivered == \A s \in Conditions : runs[s] <= delivered[s]

\* A call of run_pending_traps that gets through its loop has served every caught signal
\* that was pending when it began, and those that came before their condition was passed.
PendingIsServed == stack = <<>> /\ ~in_trap => owed = {}

\* It gives $? back the value it had when it began.
StatusRestored ==
    [][in_trap /\ ~in_trap' => last_status' = stack[1].saved]_vars

\* The loops end: a shell that leaves its main loop exits (or is left for a child that the
\* exit trap forks), although signals keep arriving and traps may run programs.
Exits == pc = "leaving" ~> pc = "done" \/ kind # "main"

=============================================================================
