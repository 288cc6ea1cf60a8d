------------------------------- MODULE Tasks -------------------------------
(***************************************************************************)
(* The evaluation of programs in shell/task: command lists, if, while,     *)
(* until, for, case, && and ||, functions, and the builtins that leave     *)
(* them, break, continue, return and exit.                                 *)
(*                                                                         *)
(* The C functions call each other along the syntax tree and pass the way  *)
(* out through their return value (a status, or a negative TASK_STATUS)    *)
(* and two fields of the call frame, nloops and branch_control.  The stack *)
(* of active C functions is the state here; the tree is chosen while it is *)
(* walked, so that every program of the given bounds is covered.           *)
(***************************************************************************)
EXTENDS Integers, Sequences, FiniteSetsExt

CONSTANTS
    Nodes,        \* the compound nodes programs are made of
    Statuses,     \* exit statuses
    Counts,       \* the arguments of break and continue
    Failures,     \* how commands may fail, of "ERROR" and "STOPPED"
    Interactive,  \* state->interactive
    MaxDepth,     \* bound: nested nodes
    Innermost,    \* bound: the nodes that occur at MaxDepth
    MaxList,      \* bound: commands in a list
    MaxLoops      \* bound: nloops

TASK_STATUS_ERROR == -2
TASK_STATUS_STOPPED == -3
TASK_STATUS_INTERRUPTED == -4
Faults == {IF f = "ERROR" THEN TASK_STATUS_ERROR ELSE TASK_STATUS_STOPPED : f \in Failures}

Loops == {"while", "until", "for"}
Commands == {"brace", "if", "function"} \cup Loops

ASSUME TasksAssumption ==
    /\ Nodes \subseteq Commands \cup {"and", "or", "bang"} /\ Innermost \subseteq Nodes
    /\ {0, 1} \subseteq Statuses /\ Statuses \subseteq 0 .. 255
    /\ Counts \subseteq Nat
    /\ Failures \subseteq {"ERROR", "STOPPED"}
    /\ Interactive \in BOOLEAN
    /\ MaxDepth \in Nat \ {0} /\ MaxList \in Nat \ {0} /\ MaxLoops \in Nat \ {0}

VARIABLES
    stack,        \* the active nodes, the line first
    frames,       \* state->frame and the frames below it, the current one last
    pc,           \* "main", "run" the top node, "return" ret to it, or "over"
    ret,          \* the value being returned
    last_status,  \* $?
    exit,         \* state->exit, -1 as long as the shell goes on
    \* History.
    goal,         \* the node a break, continue or return under way has to reach
    base,         \* nloops of the outermost frame when the line began
    clean         \* the line did nothing that disturbs nloops for good

vars == <<stack, frames, pc, ret, last_status, exit, goal, base, clean>>

Branches == {"BREAK", "CONTINUE", "RETURN", "EXIT"}
NoGoal == [kind |-> "none", depth |-> 0]

\* A node begins with a list, with its left operand, or with the test of its loop.
NewNode(type, loop_num) ==
    [type |-> type, n |-> MaxList, lret |-> 0, loop_num |-> loop_num, loop_ret |-> 0,
     at |-> CASE type \in {"line", "brace", "function"} -> "list"
              [] type = "if" -> "condition"
              [] type \in Loops -> "head"
              [] OTHER -> "left"]

Top == stack[Len(stack)]
Pop == SubSeq(stack, 1, Len(stack) - 1)
WithTop(node) == [stack EXCEPT ![Len(stack)] = node]

Frame == frames[Len(frames)]
WithFrame(f) == [frames EXCEPT ![Len(frames)] = f]

\* The list that the node on top runs next.
List(place) == [Top EXCEPT !.at = place, !.n = MaxList, !.lret = 0]
InList == Top.at \in {"list", "condition", "body"}

-----------------------------------------------------------------------------
(* What a node does with a value *)

Return(st, r) ==
    /\ stack' = st /\ pc' = "return" /\ ret' = r
    /\ goal' = IF r = TASK_STATUS_INTERRUPTED THEN goal ELSE NoGoal

Run(st) == stack' = st /\ pc' = "run" /\ goal' = NoGoal /\ ret' = 0

\* Mutant: the loop is left without giving its number back.
LeaveLoop_counted(r, g) ==
    stack' = Pop /\ pc' = "return" /\ ret' = r /\ goal' = g /\ UNCHANGED frames

\* The end of run_loop_clause and run_for_clause.
LeaveLoop(r, g) ==
    /\ stack' = Pop /\ pc' = "return" /\ ret' = r /\ goal' = g
    /\ frames' = WithFrame([Frame EXCEPT !.nloops = @ - 1])

\* Mutant: a loop takes a break of its own for one of an outer loop.
Interrupt_outer(loop_ret) ==
    \/ /\ Frame.nloops <= Top.loop_num
       /\ LeaveLoop(TASK_STATUS_INTERRUPTED, goal)
    \/ /\ Frame.nloops > Top.loop_num
       /\ LeaveLoop(0, NoGoal)

\* Mutant: a continue leaves the loop.
Interrupt_leaves(loop_ret) ==
    IF Frame.nloops < Top.loop_num THEN LeaveLoop(TASK_STATUS_INTERRUPTED, goal) ELSE LeaveLoop(0, NoGoal)

\* The label interrupt: a break or continue for an outer loop, for this one, or
\* whatever branch_control says.  In the condition of a while or until loop break_loop
\* has no value yet.
Interrupt(loop_ret) ==
    \/ /\ Frame.nloops < Top.loop_num
       /\ LeaveLoop(TASK_STATUS_INTERRUPTED, goal)
    \/ /\ Frame.nloops >= Top.loop_num
       /\ Frame.branch_control # "CONTINUE"
       /\ LeaveLoop(0, NoGoal)
    \/ /\ Frame.nloops >= Top.loop_num
       /\ Frame.branch_control = "CONTINUE"
       /\ \/ Run(WithTop([List("head") EXCEPT !.loop_ret = loop_ret])) /\ UNCHANGED frames
          \/ Top.at = "condition" /\ LeaveLoop(loop_ret, NoGoal)

\* The else part is another if clause or a brace group.
RunElse ==
    /\ Len(stack) < MaxDepth - 1
    /\ \E type \in {"if", "brace"} : Run(Append(WithTop(List("else")), NewNode(type, 0)))

\* Mutant: a condition that failed counts as false.
IfGets_unchecked(r) ==
    /\ UNCHANGED frames
    /\ \/ Top.at = "body" /\ Return(Pop, r)
       \/ Top.at = "condition" /\ r = 0 /\ Run(WithTop(List("body")))
       \/ Top.at = "condition" /\ r # 0 /\ Return(Pop, 0)
       \/ Top.at = "condition" /\ r # 0 /\ RunElse

\* run_if_clause, after a list with the value r.
IfGets(r) ==
    /\ UNCHANGED frames
    /\ \/ Top.at = "body" /\ Return(Pop, r)
       \/ Top.at = "condition" /\ r < 0 /\ Return(Pop, r)
       \/ Top.at = "condition" /\ r = 0 /\ Run(WithTop(List("body")))
       \/ Top.at = "condition" /\ r > 0 /\ Return(Pop, 0)
       \/ Top.at = "condition" /\ r > 0 /\ RunElse

\* run_loop_clause and run_for_clause.
LoopGets(r) ==
    \/ /\ r = TASK_STATUS_INTERRUPTED
       /\ Interrupt(IF Top.at = "body" THEN r ELSE Top.loop_ret)
    \/ r < 0 /\ r # TASK_STATUS_INTERRUPTED /\ Return(Pop, r) /\ UNCHANGED frames
    \/ /\ r >= 0 /\ Top.at = "body"
       /\ Run(WithTop([List("head") EXCEPT !.loop_ret = r])) /\ UNCHANGED frames
    \/ /\ r >= 0 /\ Top.at = "condition"
       /\ IF (Top.type = "while") = (r > 0) THEN LeaveLoop(Top.loop_ret, NoGoal)
          ELSE Run(WithTop(List("body"))) /\ UNCHANGED frames

\* Mutant: a function that is left early keeps its frame.
FunctionGets_keeps(r) ==
    /\ Return(Pop, r)
    /\ frames' = IF r < 0 THEN frames ELSE SubSeq(frames, 1, Len(frames) - 1)

\* run_simple_command, after the body of a function: pop_frame.
FunctionGets(r) == Return(Pop, r) /\ frames' = SubSeq(frames, 1, Len(frames) - 1)

\* The value r of its list reaches the node on top.
NodeGets(r) ==
    \/ Top.type = "line" /\ stack' = <<>> /\ pc' = "main" /\ goal' = NoGoal /\ ret' = 0
       /\ UNCHANGED frames
    \/ Top.type = "brace" /\ Return(Pop, r) /\ UNCHANGED frames
    \/ Top.type = "function" /\ FunctionGets(r)
    \/ Top.type = "if" /\ IfGets(r)
    \/ Top.type \in Loops /\ LoopGets(r)

-----------------------------------------------------------------------------
(* Steps that return *)

\* Mutant: $? takes whatever a command returned.
ListElementReturns_always ==
    /\ pc = "return" /\ stack # <<>> /\ InList
    /\ last_status' = ret
    /\ IF ret < 0 THEN NodeGets(ret)
       ELSE Run(WithTop([Top EXCEPT !.lret = ret])) /\ UNCHANGED frames
    /\ UNCHANGED <<exit, base, clean>>

\* run_command_list_array: a negative status ends the list, another becomes $?.
ListElementReturns ==
    /\ pc = "return" /\ stack # <<>> /\ InList
    /\ IF ret < 0 THEN NodeGets(ret) /\ UNCHANGED last_status
       ELSE /\ last_status' = ret
            /\ Run(WithTop([Top EXCEPT !.lret = ret]))
            /\ UNCHANGED frames
    /\ UNCHANGED <<exit, base, clean>>

ListEnds ==
    /\ pc = "run" /\ InList
    /\ Top.n < MaxList \/ Top.type = "line"
    /\ NodeGets(Top.lret)
    /\ UNCHANGED <<last_status, exit, base, clean>>

LeftOfOr == Top.type = "or" /\ Top.at = "left"

\* run_and_or_list.
OperandReturns ==
    /\ pc = "return" /\ stack # <<>> /\ Top.type \in {"and", "or"}
    /\ \/ Top.at = "right" /\ Return(Pop, ret)
       \/ Top.at = "left" /\ Top.type = "and" /\ ret # 0 /\ Return(Pop, ret)
       \/ Top.at = "left" /\ Top.type = "or" /\ ret = 0 /\ Return(Pop, 0)
       \/ Top.at = "left" /\ (Top.type = "and") = (ret = 0) /\ Run(WithTop([Top EXCEPT !.at = "right"]))
    /\ clean' = (clean /\ ~(LeftOfOr /\ ret < 0))
    /\ UNCHANGED <<frames, last_status, exit, base>>

\* run_pipeline with a bang.
BangReturns ==
    /\ pc = "return" /\ stack # <<>> /\ Top.type = "bang"
    /\ Return(Pop, IF ret < 0 THEN ret ELSE IF ret = 0 THEN 1 ELSE 0)
    /\ UNCHANGED <<frames, last_status, exit, base, clean>>

ElseReturns ==
    /\ pc = "return" /\ stack # <<>> /\ Top.at = "else"
    /\ Return(Pop, ret)
    /\ UNCHANGED <<frames, last_status, exit, base, clean>>

\* Mutant: the loops do not look at state->exit.
LoopHead_goes_on ==
    /\ pc = "run" /\ Top.at = "head"
    /\ \/ /\ Top.type = "for" /\ LeaveLoop(Top.loop_ret, NoGoal)
       \/ Run(WithTop(List(IF Top.type = "for" THEN "body" ELSE "condition"))) /\ UNCHANGED frames
    /\ UNCHANGED <<last_status, exit, base, clean>>

\* while (state->exit == -1), and the end of the words of a for loop.
LoopHead ==
    /\ pc = "run" /\ Top.at = "head"
    /\ \/ (exit # -1 \/ Top.type = "for") /\ LeaveLoop(Top.loop_ret, NoGoal)
       \/ /\ exit = -1
          /\ Run(WithTop(List(IF Top.type = "for" THEN "body" ELSE "condition")))
          /\ UNCHANGED frames
    /\ UNCHANGED <<last_status, exit, base, clean>>

-----------------------------------------------------------------------------
(* Steps that begin the next command *)

Ready ==
    /\ pc = "run"
    /\ \/ InList /\ Top.n > 0
       \/ Top.type \in {"and", "or", "bang"}

\* The list with its next element taken.
Taken == IF InList THEN WithTop([Top EXCEPT !.n = @ - 1]) ELSE stack

\* Where the grammar allows a node: && and || group to the right.
Allowed(type) ==
    /\ type \in Nodes /\ Len(stack) < MaxDepth
    /\ Len(stack) = MaxDepth - 1 => type \in Innermost
    /\ type \in {"and", "or"} => Top.type # "bang" /\ Top.at # "left"
    /\ type = "bang" => Top.type # "bang"

\* (History) The loops of the current frame, and the one a break of n loops is for.
Calls == {k \in DOMAIN stack : stack[k].type = "function"}
LoopsInFrame == {k \in DOMAIN stack : stack[k].type \in Loops /\ \A c \in Calls : c < k}
Target(n) ==
    CHOOSE k \in LoopsInFrame :
        LET within == Cardinality({j \in LoopsInFrame : j >= k})
        IN  within = n \/ (within < n /\ k = Min(LoopsInFrame)) \/ (n = 0 /\ within = 1)

\* A program, another builtin, an assignment, a pipeline, a subshell or an asynchronous
\* list: it has a status or fails.
RunSimple(r) ==
    /\ Ready
    /\ Return(Taken, r)
    /\ clean' = (clean /\ r >= 0)
    /\ UNCHANGED <<frames, last_status, exit, base>>

\* A brace group (or eval, the dot builtin, an item of a case), an if, && and ||, a bang.
StartNode(type) ==
    /\ Ready /\ Allowed(type) /\ type \notin Loops /\ type # "function"
    /\ Run(Append(Taken, NewNode(type, 0)))
    /\ UNCHANGED <<frames, last_status, exit, base, clean>>

StartLoop(type) ==
    /\ Ready /\ Allowed(type) /\ type \in Loops /\ Frame.nloops < MaxLoops
    /\ frames' = WithFrame([Frame EXCEPT !.nloops = @ + 1])
    /\ Run(Append(Taken, NewNode(type, Frame.nloops + 1)))
    /\ UNCHANGED <<last_status, exit, base, clean>>

\* The words of a for loop cannot be expanded.
ForFails(r) ==
    /\ Ready /\ Allowed("for") /\ Frame.nloops < MaxLoops
    /\ frames' = WithFrame([Frame EXCEPT !.nloops = @ + 1])
    /\ Return(Taken, r)
    /\ clean' = FALSE
    /\ UNCHANGED <<last_status, exit, base>>

\* run_simple_command: push_frame and the body of the function.
CallFunction ==
    /\ Ready /\ Allowed("function")
    /\ frames' = Append(frames, [nloops |-> 0, branch_control |-> "BREAK"])
    /\ Run(Append(Taken, NewNode("function", 0)))
    /\ UNCHANGED <<last_status, exit, base, clean>>

\* break and continue.
builtin_break(branch, count) ==
    LET n == IF count > Frame.nloops THEN Frame.nloops ELSE count
    IN  /\ Ready /\ Frame.nloops - (n - 1) <= MaxLoops
        /\ frames' = WithFrame([nloops |-> Frame.nloops - (n - 1), branch_control |-> branch])
        /\ stack' = Taken /\ pc' = "return" /\ ret' = TASK_STATUS_INTERRUPTED
        /\ goal' = IF LoopsInFrame = {} THEN NoGoal
                   ELSE [kind |-> branch, depth |-> Target(count)]
        /\ clean' = (clean /\ count = 1 /\ LoopsInFrame # {})
        /\ UNCHANGED <<last_status, exit, base>>

builtin_return(status) ==
    /\ Ready
    /\ frames' = WithFrame([nloops |-> 0, branch_control |-> "RETURN"])
    /\ last_status' = status
    /\ stack' = Taken /\ pc' = "return" /\ ret' = TASK_STATUS_INTERRUPTED
    /\ goal' = IF Calls = {} THEN NoGoal ELSE [kind |-> "RETURN", depth |-> Max(Calls)]
    /\ clean' = (clean /\ Calls # {})
    /\ UNCHANGED <<exit, base>>

builtin_exit(status) ==
    /\ Ready
    /\ frames' = WithFrame([Frame EXCEPT !.branch_control = "EXIT"])
    /\ exit' = status
    /\ stack' = Taken /\ pc' = "return" /\ ret' = TASK_STATUS_INTERRUPTED
    /\ goal' = NoGoal
    /\ UNCHANGED <<last_status, base, clean>>

\* The dot builtin does not find its file, in a shell that is not interactive.
DotFails ==
    /\ Ready /\ ~Interactive
    /\ exit' = 1
    /\ Return(Taken, 1)
    /\ UNCHANGED <<frames, last_status, base, clean>>

-----------------------------------------------------------------------------
(* main *)

ReadLine ==
    /\ pc = "main" /\ exit = -1
    /\ stack' = <<NewNode("line", 0)>> /\ pc' = "run"
    /\ base' = Frame.nloops /\ clean' = (Frame.nloops >= 0)
    /\ UNCHANGED <<frames, ret, last_status, exit, goal>>

ReadEof ==
    /\ pc = "main" /\ exit = -1
    /\ exit' = last_status
    /\ UNCHANGED <<stack, frames, pc, ret, last_status, goal, base, clean>>

\* A syntax error ends a shell that is not interactive.
ParseFails ==
    /\ pc = "main" /\ exit = -1 /\ ~Interactive
    /\ exit' = 1
    /\ UNCHANGED <<stack, frames, pc, ret, last_status, goal, base, clean>>

LeaveMain ==
    /\ pc = "main" /\ exit # -1
    /\ pc' = "over"
    /\ UNCHANGED <<stack, frames, ret, last_status, exit, goal, base, clean>>

Over == pc = "over" /\ UNCHANGED vars

Init ==
    /\ stack = <<>>
    /\ frames = <<[nloops |-> 0, branch_control |-> "BREAK"]>>
    /\ pc = "main" /\ ret = 0 /\ last_status = 0 /\ exit = -1
    /\ goal = NoGoal /\ base = 0 /\ clean = TRUE

ReturnStep ==
    ListElementReturns \/ ListEnds \/ OperandReturns \/ BangReturns \/ ElseReturns \/ LoopHead

StartStep ==
    \/ \E r \in Statuses \cup Faults : RunSimple(r)
    \/ \E t \in Nodes : StartNode(t) \/ StartLoop(t)
    \/ \E r \in Faults : ForFails(r)
    \/ CallFunction
    \/ \E b \in {"BREAK", "CONTINUE"}, n \in Counts : builtin_break(b, n)
    \/ \E n \in Statuses : builtin_return(n) \/ builtin_exit(n)
    \/ DotFails

Next == ReturnStep \/ StartStep \/ ReadLine \/ ReadEof \/ ParseFails \/ LeaveMain \/ Over

Spec == Init /\ [][Next]_vars

\* The shell goes on evaluating what it has read.
LiveSpec == Spec /\ WF_vars(ReturnStep \/ StartStep) /\ WF_vars(LeaveMain)

-----------------------------------------------------------------------------
(* Properties *)

Node ==
    [type : Commands \cup {"line", "and", "or", "bang"},
     at : {"list", "condition", "body", "else", "head", "left", "right"},
     n : 0 .. MaxList, lret : Statuses, loop_num : Int,
     loop_ret : Statuses \cup {TASK_STATUS_INTERRUPTED}]

\* Every variable has its type; in particular no negative TASK_STATUS becomes $? or the
\* exit status of the shell.
TypeOK ==
    /\ stack \in Seq(Node)
    /\ frames \in Seq([nloops : Int, branch_control : Branches]) /\ frames # <<>>
    /\ pc \in {"main", "run", "return", "over"}
    /\ ret \in Statuses \cup Faults \cup {TASK_STATUS_INTERRUPTED}
    /\ last_status \in Statuses
    /\ exit \in Statuses \cup {-1}
    /\ goal.kind \in Branches \cup {"none"} /\ goal.depth \in Nat
    /\ base \in Int
    /\ clean \in BOOLEAN

\* There is one frame for each function that is running, however functions, the loops
\* around them and the loops in them are left: a loop finds its own frame again.
FramesMatchCalls == Len(frames) = 1 + Cardinality(Calls)

\* In a clean line break leaves the innermost loop of its frame and nothing else, with
\* status 0, whatever earlier lines have added to nloops; the left operand of || is the
\* exception.
BreakLeavesItsLoop ==
    [][goal.kind = "BREAK" /\ clean /\ ~LeftOfOr /\ goal' = NoGoal =>
          Len(stack) = goal.depth /\ stack' = Pop /\ ret' = 0]_vars

\* In the same way continue in the body of a loop goes back to the test of that loop.
ContinueRestartsItsLoop ==
    [][goal.kind = "CONTINUE" /\ clean /\ ~LeftOfOr /\ Top.at # "condition" /\ goal' = NoGoal =>
          Len(stack) = goal.depth /\ stack' = WithTop([List("head") EXCEPT !.loop_ret = ret])]_vars

\* A command that fails or is stopped ends everything around it up to the line, unless it is
\* the left operand of ||.
FatalUnwinds ==
    [][pc = "return" /\ ret \in {TASK_STATUS_ERROR, TASK_STATUS_STOPPED} /\ ~LeftOfOr =>
          (pc' = "return" /\ ret' = ret) \/ pc' = "main"]_vars

\* A clean line (no faults, no stray or multiple breaks, no return outside functions, nothing
\* of that kind given up to the right operand of ||) leaves nloops as it found it, although
\* loops end by break, continue, exit and the returns of functions.
NloopsRestored == pc = "main" /\ clean => Frame.nloops = base

\* Once state->exit is set every loop ends and the shell leaves main.
ExitEnds == exit # -1 ~> pc = "over"

=============================================================================
