---------------------------- MODULE Environment -----------------------------
(***************************************************************************)
(* The execution environment of the shell: variables and their attributes, *)
(* what of them a child process gets, positional parameters in a stack of  *)
(* call frames, functions, and the option parser behind getopts.           *)
(*                                                                         *)
(* A step is a command of the script.  The strings of argv and the bodies  *)
(* of functions are allocated and freed; a table of variables or functions *)
(* is a map, which is what HashTable implements.                           *)
(***************************************************************************)
EXTENDS Integers, FiniteSets, SequencesExt

CONSTANTS
    Name,         \* names of variables
    Text,         \* their values; a text is a sequence of characters
    Function,     \* names of functions
    OptStrings,   \* the option strings given to getopts
    Scripts,      \* the scripts that are run: the commands that one uses, the environment that
                  \* the shell inherits, a map from some names to values, and the argument lists
                  \* of the shell, of set and of calls, each a sequence of texts
    MaxDepth,     \* bound: calls that are nested
    MaxOptions,   \* bound: options that the history of getopts holds
    MaxMemory,    \* bound: strings in memory at a time
    MaxBodies     \* bound: bodies of functions in memory at a time

ASSUME ScriptsAssumption ==
    \A s \in Scripts : \A args \in s.lists :
        args \in Seq(Range(args)) /\ \A t \in Range(args) : t \in Seq(Range(t))

\* The -1 that _mrsh_getopt returns is none of the characters of an option string.
ASSUME OptStringsAssumption == \A o \in OptStrings : o \in Seq(Range(o)) /\ "-1" \notin Range(o)

VARIABLES
    script,    \* the script that is run
    vars,      \* the variables that are set: value, export and readonly
    allexport,
    frames,    \* the call frames, the current one last
    strings,   \* strings in memory
    functions, \* the body of each function that is defined
    bodies,    \* bodies in memory
    optind,    \* the variable OPTIND
    optarg,    \* the variable OPTARG: <<>> when it is unset, or <<value>>
    status,    \* "ok", "aborts" (a failed assertion) or "undefined" (a double free)
    \* History.
    params,    \* what the positional parameters of each frame should be
    torn,      \* shift has freed a parameter that is still in use
    shifted,   \* the frame has been shifted since its parameters were set, for each frame
    seen,      \* what getopts has returned since OPTIND was 1, or NotSeen
    child      \* the environment of the child that the command has just run, or NoChild

state == <<script, vars, allexport, frames, strings, functions, bodies, optind, optarg, status>>
all == <<state, params, torn, shifted, seen, child>>

Put(f, k, v) == [j \in DOMAIN f \cup {k} |-> IF j = k THEN v ELSE f[j]]
Drop(f, k) == [j \in DOMAIN f \ {k} |-> f[j]]
Lost == <<"lost">>   \* what is read from memory that has been freed
NotSeen == [kind |-> "lost"]
Start(depth) == [kind |-> "seen", depth |-> depth, optstring |-> <<>>, got |-> <<>>, done |-> FALSE]
NULL == 0
NoChild == [kind |-> "none"]
environ == script.environ
Frame == frames[Len(frames)]

-----------------------------------------------------------------------------
(* Variables *)

mrsh_env_set(vs, n, v, export, readonly) ==
    Put(vs, n, [value |-> v, export |-> export, readonly |-> readonly])
Readonly(vs, n) == n \in DOMAIN vs /\ vs[n].readonly
Exported(vs, n) == n \in DOMAIN vs /\ vs[n].export

\* Assignments are made one after the other up to one of a readonly variable.  The
\* attributes that a variable had are forgotten.
run_assignments(vs, assigns) ==
    FoldLeft(LAMBDA r, a : IF r.failed \/ Readonly(r.vs, a.name) THEN [r EXCEPT !.failed = TRUE]
                           ELSE [r EXCEPT !.vs = mrsh_env_set(r.vs, a.name, a.value, allexport, FALSE)],
             [vs |-> vs, failed |-> FALSE], assigns).vs

\* export and readonly: the attribute is added to those that the variable has.
ExportTo(vs, names, export, readonly) ==
    FoldLeft(LAMBDA r, a : IF r.failed \/ Readonly(r.vs, a.name) THEN [r EXCEPT !.failed = TRUE]
                           ELSE [r EXCEPT !.vs = mrsh_env_set(r.vs, a.name,
                                   IF a.assign THEN a.value
                                   ELSE IF a.name \in DOMAIN r.vs THEN r.vs[a.name].value ELSE <<>>,
                                   export \/ Exported(r.vs, a.name), readonly)],
             [vs |-> vs, failed |-> FALSE], names).vs

OneOrTwo(S) == {<<a>> : a \in S} \cup {<<a, b>> : a, b \in S}
Assigns == [name : Name, value : Text]

Only(kind) == status = "ok" /\ kind \in script.uses

Assign ==
    /\ Only("assign")
    /\ \E as \in OneOrTwo(Assigns) : vars' = run_assignments(vars, as)
    /\ UNCHANGED <<script, allexport, frames, strings, functions, bodies, optind, optarg, status,
                   params, torn, shifted, seen>>
    /\ child' = NoChild

builtin_export ==
    /\ Only("export")
    /\ \E a \in [name : Name, value : Text, assign : BOOLEAN], readonly \in BOOLEAN :
         vars' = ExportTo(vars, <<a>>, ~readonly, readonly)
    /\ UNCHANGED <<script, allexport, frames, strings, functions, bodies, optind, optarg, status,
                   params, torn, shifted, seen>>
    /\ child' = NoChild

builtin_unset ==
    /\ Only("unset")
    /\ \E n \in Name : vars' = IF Readonly(vars, n) THEN vars ELSE Drop(vars, n)
    /\ UNCHANGED <<script, allexport, frames, strings, functions, bodies, optind, optarg, status,
                   params, torn, shifted, seen>>
    /\ child' = NoChild

\* read asks neither whether the variable is readonly nor whether it was exported.
builtin_read ==
    /\ Only("read")
    /\ \E n \in Name, v \in Text : vars' = mrsh_env_set(vars, n, v, FALSE, FALSE)
    /\ UNCHANGED <<script, allexport, frames, strings, functions, bodies, optind, optarg, status,
                   params, torn, shifted, seen>>
    /\ child' = NoChild

SetAllexport ==
    /\ Only("allexport")
    /\ allexport' = ~allexport
    /\ UNCHANGED <<script, vars, frames, strings, functions, bodies, optind, optarg, status,
                   params, torn, shifted, seen>>
    /\ child' = NoChild

\* Mutant: every variable is put into the child's environment.
populate_env_all(env, vs) ==
    [n \in DOMAIN env \cup DOMAIN vs |-> IF n \in DOMAIN vs THEN vs[n].value ELSE env[n]]

populate_env(env, vs) ==
    [n \in DOMAIN env \cup {m \in DOMAIN vs : vs[m].export} |->
        IF Exported(vs, n) THEN vs[n].value ELSE env[n]]

\* setenv for the assignments of the command one after the other: the last to a name counts.
Assigned(env, as) ==
    LET To(n) == {k \in DOMAIN as : as[k].name = n}
    IN  [n \in DOMAIN env \cup {as[k].name : k \in DOMAIN as} |->
            IF To(n) = {} THEN env[n]
            ELSE as[CHOOSE k \in To(n) : \A j \in To(n) : j <= k].value]

\* The environment is the one that the shell was started with, then the assignments of the
\* command, then the exported variables.
run_process ==
    /\ Only("process")
    /\ \E as \in {<<>>} \cup {<<a>> : a \in Assigns} :
         /\ \A k \in DOMAIN as : ~Readonly(vars, as[k].name)
         /\ child' = [kind |-> "child", env |-> populate_env(Assigned(environ, as), vars), assigns |-> as]
    /\ UNCHANGED <<state, params, torn, shifted, seen>>

-----------------------------------------------------------------------------
(* Positional parameters: argv is an array with one place more than it had parameters, and  *)
(* argv[k] is its place k + 1; a place holds a string or NULL                               *)

\* The n lowest free places of memory, in order.
Free(used, n) ==
    [j \in 1 .. n |-> CHOOSE i \in 1 .. Cardinality(DOMAIN used) + n :
        i \notin DOMAIN used /\ Cardinality((1 .. i) \ DOMAIN used) = j]
Fits(used, n, bound) == Cardinality(DOMAIN used) + n <= bound

\* strdup of each text.
Strdup(used, texts) ==
    LET ids == Free(used, Len(texts))
    IN  [ids |-> ids, strings |-> [k \in DOMAIN used \cup Range(ids) |->
            IF k \in DOMAIN used THEN used[k] ELSE texts[CHOOSE j \in DOMAIN ids : ids[j] = k]]]

\* The first argc strings of an array, which argv_free and call_frame_destroy free.
Owned(f) == {f.argv[k] : k \in 1 .. f.argc}
\* One of them has been freed before, or is there twice.
DoubleFree(f) ==
    \/ \E k \in 1 .. f.argc : f.argv[k] \notin DOMAIN strings
    \/ \E j, k \in 1 .. f.argc : j # k /\ f.argv[j] = f.argv[k]

ArgText(f, k) == IF f.argv[k + 1] \in DOMAIN strings THEN strings[f.argv[k + 1]] ELSE Lost
Args(f) == [k \in 1 .. f.argc - 1 |-> ArgText(f, k)]
Changed(ps) == [params EXCEPT ![Len(params)] = ps]

\* set -- args
builtin_set ==
    /\ Only("set")
    /\ \E args \in script.lists :
         LET new == Strdup(strings, <<ArgText(Frame, 0)>> \o args)
         IN  /\ Fits(strings, Len(args) + 1, MaxMemory)
             /\ \/ /\ DoubleFree(Frame)
                   /\ status' = "undefined" /\ UNCHANGED <<frames, strings, params>>
                \/ /\ ~DoubleFree(Frame)
                   /\ strings' = [k \in DOMAIN new.strings \ Owned(Frame) |-> new.strings[k]]
                   /\ frames' = [frames EXCEPT ![Len(frames)] =
                        [argc |-> Len(args) + 1, argv |-> Append(new.ids, NULL), body |-> Frame.body]]
                   /\ params' = Changed(args)
                   /\ UNCHANGED status
    /\ shifted' = [shifted EXCEPT ![Len(shifted)] = FALSE] /\ seen' = NotSeen
    /\ UNCHANGED <<script, vars, allexport, functions, bodies, optind, optarg, torn>>
    /\ child' = NoChild

\* Mutant: the last of the parameters is not moved.
ShiftedArgv_short(f, n) ==
    [k \in DOMAIN f.argv |-> IF k - 1 \in 1 .. f.argc - 2 - n THEN f.argv[k + n] ELSE f.argv[k]]

\* The strings that shift moves: to argv[k] from argv[k + n], as long as k + n <= argc - n;
\* what it finds in the places behind those is freed, and stays where it is.
ShiftedArgv(f, n) ==
    [k \in DOMAIN f.argv |-> IF k - 1 \in 1 .. f.argc - 1 - n /\ k - 1 + n <= f.argc - n
                             THEN f.argv[k + n] ELSE f.argv[k]]
Shifted(f, n) ==
    [argc |-> f.argc - n, argv |-> SubSeq(ShiftedArgv(f, n), 1, f.argc - n + 1), body |-> f.body]
ShiftFrees(f, n) == {f.argv[k + 1] : k \in {j \in 1 .. f.argc - 1 - n : j + n > f.argc - n}}

\* A parameter that is shifted out and not freed is leaked; memory that nobody will use or
\* free is left out, and so are the places behind argv[argc], which nobody reads.
builtin_shift ==
    /\ Only("shift")
    /\ \E n \in 1 .. Frame.argc - 1 :
         LET new == Shifted(Frame, n)
             freed == ShiftFrees(Frame, n) \cup (Owned(Frame) \ Owned(new))
         IN  /\ frames' = [frames EXCEPT ![Len(frames)] = new]
             /\ strings' = [k \in DOMAIN strings \ freed |-> strings[k]]
             /\ status' = IF ShiftFrees(Frame, n) \subseteq DOMAIN strings THEN status ELSE "undefined"
             /\ torn' = (torn \/ ShiftFrees(Frame, n) # {})
             /\ params' = Changed(SubSeq(params[Len(params)], n + 1, Len(params[Len(params)])))
    /\ shifted' = [shifted EXCEPT ![Len(shifted)] = TRUE] /\ seen' = NotSeen
    /\ UNCHANGED <<script, vars, allexport, functions, bodies, optind, optarg>>
    /\ child' = NoChild

-----------------------------------------------------------------------------
(* Functions *)

run_function_definition ==
    /\ Only("function") /\ Fits(bodies, 1, MaxBodies)
    /\ \E f \in Function :
         LET b == Free(bodies, 1)[1]
             old == IF f \in DOMAIN functions THEN {functions[f]} ELSE {}
         IN  /\ functions' = Put(functions, f, b)
             /\ bodies' = Put([k \in DOMAIN bodies \ old |-> bodies[k]], b, f)
    /\ UNCHANGED <<script, vars, allexport, frames, strings, optind, optarg, status,
                   params, torn, shifted, seen>>
    /\ child' = NoChild

builtin_unset_f ==
    /\ Only("function")
    /\ \E f \in DOMAIN functions :
         functions' = Drop(functions, f) /\ bodies' = Drop(bodies, functions[f])
    /\ UNCHANGED <<script, vars, allexport, frames, strings, optind, optarg, status,
                   params, torn, shifted, seen>>
    /\ child' = NoChild

\* fn_def may be freed while it runs, so that a copy of its body is run.
RunBody(f) == LET b == Free(bodies, 1)[1] IN [body |-> b, bodies |-> Put(bodies, b, f)]

\* A call with given arguments, or with those of the caller: push_frame copies them.
CallFunction ==
    /\ Only("function") /\ Len(frames) < MaxDepth /\ Fits(bodies, 1, MaxBodies)
    /\ \E f \in DOMAIN functions, args \in script.lists \cup {Args(Frame)} :
         LET new == Strdup(strings, <<<<f>>>> \o args)
             run == RunBody(f)
         IN  /\ Fits(strings, Len(args) + 1, MaxMemory)
             /\ strings' = new.strings /\ bodies' = run.bodies
             /\ frames' = Append(frames, [argc |-> Len(args) + 1, argv |-> Append(new.ids, NULL), body |-> run.body])
             /\ params' = Append(params, IF args = Args(Frame) THEN params[Len(params)] ELSE args)
    /\ shifted' = Append(shifted, FALSE)
    /\ UNCHANGED <<script, vars, allexport, functions, optind, optarg, status, torn, seen>>
    /\ child' = NoChild

\* mrsh_command_destroy(body) and pop_frame.
Return ==
    /\ Only("function") /\ Len(frames) > 1
    /\ \/ /\ DoubleFree(Frame) \/ Frame.body \notin DOMAIN bodies
          /\ status' = "undefined" /\ UNCHANGED <<frames, strings, bodies, params, shifted>>
       \/ /\ ~DoubleFree(Frame) /\ Frame.body \in DOMAIN bodies
          /\ bodies' = Drop(bodies, Frame.body)
          /\ strings' = [k \in DOMAIN strings \ Owned(Frame) |-> strings[k]]
          /\ frames' = Front(frames) /\ params' = Front(params) /\ shifted' = Front(shifted)
          /\ UNCHANGED status
    /\ UNCHANGED <<script, vars, allexport, functions, optind, optarg, torn>>
    /\ seen' = IF seen.kind = "seen" /\ seen.depth = Len(frames) THEN NotSeen ELSE seen
    /\ child' = NoChild

-----------------------------------------------------------------------------
(* getopts *)

EOS == "\\0"
At(s, k) == IF k \in DOMAIN s THEN s[k] ELSE EOS  \* the character at index k - 1
Colon == ":"

\* Where the loop over an option string finds the character c; a colon in front is skipped.
Places(optstring, c) == {j \in DOMAIN optstring : optstring[j] = c /\ (j = 1 => c # Colon)}

\* _mrsh_getopt at argument ind, from its first letter: builtin_getopts has set _mrsh_optpos
\* back to 1 by then.  args are argv[1] to argv[argc - 1]; opt is "-1" at the end,
\* optarg and optopt are <<>> and "" where the code has NULL and 0.
_mrsh_getopt(args, ind, optstring) ==
    LET a == args[ind]
        end == [opt |-> "-1", optarg |-> <<>>, optopt |-> "", optind |-> ind]
        places == Places(optstring, a[2])
        takes == At(optstring, Min(places) + 1) = Colon
        rest == SubSeq(a, 3, Len(a))
    IN  IF ind > Len(args) \/ At(a, 1) # "-" \/ At(a, 2) = EOS THEN end
        ELSE IF a[2] = "-" THEN [end EXCEPT !.optind = ind + 1]
        ELSE IF places = {} THEN [end EXCEPT !.opt = "?"]
        ELSE IF ~takes THEN [end EXCEPT !.opt = a[2], !.optind = IF rest = <<>> THEN ind + 1 ELSE ind]
        ELSE IF rest # <<>> THEN [end EXCEPT !.opt = a[2], !.optarg = <<rest>>, !.optind = ind + 1]
        ELSE IF ind + 1 > Len(args)
        THEN [end EXCEPT !.opt = IF At(optstring, 1) = Colon THEN Colon ELSE "?", !.optopt = a[2]]
        ELSE [end EXCEPT !.opt = a[2], !.optarg = <<args[ind + 1]>>, !.optind = ind + 2]

\* Mutant: OPTIND is not moved past the argument of an option.
Advanced_short(r) == IF r.optarg = <<>> THEN r.optind ELSE r.optind - 1

\* OPTIND after a call.
Advanced(r) == r.optind

\* History: a call with the same option string in the same frame adds to what was seen.
Saw(sn, optstring, opt, arg) ==
    IF \/ sn.kind = "lost" \/ sn.done \/ sn.depth # Len(frames)
       \/ sn.optstring \notin {<<>>, <<optstring>>}
       \/ (Len(sn.got) = MaxOptions /\ opt # "-1")
    THEN NotSeen
    ELSE [sn EXCEPT !.got = IF opt = "-1" THEN @ ELSE Append(@, [opt |-> opt, arg |-> arg]),
                    !.done = opt = "-1", !.optstring = <<optstring>>]

\* The parameters of the frame, given no arguments of its own.  The assertion of
\* _mrsh_getopt is about the place behind the last parameter.
builtin_getopts ==
    /\ Only("getopts")
    /\ \E optstring \in OptStrings, n \in Name :
         \/ /\ Frame.argv[Frame.argc + 1] # NULL
            /\ status' = "aborts" /\ UNCHANGED <<vars, optind, optarg, seen>>
         \/ /\ Frame.argv[Frame.argc + 1] = NULL
            /\ LET r == _mrsh_getopt(Args(Frame), optind, optstring)
                   arg == IF r.optopt # "" THEN (IF r.opt = Colon THEN <<<<r.optopt>>>> ELSE <<>>) ELSE r.optarg
               IN  /\ optind' = Advanced(r) /\ optarg' = arg
                   /\ vars' = mrsh_env_set(vars, n, <<IF r.opt = "-1" THEN "?" ELSE r.opt>>, FALSE, FALSE)
                   /\ seen' = Saw(seen, optstring, r.opt, arg)
            /\ UNCHANGED status
    /\ UNCHANGED <<script, allexport, frames, strings, functions, bodies,
                   params, torn, shifted>>
    /\ child' = NoChild

\* OPTIND=1
ResetOptind ==
    /\ Only("getopts")
    /\ optind' = 1 /\ UNCHANGED optarg
    /\ seen' = Start(Len(frames))
    /\ UNCHANGED <<script, vars, allexport, frames, strings, functions, bodies, status,
                   params, torn, shifted>>
    /\ child' = NoChild

-----------------------------------------------------------------------------

\* mrsh_process_args and mrsh_populate_env.
Init ==
    /\ script \in Scripts
    /\ vars = [n \in DOMAIN environ |-> [value |-> environ[n], export |-> TRUE, readonly |-> FALSE]]
    /\ allexport = FALSE
    /\ \E args \in script.lists :
         LET new == Strdup(<<>>, <<<<"sh">>>> \o args)
         IN  /\ strings = new.strings
             /\ frames = <<[argc |-> Len(args) + 1, argv |-> Append(new.ids, NULL), body |-> NULL]>>
             /\ params = <<args>>
    /\ functions = <<>> /\ bodies = <<>>
    /\ optind = 1 /\ optarg = <<>> /\ status = "ok" /\ torn = FALSE /\ shifted = <<FALSE>>
    /\ seen = Start(1)
    /\ child = NoChild

Done == status # "ok" /\ UNCHANGED all

Next ==
    \/ Assign \/ builtin_export \/ builtin_unset \/ builtin_read \/ SetAllexport \/ run_process
    \/ builtin_set \/ builtin_shift
    \/ run_function_definition \/ builtin_unset_f \/ CallFunction \/ Return
    \/ builtin_getopts \/ ResetOptind \/ Done

Spec == Init /\ [][Next]_all

-----------------------------------------------------------------------------
(* Properties *)

\* As long as no shift has freed a parameter that is still in use (shift n does that for
\* 2 <= n < $#, builtin/shift.c:47), through any sequence of set, shift, calls with given or
\* inherited arguments, returns, and functions that redefine or unset the one that is running:
\* each frame holds exactly the parameters that the script gave it, its strings are in memory,
\* belong to it alone and will be freed once, and the body that each call runs is in memory.
\* The assertion of _mrsh_getopt (getopt.c:13) fails only in a frame that has been shifted.
ParametersKept ==
    /\ ~torn => \A d \in DOMAIN frames :
         /\ Args(frames[d]) = params[d] /\ ~DoubleFree(frames[d])
         /\ \A e \in DOMAIN frames \ {d} : Owned(frames[d]) \cap Owned(frames[e]) = {}
         /\ d > 1 => /\ frames[d].body \in DOMAIN bodies \ Range(functions)
                     /\ \A e \in DOMAIN frames \ {d} : frames[e].body # frames[d].body
    /\ status = "aborts" => shifted[Len(shifted)]
    /\ status = "undefined" => torn

\* What a child process is told, whatever assignments, export, readonly, unset, read and
\* set -a came before (run_process, simple_command.c:65): an assignment of its own command,
\* or else the value that an exported variable has now, and nothing of a variable that is
\* neither, with two exceptions that the order of the three tables makes: an exported variable
\* hides an assignment of the command, and what the shell itself inherited stays there
\* when its variable is unset or no longer exported.
ChildEnvironment ==
    child # NoChild =>
        LET assigned == {child.assigns[k].name : k \in DOMAIN child.assigns}
            exported == {n \in DOMAIN vars : vars[n].export}
            fresh == Name \ (DOMAIN environ \ exported)
        IN  /\ DOMAIN child.env \cap fresh = (assigned \cup exported) \cap fresh
            /\ \A n \in exported \ assigned : child.env[n] = vars[n].value
            /\ \A k \in DOMAIN child.assigns :
                  child.assigns[k].name \notin exported => child.env[child.assigns[k].name] = child.assigns[k].value

\* Reference: the option letters of an option string, with whether each takes an argument.
Letters(optstring) ==
    {[c |-> optstring[k], arg |-> At(optstring, k + 1) = Colon] :
        k \in {j \in DOMAIN optstring : optstring[j] # Colon}}
Takes(c, optstring) == \E l \in Letters(optstring) : l.c = c /\ l.arg

\* The argument k is one of options.
IsOption(args, k) == At(args[k], 1) = "-" /\ At(args[k], 2) \notin {"-", EOS}

\* The options of an argument list.
Options(args, optstring) ==
    LET From[k \in 1 .. Len(args) + 2] ==
            IF k > Len(args) \/ ~IsOption(args, k) THEN <<>>
            ELSE IF ~Takes(args[k][2], optstring) THEN <<[opt |-> args[k][2], arg |-> <<>>]>> \o From[k + 1]
            ELSE IF Len(args[k]) > 2
            THEN <<[opt |-> args[k][2], arg |-> <<SubSeq(args[k], 3, Len(args[k]))>>]>> \o From[k + 1]
            ELSE IF k = Len(args) THEN <<>>
            ELSE <<[opt |-> args[k][2], arg |-> <<args[k + 1]>>]>> \o From[k + 2]
    IN  From[1]

\* Each option stands alone, is one letter of the option string, and has the argument that
\* it takes.
Separate(args, optstring) ==
    \A k \in DOMAIN args : IsOption(args, k) =>
        \E l \in Letters(optstring) :
            /\ \A m \in Letters(optstring) : m.c = args[k][2] <=> m = l
            /\ IF l.arg THEN Len(args[k]) > 2 \/ k < Len(args) ELSE Len(args[k]) = 2

\* A loop of getopts from OPTIND=1 sees each option with its argument, once and in order, and
\* ends after the last, although the position is kept in a variable between calls and other
\* functions and builtins parse options of their own in between (getopt.c:8).  It is
\* stated for options that are separate arguments: of -ab the loop sees a for ever, since
\* builtin_getopts forgets the position in the argument (getopts.c:15), and an unknown option
\* or one without its argument is seen for ever too.
OptionsInOrder ==
    seen.kind = "seen" /\ seen.optstring # <<>> /\ ~torn =>
        LET args == params[seen.depth]
            options == Options(args, seen.optstring[1])
        IN  Separate(args, seen.optstring[1]) =>
                IsPrefix(seen.got, options) /\ (seen.done => seen.got = options)

=============================================================================
