------------------------------ MODULE WordLoop ------------------------------
(***************************************************************************)
(* A for loop whose body is a simple command and a case clause: how the    *)
(* commands use word expansion (run_for_clause and run_case_clause of      *)
(* shell/task/task.c, run_simple_command of shell/task/simple_command.c)   *)
(* when the same syntax tree is run again in another environment, and      *)
(* what the expansions should have been.                                   *)
(***************************************************************************)
EXTENDS Expansion

CONSTANT Programs  \* sets of loops, each with the initial environments to run them in; a loop is
                   \* a record of for_words, arguments, assignments, case_word, patterns and the
                   \* trees of its arithmetic expressions

VARIABLES
    tree,     \* the loop as it is in memory
    written,  \* the loop as it was parsed
    env,      \* variables, positional parameters and options
    pc,       \* "for", "next", "command", "case" or "over"
    todo,     \* the fields that the loop has yet to go through
    status,   \* "ok", "error", "killed" by a signal or "aborts"
    \* History.
    steps,    \* what the last command expanded: each word, in which environment and to what
    before,   \* the environment before the last command
    turns     \* how many turns the loop has begun

vars == <<tree, written, env, pc, todo, status, steps, before, turns>>

LoopVariable == <<"i">>

Init ==
    /\ \E p \in Programs : written \in p.loops /\ env \in p.envs
    /\ tree = written /\ before = env
    /\ pc = "for" /\ todo = <<>> /\ status = "ok" /\ steps = <<>> /\ turns = 0

\* Words expanded one after the other: all their fields, and the steps taken.
RECURSIVE ExpandWords(_, _)
ExpandWords(words, e) ==
    IF words = <<>> THEN Yields([fields |-> <<>>, steps |-> <<>>], e)
    ELSE Bind(ExpandWords(Front(words), e), LAMBDA v, e1 :
         Bind(expand_word(Last(words), e1), LAMBDA fs, e2 :
              Yields([fields |-> v.fields \o fs,
                      steps |-> Append(v.steps, [word |-> Last(words), env |-> e1, fields |-> fs])], e2)))

\* All values are expanded before the first is assigned.
RECURSIVE expand_assignments(_, _)
expand_assignments(assigns, e) ==
    IF assigns = <<>> THEN Yields(<<>>, e)
    ELSE Bind(expand_assignments(Front(assigns), e), LAMBDA v, e1 :
         Bind(RunWhole(Last(assigns).value, TRUE, e1), LAMBDA w, e2 :
              Yields(Append(v, [name |-> Last(assigns).name, str |-> mrsh_word_str(w)]), e2)))
run_assignments(assigns, e) == FoldLeft(LAMBDA f, a : Assigned(f, a.name, a.str), e, assigns)

Fail(o) == status' = o.status /\ env' = o.env /\ pc' = "over" /\ UNCHANGED <<todo, steps, turns, tree>>

RunFor ==
    /\ pc = "for"
    /\ before' = env /\ UNCHANGED written
    /\ \E o \in ExpandWords(tree.for_words, env) :
         \/ /\ o.status = "ok"
            /\ todo' = o.value.fields /\ steps' = o.value.steps /\ env' = o.env /\ pc' = "next"
            /\ UNCHANGED <<status, turns, tree>>
         \/ o.status # "ok" /\ Fail(o)

NextTurn ==
    /\ pc = "next" /\ todo # <<>>
    /\ env' = Assigned(env, LoopVariable, Head(todo)) /\ todo' = Tail(todo)
    /\ turns' = turns + 1 /\ pc' = "command"
    /\ UNCHANGED <<tree, written, status, steps, before>>

LoopEnds ==
    /\ pc = "next" /\ todo = <<>>
    /\ pc' = "over" /\ UNCHANGED <<tree, written, env, todo, status, steps, before, turns>>

\* A command without a name.
RunAssignments ==
    /\ pc = "command" /\ tree.arguments = <<>>
    /\ before' = env /\ UNCHANGED written
    /\ \E o \in expand_assignments(tree.assignments, env) :
         \/ /\ o.status = "ok"
            /\ env' = run_assignments(o.value, o.env) /\ steps' = <<>> /\ pc' = "case"
            /\ UNCHANGED <<todo, status, turns, tree>>
         \/ o.status # "ok" /\ Fail(o)

\* The command is expanded in a copy of its tree. A name that expands to nothing meets
\* assert(args.len > 0); the values of assignments only go to the command.
RunSimpleCommand ==
    /\ pc = "command" /\ tree.arguments # <<>>
    /\ before' = env /\ UNCHANGED written
    /\ \E o \in ExpandWords(tree.arguments, env) :
         \/ o.status # "ok" /\ Fail(o)
         \/ /\ o.status = "ok" /\ o.value.fields = <<>>
            /\ Fail([o EXCEPT !.status = "aborts"])
         \/ /\ o.status = "ok" /\ o.value.fields # <<>>
            /\ \E a \in expand_assignments(tree.assignments, o.env) :
                 \/ a.status # "ok" /\ Fail(a)
                 \/ /\ a.status = "ok"
                    /\ steps' = o.value.steps /\ env' = a.env /\ pc' = "case"
                    /\ UNCHANGED <<todo, status, turns, tree>>

\* Mutant: later patterns are tried as well.
TryPatterns_last(patterns, str, e) ==
    LET RECURSIVE Upto(_)
        Upto(k) ==
            IF k = 0 THEN Yields([patterns |-> patterns, chosen |-> 0], e)
            ELSE Bind(Upto(k - 1), LAMBDA v, e1 :
                Bind(RunWhole(v.patterns[k], FALSE, e1), LAMBDA w, e2 :
                          Yields([patterns |-> [v.patterns EXCEPT ![k] = w],
                                  chosen |-> IF PatternMatches(w, str) THEN k ELSE v.chosen], e2)))
    IN  Upto(Len(patterns))

\* The patterns that have been tried, each expanded in place, up to the one that matches.
\* v.patterns are the trees left behind, v.chosen is the number of the pattern, or 0.
TryPatterns(patterns, str, e) ==
    LET RECURSIVE Upto(_)
        Upto(k) ==
            IF k = 0 THEN Yields([patterns |-> patterns, chosen |-> 0], e)
            ELSE Bind(Upto(k - 1), LAMBDA v, e1 :
                IF v.chosen # 0 THEN Yields(v, e1)
                ELSE Bind(RunWhole(v.patterns[k], FALSE, e1), LAMBDA w, e2 :
                          Yields([patterns |-> [v.patterns EXCEPT ![k] = w],
                                  chosen |-> IF PatternMatches(w, str) THEN k ELSE 0], e2)))
    IN  Upto(Len(patterns))

RunCase ==
    /\ pc = "case"
    /\ before' = env /\ UNCHANGED written
    /\ \E o \in Bind(RunWhole(tree.case_word, FALSE, env), LAMBDA w, e :
                     Bind(TryPatterns(tree.patterns, mrsh_word_str(w), e), LAMBDA v, f :
                          Yields([str |-> mrsh_word_str(w)] @@ v, f))) :
         \/ /\ o.status = "ok"
            /\ tree' = [tree EXCEPT !.patterns = o.value.patterns]
            /\ steps' = <<[str |-> o.value.str, chosen |-> o.value.chosen]>>
            /\ env' = o.env /\ pc' = "next" /\ UNCHANGED <<todo, status, turns>>
         \/ o.status # "ok" /\ Fail(o)

Done == pc = "over" /\ UNCHANGED vars

Next == RunFor \/ NextTurn \/ LoopEnds \/ RunAssignments \/ RunSimpleCommand \/ RunCase \/ Done

Spec == Init /\ [][Next]_vars

-----------------------------------------------------------------------------
(* What a word should expand to *)

\* A word expands to items: characters that are literal, quoted, in double quotes or the
\* result of an expansion to be split, an empty quoted part, or a break between the fields
\* of positional parameters.
Items(str, kind) == [k \in DOMAIN str |-> [c |-> str[k], kind |-> kind]]
NullItem(kind) == <<[c |-> "null", kind |-> kind]>>
BreakItem == <<[c |-> "break", kind |-> "break"]>>
Kind(dq) == IF dq THEN "double" ELSE "split"
Intersperse(seqs, sep) == FoldLeft(LAMBDA s, k : IF k = 1 THEN seqs[1] ELSE s \o sep \o seqs[k],
                                   <<>>, [k \in DOMAIN seqs |-> k])

\* The smallest or largest part of str at one end that the pattern matches is removed.
Trimmed(str, p, suffix, largest) ==
    LET n == Len(str)
        cuts == {k \in 0 .. n : PatternMatches(p, IF suffix THEN SubSeq(str, n - k + 1, n) ELSE SubSeq(str, 1, k))}
        k == IF largest THEN Max(cuts) ELSE Min(cuts)
    IN  IF cuts = {} THEN str ELSE IF suffix THEN SubSeq(str, 1, n - k) ELSE SubSeq(str, k + 1, n)

RECURSIVE Reference(_, _, _)
ReferenceParameter(wp, dq, e) ==
    LET name == wp.name
        all == name \in {<<"@">>, <<"*">>}
        value == parameter_get_value(name, e)
        str == IF all THEN FlattenSeq(e.args) ELSE CHOOSE v \in value : TRUE
        unset == ~all /\ value = {}
        missing == unset \/ (wp.colon /\ str = <<>>)
        quoted_args == Intersperse([k \in DOMAIN e.args |-> NullItem("quoted") \o Items(e.args[k], "quoted")], BreakItem)
        self == CASE name = <<"@">> /\ dq -> quoted_args
                  [] name = <<"*">> /\ dq -> Items(Intersperse(e.args, SubSeq(IFS(e), 1, IF IFS(e) = <<>> THEN 0 ELSE 1)), "double")
                  [] all /\ ~dq -> Intersperse([k \in DOMAIN e.args |-> Items(e.args[k], "split")], BreakItem)
                  [] OTHER -> Items(str, Kind(dq))
        arg == IF IsNull(wp.arg) THEN Yields(<<>>, e)
               ELSE Bind(Reference(wp.arg, dq, e), LAMBDA items, e1 :
                         Yields([k \in DOMAIN items |-> IF items[k].kind = "literal"
                                                        THEN [items[k] EXCEPT !.kind = Kind(dq)] ELSE items[k]], e1))
        Unbound == IF e.nounset THEN Fails("error", e) ELSE Yields(<<>>, e)
    IN  CASE wp.op = "none" -> IF unset THEN Unbound ELSE Yields(self, e)
          [] wp.op \in {"-", "="} -> IF missing THEN arg ELSE Yields(self, e)
          [] wp.op = "?" -> IF missing THEN Fails("error", e) ELSE Yields(self, e)
          [] wp.op = "+" -> IF missing THEN Yields(<<>>, e) ELSE arg
          [] wp.op = "length" -> IF all THEN Fails("error", e)
                                 ELSE IF unset /\ e.nounset THEN Fails("error", e)
                                 ELSE Yields(Items(ToText(IF unset THEN 0 ELSE Len(str)), Kind(dq)), e)
          [] OTHER -> IF all \/ name = <<"#">> THEN Fails("error", e)
                      ELSE IF unset THEN Unbound
                      ELSE IF IsNull(wp.arg) THEN Yields(self, e)
                      ELSE Bind(run_word(wp.arg, FALSE, e), LAMBDA p, e1 :
                                Yields(Items(Trimmed(str, p, wp.op \in {"%", "%%"}, wp.op \in {"%%", "##"}), Kind(dq)), e1))

Reference(w, dq, e) ==
    CASE w.type = "string" -> Yields(IF w.single_quoted THEN NullItem("quoted") \o Items(w.str, "quoted")
                                     ELSE Items(w.str, IF dq THEN "double" ELSE "literal"), e)
      [] w.type = "parameter" -> ReferenceParameter(w, dq, e)
      [] w.type = "command" -> Yields(Items(TrimNewlines(w.output), Kind(dq)), e)
      [] w.type = "arithmetic" -> Bind(RunArithmetic(w, e), LAMBDA r, e1 : Yields(Items(r.str, Kind(dq)), e1))
      [] w.type = "list" ->
           LET only_at == \A k \in DOMAIN w.children :
                             w.children[k].type = "parameter" /\ w.children[k].name = <<"@">>
               RECURSIVE Upto(_)
               Upto(n) ==
                   IF n = 0
                   THEN Yields(IF w.double_quoted /\ ~(only_at /\ w.children # <<>>) THEN NullItem("double") ELSE <<>>, e)
                   ELSE Bind(Upto(n - 1), LAMBDA is, e1 :
                        Bind(Reference(w.children[n], dq \/ w.double_quoted, e1), LAMBDA r, e2 : Yields(is \o r, e2)))
           IN  Upto(Len(w.children))

\* Field splitting by the rules of the standard: blanks in IFS separate fields together,
\* any other character in IFS ends a field of its own. blank says that the last field was
\* ended by blanks alone. dquotes says that the field consists of parts in double quotes
\* only; joined that such a field has been ended by a separator.
Separates(item, ifs) == item.kind = "split" /\ item.c \in Range(ifs)
SplitItems(items, ifs) ==
    LET Close(s) == [s EXCEPT !.fields = Append(@, s.cur), !.cur = <<>>, !.open = FALSE]
        Step(s, it) ==
            CASE it.kind = "break" -> [(IF s.open THEN Close(s) ELSE s) EXCEPT !.blank = FALSE]
              [] Separates(it, ifs) /\ s.open ->
                   [Close(s) EXCEPT !.blank = IsSpace(it.c), !.joined = @ \/ s.dquotes]
              [] Separates(it, ifs) /\ ~s.open /\ IsSpace(it.c) -> s
              [] Separates(it, ifs) /\ ~s.open /\ ~IsSpace(it.c) ->
                   IF s.blank THEN [s EXCEPT !.blank = FALSE] ELSE [Close(s) EXCEPT !.empties = TRUE]
              [] OTHER -> [s EXCEPT !.cur = IF it.c = "null" THEN @ ELSE Append(@, it), !.open = TRUE,
                                    !.dquotes = it.kind = "double" /\ (@ \/ ~s.open)]
        r == FoldLeft(Step, [fields |-> <<>>, cur |-> <<>>, open |-> FALSE, blank |-> FALSE,
                             dquotes |-> FALSE, joined |-> FALSE, empties |-> FALSE], items)
    IN  IF r.open THEN Close(r) ELSE r

\* The files that a field stands for, or else its text.
Pathnames(field) ==
    LET Unquoted(it) == it.kind \in {"literal", "split"}
        text == [k \in DOMAIN field |-> field[k].c]
        pat == FlattenSeq([k \in DOMAIN field |->
                   IF Unquoted(field[k]) THEN <<field[k].c>> ELSE <<BACKSLASH, field[k].c>>])
        found == SelectSeq(Directory, LAMBDA f : fnmatch(pat, f))
        meta == \E k \in DOMAIN field : Unquoted(field[k]) /\ is_pathname_metachar(field[k].c)
    IN  IF meta /\ found # <<>> THEN found ELSE <<text>>

ReferenceFields(items, e) ==
    LET fs == SplitItems(items, IFS(e)).fields
    IN  FlattenSeq([k \in DOMAIN fs |->
            IF e.noglob THEN <<[j \in DOMAIN fs[k] |-> fs[k][j].c]>> ELSE Pathnames(fs[k])])

-----------------------------------------------------------------------------
(* Properties *)

RECURSIVE Parameters(_)
Parameters(w) ==
    CASE w.type = "parameter" -> {w} \cup Parameters(w.arg)
      [] w.type = "list" -> UNION {Parameters(w.children[k]) : k \in DOMAIN w.children}
      [] w.type = "arithmetic" -> Parameters(w.body)
      [] OTHER -> {}

\* A pattern that matches when the value is cut at its end: a prefix that is all of it, or
\* an empty suffix. trim_pattern never tries that (shell/task/word.c:367).
CutAtEnd(w, e) ==
    \E wp \in Parameters(w) :
        /\ wp.op \in {"#", "##", "%"} /\ ~IsNull(wp.arg)
        /\ \E o \in run_word(wp.arg, FALSE, e), str \in parameter_get_value(wp.name, e) :
             /\ o.status = "ok" /\ needs_pathname_expansion(o.value)
             /\ fnmatch(PatternText(o.value, FALSE), IF wp.op = "%" THEN <<>> ELSE str)

\* "${x-$@}": the parameters are joined, since the quotes are out of sight (shell/task/word.c:544).
NestedAt(w) ==
    \E wp \in Parameters(w) : \E vp \in Parameters(wp.arg) : vp.name = <<"@">>

\* Where the shell's field splitting is its own: an empty field that only a character in
\* IFS delimits is dropped (shell/word.c:184), a separator behind a part in double
\* quotes does not end the field (shell/word.c:202), and with a null IFS each word is one field
\* (shell/word.c:221).
OwnSplitting(items, e) ==
    LET r == SplitItems(items, IFS(e))
    IN  r.empties \/ r.joined \/ (IFS(e) = <<>> /\ Len(r.fields) # 1)

\* But for these, a word of a command expands to the fields the standard asks for, in the
\* environment of its turn and of the words before it, however often the loop has been run
\* and whatever the earlier expansions have assigned or replaced in a tree.
FieldsAsReference ==
    pc \in {"next", "case"} =>
        \A k \in DOMAIN steps : "word" \in DOMAIN steps[k] =>
            LET s == steps[k]
                w == IF pc = "case" THEN written.arguments[k] ELSE s.word
                outs == Reference(expand_tilde(w, FALSE, s.env), FALSE, s.env)
            IN  \/ CutAtEnd(w, s.env) \/ NestedAt(w)
                \/ \E o \in outs : o.status = "ok" /\ (OwnSplitting(o.value, o.env)
                                                       \/ s.fields = ReferenceFields(o.value, o.env))

\* The first pattern, as written, that matches in the environment at hand.
FirstMatch(e, str) ==
    LET hits == {k \in DOMAIN written.patterns :
                   \E o \in RunWhole(written.patterns[k], FALSE, e) :
                       o.status = "ok" /\ PatternMatches(o.value, str)}
    IN  IF hits = {} THEN 0 ELSE Min(hits)
CaseRan == pc = "next" /\ steps # <<>> /\ "chosen" \in DOMAIN steps[1]
Constant(w) == expand_tilde(w, FALSE, before) = w /\ run_word(w, FALSE, before) = Yields(w, before)

\* case takes the first of its patterns that matches (task.c:211), in every turn if the
\* patterns hold nothing to expand, in the first turn anyway.
CaseAsReference ==
    CaseRan /\ (turns = 1 \/ \A k \in DOMAIN written.patterns : Constant(written.patterns[k])) =>
        steps[1].chosen = FirstMatch(before, steps[1].str)

-----------------------------------------------------------------------------
(* The arithmetic of C *)

Level(e) ==
    CASE e.type = "assign" -> 0
      [] e.type = "cond" -> 1
      [] e.type = "binop" ->
           CHOOSE n \in 2 .. 11 : e.op \in
               <<{}, {<<"|", "|">>}, {<<"&", "&">>}, {<<"|">>}, {<<"^">>}, {<<"&">>}, {<<"=", "=">>, <<"!", "=">>},
                 {<<"<">>, <<"<", "=">>, <<">">>, <<">", "=">>}, {<<"<", "<">>, <<">", ">">>},
                 {<<"+">>, <<"-">>}, {<<"*">>, <<"/">>, <<"%">>}>>[n]
      [] e.type = "unop" -> 12
      [] OTHER -> 13

\* The text of an expression, with the parentheses that C needs.
RECURSIVE ExprText(_, _, _)
ExprText(e, min, blanks) ==
    LET n == Level(e)
        b == IF blanks THEN <<" ">> ELSE <<>>
        text == CASE e.type = "literal" -> ToText(e.value)
                  [] e.type = "variable" -> e.name
                  [] e.type = "unop" -> <<e.op>> \o ExprText(e.body, 12, blanks)
                  [] e.type = "binop" -> ExprText(e.left, n, blanks) \o b \o e.op \o b \o ExprText(e.right, n + 1, blanks)
                  [] e.type = "cond" -> ExprText(e.condition, 2, blanks) \o b \o <<"?">> \o b \o ExprText(e.body, 0, blanks)
                                          \o b \o <<":">> \o b \o ExprText(e.else_part, 1, blanks)
                  [] e.type = "assign" -> e.name \o b \o e.op \o b \o ExprText(e.value, 0, blanks)
    IN  IF n < min THEN <<"(">> \o text \o <<")">> ELSE text

\* Its value, where both operands of && and || are evaluated.
RECURSIVE CValue(_, _)
CValue(e, f) ==
    CASE e.type = "literal" -> Yields(e.value, f)
      [] e.type = "variable" -> run_variable(e.name, f)
      [] e.type = "unop" ->
           Bind(CValue(e.body, f), LAMBDA v, g :
                Yields(CASE e.op = "+" -> v [] e.op = "-" -> Wrap(-v)
                         [] e.op = "~" -> -v - 1 [] e.op = "!" -> IF v = 0 THEN 1 ELSE 0, g))
      [] e.type = "binop" -> Bind(CValue(e.left, f), LAMBDA l, g :
                             Bind(CValue(e.right, g), LAMBDA r, h : Computes(e.op, l, r, h)))
      [] e.type = "cond" -> Bind(CValue(e.condition, f), LAMBDA c, g :
                                 CValue(IF c # 0 THEN e.body ELSE e.else_part, g))
      [] e.type = "assign" ->
           Bind(CValue(e.value, f), LAMBDA v, g :
           Bind(IF e.op = <<"=">> THEN Yields(v, g)
                ELSE Bind(run_variable(e.name, g), LAMBDA u, h : Computes(Front(e.op), u, v, h)), LAMBDA v2, h :
                Yields(v2, Assigned(h, e.name, ToText(v2)))))

RECURSIVE Nodes(_)
Nodes(e) ==
    {e} \cup (CASE e.type = "unop" -> Nodes(e.body)
                [] e.type = "binop" -> Nodes(e.left) \cup Nodes(e.right)
                [] e.type = "cond" -> Nodes(e.condition) \cup Nodes(e.body) \cup Nodes(e.else_part)
                [] e.type = "assign" -> Nodes(e.value)
                [] OTHER -> {})

\* The text of e ends with the operand of a unary operator.
RECURSIVE EndsInUnary(_)
EndsInUnary(e) ==
    e.type = "unop" \/ (e.type = "binop" /\ Level(e.right) > Level(e) /\ EndsInUnary(e.right))

\* Where the parser reads another expression, or none: a unary operator takes all that
\* follows as its operand (parser/arithm.c:130), shifts and comparisons group from the right
\* (:269, :300, :326), blanks around =, ?, : and after == and != (:318, :408, :465), a name
\* before == (:465), an assignment behind ? (:413); and where unary plus leaves
\* its result unwritten (shell/arithm.c:112).
Misread(e, blanks) ==
    \E n \in Nodes(e) :
        \/ n.type = "unop" /\ n.op = "+"
        \/ n.type = "binop" /\ Level(n.left) >= Level(n) /\ EndsInUnary(n.left)
        \/ n.type = "binop" /\ Level(n) \in 7 .. 9 /\ Level(n.left) = Level(n)
        \/ n.type = "binop" /\ n.op = <<"=", "=">> /\ n.left.type = "variable"
        \/ n.type = "cond" /\ (EndsInUnary(n.condition) /\ Level(n.condition) >= 2)
        \/ n.type = "cond" /\ n.body.type = "assign"
        \/ blanks /\ (n.type \in {"cond", "assign"} \/ (n.type = "binop" /\ Level(n) = 7))

\* But for these, an arithmetic expansion gives the value that C gives to the expression,
\* assigns what it assigns, and fails where it has none: the grouping of all operators, and
\* the order of assignments and uses, are those of C.
ArithmeticAsC ==
    pc = "command" =>
        \A k \in DOMAIN written.exprs :
            LET e == written.exprs[k].expr
                blanks == written.exprs[k].blanks
                r == mrsh_parse_arithm_expr(ExprText(e, 0, blanks))
            IN  ~Misread(e, blanks) => r.ok /\ mrsh_run_arithm_expr(r.v, env) = CValue(e, env)
====
