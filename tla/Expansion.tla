----------------------------- MODULE Expansion ------------------------------
(***************************************************************************)
(* Word expansion (shell/task/word.c, shell/word.c) as the commands of a   *)
(* loop use it: the word list of for, the arguments and assignments of a   *)
(* simple command, and the word and the patterns of case, expanded again   *)
(* in each turn of the loop.                                               *)
(*                                                                         *)
(* A word is the tree that the parser has built; a text is a sequence of   *)
(* characters. Each function returns the set of its outcomes, each with a  *)
(* status, a value and the environment it leaves behind, as in Arithm.     *)
(***************************************************************************)
EXTENDS Arithm

CONSTANTS
    Directory,  \* the files in the working directory, in the order glob finds them
    Homes       \* getpwnam: the home directories of the users that exist

-----------------------------------------------------------------------------
(* Words *)

mrsh_word_string(str, single_quoted) ==
    [type |-> "string", str |-> str, single_quoted |-> single_quoted, split_fields |-> FALSE]
SplitString(str, single_quoted) ==
    [type |-> "string", str |-> str, single_quoted |-> single_quoted, split_fields |-> TRUE]
mrsh_word_list(children, double_quoted) ==
    [type |-> "list", children |-> children, double_quoted |-> double_quoted]
mrsh_word_parameter(name, op, colon, arg) ==
    [type |-> "parameter", name |-> name, op |-> op, colon |-> colon, arg |-> arg]
\* output is what the command prints: the commands of a substitution run in a child.
mrsh_word_command(output) == [type |-> "command", output |-> output]
mrsh_word_arithmetic(body) == [type |-> "arithmetic", body |-> body]
NULL == [type |-> "NULL"]
IsNull(w) == w.type = "NULL"

RECURSIVE mrsh_word_str(_)
mrsh_word_str(w) ==
    IF w.type = "string" THEN w.str
    ELSE FoldLeft(LAMBDA s, c : s \o mrsh_word_str(c), <<>>, w.children)

-----------------------------------------------------------------------------
(* Patterns *)

BACKSLASH == "BS"
is_pathname_metachar(c) == c \in {"*", "?", "[", "]"}

\* fnmatch, without bracket expressions.
RECURSIVE fnmatch(_, _)
fnmatch(pat, s) ==
    IF pat = <<>> THEN s = <<>>
    ELSE CASE Head(pat) = "*" -> \E k \in 0 .. Len(s) : fnmatch(Tail(pat), SubSeq(s, k + 1, Len(s)))
           [] Head(pat) = "?" -> s # <<>> /\ fnmatch(Tail(pat), Tail(s))
           [] Head(pat) = BACKSLASH /\ Len(pat) > 1 ->
                 s # <<>> /\ Head(s) = pat[2] /\ fnmatch(SubSeq(pat, 3, Len(pat)), Tail(s))
           [] OTHER -> s # <<>> /\ Head(s) = Head(pat) /\ fnmatch(Tail(pat), Tail(s))

RECURSIVE needs_pathname_expansion(_)
needs_pathname_expansion(w) ==
    IF w.type = "string"
    THEN ~w.single_quoted /\ \E i \in DOMAIN w.str : is_pathname_metachar(w.str[i])
    ELSE ~w.double_quoted /\ \E i \in DOMAIN w.children : needs_pathname_expansion(w.children[i])

\* Quoted metacharacters are escaped; backslashes are not.
RECURSIVE PatternText(_, _)
PatternText(w, quoted) ==
    IF w.type = "string"
    THEN FoldLeft(LAMBDA s, c : s \o (IF is_pathname_metachar(c) /\ (quoted \/ w.single_quoted)
                                      THEN <<BACKSLASH>> ELSE <<>>) \o <<c>>, <<>>, w.str)
    ELSE FoldLeft(LAMBDA s, c : s \o PatternText(c, quoted \/ w.double_quoted), <<>>, w.children)

\* The pattern of an expanded word matches s: without metacharacters they are compared.
PatternMatches(w, s) ==
    IF needs_pathname_expansion(w) THEN fnmatch(PatternText(w, FALSE), s) ELSE mrsh_word_str(w) = s

expand_pathnames(field) ==
    LET found == SelectSeq(Directory, LAMBDA f : fnmatch(PatternText(field, FALSE), f))
    IN  IF needs_pathname_expansion(field) /\ found # <<>> THEN found ELSE <<mrsh_word_str(field)>>

-----------------------------------------------------------------------------
(* Tilde expansion *)

HomeOf(name, env) ==
    IF name = <<>> THEN {env.vars[v] : v \in {<<"HOME">>} \cap DOMAIN env.vars}
    ELSE {Homes[u] : u \in {name} \cap DOMAIN Homes}

\* str begins with a tilde and a name of n characters.  The outcome is a set: the home
\* directory and what follows the prefix, or nothing.
TildePrefix(str, n, last, env) ==
    IF (\A i \in 2 .. n + 1 : IsNameChar(str[i])) /\ (n + 1 < Len(str) \/ last)
    THEN {[dir |-> d, rest |-> SubSeq(str, n + 2, Len(str))] : d \in HomeOf(SubSeq(str, 2, n + 1), env)} ELSE {}
expand_tilde_at(str, last, env) ==
    IF str = <<>> \/ Head(str) # "~" THEN {}
    ELSE TildePrefix(str, CountWhile(Tail(str), LAMBDA c : c # "/"), last, env)

\* The words for a string: the directory of a tilde at its beginning, if first, and, in an
\* assignment, of each tilde behind a colon.
TildeWords(str, assign, first, last, env) ==
    LET RECURSIVE Words(_, _)
        Words(s, tilde) ==
            LET found == IF tilde THEN expand_tilde_at(s, last, env) ELSE {}
                n == IF assign THEN SelectInSeq(s, LAMBDA c : c = ":") ELSE 0
            IN  CASE found # {} ->
                       LET x == CHOOSE y \in found : TRUE
                       IN  <<mrsh_word_string(x.dir, TRUE)>> \o Words(x.rest, FALSE)
                  [] found = {} /\ n = 0 -> <<mrsh_word_string(s, FALSE)>>
                  [] found = {} /\ n > 0 ->
                       <<mrsh_word_string(SubSeq(s, 1, n), FALSE)>> \o Words(SubSeq(s, n + 1, Len(s)), TRUE)
    IN  Words(str, first)

RECURSIVE ExpandTilde(_, _, _, _, _)
ExpandTilde(w, assign, first, last, env) ==
    CASE w.type = "string" /\ ~w.single_quoted ->
           LET ws == TildeWords(w.str, assign, first, last, env)
           IN  IF Len(ws) = 1 THEN w ELSE mrsh_word_list(ws, FALSE)
      [] w.type = "list" /\ ~w.double_quoted ->
           [w EXCEPT !.children = [i \in DOMAIN @ |->
               ExpandTilde(@[i], assign, first /\ i = 1, last /\ i = Len(w.children), env)]]
      [] OTHER -> w

expand_tilde(w, assign, env) == ExpandTilde(w, assign, TRUE, TRUE, env)

-----------------------------------------------------------------------------
(* Parameters, command substitution and arithmetic *)

\* The text of a parameter, in a set, which is empty if it is not set. $@ and $* are words.
parameter_get_value(name, env) ==
    CASE name \in {<<"@">>, <<"*">>} -> {}
      [] name = <<"#">> -> {ToText(Len(env.args))}
      [] name = <<"?">> -> {ToText(env.last_status)}
      [] IsDigit(Head(name)) -> LET n == ToNumber(name, 10)
                                IN  IF n > Len(env.args) THEN {}
                                    ELSE {IF n = 0 THEN env.argv0 ELSE env.args[n]}
      [] OTHER -> {env.vars[v] : v \in {name} \cap DOMAIN env.vars}

DefaultIFS == <<" ", "TAB", "NL">>
IFS(env) == IF <<"IFS">> \in DOMAIN env.vars THEN env.vars[<<"IFS">>] ELSE DefaultIFS

expand_positional_params(env, quote_args) ==
    LET sep == IF IFS(env) = <<>> THEN <<>> ELSE <<SplitString(<<Head(IFS(env))>>, FALSE)>>
        Add(ws, a) == ws \o (IF ws = <<>> THEN <<>> ELSE sep) \o <<SplitString(a, quote_args)>>
    IN  mrsh_word_list(FoldLeft(Add, <<>>, env.args), FALSE)

RECURSIVE mark_word_split_fields(_)
mark_word_split_fields(w) ==
    CASE w.type = "string" -> [w EXCEPT !.split_fields = TRUE]
      [] w.type = "list" -> [w EXCEPT !.children = [i \in DOMAIN @ |-> mark_word_split_fields(@[i])]]
      [] OTHER -> w

is_null_word(w) == mrsh_word_str(w) = <<>>
copy_word_or_null(w) == IF IsNull(w) THEN mrsh_word_string(<<>>, FALSE) ELSE w

RECURSIVE run_word(_, _, _)

\* An error message is expanded as well, with all that this assigns.
apply_parameter_cond_op(wp, value, env) ==
    LET missing == IsNull(value) \/ (wp.colon /\ is_null_word(value))
    IN  CASE wp.op = "-" /\ missing -> Yields(copy_word_or_null(wp.arg), env)
          [] wp.op = "=" /\ missing ->
               Bind(run_word(copy_word_or_null(wp.arg), FALSE, env), LAMBDA r, env1 :
                    Yields(r, Assigned(env1, wp.name, mrsh_word_str(r))))
          [] wp.op = "?" /\ missing ->
               Bind(run_word(copy_word_or_null(wp.arg), FALSE, env), LAMBDA r, env1 : Fails("error", env1))
          [] wp.op = "+" ->
               Yields(IF missing THEN mrsh_word_string(<<>>, FALSE) ELSE copy_word_or_null(wp.arg), env)
          [] OTHER -> Yields(value, env)

trim_str(str, cut, suffix) ==
    LET n == Len(str) - Len(cut)
    IN  CASE ~suffix /\ IsPrefix(cut, str) -> SubSeq(str, Len(cut) + 1, Len(str))
          [] suffix /\ IsSuffix(cut, str) -> SubSeq(str, 1, n)
          [] OTHER -> str

\* Mutant: the first match from the other end.
trim_pattern_swapped(str, pat, suffix, largest) ==
    LET at == {i \in 0 .. Len(str) - 1 : IF suffix THEN fnmatch(pat, SubSeq(str, i + 1, Len(str)))
                                         ELSE fnmatch(pat, SubSeq(str, 1, i))}
        i == IF suffix # largest THEN Min(at) ELSE Max(at)
    IN  IF at = {} THEN str ELSE IF suffix THEN SubSeq(str, 1, i) ELSE SubSeq(str, i + 1, Len(str))

\* str is cut before each of its characters in turn, never at its end.
trim_pattern(str, pat, suffix, largest) ==
    LET at == {i \in 0 .. Len(str) - 1 : IF suffix THEN fnmatch(pat, SubSeq(str, i + 1, Len(str)))
                                         ELSE fnmatch(pat, SubSeq(str, 1, i))}
        i == IF suffix = largest THEN Min(at) ELSE Max(at)
    IN  IF at = {} THEN str ELSE IF suffix THEN SubSeq(str, 1, i) ELSE SubSeq(str, i + 1, Len(str))

apply_parameter_str_op(wp, value, env) ==
    LET str == CHOOSE v \in value : TRUE
        suffix == wp.op \in {"%", "%%"}
    IN  CASE wp.op = "length" -> IF value = {} /\ env.nounset THEN Yields(NULL, env)
                                 ELSE Yields(mrsh_word_string(ToText(IF value = {} THEN 0 ELSE Len(str)), FALSE), env)
          [] wp.op # "length" /\ value = {} -> Yields(NULL, env)
          [] wp.op # "length" /\ value # {} /\ IsNull(wp.arg) -> Yields(mrsh_word_string(str, FALSE), env)
          [] OTHER ->
               Bind(run_word(wp.arg, FALSE, env), LAMBDA p, env1 :
                    Yields(mrsh_word_string(
                        IF needs_pathname_expansion(p)
                        THEN trim_pattern(str, PatternText(p, FALSE), suffix, wp.op \in {"%%", "##"})
                        ELSE trim_str(str, mrsh_word_str(p), suffix), FALSE), env1))

RunParameter(wp, double_quoted, env) ==
    LET value == parameter_get_value(wp.name, env)
        all == wp.name \in {<<"@">>, <<"*">>}
        result ==
            IF wp.op \in {"none", "-", "=", "?", "+"}
            THEN apply_parameter_cond_op(wp,
                    CASE all -> expand_positional_params(env, wp.name = <<"@">> /\ double_quoted)
                      [] ~all /\ value # {} -> mrsh_word_string(CHOOSE v \in value : TRUE, FALSE)
                      [] OTHER -> NULL, env)
            ELSE IF all \/ (wp.op # "length" /\ wp.name = <<"#">>) THEN Fails("error", env)
            ELSE apply_parameter_str_op(wp, value, env)
    IN  Bind(result, LAMBDA r, env1 :
             IF IsNull(r)
             THEN IF env.nounset THEN Fails("error", env1) ELSE Yields(SplitString(<<>>, FALSE), env1)
             ELSE Bind(Yields(mark_word_split_fields(r), env1), LAMBDA m, env2 :
                       IF m.type = "string" THEN Yields(m, env2) ELSE run_word(m, FALSE, env2)))

RECURSIVE TrimNewlines(_)
TrimNewlines(s) == IF s # <<>> /\ Last(s) = "NL" THEN TrimNewlines(Front(s)) ELSE s
\* A pipe, a fork or a read that fails is an error of the word.
run_word_command(w, env) ==
    Fails("error", env) \cup Yields(SplitString(TrimNewlines(w.output), FALSE), env)

RunArithmetic(w, env) ==
    Bind(run_word(w.body, FALSE, env), LAMBDA b, env1 :
    Bind(Yields(mrsh_parse_arithm_expr(mrsh_word_str(b)), env1), LAMBDA r, env2 :
    Bind(IF r.ok THEN mrsh_run_arithm_expr(r.v, env2) ELSE Fails("error", env2), LAMBDA v, env3 :
         Yields(SplitString(ToText(v), FALSE), env3))))

\* The expansions of $@ leave the double quotes, with what is around them in quotes of its own.
OutsideQuotes(children, is_at_sign) ==
    LET Step(s, i) ==
            IF is_at_sign[i]
            THEN [quoted |-> <<>>,
                  unquoted |-> s.unquoted
                      \o (IF s.quoted = <<>> THEN <<>> ELSE <<mrsh_word_list(s.quoted, TRUE)>>)
                      \o <<children[i]>>]
            ELSE [s EXCEPT !.quoted = Append(@, children[i])]
        r == FoldLeft(Step, [quoted |-> <<>>, unquoted |-> <<>>], [i \in DOMAIN children |-> i])
    IN  mrsh_word_list(r.unquoted \o (IF r.quoted = <<>> THEN <<>> ELSE <<mrsh_word_list(r.quoted, TRUE)>>), FALSE)

RECURSIVE RunChildren(_, _, _)
RunChildren(children, double_quoted, env) ==
    IF children = <<>> THEN Yields(<<>>, env)
    ELSE Bind(RunChildren(Front(children), double_quoted, env), LAMBDA cs, env1 :
         Bind(run_word(Last(children), double_quoted, env1), LAMBDA r, env2 : Yields(Append(cs, r), env2)))

RunList(wl, double_quoted, env) ==
    LET is_at_sign == [i \in DOMAIN wl.children |->
                          wl.children[i].type = "parameter" /\ wl.children[i].name = <<"@">>]
    IN  Bind(RunChildren(wl.children, double_quoted \/ wl.double_quoted, env), LAMBDA cs, env1 :
             Yields(IF wl.double_quoted /\ \E i \in DOMAIN cs : is_at_sign[i]
                    THEN OutsideQuotes(cs, is_at_sign)
                    ELSE mrsh_word_list(cs, wl.double_quoted), env1))

run_word(w, double_quoted, env) ==
    CASE w.type = "string" -> Yields(w, env)
      [] w.type = "parameter" -> RunParameter(w, double_quoted, env)
      [] w.type = "command" -> run_word_command(w, env)
      [] w.type = "arithmetic" -> RunArithmetic(w, env)
      [] w.type = "list" -> RunList(w, double_quoted, env)

\* A word of a command: its tilde, then the rest of it.
RunWhole(w, assign, env) ==
    Bind(Yields(expand_tilde(w, assign, env), env), LAMBDA t, env1 : run_word(t, FALSE, env1))

-----------------------------------------------------------------------------
(* Field splitting *)

\* d: fields, each a list of words; open says whether the last one is cur_field.
add_to_cur_field(d, w) ==
    IF d.open THEN [d EXCEPT !.fields[Len(d.fields)] = Append(@, w)]
    ELSE [d EXCEPT !.open = TRUE, !.fields = Append(@, <<w>>)]

SplitChar(d, c, ifs) ==
    LET non_space == ~IsSpace(c)
    IN  CASE c \notin ifs -> [d EXCEPT !.buf = Append(@, c), !.in_ifs = FALSE, !.in_ifs_non_space = FALSE]
          [] c \in ifs /\ (~d.in_ifs \/ (non_space /\ d.in_ifs_non_space)) ->
               [add_to_cur_field(d, mrsh_word_string(d.buf, FALSE)) EXCEPT
                   !.open = FALSE, !.in_ifs = TRUE, !.buf = <<>>]
          [] c \in ifs /\ d.in_ifs /\ non_space /\ ~d.in_ifs_non_space -> [d EXCEPT !.in_ifs_non_space = TRUE]
          [] OTHER -> d

RECURSIVE SplitWord(_, _, _)
SplitWord(d, w, ifs) ==
    CASE w.type = "string" /\ (w.single_quoted \/ ~w.split_fields) ->
           [add_to_cur_field(d, w) EXCEPT !.in_ifs = FALSE, !.in_ifs_non_space = FALSE]
      [] w.type = "string" /\ ~w.single_quoted /\ w.split_fields ->
           LET e == FoldLeft(LAMBDA x, c : SplitChar(x, c, ifs), d, w.str)
           IN  IF e.in_ifs THEN e
               ELSE [add_to_cur_field(e, mrsh_word_string(e.buf, FALSE)) EXCEPT !.buf = <<>>]
      [] w.type = "list" /\ w.double_quoted -> add_to_cur_field(d, w)
      [] w.type = "list" /\ ~w.double_quoted -> FoldLeft(LAMBDA x, c : SplitWord(x, c, ifs), d, w.children)

split_fields(w, ifs) ==
    IF ifs = <<>> THEN <<w>>
    ELSE LET d == SplitWord([fields |-> <<>>, open |-> FALSE, buf |-> <<>>,
                             in_ifs |-> TRUE, in_ifs_non_space |-> FALSE], w, Range(ifs))
         IN  [i \in DOMAIN d.fields |-> mrsh_word_list(d.fields[i], FALSE)]

\* The value is the fields that the word expands to.
expand_word(word, env) ==
    Bind(RunWhole(word, FALSE, env), LAMBDA w, env1 :
         LET fields == split_fields(w, IFS(env1))
         IN  Yields(IF env1.noglob THEN [i \in DOMAIN fields |-> mrsh_word_str(fields[i])]
                    ELSE FlattenSeq([i \in DOMAIN fields |-> expand_pathnames(fields[i])]), env1))
=============================================================================
