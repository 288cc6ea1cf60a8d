------------------------------ MODULE ReadLoop ------------------------------
(***************************************************************************)
(* The loop of main that reads programs: a script is parsed a line at a    *)
(* time from one parser; an interactive shell gathers the lines the user   *)
(* types in read_buffer and parses all of them again as long as the last   *)
(* one is continued; eval parses its argument as a whole.                  *)
(*                                                                         *)
(* The inputs are texts of programs given as syntax trees, printed by the  *)
(* grammar of the shell language below, and any other tokens.              *)
(***************************************************************************)
EXTENDS Parser

CONSTANTS
    Written,      \* programs, as sequences of the command lists of a line
    Styles,       \* how the lists in compound commands are separated, of ";" and NEWLINE
    Modes,        \* of "script", "interactive" and "eval"
    OtherInputs,  \* further inputs
    AliasTables,  \* the aliases in force
    MaxAliased    \* bound: the tokens in an input that is read with aliases

ASSUME ReadLoopAssumption ==
    /\ Styles \subseteq {";", NEWLINE}
    /\ Modes \subseteq {"script", "interactive", "eval"}
    /\ \A t \in AliasTables : \A n \in DOMAIN t : t[n] # <<>>

-----------------------------------------------------------------------------
(* The text of a program *)

Joined(texts, sep) ==
    FoldLeft(LAMBDA s, t : IF s = <<>> THEN t ELSE s \o sep \o t, <<>>, texts)
Concat(texts) == FoldLeft(LAMBDA s, t : s \o t, <<>>, texts)
Each(seq, F(_)) == [i \in DOMAIN seq |-> F(seq[i])]

RECURSIVE Text(_, _)
ListText(body, sep) ==
    Concat(Each(body, LAMBDA l : Text(l.and_or_list, sep) \o <<IF l.ampersand THEN "&" ELSE sep>>))
RECURSIVE ElseText(_, _)
ElseText(ep, sep) ==
    CASE ep.type = "NULL" -> <<>>
      [] ep.type = "brace" -> <<"else">> \o ListText(ep.body, sep)
      [] ep.type = "if" -> <<"elif">> \o ListText(ep.condition, sep) \o <<"then">>
                             \o ListText(ep.body, sep) \o ElseText(ep.else_part, sep)

Text(n, sep) ==
    LET All(seq) == Concat(Each(seq, LAMBDA m : Text(m, sep)))
        Item(i) == Joined(Each(i.patterns, LAMBDA m : Text(m, sep)), <<"|">>) \o <<")">>
                     \o ListText(i.body, sep) \o <<";;">>
    IN  CASE n.type = "NULL" -> <<>>
          [] n.type = "string" -> IF n.quoted THEN <<SQUOTE>> \o n.text \o <<SQUOTE>> ELSE n.text
          [] n.type = "list" -> <<DQUOTE>> \o All(n.children) \o <<DQUOTE>>
          [] n.type = "command" -> IF n.back_quoted
                                   THEN <<BQUOTE>> \o ListText(n.program, ";") \o <<BQUOTE>>
                                   ELSE <<"$(">> \o ListText(n.program, ";") \o <<")">>
          [] n.type = "redirect" -> (IF n.io_number = "-1" THEN <<>> ELSE <<n.io_number>>)
                                      \o <<n.op>> \o Text(n.name, sep)
          [] n.type = "assignment" -> <<"a=x">>
          [] n.type = "simple" -> All(n.assignments) \o Text(n.name, sep)
                                    \o All(n.arguments) \o All(n.io_redirects)
          [] n.type = "brace" -> <<"{">> \o ListText(n.body, sep) \o <<"}">>
          [] n.type = "subshell" -> <<"(">> \o ListText(n.body, sep) \o <<")">>
          [] n.type = "if" -> <<"if">> \o ListText(n.condition, sep) \o <<"then">>
                                \o ListText(n.body, sep) \o ElseText(n.else_part, sep) \o <<"fi">>
          [] n.type = "for" -> <<"for", n.variable>>
                                 \o (IF n.in THEN <<"in">> \o All(n.word_list) \o <<sep>> ELSE <<>>)
                                 \o <<"do">> \o ListText(n.body, sep) \o <<"done">>
          [] n.type \in {"while", "until"} -> <<n.type>> \o ListText(n.condition, sep)
                                 \o <<"do">> \o ListText(n.body, sep) \o <<"done">>
          [] n.type = "case" -> <<"case">> \o Text(n.word, sep) \o <<"in">>
                                  \o Concat(Each(n.items, Item)) \o <<"esac">>
          [] n.type = "function" -> <<n.function, "(", ")">> \o Text(n.command, sep) \o All(n.io_redirects)
          [] n.type = "pipeline" -> (IF n.bang THEN <<"!">> ELSE <<>>)
                                      \o Joined(Each(n.commands, LAMBDA m : Text(m, sep)), <<"|">>)
          [] n.type \in {"&&", "||"} -> Text(n.left, sep) \o <<n.type>> \o Text(n.right, sep)

\* What stands in the here-document with a given delimiter.
Body(delim) == IF delim = "D1" THEN <<>> ELSE <<<<"fi">>, <<BLANK, delim, "a">>, <<>>, <<BLANK, "b">>>>

\* The here-documents that a text asks for, in the order of their operators.
Requests(text) ==
    LET at == SelectSeq([i \in 1 .. Len(text) |-> i], LAMBDA i : text[i] \in HereOps)
    IN  Each(at, LAMBDA i : [op |-> text[i], quoted |-> text[i + 1] = SQUOTE,
                             delim |-> IF text[i + 1] = SQUOTE THEN text[i + 2] ELSE text[i + 1]])
Documents(requests) ==
    Each(requests, LAMBDA r :
        [delim |-> <<r.delim>>, expand |-> ~r.quoted,
         lines |-> IF r.op = "<<-" THEN Each(Body(r.delim), TrimTabs) ELSE Body(r.delim)])
DocumentText(r) ==
    Concat(Each(Body(r.delim), LAMBDA l : Append(l, NEWLINE)))
      \o (IF r.op = "<<-" THEN <<BLANK>> ELSE <<>>) \o <<r.delim, NEWLINE>>

\* The text with its here-documents, each after the next newline that is not quoted.
\* Newlines in quotes are the only tokens inside quotes that matter here.
FillIn(text) ==
    LET Step(s, t) ==
            LET q == IF t = SQUOTE THEN ~s.quoted ELSE s.quoted
                due == t = NEWLINE /\ ~q
                n == Len(Requests(s.text))
                reqs == SubSeq(Requests(s.text), s.done + 1, n)
            IN  [quoted |-> q, done |-> IF due THEN n ELSE s.done, text |-> Append(s.text, t),
                 out |-> Append(s.out, t) \o IF due THEN Concat(Each(reqs, DocumentText)) ELSE <<>>]
    IN  FoldLeft(Step, [quoted |-> FALSE, done |-> 0, text |-> <<>>, out |-> <<>>], text).out

LineText(prog, sep) ==
    LET l == Concat(Each(prog, LAMBDA i : Text(i.and_or_list, sep) \o <<IF i.ampersand THEN "&" ELSE ";">>))
    IN  (IF prog[Len(prog)].ampersand THEN l ELSE SubSeq(l, 1, Len(l) - 1)) \o <<NEWLINE>>

-----------------------------------------------------------------------------
(* The loop *)

VARIABLES
    mode,
    input,        \* what the user has yet to type
    read_buffer,
    parser,
    pc,           \* "next" line, "parse", or "over"
    exit,         \* state->exit: -1 as long as the shell goes on
    \* History.
    ran,          \* the programs that have been run, with the here-documents read for each
    failed,       \* a syntax error has been reported
    written,      \* the programs that the input is the text of, if it is known
    text          \* what was written, without its here-documents: a text for each line

vars == <<mode, input, read_buffer, parser, pc, exit, ran, failed, written, text>>

Unknown == <<>>
Sources ==
    {[progs |-> Unknown, lines |-> <<t>>] : t \in OtherInputs}
    \cup {[progs |-> w, lines |-> Each(w, LAMBDA p : LineText(p, s))] : w \in Written, s \in Styles}

\* eval adds a newline to its arguments, and its parser knows no aliases.
Init ==
    /\ mode \in Modes
    /\ \E s \in Sources, a \in AliasTables :
         /\ DOMAIN a # {} => s.progs = Unknown /\ Len(s.lines[1]) <= MaxAliased /\ mode # "eval"
         /\ LET all == IF s.progs = Unknown THEN Concat(s.lines) ELSE Concat(Each(s.lines, FillIn))
            IN
             /\ written = s.progs
             /\ text = s.lines
             /\ input = IF mode = "interactive" THEN all ELSE <<>>
             /\ parser = CASE mode = "interactive" -> mrsh_parser(<<>>, a)
                           [] mode = "script" -> mrsh_parser(all, a)
                           [] mode = "eval" -> mrsh_parser(Append(all, NEWLINE), NoAliases)
    /\ read_buffer = <<>> /\ ran = <<>> /\ failed = FALSE /\ exit = -1
    /\ pc = IF mode = "interactive" THEN "next" ELSE "parse"

\* All that has been typed since the last complete line is parsed again.
ParserInput(line) == read_buffer \o line

\* The interactive half of the loop, up to mrsh_parser_reset.
InteractiveNext ==
    /\ pc = "next"
    /\ LET n == SelectInSeq(input, LAMBDA t : t = NEWLINE)
           m == IF n = 0 THEN Len(input) ELSE n
           line == SubSeq(input, 1, m)
       IN  \/ /\ input = <<>>
              /\ pc' = "over" /\ exit' = 0 /\ UNCHANGED <<input, read_buffer, parser>>
           \/ /\ input # <<>>
              /\ input' = SubSeq(input, m + 1, Len(input))
              /\ read_buffer' = read_buffer \o line
              /\ parser' = mrsh_parser_reset(parser, ParserInput(line))
              /\ pc' = "parse" /\ UNCHANGED exit
    /\ UNCHANGED <<mode, ran, failed, written, text>>

\* mrsh_run_program; a blank line is an empty program.
Run(r) ==
    ran' = IF r.v = <<>> THEN ran
           ELSE Append(ran, [body |-> r.v, documents |-> r.p.documents])

\* mrsh_parse_line and what the loop does with what it returns.
ParseLine ==
    /\ mode # "eval" /\ pc = "parse"
    /\ \E r \in {mrsh_parse_line([parser EXCEPT !.documents = <<>>])} :
       LET next == IF mode = "interactive" THEN "next" ELSE "parse"
           continued == mode = "interactive" /\ r.p.continuation_line
       IN  /\ parser' = r.p
           /\ \/ /\ r.p.stuck # "no"
                 /\ pc' = "over" /\ UNCHANGED <<ran, failed, exit, read_buffer>>
              \/ /\ r.p.stuck = "no" /\ continued
                 /\ pc' = next /\ UNCHANGED <<ran, failed, exit, read_buffer>>
              \/ /\ r.p.stuck = "no" /\ ~continued /\ r.ok
                 /\ Run(r) /\ pc' = next /\ read_buffer' = <<>> /\ UNCHANGED <<failed, exit>>
              \/ /\ r.p.stuck = "no" /\ ~continued /\ ~r.ok /\ r.p.error
                 /\ failed' = TRUE /\ read_buffer' = <<>> /\ UNCHANGED ran
                 /\ \/ mode = "interactive" /\ pc' = next /\ UNCHANGED exit
                    \/ mode = "script" /\ pc' = "over" /\ exit' = 1
              \/ /\ r.p.stuck = "no" /\ ~continued /\ ~r.ok /\ ~r.p.error
                 /\ exit' = IF r.p.sym = EOF_TOKEN THEN 0 ELSE 1
                 /\ pc' = "over" /\ UNCHANGED <<ran, failed, read_buffer>>
    /\ UNCHANGED <<mode, input, written, text>>

builtin_eval ==
    /\ mode = "eval" /\ pc = "parse"
    /\ \E r \in {mrsh_parse_program(parser)} :
           /\ parser' = r.p
           /\ \/ r.p.error /\ failed' = TRUE /\ UNCHANGED ran
              \/ ~r.p.error /\ Run(r) /\ UNCHANGED failed
    /\ pc' = "over"
    /\ UNCHANGED <<mode, input, read_buffer, exit, written, text>>

Done == pc = "over" /\ UNCHANGED vars

Next == InteractiveNext \/ ParseLine \/ builtin_eval \/ Done

Spec == Init /\ [][Next]_vars

-----------------------------------------------------------------------------
(* Properties *)

Commands(progs) == Concat(Each(progs, LAMBDA p : p))
Ran == Concat(Each(ran, LAMBDA r : r.body))
DocumentsRead == Concat(Each(ran, LAMBDA r : r.documents))

\* As long as no syntax error has been reported, what has been run is what was written,
\* command by command, each here-document with the lines that follow its own operator
\* (program.c:1175, main.c:75): nothing is run twice, grouped otherwise or taken for something
\* else when a line is continued and parsed again, and nothing between two commands that
\* were run has been left out.  (The trees that are written group && and || to the right,
\* as and_or does, program.c:1027, and the standard does not.)
RunsWhatWasWritten ==
    written # Unknown /\ ~failed =>
        /\ IsPrefix(Ran, Commands(written))
        /\ IsPrefix(DocumentsRead, Documents(Requests(Concat(text))))

\* Newlines outside single quotes, the last one left out, and the here-documents that are
\* still wanted when the line ends.
InnerNewlines(line) ==
    {i \in 1 .. Len(line) - 1 : /\ line[i] = NEWLINE
                                /\ Len(SelectSeq(SubSeq(line, 1, i), LAMBDA t : t = SQUOTE)) % 2 = 0}
Wanted(line) == Len(Requests(SubSeq(line, Max(InnerNewlines(line) \cup {0}) + 1, Len(line))))

\* Here-documents at the end of a top-level line have to be alone there and, but for an
\* interactive shell, the last thing in the input; and an interactive shell wants a
\* compound command on one line.
WithinLimits ==
    /\ \A i \in DOMAIN text : Wanted(text[i]) <= 1
    /\ IF mode = "interactive" THEN \A i \in DOMAIN text : InnerNewlines(text[i]) = {}
       ELSE \A i \in DOMAIN text : i < Len(text) => Wanted(text[i]) = 0

Accepted ==
    /\ ~failed
    /\ Ran = Commands(written)
    /\ DocumentsRead = Documents(Requests(Concat(text)))

\* A keyword that may follow a list, with a subshell right behind it on the same line.
KeywordSubshell ==
    \E i \in DOMAIN text : \E j \in 1 .. Len(text[i]) - 1 :
        text[i][j] \in {"then", "else", "elif", "do"} /\ text[i][j + 1] = "("

\* What is written within these limits is accepted and run to the last command, with all
\* its here-documents, in all three ways of reading it (program.c:1284, 1314, 1361).
WellFormedAccepted ==
    written # Unknown /\ pc = "over" /\ WithinLimits /\ ~KeywordSubshell => Accepted

\* Between two lines no redirection of an earlier line waits for its here-document
\* (parser.c:228): it has been destroyed with its program, and the next line would be read
\* as its text.
NoStaleHereDocuments ==
    pc = "next" \/ (pc = "parse" /\ mode = "script") => parser.here_documents = <<>>

\* The alias n leads, by the first words of the texts of aliases, into a cycle other than
\* that of an alias that begins with itself.
RECURSIVE Cyclic(_, _, _)
Cyclic(t, n, seen) ==
    n \in DOMAIN t /\ Head(t[n]) # n /\ (n \in seen \/ Cyclic(t, Head(t[n]), seen \cup {n}))

\* apply_aliases loops for ever (program.c:85) exactly when it comes to an alias in such a
\* cycle at the place of a command, here at the beginning of the input.
HangsOnAliasCycles ==
    /\ parser.stuck = "hangs" => \E n \in DOMAIN parser.alias : Cyclic(parser.alias, n, {})
    /\ pc = "over" /\ written = Unknown /\ text[1] # <<>> =>
         (Cyclic(parser.alias, Head(text[1]), {}) => parser.stuck = "hangs")

Newlines(buf) == Len(SelectSeq(buf, LAMBDA t : t = NEWLINE))

\* Whatever the input is, each turn of the loop leaves fewer lines to read (program.c:1343,
\* main.c:75), so that the shell comes to the end of it: a line that is in error, or
\* continued, or replaced by aliases is not parsed from the same place again.
EachLineConsumed ==
    [][/\ pc = "parse" /\ pc' = "parse" =>
            \/ Newlines(parser'.buf) < Newlines(parser.buf)
            \/ parser'.buf = <<>> /\ parser.buf # <<>>
       /\ pc = "next" /\ pc' = "parse" => Len(input') < Len(input)]_vars

=============================================================================
