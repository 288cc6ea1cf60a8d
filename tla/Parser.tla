------------------------------- MODULE Parser -------------------------------
(***************************************************************************)
(* The parser of programs, parser/program.c with the token layer of        *)
(* parser/parser.c and parser/word.c: a recursive descent over the input   *)
(* that the C code reads in place.                                         *)
(*                                                                         *)
(* The input is a sequence of tokens, not of characters: how a token is    *)
(* spelled is left out, what decides which function accepts it is kept.    *)
(* The C functions work on one struct mrsh_parser; here each takes the     *)
(* parser and returns a result with the parser it leaves behind.           *)
(***************************************************************************)
EXTENDS Integers, SequencesExt

NEWLINE == "NL"
EOF_TOKEN == "EOF"
BLANK == "TAB"
CONTINUED == "BSNL"  \* a backslash and the newline it joins
SQUOTE == "SQ"
DQUOTE == "DQ"
BQUOTE == "BQ"

\* The operators with a symbol of their own, and the characters that begin one.
Operators == {"&&", "||", ";;", "<<", "<<-", ">>", "<&", ">&", "<>", ">|"}
OperatorStart == Operators \cup {"&", "|", ";", "<", ">"}
RedirectOps == {"<", ">", "<&", ">&", ">>", ">|", "<>"}
HereOps == {"<<", "<<-"}

Keywords == {"if", "then", "else", "elif", "fi", "do", "done", "case", "esac", "while",
             "until", "for", "{", "}", "!", "in"}
Reserved == {"[[", "]]", "function", "select", "a:"}
Digits == {"1", "2"}
Names == {"a", "b", "c"} \cup (Keywords \ {"{", "}", "!"})
\* Assignment tokens, with what is behind the equals sign in the same word.
Assignments == [t \in {"a=", "a=x"} |-> [name |-> "a", rest |-> IF t = "a=" THEN <<>> ELSE <<"x">>]]
\* What begins a word that peek_word does not measure.
WordStart == {SQUOTE, DQUOTE, BQUOTE, "$(", CONTINUED}

-----------------------------------------------------------------------------
(* The syntax tree *)

mrsh_word_string(str, single_quoted) ==
    [type |-> "string", text |-> str, quoted |-> single_quoted, children |-> <<>>]
mrsh_word_list(children, double_quoted) ==
    [type |-> "list", text |-> <<>>, quoted |-> double_quoted, children |-> children]
mrsh_word_command(prog, back_quoted) ==
    [type |-> "command", text |-> <<>>, back_quoted |-> back_quoted, program |-> prog]
mrsh_io_redirect(io_number, op, name) ==
    [type |-> "redirect", io_number |-> io_number, op |-> op, name |-> name]
mrsh_assignment(name, value) == [type |-> "assignment", variable |-> name, value |-> value]
mrsh_simple_command(name, arguments, io_redirects, assignments) ==
    [type |-> "simple", name |-> name, arguments |-> arguments,
     io_redirects |-> io_redirects, assignments |-> assignments]
mrsh_brace_group(body) == [type |-> "brace", body |-> body]
mrsh_subshell(body) == [type |-> "subshell", body |-> body]
mrsh_if_clause(condition, body, else_part) ==
    [type |-> "if", condition |-> condition, body |-> body, else_part |-> else_part]
mrsh_for_clause(name, in, word_list, body) ==
    [type |-> "for", variable |-> name, in |-> in, word_list |-> word_list, body |-> body]
mrsh_loop_clause(type, condition, body) ==
    [type |-> type, condition |-> condition, body |-> body]
mrsh_case_item(patterns, body) == [patterns |-> patterns, body |-> body]
mrsh_case_clause(word, items) == [type |-> "case", word |-> word, items |-> items]
mrsh_function_definition(name, body, io_redirects) ==
    [type |-> "function", function |-> name, command |-> body, io_redirects |-> io_redirects]
mrsh_pipeline(commands, bang) == [type |-> "pipeline", commands |-> commands, bang |-> bang]
mrsh_binop(type, left, right) == [type |-> type, left |-> left, right |-> right]
mrsh_command_list(and_or_list, ampersand) ==
    [and_or_list |-> and_or_list, ampersand |-> ampersand]
NULL == [type |-> "NULL"]

-----------------------------------------------------------------------------
(* The parser and the tokens it reads *)

\* parser_create, for input that is there: sym is "none" unless has_sym is set.
\* documents lists the here-documents read so far; stuck says whether the parser
\* loops for ever or has called abort.
mrsh_parser(input, aliases) ==
    [buf |-> input, sym |-> "none", error |-> FALSE, here_documents |-> <<>>,
     continuation_line |-> FALSE, alias |-> aliases, documents |-> <<>>, stuck |-> "no"]
NoAliases == [n \in {} |-> <<>>]

Ok(p, v) == [p |-> p, ok |-> TRUE, v |-> v]
Fail(p) == [p |-> p, ok |-> FALSE, v |-> NULL]
Given(x, F(_)) == F(x)
Then(r, F(_)) == IF r.ok THEN F(r.p) ELSE r
AndThen(r, F(_, _)) == IF r.ok THEN F(r.p, r.v) ELSE r
OrElse(r, F(_)) == IF r.ok THEN r ELSE F(r.p)
OrNext(r, F(_)) == IF r.ok \/ r.p.error THEN r ELSE F(r.p)

parser_peek_char(p) == IF p.buf = <<>> THEN EOF_TOKEN ELSE Head(p.buf)
parser_read(p) == [p EXCEPT !.buf = Tail(@), !.continuation_line = FALSE]
read_continuation_line(p) == [parser_read(p) EXCEPT !.continuation_line = TRUE]

\* Mutant: an error leaves the here-documents of the line queued.
parser_set_error_kept(p) == [p EXCEPT !.error = TRUE]

\* The first error is kept, and only the first one drops the here-documents.
parser_set_error(p) ==
    IF p.error THEN p ELSE [p EXCEPT !.error = TRUE, !.here_documents = <<>>]
OrError(r) == IF r.ok THEN r ELSE Fail(parser_set_error(r.p))
parser_begin(p) == [p EXCEPT !.error = FALSE, !.continuation_line = FALSE]
mrsh_parser_reset(p, input) == [p EXCEPT !.buf = input, !.sym = "none"]

\* The tokens up to the next t, and the parser at t or at the end of the input.
Until(p, t) ==
    Given(SelectInSeq(p.buf \o <<t>>, LAMBDA u : u = t), LAMBDA n :
        [text |-> SubSeq(p.buf, 1, n - 1),
         p |-> [p EXCEPT !.buf = SubSeq(@, n, Len(@)), !.continuation_line = @ /\ n = 1]])

\* Blanks and comments are skipped, then the next token is classified.
RECURSIVE next_symbol(_)
next_symbol(p) ==
    LET c == parser_peek_char(p)
    IN  CASE c = BLANK -> next_symbol(parser_read(p))
          [] c = "#" -> next_symbol(Until(p, NEWLINE).p)
          [] OTHER -> [p EXCEPT !.sym = IF c \in {EOF_TOKEN, NEWLINE} \cup Operators
                                        THEN c ELSE "TOKEN"]

get_symbol(p) == IF p.sym = "none" THEN next_symbol(p) ELSE p
consume_symbol(p) == [p EXCEPT !.sym = "none"]
Symbol(p, sym) == get_symbol(p).sym = sym
eof(p) == Symbol(p, EOF_TOKEN)

Accept(p, accepted, str) == IF accepted THEN Ok(consume_symbol(parser_read(p)), str) ELSE Fail(p)
OperatorAt(p, sym) == Accept(p, p.sym = sym, sym)
operator(p, sym) == OperatorAt(get_symbol(p), sym)
newline(p) == operator(p, NEWLINE)

TokenAt(p, str) == Accept(p, p.sym = "TOKEN" /\ parser_peek_char(p) = str, str)
token(p, str) == TokenAt(get_symbol(p), str)
expect_token(p, str) == OrError(token(p, str))

RECURSIVE linebreak(_)
linebreak(p) == Given(newline(p), LAMBDA r : IF r.ok THEN linebreak(r.p) ELSE r.p)
newline_list(p) == AndThen(newline(p), LAMBDA q, nl : Ok(linebreak(q), nl))

separator_op(p) == OrElse(token(p, "&"), LAMBDA q : token(q, ";"))
AndLinebreak(r) == IF r.ok THEN Ok(linebreak(r.p), r.v) ELSE newline_list(r.p)
separator(p) == AndLinebreak(separator_op(p))
sequential_sep(p) == AndLinebreak(token(p, ";"))

\* Repeat F as long as it succeeds.
Many(F(_), p) ==
    LET RECURSIVE loop(_, _)
        loop(q, acc) ==
            Given(F(q), LAMBDA r : IF r.ok THEN loop(r.p, Append(acc, r.v)) ELSE Ok(r.p, acc))
    IN  loop(p, <<>>)

\* What F accepts behind those accepted before, with sep between them: once sep has been
\* read F has to succeed.
Separated(p, sep, F(_, _)) ==
    LET RECURSIVE loop(_, _)
        loop(q, before) ==
            AndThen(F(q, before), LAMBDA r, v : Given(token(r, sep), LAMBDA s :
                IF s.ok THEN loop(s.p, Append(before, v)) ELSE Ok(s.p, Append(before, v))))
    IN  loop(p, <<>>)

-----------------------------------------------------------------------------
(* Words *)

RECURSIVE mrsh_parse_program(_)

\* A newline in single quotes or back quotes continues the line, one in double quotes
\* does not, unless a backslash is before it.
Quoted(p, q, newlines) ==
    Given(Until(parser_read(p), q), LAMBDA r :
        IF r.p.buf = <<>>
        THEN Fail(parser_set_error([r.p EXCEPT
                !.continuation_line = r.text # <<>> /\ Last(r.text) \in newlines]))
        ELSE Ok(parser_read(r.p), r.text))

single_quotes(p) ==
    AndThen(Quoted(p, SQUOTE, {NEWLINE}), LAMBDA q, str : Ok(q, mrsh_word_string(str, TRUE)))

\* $(...): the same parser goes on, its queue of here-documents included.
expect_word_command(p) ==
    Given(mrsh_parse_program(consume_symbol([parser_read(p) EXCEPT !.alias = NoAliases])), LAMBDA r :
        Given([r.p EXCEPT !.alias = p.alias], LAMBDA q :
            IF q.error \/ ~r.ok THEN Fail(parser_set_error(q))
            ELSE AndThen(expect_token(q, ")"), LAMBDA t, v : Ok(t, mrsh_word_command(r.v, FALSE)))))

\* `...`: a parser of its own.  Only its error is looked at, not what it has left unread.
back_quotes(p) ==
    AndThen(Quoted(p, BQUOTE, {NEWLINE}), LAMBDA q, text :
        Given(mrsh_parse_program(mrsh_parser(text, NoAliases)), LAMBDA r :
            IF r.p.error THEN Fail(parser_set_error(q))
            ELSE Ok([q EXCEPT !.documents = @ \o r.p.documents], mrsh_word_command(r.v, TRUE))))

RECURSIVE WordPart(_, _)

\* Plain text between double quotes, with command substitutions.
RECURSIVE double_quotes_rest(_, _)
double_quotes_rest(p, children) ==
    LET c == parser_peek_char(p)
    IN  CASE c = EOF_TOKEN -> Fail(parser_set_error(p))
          [] c = DQUOTE -> Ok(parser_read(p), mrsh_word_list(children, TRUE))
          [] c \in {"$(", BQUOTE} ->
                AndThen(WordPart(p, c), LAMBDA q, w : double_quotes_rest(q, Append(children, w)))
          [] c = CONTINUED -> double_quotes_rest(read_continuation_line(p), children)
          [] OTHER -> double_quotes_rest(parser_read(p), Append(children, mrsh_word_string(<<c>>, FALSE)))

double_quotes(p) == double_quotes_rest(parser_read(p), <<>>)

\* One part of a word, at the character c.
WordPart(p, c) ==
    CASE c = SQUOTE -> single_quotes(p)
      [] c = DQUOTE -> double_quotes(p)
      [] c = BQUOTE -> back_quotes(p)
      [] c = "$(" -> expect_word_command(p)
      [] c = NEWLINE -> Ok(p, mrsh_word_list(<<>>, FALSE))
      [] OTHER -> Ok(parser_read(p), mrsh_word_string(<<c>>, FALSE))

\* A word that is left with an error keeps the symbol: the cached TOKEN is stale then.
RECURSIVE word(_)
word(p) ==
    Given(get_symbol(p), LAMBDA q :
        LET c == parser_peek_char(q)
            joined == read_continuation_line(q)
        IN  IF q.sym # "TOKEN" \/ c \in OperatorStart \cup {")", EOF_TOKEN} THEN Fail(q)
            ELSE IF c # CONTINUED
            THEN AndThen(WordPart(q, c), LAMBDA r, w : Ok(consume_symbol(r), w))
            ELSE IF parser_peek_char(joined) \in {EOF_TOKEN, NEWLINE, BLANK, ")"} \cup OperatorStart
            THEN Ok(consume_symbol(joined), mrsh_word_list(<<>>, FALSE))
            ELSE word(joined))
expect_word(p) == OrError(word(p))

\* peek_word and read_token: a word without quotes or expansions, as it stands.
PeekWord(p) == Symbol(p, "TOKEN")
    /\ parser_peek_char(get_symbol(p)) \notin WordStart \cup OperatorStart \cup {")", EOF_TOKEN, NEWLINE}
PeekName(p) == Symbol(p, "TOKEN") /\ parser_peek_char(get_symbol(p)) \in Names
read_token(p) == Given(get_symbol(p), LAMBDA q : Accept(q, TRUE, parser_peek_char(q)))

-----------------------------------------------------------------------------
(* Aliases *)

\* Mutant: an alias that has just been replaced is replaced again.
apply_aliases_again(p) ==
    LET RECURSIVE loop(_, _)
        loop(q0, seen) ==
            Given(get_symbol(q0), LAMBDA q : Given(parser_peek_char(q), LAMBDA name :
                IF q.sym # "TOKEN" \/ name \notin DOMAIN q.alias THEN q
                ELSE IF name \in seen THEN [q EXCEPT !.stuck = "hangs"]
                ELSE loop(consume_symbol([q EXCEPT !.buf = q.alias[name] \o Tail(@)]), seen \cup {name})))
    IN  loop(p, {})

\* The first word is replaced as long as it is an alias, and not the one just replaced.
\* The text of an alias is not empty, so that an alias met twice is met for ever.
apply_aliases(p) ==
    LET RECURSIVE loop(_, _, _)
        loop(q0, last, seen) ==
            Given(get_symbol(q0), LAMBDA q : Given(parser_peek_char(q), LAMBDA name :
                IF q.sym # "TOKEN" \/ name \notin DOMAIN q.alias \/ name = last THEN q
                ELSE IF name \in seen THEN [q EXCEPT !.stuck = "hangs"]
                ELSE loop(consume_symbol([q EXCEPT !.buf = q.alias[name] \o Tail(@)]),
                          name, seen \cup {name})))
    IN  IF DOMAIN p.alias = {} THEN p ELSE loop(p, "", {})

-----------------------------------------------------------------------------
(* Redirections and here-documents *)

\* A digit right before < or >.
io_number(p) ==
    Given(get_symbol(p), LAMBDA q :
        IF /\ q.sym = "TOKEN" /\ parser_peek_char(q) \in Digits
           /\ Len(q.buf) > 1 /\ q.buf[2] \in RedirectOps \cup HereOps
        THEN read_token(q) ELSE Fail(q))

AnyOperator(p, ops) ==
    Given(get_symbol(p), LAMBDA q :
        LET c == parser_peek_char(q) IN Accept(q, c \in ops /\ q.sym \in {c, "TOKEN"}, c))

\* io_file and io_here, without the queue.
RedirectWith(p, n, ops) ==
    AndThen(AnyOperator(p, ops), LAMBDA q, op :
        AndThen(expect_word(q), LAMBDA r, name : Ok(r, mrsh_io_redirect(n, op, name))))

\* When io_file has failed on its file name io_here still looks for its own operator.
io_redirect(p) ==
    Given(io_number(p), LAMBDA n :
        LET number == IF n.ok THEN n.v ELSE "-1"
        IN  OrElse(RedirectWith(n.p, number, RedirectOps), LAMBDA q :
                Given(RedirectWith(q, number, HereOps), LAMBDA here :
                    IF here.ok THEN Ok([here.p EXCEPT !.here_documents = Append(@, here.v)], here.v)
                    ELSE IF n.ok THEN OrError(here) ELSE here)))

\* word_str and is_word_quoted call abort for anything but strings and lists of them.
RECURSIVE IsText(_)
IsText(w) ==
    \/ w.type = "string"
    \/ w.type = "list" /\ \A i \in DOMAIN w.children : IsText(w.children[i])
RECURSIVE mrsh_word_str(_)
mrsh_word_str(w) ==
    w.text \o FoldLeft(LAMBDA s, c : s \o mrsh_word_str(c), <<>>, w.children)
RECURSIVE is_word_quoted(_)
is_word_quoted(w) == w.quoted \/ \E i \in DOMAIN w.children : is_word_quoted(w.children[i])

TrimTabs(line) == SubSeq(line, SelectInSeq(Append(line, ""), LAMBDA t : t # BLANK), Len(line))
Undented(redir, line) == IF redir.op = "<<-" THEN TrimTabs(line) ELSE line

\* Mutant: the tabs are only taken off to look for the delimiter.
here_document_lines_tabs(p, redir) ==
    LET RECURSIVE loop(_, _)
        loop(q, ls) ==
            Given(Until(q, NEWLINE), LAMBDA r : Given(Undented(redir, r.text), LAMBDA line :
                IF line = mrsh_word_str(redir.name)
                THEN Ok(IF r.p.buf = <<>> THEN r.p ELSE parser_read(r.p), ls)
                ELSE IF r.p.buf = <<>> THEN Fail(parser_set_error(r.p))
                ELSE loop(read_continuation_line(r.p), Append(ls, r.text))))
    IN  loop(p, <<>>)

\* The lines up to the one that is the delimiter; the newline after it is eaten.
here_document_lines(p, redir) ==
    LET RECURSIVE loop(_, _)
        loop(q, ls) ==
            Given(Until(q, NEWLINE), LAMBDA r : Given(Undented(redir, r.text), LAMBDA line :
                IF line = mrsh_word_str(redir.name)
                THEN Ok(IF r.p.buf = <<>> THEN r.p ELSE parser_read(r.p), ls)
                ELSE IF r.p.buf = <<>> THEN Fail(parser_set_error(r.p))
                ELSE loop(read_continuation_line(r.p), Append(ls, line))))
    IN  loop(p, <<>>)

expect_here_document(p, redir) ==
    IF ~IsText(redir.name) THEN Fail([p EXCEPT !.stuck = "aborts"])
    ELSE AndThen(here_document_lines([p EXCEPT !.continuation_line = TRUE], redir), LAMBDA q, lines :
        Ok(consume_symbol([q EXCEPT !.documents = Append(@,
             [delim |-> mrsh_word_str(redir.name), lines |-> lines,
              expand |-> ~is_word_quoted(redir.name)])]), NULL))

\* The loops over here_documents in term and complete_command: Before is what each
\* here-document has to be preceded by there.
HereDocuments(p, Before(_)) ==
    LET RECURSIVE loop(_, _)
        loop(r, i) ==
            IF ~r.ok THEN r
            ELSE IF i > Len(r.p.here_documents) THEN Ok([r.p EXCEPT !.here_documents = <<>>], NULL)
            ELSE LET redir == r.p.here_documents[i]
                 IN  loop(Then(Before(r.p), LAMBDA q : expect_here_document(q, redir)), i + 1)
    IN  IF p.here_documents = <<>> THEN Ok(p, NULL) ELSE loop(Ok(p, NULL), 1)

-----------------------------------------------------------------------------
(* Simple commands *)

\* The value is the rest of the word or, when nothing is behind the equals sign, the
\* next word, whatever blanks are between them.
assignment_word(p) ==
    Given(get_symbol(p), LAMBDA q :
        LET a == Assignments[parser_peek_char(q)]
            behind == consume_symbol(parser_read(q))
        IN  IF q.sym # "TOKEN" \/ parser_peek_char(q) \notin DOMAIN Assignments THEN Fail(q)
            ELSE Given(IF a.rest # <<>> THEN Ok(behind, mrsh_word_string(a.rest, FALSE))
                       ELSE word(behind), LAMBDA value :
                Ok(value.p, mrsh_assignment(a.name, IF value.ok THEN value.v
                                                    ELSE mrsh_word_string(<<"">>, FALSE)))))

cmd_prefix(p) == OrElse(io_redirect(p), assignment_word)
cmd_suffix(p) == OrElse(io_redirect(p), word)

cmd_name(p) ==
    Given(get_symbol(apply_aliases(p)), LAMBDA q :
        IF ~PeekWord(q) THEN word(q)
        ELSE IF parser_peek_char(q) \in Keywords THEN Fail(q)
        ELSE AndThen(read_token(q), LAMBDA r, str : Ok(r, mrsh_word_string(<<str>>, FALSE))))

OfType(nodes, type) == SelectSeq(nodes, LAMBDA n : n.type = type)

simple_command(p) ==
    Given(Many(cmd_prefix, p), LAMBDA prefix :
        Given(cmd_name(prefix.p), LAMBDA name :
            IF ~name.ok /\ prefix.v = <<>> THEN Fail(name.p)
            ELSE Given(IF name.ok THEN Many(cmd_suffix, name.p) ELSE Ok(name.p, <<>>), LAMBDA suffix :
                Ok(suffix.p, mrsh_simple_command(name.v,
                     SelectSeq(suffix.v, LAMBDA n : n.type # "redirect"),
                     OfType(prefix.v \o suffix.v, "redirect"), OfType(prefix.v, "assignment"))))))

-----------------------------------------------------------------------------
(* Compound commands *)

RECURSIVE and_or(_)
RECURSIVE compound_command(_)

\* Mutant: the here-documents of a line wait for the end of the compound command.
term_late(p) ==
    AndThen(and_or(p), LAMBDA q, l :
        Given(separator(q), LAMBDA sep : Ok(sep.p, mrsh_command_list(l, sep.ok /\ sep.v = "&"))))

term(p) ==
    AndThen(and_or(p), LAMBDA q, l :
        Given(separator(q), LAMBDA sep :
            AndThen(IF sep.ok /\ sep.v = NEWLINE THEN HereDocuments(sep.p, LAMBDA r : Ok(r, NULL))
                    ELSE Ok(sep.p, NULL),
                    LAMBDA r, v : Ok(r, mrsh_command_list(l, sep.ok /\ sep.v = "&")))))

compound_list(p) ==
    Given(Many(term, linebreak(p)), LAMBDA r : IF r.v = <<>> THEN Fail(r.p) ELSE r)
expect_compound_list(p) == OrError(compound_list(p))

\* A list behind the token that r has read, and the token that ends it.
Enclosed(r, end) ==
    AndThen(Then(r, expect_compound_list), LAMBDA p, body :
        AndThen(expect_token(p, end), LAMBDA q, v : Ok(q, body)))

brace_group(p) == AndThen(Enclosed(token(p, "{"), "}"), LAMBDA q, body : Ok(q, mrsh_brace_group(body)))
subshell(p) == AndThen(Enclosed(token(p, "("), ")"), LAMBDA q, body : Ok(q, mrsh_subshell(body)))
expect_do_group(p) == Enclosed(expect_token(p, "do"), "done")

\* The condition and the body behind the if or elif that r has read.
Branch(r) ==
    AndThen(Enclosed(r, "then"), LAMBDA p, condition :
        AndThen(expect_compound_list(p), LAMBDA q, body : Ok(q, [condition |-> condition, body |-> body])))

RECURSIVE else_part(_)
else_part(p) ==
    Given(token(p, "elif"), LAMBDA elif :
        IF elif.ok
        THEN AndThen(Branch(elif), LAMBDA q, b :
                 Given(else_part(q), LAMBDA ep : Ok(ep.p, mrsh_if_clause(b.condition, b.body, ep.v))))
        ELSE AndThen(Then(token(elif.p, "else"), expect_compound_list), LAMBDA q, body :
                 Ok(q, mrsh_brace_group(body))))

\* An else part that fails is no else part to if_clause, which then looks for fi.
if_clause(p) ==
    AndThen(Branch(token(p, "if")), LAMBDA q, b :
        Given(else_part(q), LAMBDA ep :
            AndThen(expect_token(ep.p, "fi"), LAMBDA r, v :
                Ok(r, mrsh_if_clause(b.condition, b.body, ep.v)))))

for_clause(p) ==
    AndThen(token(p, "for"), LAMBDA q, for :
        IF ~PeekName(q) THEN Fail(parser_set_error(get_symbol(q)))
        ELSE AndThen(read_token(q), LAMBDA r, name :
            Given(token(linebreak(r), "in"), LAMBDA in :
                AndThen(IF in.ok THEN Many(word, in.p) ELSE Ok(in.p, <<>>), LAMBDA s, words :
                    Given(sequential_sep(s), LAMBDA sep :
                        IF in.ok /\ ~sep.ok THEN OrError(sep)
                        ELSE AndThen(expect_do_group(sep.p), LAMBDA t, body :
                                 Ok(t, mrsh_for_clause(name, in.ok, words, body))))))))

loop_clause(p) ==
    AndThen(OrElse(token(p, "while"), LAMBDA q : token(q, "until")), LAMBDA q, type :
        AndThen(expect_compound_list(q), LAMBDA r, condition :
            AndThen(expect_do_group(r), LAMBDA s, body : Ok(s, mrsh_loop_clause(type, condition, body)))))

expect_case_item(p) ==
    AndThen(Separated(token(p, "(").p, "|", LAMBDA q, ws : expect_word(q)), LAMBDA q, patterns :
        AndThen(expect_token(q, ")"), LAMBDA r, v :
            Given(compound_list(r), LAMBDA body :
                IF body.p.error THEN Fail(body.p)
                ELSE Given(operator(body.p, ";;"), LAMBDA dsemi :
                    Ok(IF dsemi.ok THEN linebreak(dsemi.p) ELSE dsemi.p,
                       [item |-> mrsh_case_item(patterns, IF body.ok THEN body.v ELSE <<>>),
                        dsemi |-> dsemi.ok])))))

RECURSIVE case_items(_, _)
case_items(p, items) ==
    Given(token(p, "esac"), LAMBDA esac :
        IF esac.ok THEN Ok(esac.p, items)
        ELSE AndThen(expect_case_item(esac.p), LAMBDA q, i :
            IF i.dsemi THEN case_items(q, Append(items, i.item))
            ELSE AndThen(expect_token(q, "esac"), LAMBDA r, v : Ok(r, Append(items, i.item)))))

case_clause(p) ==
    AndThen(Then(token(p, "case"), expect_word), LAMBDA q, w :
        AndThen(expect_token(linebreak(q), "in"), LAMBDA r, in :
            AndThen(case_items(linebreak(r), <<>>), LAMBDA s, items : Ok(s, mrsh_case_clause(w, items)))))

FunctionAhead(p) ==
    LET behind == TrimTabs(Tail(p.buf)) IN PeekName(p) /\ behind # <<>> /\ Head(behind) = "("

\* A name and, after blanks on the same line, an opening parenthesis.
function_definition(p) ==
    Given(get_symbol(p), LAMBDA q :
        IF ~FunctionAhead(q) THEN Fail(q)
        ELSE AndThen(read_token(q), LAMBDA r, name :
            AndThen(Then(expect_token(r, "("), LAMBDA s : expect_token(s, ")")), LAMBDA t, v :
                AndThen(OrError(compound_command(linebreak(t))), LAMBDA u, body :
                    AndThen(Many(io_redirect, u), LAMBDA w, redirects :
                        Ok(w, mrsh_function_definition(name, body, redirects)))))))

unspecified_word(p) == PeekWord(p) /\ parser_peek_char(get_symbol(p)) \in Reserved

\* Each alternative fails without an error when its first token is not there.
compound_command(p) ==
    OrNext(OrNext(OrNext(OrNext(OrNext(OrNext(brace_group(p),
        subshell), if_clause), for_clause), loop_clause), case_clause), LAMBDA q :
            IF unspecified_word(q) THEN Fail(parser_set_error(q)) ELSE function_definition(q))

-----------------------------------------------------------------------------
(* Programs *)

command(p) == OrNext(compound_command(apply_aliases(p)), simple_command)

pipeline(p) ==
    LET Command(q, before) ==
            Given(command(IF before = <<>> THEN q ELSE linebreak(q)), LAMBDA r :
                IF before = <<>> THEN r ELSE OrError(r))
    IN  Given(token(p, "!"), LAMBDA bang :
            AndThen(Separated(bang.p, "|", Command), LAMBDA q, commands :
                Ok(q, mrsh_pipeline(commands, bang.ok))))

\* && and || are grouped to the right, whichever of them they are.
and_or(p) ==
    AndThen(pipeline(p), LAMBDA q, left :
        Given(AnyOperator(q, {"&&", "||"}), LAMBDA op :
            IF ~op.ok THEN Ok(op.p, left)
            ELSE AndThen(OrError(and_or(linebreak(op.p))), LAMBDA r, right :
                     Ok(r, mrsh_binop(op.v, left, right)))))

list(p) ==
    AndThen(and_or(p), LAMBDA q, l :
        Given(separator_op(q), LAMBDA sep : Ok(sep.p, mrsh_command_list(l, sep.ok /\ sep.v = "&"))))

expect_newline(p) == OrError(newline(p))

\* At this level each here-document of the line has to have a newline before it.
complete_command(p) ==
    AndThen(Many(list, p), LAMBDA q, lists :
        IF lists = <<>> THEN Fail(q)
        ELSE AndThen(HereDocuments(q, expect_newline), LAMBDA r, v : Ok(r, lists)))

expect_complete_command(p) == OrError(complete_command(p))

\* The loop of program: there has to be a first line, and whatever stops complete_command
\* after it ends the program.
RECURSIVE program_lines(_, _)
program_lines(p, body) ==
    Given(complete_command(p), LAMBDA cmd :
        IF ~cmd.ok THEN IF body = <<>> THEN OrError(cmd) ELSE Ok(linebreak(cmd.p), body)
        ELSE Given(newline_list(cmd.p), LAMBDA nl :
            IF ~nl.ok THEN Ok(nl.p, body \o cmd.v)
            ELSE IF eof(nl.p) THEN Ok(get_symbol(nl.p), body \o cmd.v)
            ELSE program_lines(nl.p, body \o cmd.v)))

program(p) ==
    Given(linebreak(p), LAMBDA q : IF eof(q) THEN Ok(q, <<>>) ELSE program_lines(q, <<>>))

mrsh_parse_program(p) == program(parser_begin(p))

\* Consume the whole line, after an error.
SkipLine(p) ==
    LET r == Until(p, NEWLINE).p
    IN  consume_symbol(IF r.buf = <<>> THEN r ELSE parser_read(r))

\* Mutant: the newline that ends the line is left to the next one.
mrsh_parse_line_left(p) ==
    Given(get_symbol(parser_begin(p)), LAMBDA q :
        IF q.sym = EOF_TOKEN THEN Fail(q)
        ELSE OrElse(Then(newline(q), LAMBDA r : Ok(r, <<>>)), LAMBDA r :
            Given(expect_complete_command(r), LAMBDA cmd :
                IF cmd.ok THEN Ok(get_symbol(cmd.p), cmd.v) ELSE Fail(SkipLine(cmd.p)))))

\* At the end of the input eof has cached its symbol; otherwise the line ends in a newline.
LineEnd(p) == IF eof(p) THEN Ok(get_symbol(p), NULL) ELSE expect_newline(p)

mrsh_parse_line(p) ==
    Given(get_symbol(parser_begin(p)), LAMBDA q :
        IF q.sym = EOF_TOKEN THEN Fail(q)
        ELSE OrElse(Then(newline(q), LAMBDA r : Ok(r, <<>>)), LAMBDA r :
            Given(AndThen(expect_complete_command(r), LAMBDA s, cmd :
                      Then(LineEnd(s), LAMBDA t : Ok(t, cmd))), LAMBDA line :
                IF line.ok THEN line ELSE Fail(SkipLine(line.p)))))

=============================================================================
