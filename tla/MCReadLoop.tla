----------------------------- MODULE MCReadLoop -----------------------------
EXTENDS ReadLoop

W(t) == mrsh_word_string(<<t>>, FALSE)
One(c) == mrsh_command_list(mrsh_pipeline(<<c>>, FALSE), FALSE)
Cmd(t) == mrsh_simple_command(W(t), <<>>, <<>>, <<>>)
With(args, redirs) == mrsh_simple_command(W("a"), args, redirs, <<>>)
Redir(n, op, t) == mrsh_io_redirect(n, op, W(t))
AX == mrsh_assignment("a", W("x"))

MCSimple ==
    {Cmd("b"),
     mrsh_simple_command(NULL, <<>>, <<>>, <<AX>>),
     mrsh_simple_command(W("b"), <<W("if"), W("}")>>, <<Redir("2", ">", "c"), Redir("-1", "<&", "1")>>, <<AX, AX>>),
     With(<<>>, <<Redir("-1", "<<", "D1")>>),
     With(<<W("b")>>, <<mrsh_io_redirect("1", "<<-", mrsh_word_string(<<"D2">>, TRUE))>>),
     With(<<>>, <<Redir("-1", "<<", "D2"), Redir("-1", "<<-", "D1")>>),
     With(<<mrsh_word_string(<<"x", NEWLINE, "fi">>, TRUE)>>, <<>>),
     With(<<mrsh_word_list(<<W("x"), mrsh_word_command(<<One(Cmd("b")), One(Cmd("c"))>>, FALSE)>>, TRUE)>>, <<>>),
     With(<<mrsh_word_command(<<One(mrsh_brace_group(<<One(Cmd("b"))>>))>>, TRUE)>>, <<>>)}

Pipe(c, d) == mrsh_pipeline(<<c, d>>, FALSE)
L(a) == mrsh_command_list(a, FALSE)
P(c) == mrsh_pipeline(<<c>>, FALSE)
B == Cmd("b")

\* A list with c in it, in each place a command may stand.
Lists(c) ==
    {<<L(P(c))>>,
     <<mrsh_command_list(P(c), TRUE), L(mrsh_pipeline(<<B>>, TRUE))>>,
     <<L(Pipe(c, B)), One(B)>>,
     <<L(mrsh_binop("&&", P(B), mrsh_binop("||", Pipe(B, c), P(B))))>>}

Compounds(c) ==
    LET body == <<One(c)>>
        b == <<One(B), One(Cmd("c"))>>
    IN  {mrsh_brace_group(body), mrsh_subshell(Append(b, One(c))),
         mrsh_if_clause(body, b, NULL), mrsh_if_clause(b, b, mrsh_brace_group(body)),
         mrsh_if_clause(b, body, mrsh_if_clause(body, b, mrsh_brace_group(b))),
         mrsh_for_clause("b", TRUE, <<W("do"), W("c")>>, body), mrsh_for_clause("b", FALSE, <<>>, body),
         mrsh_loop_clause("while", body, b), mrsh_loop_clause("until", b, body),
         mrsh_case_clause(W("c"), <<mrsh_case_item(<<W("a"), W("in")>>, body), mrsh_case_item(<<W("b")>>, <<>>)>>),
         mrsh_function_definition("c", mrsh_brace_group(body), <<Redir("-1", ">>", "b")>>)}

MCCommands == MCSimple \cup UNION {Compounds(c) : c \in MCSimple}
Nested == UNION {Compounds(c) : c \in Compounds(Cmd("c")) \cup Compounds(With(<<>>, <<Redir("-1", "<<", "D2")>>))}

MCWritten ==
    {<<l>> : l \in UNION {Lists(c) : c \in MCCommands}}
    \cup {<<<<One(c)>>, <<One(B)>>>> : c \in MCCommands \cup Nested}

GarbageTokens == {"a", "{", "}", ")", ";", "<<", SQUOTE, "$(", NEWLINE}
MCOtherInputs ==
    UNION {[1 .. n -> GarbageTokens] : n \in 0 .. 4}
    \cup {<<"a", "<<", "$(", "b", ")", NEWLINE, "b", NEWLINE>>, <<"a", CONTINUED, BLANK, "b", "#", "{", NEWLINE, "c">>}
MCStyles == {";", NEWLINE}
MCAliasTables == {NoAliases, [n \in {"a", "b"} |-> IF n = "a" THEN <<"b", "a">> ELSE <<"b", ";", "c">>],
                  [n \in {"a", "b"} |-> IF n = "a" THEN <<"b">> ELSE <<"a">>]}
=============================================================================
