----------------------------- MODULE MCWordLoop -----------------------------
EXTENDS WordLoop

S(str) == mrsh_word_string(str, FALSE)
Q(str) == mrsh_word_string(str, TRUE)
D(ws) == mrsh_word_list(ws, TRUE)
L(ws) == mrsh_word_list(ws, FALSE)
P(name) == mrsh_word_parameter(name, "none", FALSE, NULL)
Op(name, op, colon, arg) == mrsh_word_parameter(name, op, colon, arg)
A == <<"a">>
B == <<"b">>
I == <<"i">>
AT == P(<<"@">>)
STAR == P(<<"*">>)

\* Parts of words.
Args == {S(<<"b">>), D(<<P(I)>>), Q(<<"a", " ", "*">>), L(<<S(<<"b">>), P(B)>>), AT}
Params ==
    {P(A), P(I), P(<<"1">>), P(<<"#">>), AT, STAR, P(<<"?">>)}
    \cup {Op(A, op, colon, arg) : op \in {"-", "=", "?", "+"}, colon \in BOOLEAN, arg \in Args}
    \cup {Op(<<"2">>, "-", TRUE, S(<<"b">>)), Op(A, "length", FALSE, NULL), Op(A, "-", FALSE, NULL), Op(A, "=", TRUE, NULL), Op(A, "#", FALSE, NULL)}
Patterns == {S(<<"*">>), S(<<"a", "*">>), S(<<"*", "b">>), S(<<"?">>), S(<<"a">>), D(<<S(<<"*">>)>>), Q(<<"?">>), P(B),
             L(<<Q(<<"a">>), S(<<"*">>)>>)}
Trims == {Op(A, op, FALSE, p) : op \in {"#", "##", "%", "%%"}, p \in Patterns}
Texts == {S(<<"a">>), S(<<"*">>), Q(<<>>), Q(<<"*", " ">>), D(<<>>), D(<<S(<<"?">>)>>),
          mrsh_word_command(<<" ", "a", "NL", "b", "NL", "NL">>), mrsh_word_command(<<>>),
          mrsh_word_arithmetic(L(<<P(A), S(<<"+", "1">>)>>))}
Basic == {P(A), P(I), AT, STAR, D(<<P(A)>>), D(<<AT>>)}

MCWords ==
    Params \cup {D(<<p>>) : p \in Params} \cup Trims \cup {D(<<Op(A, "%", FALSE, S(<<"*">>))>>)} \cup Texts
    \cup {L(<<u, v>>) : u, v \in Basic \cup Texts}
    \cup {L(<<u, v, w>>) : u, w \in Basic, v \in {D(<<>>), Q(<<>>), S(<<"a">>), D(<<P(A)>>)}}
    \cup {D(<<u, v>>) : u, v \in {P(A), AT, STAR, S(<<" ">>)}} \cup {D(<<S(<<"a">>), AT, S(<<"b">>)>>)}
    \cup {L(<<S(<<"~">>), w>>) : w \in {P(A), Q(<<>>)}} \cup {S(<<"~", "/", "*">>), S(<<"~", "b">>)}

Command == S(<<"c">>)
Loop(ws, args, assigns, w, ps) ==
    [for_words |-> ws, arguments |-> args, assignments |-> assigns, case_word |-> w, patterns |-> ps, exprs |-> <<>>]
Twice == <<S(<<"a">>), Q(<<"a", " ", "b">>)>>

MCPatternLists ==
    {<<p, P(I)>> : p \in Patterns} \cup {<<D(<<P(I)>>), S(<<"*">>)>>, <<S(<<"a">>), S(<<"a", "*">>), S(<<"*">>)>>}
WordLoops ==
    {Loop(Twice, <<Command, w, L(<<P(A), P(A)>>)>>, <<>>, S(A), <<>>) : w \in MCWords}
    \cup {Loop(<<w>>, <<w>>, <<>>, S(A), <<>>) : w \in Basic \cup Texts}
    \cup {Loop(Twice, <<>>, <<[name |-> A, value |-> v], [name |-> B, value |-> P(A)]>>, P(I), ps) :
            v \in Texts \cup {S(<<"~", ":", "~", "/", ":", "~", "b">>), P(<<"1">>), STAR}, ps \in MCPatternLists}
    \cup {Loop(Twice, <<Command>>, <<[name |-> A, value |-> v]>>, D(<<P(I)>>), <<P(B)>>) : v \in {P(B), Op(B, "?", FALSE, NULL)}}

\* Expressions.
Lit(n) == mrsh_arithm_literal(n)
Var(n) == mrsh_arithm_variable(n)
Leaves == {Lit(0), Lit(3), Var(A)}
Flat(ops, ls) == {mrsh_arithm_binop(op, l, r) : op \in ops, l \in ls, r \in ls}
AllOps == {<<"*">>, <<"/">>, <<"%">>, <<"+">>, <<"-">>, <<"<", "<">>, <<">", ">">>, <<"<">>, <<"<", "=">>, <<">">>, <<">", "=">>,
           <<"=", "=">>, <<"!", "=">>, <<"&">>, <<"^">>, <<"|">>, <<"&", "&">>, <<"|", "|">>}
Depth1 ==
    Flat(AllOps, Leaves)
    \cup {mrsh_arithm_unop(op, l) : op \in {"+", "-", "~", "!"}, l \in Leaves}
    \cup {mrsh_arithm_cond(c, Lit(2), l) : c, l \in Leaves}
    \cup {mrsh_arithm_assign(op, n, Lit(2)) : op \in Range(AssignOps), n \in {A, B}}
Some1 == Flat(AllOps, {Lit(3)}) \cup {mrsh_arithm_unop("-", Var(A)), mrsh_arithm_cond(Var(A), Lit(2), Lit(3)),
            mrsh_arithm_assign(<<"=">>, A, Lit(2)), mrsh_arithm_assign(<<"-", "=">>, A, Lit(2))}
Depth2 ==
    {mrsh_arithm_binop(op, l, r) : op \in AllOps, l \in Some1, r \in {Lit(2), Var(A)}}
    \cup {mrsh_arithm_binop(op, l, r) : op \in AllOps, l \in {Lit(2), Var(A)}, r \in Some1}
    \cup {mrsh_arithm_unop(op, l) : op \in {"-", "~", "!"}, l \in Some1}
    \cup {mrsh_arithm_cond(x, y, z) : x \in Some1, y \in {Lit(2)}, z \in {Var(A)}}
    \cup {mrsh_arithm_cond(x, y, z) : x \in {Var(A)}, y \in Some1, z \in {Lit(2)}}
    \cup {mrsh_arithm_assign(op, A, v) : op \in {<<"=">>, <<"*", "=">>}, v \in Some1}
MCExprs == Depth1 \cup Depth2
ArithmLoop(e, blanks) ==
    [Loop(<<S(<<"0">>)>>, <<Command, mrsh_word_arithmetic(S(ExprText(e, 0, blanks)))>>, <<>>, S(A), <<>>)
        EXCEPT !.exprs = <<[expr |-> e, blanks |-> blanks]>>]
ArithmLoops == {ArithmLoop(e, b) : e \in MCExprs, b \in BOOLEAN}

Env(vs, args, nounset, noglob) ==
    [vars |-> [n \in DOMAIN vs |-> vs[n]], args |-> args, argv0 |-> <<"c">>, last_status |-> 0,
     nounset |-> nounset, noglob |-> noglob]
Vars1(v) == [n \in {A, <<"HOME">>} |-> IF n = A THEN v ELSE <<"/", "h">>]
WithIfs(vs, ifs) == [n \in DOMAIN vs \cup {<<"IFS">>} |-> IF n = <<"IFS">> THEN ifs ELSE vs[n]]
None == [n \in {} |-> <<>>]
MCEnvs ==
    {Env(Vars1(v), <<<<"a", " ">>, <<>>, <<"b">>>>, FALSE, FALSE) : v \in {<<>>, <<"1">>, <<" ", "a", " ">>, <<"a", " ", " ", "b">>, <<"a", "*">>}}
    \cup {Env(WithIfs(Vars1(v), <<":", " ">>), <<<<"a">>, <<"b", ":">>>>, FALSE, TRUE) : v \in {<<"a", ":", " ", "b", ":">>, <<":", "a">>}}
    \cup {Env(WithIfs(Vars1(<<"a", " ">>), <<>>), <<<<"a">>, <<"b">>>>, FALSE, FALSE),
          Env(None, <<>>, TRUE, FALSE), Env(None, <<>>, FALSE, FALSE), Env(Vars1(<<"5">>), <<>>, TRUE, TRUE),
          Env(Vars1(<<"-", "8">>), <<<<>>>>, FALSE, FALSE)}
NumberEnvs == {e \in MCEnvs : e.args = <<>> \/ e.args = <<<<>>>>}
MCPrograms == {[loops |-> WordLoops, envs |-> MCEnvs], [loops |-> ArithmLoops, envs |-> NumberEnvs]}

MCDirectory == <<<<"b">>, <<"a">>, <<"a", "b">>>>
MCHomes == [u \in {<<"b">>} |-> <<"/", "b">>]
=============================================================================
