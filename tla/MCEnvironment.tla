--------------------------- MODULE MCEnvironment ----------------------------
(* Environment for TLC: scripts that change variables and run processes, and scripts that  *)
(* change parameters, call functions and parse options.                                    *)
EXTENDS Environment

MCText == {<<"1">>, <<"2">>}
MCOptStrings == {<<"a", "b">>, <<":", "a", "b", ":">>}

Nothing == <<>>
\* Options with an argument apart and attached, the end of options, and a cluster.
Apart == <<<<"-", "a">>, <<"-", "b">>, <<"p">>>>
Attached == <<<<"-", "b", "p">>, <<"-", "a">>, <<"q">>>>
Ended == <<<<"-", "a">>, <<"-", "-">>, <<"-", "b">>>>
Cluster == <<<<"-", "a", "a">>>>
Three == <<<<"p">>, <<"q">>, <<"r">>>>

\* The shell inherits nothing, or one variable.
MCScripts ==
    {[uses |-> {"assign", "export", "unset", "read", "allexport", "process"}, environ |-> e,
      lists |-> {Nothing}] : e \in {<<>>, [n \in {"x"} |-> <<"1">>]}}
    \cup {[uses |-> {"set", "shift", "function"}, environ |-> <<>>, lists |-> {Nothing, Three}],
          [uses |-> {"set", "shift", "getopts"}, environ |-> <<>>,
           lists |-> {Apart, Attached, Ended, Cluster}],
          [uses |-> {"function", "getopts"}, environ |-> <<>>, lists |-> {Apart, Attached}]}

=============================================================================
