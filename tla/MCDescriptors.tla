--------------------------- MODULE MCDescriptors ----------------------------
(* Descriptors for TLC: scripts with redirections of builtins, pipelines and documents.    *)
EXTENDS Descriptors

Nop == [task |-> "write", fd |-> 1, len |-> 0]
Put(n) == [task |-> "write", fd |-> 1, len |-> n]
DoCat == [task |-> "cat"]
Builtin(run, redirs) == [builtin |-> TRUE, run |-> run, redirs |-> redirs]
Program(run, redirs) == [builtin |-> FALSE, run |-> run, redirs |-> redirs]
To(fd, file) == [op |-> "open", to |-> fd, from |-> file]
Missing == [op |-> "open", to |-> 0, from |-> None]
Dup(fd, from) == [op |-> "dup", to |-> fd, from |-> from]
Here(lines) == [op |-> "here", to |-> 0, from |-> lines]

\* What a builtin may be redirected to, up to two of them.
Redirs == {To(1, 1), To(2, 2), To(4, 1), Missing, Dup(2, 1), Dup(1, 2), Dup(1, 1), Dup(1, 5), Here(<<1>>)}
RedirLists == {<<r>> : r \in Redirs} \cup {<<r, s>> : r, s \in Redirs}
\* Two builtins, then a pipeline that runs with what they left.
AfterBuiltins ==
    {<<<<Builtin(Put(1), l)>>, <<Builtin(Nop, <<To(1, 1)>>)>>, <<Builtin(Put(1), <<>>), Program(DoCat, <<>>)>>>> :
        l \in RedirLists}

\* More than a pipe holds goes through a pipeline; a command does not read what it is given;
\* documents of a line that is too long for PIPE_BUF, before and behind short ones, and of many
\* short lines.
MCScripts ==
    AfterBuiltins \cup
    {<<<<Program(Put(3), <<>>), Builtin(DoCat, <<>>), Program(DoCat, <<To(1, 1)>>)>>>>,
     <<<<Program(Put(3), <<>>), Program(Nop, <<>>)>>>>,
     <<<<Builtin(Put(3), <<Dup(1, 2)>>), Builtin(Nop, <<Missing>>)>>, <<Program(DoCat, <<Missing>>)>>>>,
     <<<<Program(DoCat, <<Here(<<1, 2, 1>>)>>)>>, <<Program(Nop, <<Here(<<3>>), Here(<<2, 1>>)>>)>>>>,
     <<<<Builtin(Nop, <<Here(<<2>>)>>), Program(DoCat, <<Here(<<1, 2>>), To(1, 1)>>)>>>>,
     <<<<Program(DoCat, <<Here(<<1, 1, 1>>)>>)>>>>,
     <<<<Builtin(Nop, <<Here(<<3>>)>>)>>>>}

=============================================================================
