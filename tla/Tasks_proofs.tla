---------------------------- MODULE Tasks_proofs ----------------------------
(***************************************************************************)
(* Proofs about Tasks, for programs of every depth and length.             *)
(***************************************************************************)
EXTENDS Tasks, FiniteSetTheorems, SequenceTheorems, WellFoundedInduction, TLAPS

FrameRecord == [nloops : Int, branch_control : Branches]

\* A loop is in its head, its condition or its body, && and || are at an operand, only a loop
\* has a head and only an if clause an else part.
InPlace(node) ==
    /\ node.type \in Loops => node.at \in {"head", "condition", "body"}
    /\ node.type \in {"and", "or", "bang"} => node.at \in {"left", "right"}
    /\ node.at = "head" => node.type \in Loops
    /\ node.at = "else" => node.type = "if"

\* Each node is in its place, and the line is at the bottom of the stack and nowhere else.
NodesPlaced ==
    \A k \in DOMAIN stack : (stack[k].type = "line" <=> k = 1) /\ InPlace(stack[k])

\* There are nodes while a line runs, and a goal only while an interruption is under way.
Shape ==
    /\ NodesPlaced
    /\ pc \in {"main", "over"} => stack = <<>> /\ ret = 0
    /\ pc \in {"run", "return"} => stack # <<>>
    /\ goal.kind # "none" => pc = "return" /\ ret = TASK_STATUS_INTERRUPTED

-----------------------------------------------------------------------------
(* Types *)

LEMMA StatusTypes ==
    /\ 0 \in Statuses /\ 1 \in Statuses /\ Statuses \subseteq Nat
    /\ Faults \subseteq {TASK_STATUS_ERROR, TASK_STATUS_STOPPED}
    /\ TASK_STATUS_ERROR = -2 /\ TASK_STATUS_STOPPED = -3 /\ TASK_STATUS_INTERRUPTED = -4
    /\ Statuses \subseteq Int /\ Faults \subseteq Int
    /\ \A r \in Statuses \cup Faults \cup {TASK_STATUS_INTERRUPTED} :
         /\ r >= 0 <=> r \in Statuses
         /\ r < 0 <=> r \in Faults \cup {TASK_STATUS_INTERRUPTED}
<1>1. Statuses \subseteq 0 .. 255 /\ 0 \in Statuses /\ 1 \in Statuses
  BY TasksAssumption
<1>2. TASK_STATUS_ERROR = -2 /\ TASK_STATUS_STOPPED = -3 /\ TASK_STATUS_INTERRUPTED = -4
  BY DEF TASK_STATUS_ERROR, TASK_STATUS_STOPPED, TASK_STATUS_INTERRUPTED
<1>3. Faults \subseteq {TASK_STATUS_ERROR, TASK_STATUS_STOPPED}
  BY DEF Faults
<1>4. Statuses \subseteq Nat /\ \A r \in Statuses : r >= 0
  BY <1>1
<1>5. \A r \in Faults \cup {TASK_STATUS_INTERRUPTED} : r \in Int /\ r < 0
  BY <1>2, <1>3
<1> QED
  BY <1>1, <1>2, <1>3, <1>4, <1>5

LEMMA TopType ==
    ASSUME stack \in Seq(Node), stack # <<>>
    PROVE  /\ Top \in Node /\ Len(stack) \in Nat /\ Len(stack) >= 1
           /\ DOMAIN stack = 1 .. Len(stack) /\ Len(stack) \in DOMAIN stack
           /\ Top.n \in 0 .. MaxList /\ Top.lret \in Statuses
           /\ Top.loop_ret \in Statuses \cup {TASK_STATUS_INTERRUPTED} /\ Top.loop_num \in Int
<1>1. /\ Len(stack) \in Nat /\ Len(stack) >= 1
      /\ DOMAIN stack = 1 .. Len(stack) /\ Len(stack) \in DOMAIN stack
  OBVIOUS
<1>2. Top \in Node
  BY <1>1 DEF Top
<1> QED
  BY <1>1, <1>2 DEF Node

\* The node on top is replaced by another one.
LEMMA WithTopIs ==
    ASSUME stack \in Seq(Node), stack # <<>>, NEW node \in Node
    PROVE  /\ WithTop(node) \in Seq(Node) /\ Len(WithTop(node)) = Len(stack)
           /\ WithTop(node) # <<>> /\ DOMAIN WithTop(node) = DOMAIN stack
           /\ WithTop(node)[Len(stack)] = node
           /\ \A k \in DOMAIN stack : k # Len(stack) => WithTop(node)[k] = stack[k]
  BY DEF WithTop

LEMMA PopIs ==
    ASSUME stack \in Seq(Node), stack # <<>>
    PROVE  /\ Pop \in Seq(Node) /\ Len(Pop) = Len(stack) - 1
           /\ DOMAIN Pop = 1 .. Len(stack) - 1
           /\ \A k \in DOMAIN Pop : Pop[k] = stack[k]
<1>1. Len(stack) \in Nat /\ Len(stack) >= 1
  OBVIOUS
<1> QED
  <2> DEFINE m == Len(stack) - 1
  <2>1. /\ Pop \in Seq(Node) /\ Len(Pop) = IF 1 <= m THEN m - 1 + 1 ELSE 0
        /\ \A k \in 1 .. m - 1 + 1 : Pop[k] = stack[1 + k - 1]
    <3>1. 1 \in 1 .. Len(stack) + 1 /\ m \in 1 - 1 .. Len(stack) /\ Pop = SubSeq(stack, 1, m)
      BY <1>1 DEF Pop
    <3> HIDE DEF m
    <3> QED BY <3>1, SubSeqProperties
  <2>2. Len(Pop) = Len(stack) - 1
    <3>1. m \in Nat
      BY <1>1
    <3> HIDE DEF m
    <3>2. m = 0 \/ m >= 1
      BY <3>1
    <3>3. m - 1 + 1 = m
      BY <3>1
    <3>4. m >= 1 => Len(Pop) = m
      BY <2>1, <3>1, <3>3
    <3>5. m = 0 => Len(Pop) = m
      BY <2>1
    <3> QED BY <3>2, <3>4, <3>5 DEF m
  <2>3. ASSUME NEW k \in 1 .. Len(stack) - 1 PROVE Pop[k] = stack[k]
    <3>1. k \in 1 .. (Len(stack) - 1) - 1 + 1 /\ 1 + k - 1 = k
      BY <1>1
    <3> QED BY <2>1, <3>1
  <2> QED BY <2>1, <2>2, <2>3

LEMMA AppendIs ==
    ASSUME NEW s \in Seq(Node), NEW node \in Node
    PROVE  /\ Append(s, node) \in Seq(Node) /\ Len(Append(s, node)) = Len(s) + 1
           /\ DOMAIN Append(s, node) = 1 .. Len(s) + 1
           /\ \A k \in 1 .. Len(s) : Append(s, node)[k] = s[k]
           /\ Append(s, node)[Len(s) + 1] = node
  BY AppendProperties

LEMMA ListType ==
    ASSUME stack \in Seq(Node), stack # <<>>,
           NEW place \in {"list", "condition", "body", "else", "head", "left", "right"}
    PROVE  /\ List(place) \in Node
           /\ List(place).type = Top.type /\ List(place).loop_num = Top.loop_num /\ List(place).at = place
<1>1. MaxList \in 0 .. MaxList /\ 0 \in Statuses
  BY TasksAssumption
<1> QED
  BY <1>1, TopType DEF List, Node

LEMMA NewNodeType ==
    ASSUME NEW type \in Commands \cup {"line", "and", "or", "bang"}, NEW n \in Int
    PROVE  /\ NewNode(type, n) \in Node
           /\ NewNode(type, n).type = type /\ NewNode(type, n).loop_num = n
           /\ InPlace(NewNode(type, n))
<1>1. MaxList \in 0 .. MaxList /\ 0 \in Statuses
  BY TasksAssumption
<1>2. NewNode(type, n).at \in {"list", "condition", "head", "left"}
  BY DEF NewNode
<1>3. type \in Loops => NewNode(type, n).at = "head"
  BY DEF NewNode, Loops
<1>4. type \in {"and", "or", "bang"} => NewNode(type, n).at = "left"
  BY DEF NewNode, Loops
<1>5. type \notin Loops => NewNode(type, n).at # "head"
  BY DEF NewNode, Loops
<1>6. NewNode(type, n).type = type
  BY DEF NewNode
<1>7. InPlace(NewNode(type, n))
  BY <1>2, <1>3, <1>4, <1>5, <1>6 DEF InPlace
<1> QED
  BY <1>1, <1>2, <1>7 DEF NewNode, Node

\* Two stacks with the same nodes, but for the state of each.
SameNodes(s, t) ==
    /\ Len(s) = Len(t)
    /\ \A k \in 1 .. Len(s) : s[k].type = t[k].type /\ s[k].loop_num = t[k].loop_num

LEMMA TakenType ==
    ASSUME stack \in Seq(Node), NodesPlaced, Ready, stack # <<>>
    PROVE  /\ Taken \in Seq(Node) /\ SameNodes(Taken, stack) /\ Taken # <<>>
           /\ \A k \in DOMAIN stack : Taken[k].at = stack[k].at
<1>1. Top \in Node /\ Len(stack) \in Nat /\ DOMAIN stack = 1 .. Len(stack) /\ Top.n \in 0 .. MaxList
  BY TopType
<1>2. CASE InList /\ Top.n > 0
  <2> DEFINE node == [Top EXCEPT !.n = @ - 1]
  <2>1. /\ node \in Node /\ node.type = Top.type /\ node.loop_num = Top.loop_num /\ node.at = Top.at
    <3>1. Top.n - 1 \in 0 .. MaxList
      BY <1>1, <1>2, TasksAssumption
    <3> QED BY <1>1, <3>1 DEF Node
  <2>2. Taken = WithTop(node)
    BY <1>2 DEF Taken
  <2> HIDE DEF node
  <2> QED BY <1>1, <2>1, <2>2, WithTopIs DEF SameNodes, Top
<1>3. CASE ~InList
  BY <1>1, <1>3 DEF Taken, SameNodes
<1>4. InList => Top.n > 0
  BY <1>1, TopType DEF Ready, InList, NodesPlaced, InPlace, Top
<1> QED
  BY <1>2, <1>3, <1>4

-----------------------------------------------------------------------------
(* The numbers of the loops *)

Below(fs, gs) == Len(gs) = Len(fs) /\ \A c \in 1 .. Len(fs) - 1 : gs[c].nloops = fs[c].nloops

Numbered(s, fs, num, fr, k) ==
    /\ s[k].type = "function" =>
          num[k] = 0 /\ fr[k] = fr[k - 1] + 1 /\ fs[fr[k - 1]].nloops = num[k - 1]
    /\ s[k].type # "function" => fr[k] = fr[k - 1]
    /\ s[k].type \in Loops => num[k] = num[k - 1] + 1 /\ s[k].loop_num = num[k]
    /\ s[k].type \notin Loops \cup {"function"} => num[k] = num[k - 1]

CallBetween(s, j, k) == \E c \in 1 .. Len(s) : c > j /\ c <= k /\ s[c].type = "function"

\* num gives for each node of the stack s the number of loops that its frame has entered when
\* what is in the node begins, and fr the frame of the node among the frames fs: a loop has that
\* number as its loop_num, and while a function runs its caller keeps its nloops.
Numbering(s, fs, b, num, fr) ==
    /\ num \in [0 .. Len(s) -> Nat] /\ fr \in [0 .. Len(s) -> Nat]
    /\ num[0] = b /\ fr[0] = 1 /\ fr[Len(s)] = Len(fs)
    /\ \A k \in 1 .. Len(s) : Numbered(s, fs, num, fr, k)
    /\ \A j, k \in 0 .. Len(s) : j <= k => fr[j] <= fr[k] /\ fr[j] >= 1
    /\ \A j, k \in 0 .. Len(s) : j <= k => num[j] <= num[k] \/ CallBetween(s, j, k)

LEMMA LoopsAreNoFunctions == "function" \notin Loops /\ "line" \notin Loops
  BY DEF Loops

\* The caller of a function is not the frame on top.
LEMMA CallerBelow ==
    ASSUME NEW s \in Seq(Node), NEW fs \in Seq(FrameRecord), NEW b, NEW num, NEW fr,
           Numbering(s, fs, b, num, fr), NEW k \in 1 .. Len(s), s[k].type = "function"
    PROVE  fr[k - 1] \in 1 .. Len(fs) - 1
<1>1. /\ Len(s) \in Nat /\ Len(fs) \in Nat
      /\ k \in 0 .. Len(s) /\ Len(s) \in 0 .. Len(s) /\ k - 1 \in 0 .. Len(s) /\ k <= Len(s) /\ k - 1 <= Len(s)
  OBVIOUS
<1>2. fr[k] = fr[k - 1] + 1
  BY DEF Numbering, Numbered
<1>3. fr[k] <= fr[Len(s)] /\ fr[Len(s)] = Len(fs) /\ fr[k - 1] >= 1
  BY <1>1 DEF Numbering
<1>4. fr[k - 1] \in Nat
  BY <1>1 DEF Numbering
<1> QED
  BY <1>1, <1>2, <1>3, <1>4

LEMMA NumberingKept ==
    ASSUME NEW s \in Seq(Node), NEW t \in Seq(Node), SameNodes(t, s),
           NEW fs \in Seq(FrameRecord), NEW gs \in Seq(FrameRecord), Below(fs, gs),
           NEW b, NEW num, NEW fr, Numbering(s, fs, b, num, fr)
    PROVE  Numbering(t, gs, b, num, fr)
<1>1. Len(t) = Len(s) /\ Len(s) \in Nat /\ Len(gs) = Len(fs) /\ Len(fs) \in Nat
  BY DEF SameNodes, Below
<1>2. \A k \in 1 .. Len(s) : t[k].type = s[k].type /\ t[k].loop_num = s[k].loop_num
  BY <1>1 DEF SameNodes
<1>3. ASSUME NEW k \in 1 .. Len(s)
      PROVE  Numbered(t, gs, num, fr, k)
  <2>1. Numbered(s, fs, num, fr, k)
    BY DEF Numbering
  <2>2. s[k].type = "function" => gs[fr[k - 1]].nloops = fs[fr[k - 1]].nloops
    BY CallerBelow DEF Below
  <2> QED BY <1>2, <2>1, <2>2 DEF Numbered
<1>4. \A j, k : CallBetween(s, j, k) => CallBetween(t, j, k)
  BY <1>1, <1>2 DEF CallBetween
<1> QED
  BY <1>1, <1>3, <1>4 DEF Numbering

\* A stack without its last node.
Shorter(t, s) ==
    Len(s) >= 1 /\ Len(t) = Len(s) - 1 /\ \A k \in 1 .. Len(t) : t[k] = s[k]

Cut(f, n) == [k \in 0 .. n |-> f[k]]

\* What is left of a numbering when the last node is left.
LEMMA NumberingCut ==
    ASSUME NEW s \in Seq(Node), NEW t \in Seq(Node), Shorter(t, s),
           NEW fs \in Seq(FrameRecord), NEW gs \in Seq(FrameRecord),
           NEW b, NEW num, NEW fr, Numbering(s, fs, b, num, fr),
           fr[Len(t)] = Len(gs),
           \A c \in 1 .. Len(gs) - 1 : gs[c].nloops = fs[c].nloops
    PROVE  /\ Numbering(t, gs, b, Cut(num, Len(t)), Cut(fr, Len(t)))
           /\ Cut(num, Len(t))[Len(t)] = num[Len(s) - 1] /\ num[Len(s) - 1] \in Nat /\ num[Len(s)] \in Nat
           /\ Numbered(s, fs, num, fr, Len(s))
<1>1. /\ Len(s) \in Nat /\ Len(s) >= 1 /\ Len(t) = Len(s) - 1 /\ Len(t) \in Nat /\ Len(gs) \in Nat
  BY DEF Shorter
<1> DEFINE nm == Cut(num, Len(t))
           f == Cut(fr, Len(t))
<1>2. \A k \in 0 .. Len(t) : nm[k] = num[k] /\ f[k] = fr[k] /\ k \in 0 .. Len(s)
  BY <1>1 DEF Cut
<1>3. \A k \in 1 .. Len(t) : t[k] = s[k] /\ k \in 1 .. Len(s) /\ k \in 0 .. Len(t) /\ k - 1 \in 0 .. Len(t)
  BY <1>1 DEF Shorter
<1>4. nm \in [0 .. Len(t) -> Nat] /\ f \in [0 .. Len(t) -> Nat]
  BY <1>1 DEF Cut, Numbering
<1>5. Len(s) \in 1 .. Len(s) /\ Len(t) \in 0 .. Len(t) /\ 0 \in 0 .. Len(t)
  BY <1>1
<1>6. nm[0] = b /\ f[0] = 1 /\ f[Len(t)] = Len(gs)
  BY <1>1, <1>2, <1>5 DEF Numbering
<1> HIDE DEF nm, f
<1>7. ASSUME NEW k \in 1 .. Len(t)
      PROVE  Numbered(t, gs, nm, f, k)
  <2>1. Numbered(s, fs, num, fr, k)
    BY <1>3 DEF Numbering
  <2>2. s[k].type = "function" => gs[fr[k - 1]].nloops = fs[fr[k - 1]].nloops
    <3> SUFFICES ASSUME s[k].type = "function" PROVE fr[k - 1] \in 1 .. Len(gs) - 1
      OBVIOUS
    <3>1. fr[k] <= fr[Len(t)] /\ fr[k - 1] >= 1 /\ fr[k - 1] \in Nat
      <4>1. k \in 0 .. Len(s) /\ k - 1 \in 0 .. Len(s) /\ Len(t) \in 0 .. Len(s) /\ k <= Len(t)
        BY <1>1
      <4>2. k - 1 <= Len(t)
        BY <1>1
      <4>3. fr \in [0 .. Len(s) -> Nat]
        BY DEF Numbering
      <4>4. fr[k] <= fr[Len(t)] /\ fr[k - 1] >= 1
        BY <4>1, <4>2 DEF Numbering
      <4> QED BY <4>1, <4>3, <4>4
    <3>2. fr[k] = fr[k - 1] + 1
      BY <2>1 DEF Numbered
    <3> QED BY <1>1, <3>1, <3>2
  <2>3. nm[k] = num[k] /\ nm[k - 1] = num[k - 1] /\ f[k] = fr[k] /\ f[k - 1] = fr[k - 1] /\ t[k] = s[k]
    BY <1>2, <1>3
  <2> QED BY <2>1, <2>2, <2>3 DEF Numbered
<1>8. \A j, k \in 0 .. Len(t) : j <= k => f[j] <= f[k] /\ f[j] >= 1
  BY <1>2 DEF Numbering
<1>9. ASSUME NEW j \in 0 .. Len(t), NEW k \in 0 .. Len(t), j <= k
      PROVE  nm[j] <= nm[k] \/ CallBetween(t, j, k)
  <2>1. num[j] <= num[k] \/ CallBetween(s, j, k)
    BY <1>2, <1>9 DEF Numbering
  <2>2. \A c \in 1 .. Len(s) : c <= k => c \in 1 .. Len(t)
    BY <1>1
  <2>3. CallBetween(s, j, k) => CallBetween(t, j, k)
    BY <1>3, <2>2 DEF CallBetween
  <2> QED BY <1>2, <2>1, <2>3
<1>10. Numbering(t, gs, b, nm, f)
  BY <1>4, <1>6, <1>7, <1>8, <1>9 DEF Numbering
<1>11. Numbered(s, fs, num, fr, Len(s))
  BY <1>5 DEF Numbering
<1>12. num[Len(s) - 1] \in Nat /\ num[Len(s)] \in Nat /\ nm[Len(t)] = num[Len(s) - 1]
  <2>1. Len(s) - 1 \in 0 .. Len(s) /\ Len(s) \in 0 .. Len(s)
    BY <1>1
  <2> QED BY <1>1, <1>2, <1>5, <2>1 DEF Numbering
<1> QED
  BY <1>10, <1>11, <1>12 DEF nm, f

\* The last node, not a function, is left.
LEMMA NumberingPopped ==
    ASSUME NEW s \in Seq(Node), NEW t \in Seq(Node), Shorter(t, s), s[Len(s)].type # "function",
           NEW fs \in Seq(FrameRecord), NEW gs \in Seq(FrameRecord), Below(fs, gs),
           NEW b, NEW num, NEW fr, Numbering(s, fs, b, num, fr)
    PROVE  /\ Numbering(t, gs, b, Cut(num, Len(t)), Cut(fr, Len(t)))
           /\ Cut(num, Len(t))[Len(t)] = num[Len(s) - 1] /\ num[Len(s) - 1] \in Nat /\ num[Len(s)] \in Nat
           /\ s[Len(s)].type \in Loops => num[Len(s)] = num[Len(s) - 1] + 1 /\ s[Len(s)].loop_num = num[Len(s)]
           /\ s[Len(s)].type \notin Loops => num[Len(s)] = num[Len(s) - 1]
<1>1. Len(s) \in 1 .. Len(s) /\ Len(t) = Len(s) - 1 /\ Len(gs) = Len(fs)
  BY DEF Shorter, Below
<1>2. Numbered(s, fs, num, fr, Len(s)) /\ fr[Len(s)] = Len(fs)
  BY <1>1 DEF Numbering
<1>3. fr[Len(t)] = Len(gs)
  BY <1>1, <1>2 DEF Numbered
<1>4. \A c \in 1 .. Len(gs) - 1 : gs[c].nloops = fs[c].nloops
  BY <1>1 DEF Below
<1> QED
  BY <1>2, <1>3, <1>4, NumberingCut DEF Numbered

\* A function is left: its caller has its nloops again.
LEMMA NumberingReturned ==
    ASSUME NEW s \in Seq(Node), NEW t \in Seq(Node), Shorter(t, s), s[Len(s)].type = "function",
           NEW fs \in Seq(FrameRecord), NEW gs \in Seq(FrameRecord), Shorter(gs, fs),
           NEW b, NEW num, NEW fr, Numbering(s, fs, b, num, fr)
    PROVE  /\ Numbering(t, gs, b, Cut(num, Len(t)), Cut(fr, Len(t)))
           /\ gs[Len(gs)].nloops = Cut(num, Len(t))[Len(t)]
<1>1. Len(s) \in 1 .. Len(s) /\ Len(t) = Len(s) - 1 /\ Len(gs) = Len(fs) - 1 /\ Len(gs) \in Nat /\ Len(fs) \in Nat
  BY DEF Shorter
<1>2. Numbered(s, fs, num, fr, Len(s)) /\ fr[Len(s)] = Len(fs)
  BY <1>1 DEF Numbering
<1>3. fr[Len(t)] + 1 = Len(fs) /\ fr[Len(t)] \in 1 .. Len(fs) - 1
  <2>1. fr[Len(s) - 1] \in 1 .. Len(fs) - 1
    BY <1>1, CallerBelow
  <2> QED BY <1>1, <1>2, <2>1 DEF Numbered
<1>4. fr[Len(t)] = Len(gs) /\ Len(gs) \in 1 .. Len(gs)
  BY <1>1, <1>3
<1>5. \A c \in 1 .. Len(gs) : gs[c] = fs[c]
  BY DEF Shorter
<1>6. ASSUME NEW c \in 1 .. Len(gs) - 1 PROVE gs[c].nloops = fs[c].nloops
  <2>1. c \in 1 .. Len(gs)
    BY <1>1
  <2> QED BY <1>5, <2>1
<1>7. fs[fr[Len(s) - 1]].nloops = num[Len(s) - 1]
  BY <1>2 DEF Numbered
<1>8. gs[Len(gs)].nloops = num[Len(s) - 1]
  BY <1>1, <1>4, <1>5, <1>7
<1> QED
  BY <1>4, <1>6, <1>8, NumberingCut

Extended(f, n, v) == [k \in 0 .. n + 1 |-> IF k = n + 1 THEN v ELSE f[k]]

\* A stack with one more node.
Longer(t, s) ==
    Len(t) = Len(s) + 1 /\ \A k \in 1 .. Len(s) : t[k].type = s[k].type /\ t[k].loop_num = s[k].loop_num

\* A numbering goes on with a new node, of which v is the number and c the frame.
LEMMA NumberingExtended ==
    ASSUME NEW s \in Seq(Node), NEW t \in Seq(Node), Longer(t, s),
           NEW fs \in Seq(FrameRecord), NEW gs \in Seq(FrameRecord),
           NEW b, NEW num, NEW fr, Numbering(s, fs, b, num, fr),
           NEW v \in Nat, NEW c \in Nat, c = Len(gs), Len(gs) >= Len(fs),
           \A a \in 1 .. Len(fs) - 1 : gs[a].nloops = fs[a].nloops,
           Numbered(t, gs, Extended(num, Len(s), v), Extended(fr, Len(s), c), Len(t)),
           v >= num[Len(s)] \/ t[Len(t)].type = "function"
    PROVE  /\ Numbering(t, gs, b, Extended(num, Len(s), v), Extended(fr, Len(s), c))
           /\ Extended(num, Len(s), v)[Len(t)] = v
<1>1. Len(s) \in Nat /\ Len(t) = Len(s) + 1 /\ Len(fs) \in Nat /\ Len(gs) \in Nat
  BY DEF Longer
<1> DEFINE nm == Extended(num, Len(s), v)
           f == Extended(fr, Len(s), c)
<1>2. num \in [0 .. Len(s) -> Nat] /\ fr \in [0 .. Len(s) -> Nat] /\ fr[Len(s)] = Len(fs)
  BY DEF Numbering
<1>3. nm \in [0 .. Len(t) -> Nat] /\ f \in [0 .. Len(t) -> Nat] /\ nm[Len(t)] = v /\ f[Len(t)] = c
  BY <1>1, <1>2 DEF Extended
<1>4. \A k \in 0 .. Len(s) : nm[k] = num[k] /\ f[k] = fr[k]
  BY <1>1 DEF Extended
<1> HIDE DEF nm, f
<1>5. nm[0] = b /\ f[0] = 1 /\ f[Len(t)] = Len(gs)
  <2>1. 0 \in 0 .. Len(s)
    BY <1>1
  <2> QED BY <1>3, <1>4, <2>1 DEF Numbering
<1>6. ASSUME NEW k \in 1 .. Len(t)
      PROVE  Numbered(t, gs, nm, f, k)
  <2>1. CASE k = Len(t)
    BY <2>1 DEF nm, f
  <2>2. CASE k # Len(t)
    <3>1. k \in 1 .. Len(s) /\ k \in 0 .. Len(s) /\ k - 1 \in 0 .. Len(s)
      BY <1>1, <2>2
    <3>2. Numbered(s, fs, num, fr, k)
      BY <3>1 DEF Numbering
    <3>3. s[k].type = "function" => gs[fr[k - 1]].nloops = fs[fr[k - 1]].nloops
      BY <3>1, CallerBelow
    <3>4. /\ nm[k] = num[k] /\ nm[k - 1] = num[k - 1] /\ f[k] = fr[k] /\ f[k - 1] = fr[k - 1]
          /\ t[k].type = s[k].type /\ t[k].loop_num = s[k].loop_num
      BY <1>4, <3>1 DEF Longer
    <3> QED BY <3>2, <3>3, <3>4 DEF Numbered
  <2> QED BY <2>1, <2>2
<1>7. ASSUME NEW j \in 0 .. Len(t), NEW k \in 0 .. Len(t), j <= k
      PROVE  f[j] <= f[k] /\ f[j] >= 1
  <2>0. \A a \in 0 .. Len(s) : fr[a] <= Len(fs) /\ fr[a] >= 1 /\ fr[a] \in Nat
    <3> SUFFICES ASSUME NEW a \in 0 .. Len(s) PROVE fr[a] <= fr[Len(s)] /\ fr[a] >= 1
      BY <1>2
    <3>1. a <= Len(s) /\ Len(s) \in 0 .. Len(s)
      BY <1>1
    <3> QED BY <3>1 DEF Numbering
  <2>1. CASE k # Len(t)
    <3>1. j \in 0 .. Len(s) /\ k \in 0 .. Len(s)
      BY <1>1, <1>7, <2>1
    <3> QED BY <1>4, <1>7, <3>1 DEF Numbering
  <2>2. CASE k = Len(t) /\ j # Len(t)
    <3>1. j \in 0 .. Len(s)
      BY <1>1, <2>2
    <3> QED BY <1>1, <1>3, <1>4, <2>0, <2>2, <3>1
  <2>3. CASE k = Len(t) /\ j = Len(t)
    <3>1. fr[Len(s)] >= 1 /\ Len(s) \in 0 .. Len(s)
      BY <1>1, <2>0
    <3> QED BY <1>1, <1>2, <1>3, <2>3, <3>1
  <2> QED BY <2>1, <2>2, <2>3
<1>8. ASSUME NEW j \in 0 .. Len(t), NEW k \in 0 .. Len(t), j <= k
      PROVE  nm[j] <= nm[k] \/ CallBetween(t, j, k)
  <2>0. \A a \in 1 .. Len(s) : a \in 1 .. Len(t) /\ t[a].type = s[a].type
    BY <1>1 DEF Longer
  <2>1. CASE k # Len(t)
    <3>1. j \in 0 .. Len(s) /\ k \in 0 .. Len(s)
      BY <1>1, <1>8, <2>1
    <3>2. num[j] <= num[k] \/ CallBetween(s, j, k)
      BY <1>8, <3>1 DEF Numbering
    <3>3. CallBetween(s, j, k) => CallBetween(t, j, k)
      BY <2>0 DEF CallBetween
    <3> QED BY <1>4, <3>1, <3>2, <3>3
  <2>2. CASE k = Len(t) /\ j # Len(t)
    <3>1. j \in 0 .. Len(s) /\ Len(s) \in 0 .. Len(s) /\ j <= Len(s)
      BY <1>1, <2>2
    <3>2. num[j] <= num[Len(s)] \/ CallBetween(s, j, Len(s))
      BY <3>1 DEF Numbering
    <3>3. CallBetween(s, j, Len(s)) => CallBetween(t, j, k)
      <4>1. \A a \in 1 .. Len(s) : a <= k
        BY <1>1, <2>2
      <4> QED BY <2>0, <4>1 DEF CallBetween
    <3>4. t[Len(t)].type = "function" => CallBetween(t, j, k)
      <4>1. Len(t) \in 1 .. Len(t) /\ Len(t) > j
        BY <1>1, <3>1
      <4> QED BY <2>2, <4>1 DEF CallBetween
    <3>5. num[j] \in Nat /\ num[Len(s)] \in Nat
      BY <1>2, <3>1
    <3>6. nm[j] = num[j] /\ nm[k] = v
      BY <1>3, <1>4, <2>2, <3>1
    <3> QED BY <3>2, <3>3, <3>4, <3>5, <3>6
  <2>3. CASE k = Len(t) /\ j = Len(t)
    <3>1. nm[k] \in Nat /\ nm[j] = nm[k]
      BY <1>3, <2>3
    <3> QED BY <3>1
  <2> QED BY <2>1, <2>2, <2>3
<1>9. Numbering(t, gs, b, nm, f)
  BY <1>3, <1>5, <1>6, <1>7, <1>8 DEF Numbering
<1> QED
  BY <1>3, <1>9 DEF nm, f

\* A node that is neither a loop nor a function begins.
LEMMA NumberingPushed ==
    ASSUME NEW s \in Seq(Node), NEW t \in Seq(Node), Longer(t, s),
           t[Len(t)].type \notin Loops \cup {"function"},
           NEW fs \in Seq(FrameRecord), NEW b, NEW num, NEW fr, Numbering(s, fs, b, num, fr)
    PROVE  \E nm, f : Numbering(t, fs, b, nm, f) /\ nm[Len(t)] = num[Len(s)]
<1> DEFINE v == num[Len(s)]
           nm == Extended(num, Len(s), v)
           f == Extended(fr, Len(s), Len(fs))
<1>1. Len(s) \in Nat /\ Len(t) = Len(s) + 1 /\ Len(fs) \in Nat
  BY DEF Longer
<1>2. v \in Nat /\ v >= num[Len(s)] /\ fr[Len(s)] = Len(fs)
  BY <1>1 DEF Numbering
<1>3. nm[Len(t)] = v /\ nm[Len(t) - 1] = num[Len(s)] /\ f[Len(t)] = Len(fs) /\ f[Len(t) - 1] = fr[Len(s)]
  BY <1>1 DEF Extended
<1>4. Numbered(t, fs, nm, f, Len(t))
  BY <1>2, <1>3 DEF Numbered
<1>5. \A a \in 1 .. Len(fs) - 1 : fs[a].nloops = fs[a].nloops
  OBVIOUS
<1>6. Len(fs) >= Len(fs)
  BY <1>1
<1> HIDE DEF v
<1>7. Numbering(t, fs, b, nm, f) /\ nm[Len(t)] = v
  BY <1>1, <1>2, <1>4, <1>5, <1>6, NumberingExtended
<1> QED
  BY <1>7 DEF v

TopLoops(fs) == fs[Len(fs)].nloops

\* A loop begins.
LEMMA NumberingEntered ==
    ASSUME NEW s \in Seq(Node), NEW t \in Seq(Node), Longer(t, s),
           NEW fs \in Seq(FrameRecord),
           t[Len(t)].type \in Loops, t[Len(t)].loop_num = TopLoops(fs) + 1,
           NEW gs \in Seq(FrameRecord), Below(fs, gs),
           NEW b, NEW num, NEW fr, Numbering(s, fs, b, num, fr), TopLoops(fs) = num[Len(s)]
    PROVE  \E nm, f : Numbering(t, gs, b, nm, f) /\ nm[Len(t)] = num[Len(s)] + 1
<1> DEFINE v == num[Len(s)] + 1
           nm == Extended(num, Len(s), v)
           f == Extended(fr, Len(s), Len(gs))
<1>1. Len(s) \in Nat /\ Len(t) = Len(s) + 1 /\ Len(fs) \in Nat /\ Len(gs) = Len(fs)
  BY DEF Longer, Below
<1>2. v \in Nat /\ v >= num[Len(s)] /\ fr[Len(s)] = Len(gs)
  <2>1. num[Len(s)] \in Nat
    <3>1. num \in [0 .. Len(s) -> Nat] /\ Len(s) \in 0 .. Len(s)
      BY <1>1 DEF Numbering
    <3>2. \A k \in 0 .. Len(s) : num[k] \in Nat
      BY <3>1
    <3> QED BY <3>1, <3>2
  <2>2. fr[Len(s)] = Len(gs)
    BY <1>1 DEF Numbering
  <2> QED BY <2>1, <2>2
<1>3. nm[Len(t)] = v /\ nm[Len(t) - 1] = num[Len(s)] /\ f[Len(t)] = Len(gs) /\ f[Len(t) - 1] = fr[Len(s)]
  BY <1>1 DEF Extended
<1>4. Numbered(t, gs, nm, f, Len(t))
  BY <1>2, <1>3, LoopsAreNoFunctions DEF Numbered
<1>5. \A a \in 1 .. Len(fs) - 1 : gs[a].nloops = fs[a].nloops
  BY DEF Below
<1> HIDE DEF v
<1>6. Numbering(t, gs, b, nm, f) /\ nm[Len(t)] = v
  BY <1>1, <1>2, <1>4, <1>5, NumberingExtended
<1> QED
  BY <1>6 DEF v

\* A function is called.
LEMMA NumberingCalled ==
    ASSUME NEW s \in Seq(Node), NEW t \in Seq(Node), Longer(t, s), t[Len(t)].type = "function",
           NEW fs \in Seq(FrameRecord), NEW gs \in Seq(FrameRecord), Shorter(fs, gs),
           NEW b, NEW num, NEW fr, Numbering(s, fs, b, num, fr), TopLoops(fs) = num[Len(s)]
    PROVE  \E nm, f : Numbering(t, gs, b, nm, f) /\ nm[Len(t)] = 0
<1> DEFINE nm == Extended(num, Len(s), 0)
           f == Extended(fr, Len(s), Len(gs))
<1>1. Len(s) \in Nat /\ Len(t) = Len(s) + 1 /\ Len(fs) \in Nat /\ Len(gs) \in Nat /\ Len(gs) = Len(fs) + 1
  BY DEF Longer, Shorter
<1>2. fr[Len(s)] = Len(fs) /\ fr[Len(s)] >= 1
  <2>1. Len(s) \in 0 .. Len(s) /\ Len(s) <= Len(s)
    BY <1>1
  <2> QED BY <2>1 DEF Numbering
<1>3. nm[Len(t)] = 0 /\ nm[Len(t) - 1] = num[Len(s)] /\ f[Len(t)] = Len(gs) /\ f[Len(t) - 1] = fr[Len(s)]
  BY <1>1 DEF Extended
<1>4. \A a \in 1 .. Len(fs) : gs[a] = fs[a]
  BY DEF Shorter
<1>5. gs[fr[Len(s)]].nloops = num[Len(s)]
  BY <1>1, <1>2, <1>4 DEF TopLoops
<1>6. Numbered(t, gs, nm, f, Len(t))
  BY <1>1, <1>2, <1>3, <1>5, LoopsAreNoFunctions DEF Numbered
<1>7. ASSUME NEW a \in 1 .. Len(fs) - 1 PROVE gs[a].nloops = fs[a].nloops
  <2>1. a \in 1 .. Len(fs)
    BY <1>1
  <2> QED BY <1>4, <2>1
<1>8. Numbering(t, gs, b, nm, f) /\ nm[Len(t)] = 0
  BY <1>1, <1>6, <1>7, NumberingExtended
<1> QED
  BY <1>8

-----------------------------------------------------------------------------
(* The invariant *)

\* A return under way that has not left its function yet.
Returning == goal.kind = "RETURN" /\ goal.depth \in DOMAIN stack

\* In a clean line an interruption under way is where it has to be: a break or continue in its
\* loop, with no other loop or function in between, and a return in its function.
Aimed ==
    clean =>
        /\ ret \in Statuses \cup {TASK_STATUS_INTERRUPTED}
        /\ Returning => /\ stack[goal.depth].type = "function"
                        /\ \A k \in DOMAIN stack : k > goal.depth => stack[k].type # "function"
        /\ goal.kind \in {"BREAK", "CONTINUE"} =>
             /\ goal.depth \in DOMAIN stack /\ stack[goal.depth].type \in Loops
             /\ \A k \in DOMAIN stack : k > goal.depth => stack[k].type \notin Loops \cup {"function"}
             /\ Frame.branch_control = goal.kind

\* In a clean line nloops is the number of the loops that the frame is in, counted from base in
\* the outermost frame, unless a return is leaving them.
Counted ==
    clean => \E num, fr :
        /\ Numbering(stack, frames, base, num, fr)
        /\ Returning => Frame.nloops <= 0
        /\ ~Returning => Frame.nloops = num[Len(stack)]

Inv == TypeOK /\ Shape /\ FramesMatchCalls /\ Aimed /\ Counted

LEMMA FrameType ==
    ASSUME TypeOK
    PROVE  /\ frames \in Seq(FrameRecord) /\ Len(frames) \in Nat /\ Len(frames) >= 1
           /\ Frame \in FrameRecord /\ Frame.nloops \in Int /\ Frame.branch_control \in Branches
<1>1. frames \in Seq(FrameRecord) /\ frames # <<>>
  BY DEF TypeOK, FrameRecord
<1>2. Len(frames) \in Nat /\ Len(frames) >= 1 /\ Len(frames) \in DOMAIN frames
  BY <1>1
<1>3. Frame \in FrameRecord
  BY <1>1, <1>2 DEF Frame
<1> QED
  BY <1>1, <1>2, <1>3 DEF FrameRecord

\* The frame on top is replaced by another one.
LEMMA WithFrameIs ==
    ASSUME TypeOK, NEW f \in FrameRecord
    PROVE  /\ WithFrame(f) \in Seq(FrameRecord) /\ WithFrame(f) # <<>>
           /\ Len(WithFrame(f)) = Len(frames) /\ WithFrame(f)[Len(frames)] = f
           /\ Below(frames, WithFrame(f))
<1>1. frames \in Seq(FrameRecord) /\ Len(frames) \in Nat /\ Len(frames) >= 1
  BY FrameType
<1>2. /\ WithFrame(f) \in Seq(FrameRecord) /\ WithFrame(f) # <<>>
      /\ Len(WithFrame(f)) = Len(frames) /\ WithFrame(f)[Len(frames)] = f
  BY <1>1 DEF WithFrame
<1>3. \A c \in 1 .. Len(frames) - 1 : WithFrame(f)[c] = frames[c]
  BY <1>1 DEF WithFrame
<1> QED
  BY <1>2, <1>3 DEF Below

LEMMA CallsFinite ==
    ASSUME stack \in Seq(Node)
    PROVE  /\ IsFiniteSet(Calls) /\ Calls \subseteq 1 .. Len(stack) /\ Cardinality(Calls) \in Nat
           /\ IsFiniteSet(LoopsInFrame) /\ LoopsInFrame \subseteq 1 .. Len(stack)
<1>1. Len(stack) \in Nat /\ DOMAIN stack = 1 .. Len(stack)
  OBVIOUS
<1>2. IsFiniteSet(1 .. Len(stack))
  BY <1>1, FS_Interval
<1>3. Calls \subseteq 1 .. Len(stack) /\ LoopsInFrame \subseteq 1 .. Len(stack)
  BY <1>1 DEF Calls, LoopsInFrame
<1>4. IsFiniteSet(Calls) /\ IsFiniteSet(LoopsInFrame)
  BY <1>2, <1>3, FS_Subset
<1> QED
  BY <1>3, <1>4, FS_CardinalityType

\* Each node is in its place whatever it does next.
Placed(s) == \A k \in DOMAIN s : InPlace(s[k])

LEMMA KeptFacts ==
    ASSUME stack \in Seq(Node), NodesPlaced, stack' \in Seq(Node), SameNodes(stack', stack), Placed(stack')
    PROVE  NodesPlaced' /\ Calls' = Calls /\ DOMAIN stack' = DOMAIN stack
<1>1. DOMAIN stack' = DOMAIN stack /\ \A k \in DOMAIN stack : stack'[k].type = stack[k].type
  BY DEF SameNodes
<1> QED
  BY <1>1 DEF NodesPlaced, Placed, Calls

LEMMA PoppedFacts ==
    ASSUME stack \in Seq(Node), NodesPlaced, stack # <<>>, Top.type # "line", stack' = Pop
    PROVE  /\ stack' \in Seq(Node) /\ stack' # <<>> /\ Shorter(stack', stack)
           /\ NodesPlaced' /\ Calls' = Calls \ {Len(stack)}
           /\ Len(stack) \in Calls <=> Top.type = "function"
           /\ DOMAIN stack' = 1 .. Len(stack) - 1 /\ \A k \in DOMAIN stack' : stack'[k] = stack[k]
<1>1. Len(stack) \in Nat /\ DOMAIN stack = 1 .. Len(stack) /\ Len(stack) >= 1
  BY TopType
<1>2. Len(stack) # 1
  BY <1>1 DEF NodesPlaced, Top
<1>3. /\ stack' \in Seq(Node) /\ Len(stack') = Len(stack) - 1 /\ DOMAIN stack' = 1 .. Len(stack) - 1
      /\ \A k \in DOMAIN stack' : stack'[k] = stack[k]
  BY PopIs
<1>4. stack' # <<>>
  BY <1>1, <1>2, <1>3
<1>5. \A k \in DOMAIN stack' : k \in DOMAIN stack /\ k # Len(stack)
  BY <1>1, <1>3
<1>6. \A k \in DOMAIN stack : k # Len(stack) => k \in DOMAIN stack'
  BY <1>1, <1>3
<1>7. Shorter(stack', stack)
  BY <1>1, <1>3 DEF Shorter
<1>8. NodesPlaced'
  BY <1>3, <1>5 DEF NodesPlaced
<1>9. Calls' = Calls \ {Len(stack)}
  BY <1>3, <1>5, <1>6 DEF Calls
<1>10. Len(stack) \in Calls <=> Top.type = "function"
  BY <1>1 DEF Calls, Top
<1> QED
  BY <1>3, <1>4, <1>7, <1>8, <1>9, <1>10

LEMMA PushedFacts ==
    ASSUME stack \in Seq(Node), NodesPlaced, stack # <<>>,
           NEW s \in Seq(Node), SameNodes(s, stack), Placed(s),
           NEW node \in Node, node.type # "line", Placed(<<node>>), stack' = Append(s, node)
    PROVE  /\ stack' \in Seq(Node) /\ stack' # <<>> /\ Longer(stack', stack)
           /\ NodesPlaced' /\ stack'[Len(stack')] = node
           /\ Calls' = IF node.type = "function" THEN Calls \cup {Len(stack) + 1} ELSE Calls
           /\ Len(stack) + 1 \notin Calls
<1>1. /\ Len(s) = Len(stack) /\ Len(stack) \in Nat /\ DOMAIN stack = 1 .. Len(stack) /\ Len(stack) >= 1
      /\ DOMAIN s = 1 .. Len(s)
      /\ \A k \in 1 .. Len(stack) : s[k].type = stack[k].type /\ s[k].loop_num = stack[k].loop_num
  BY TopType DEF SameNodes
<1>2. /\ stack' \in Seq(Node) /\ Len(stack') = Len(stack) + 1 /\ DOMAIN stack' = 1 .. Len(stack) + 1
      /\ \A k \in 1 .. Len(stack) : stack'[k] = s[k]
      /\ stack'[Len(stack) + 1] = node
  BY <1>1, AppendIs
<1>3. \A k \in DOMAIN stack' : k \in 1 .. Len(stack) \/ k = Len(stack) + 1
  BY <1>1, <1>2
<1>4. stack' # <<>> /\ Longer(stack', stack)
  BY <1>1, <1>2 DEF Longer
<1>5. InPlace(node)
  BY DEF Placed
<1>6. NodesPlaced'
  <2> SUFFICES ASSUME NEW k \in DOMAIN stack'
               PROVE  (stack'[k].type = "line" <=> k = 1) /\ InPlace(stack'[k])
    BY DEF NodesPlaced, InPlace
  <2>1. CASE k \in 1 .. Len(stack)
    BY <1>1, <1>2, <2>1 DEF NodesPlaced, Placed
  <2>2. CASE k = Len(stack) + 1
    BY <1>1, <1>2, <1>5, <2>2
  <2> QED BY <1>3, <2>1, <2>2
<1>7. Len(stack) + 1 \notin Calls
  BY <1>1 DEF Calls
<1>8. Calls' = IF node.type = "function" THEN Calls \cup {Len(stack) + 1} ELSE Calls
  <2>1. \A k \in 1 .. Len(stack) : k \in DOMAIN stack' /\ stack'[k].type = stack[k].type
    BY <1>1, <1>2
  <2>2. Len(stack) + 1 \in DOMAIN stack' /\ stack'[Len(stack) + 1].type = node.type
    BY <1>1, <1>2
  <2> QED BY <1>1, <1>3, <2>1, <2>2 DEF Calls
<1> QED
  BY <1>2, <1>4, <1>6, <1>7, <1>8

-----------------------------------------------------------------------------
(* The loop that a break is for *)

\* Every non-empty set of naturals has a least element.
LEMMA LeastNatural ==
    ASSUME NEW S, S \subseteq Nat, S # {}
    PROVE  \E n \in S : \A m \in S : n <= m
<1>1. PICK n \in S : \A m \in S : <<m, n>> \notin OpToRel(<, Nat)
  BY NatLessThanWellFounded, WFMin
<1>2. \A m \in S : ~(m < n)
  BY <1>1 DEF OpToRel
<1> QED
  BY <1>2

\* Every non-empty set of naturals up to n has a greatest element.
LEMMA GreatestNatural ==
    ASSUME NEW n \in Nat, NEW S, S \subseteq 1 .. n, S # {}
    PROVE  \E g \in S : \A m \in S : m <= g
<1> DEFINE R == {n - m : m \in S}
<1>0. \A m \in S : n - m \in Nat
  OBVIOUS
<1>1. R \subseteq Nat /\ R # {}
  <2>1. PICK x \in S : TRUE
    OBVIOUS
  <2>2. n - x \in R
    OBVIOUS
  <2> QED BY <1>0, <2>2
<1>2. PICK d \in R : \A e \in R : d <= e
  <2> HIDE DEF R
  <2> QED BY <1>1, LeastNatural
<1>3. PICK g \in S : d = n - g
  OBVIOUS
<1>4. ASSUME NEW m \in S PROVE m <= g
  <2>1. n - m \in R /\ m \in Int /\ g \in Int
    OBVIOUS
  <2>2. n - g <= n - m
    BY <1>2, <1>3, <2>1
  <2> QED BY <2>1, <2>2
<1> QED
  BY <1>3, <1>4

Within(k) == {j \in LoopsInFrame : j >= k}

LEMMA WithinType ==
    ASSUME stack \in Seq(Node), NEW k \in LoopsInFrame
    PROVE  /\ IsFiniteSet(Within(k)) /\ Cardinality(Within(k)) \in Nat /\ Cardinality(Within(k)) >= 1
           /\ k \in Nat /\ k \in Within(k)
<1>1. IsFiniteSet(LoopsInFrame) /\ LoopsInFrame \subseteq 1 .. Len(stack)
  BY CallsFinite
<1>2. IsFiniteSet(Within(k))
  BY <1>1, FS_Subset DEF Within
<1>3. k \in Nat /\ k \in Within(k)
  BY <1>1 DEF Within
<1>4. Cardinality(Within(k)) \in Nat /\ Cardinality(Within(k)) # 0
  BY <1>2, <1>3, FS_EmptySet, FS_CardinalityType
<1> QED
  BY <1>2, <1>3, <1>4

\* The loop k is the one for n.
TargetOf(n, k) ==
    \/ Cardinality(Within(k)) = n
    \/ Cardinality(Within(k)) < n /\ k = Min(LoopsInFrame)
    \/ n = 0 /\ Cardinality(Within(k)) = 1

\* There is a loop for each n.
LEMMA TargetExists ==
    ASSUME stack \in Seq(Node), LoopsInFrame # {}, NEW n \in Nat
    PROVE  \E k \in LoopsInFrame : TargetOf(n, k)
<1>1. Len(stack) \in Nat /\ LoopsInFrame \subseteq 1 .. Len(stack) /\ LoopsInFrame \subseteq Nat
  BY CallsFinite
<1>2. PICK g \in LoopsInFrame : \A m \in LoopsInFrame : m <= g
  BY <1>1, GreatestNatural
<1>3. Cardinality(Within(g)) = 1
  <2>1. ASSUME NEW j \in Within(g) PROVE j = g
    <3>1. j \in Nat /\ g \in Nat /\ j >= g /\ j <= g
      BY <1>1, <1>2 DEF Within
    <3> QED BY <3>1
  <2>2. g \in Within(g)
    BY WithinType
  <2>3. Within(g) = {g}
    BY <2>1, <2>2
  <2> QED BY <2>3, FS_Singleton
<1>4. CASE n = 0
  BY <1>3, <1>4 DEF TargetOf
<1>5. CASE n # 0
  <2> DEFINE S == {k \in LoopsInFrame : Cardinality(Within(k)) <= n}
  <2>1. g \in S /\ S \subseteq Nat
    <3>1. 1 <= n
      BY <1>5
    <3>2. Cardinality(Within(g)) <= n
      BY <1>3, <3>1
    <3> QED BY <1>1, <3>2
  <2>2. PICK k \in S : \A m \in S : k <= m
    <3> HIDE DEF S
    <3> QED BY <2>1, LeastNatural
  <2>3. k \in LoopsInFrame /\ k \in Nat /\ Cardinality(Within(k)) <= n /\ Cardinality(Within(k)) \in Nat
    BY <2>1, WithinType
  <2>4. ASSUME Cardinality(Within(k)) # n PROVE \A m \in LoopsInFrame : k <= m
    <3> SUFFICES ASSUME NEW m \in LoopsInFrame, m < k PROVE FALSE
      BY <1>1, <2>3
    <3>1. m \in Nat
      BY <1>1
    <3> DEFINE D == {j \in LoopsInFrame : j < k}
    <3>2. PICK p \in D : \A j \in D : j <= p
      <4>1. D \subseteq 1 .. Len(stack) /\ D # {}
        BY <1>1, <3>1
      <4> HIDE DEF D
      <4> QED BY <1>1, <4>1, GreatestNatural
    <3>3. p \in LoopsInFrame /\ p < k /\ p \in Nat /\ \A j \in LoopsInFrame : j < k => j <= p
      BY <1>1, <3>2
    <3>4. Within(p) = Within(k) \cup {p} /\ p \notin Within(k)
      <4>1. ASSUME NEW j \in LoopsInFrame PROVE j >= p <=> j >= k \/ j = p
        BY <1>1, <2>3, <3>3
      <4>2. ~(p >= k)
        BY <2>3, <3>3
      <4> QED BY <3>3, <4>1, <4>2 DEF Within
    <3>5. Cardinality(Within(p)) = Cardinality(Within(k)) + 1
      BY <2>3, <3>4, WithinType, FS_AddElement
    <3>6. p \in S
      BY <2>3, <2>4, <3>3, <3>5
    <3> QED BY <2>2, <2>3, <3>3, <3>6
  <2>5. ASSUME Cardinality(Within(k)) # n PROVE k = Min(LoopsInFrame)
    <3>1. \A m \in LoopsInFrame : k <= m
      BY <2>4, <2>5
    <3>2. \A m \in LoopsInFrame : (\A j \in LoopsInFrame : m <= j) => m = k
      BY <1>1, <2>3, <3>1
    <3> QED BY <2>3, <3>1, <3>2 DEF Min
  <2> QED BY <2>3, <2>5 DEF TargetOf
<1> QED
  BY <1>4, <1>5

\* A break is for a loop of its frame, and a break of one loop for the innermost.
LEMMA TargetIs ==
    ASSUME stack \in Seq(Node), LoopsInFrame # {}, NEW n \in Nat
    PROVE  /\ Target(n) \in LoopsInFrame /\ Target(n) \in Nat
           /\ n = 1 => \A j \in LoopsInFrame : j <= Target(n)
<1>1. LoopsInFrame \subseteq Nat
  BY CallsFinite
<1>2. Target(n) = CHOOSE k \in LoopsInFrame : TargetOf(n, k)
  BY DEF Target, TargetOf, Within
<1>3. Target(n) \in LoopsInFrame /\ TargetOf(n, Target(n))
  BY <1>2, TargetExists
<1>4. Target(n) \in Nat
  BY <1>1, <1>3
<1>5. ASSUME n = 1, NEW j \in LoopsInFrame PROVE j <= Target(n)
  <2>1. /\ IsFiniteSet(Within(Target(n))) /\ Cardinality(Within(Target(n))) \in Nat
        /\ Cardinality(Within(Target(n))) >= 1 /\ Target(n) \in Within(Target(n))
    BY <1>3, WithinType
  <2>2. Cardinality(Within(Target(n))) = 1
    BY <1>3, <1>5, <2>1 DEF TargetOf
  <2>3. Within(Target(n)) = {Target(n)}
    BY <2>1, <2>2, FS_Singleton
  <2>4. ~(j >= Target(n)) \/ j = Target(n)
    BY <2>3 DEF Within
  <2> QED BY <1>1, <1>4, <2>4
<1> QED
  BY <1>3, <1>4, <1>5

-----------------------------------------------------------------------------
(* What the steps do to the stack *)

Values == Statuses \cup Faults \cup {TASK_STATUS_INTERRUPTED}
CleanValues == Statuses \cup {TASK_STATUS_INTERRUPTED}

\* What every step leaves of the variables besides stack, frames and goal.
Scalars ==
    /\ ret' \in Values /\ last_status' \in Statuses /\ exit' \in Statuses \cup {-1}
    /\ base' = base /\ clean' \in BOOLEAN /\ (clean' => clean /\ ret' \in CleanValues)

LEMMA GoalTypes ==
    ASSUME TypeOK, Scalars, stack' \in Seq(Node), frames' \in Seq(FrameRecord), frames' # <<>>,
           pc' \in {"run", "return"}, goal'.kind \in Branches \cup {"none"}, goal'.depth \in Nat
    PROVE  TypeOK'
<1>2. frames' \in Seq([nloops : Int, branch_control : Branches])
  BY DEF FrameRecord
<1>3. /\ ret' \in Statuses \cup Faults \cup {TASK_STATUS_INTERRUPTED}
      /\ last_status' \in Statuses /\ exit' \in Statuses \cup {-1} /\ clean' \in BOOLEAN
  BY DEF Scalars, Values
<1>4. base' \in Int
  BY DEF Scalars, TypeOK
<1>5. pc' \in {"main", "run", "return", "over"}
  OBVIOUS
<1> QED
  BY <1>2, <1>3, <1>4, <1>5 DEF TypeOK

LEMMA ScalarTypes ==
    ASSUME TypeOK, Scalars, stack' \in Seq(Node), frames' \in Seq(FrameRecord), frames' # <<>>,
           pc' \in {"run", "return"}, goal' \in {goal, NoGoal}
    PROVE  TypeOK'
<1>1. goal'.kind \in Branches \cup {"none"} /\ goal'.depth \in Nat
  BY DEF TypeOK, NoGoal
<1> QED
  BY <1>1, GoalTypes

\* The nodes stay, and so does nloops.
LEMMA KeptInv ==
    ASSUME Inv, stack # <<>>, stack' \in Seq(Node), SameNodes(stack', stack), Placed(stack'),
           frames' \in Seq(FrameRecord), frames' # <<>>, Below(frames, frames'),
           clean' => ~Returning /\ frames'[Len(frames)].nloops = Frame.nloops,
           pc' \in {"run", "return"}, goal' = NoGoal, Scalars
    PROVE  Inv'
<1>1. stack \in Seq(Node) /\ NodesPlaced /\ frames \in Seq(FrameRecord) /\ Len(frames') = Len(frames)
  BY FrameType DEF Inv, TypeOK, Shape, Below
<1>2. NodesPlaced' /\ Calls' = Calls /\ DOMAIN stack' = DOMAIN stack
  BY <1>1, KeptFacts
<1>3. stack' # <<>>
  BY <1>1, <1>2
<1>4. TypeOK'
  BY ScalarTypes DEF Inv
<1>5. goal'.kind = "none"
  BY DEF NoGoal
<1>6. Shape'
  BY <1>2, <1>3, <1>5 DEF Shape
<1>7. FramesMatchCalls'
  BY <1>1, <1>2 DEF Inv, FramesMatchCalls
<1>8. ~Returning'
  BY <1>5 DEF Returning
<1>9. Aimed'
  BY <1>5, <1>8 DEF Aimed, Scalars, CleanValues
<1>10. Counted'
  <2> SUFFICES ASSUME clean'
               PROVE  \E num, fr : /\ Numbering(stack', frames', base', num, fr)
                                   /\ Frame'.nloops = num[Len(stack')]
    BY <1>8 DEF Counted
  <2>1. clean /\ ~Returning
    BY DEF Scalars
  <2>2. PICK num, fr : Numbering(stack, frames, base, num, fr) /\ Frame.nloops = num[Len(stack)]
    BY <2>1 DEF Inv, Counted
  <2>3. Numbering(stack', frames', base', num, fr)
    BY <1>1, <2>2, NumberingKept DEF Scalars
  <2>4. Len(stack') = Len(stack) /\ Frame'.nloops = Frame.nloops
    BY <1>1 DEF SameNodes, Frame
  <2> QED BY <2>2, <2>3, <2>4
<1> QED
  BY <1>4, <1>6, <1>7, <1>9, <1>10 DEF Inv

\* A node is left that is no function.
LEMMA PoppedInv ==
    ASSUME Inv, stack # <<>>, Top.type \notin {"line", "function"}, stack' = Pop,
           frames' \in Seq(FrameRecord), frames' # <<>>, Below(frames, frames'),
           frames'[Len(frames)].branch_control = Frame.branch_control,
           pc' = "return", goal' \in {goal, NoGoal}, Scalars,
           goal'.kind # "none" => ret' = TASK_STATUS_INTERRUPTED,
           clean' => /\ Returning => goal' = goal
                     /\ frames'[Len(frames)].nloops = Frame.nloops - (IF Top.type \in Loops THEN 1 ELSE 0)
                     /\ Top.type \in Loops => goal' = NoGoal \/ Returning
    PROVE  Inv'
<1>1. stack \in Seq(Node) /\ NodesPlaced /\ frames \in Seq(FrameRecord) /\ Len(frames') = Len(frames)
  BY FrameType DEF Inv, TypeOK, Shape, Below
<1>2. /\ stack' \in Seq(Node) /\ stack' # <<>> /\ Shorter(stack', stack)
      /\ NodesPlaced' /\ Calls' = Calls \ {Len(stack)}
      /\ Len(stack) \in Calls <=> Top.type = "function"
      /\ DOMAIN stack' = 1 .. Len(stack) - 1 /\ \A k \in DOMAIN stack' : stack'[k] = stack[k]
  BY <1>1, PoppedFacts
<1>3. Calls' = Calls
  BY <1>2
<1>4. TypeOK'
  BY <1>2, ScalarTypes DEF Inv
<1>5. Shape'
  BY <1>2 DEF Shape
<1>6. FramesMatchCalls'
  BY <1>1, <1>3 DEF Inv, FramesMatchCalls
<1>7. Len(stack) \in Nat /\ Len(stack) >= 1 /\ DOMAIN stack = 1 .. Len(stack) /\ Len(stack') = Len(stack) - 1
  BY <1>1, <1>2, TopType DEF Shorter
<1>8. \A k \in DOMAIN stack' : k \in DOMAIN stack
  BY <1>2, <1>7
<1>9. goal'.kind # "none" => goal' = goal
  BY DEF NoGoal
<1>10. Returning' => Returning
  BY <1>8, <1>9 DEF Returning
<1>11. clean' => Aimed
  BY DEF Inv
<1>12. Frame'.branch_control = Frame.branch_control
  BY <1>1 DEF Frame
<1>13. Aimed'
  <2> SUFFICES ASSUME clean'
               PROVE  /\ ret' \in CleanValues
                      /\ Returning' => /\ stack'[goal'.depth].type = "function"
                                       /\ \A k \in DOMAIN stack' : k > goal'.depth => stack'[k].type # "function"
                      /\ goal'.kind \in {"BREAK", "CONTINUE"} =>
                           /\ goal'.depth \in DOMAIN stack' /\ stack'[goal'.depth].type \in Loops
                           /\ \A k \in DOMAIN stack' : k > goal'.depth => stack'[k].type \notin Loops \cup {"function"}
                           /\ Frame'.branch_control = goal'.kind
    BY DEF Aimed, CleanValues
  <2>1. clean /\ ret' \in CleanValues
    BY DEF Scalars
  <2>2. ASSUME Returning'
        PROVE  /\ stack'[goal'.depth].type = "function"
               /\ \A k \in DOMAIN stack' : k > goal'.depth => stack'[k].type # "function"
    <3>1. Returning /\ goal' = goal /\ goal'.depth \in DOMAIN stack'
      BY <1>9, <1>10, <2>2 DEF Returning
    <3>2. /\ stack[goal.depth].type = "function"
          /\ \A k \in DOMAIN stack : k > goal.depth => stack[k].type # "function"
      BY <2>1, <3>1 DEF Inv, Aimed
    <3> QED BY <1>2, <1>8, <3>1, <3>2
  <2>3. ASSUME goal'.kind \in {"BREAK", "CONTINUE"}
        PROVE  /\ goal'.depth \in DOMAIN stack' /\ stack'[goal'.depth].type \in Loops
               /\ \A k \in DOMAIN stack' : k > goal'.depth => stack'[k].type \notin Loops \cup {"function"}
               /\ Frame'.branch_control = goal'.kind
    <3>1. goal' = goal /\ goal # NoGoal
      BY <1>9, <2>3 DEF NoGoal
    <3>2. /\ goal.depth \in DOMAIN stack /\ stack[goal.depth].type \in Loops
          /\ \A k \in DOMAIN stack : k > goal.depth => stack[k].type \notin Loops \cup {"function"}
          /\ Frame.branch_control = goal.kind
      BY <2>1, <2>3, <3>1 DEF Inv, Aimed
    <3>3. Top.type \notin Loops
      BY <2>3, <3>1 DEF Returning
    <3>4. goal.depth # Len(stack)
      BY <3>2, <3>3 DEF Top
    <3>5. goal.depth \in DOMAIN stack'
      BY <1>2, <1>7, <3>2, <3>4
    <3> QED BY <1>2, <1>8, <1>12, <3>1, <3>2, <3>5
  <2> QED BY <2>1, <2>2, <2>3
<1>14. Counted'
  <2> SUFFICES ASSUME clean'
               PROVE  \E num, fr : /\ Numbering(stack', frames', base', num, fr)
                                   /\ Returning' => Frame'.nloops <= 0
                                   /\ ~Returning' => Frame'.nloops = num[Len(stack')]
    BY DEF Counted
  <2>1. clean /\ base' = base
    BY DEF Scalars
  <2>2. PICK num, fr : /\ Numbering(stack, frames, base, num, fr)
                       /\ Returning => Frame.nloops <= 0
                       /\ ~Returning => Frame.nloops = num[Len(stack)]
    BY <2>1 DEF Inv, Counted
  <2> DEFINE nm == Cut(num, Len(stack'))
             f == Cut(fr, Len(stack'))
  <2>3. /\ Numbering(stack', frames', base', nm, f)
        /\ nm[Len(stack')] = num[Len(stack) - 1] /\ num[Len(stack) - 1] \in Nat /\ num[Len(stack)] \in Nat
        /\ Top.type \in Loops => num[Len(stack)] = num[Len(stack) - 1] + 1
        /\ Top.type \notin Loops => num[Len(stack)] = num[Len(stack) - 1]
    BY <1>1, <1>2, <2>1, <2>2, NumberingPopped DEF Top
  <2> HIDE DEF nm, f
  <2>4. Frame'.nloops = Frame.nloops - (IF Top.type \in Loops THEN 1 ELSE 0) /\ Frame.nloops \in Int
    BY <1>1, FrameType DEF Frame, Inv
  <2>5. CASE Returning
    <3>1. goal' = goal
      BY <2>5
    <3>2. goal.depth # Len(stack) /\ goal.depth \in DOMAIN stack
      BY <2>1, <2>5 DEF Inv, Aimed, Returning, Top
    <3>3. Returning'
      BY <1>2, <1>7, <2>5, <3>1, <3>2 DEF Returning
    <3> QED BY <2>2, <2>3, <2>4, <2>5, <3>3
  <2>6. CASE ~Returning
    <3>1. ~Returning'
      BY <1>10, <2>6
    <3>2. Frame'.nloops = nm[Len(stack')]
      BY <2>2, <2>3, <2>4, <2>6
    <3> QED BY <2>3, <3>1, <3>2
  <2> QED BY <2>5, <2>6
<1> QED
  BY <1>4, <1>5, <1>6, <1>13, <1>14 DEF Inv

OuterFrames == SubSeq(frames, 1, Len(frames) - 1)

\* A function is left, and its frame with it.
LEMMA ReturnedInv ==
    ASSUME Inv, stack # <<>>, Top.type = "function", stack' = Pop,
           frames' = OuterFrames,
           pc' = "return", goal' \in {goal, NoGoal}, Scalars,
           goal'.kind # "none" => ret' = TASK_STATUS_INTERRUPTED
    PROVE  Inv'
<1>1. /\ stack \in Seq(Node) /\ NodesPlaced /\ frames \in Seq(FrameRecord) /\ Len(frames) \in Nat
      /\ Len(frames) = 1 + Cardinality(Calls)
  BY FrameType DEF Inv, TypeOK, Shape, FramesMatchCalls
<1>2. /\ stack' \in Seq(Node) /\ stack' # <<>> /\ Shorter(stack', stack)
      /\ NodesPlaced' /\ Calls' = Calls \ {Len(stack)} /\ Len(stack) \in Calls
      /\ DOMAIN stack' = 1 .. Len(stack) - 1 /\ \A k \in DOMAIN stack' : stack'[k] = stack[k]
  BY <1>1, PoppedFacts
<1>3. Cardinality(Calls') = Cardinality(Calls) - 1 /\ Cardinality(Calls') \in Nat /\ Cardinality(Calls) \in Nat
  <2>1. IsFiniteSet(Calls) /\ Cardinality(Calls) \in Nat
    BY <1>1, CallsFinite
  <2>2. Cardinality(Calls \ {Len(stack)}) = Cardinality(Calls) - 1 /\ IsFiniteSet(Calls \ {Len(stack)})
    BY <1>2, <2>1, FS_RemoveElement
  <2>3. Cardinality(Calls \ {Len(stack)}) \in Nat
    BY <2>2, FS_CardinalityType
  <2> QED BY <1>2, <2>1, <2>2, <2>3
<1>4. Len(frames) >= 2
  BY <1>1, <1>3
<1>5. /\ frames' \in Seq(FrameRecord) /\ Len(frames') = Len(frames) - 1
      /\ \A c \in 1 .. Len(frames) - 1 : frames'[c] = frames[c]
  BY <1>1, <1>4 DEF OuterFrames
<1>6. frames' # <<>> /\ Shorter(frames', frames)
  BY <1>1, <1>4, <1>5 DEF Shorter
<1>7. TypeOK'
  BY <1>2, <1>5, <1>6, ScalarTypes DEF Inv
<1>8. Shape'
  BY <1>2 DEF Shape
<1>9. FramesMatchCalls'
  BY <1>1, <1>3, <1>5 DEF FramesMatchCalls
<1>10. goal'.kind # "none" => goal' = goal
  BY DEF NoGoal
<1>11. Len(stack) \in Nat /\ Len(stack) >= 1 /\ DOMAIN stack = 1 .. Len(stack) /\ Len(stack) \in DOMAIN stack
  BY <1>1, TopType
<1>12. clean' => goal'.kind \notin {"BREAK", "CONTINUE"} /\ ~Returning'
  <2> SUFFICES ASSUME clean', goal'.kind \in {"BREAK", "CONTINUE"} \/ Returning' PROVE FALSE
    OBVIOUS
  <2>1. clean /\ goal' = goal
    BY <1>10 DEF Scalars, Returning
  <2>2. CASE goal'.kind \in {"BREAK", "CONTINUE"}
    <3>1. /\ goal.depth \in DOMAIN stack /\ stack[goal.depth].type \in Loops
          /\ \A k \in DOMAIN stack : k > goal.depth => stack[k].type \notin Loops \cup {"function"}
      BY <2>1, <2>2 DEF Inv, Aimed
    <3>2. stack[Len(stack)].type = "function"
      BY DEF Top
    <3>3. goal.depth = Len(stack)
      BY <1>11, <3>1, <3>2
    <3> QED BY <3>1, <3>2, <3>3, LoopsAreNoFunctions
  <2>3. CASE Returning'
    <3>1. goal.kind = "RETURN" /\ goal.depth \in DOMAIN stack'
      BY <2>1, <2>3 DEF Returning
    <3>2. goal.depth \in DOMAIN stack /\ Len(stack) > goal.depth
      BY <1>2, <1>11, <3>1
    <3>3. Returning
      BY <3>1, <3>2 DEF Returning
    <3>4. stack[Len(stack)].type # "function"
      BY <1>11, <2>1, <3>2, <3>3 DEF Inv, Aimed
    <3> QED BY <3>4 DEF Top
  <2> QED BY <2>2, <2>3
<1>13. Aimed'
  BY <1>12 DEF Aimed, Scalars, CleanValues
<1>14. Counted'
  <2> SUFFICES ASSUME clean'
               PROVE  \E num, fr : /\ Numbering(stack', frames', base', num, fr)
                                   /\ Frame'.nloops = num[Len(stack')]
    BY <1>12 DEF Counted
  <2>1. clean /\ base' = base
    BY DEF Scalars
  <2>2. PICK num, fr : Numbering(stack, frames, base, num, fr)
    BY <2>1 DEF Inv, Counted
  <2>3. /\ Numbering(stack', frames', base', Cut(num, Len(stack')), Cut(fr, Len(stack')))
        /\ frames'[Len(frames')].nloops = Cut(num, Len(stack'))[Len(stack')]
    <3>1. stack[Len(stack)].type = "function"
      BY DEF Top
    <3>2. ASSUME NEW gs \in Seq(FrameRecord), Shorter(gs, frames)
          PROVE  /\ Numbering(stack', gs, base, Cut(num, Len(stack')), Cut(fr, Len(stack')))
                 /\ gs[Len(gs)].nloops = Cut(num, Len(stack'))[Len(stack')]
      BY <1>1, <1>2, <2>2, <3>1, <3>2, NumberingReturned
    <3> QED BY <1>5, <1>6, <2>1, <3>2
  <2> QED BY <2>3 DEF Frame
<1> QED
  BY <1>7, <1>8, <1>9, <1>13, <1>14 DEF Inv

Pushed(s, node) == Append(s, node)

\* A node begins: s is the stack with its next command taken.
LEMMA PushedInv ==
    ASSUME Inv, stack # <<>>, NEW s \in Seq(Node), SameNodes(s, stack), Placed(s),
           NEW node \in Node, node.type # "line", Placed(<<node>>), stack' = Pushed(s, node),
           frames' \in Seq(FrameRecord), frames' # <<>>,
           pc' = "run", goal' = NoGoal, Scalars, clean' => ~Returning,
           node.type \notin Loops \cup {"function"} => frames' = frames,
           node.type \in Loops =>
              /\ Below(frames, frames') /\ frames'[Len(frames)].nloops = Frame.nloops + 1
              /\ node.loop_num = Frame.nloops + 1,
           node.type = "function" => Shorter(frames, frames') /\ frames'[Len(frames')].nloops = 0
    PROVE  Inv'
<1>1. /\ stack \in Seq(Node) /\ NodesPlaced /\ frames \in Seq(FrameRecord) /\ Len(frames) \in Nat
      /\ Len(frames) = 1 + Cardinality(Calls)
  BY FrameType DEF Inv, TypeOK, Shape, FramesMatchCalls
<1>2. /\ stack' \in Seq(Node) /\ stack' # <<>> /\ Longer(stack', stack)
      /\ NodesPlaced' /\ stack'[Len(stack')] = node
      /\ Calls' = IF node.type = "function" THEN Calls \cup {Len(stack) + 1} ELSE Calls
      /\ Len(stack) + 1 \notin Calls
  BY <1>1, PushedFacts DEF Pushed
<1>3. TypeOK'
  BY <1>2, ScalarTypes DEF Inv
<1>4. goal'.kind = "none"
  BY DEF NoGoal
<1>5. Shape'
  BY <1>2, <1>4 DEF Shape
<1>6. FramesMatchCalls'
  <2>1. CASE node.type = "function"
    <3>1. IsFiniteSet(Calls) /\ Cardinality(Calls) \in Nat
      BY <1>1, CallsFinite
    <3>2. Cardinality(Calls') = Cardinality(Calls) + 1
      BY <1>2, <2>1, <3>1, FS_AddElement
    <3>3. Len(frames') = Len(frames) + 1
      BY <1>1, <2>1 DEF Shorter
    <3> QED BY <1>1, <3>1, <3>2, <3>3 DEF FramesMatchCalls
  <2>2. CASE node.type # "function"
    <3>1. Len(frames') = Len(frames)
      BY <2>2 DEF Below
    <3> QED BY <1>1, <1>2, <2>2, <3>1 DEF FramesMatchCalls
  <2> QED BY <2>1, <2>2
<1>7. ~Returning'
  BY <1>4 DEF Returning
<1>8. Aimed'
  BY <1>4, <1>7 DEF Aimed, Scalars, CleanValues
<1>9. Counted'
  <2> SUFFICES ASSUME clean'
               PROVE  \E num, fr : /\ Numbering(stack', frames', base', num, fr)
                                   /\ Frame'.nloops = num[Len(stack')]
    BY <1>7 DEF Counted
  <2>1. clean /\ base' = base /\ ~Returning
    BY DEF Scalars
  <2>2. PICK num, fr : Numbering(stack, frames, base, num, fr) /\ TopLoops(frames) = num[Len(stack)]
    BY <2>1 DEF Inv, Counted, Frame, TopLoops
  <2>3. CASE node.type = "function"
    <3>1. stack'[Len(stack')].type = "function" /\ Shorter(frames, frames')
      BY <1>2, <2>3
    <3>2. ASSUME NEW t \in Seq(Node), Longer(t, stack), t[Len(t)].type = "function",
                 NEW gs \in Seq(FrameRecord), Shorter(frames, gs)
          PROVE  \E nm, f : Numbering(t, gs, base, nm, f) /\ nm[Len(t)] = 0
      BY <1>1, <2>2, <3>2, NumberingCalled
    <3>3. Frame'.nloops = 0
      BY <2>3 DEF Frame
    <3> QED BY <1>2, <2>1, <3>1, <3>2, <3>3
  <2>4. CASE node.type \in Loops
    <3>1. /\ stack'[Len(stack')].type \in Loops /\ Below(frames, frames')
          /\ stack'[Len(stack')].loop_num = TopLoops(frames) + 1
      BY <1>2, <2>4 DEF Frame, TopLoops
    <3>2. ASSUME NEW t \in Seq(Node), Longer(t, stack), t[Len(t)].type \in Loops,
                 t[Len(t)].loop_num = TopLoops(frames) + 1,
                 NEW gs \in Seq(FrameRecord), Below(frames, gs)
          PROVE  \E nm, f : Numbering(t, gs, base, nm, f) /\ nm[Len(t)] = num[Len(stack)] + 1
      BY <1>1, <2>2, <3>2, NumberingEntered
    <3>3. Len(frames') = Len(frames)
      BY <2>4 DEF Below
    <3>4. Frame'.nloops = num[Len(stack)] + 1
      BY <2>2, <2>4, <3>3 DEF Frame, TopLoops
    <3> QED BY <1>2, <2>1, <3>1, <3>2, <3>4
  <2>5. CASE node.type \notin Loops \cup {"function"}
    <3>1. stack'[Len(stack')].type \notin Loops \cup {"function"} /\ frames' = frames
      BY <1>2, <2>5
    <3>2. \E nm, f : Numbering(stack', frames, base, nm, f) /\ nm[Len(stack')] = num[Len(stack)]
      BY <1>1, <1>2, <2>2, <3>1, NumberingPushed
    <3>3. Frame'.nloops = num[Len(stack)]
      BY <2>2, <3>1 DEF Frame, TopLoops
    <3> QED BY <1>2, <2>1, <3>1, <3>2, <3>3
  <2> QED BY <2>3, <2>4, <2>5
<1> QED
  BY <1>3, <1>5, <1>6, <1>8, <1>9 DEF Inv

\* An interruption begins: the nodes stay, and it is aimed at a loop or a function.
LEMMA InterruptedInv ==
    ASSUME Inv, stack # <<>>, stack' \in Seq(Node), SameNodes(stack', stack), Placed(stack'),
           frames' \in Seq(FrameRecord), frames' # <<>>, Below(frames, frames'),
           pc' = "return", ret' = TASK_STATUS_INTERRUPTED, Scalars,
           goal'.kind \in Branches \cup {"none"}, goal'.depth \in Nat,
           clean' =>
             /\ ~Returning
             /\ goal'.kind # "RETURN" => frames'[Len(frames)].nloops = Frame.nloops
             /\ goal'.kind = "RETURN" =>
                  /\ goal'.depth \in Calls /\ (\A c \in Calls : c <= goal'.depth)
                  /\ frames'[Len(frames)].nloops = 0
             /\ goal'.kind \in {"BREAK", "CONTINUE"} =>
                  /\ goal'.depth \in LoopsInFrame /\ (\A j \in LoopsInFrame : j <= goal'.depth)
                  /\ frames'[Len(frames)].branch_control = goal'.kind
    PROVE  Inv'
<1>1. stack \in Seq(Node) /\ NodesPlaced /\ frames \in Seq(FrameRecord) /\ Len(frames') = Len(frames)
  BY FrameType DEF Inv, TypeOK, Shape, Below
<1>2. NodesPlaced' /\ Calls' = Calls /\ DOMAIN stack' = DOMAIN stack
  BY <1>1, KeptFacts
<1>3. stack' # <<>>
  BY <1>1, <1>2
<1>4. TypeOK'
  BY GoalTypes DEF Inv
<1>5. Shape'
  BY <1>2, <1>3 DEF Shape
<1>6. FramesMatchCalls'
  BY <1>1, <1>2 DEF Inv, FramesMatchCalls
<1>7. DOMAIN stack = 1 .. Len(stack) /\ Len(stack) \in Nat /\ Len(stack') = Len(stack)
  BY <1>1, TopType DEF SameNodes
<1>8. \A k \in DOMAIN stack : stack'[k].type = stack[k].type
  BY <1>7 DEF SameNodes
<1>9. Aimed'
  <2> SUFFICES ASSUME clean'
               PROVE  /\ ret' \in CleanValues
                      /\ Returning' => /\ stack'[goal'.depth].type = "function"
                                       /\ \A k \in DOMAIN stack' : k > goal'.depth => stack'[k].type # "function"
                      /\ goal'.kind \in {"BREAK", "CONTINUE"} =>
                           /\ goal'.depth \in DOMAIN stack' /\ stack'[goal'.depth].type \in Loops
                           /\ \A k \in DOMAIN stack' : k > goal'.depth => stack'[k].type \notin Loops \cup {"function"}
                           /\ Frame'.branch_control = goal'.kind
    BY DEF Aimed, CleanValues
  <2>1. ret' \in CleanValues
    BY DEF Scalars
  <2>2. ASSUME goal'.kind = "RETURN"
        PROVE  /\ stack'[goal'.depth].type = "function"
               /\ \A k \in DOMAIN stack' : k > goal'.depth => stack'[k].type # "function"
    <3>1. goal'.depth \in Calls /\ \A c \in Calls : c <= goal'.depth
      BY <2>2
    <3>2. goal'.depth \in DOMAIN stack /\ stack[goal'.depth].type = "function"
      BY <3>1 DEF Calls
    <3>3. ASSUME NEW k \in DOMAIN stack, k > goal'.depth PROVE stack[k].type # "function"
      <4>1. k \notin Calls
        BY <1>7, <3>1, <3>2, <3>3
      <4> QED BY <4>1 DEF Calls
    <3> QED BY <1>2, <1>8, <3>2, <3>3
  <2>3. ASSUME goal'.kind \in {"BREAK", "CONTINUE"}
        PROVE  /\ goal'.depth \in DOMAIN stack' /\ stack'[goal'.depth].type \in Loops
               /\ \A k \in DOMAIN stack' : k > goal'.depth => stack'[k].type \notin Loops \cup {"function"}
    <3>1. goal'.depth \in LoopsInFrame /\ \A j \in LoopsInFrame : j <= goal'.depth
      BY <2>3
    <3>2. /\ goal'.depth \in DOMAIN stack /\ stack[goal'.depth].type \in Loops
          /\ \A c \in Calls : c < goal'.depth
      BY <3>1 DEF LoopsInFrame
    <3>3. ASSUME NEW k \in DOMAIN stack, k > goal'.depth PROVE stack[k].type \notin Loops \cup {"function"}
      <4>1. \A c \in Calls : c < k /\ c \in DOMAIN stack
        BY <1>7, <3>2, <3>3 DEF Calls
      <4>2. k \notin LoopsInFrame /\ k \notin Calls
        BY <1>7, <3>1, <3>2, <3>3, <4>1
      <4> QED BY <4>1, <4>2 DEF Calls, LoopsInFrame
    <3> QED BY <1>2, <1>8, <3>2, <3>3
  <2>4. goal'.kind \in {"BREAK", "CONTINUE"} => Frame'.branch_control = goal'.kind
    BY <1>1 DEF Frame
  <2> QED BY <2>1, <2>2, <2>3, <2>4 DEF Returning
<1>10. Counted'
  <2> SUFFICES ASSUME clean'
               PROVE  \E num, fr : /\ Numbering(stack', frames', base', num, fr)
                                   /\ Returning' => Frame'.nloops <= 0
                                   /\ ~Returning' => Frame'.nloops = num[Len(stack')]
    BY DEF Counted
  <2>1. clean /\ base' = base /\ ~Returning
    BY DEF Scalars
  <2>2. PICK num, fr : Numbering(stack, frames, base, num, fr) /\ Frame.nloops = num[Len(stack)]
    BY <2>1 DEF Inv, Counted
  <2>3. Numbering(stack', frames', base', num, fr)
    BY <1>1, <2>1, <2>2, NumberingKept
  <2>4. CASE goal'.kind = "RETURN"
    <3>1. goal'.depth \in Calls /\ Frame'.nloops = 0
      BY <1>1, <2>4 DEF Frame
    <3>2. Returning'
      BY <1>2, <2>4, <3>1 DEF Returning, Calls
    <3>3. Frame'.nloops <= 0
      BY <3>1
    <3> QED BY <2>3, <3>2, <3>3
  <2>5. CASE goal'.kind # "RETURN"
    <3>1. ~Returning' /\ Frame'.nloops = Frame.nloops
      BY <1>1, <2>5 DEF Returning, Frame
    <3> QED BY <1>7, <2>2, <2>3, <3>1
  <2> QED BY <2>4, <2>5
<1> QED
  BY <1>4, <1>5, <1>6, <1>9, <1>10 DEF Inv

-----------------------------------------------------------------------------
(* What a node does with a value *)

\* What a step leaves of last_status, exit, base and clean.
Rest ==
    /\ last_status' \in Statuses /\ exit' \in Statuses \cup {-1} /\ base' = base
    /\ clean' \in BOOLEAN /\ (clean' => clean)

\* The value r that reaches the node on top.
Given(r) == r \in Values /\ (clean => r \in CleanValues) /\ (goal.kind # "none" => r = TASK_STATUS_INTERRUPTED)

LEMMA RestScalars ==
    ASSUME Rest, ret' \in Values, clean' => ret' \in CleanValues
    PROVE  Scalars
  BY DEF Rest, Scalars

LEMMA InvParts ==
    ASSUME Inv
    PROVE  /\ stack \in Seq(Node) /\ NodesPlaced /\ Placed(stack)
           /\ frames \in Seq(FrameRecord) /\ frames # <<>> /\ Len(frames) \in Nat
           /\ Below(frames, frames) /\ frames[Len(frames)] = Frame
           /\ pc \in {"run", "return"} => stack # <<>>
           /\ goal.kind # "none" => pc = "return" /\ ret = TASK_STATUS_INTERRUPTED
           /\ Returning => goal.kind # "none"
<1>1. stack \in Seq(Node) /\ NodesPlaced /\ frames \in Seq(FrameRecord) /\ frames # <<>> /\ Len(frames) \in Nat
  BY FrameType DEF Inv, TypeOK, Shape
<1>2. Placed(stack)
  BY <1>1 DEF NodesPlaced, Placed
<1>3. Below(frames, frames)
  BY DEF Below
<1>4. pc \in {"run", "return"} => stack # <<>>
  BY DEF Inv, Shape
<1>5. goal.kind # "none" => pc = "return" /\ ret = TASK_STATUS_INTERRUPTED
  BY DEF Inv, Shape
<1> QED
  BY <1>1, <1>2, <1>3, <1>4, <1>5 DEF Frame, Returning

\* The node on top, of the same type, goes on with something else.
Goes(node) ==
    /\ node \in Node /\ node.type = Top.type /\ node.loop_num = Top.loop_num
    /\ InPlace(node)

LEMMA GoesOn ==
    ASSUME Inv, stack # <<>>, NEW node, Goes(node)
    PROVE  /\ WithTop(node) \in Seq(Node) /\ SameNodes(WithTop(node), stack) /\ Placed(WithTop(node))
<1>1. stack \in Seq(Node) /\ Placed(stack) /\ node \in Node
  BY InvParts DEF Goes
<1>2. DOMAIN stack = 1 .. Len(stack) /\ Len(stack) \in Nat
  BY <1>1, TopType
<1>3. /\ WithTop(node) \in Seq(Node) /\ Len(WithTop(node)) = Len(stack)
      /\ DOMAIN WithTop(node) = DOMAIN stack
      /\ WithTop(node)[Len(stack)] = node
      /\ \A k \in DOMAIN stack : k # Len(stack) => WithTop(node)[k] = stack[k]
  BY <1>1, WithTopIs
<1>4. SameNodes(WithTop(node), stack)
  BY <1>2, <1>3 DEF SameNodes, Goes, Top
<1>5. Placed(WithTop(node))
  BY <1>1, <1>3 DEF Placed, Goes
<1> QED
  BY <1>3, <1>4, <1>5

LEMMA RunTopInv ==
    ASSUME Inv, stack # <<>>, NEW node, Goes(node), Run(WithTop(node)), UNCHANGED frames, Rest,
           clean' => ~Returning
    PROVE  Inv'
<1>1. /\ WithTop(node) \in Seq(Node) /\ SameNodes(WithTop(node), stack) /\ Placed(WithTop(node))
  BY GoesOn
<1>2. stack' = WithTop(node) /\ pc' = "run" /\ goal' = NoGoal /\ ret' = 0
  BY DEF Run
<1>3. Scalars
  <2>1. ret' \in Values /\ ret' \in CleanValues
    BY <1>2, StatusTypes DEF Values, CleanValues
  <2> QED BY <2>1, RestScalars
<1>4. /\ frames \in Seq(FrameRecord) /\ frames # <<>> /\ Below(frames, frames) /\ frames[Len(frames)] = Frame
  BY InvParts
<1> QED
  BY <1>1, <1>2, <1>3, <1>4, KeptInv

\* A node that is no function returns a value.
LEMMA ReturnPopInv ==
    ASSUME Inv, stack # <<>>, Top.type \notin {"line", "function"}, NEW r, Given(r),
           Return(Pop, r), UNCHANGED frames, Rest, Top.type \in Loops => ~clean
    PROVE  Inv'
<1>1. /\ stack' = Pop /\ pc' = "return" /\ ret' = r
      /\ goal' = IF r = TASK_STATUS_INTERRUPTED THEN goal ELSE NoGoal
  BY DEF Return
<1>2. Scalars
  BY <1>1, RestScalars DEF Given, Rest
<1>3. /\ frames \in Seq(FrameRecord) /\ frames # <<>> /\ Below(frames, frames) /\ frames[Len(frames)] = Frame
      /\ Returning => goal.kind # "none"
  BY InvParts
<1>4. goal'.kind # "none" => ret' = TASK_STATUS_INTERRUPTED
  BY <1>1 DEF NoGoal
<1>5. Returning => goal' = goal
  BY <1>1, <1>3 DEF Given
<1>6. clean' => Top.type \notin Loops
  BY DEF Rest
<1>7. Frame.nloops \in Int
  BY FrameType DEF Inv
<1>8. Top.type \notin Loops => Frame.nloops = Frame.nloops - (IF Top.type \in Loops THEN 1 ELSE 0)
  BY <1>7
<1>9. goal' \in {goal, NoGoal}
  BY <1>1
<1>10. /\ frames' \in Seq(FrameRecord) /\ frames' # <<>> /\ Below(frames, frames') /\ frames'[Len(frames)] = Frame
  BY <1>3
<1> QED
  BY <1>1, <1>2, <1>4, <1>5, <1>6, <1>8, <1>9, <1>10, PoppedInv

\* The number of the loop on top is the nloops of its frame, or a return is leaving it.
LEMMA LoopNumber ==
    ASSUME Inv, clean, stack # <<>>, Top.type \in Loops
    PROVE  /\ Returning => Frame.nloops < Top.loop_num
           /\ ~Returning => Frame.nloops = Top.loop_num
<1>1. PICK num, fr : /\ Numbering(stack, frames, base, num, fr)
                     /\ Returning => Frame.nloops <= 0
                     /\ ~Returning => Frame.nloops = num[Len(stack)]
  BY DEF Inv, Counted
<1>2. Len(stack) \in 1 .. Len(stack) /\ Len(stack) \in Nat
  BY InvParts, TopType
<1>3. Len(stack) - 1 \in 0 .. Len(stack) /\ num \in [0 .. Len(stack) -> Nat]
  BY <1>1, <1>2 DEF Numbering
<1>4. num[Len(stack)] = num[Len(stack) - 1] + 1 /\ Top.loop_num = num[Len(stack)]
  BY <1>1, <1>2 DEF Numbering, Numbered, Top
<1>5. num[Len(stack) - 1] \in Nat
  BY <1>3
<1>6. Frame.nloops \in Int
  BY FrameType DEF Inv
<1> QED
  BY <1>1, <1>4, <1>5, <1>6

\* A loop ends.
LEMMA LeaveLoopInv ==
    ASSUME Inv, stack # <<>>, Top.type \in Loops, Rest, NEW r \in CleanValues, NEW g, LeaveLoop(r, g),
           \/ g = goal /\ r = TASK_STATUS_INTERRUPTED /\ (clean => Returning)
           \/ g = NoGoal /\ (clean => ~Returning)
    PROVE  Inv'
<1> DEFINE f == [Frame EXCEPT !.nloops = @ - 1]
<1>1. stack' = Pop /\ pc' = "return" /\ ret' = r /\ goal' = g /\ frames' = WithFrame(f)
  BY DEF LeaveLoop
<1>2. Frame \in FrameRecord /\ Frame.nloops \in Int
  BY FrameType DEF Inv
<1>3. f \in FrameRecord /\ f.nloops = Frame.nloops - 1 /\ f.branch_control = Frame.branch_control
  BY <1>2 DEF FrameRecord
<1> HIDE DEF f
<1>4. /\ frames' \in Seq(FrameRecord) /\ frames' # <<>> /\ Below(frames, frames')
      /\ frames'[Len(frames)] = f
  BY <1>1, <1>3, WithFrameIs DEF Inv
<1>5. Scalars
  BY <1>1, RestScalars DEF Values, CleanValues
<1>6. Top.type \notin {"line", "function"}
  BY LoopsAreNoFunctions
<1>7. goal'.kind # "none" => ret' = TASK_STATUS_INTERRUPTED
  BY <1>1 DEF NoGoal
<1>8. goal' \in {goal, NoGoal}
  BY <1>1
<1>9. clean' => (Returning => goal' = goal) /\ (goal' = NoGoal \/ Returning)
  BY <1>1 DEF Rest
<1>10. frames'[Len(frames)].nloops = Frame.nloops - (IF Top.type \in Loops THEN 1 ELSE 0)
  BY <1>3, <1>4
<1> QED
  BY <1>1, <1>3, <1>4, <1>5, <1>6, <1>7, <1>8, <1>9, <1>10, PoppedInv

\* The list that a node runs next, and how a loop remembers its value.
LEMMA ListGoes ==
    ASSUME Inv, stack # <<>>
    PROVE  /\ \A place \in {"body", "else"} : Top.type = "if" => Goes(List(place))
           /\ \A place \in {"condition", "body"} : Top.type \in Loops => Goes(List(place))
           /\ \A v \in CleanValues : Top.type \in Loops => Goes([List("head") EXCEPT !.loop_ret = v])
<1>1. stack \in Seq(Node)
  BY InvParts
<1>2. \A place \in {"list", "condition", "body", "else", "head"} :
         /\ List(place) \in Node
         /\ List(place).type = Top.type /\ List(place).loop_num = Top.loop_num /\ List(place).at = place
  BY <1>1, ListType
<1>3. /\ \A place \in {"body", "else"} : Top.type = "if" => Goes(List(place))
      /\ \A place \in {"condition", "body"} : Top.type \in Loops => Goes(List(place))
  BY <1>2 DEF Goes, InPlace, Loops
<1>4. ASSUME NEW v \in CleanValues, Top.type \in Loops
      PROVE  Goes([List("head") EXCEPT !.loop_ret = v])
  <2> DEFINE node == [List("head") EXCEPT !.loop_ret = v]
  <2>1. /\ List("head") \in Node /\ List("head").type = Top.type
        /\ List("head").loop_num = Top.loop_num /\ List("head").at = "head"
    BY <1>2
  <2>2. v \in Statuses \cup {TASK_STATUS_INTERRUPTED}
    BY DEF CleanValues
  <2>3. /\ node \in Node /\ node.type = Top.type
        /\ node.loop_num = Top.loop_num /\ node.at = "head"
    BY <2>1, <2>2 DEF Node
  <2> HIDE DEF node
  <2>4. Goes(node)
    BY <1>4, <2>3 DEF Goes, InPlace, Loops
  <2> QED BY <2>4 DEF node
<1> QED
  BY <1>3, <1>4

LEMMA InterruptInv ==
    ASSUME Inv, stack # <<>>, Top.type \in Loops, Rest, NEW v \in CleanValues, Interrupt(v)
    PROVE  Inv'
<1>1. Frame.nloops \in Int /\ Top.loop_num \in Int /\ 0 \in CleanValues /\ TASK_STATUS_INTERRUPTED \in CleanValues
  BY FrameType, InvParts, TopType, StatusTypes DEF Inv, CleanValues
<1>2. clean => /\ Returning => Frame.nloops < Top.loop_num
               /\ ~Returning => Frame.nloops = Top.loop_num
  BY LoopNumber
<1>3. CASE Frame.nloops < Top.loop_num /\ LeaveLoop(TASK_STATUS_INTERRUPTED, goal)
  <2>1. clean => Returning
    BY <1>1, <1>2, <1>3
  <2> QED BY <1>1, <1>3, <2>1, LeaveLoopInv
<1>4. ASSUME Frame.nloops >= Top.loop_num PROVE clean => ~Returning
  BY <1>1, <1>2, <1>4
<1>5. CASE Frame.nloops >= Top.loop_num /\ LeaveLoop(0, NoGoal)
  BY <1>1, <1>4, <1>5, LeaveLoopInv
<1>6. CASE Frame.nloops >= Top.loop_num /\ LeaveLoop(v, NoGoal)
  BY <1>1, <1>4, <1>6, LeaveLoopInv
<1>7. CASE /\ Frame.nloops >= Top.loop_num
           /\ Run(WithTop([List("head") EXCEPT !.loop_ret = v])) /\ UNCHANGED frames
  <2>1. Goes([List("head") EXCEPT !.loop_ret = v])
    BY ListGoes
  <2>2. clean' => ~Returning
    BY <1>4, <1>7 DEF Rest
  <2> QED BY <1>7, <2>1, <2>2, RunTopInv
<1> QED
  BY <1>3, <1>5, <1>6, <1>7 DEF Interrupt

LEMMA LoopGetsInv ==
    ASSUME Inv, stack # <<>>, Top.type \in Loops, Rest, NEW r, Given(r), LoopGets(r)
    PROVE  Inv'
<1>1. Top.loop_ret \in CleanValues
  BY InvParts, TopType DEF CleanValues
<1>2. /\ r \in Values /\ r \in Int
      /\ r < 0 /\ r # TASK_STATUS_INTERRUPTED => r \notin CleanValues
      /\ r >= 0 => r \in CleanValues /\ r # TASK_STATUS_INTERRUPTED
  BY StatusTypes DEF Given, Values, CleanValues
<1>3. CASE r = TASK_STATUS_INTERRUPTED /\ Interrupt(IF Top.at = "body" THEN r ELSE Top.loop_ret)
  <2>1. (IF Top.at = "body" THEN r ELSE Top.loop_ret) \in CleanValues
    BY <1>1, <1>3 DEF CleanValues
  <2> QED BY <1>3, <2>1, InterruptInv
<1>4. CASE r < 0 /\ r # TASK_STATUS_INTERRUPTED /\ Return(Pop, r) /\ UNCHANGED frames
  <2>1. ~clean
    BY <1>2, <1>4 DEF Given
  <2>2. Top.type \notin {"line", "function"}
    BY LoopsAreNoFunctions
  <2> QED BY <1>4, <2>1, <2>2, ReturnPopInv
<1>5. ASSUME r >= 0 PROVE ~Returning
  <2>1. goal.kind = "none"
    BY <1>2, <1>5 DEF Given
  <2> QED BY <2>1 DEF Returning
<1>6. CASE r >= 0 /\ Run(WithTop([List("head") EXCEPT !.loop_ret = r])) /\ UNCHANGED frames
  BY <1>2, <1>5, <1>6, ListGoes, RunTopInv
<1>7. CASE r >= 0 /\ LeaveLoop(Top.loop_ret, NoGoal)
  BY <1>1, <1>5, <1>7, LeaveLoopInv
<1>8. CASE r >= 0 /\ Run(WithTop(List("body"))) /\ UNCHANGED frames
  BY <1>5, <1>8, ListGoes, RunTopInv
<1> QED
  BY <1>3, <1>4, <1>6, <1>7, <1>8 DEF LoopGets

\* A node that is neither a loop nor a function begins.
LEMMA PushNodeInv ==
    ASSUME Inv, stack # <<>>, NEW s \in Seq(Node), SameNodes(s, stack), Placed(s),
           NEW type \in {"brace", "if", "and", "or", "bang"},
           Run(Append(s, NewNode(type, 0))), UNCHANGED frames, Rest, clean' => ~Returning
    PROVE  Inv'
<1> DEFINE node == NewNode(type, 0)
<1>1. type \in Commands \cup {"line", "and", "or", "bang"} /\ type \notin Loops /\ 0 \in Int
  BY DEF Commands, Loops
<1>2. node \in Node /\ node.type = type /\ InPlace(node)
  BY <1>1, NewNodeType
<1> HIDE DEF node
<1>3. stack' = Pushed(s, node) /\ pc' = "run" /\ goal' = NoGoal /\ ret' = 0
  BY DEF Run, Pushed, node
<1>4. Placed(<<node>>)
  BY <1>1, <1>2 DEF Placed
<1>5. node.type # "line" /\ node.type \notin Loops \cup {"function"}
  BY <1>1, <1>2
<1>6. Scalars
  <2>1. ret' \in Values /\ ret' \in CleanValues
    BY <1>3, StatusTypes DEF Values, CleanValues
  <2> QED BY <2>1, RestScalars
<1>7. frames \in Seq(FrameRecord) /\ frames # <<>>
  BY InvParts
<1>8. frames' \in Seq(FrameRecord) /\ frames' # <<>>
  BY <1>7
<1> QED
  BY <1>2, <1>3, <1>4, <1>5, <1>6, <1>8, PushedInv

LEMMA IfGetsInv ==
    ASSUME Inv, stack # <<>>, Top.type = "if", Rest, NEW r, Given(r), IfGets(r)
    PROVE  Inv'
<1>1. Top.type \notin {"line", "function"} /\ Top.type \notin Loops
  BY DEF Loops
<1>2. r \in Int /\ TASK_STATUS_INTERRUPTED < 0
  BY StatusTypes DEF Given, Values
<1>3. ASSUME r >= 0 PROVE goal.kind = "none" /\ ~Returning
  <2>1. goal.kind = "none"
    BY <1>2, <1>3 DEF Given
  <2> QED BY <2>1 DEF Returning
<1>4. UNCHANGED frames
  BY DEF IfGets
<1>5. CASE Return(Pop, r)
  BY <1>1, <1>4, <1>5, ReturnPopInv
<1>6. CASE r = 0 /\ Run(WithTop(List("body")))
  <2>1. Goes(List("body"))
    BY ListGoes
  <2> QED BY <1>2, <1>3, <1>4, <1>6, <2>1, RunTopInv
<1>7. CASE r > 0 /\ Return(Pop, 0)
  <2>1. Given(0)
    BY <1>2, <1>3, <1>7, StatusTypes DEF Given, Values, CleanValues
  <2> QED BY <1>1, <1>4, <1>7, <2>1, ReturnPopInv
<1>8. CASE r > 0 /\ RunElse
  <2>1. Goes(List("else"))
    BY ListGoes
  <2> DEFINE s == WithTop(List("else"))
  <2>2. s \in Seq(Node) /\ SameNodes(s, stack) /\ Placed(s)
    BY <2>1, GoesOn
  <2>3. PICK type \in {"if", "brace"} : Run(Append(s, NewNode(type, 0)))
    BY <1>8 DEF RunElse
  <2> HIDE DEF s
  <2>4. ~Returning
    BY <1>2, <1>3, <1>8
  <2> QED BY <1>4, <2>2, <2>3, <2>4, PushNodeInv
<1> QED
  BY <1>5, <1>6, <1>7, <1>8 DEF IfGets

LEMMA FunctionGetsInv ==
    ASSUME Inv, stack # <<>>, Top.type = "function", Rest, NEW r, Given(r), FunctionGets(r)
    PROVE  Inv'
<1>1. /\ stack' = Pop /\ pc' = "return" /\ ret' = r /\ frames' = OuterFrames
      /\ goal' = IF r = TASK_STATUS_INTERRUPTED THEN goal ELSE NoGoal
  BY DEF FunctionGets, Return, OuterFrames
<1>2. Scalars
  BY <1>1, RestScalars DEF Given, Rest
<1>3. goal'.kind # "none" => ret' = TASK_STATUS_INTERRUPTED
  BY <1>1 DEF NoGoal
<1>4. goal' \in {goal, NoGoal}
  BY <1>1
<1> QED
  BY <1>1, <1>2, <1>3, <1>4, ReturnedInv

\* The line ends: its loops and functions have been left.
LEMMA LineInv ==
    ASSUME Inv, stack # <<>>, Top.type = "line", Rest,
           stack' = <<>>, pc' = "main", goal' = NoGoal, ret' = 0, UNCHANGED frames
    PROVE  Inv'
<1>1. stack \in Seq(Node) /\ NodesPlaced /\ frames \in Seq(FrameRecord) /\ frames # <<>> /\ Below(frames, frames)
  BY InvParts
<1>2. Len(stack) = 1 /\ DOMAIN stack = {1} /\ stack[1].type = "line"
  <2>1. DOMAIN stack = 1 .. Len(stack) /\ Len(stack) \in DOMAIN stack
    BY <1>1, TopType
  <2>2. Len(stack) = 1
    BY <1>1, <2>1 DEF NodesPlaced, Top
  <2> QED BY <2>1, <2>2 DEF Top
<1>3. Calls = {} /\ Calls' = {}
  BY <1>2 DEF Calls
<1>4. goal'.kind = "none" /\ goal'.depth = 0 /\ 0 \in Statuses /\ 0 \in Nat
  BY StatusTypes DEF NoGoal
<1>5. TypeOK'
  <2>1. /\ stack' \in Seq(Node)
        /\ frames' \in Seq([nloops : Int, branch_control : Branches]) /\ frames' # <<>>
    BY <1>1 DEF FrameRecord
  <2>2. /\ last_status' \in Statuses /\ exit' \in Statuses \cup {-1} /\ base' \in Int /\ clean' \in BOOLEAN
    BY DEF Rest, Inv, TypeOK
  <2> QED BY <1>4, <2>1, <2>2 DEF TypeOK
<1>6. Shape'
  BY <1>4 DEF Shape, NodesPlaced
<1>7. FramesMatchCalls'
  BY <1>3 DEF Inv, FramesMatchCalls
<1>8. ~Returning'
  BY <1>4 DEF Returning
<1>9. Aimed'
  BY <1>4, <1>8 DEF Aimed
<1>10. Counted'
  <2> SUFFICES ASSUME clean'
               PROVE  \E num, fr : /\ Numbering(stack', frames', base', num, fr)
                                   /\ Frame'.nloops = num[Len(stack')]
    BY <1>8 DEF Counted
  <2>1. clean /\ base' = base
    BY DEF Rest
  <2>2. ~Returning
    BY <1>2, <2>1 DEF Inv, Aimed, Returning
  <2>3. PICK num, fr : Numbering(stack, frames, base, num, fr) /\ Frame.nloops = num[Len(stack)]
    BY <2>1, <2>2 DEF Inv, Counted
  <2>4. stack' \in Seq(Node) /\ Shorter(stack', stack)
    BY <1>2 DEF Shorter
  <2>5. stack[Len(stack)].type # "function" /\ stack[Len(stack)].type \notin Loops
    BY <1>2, LoopsAreNoFunctions
  <2>6. ASSUME NEW t \in Seq(Node), Shorter(t, stack)
        PROVE  /\ Numbering(t, frames, base, Cut(num, Len(t)), Cut(fr, Len(t)))
               /\ Cut(num, Len(t))[Len(t)] = num[Len(stack)]
    <3>1. stack \in Seq(Node) /\ frames \in Seq(FrameRecord) /\ Below(frames, frames)
      BY <1>1
    <3>2. Numbering(stack, frames, base, num, fr)
      BY <2>3
    <3>3. /\ Numbering(t, frames, base, Cut(num, Len(t)), Cut(fr, Len(t)))
          /\ Cut(num, Len(t))[Len(t)] = num[Len(stack) - 1]
          /\ num[Len(stack)] = num[Len(stack) - 1]
      BY <2>5, <2>6, <3>1, <3>2, NumberingPopped
    <3> QED BY <3>3
  <2>7. \E nm, f : Numbering(stack', frames, base, nm, f) /\ nm[Len(stack')] = num[Len(stack)]
    BY <2>4, <2>6
  <2>8. Frame'.nloops = num[Len(stack)]
    BY <2>3 DEF Frame
  <2> QED BY <2>1, <2>7, <2>8
<1> QED
  BY <1>5, <1>6, <1>7, <1>9, <1>10 DEF Inv

LEMMA NodeGetsInv ==
    ASSUME Inv, stack # <<>>, Rest, NEW r, Given(r), NodeGets(r)
    PROVE  Inv'
<1>1. CASE Top.type = "line"
  <2>1. stack' = <<>> /\ pc' = "main" /\ goal' = NoGoal /\ ret' = 0 /\ UNCHANGED frames
    BY <1>1, LoopsAreNoFunctions DEF NodeGets
  <2> QED BY <1>1, <2>1, LineInv
<1>2. CASE Top.type = "brace"
  <2>1. Return(Pop, r) /\ UNCHANGED frames /\ Top.type \notin Loops
    BY <1>2 DEF NodeGets, Loops
  <2> QED BY <1>2, <2>1, ReturnPopInv
<1>3. CASE Top.type = "function" /\ FunctionGets(r)
  BY <1>3, FunctionGetsInv
<1>4. CASE Top.type = "if" /\ IfGets(r)
  BY <1>4, IfGetsInv
<1>5. CASE Top.type \in Loops /\ LoopGets(r)
  BY <1>5, LoopGetsInv
<1> QED
  BY <1>1, <1>2, <1>3, <1>4, <1>5 DEF NodeGets

-----------------------------------------------------------------------------
(* The steps that return *)

\* What the node on top gets from the command it has run.
LEMMA ReturnedIsGiven ==
    ASSUME Inv
    PROVE  Given(ret)
<1>1. ret \in Values
  BY DEF Inv, TypeOK, Values
<1>2. clean => ret \in CleanValues
  BY DEF Inv, Aimed, CleanValues
<1> QED
  BY <1>1, <1>2, InvParts DEF Given

LEMMA RestUnchanged ==
    ASSUME Inv, UNCHANGED <<last_status, exit, base>>, clean' \in BOOLEAN, clean' => clean
    PROVE  Rest
  BY DEF Inv, TypeOK, Rest

\* The rest of the state when the history stays as it is.
LEMMA RestKept ==
    ASSUME Inv, UNCHANGED <<last_status, exit, base, clean>>
    PROVE  Rest
<1>1. clean' \in BOOLEAN /\ (clean' => clean)
  BY DEF Inv, TypeOK
<1> QED
  BY <1>1, RestUnchanged

LEMMA ListElementReturnsInv ==
    ASSUME Inv, ListElementReturns
    PROVE  Inv'
<1>1. /\ pc = "return" /\ stack # <<>> /\ InList
      /\ UNCHANGED <<exit, base, clean>>
  BY DEF ListElementReturns
<1>2. stack \in Seq(Node) /\ Placed(stack) /\ Given(ret)
  BY InvParts, ReturnedIsGiven
<1>3. ret \in Int /\ (ret >= 0 <=> ret \in Statuses) /\ (ret = TASK_STATUS_INTERRUPTED => ret < 0)
  BY <1>2, StatusTypes DEF Given, Values
<1>4. CASE ret < 0
  <2>1. NodeGets(ret) /\ UNCHANGED last_status
    BY <1>4 DEF ListElementReturns
  <2>2. Rest
    BY <1>1, <2>1, RestKept
  <2> QED BY <1>1, <1>2, <2>1, <2>2, NodeGetsInv
<1>5. CASE ~(ret < 0)
  <2> DEFINE node == [Top EXCEPT !.lret = ret]
  <2>1. last_status' = ret /\ Run(WithTop(node)) /\ UNCHANGED frames
    BY <1>5 DEF ListElementReturns
  <2>2. ret \in Statuses
    BY <1>3, <1>5
  <2>3. Rest
    BY <1>1, <2>1, <2>2 DEF Inv, TypeOK, Rest
  <2>4. Top \in Node /\ InPlace(Top)
    BY <1>1, <1>2, TopType DEF Placed, Top
  <2>5. /\ node \in Node /\ node.type = Top.type /\ node.loop_num = Top.loop_num /\ node.at = Top.at
    BY <2>2, <2>4 DEF Node
  <2> HIDE DEF node
  <2>6. Goes(node)
    BY <2>4, <2>5 DEF Goes, InPlace
  <2>7. ~Returning
    BY <1>2, <1>3, <1>5, InvParts DEF Given
  <2> QED BY <1>1, <2>1, <2>3, <2>6, <2>7, RunTopInv
<1> QED
  BY <1>4, <1>5

LEMMA ListEndsInv ==
    ASSUME Inv, ListEnds
    PROVE  Inv'
<1>1. pc = "run" /\ NodeGets(Top.lret) /\ UNCHANGED <<last_status, exit, base, clean>>
  BY DEF ListEnds
<1>2. stack \in Seq(Node) /\ stack # <<>> /\ goal.kind = "none"
  BY <1>1, InvParts
<1>3. Top.lret \in Statuses
  BY <1>2, TopType
<1>4. Given(Top.lret)
  BY <1>2, <1>3 DEF Given, Values, CleanValues
<1>5. Rest
  BY <1>1, RestKept
<1> QED
  BY <1>1, <1>2, <1>4, <1>5, NodeGetsInv

LEMMA OperandReturnsInv ==
    ASSUME Inv, OperandReturns
    PROVE  Inv'
<1>1. /\ pc = "return" /\ stack # <<>> /\ Top.type \in {"and", "or"} /\ UNCHANGED <<frames, last_status, exit, base>>
      /\ clean' = (clean /\ ~(LeftOfOr /\ ret < 0))
  BY DEF OperandReturns
<1>2. stack \in Seq(Node) /\ Given(ret) /\ Given(ret) /\ Top.type \notin {"line", "function"} \cup Loops
  BY <1>1, InvParts, ReturnedIsGiven DEF Loops
<1>3. Rest
  <2>1. clean' \in BOOLEAN /\ (clean' => clean)
    BY <1>1
  <2> QED BY <1>1, <2>1, RestUnchanged
<1>4. CASE Return(Pop, ret)
  BY <1>1, <1>2, <1>3, <1>4, ReturnPopInv
<1>5. CASE ret = 0 /\ Return(Pop, 0)
  BY <1>1, <1>2, <1>3, <1>5, ReturnPopInv
<1>6. CASE Top.at = "left" /\ (Top.type = "and") = (ret = 0) /\ Run(WithTop([Top EXCEPT !.at = "right"]))
  <2> DEFINE node == [Top EXCEPT !.at = "right"]
  <2>1. Top \in Node
    BY <1>1, <1>2, TopType
  <2>2. node \in Node /\ node.type = Top.type /\ node.loop_num = Top.loop_num /\ node.at = "right"
    BY <2>1 DEF Node
  <2> HIDE DEF node
  <2>3. Goes(node)
    BY <1>1, <1>2, <2>2 DEF Goes, InPlace
  <2>4. clean' => ~Returning
    <3> SUFFICES ASSUME clean', Returning PROVE FALSE
      OBVIOUS
    <3>1. ret = TASK_STATUS_INTERRUPTED
      BY <1>2, InvParts DEF Given
    <3>2. ret < 0 /\ ret # 0
      BY <3>1, StatusTypes
    <3>3. Top.type = "or"
      BY <1>1, <1>6, <3>2
    <3> QED BY <1>1, <1>6, <3>2, <3>3 DEF LeftOfOr
  <2>5. Run(WithTop(node))
    BY <1>6 DEF node
  <2> QED BY <1>1, <1>3, <2>3, <2>4, <2>5, RunTopInv
<1> QED
  BY <1>4, <1>5, <1>6 DEF OperandReturns

LEMMA BangReturnsInv ==
    ASSUME Inv, BangReturns
    PROVE  Inv'
<1> DEFINE r == IF ret < 0 THEN ret ELSE IF ret = 0 THEN 1 ELSE 0
<1>1. /\ pc = "return" /\ stack # <<>> /\ Top.type = "bang" /\ Return(Pop, r)
      /\ UNCHANGED <<frames, last_status, exit, base, clean>>
  BY DEF BangReturns
<1>2. Given(ret) /\ TASK_STATUS_INTERRUPTED < 0 /\ 0 \in Statuses /\ 1 \in Statuses
  BY ReturnedIsGiven, StatusTypes
<1>3. Given(r)
  BY <1>2 DEF Given, Values, CleanValues
<1> HIDE DEF r
<1>4. Top.type \notin {"line", "function"} \cup Loops
  BY <1>1 DEF Loops
<1>5. Rest
  BY <1>1, RestKept
<1> QED
  BY <1>1, <1>3, <1>4, <1>5, ReturnPopInv

LEMMA ElseReturnsInv ==
    ASSUME Inv, ElseReturns
    PROVE  Inv'
<1>1. /\ stack # <<>> /\ Top.at = "else" /\ Return(Pop, ret)
      /\ UNCHANGED <<frames, last_status, exit, base, clean>>
  BY DEF ElseReturns
<1>2. Top.type = "if"
  <2>1. stack \in Seq(Node) /\ Placed(stack)
    BY InvParts
  <2> QED BY <1>1, <2>1, TopType DEF Placed, InPlace, Top
<1>3. Top.type \notin {"line", "function"} \cup Loops
  BY <1>2 DEF Loops
<1>4. Rest /\ Given(ret)
  BY <1>1, RestKept, ReturnedIsGiven
<1> QED
  BY <1>1, <1>3, <1>4, ReturnPopInv

LEMMA LoopHeadInv ==
    ASSUME Inv, LoopHead
    PROVE  Inv'
<1>1. pc = "run" /\ Top.at = "head" /\ UNCHANGED <<last_status, exit, base, clean>>
  BY DEF LoopHead
<1>2. /\ stack \in Seq(Node) /\ stack # <<>> /\ Placed(stack) /\ goal.kind = "none"
  BY <1>1, InvParts
<1>3. ~Returning
  BY <1>2 DEF Returning
<1>4. Top.type \in Loops /\ Top.loop_ret \in CleanValues
  BY <1>1, <1>2, TopType DEF Placed, InPlace, Top, CleanValues
<1>5. Rest
  BY <1>1, RestKept
<1>6. CASE LeaveLoop(Top.loop_ret, NoGoal)
  BY <1>2, <1>3, <1>4, <1>5, <1>6, LeaveLoopInv
<1>7. CASE Run(WithTop(List(IF Top.type = "for" THEN "body" ELSE "condition"))) /\ UNCHANGED frames
  <2> DEFINE place == IF Top.type = "for" THEN "body" ELSE "condition"
  <2>1. place \in {"condition", "body"}
    OBVIOUS
  <2> HIDE DEF place
  <2>2. Goes(List(place))
    BY <1>2, <1>4, <2>1, ListGoes
  <2>3. Run(WithTop(List(place))) /\ UNCHANGED frames
    BY <1>7 DEF place
  <2> QED BY <1>2, <1>3, <1>5, <2>2, <2>3, RunTopInv
<1> QED
  BY <1>6, <1>7 DEF LoopHead

-----------------------------------------------------------------------------
(* The steps that begin a command *)

LEMMA ReadyFacts ==
    ASSUME Inv, Ready
    PROVE  /\ stack \in Seq(Node) /\ stack # <<>> /\ goal.kind = "none" /\ ~Returning
           /\ Taken \in Seq(Node) /\ SameNodes(Taken, stack) /\ Placed(Taken)
<1>1. /\ stack \in Seq(Node) /\ stack # <<>> /\ goal.kind = "none" /\ NodesPlaced /\ ~Returning
  BY InvParts DEF Ready
<1>2. /\ Taken \in Seq(Node) /\ SameNodes(Taken, stack)
      /\ \A k \in DOMAIN stack : Taken[k].at = stack[k].at
  BY <1>1, TakenType
<1>3. DOMAIN Taken = DOMAIN stack /\ \A k \in DOMAIN stack : Taken[k].type = stack[k].type
  BY <1>1, <1>2 DEF SameNodes
<1>4. Placed(Taken)
  BY <1>1, <1>2, <1>3 DEF Placed, NodesPlaced, InPlace
<1> QED
  BY <1>1, <1>2, <1>4

\* A command returns without having changed the nodes or nloops.
LEMMA ReturnTakenInv ==
    ASSUME Inv, Ready, NEW r \in Values, r # TASK_STATUS_INTERRUPTED, clean' => r \in CleanValues,
           Return(Taken, r), UNCHANGED frames, Rest
    PROVE  Inv'
<1>1. stack' = Taken /\ pc' = "return" /\ ret' = r /\ goal' = NoGoal
  BY DEF Return
<1>2. /\ stack # <<>> /\ ~Returning
      /\ stack' \in Seq(Node) /\ SameNodes(stack', stack) /\ Placed(stack')
  BY <1>1, ReadyFacts
<1>3. Scalars
  BY <1>1, RestScalars
<1>4. /\ frames' \in Seq(FrameRecord) /\ frames' # <<>> /\ Below(frames, frames') /\ frames'[Len(frames)] = Frame
  BY InvParts
<1> QED
  BY <1>1, <1>2, <1>3, <1>4, KeptInv

LEMMA RunSimpleInv ==
    ASSUME Inv, NEW r \in Statuses \cup Faults, RunSimple(r)
    PROVE  Inv'
<1>1. Ready /\ Return(Taken, r) /\ clean' = (clean /\ r >= 0) /\ UNCHANGED <<frames, last_status, exit, base>>
  BY DEF RunSimple
<1>2. r \in Values /\ r # TASK_STATUS_INTERRUPTED /\ (r >= 0 => r \in CleanValues)
  BY StatusTypes DEF Values, CleanValues
<1>3. clean' \in BOOLEAN /\ (clean' => clean) /\ (clean' => r \in CleanValues)
  BY <1>1, <1>2
<1>4. Rest
  BY <1>1, <1>3, RestUnchanged
<1> QED
  BY <1>1, <1>2, <1>3, <1>4, ReturnTakenInv

LEMMA DotFailsInv ==
    ASSUME Inv, DotFails
    PROVE  Inv'
<1>1. Ready /\ exit' = 1 /\ Return(Taken, 1) /\ UNCHANGED <<frames, last_status, base, clean>>
  BY DEF DotFails
<1>2. 1 \in Statuses /\ 1 \in Values /\ 1 \in CleanValues /\ 1 # TASK_STATUS_INTERRUPTED
  BY StatusTypes DEF Values, CleanValues
<1>3. Rest
  BY <1>1, <1>2 DEF Inv, TypeOK, Rest
<1> QED
  BY <1>1, <1>2, <1>3, ReturnTakenInv

LEMMA StartNodeInv ==
    ASSUME Inv, NEW type \in Nodes, StartNode(type)
    PROVE  Inv'
<1>1. /\ Ready /\ type \notin Loops /\ type # "function" /\ Run(Append(Taken, NewNode(type, 0)))
      /\ UNCHANGED <<frames, last_status, exit, base, clean>>
  BY DEF StartNode
<1>2. type \in {"brace", "if", "and", "or", "bang"}
  BY <1>1, TasksAssumption DEF Commands
<1>3. Rest
  BY <1>1, RestKept
<1> QED
  BY <1>1, <1>2, <1>3, ReadyFacts, PushNodeInv

LEMMA StartLoopInv ==
    ASSUME Inv, NEW type \in Nodes, StartLoop(type)
    PROVE  Inv'
<1> DEFINE f == [Frame EXCEPT !.nloops = @ + 1]
           node == NewNode(type, Frame.nloops + 1)
<1>1. /\ Ready /\ type \in Loops /\ frames' = WithFrame(f) /\ Run(Append(Taken, node))
      /\ UNCHANGED <<last_status, exit, base, clean>>
  BY DEF StartLoop
<1>2. Frame \in FrameRecord /\ Frame.nloops \in Int
  BY FrameType DEF Inv
<1>3. f \in FrameRecord /\ f.nloops = Frame.nloops + 1
  BY <1>2 DEF FrameRecord
<1>4. type \in Commands \cup {"line", "and", "or", "bang"} /\ Frame.nloops + 1 \in Int
  BY <1>1, <1>2 DEF Commands
<1>5. node \in Node /\ node.type = type /\ node.loop_num = Frame.nloops + 1 /\ InPlace(node)
  BY <1>4, NewNodeType
<1> HIDE DEF f, node
<1>6. /\ frames' \in Seq(FrameRecord) /\ frames' # <<>> /\ Below(frames, frames')
      /\ frames'[Len(frames)].nloops = Frame.nloops + 1
  BY <1>1, <1>3, WithFrameIs DEF Inv
<1>7. stack' = Pushed(Taken, node) /\ pc' = "run" /\ goal' = NoGoal /\ ret' = 0
  BY <1>1 DEF Run, Pushed
<1>8. Scalars
  <2>1. ret' \in Values /\ ret' \in CleanValues
    BY <1>7, StatusTypes DEF Values, CleanValues
  <2> QED BY <1>1, <2>1, RestKept, RestScalars
<1>9. Placed(<<node>>)
  BY <1>5 DEF Placed
<1>10. node.type # "line" /\ node.type # "function" /\ node.type \in Loops
  BY <1>1, <1>5, LoopsAreNoFunctions
<1>11. stack # <<>> /\ ~Returning /\ Taken \in Seq(Node) /\ SameNodes(Taken, stack) /\ Placed(Taken)
  BY <1>1, ReadyFacts
<1> QED
  BY <1>5, <1>6, <1>7, <1>8, <1>9, <1>10, <1>11, PushedInv

LEMMA ForFailsInv ==
    ASSUME Inv, NEW r \in Faults, ForFails(r)
    PROVE  Inv'
<1> DEFINE f == [Frame EXCEPT !.nloops = @ + 1]
<1>1. /\ Ready /\ frames' = WithFrame(f) /\ Return(Taken, r) /\ clean' = FALSE
      /\ UNCHANGED <<last_status, exit, base>>
  BY DEF ForFails
<1>2. Frame \in FrameRecord
  BY FrameType DEF Inv
<1>3. f \in FrameRecord
  BY <1>2 DEF FrameRecord
<1> HIDE DEF f
<1>4. frames' \in Seq(FrameRecord) /\ frames' # <<>> /\ Below(frames, frames')
  BY <1>1, <1>3, WithFrameIs DEF Inv
<1>5. r \in Values /\ r # TASK_STATUS_INTERRUPTED
  BY StatusTypes DEF Values
<1>6. stack' = Taken /\ pc' = "return" /\ ret' = r /\ goal' = NoGoal
  BY <1>1, <1>5 DEF Return
<1>7. Rest
  BY <1>1, RestUnchanged
<1>8. Scalars
  BY <1>1, <1>5, <1>6, <1>7, RestScalars
<1>9. stack # <<>> /\ stack' \in Seq(Node) /\ SameNodes(stack', stack) /\ Placed(stack')
  BY <1>1, <1>6, ReadyFacts
<1> QED
  BY <1>1, <1>4, <1>6, <1>8, <1>9, KeptInv

LEMMA CallFunctionInv ==
    ASSUME Inv, CallFunction
    PROVE  Inv'
<1> DEFINE f == [nloops |-> 0, branch_control |-> "BREAK"]
           node == NewNode("function", 0)
<1>1. /\ Ready /\ frames' = Append(frames, f) /\ Run(Append(Taken, node))
      /\ UNCHANGED <<last_status, exit, base, clean>>
  BY DEF CallFunction
<1>2. f \in FrameRecord /\ f.nloops = 0
  BY DEF FrameRecord, Branches
<1>3. "function" \in Commands \cup {"line", "and", "or", "bang"} /\ 0 \in Int
  BY DEF Commands
<1>4. node \in Node /\ node.type = "function" /\ InPlace(node)
  BY <1>3, NewNodeType
<1> HIDE DEF f, node
<1>5. frames \in Seq(FrameRecord) /\ Len(frames) \in Nat
  BY InvParts
<1>6. /\ frames' \in Seq(FrameRecord) /\ frames' # <<>> /\ Shorter(frames, frames')
      /\ frames'[Len(frames')].nloops = 0
  <2>1. /\ frames' \in Seq(FrameRecord) /\ Len(frames') = Len(frames) + 1
        /\ \A k \in 1 .. Len(frames) : frames'[k] = frames[k]
        /\ frames'[Len(frames) + 1] = f
    BY <1>1, <1>2, <1>5, AppendProperties
  <2> QED BY <1>2, <1>5, <2>1 DEF Shorter
<1>7. stack' = Pushed(Taken, node) /\ pc' = "run" /\ goal' = NoGoal /\ ret' = 0
  BY <1>1 DEF Run, Pushed
<1>8. Scalars
  <2>1. ret' \in Values /\ ret' \in CleanValues
    BY <1>7, StatusTypes DEF Values, CleanValues
  <2> QED BY <1>1, <2>1, RestKept, RestScalars
<1>9. Placed(<<node>>)
  BY <1>4 DEF Placed
<1>10. node.type # "line" /\ node.type \notin Loops
  BY <1>4, LoopsAreNoFunctions
<1>11. stack # <<>> /\ ~Returning /\ Taken \in Seq(Node) /\ SameNodes(Taken, stack) /\ Placed(Taken)
  BY <1>1, ReadyFacts
<1> QED
  BY <1>4, <1>6, <1>7, <1>8, <1>9, <1>10, <1>11, PushedInv

\* In a clean line the frame of a loop has entered at least one loop.
LEMMA LoopsEntered ==
    ASSUME Inv, clean, ~Returning, LoopsInFrame # {}
    PROVE  Frame.nloops >= 1
<1>1. stack \in Seq(Node)
  BY InvParts
<1>2. PICK k \in LoopsInFrame : TRUE
  OBVIOUS
<1>3. k \in DOMAIN stack /\ stack[k].type \in Loops /\ \A c \in Calls : c < k
  BY DEF LoopsInFrame
<1>4. PICK num, fr : Numbering(stack, frames, base, num, fr) /\ Frame.nloops = num[Len(stack)]
  BY DEF Inv, Counted
<1>5. DOMAIN stack = 1 .. Len(stack) /\ Len(stack) \in Nat
  BY <1>1
<1>6. /\ k \in 1 .. Len(stack) /\ k \in 0 .. Len(stack) /\ k - 1 \in 0 .. Len(stack)
      /\ Len(stack) \in 0 .. Len(stack) /\ k <= Len(stack) /\ k \in Nat
  BY <1>3, <1>5
<1>7. num \in [0 .. Len(stack) -> Nat]
  BY <1>4 DEF Numbering
<1>8. num[k] = num[k - 1] + 1
  BY <1>3, <1>4, <1>6 DEF Numbering, Numbered
<1>9. ~CallBetween(stack, k, Len(stack))
  <2> SUFFICES ASSUME NEW c \in 1 .. Len(stack), c > k, stack[c].type = "function" PROVE FALSE
    BY DEF CallBetween
  <2>1. c \in Calls
    BY <1>5 DEF Calls
  <2> QED BY <1>3, <1>6, <2>1
<1>10. num[k] <= num[Len(stack)]
  BY <1>4, <1>6, <1>9 DEF Numbering
<1>11. num[k - 1] \in Nat /\ num[Len(stack)] \in Nat
  BY <1>6, <1>7
<1> QED
  BY <1>4, <1>8, <1>10, <1>11

LEMMA BreakInv ==
    ASSUME Inv, NEW branch \in {"BREAK", "CONTINUE"}, NEW count \in Counts, builtin_break(branch, count)
    PROVE  Inv'
<1> DEFINE n == IF count > Frame.nloops THEN Frame.nloops ELSE count
           f == [nloops |-> Frame.nloops - (n - 1), branch_control |-> branch]
<1>1. /\ Ready /\ frames' = WithFrame(f)
      /\ stack' = Taken /\ pc' = "return" /\ ret' = TASK_STATUS_INTERRUPTED
      /\ goal' = IF LoopsInFrame = {} THEN NoGoal
                 ELSE [kind |-> branch, depth |-> Target(count)]
      /\ clean' = (clean /\ count = 1 /\ LoopsInFrame # {})
      /\ UNCHANGED <<last_status, exit, base>>
  BY DEF builtin_break
<1>2. Frame.nloops \in Int /\ count \in Nat
  BY FrameType, TasksAssumption DEF Inv
<1>3. f \in FrameRecord /\ f.nloops = Frame.nloops - (n - 1) /\ f.branch_control = branch
  BY <1>2 DEF FrameRecord, Branches
<1>4. count = 1 /\ Frame.nloops >= 1 => f.nloops = Frame.nloops
  BY <1>2
<1> HIDE DEF f, n
<1>5. /\ frames' \in Seq(FrameRecord) /\ frames' # <<>> /\ Below(frames, frames')
      /\ frames'[Len(frames)] = f
  BY <1>1, <1>3, WithFrameIs DEF Inv
<1>6. /\ stack \in Seq(Node) /\ stack # <<>> /\ ~Returning
      /\ stack' \in Seq(Node) /\ SameNodes(stack', stack) /\ Placed(stack')
  BY <1>1, ReadyFacts
<1>7. Scalars
  <2>1. clean' \in BOOLEAN /\ (clean' => clean)
    BY <1>1
  <2>2. ret' \in Values /\ ret' \in CleanValues
    BY <1>1 DEF Values, CleanValues
  <2> QED BY <1>1, <2>1, <2>2, RestUnchanged, RestScalars
<1>8. goal'.kind \in Branches \cup {"none"} /\ goal'.depth \in Nat /\ goal'.kind # "RETURN"
  <2>1. LoopsInFrame # {} => Target(count) \in Nat
    BY <1>2, <1>6, TargetIs
  <2> QED BY <1>1, <2>1 DEF NoGoal, Branches
<1>9. ASSUME clean'
      PROVE  /\ frames'[Len(frames)].nloops = Frame.nloops
             /\ goal'.depth \in LoopsInFrame /\ (\A j \in LoopsInFrame : j <= goal'.depth)
             /\ frames'[Len(frames)].branch_control = goal'.kind
  <2>1. clean /\ count = 1 /\ LoopsInFrame # {}
    BY <1>1, <1>9
  <2>2. Frame.nloops >= 1
    BY <1>6, <2>1, LoopsEntered
  <2>3. goal'.kind = branch /\ goal'.depth = Target(count)
    BY <1>1, <2>1
  <2>4. Target(count) \in LoopsInFrame /\ \A j \in LoopsInFrame : j <= Target(count)
    BY <1>2, <1>6, <2>1, TargetIs
  <2> QED BY <1>3, <1>4, <1>5, <2>1, <2>2, <2>3, <2>4
<1> QED
  BY <1>1, <1>5, <1>6, <1>7, <1>8, <1>9, InterruptedInv

LEMMA ReturnInv ==
    ASSUME Inv, NEW status \in Statuses, builtin_return(status)
    PROVE  Inv'
<1> DEFINE f == [nloops |-> 0, branch_control |-> "RETURN"]
<1>1. /\ Ready /\ frames' = WithFrame(f) /\ last_status' = status
      /\ stack' = Taken /\ pc' = "return" /\ ret' = TASK_STATUS_INTERRUPTED
      /\ goal' = IF Calls = {} THEN NoGoal ELSE [kind |-> "RETURN", depth |-> Max(Calls)]
      /\ clean' = (clean /\ Calls # {})
      /\ UNCHANGED <<exit, base>>
  BY DEF builtin_return
<1>2. f \in FrameRecord /\ f.nloops = 0
  BY DEF FrameRecord, Branches
<1> HIDE DEF f
<1>3. /\ frames' \in Seq(FrameRecord) /\ frames' # <<>> /\ Below(frames, frames')
      /\ frames'[Len(frames)] = f
  BY <1>1, <1>2, WithFrameIs DEF Inv
<1>4. /\ stack \in Seq(Node) /\ stack # <<>> /\ ~Returning
      /\ stack' \in Seq(Node) /\ SameNodes(stack', stack) /\ Placed(stack')
  BY <1>1, ReadyFacts
<1>5. Scalars
  <2>1. Rest
    BY <1>1 DEF Inv, TypeOK, Rest
  <2>2. ret' \in Values /\ ret' \in CleanValues
    BY <1>1 DEF Values, CleanValues
  <2> QED BY <2>1, <2>2, RestScalars
<1>6. ASSUME Calls # {} PROVE Max(Calls) \in Calls /\ Max(Calls) \in Nat /\ \A c \in Calls : c <= Max(Calls)
  <2>1. Calls \subseteq 1 .. Len(stack) /\ Len(stack) \in Nat /\ Calls \subseteq Nat
    BY <1>4, CallsFinite
  <2>2. \E g \in Calls : \A m \in Calls : m <= g
    BY <1>6, <2>1, GreatestNatural
  <2>3. \E g \in Calls : \A m \in Calls : g >= m
    BY <2>1, <2>2
  <2>4. Max(Calls) \in Calls /\ \A m \in Calls : Max(Calls) >= m
    BY <2>3 DEF Max
  <2> QED BY <2>1, <2>4
<1>7. goal'.kind \in Branches \cup {"none"} /\ goal'.depth \in Nat /\ goal'.kind \notin {"BREAK", "CONTINUE"}
  BY <1>1, <1>6 DEF NoGoal, Branches
<1>8. ASSUME clean'
      PROVE  /\ goal'.kind = "RETURN" /\ goal'.depth \in Calls /\ (\A c \in Calls : c <= goal'.depth)
             /\ frames'[Len(frames)].nloops = 0
  BY <1>1, <1>2, <1>3, <1>6, <1>8
<1> QED
  BY <1>1, <1>3, <1>4, <1>5, <1>7, <1>8, InterruptedInv

LEMMA ExitInv ==
    ASSUME Inv, NEW status \in Statuses, builtin_exit(status)
    PROVE  Inv'
<1> DEFINE f == [Frame EXCEPT !.branch_control = "EXIT"]
<1>1. /\ Ready /\ frames' = WithFrame(f) /\ exit' = status
      /\ stack' = Taken /\ pc' = "return" /\ ret' = TASK_STATUS_INTERRUPTED /\ goal' = NoGoal
      /\ UNCHANGED <<last_status, base, clean>>
  BY DEF builtin_exit
<1>2. f \in FrameRecord /\ f.nloops = Frame.nloops
  BY FrameType DEF Inv, FrameRecord, Branches
<1> HIDE DEF f
<1>3. /\ frames' \in Seq(FrameRecord) /\ frames' # <<>> /\ Below(frames, frames')
      /\ frames'[Len(frames)] = f
  BY <1>1, <1>2, WithFrameIs DEF Inv
<1>4. /\ stack # <<>> /\ ~Returning
      /\ stack' \in Seq(Node) /\ SameNodes(stack', stack) /\ Placed(stack')
  BY <1>1, ReadyFacts
<1>5. Scalars
  <2>1. Rest
    BY <1>1 DEF Inv, TypeOK, Rest
  <2>2. ret' \in Values /\ ret' \in CleanValues
    BY <1>1 DEF Values, CleanValues
  <2> QED BY <2>1, <2>2, RestScalars
<1> QED
  BY <1>1, <1>2, <1>3, <1>4, <1>5, KeptInv

-----------------------------------------------------------------------------
(* main *)

\* A line begins with the nloops that the outermost frame has.
LEMMA ReadLineInv ==
    ASSUME Inv, ReadLine
    PROVE  Inv'
<1> DEFINE node == NewNode("line", 0)
<1>1. /\ pc = "main" /\ stack' = <<node>> /\ pc' = "run"
      /\ base' = Frame.nloops /\ clean' = (Frame.nloops >= 0)
      /\ UNCHANGED <<frames, ret, last_status, exit, goal>>
  BY DEF ReadLine
<1>2. node \in Node /\ node.type = "line" /\ InPlace(node)
  <2>1. "line" \in Commands \cup {"line", "and", "or", "bang"} /\ 0 \in Int
    OBVIOUS
  <2> QED BY <2>1, NewNodeType
<1> HIDE DEF node
<1>3. stack = <<>> /\ ret = 0 /\ goal.kind = "none"
  BY <1>1 DEF Inv, Shape
<1>4. Frame.nloops \in Int /\ 0 \in Statuses
  BY FrameType, StatusTypes DEF Inv
<1>5. /\ stack' \in Seq(Node) /\ Len(stack') = 1 /\ DOMAIN stack' = {1} /\ stack'[1] = node
  BY <1>1, <1>2
<1>6. TypeOK'
  BY <1>1, <1>4, <1>5 DEF Inv, TypeOK
<1>7. Shape'
  BY <1>1, <1>2, <1>3, <1>5 DEF Shape, NodesPlaced
<1>8. Calls = {} /\ Calls' = {}
  BY <1>2, <1>3, <1>5 DEF Calls
<1>9. FramesMatchCalls'
  BY <1>1, <1>8 DEF Inv, FramesMatchCalls
<1>10. ~Returning'
  BY <1>1, <1>3 DEF Returning
<1>11. Aimed'
  BY <1>1, <1>3, <1>4, <1>10 DEF Aimed
<1>12. Counted'
  <2> SUFFICES ASSUME clean'
               PROVE  \E num, fr : /\ Numbering(stack', frames', base', num, fr)
                                   /\ Frame'.nloops = num[Len(stack')]
    BY <1>10 DEF Counted
  <2> DEFINE b == Frame.nloops
             num == [k \in 0 .. 1 |-> b]
             fr == [k \in 0 .. 1 |-> 1]
  <2>1. b \in Nat
    <3>1. Frame.nloops >= 0
      BY <1>1, Zenon
    <3> QED BY <1>4, <3>1
  <2>2. Len(frames) = 1
    BY <1>8, FS_EmptySet DEF Inv, FramesMatchCalls
  <2> HIDE DEF b
  <2>3. /\ num \in [0 .. 1 -> Nat] /\ fr \in [0 .. 1 -> Nat]
        /\ num[0] = b /\ num[1] = b /\ fr[0] = 1 /\ fr[1] = 1
        /\ \A k \in 0 .. 1 : num[k] = b /\ fr[k] = 1
    BY <2>1
  <2> HIDE DEF num, fr
  <2>4. Numbered(stack', frames, num, fr, 1)
    BY <1>2, <1>5, <2>3, LoopsAreNoFunctions DEF Numbered
  <2>5. \A k \in 1 .. 1 : k = 1
    OBVIOUS
  <2>6. \A j, k \in 0 .. 1 : fr[j] <= fr[k] /\ fr[j] >= 1 /\ num[j] <= num[k]
    BY <2>1, <2>3
  <2>7. Numbering(stack', frames, b, num, fr)
    BY <1>5, <2>2, <2>3, <2>4, <2>5, <2>6 DEF Numbering
  <2>8. Frame'.nloops = b
    BY <1>1 DEF Frame, b
  <2> QED BY <1>1, <1>5, <2>3, <2>7, <2>8 DEF b
<1> QED
  BY <1>6, <1>7, <1>9, <1>11, <1>12 DEF Inv

\* Steps that leave the evaluation alone.
LEMMA StillInv ==
    ASSUME Inv, pc \in {"main", "over"}, pc' \in {"main", "over"}, exit' \in Statuses \cup {-1},
           UNCHANGED <<stack, frames, ret, last_status, goal, base, clean>>
    PROVE  Inv'
<1>1. stack = <<>> /\ ret = 0 /\ goal.kind = "none"
  BY DEF Inv, Shape
<1>2. TypeOK'
  BY DEF Inv, TypeOK
<1>3. Shape'
  BY <1>1 DEF Inv, Shape, NodesPlaced
<1>4. FramesMatchCalls'
  BY DEF Inv, FramesMatchCalls, Calls
<1>5. Returning' <=> Returning
  BY DEF Returning
<1>6. Aimed'
  BY <1>5 DEF Inv, Aimed, Frame
<1>7. Counted'
  BY <1>5 DEF Inv, Counted, Frame
<1> QED
  BY <1>2, <1>3, <1>4, <1>6, <1>7 DEF Inv

LEMMA MainInv ==
    ASSUME Inv, ReadEof \/ ParseFails \/ LeaveMain \/ Over
    PROVE  Inv'
<1>1. last_status \in Statuses /\ exit \in Statuses \cup {-1} /\ 1 \in Statuses
  BY StatusTypes DEF Inv, TypeOK
<1>2. CASE ReadEof
  BY <1>1, <1>2, StillInv DEF ReadEof
<1>3. CASE ParseFails
  BY <1>1, <1>3, StillInv DEF ParseFails
<1>4. CASE LeaveMain
  BY <1>1, <1>4, StillInv DEF LeaveMain
<1>5. CASE Over
  BY <1>1, <1>5, StillInv DEF Over, vars
<1> QED
  BY <1>2, <1>3, <1>4, <1>5

LEMMA InitInv == Init => Inv
<1> SUFFICES ASSUME Init PROVE Inv
  OBVIOUS
<1>1. /\ stack = <<>> /\ pc = "main" /\ ret = 0 /\ last_status = 0 /\ exit = -1
      /\ goal = NoGoal /\ base = 0 /\ clean = TRUE
      /\ frames = <<[nloops |-> 0, branch_control |-> "BREAK"]>>
  BY DEF Init
<1>2. goal.kind = "none" /\ goal.depth = 0 /\ 0 \in Statuses
  BY <1>1, StatusTypes DEF NoGoal
<1>3. frames \in Seq(FrameRecord) /\ Len(frames) = 1 /\ frames[1].nloops = 0
  BY <1>1 DEF FrameRecord, Branches
<1>4. TypeOK
  <2>1. frames \in Seq([nloops : Int, branch_control : Branches]) /\ frames # <<>>
    BY <1>3 DEF FrameRecord
  <2> QED BY <1>1, <1>2, <2>1 DEF TypeOK
<1>5. Shape
  BY <1>1, <1>2 DEF Shape, NodesPlaced
<1>6. FramesMatchCalls
  <2>1. Calls = {}
    BY <1>1 DEF Calls
  <2> QED BY <1>3, <2>1, FS_EmptySet DEF FramesMatchCalls
<1>7. ~Returning
  BY <1>2 DEF Returning
<1>8. Aimed
  BY <1>1, <1>2, <1>7 DEF Aimed
<1>9. Counted
  <2> DEFINE num == [k \in 0 .. 0 |-> 0]
             fr == [k \in 0 .. 0 |-> 1]
  <2>1. num \in [0 .. 0 -> Nat] /\ fr \in [0 .. 0 -> Nat] /\ \A k \in 0 .. 0 : num[k] = 0 /\ fr[k] = 1
    OBVIOUS
  <2> HIDE DEF num, fr
  <2>2. Len(stack) = 0 /\ 0 \in 0 .. 0 /\ Frame.nloops = 0
    BY <1>1, <1>3 DEF Frame
  <2>3. Numbering(stack, frames, base, num, fr)
    BY <1>1, <1>3, <2>1, <2>2 DEF Numbering
  <2> QED BY <1>7, <2>1, <2>2, <2>3 DEF Counted
<1> QED
  BY <1>4, <1>5, <1>6, <1>8, <1>9 DEF Inv

LEMMA NextInv == Inv /\ [Next]_vars => Inv'
<1> SUFFICES ASSUME Inv, [Next]_vars PROVE Inv'
  OBVIOUS
<1>1. CASE ReturnStep
  BY <1>1, ListElementReturnsInv, ListEndsInv, OperandReturnsInv, BangReturnsInv, ElseReturnsInv,
     LoopHeadInv DEF ReturnStep
<1>2. CASE StartStep
  BY <1>2, RunSimpleInv, StartNodeInv, StartLoopInv, ForFailsInv, CallFunctionInv, BreakInv,
     ReturnInv, ExitInv, DotFailsInv DEF StartStep
<1>3. CASE ReadLine
  BY <1>3, ReadLineInv
<1>4. CASE ReadEof \/ ParseFails \/ LeaveMain \/ Over
  BY <1>4, MainInv
<1>5. CASE UNCHANGED vars
  <2>1. /\ stack' = stack /\ frames' = frames /\ pc' = pc /\ ret' = ret /\ last_status' = last_status
        /\ exit' = exit /\ goal' = goal /\ base' = base /\ clean' = clean
    BY <1>5 DEF vars
  <2>2. TypeOK' /\ Shape' /\ FramesMatchCalls'
    <3>1. TypeOK'
      BY <2>1 DEF Inv, TypeOK
    <3>2. Shape'
      BY <2>1 DEF Inv, Shape, NodesPlaced
    <3>3. FramesMatchCalls'
      BY <2>1 DEF Inv, FramesMatchCalls, Calls
    <3> QED BY <3>1, <3>2, <3>3
  <2>3. Returning' <=> Returning
    BY <2>1 DEF Returning
  <2>4. Aimed' /\ Counted'
    BY <2>1, <2>3 DEF Inv, Aimed, Counted, Frame
  <2> QED BY <2>2, <2>4 DEF Inv
<1> QED
  BY <1>1, <1>2, <1>3, <1>4, <1>5 DEF Next

-----------------------------------------------------------------------------
(* The theorems *)

\* The invariant holds in every reachable state: shell/task keeps its stack of nodes and its
\* call frames in step, and in a clean line an interruption is aimed at a node that is there.
THEOREM InvHolds == Spec => []Inv
  BY InitInv, NextInv, PTL DEF Spec

\* Every variable has its type, for programs of every depth: $? (run_command_list_array) and
\* state->exit never take a negative TASK_STATUS.
THEOREM TypeHolds == Spec => []TypeOK
<1>1. Inv => TypeOK
  BY DEF Inv
<1> QED
  BY <1>1, InvHolds, PTL

\* push_frame and pop_frame of run_simple_command match, however a function is left.
THEOREM FramesMatch == Spec => []FramesMatchCalls
<1>1. Inv => FramesMatchCalls
  BY DEF Inv
<1> QED
  BY <1>1, InvHolds, PTL

\* A clean line gives back every number it has taken from nloops (run_loop_clause,
\* run_for_clause, break, continue and return), whatever its programs look like.
THEOREM LoopsGivenBack == Spec => []NloopsRestored
<1>1. Inv => NloopsRestored
  <2> SUFFICES ASSUME Inv, pc = "main", clean PROVE Frame.nloops = base
    BY DEF NloopsRestored
  <2>1. stack = <<>> /\ Len(stack) = 0
    BY DEF Inv, Shape
  <2>2. ~Returning
    BY <2>1 DEF Returning
  <2>3. PICK num, fr : Numbering(stack, frames, base, num, fr) /\ Frame.nloops = num[Len(stack)]
    BY <2>2 DEF Inv, Counted
  <2> QED BY <2>1, <2>3 DEF Numbering
<1> QED
  BY <1>1, InvHolds, PTL

\* A break or continue under way in a clean line stops at its own loop, and there at the label
\* interrupt of run_loop_clause or run_for_clause.
LEMMA StopsAtItsLoop ==
    ASSUME Inv, Next, goal.kind \in {"BREAK", "CONTINUE"}, clean, ~LeftOfOr, goal' = NoGoal
    PROVE  /\ Len(stack) = goal.depth /\ stack # <<>> /\ Top.type \in Loops /\ InList
           /\ Frame.nloops = Top.loop_num /\ Frame.nloops \in Int /\ Frame.branch_control = goal.kind
           /\ Interrupt(IF Top.at = "body" THEN ret ELSE Top.loop_ret)
<1>1. goal # NoGoal /\ goal.kind # "none" /\ ~Returning
  BY DEF NoGoal, Returning
<1>2. pc = "return" /\ ret = TASK_STATUS_INTERRUPTED /\ stack # <<>> /\ ret < 0 /\ ret # 0
  BY <1>1, InvParts, StatusTypes
<1>2a. ~(ret > 0) /\ ~(ret >= 0)
  BY <1>2, StatusTypes
<1>3. /\ goal.depth \in DOMAIN stack /\ stack[goal.depth].type \in Loops
      /\ \A k \in DOMAIN stack : k > goal.depth => stack[k].type \notin Loops \cup {"function"}
      /\ Frame.branch_control = goal.kind
  BY DEF Inv, Aimed
<1>4. ~Return(Pop, ret)
  BY <1>1, <1>2 DEF Return
<1>5. ReturnStep
  BY <1>2 DEF Next, StartStep, ReadLine, ReadEof, ParseFails, LeaveMain, Over, RunSimple, StartNode,
     StartLoop, ForFails, CallFunction, builtin_break, builtin_return, builtin_exit, DotFails, Ready
<1>6. ~OperandReturns
  <2> SUFFICES ASSUME OperandReturns PROVE FALSE
    OBVIOUS
  <2>1. Top.at = "left" /\ (Top.type = "and") = (ret = 0) /\ Top.type \in {"and", "or"}
    BY <1>2, <1>4 DEF OperandReturns
  <2> QED BY <1>2, <2>1 DEF LeftOfOr
<1>7. ListElementReturns
  BY <1>2, <1>4, <1>5, <1>6 DEF ReturnStep, ListEnds, BangReturns, ElseReturns, LoopHead
<1>8. InList /\ NodeGets(ret)
  BY <1>2, <1>7 DEF ListElementReturns
<1>9. DOMAIN stack = 1 .. Len(stack) /\ Len(stack) \in DOMAIN stack /\ Len(stack) \in Nat
  BY <1>2, InvParts, TopType
<1>10. Top.type # "line"
  <2> SUFFICES ASSUME Top.type = "line" PROVE FALSE
    OBVIOUS
  <2>1. Len(stack) = 1
    BY <1>9, InvParts DEF NodesPlaced, Top
  <2>2. goal.depth = Len(stack)
    BY <1>3, <1>9, <2>1
  <2> QED BY <1>3, <2>2, LoopsAreNoFunctions DEF Top
<1>11. Top.type \in Loops /\ LoopGets(ret)
  <2>1. ~IfGets(ret)
    BY <1>2, <1>4, <1>2a DEF IfGets
  <2>2. ~FunctionGets(ret)
    BY <1>4 DEF FunctionGets
  <2> QED BY <1>4, <1>8, <1>10, <2>1, <2>2 DEF NodeGets
<1>12. Len(stack) = goal.depth
  BY <1>3, <1>9, <1>11 DEF Top
<1>13. Interrupt(IF Top.at = "body" THEN ret ELSE Top.loop_ret)
  BY <1>2, <1>11, <1>2a DEF LoopGets
<1>14. Frame.nloops = Top.loop_num /\ Frame.nloops \in Int
  BY <1>1, <1>2, <1>11, LoopNumber, FrameType DEF Inv
<1> QED
  BY <1>2, <1>3, <1>8, <1>11, <1>12, <1>13, <1>14

\* In a clean line break leaves its own loop with status 0 and nothing else: nloops, loop_num
\* and branch_control take builtin_break to the innermost loop of its frame.
THEOREM BreakLeaves == Spec => BreakLeavesItsLoop
<1>1. Inv /\ [Next]_vars =>
        [goal.kind = "BREAK" /\ clean /\ ~LeftOfOr /\ goal' = NoGoal =>
            Len(stack) = goal.depth /\ stack' = Pop /\ ret' = 0]_vars
  <2> SUFFICES ASSUME Inv, Next, goal.kind = "BREAK", clean, ~LeftOfOr, goal' = NoGoal
               PROVE  Len(stack) = goal.depth /\ stack' = Pop /\ ret' = 0
    OBVIOUS
  <2>1. /\ Len(stack) = goal.depth
        /\ Frame.nloops = Top.loop_num /\ Frame.nloops \in Int /\ Frame.branch_control = "BREAK"
        /\ Interrupt(IF Top.at = "body" THEN ret ELSE Top.loop_ret)
    BY StopsAtItsLoop
  <2>2. ~(Frame.nloops < Top.loop_num)
    BY <2>1
  <2>3. LeaveLoop(0, NoGoal)
    BY <2>1, <2>2 DEF Interrupt
  <2> QED BY <2>1, <2>3 DEF LeaveLoop
<1> QED
  BY <1>1, InvHolds, PTL DEF Spec, BreakLeavesItsLoop

\* In a clean line continue in the body of a loop goes back to the test of that loop.
THEOREM ContinueRestarts == Spec => ContinueRestartsItsLoop
<1>1. Inv /\ [Next]_vars =>
        [goal.kind = "CONTINUE" /\ clean /\ ~LeftOfOr /\ Top.at # "condition" /\ goal' = NoGoal =>
            Len(stack) = goal.depth /\ stack' = WithTop([List("head") EXCEPT !.loop_ret = ret])]_vars
  <2> SUFFICES ASSUME Inv, Next, goal.kind = "CONTINUE", clean, ~LeftOfOr, Top.at # "condition",
                      goal' = NoGoal
               PROVE  Len(stack) = goal.depth /\ stack' = WithTop([List("head") EXCEPT !.loop_ret = ret])
    OBVIOUS
  <2>1. /\ Len(stack) = goal.depth /\ stack # <<>> /\ Top.type \in Loops /\ InList
        /\ Frame.nloops = Top.loop_num /\ Frame.nloops \in Int /\ Frame.branch_control = "CONTINUE"
        /\ Interrupt(IF Top.at = "body" THEN ret ELSE Top.loop_ret)
    BY StopsAtItsLoop
  <2>2. Top.at = "body"
    <3>1. InPlace(Top)
      BY <2>1, InvParts, TopType DEF Placed, Top
    <3> QED BY <2>1, <3>1 DEF InPlace, InList
  <2>3. ~(Frame.nloops < Top.loop_num)
    BY <2>1
  <2>4. Interrupt(ret)
    BY <2>1, <2>2
  <2>5. Run(WithTop([List("head") EXCEPT !.loop_ret = ret]))
    BY <2>1, <2>2, <2>3, <2>4 DEF Interrupt
  <2> QED BY <2>1, <2>5 DEF Run
<1> QED
  BY <1>1, InvHolds, PTL DEF Spec, ContinueRestartsItsLoop

\* A command that fails or is stopped ends every node around it up to the line, unless it is
\* the left operand of || (run_and_or_list): no clause takes TASK_STATUS_ERROR or
\* TASK_STATUS_STOPPED for a status.
THEOREM FaultsUnwind == Spec => FatalUnwinds
<1>1. [Next]_vars =>
        [pc = "return" /\ ret \in {TASK_STATUS_ERROR, TASK_STATUS_STOPPED} /\ ~LeftOfOr =>
            (pc' = "return" /\ ret' = ret) \/ pc' = "main"]_vars
  <2> SUFFICES ASSUME Next, pc = "return", ret \in {TASK_STATUS_ERROR, TASK_STATUS_STOPPED}, ~LeftOfOr
               PROVE  (pc' = "return" /\ ret' = ret) \/ pc' = "main"
    OBVIOUS
  <2>1. ret < 0 /\ ret # TASK_STATUS_INTERRUPTED /\ ret # 0 /\ ret \in Int
    BY StatusTypes
  <2>2. ReturnStep
    BY DEF Next, StartStep, ReadLine, ReadEof, ParseFails, LeaveMain, Over, RunSimple, StartNode,
       StartLoop, ForFails, CallFunction, builtin_break, builtin_return, builtin_exit, DotFails, Ready
  <2>3. CASE ListElementReturns
    <3>1. NodeGets(ret)
      BY <2>1, <2>3 DEF ListElementReturns
    <3>2. CASE Return(Pop, ret)
      BY <3>2 DEF Return
    <3>3. CASE pc' = "main"
      BY <3>3
    <3>4. LoopGets(ret) => Return(Pop, ret)
      BY <2>1 DEF LoopGets
    <3>5. IfGets(ret) => Return(Pop, ret)
      BY <2>1 DEF IfGets
    <3> QED BY <3>1, <3>2, <3>3, <3>4, <3>5 DEF NodeGets, FunctionGets
  <2>4. CASE OperandReturns
    <3>1. Return(Pop, ret)
      BY <2>1, <2>4 DEF OperandReturns, LeftOfOr
    <3> QED BY <3>1 DEF Return
  <2>5. CASE BangReturns
    BY <2>1, <2>5 DEF BangReturns, Return
  <2>6. CASE ElseReturns
    BY <2>6 DEF ElseReturns, Return
  <2> QED BY <2>2, <2>3, <2>4, <2>5, <2>6 DEF ReturnStep, ListEnds, LoopHead
<1> QED
  BY <1>1, PTL DEF Spec, FatalUnwinds
=============================================================================
