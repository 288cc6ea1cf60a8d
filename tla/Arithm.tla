------------------------------- MODULE Arithm -------------------------------
(***************************************************************************)
(* Arithmetic expansion: the parser of parser/arithm.c, a recursive        *)
(* descent over the characters of the expression, and the evaluation of    *)
(* the tree in shell/arithm.c.                                             *)
(*                                                                         *)
(* An evaluation returns the set of its outcomes, because the result of    *)
(* unary plus is never written (shell/arithm.c:112).                       *)
(***************************************************************************)
EXTENDS Integers, SequencesExt, Bitwise

CONSTANTS
    Bits,      \* the width of a long
    Mantissa,  \* the significant bits of a double
    Garbage    \* what an uninitialized long may hold

ASSUME ArithmAssumption ==
    /\ Bits \in 2 .. 16 /\ Mantissa \in 1 .. Bits
    /\ Garbage \subseteq (-(2 ^ (Bits - 1))) .. (2 ^ (Bits - 1) - 1)

LONG_MAX == 2 ^ (Bits - 1) - 1
LONG_MIN == -(2 ^ (Bits - 1))

DigitChars == <<"0", "1", "2", "3", "4", "5", "6", "7", "8", "9">>
IsDigit(c) == c \in Range(DigitChars)
IsNameChar(c) == c \in {"a", "b", "c", "i", "_"} \/ IsDigit(c)
IsSpace(c) == c \in {" ", "TAB", "NL"}

\* The number of leading elements of s with property P.
CountWhile(s, P(_)) == SelectInSeq(Append(s, "\\0"), LAMBDA c : c = "\\0" \/ ~P(c)) - 1

ToNumber(ds, base) == FoldLeft(LAMBDA n, d : n * base + (SelectInSeq(DigitChars, LAMBDA c : c = d) - 1), 0, ds)
\* snprintf with "%ld".
RECURSIVE ToText(_)
ToText(n) ==
    IF n < 0 THEN <<"-">> \o ToText(-n)
    ELSE (IF n < 10 THEN <<>> ELSE ToText(n \div 10)) \o <<DigitChars[(n % 10) + 1]>>

-----------------------------------------------------------------------------
(* The tree *)

mrsh_arithm_literal(value) == [type |-> "literal", value |-> value]
mrsh_arithm_variable(name) == [type |-> "variable", name |-> name]
mrsh_arithm_unop(op, body) == [type |-> "unop", op |-> op, body |-> body]
mrsh_arithm_binop(op, left, right) == [type |-> "binop", op |-> op, left |-> left, right |-> right]
mrsh_arithm_cond(condition, body, else_part) ==
    [type |-> "cond", condition |-> condition, body |-> body, else_part |-> else_part]
mrsh_arithm_assign(op, name, value) == [type |-> "assign", op |-> op, name |-> name, value |-> value]

-----------------------------------------------------------------------------
(* The parser: buf is what is left to read, error whether one has been set *)

AOk(p, v) == [p |-> p, ok |-> TRUE, v |-> v]
AFail(p) == [p |-> p, ok |-> FALSE, v |-> mrsh_arithm_literal(0)]
set_error(p) == [p EXCEPT !.error = TRUE]
OrElse(r, F(_)) == IF r.ok THEN r ELSE F(r.p)
AndThen(r, F(_, _)) == IF r.ok THEN F(r.p, r.v) ELSE r
OrError(r) == IF r.ok THEN r ELSE AFail(set_error(r.p))

Read(p, n) == [p EXCEPT !.buf = SubSeq(@, n + 1, Len(@))]
parse_str(p, str) == IsPrefix(str, p.buf)
consume_whitespace(p) == Read(p, CountWhile(p.buf, IsSpace))
expect_char(p, c) == IF parse_str(p, <<c>>) THEN AOk(Read(p, 1), 0) ELSE AFail(set_error(p))

\* strtol in base 0; a literal with a digit that its base lacks, or too large, is an error.
IsValid(ds) == IF Head(ds) = "0" THEN {"8", "9"} \cap Range(ds) = {} /\ ToNumber(ds, 8) <= LONG_MAX
               ELSE ToNumber(ds, 10) <= LONG_MAX
Literal(p, ds) ==
    CASE ds = <<>> -> AFail(p)
      [] ds # <<>> /\ IsValid(ds) ->
           AOk(Read(p, Len(ds)), mrsh_arithm_literal(ToNumber(ds, IF Head(ds) = "0" THEN 8 ELSE 10)))
      [] OTHER -> AFail(set_error(Read(p, Len(ds))))
literal(p) == Literal(p, SubSeq(p.buf, 1, CountWhile(p.buf, IsDigit)))

peek_name(p) == IF p.buf # <<>> /\ IsDigit(Head(p.buf)) THEN 0 ELSE CountWhile(p.buf, IsNameChar)
variable(p) ==
    IF peek_name(p) = 0 THEN AFail(p)
    ELSE AOk(Read(p, peek_name(p)), mrsh_arithm_variable(SubSeq(p.buf, 1, peek_name(p))))

RECURSIVE arithm_expr(_)

\* The operand is a whole expression, whatever binary operators are in it.
unop(p) ==
    IF p.buf # <<>> /\ Head(p.buf) \in {"+", "-", "~", "!"}
    THEN AndThen(OrError(arithm_expr(Read(p, 1))), LAMBDA q, e : AOk(q, mrsh_arithm_unop(Head(p.buf), e)))
    ELSE AFail(p)

\* Nothing in the parentheses is no error here, and what follows them is tried next.
paren(p) ==
    IF ~parse_str(p, <<"(">>) THEN AFail(p)
    ELSE LET e == arithm_expr(consume_whitespace(Read(p, 1)))
             r == expect_char(e.p, ")")
         IN  IF e.ok /\ r.ok THEN AOk(r.p, e.v) ELSE AFail(r.p)

term(p) == OrElse(OrElse(OrElse(paren(p), unop), literal), variable)

\* The first of the operators in ops that p begins with, or 0.
Matched(p, ops) == SelectInSeq(ops, LAMBDA op : parse_str(p, op))

LeftAssociative(p, ops, F(_)) ==
    LET RECURSIVE More(_, _), Operator(_, _, _)
        Operator(s, k, left) ==
            IF k = 0 THEN AOk(s, left)
            ELSE AndThen(OrError(F(consume_whitespace(Read(s, Len(ops[k]))))), LAMBDA t, right :
                         More(consume_whitespace(t), mrsh_arithm_binop(ops[k], left, right)))
        More(s, left) == Operator(s, Matched(s, ops), left)
    IN  AndThen(F(p), LAMBDA q, left : More(consume_whitespace(q), left))

factor(p) == LeftAssociative(p, <<<<"*">>, <<"/">>, <<"%">>>>, term)

\* Mutant: sums group from the right.
addend_right(p) ==
    LET RECURSIVE Sum(_)
        Sum(q) == AndThen(factor(q), LAMBDA s, left :
                    LET k == Matched(s, <<<<"+">>, <<"-">>>>)
                    IN  IF k = 0 THEN AOk(s, left)
                        ELSE AndThen(OrError(Sum(consume_whitespace(Read(s, 1)))), LAMBDA t, right :
                                     AOk(t, mrsh_arithm_binop(IF k = 1 THEN <<"+">> ELSE <<"-">>, left, right))))
    IN  Sum(p)

addend(p) == LeftAssociative(p, <<<<"+">>, <<"-">>>>, factor)

\* An operator with no blanks read after it is one that none may follow.
RightAssociative(p, ops, Blanks(_), F(_)) ==
    LET RECURSIVE All(_)
        Operator(s, k, left) ==
            IF k = 0 THEN AOk(s, left)
            ELSE AndThen(OrError(All(Blanks(Read(s, Len(ops[k]))))), LAMBDA t, right :
                         AOk(t, mrsh_arithm_binop(ops[k], left, right)))
        All(q) == AndThen(F(q), LAMBDA s, left : Operator(s, Matched(s, ops), left))
    IN  All(p)
NoBlanks(p) == p

shift(p) == RightAssociative(p, <<<<"<", "<">>, <<">", ">">>>>, consume_whitespace, addend)
comp(p) == RightAssociative(p, <<<<"<", "=">>, <<"<">>, <<">", "=">>, <<">">>>>, consume_whitespace, shift)
equal(p) == RightAssociative(p, <<<<"=", "=">>, <<"!", "=">>>>, NoBlanks, comp)

\* The operators in ops are told from longer ones by what follows them.
binop(p, op, F(_)) ==
    LET RECURSIVE All(_)
        All(q) ==
            AndThen(F(q), LAMBDA s, left :
                IF ~parse_str(s, op) \/ (Len(s.buf) > Len(op) /\ s.buf[Len(op) + 1] \in {"|", "&"})
                THEN AOk(s, left)
                ELSE AndThen(OrError(All(consume_whitespace(Read(s, Len(op))))), LAMBDA t, right :
                             AOk(t, mrsh_arithm_binop(op, left, right))))
    IN  All(p)

bitwise_and(p) == binop(p, <<"&">>, equal)
bitwise_xor(p) == binop(p, <<"^">>, bitwise_and)
bitwise_or(p) == binop(p, <<"|">>, bitwise_xor)
logical_and(p) == binop(p, <<"&", "&">>, bitwise_or)
logical_or(p) == binop(p, <<"|", "|">>, logical_and)

RECURSIVE ternary(_)
ternary(p) ==
    AndThen(logical_or(p), LAMBDA q, condition :
        IF ~parse_str(q, <<"?">>) THEN AOk(q, condition)
        ELSE AndThen(OrError(ternary(Read(q, 1))), LAMBDA r, body :
             AndThen(expect_char(r, ":"), LAMBDA s, colon :
             AndThen(OrError(ternary(s)), LAMBDA t, else_part :
                     AOk(t, mrsh_arithm_cond(condition, body, else_part))))))

AssignOps == <<<<"=">>, <<"*", "=">>, <<"/", "=">>, <<"%", "=">>, <<"+", "=">>, <<"-", "=">>, <<"<", "<", "=">>,
               <<">", ">", "=">>, <<"&", "=">>, <<"^", "=">>, <<"|", "=">>>>

\* The operator has to follow the name at once; a name before == is taken for one that is
\* assigned to.
AssignTo(p, n, k) ==
    IF n = 0 \/ k = 0 THEN AFail(p)
    ELSE AndThen(OrError(arithm_expr(Read(p, n + Len(AssignOps[k])))), LAMBDA q, value :
                 AOk(q, mrsh_arithm_assign(AssignOps[k], SubSeq(p.buf, 1, n), value)))
assignment(p) == AssignTo(p, peek_name(p), Matched(Read(p, peek_name(p)), AssignOps))

arithm_expr(p) == OrElse(assignment(p), ternary)

mrsh_parse_arithm_expr(str) ==
    AndThen(arithm_expr(consume_whitespace([buf |-> str, error |-> FALSE])), LAMBDA p, e :
            IF p.buf = <<>> THEN AOk(p, e) ELSE AFail(set_error(p)))

-----------------------------------------------------------------------------
(* The evaluation *)

\* An outcome: status is "ok", "error" or "killed" (by the signal of a division that
\* overflows); env holds the variables.
Yields(v, env) == {[status |-> "ok", value |-> v, env |-> env]}
Fails(status, env) == {[status |-> status, env |-> env]}
Bind(outcomes, F(_, _)) ==
    UNION {IF o.status = "ok" THEN F(o.value, o.env) ELSE {o} : o \in outcomes}

\* Two's complement; a build with -fwrapv, or one that does not use the overflow, does this.
Wrap(n) == ((n + 2 ^ (Bits - 1)) % (2 ^ Bits)) - 2 ^ (Bits - 1)
Unsigned(n) == n % (2 ^ Bits)
Quotient(a, b) == LET q == (IF a < 0 THEN -a ELSE a) \div (IF b < 0 THEN -b ELSE b)
                  IN  IF (a < 0) = (b < 0) THEN q ELSE -q
Bool(b) == IF b THEN 1 ELSE 0

\* The value of an operator, other than a division by zero. Shift counts are taken modulo
\* the width, as the shift instructions do.
Apply(op, l, r) ==
    CASE op = <<"*">> -> Wrap(l * r)
      [] op = <<"/">> -> Quotient(l, r)
      [] op = <<"%">> -> l - r * Quotient(l, r)
      [] op = <<"+">> -> Wrap(l + r)
      [] op = <<"-">> -> Wrap(l - r)
      [] op = <<"<", "<">> -> Wrap(l * 2 ^ (r % Bits))
      [] op = <<">", ">">> -> l \div (2 ^ (r % Bits))
      [] op = <<"<">> -> Bool(l < r)
      [] op = <<"<", "=">> -> Bool(l <= r)
      [] op = <<">">> -> Bool(l > r)
      [] op = <<">", "=">> -> Bool(l >= r)
      [] op = <<"=", "=">> -> Bool(l = r)
      [] op = <<"!", "=">> -> Bool(l # r)
      [] op = <<"&">> -> Wrap(Unsigned(l) & Unsigned(r))
      [] op = <<"^">> -> Wrap(Unsigned(l) ^^ Unsigned(r))
      [] op = <<"|">> -> Wrap(Unsigned(l) | Unsigned(r))
      [] op = <<"&", "&">> -> Bool(l # 0 /\ r # 0)
      [] op = <<"|", "|">> -> Bool(l # 0 \/ r # 0)

Computes(op, l, r, env) ==
    CASE op \in {<<"/">>, <<"%">>} /\ r = 0 -> Fails("error", env)
      [] op \in {<<"/">>, <<"%">>} /\ r = -1 /\ l = LONG_MIN -> Fails("killed", env)
      [] OTHER -> Yields(Apply(op, l, r), env)

\* A number rounded to a double, to even in the middle, and converted to a long.
Rounded(n) ==
    LET a == IF n < 0 THEN -n ELSE n
        e == CHOOSE k \in 0 .. Bits + 4 : a < 2 ^ (Mantissa + k) /\ (k = 0 \/ a >= 2 ^ (Mantissa + k - 1))
        q == a \div (2 ^ e)
        half == 2 * (a % (2 ^ e))
        up == IF half > 2 ^ e \/ (half = 2 ^ e /\ q % 2 = 1) THEN q + 1 ELSE q
        v == (IF n < 0 THEN -1 ELSE 1) * up * 2 ^ e
    IN  IF v \in LONG_MIN .. LONG_MAX THEN v ELSE LONG_MIN

\* strtod of the texts of decimal integers, in a set; any other text is taken for no number.
Decimal(ds) == IF ds # <<>> /\ \A i \in DOMAIN ds : IsDigit(ds[i]) THEN {ToNumber(ds, 10)} ELSE {}
Signed(s) ==
    CASE s # <<>> /\ Head(s) = "-" -> {-n : n \in Decimal(Tail(s))}
      [] s # <<>> /\ Head(s) = "+" -> Decimal(Tail(s))
      [] OTHER -> Decimal(s)
strtod(str) == {Rounded(n) : n \in Signed(SubSeq(str, CountWhile(str, IsSpace) + 1, Len(str)))}

OneOf(numbers, env) == IF numbers = {} THEN Fails("error", env) ELSE Yields(CHOOSE n \in numbers : TRUE, env)
run_variable(name, env) ==
    IF name \in DOMAIN env.vars THEN OneOf(strtod(env.vars[name]), env)
    ELSE IF env.nounset THEN Fails("error", env) ELSE Yields(0, env)

Assigned(env, name, str) ==
    [env EXCEPT !.vars = [n \in DOMAIN @ \cup {name} |-> IF n = name THEN str ELSE @[n]]]

RECURSIVE mrsh_run_arithm_expr(_, _)

\* Both operands are evaluated, those of && and || too.
run_arithm_binop(e, env) ==
    Bind(mrsh_run_arithm_expr(e.left, env), LAMBDA l, env1 :
    Bind(mrsh_run_arithm_expr(e.right, env1), LAMBDA r, env2 : Computes(e.op, l, r, env2)))

\* The result of unary plus is whatever the caller's variable held.
run_arithm_unop(e, env) ==
    Bind(mrsh_run_arithm_expr(e.body, env), LAMBDA v, env1 :
         CASE e.op = "+" -> UNION {Yields(g, env1) : g \in Garbage}
           [] e.op = "-" -> Yields(Wrap(-v), env1)
           [] e.op = "~" -> Yields(-v - 1, env1)
           [] e.op = "!" -> Yields(Bool(v = 0), env1))

run_arithm_cond(e, env) ==
    Bind(mrsh_run_arithm_expr(e.condition, env), LAMBDA c, env1 :
         mrsh_run_arithm_expr(IF c # 0 THEN e.body ELSE e.else_part, env1))

run_arithm_assign(e, env) ==
    Bind(mrsh_run_arithm_expr(e.value, env), LAMBDA v, env1 :
    Bind(IF e.op = <<"=">> THEN Yields(0, env1) ELSE run_variable(e.name, env1), LAMBDA cur, env2 :
    Bind(IF e.op = <<"=">> THEN Yields(v, env2) ELSE Computes(Front(e.op), cur, v, env2), LAMBDA w, env3 :
         Yields(w, Assigned(env3, e.name, ToText(w))))))

mrsh_run_arithm_expr(e, env) ==
    CASE e.type = "literal" -> Yields(e.value, env)
      [] e.type = "variable" -> run_variable(e.name, env)
      [] e.type = "binop" -> run_arithm_binop(e, env)
      [] e.type = "unop" -> run_arithm_unop(e, env)
      [] e.type = "cond" -> run_arithm_cond(e, env)
      [] e.type = "assign" -> run_arithm_assign(e, env)
=============================================================================
