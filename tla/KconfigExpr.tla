---------------------------- MODULE KconfigExpr ----------------------------
(***************************************************************************)
(* The conditions of the build configuration (expr.c of kconfig): how a    *)
(* condition is evaluated and how it is rewritten into a shorter one.      *)
(* A chain of && or || is kept flat, since the code treats the two ends of *)
(* a binary node alike wherever it looks for the leaves of a chain.        *)
(***************************************************************************)
EXTENDS Integers, SequencesExt

CONSTANTS
    TypeOf      \* the symbols of the configuration and their types

Constants == {"n", "m", "y"}

Null == [op |-> "null", s |-> "", t |-> "", args |-> <<>>]
Sym(s) == [op |-> "sym", s |-> s, t |-> "", args |-> <<>>]
Comp(op, s, t) == [op |-> op, s |-> s, t |-> t, args |-> <<>>]
Not(e) == [op |-> "not", s |-> "", t |-> "", args |-> <<e>>]

IsChain(e) == e.op \in {"and", "or"}
Leaves(op, e) == IF e.op = op THEN e.args ELSE <<e>>
Chain(op, es) ==
    LET leaves == FlattenSeq([i \in DOMAIN es |-> Leaves(op, es[i])])
    IN  IF Len(leaves) = 1 THEN leaves[1]
        ELSE [op |-> op, s |-> "", t |-> "", args |-> leaves]

Dual(op) == IF op = "and" THEN "or" ELSE "and"
Unit(op) == Sym(IF op = "and" THEN "y" ELSE "n")

Pair(f(_), pair) == <<f(pair[1]), f(pair[2])>>

\* Every two positions, in the order in which the recursion over two chains meets them.
Positions(m, n) == [k \in 1 .. m * n |-> <<((k - 1) \div n) + 1, ((k - 1) % n) + 1>>]

expr_alloc_and(e1, e2) ==
    IF e1 = Null THEN e2 ELSE IF e2 = Null THEN e1 ELSE Chain("and", <<e1, e2>>)
expr_alloc_or(e1, e2) ==
    IF e1 = Null THEN e2 ELSE IF e2 = Null THEN e1 ELSE Chain("or", <<e1, e2>>)

-----------------------------------------------------------------------------
\* The value in an assignment: n < m < y.
Rank == [n |-> 0, m |-> 1, y |-> 2]
Lowest(vs) == CHOOSE v \in vs : \A w \in vs : Rank[v] <= Rank[w]
Highest(vs) == CHOOSE v \in vs : \A w \in vs : Rank[v] >= Rank[w]
Opposite == [n |-> "y", m |-> "m", y |-> "n"]

RECURSIVE expr_calc_value(_, _)
expr_calc_value(e, env) ==
    LET Value(s) == IF s \in DOMAIN env THEN env[s] ELSE s
        values == {expr_calc_value(e.args[i], env) : i \in DOMAIN e.args}
    IN  CASE e.op = "null" -> "y"
          [] e.op = "sym" -> IF Value(e.s) \in Constants THEN Value(e.s) ELSE "n"
          [] e.op = "and" -> Lowest(values)
          [] e.op = "or" -> Highest(values)
          [] e.op = "not" -> Opposite[expr_calc_value(e.args[1], env)]
          [] e.op = "eq" -> IF Value(e.s) = Value(e.t) THEN "y" ELSE "n"
          [] e.op = "ne" -> IF Value(e.s) = Value(e.t) THEN "n" ELSE "y"

-----------------------------------------------------------------------------
RECURSIVE expr_eliminate_yn(_)
expr_eliminate_yn(e) ==
    IF ~IsChain(e) THEN e
    ELSE LET parts == [i \in DOMAIN e.args |-> expr_eliminate_yn(e.args[i])]
             rest == SelectSeq(parts, LAMBDA p : p # Unit(e.op))
         IN  IF Contains(rest, Unit(Dual(e.op))) THEN Unit(Dual(e.op))
             ELSE IF rest = <<>> THEN Unit(e.op) ELSE Chain(e.op, rest)

RECURSIVE expr_eq(_, _)

\* Replaces every two equal parts of two chains by the chain's unit.
EliminateParts(type, pair) ==
    LET Step(acc, ij) ==
            LET x == acc[1][ij[1]]
                y == acc[2][ij[2]]
            IN  IF (x = y /\ x \in {Sym("y"), Sym("n")}) \/ ~expr_eq(x, y) THEN acc
                ELSE <<[acc[1] EXCEPT ![ij[1]] = Unit(type)], [acc[2] EXCEPT ![ij[2]] = Unit(type)]>>
        a == Leaves(type, pair[1])
        b == Leaves(type, pair[2])
    IN  Pair(LAMBDA es : Chain(type, es), FoldLeft(Step, <<a, b>>, Positions(Len(a), Len(b))))

\* The chain on the left is searched first, then another one on the right.
EliminateLeft(pair) == IF IsChain(pair[1]) THEN EliminateParts(pair[1].op, pair) ELSE pair
EliminateRight(pair) ==
    IF IsChain(pair[2]) /\ pair[1].op # pair[2].op THEN EliminateParts(pair[2].op, pair) ELSE pair

expr_eliminate_eq(e1, e2) ==
    IF Null \in {e1, e2} THEN <<e1, e2>>
    ELSE Pair(expr_eliminate_yn, EliminateRight(EliminateLeft(<<e1, e2>>)))

SameSymbol(pair) == pair[1] = pair[2] /\ pair[1].op = "sym"
expr_eq(e1, e2) ==
    /\ e1.op = e2.op
    /\ CASE e1.op \in {"eq", "ne", "sym"} -> e1 = e2
         [] e1.op = "not" -> expr_eq(e1.args[1], e2.args[1])
         [] OTHER -> SameSymbol(expr_eliminate_eq(e1, e2))

RECURSIVE expr_trans_bool(_)
expr_trans_bool(e) ==
    IF e.op = "ne" /\ e.t = "n" /\ e.s \in DOMAIN TypeOf /\ TypeOf[e.s] = "tristate" THEN Sym(e.s)
    ELSE [e EXCEPT !.args = [i \in DOMAIN e.args |-> expr_trans_bool(e.args[i])]]

-----------------------------------------------------------------------------
\* Joining two parts of a chain into one, or Null: the test both joins begin with.
Subject(e) == IF e.op = "not" THEN e.args[1].s ELSE e.s
Joinable(e1, e2) ==
    /\ {e1.op, e2.op} \subseteq {"eq", "ne", "sym", "not"}
    /\ e1.op = "not" => e1.args[1].op \in {"eq", "ne", "sym"}
    /\ e2.op = "not" => e2.args[1].op = "sym"
    /\ Subject(e1) = Subject(e2)
    /\ Subject(e1) \in DOMAIN TypeOf /\ TypeOf[Subject(e1)] \in {"boolean", "tristate"}

TwoConstants(e1, e2) == {e1.t, e2.t} \subseteq Constants /\ e1.t # e2.t

\* Mutant: (a!='m') && (a!='n') -> (a='m'), as the comment has it.
ThirdOfFirst(e1, e2) == e1.t

\* The value that is neither the one nor the other.
Third(e1, e2) == CHOOSE t \in Constants : t \notin {e1.t, e2.t}

expr_join_or(e1, e2) ==
    LET s == Subject(e1) IN
    IF ~Joinable(e1, e2) THEN Null
    ELSE CASE TypeOf[s] = "tristate" /\ e1.op = "eq" /\ e2.op = "eq" /\ TwoConstants(e1, e2) ->
              Comp("ne", s, Third(e1, e2))
         [] TypeOf[s] = "boolean" /\ {e1, e2} = {Sym(s), Not(Sym(s))} -> Sym("y")
         [] OTHER -> Null

expr_join_and(e1, e2) ==
    LET s == Subject(e1)
        Are(x, y) == {e1, e2} = {x, y}
    IN
    IF ~Joinable(e1, e2) THEN Null
    ELSE CASE Are(Sym(s), Comp("eq", s, "y")) -> Comp("eq", s, "y")
         [] Are(Sym(s), Comp("ne", s, "n")) -> Sym(s)
         [] Are(Sym(s), Comp("ne", s, "m")) -> Comp("eq", s, "y")
         [] OTHER ->
              IF TypeOf[s] # "tristate" \/ ~({e1.t, e2.t} \subseteq Constants) THEN Null
              ELSE CASE e1.op = "eq" /\ e2.op = "ne" -> IF e1.t # e2.t THEN e1 ELSE Sym("n")
                     [] e1.op = "ne" /\ e2.op = "eq" -> IF e1.t # e2.t THEN e2 ELSE Sym("n")
                     [] e1.op = "ne" /\ e2.op = "ne" /\ TwoConstants(e1, e2) ->
                          Comp("eq", s, Third(e1, e2))
                     [] OTHER -> Null

Join(op, e1, e2) ==
    IF expr_eq(e1, e2) THEN e1
    ELSE IF op = "or" THEN expr_join_or(e1, e2) ELSE expr_join_and(e1, e2)

\* Joins parts of one chain two by two; the first of a joined pair becomes the unit.  The
\* result has the number of joins, too.
Counted(e, count) == [e |-> e, count |-> count]
Rejoined(op, all) == Counted(Chain(op, all.leaves), all.count)

RECURSIVE expr_eliminate_dups1(_)
expr_eliminate_dups1(e) ==
    LET Put(acc, ij, first, tmp) ==
            IF tmp = Null
            THEN [leaves |-> [acc.leaves EXCEPT ![ij[1]] = first.e],
                  count |-> acc.count + first.count]
            ELSE [leaves |-> [acc.leaves EXCEPT ![ij[1]] = Unit(e.op), ![ij[2]] = tmp],
                  count |-> acc.count + first.count + 1]
        JoinPair(acc, ij, first) == Put(acc, ij, first, Join(e.op, first.e, acc.leaves[ij[2]]))
        First(inner) == IF IsChain(inner) THEN expr_eliminate_dups1(inner) ELSE Counted(inner, 0)
        Step(acc, ij) ==
            IF ij[1] = ij[2] THEN acc ELSE JoinPair(acc, ij, First(acc.leaves[ij[1]]))
    IN  Rejoined(e.op, FoldLeft(Step, [leaves |-> e.args, count |-> 0],
                                Positions(Len(e.args), Len(e.args))))

RECURSIVE expr_transform(_)
expr_transform(e) ==
    LET parts == [i \in DOMAIN e.args |-> expr_transform(e.args[i])]
        IsBoolean == e.s \in DOMAIN TypeOf /\ TypeOf[e.s] = "boolean" /\ e.t \in Constants
        same == (e.op = "eq") = (e.t = "y")
        part == parts[1]
    IN  CASE e.op \in {"null", "sym"} -> e
          [] e.op \in {"eq", "ne"} ->
               IF ~IsBoolean THEN e
               ELSE IF e.t = "m" THEN Sym(IF e.op = "eq" THEN "n" ELSE "y")
               ELSE IF same THEN Sym(e.s) ELSE Not(Sym(e.s))
          [] e.op \in {"and", "or"} -> Chain(e.op, parts)
          [] e.op = "not" ->
               CASE part.op = "not" -> expr_transform(part.args[1])
                 [] part.op = "eq" -> [part EXCEPT !.op = "ne"]
                 [] part.op = "ne" -> [part EXCEPT !.op = "eq"]
                 [] part.op \in {"and", "or"} ->
                      expr_transform(Chain(Dual(part.op), [i \in DOMAIN part.args |-> Not(part.args[i])]))
                 [] part.op = "sym" ->
                      IF part.s \in Constants THEN Sym(Opposite[part.s]) ELSE Not(part)

\* What is left of a chain when the parts it shares with another one are taken out.
expr_extract_eq(type, e1, e2) ==
    LET Step(acc, ij) ==
            IF ~expr_eq(acc.a[ij[1]], acc.b[ij[2]]) THEN acc
            ELSE [a |-> [acc.a EXCEPT ![ij[1]] = Unit(type)],
                  b |-> [acc.b EXCEPT ![ij[2]] = Unit(type)], found |-> TRUE]
        a == Leaves(type, e1)
        b == Leaves(type, e2)
        Rest(left) == IF left.found THEN expr_eliminate_yn(Chain(type, left.a)) ELSE e1
    IN  Rest(FoldLeft(Step, [a |-> a, b |-> b, found |-> FALSE], Positions(Len(a), Len(b))))

\* A part all of whose negated parts stand beside it decides the chain:
\* (FOO || BAR) && (!FOO && !BAR) -> n.
RECURSIVE expr_eliminate_dups2(_)
expr_eliminate_dups2(e) ==
    LET Decide(acc, i, inner, leaves) ==
            IF expr_extract_eq(e.op, expr_transform(Not(inner.e)), Chain(e.op, leaves)) = Unit(e.op)
            THEN [leaves |-> [leaves EXCEPT ![i] = Unit(Dual(e.op))],
                  count |-> acc.count + inner.count + 1]
            ELSE [leaves |-> leaves, count |-> acc.count + inner.count]
        Inside(acc, i, inner) == Decide(acc, i, inner, [acc.leaves EXCEPT ![i] = inner.e])
        Step(acc, i) ==
            IF ~IsChain(acc.leaves[i]) THEN acc
            ELSE Inside(acc, i, expr_eliminate_dups2(acc.leaves[i]))
    IN  Rejoined(e.op, FoldLeft(Step, [leaves |-> e.args, count |-> 0], [i \in DOMAIN e.args |-> i]))

RECURSIVE expr_eliminate_dups(_)
expr_eliminate_dups(e) ==
    LET Add(twice, count) == Counted(twice.e, twice.count + count)
        Twice(once) == Add(expr_eliminate_dups2(once.e), once.count)
        Repeat(r) == IF r.count = 0 THEN r.e ELSE expr_eliminate_dups(expr_eliminate_yn(r.e))
    IN  IF ~IsChain(e) THEN e ELSE Repeat(Twice(expr_eliminate_dups1(e)))

-----------------------------------------------------------------------------
RECURSIVE expr_contains_symbol(_, _)
expr_contains_symbol(dep, s) ==
    s \in {dep.s, dep.t} \/ \E i \in DOMAIN dep.args : expr_contains_symbol(dep.args[i], s)

RECURSIVE expr_depends_symbol(_, _)
expr_depends_symbol(dep, s) ==
    \/ dep.op = "and" /\ \E i \in DOMAIN dep.args : expr_depends_symbol(dep.args[i], s)
    \/ dep = Sym(s)
    \/ dep \in {Comp("eq", s, "y"), Comp("eq", s, "m"), Comp("ne", s, "n")}

\* A condition that says that e has (op = "eq") or has not (op = "ne") the value s.
RECURSIVE expr_trans_compare(_, _, _)
expr_trans_compare(e, op, s) ==
    LET Turned(x) == IF op = "ne" THEN Not(x) ELSE x
        parts == [i \in DOMAIN e.args |-> expr_trans_compare(e.args[i], "eq", s)]
    IN  CASE e.op = "null" -> Turned(Sym(s))
          [] e.op \in {"and", "or"} ->
               Turned(CASE s = "y" -> Chain(e.op, parts) [] s = "n" -> Chain(Dual(e.op), parts)
                        [] OTHER -> e)
          [] e.op = "not" -> expr_trans_compare(e.args[1], IF op = "eq" THEN "ne" ELSE "eq", s)
          [] e.op \in {"eq", "ne"} ->
               IF s = "m" THEN Sym(IF op = "eq" THEN "n" ELSE "y")
               ELSE IF (op = "eq") = (s = "y") THEN e ELSE Not(e)
          [] e.op = "sym" -> Comp(op, e.s, s)
=============================================================================
