------------------------------- MODULE Filter -------------------------------
(***************************************************************************)
(* Subscription filters: the grammar and the builder of filter/parser.rs,  *)
(* the evaluation of filter/eval.rs, and the filter DeliveryEngine ends up *)
(* with, against what the grammar says a filter means.                     *)
(*                                                                         *)
(* A filter is a sequence of tokens: AND, OR, NOT (with the blank it       *)
(* needs, or the dash), the parentheses, and the three atoms (comparison,  *)
(* has_attr, hasPrefix), each kept whole.  Keys and the characters of      *)
(* values are model values; escapes inside strings are left out.           *)
(***************************************************************************)
EXTENDS Naturals, SequencesExt

CONSTANTS Atoms,        \* sequence of the atoms, taken in turn as input grows
          AttrSets,     \* the attribute maps filters are evaluated on
          MaxTokens     \* bound on the length of a filter

VARIABLE input          \* the filter's tokens, typed one at a time

Eq(k, v)      == [kind |-> "Compare", attr |-> k, op |-> "=", value |-> v]
Ne(k, v)      == [kind |-> "Compare", attr |-> k, op |-> "!=", value |-> v]
HasAttr(k)    == [kind |-> "HasAttr", attr |-> k]
HasPrefix(k, p) == [kind |-> "HasPrefix", attr |-> k, prefix |-> p]
Not(e)        == [kind |-> "Not", inner |-> e]
And(es)       == [kind |-> "And", operands |-> es]
Or(es)        == [kind |-> "Or", operands |-> es]

Words == {"AND", "OR", "NOT", "(", ")"}

\* Token i of the input: an atom is written "atom" and numbered by position.
token(ts, i) == IF i \in DOMAIN ts THEN ts[i] ELSE "EOI"
atom(ts, i) == LET nth == Cardinality({j \in 1..i : ts[j] = "atom"})
               IN  Atoms[((nth - 1) % Len(Atoms)) + 1]

-----------------------------------------------------------------------------
(* The parser: what a rule makes of the tokens from i on, and where it     *)
(* stops.                                                                  *)

Fail == [ok |-> FALSE]
Parsed(e, next) == [ok |-> TRUE, expr |-> e, next |-> next]

RECURSIVE build_expr(_, _), build_unary(_, _), build_primary(_, _), chain(_, _, _, _)

build_primary(ts, i) ==
    IF token(ts, i) = "atom" THEN Parsed(atom(ts, i), i + 1)
    ELSE IF token(ts, i) # "(" THEN Fail
    ELSE LET e == build_expr(ts, i + 1)
         IN  IF e.ok /\ token(ts, e.next) = ")" THEN Parsed(e.expr, e.next + 1) ELSE Fail

\* Mutant: NOT takes the whole expression that follows.
build_unary_greedy(ts, i) ==
    IF token(ts, i) # "NOT" THEN build_primary(ts, i)
    ELSE LET e == build_expr(ts, i + 1)
         IN  IF e.ok THEN Parsed(Not(e.expr), e.next) ELSE Fail

build_unary(ts, i) ==
    IF token(ts, i) # "NOT" THEN build_primary(ts, i)
    ELSE LET p == build_primary(ts, i + 1)
         IN  IF p.ok THEN Parsed(Not(p.expr), p.next) ELSE Fail

\* ("AND" unary)* or ("OR" unary)*, stopping where it cannot be extended.
chain(ts, i, op, operands) ==
    LET u == IF token(ts, i) = op THEN build_unary(ts, i + 1) ELSE Fail
    IN  IF u.ok THEN chain(ts, u.next, op, Append(operands, u.expr))
        ELSE [operands |-> operands, next |-> i]

build_expr(ts, i) ==
    LET first == build_unary(ts, i)
    IN  IF ~ first.ok THEN Fail
        ELSE LET ands == chain(ts, first.next, "AND", <<first.expr>>)
                 ors  == chain(ts, first.next, "OR", <<first.expr>>)
             IN  IF Len(ands.operands) > 1 THEN Parsed(And(ands.operands), ands.next)
                 ELSE IF Len(ors.operands) > 1 THEN Parsed(Or(ors.operands), ors.next)
                 ELSE first

\* The whole input must be one expression.
parse(ts) == LET e == build_expr(ts, 1)
             IN  IF e.ok /\ e.next = Len(ts) + 1 THEN e ELSE Fail

-----------------------------------------------------------------------------
(* Evaluation.                                                             *)

RECURSIVE matches(_, _)
matches(e, attrs) ==
    CASE e.kind = "Compare" -> /\ e.attr \in DOMAIN attrs
                               /\ (e.op = "=") <=> (attrs[e.attr] = e.value)
      [] e.kind = "HasAttr" -> e.attr \in DOMAIN attrs
      [] e.kind = "HasPrefix" -> /\ e.attr \in DOMAIN attrs
                                 /\ IsPrefix(e.prefix, attrs[e.attr])
      [] e.kind = "Not" -> ~ matches(e.inner, attrs)
      [] e.kind = "And" -> \A i \in DOMAIN e.operands : matches(e.operands[i], attrs)
      [] e.kind = "Or" -> \E i \in DOMAIN e.operands : matches(e.operands[i], attrs)

\* compile: an empty filter is no filter, a bad one an error.
compile(ts) == IF ts = <<>> THEN "none" ELSE IF parse(ts).ok THEN "some" ELSE "error"

\* compiled_filter drops the error, so that a filter that does not parse
\* lets every message through, as no filter does.
compiled_filter(ts, attrs) ==
    IF compile(ts) = "some" THEN matches(parse(ts).expr, attrs) ELSE TRUE

-----------------------------------------------------------------------------
(* The input grows until it can no longer become a filter: one token that  *)
(* may not follow its predecessor is typed, and nothing after it.          *)

opens(t) == t \in {"AND", "OR", "NOT", "("}
may_follow(a, b) == IF opens(a) THEN b \in {"atom", "("} \/ (b = "NOT" /\ a # "NOT")
                    ELSE b \in {"AND", "OR", ")"}

well_paired(ts) ==
    /\ \A i \in 1..(Len(ts) - 1) : may_follow(ts[i], ts[i + 1])
    /\ Len(SelectSeq(ts, LAMBDA t : t = ")")) <= Len(SelectSeq(ts, LAMBDA t : t = "("))

Type(t) == /\ Len(input) < MaxTokens
           /\ well_paired(input)
           /\ input' = Append(input, t)

FilterInit == input = <<>>
FilterNext == \E t \in Words \cup {"atom"} : Type(t)
FilterSpec == FilterInit /\ [][FilterNext]_input

-----------------------------------------------------------------------------
(* What the grammar says: the truth values that the ways of reading the    *)
(* tokens i..j as a unary, a chain or an expression can have.              *)

RECURSIVE UnaryMeans(_, _, _, _), ChainMeans(_, _, _, _, _), ExprMeans(_, _, _, _)

PrimaryMeans(ts, i, j, attrs) ==
    IF i = j THEN IF ts[i] = "atom" THEN {matches(atom(ts, i), attrs)} ELSE {}
    ELSE IF i < j /\ ts[i] = "(" /\ ts[j] = ")" THEN ExprMeans(ts, i + 1, j - 1, attrs) ELSE {}

UnaryMeans(ts, i, j, attrs) ==
    IF i < j /\ ts[i] = "NOT" THEN {~ v : v \in PrimaryMeans(ts, i + 1, j, attrs)}
    ELSE PrimaryMeans(ts, i, j, attrs)

\* Two or more unaries joined by one and the same operator.
ChainMeans(ts, i, j, op, attrs) ==
    UNION {{IF op = "AND" THEN v /\ w ELSE v \/ w :
              v \in UnaryMeans(ts, i, k - 1, attrs),
              w \in UnaryMeans(ts, k + 1, j, attrs) \cup ChainMeans(ts, k + 1, j, op, attrs)} :
           k \in {n \in (i + 1)..(j - 1) : ts[n] = op}}

ExprMeans(ts, i, j, attrs) ==
    IF i > j THEN {}
    ELSE UnaryMeans(ts, i, j, attrs) \cup ChainMeans(ts, i, j, "AND", attrs)
         \cup ChainMeans(ts, i, j, "OR", attrs)

(* A filter means what the grammar says: the parser accepts exactly the    *)
(* token sequences the grammar derives (mixing AND and OR needs            *)
(* parentheses, NOT binds one primary), every reading gives the same truth *)
(* value, and that is the value by which the delivery engine selects; a    *)
(* sequence the grammar does not derive selects everything.                *)
FilterMeansWhatItSays ==
    \A attrs \in AttrSets :
        LET means == ExprMeans(input, 1, Len(input), attrs)
        IN  /\ (means # {}) <=> (compile(input) = "some")
            /\ means = {} \/ means = {compiled_filter(input, attrs)}
            /\ means = {} => compiled_filter(input, attrs)
=============================================================================
