----------------------------- MODULE FilterParser -----------------------------
(***************************************************************************)
(* The parser of the filter expressions of the model statistics console    *)
(* (modelstatistics/static/lib/parser.js), a parsing expression grammar:   *)
(* every alternative is tried in turn at the same position, the first one  *)
(* that matches is taken, and a failure is remembered with its position    *)
(* and what was expected there.  A filter expression is validated by it,   *)
(* translated to JavaScript and, when it is rejected, completed from the   *)
(* expectations at the furthest position the parser got to.                *)
(*                                                                         *)
(* A text is a sequence of pieces.  An operator is spelled character by    *)
(* character, a name is one piece, or two where a proper prefix of it is   *)
(* of interest.  A blank stands for a space or a tab, "0" for any digit.   *)
(***************************************************************************)
EXTENDS Integers, Sequences, FiniteSets, SequencesExt, FiniteSetsExt

CONSTANT numVars    \* the names of the statistics, in the order they are tried

Blank == " "

Digit == "0"

\* The literals of more than one piece.
Split == [mappings |-> <<"mapp", "ings">>, mappableFields |-> <<"mapp", "ableFields">>]
         @@ ("<=" :> <<"<", "=">>) @@ (">=" :> <<">", "=">>) @@ ("==" :> <<"=", "=">>)
         @@ ("!=" :> <<"!", "=">>) @@ ("&&" :> <<"&", "&">>) @@ ("||" :> <<"|", "|">>)

Spelling(literal) == IF literal \in DOMAIN Split THEN Split[literal] ELSE <<literal>>

-----------------------------------------------------------------------------
(* What a rule yields at a position: it matches up to a position and gives  *)
(* the translation of what it has matched, it fails, or an action of the    *)
(* grammar throws an error of its own, which nothing inside the parser      *)
(* catches.  fails are the failures met on the way: <<position, expected>>. *)

Matched(to, out, fails) == [kind |-> "matched", to |-> to, out |-> out, fails |-> fails]

Failed(fails) == [kind |-> "FAILED", to |-> 0, out |-> <<>>, fails |-> fails]

Thrown == [kind |-> "ReferenceError", to |-> 0, out |-> <<>>, fails |-> {}]

StartsWith(s, i, piece) ==
    i + Len(piece) - 1 <= Len(s) /\ SubSeq(s, i, i + Len(piece) - 1) = piece

\* The first of several literals that the text goes on with.
FirstOf(s, i, literals) ==
    LET hits == {k \in DOMAIN literals : StartsWith(s, i, Spelling(literals[k]))}
        tried == IF hits = {} THEN Len(literals) ELSE Min(hits) - 1
        fails == {<<i, literals[k]>> : k \in 1..tried}
    IN  IF hits = {} THEN Failed(fails)
        ELSE LET piece == Spelling(literals[tried + 1])
             IN  Matched(i + Len(piece), piece, fails)

\* The position after a run of one piece.
RunEnd(s, i, piece) == Min({j \in i..(Len(s) + 1) : j > Len(s) \/ s[j] # piece})

-----------------------------------------------------------------------------
(* The lexical rules. number and boolean have a name, which is all that is  *)
(* reported of a failure inside them, and so has whitespace: the empty name.*)

\* whitespace+: where it ends it is tried again in vain.
whitespace(s, i) ==
    LET end == RunEnd(s, i, Blank)
    IN  IF end = i THEN Failed({<<i, "">>}) ELSE Matched(end, <<>>, {<<end, "">>})

integer(s, i) == RunEnd(s, i, Digit)

\* Digits, a point and digits, where the first digits may be missing and are
\* supplied then; or digits alone.
number(s, i) ==
    LET point == integer(s, i)
        end == IF StartsWith(s, point, <<".">>) THEN integer(s, point + 1) ELSE point
        supplied == IF point = i THEN <<Digit>> ELSE <<>>
    IN  IF end > point + 1 THEN Matched(end, supplied \o SubSeq(s, i, end - 1), {})
        ELSE IF point > i THEN Matched(point, SubSeq(s, i, point - 1), {})
        ELSE Failed({<<i, "a number">>})

boolean(s, i) ==
    IF \E b \in {"true", "false"} : StartsWith(s, i, <<b>>)
    THEN Matched(i + 1, <<s[i]>>, {})
    ELSE Failed({<<i, "a boolean">>})

-----------------------------------------------------------------------------
(* The grammar: its rules as parsing expressions. *)

AnyOf(ls) == [kind |-> "literals", of |-> ls]

Terminal(name) == [kind |-> "terminal", name |-> name]

Rule(name) == [kind |-> "rule", name |-> name]

Nothing == [kind |-> "nothing"]

Then(first, rest) == [kind |-> "then", first |-> first, rest |-> rest]

Or(first, rest) == [kind |-> "or", first |-> first, rest |-> rest]

Sequence(e1, e2, e3) == Then(e1, Then(e2, e3))

\* What is matched is translated by the action of that name.
Action(name, e) == [kind |-> "action", name |-> name, of |-> e]

\* whitespace+ e whitespace*
Surrounded(e) ==
    Sequence(Terminal("whitespace"), e, Or(Terminal("whitespace"), Nothing))

\* l:term f:op r:rule / t:term.  The code parses the term a second time when
\* the first alternative fails, to the same effect.
Binary(term, op, rule) ==
    [kind |-> "binary", term |-> Rule(term), more |-> Then(Rule(op), Rule(rule))]

\* The rule op: its symbols in the order they are tried, or op between blanks.
Operator(op, symbols) == Or(Surrounded(Rule(op)), AnyOf(symbols))

op_3 == Operator("op_3", <<"*", "/">>)

op_4 == Operator("op_4", <<"+", "-">>)

(* Slip: the shorter symbols are tried first. *)
op_6Shadowed == Operator("op_6", <<"<", ">", "<=", ">=">>)

op_6 == Operator("op_6", <<"<=", ">=", "<", ">">>)

op_7 == Operator("op_7", <<"==", "!=">>)

op_11 == Operator("op_11", <<"&&">>)

op_12 == Operator("op_12", <<"||">>)

numVar == Action("numVar", AnyOf(numVars))

\* "entire(" and "average(": the name of a property of all models.
OfAllModels(function) ==
    Action(function, Sequence(AnyOf(<<function>>), Rule("numVar"), AnyOf(<<")">>)))

entire == OfAllModels("entire(")

average == OfAllModels("average(")

parenthesized == Sequence(AnyOf(<<"(">>), Rule("expr"), AnyOf(<<")">>))

negated == Then(AnyOf(<<"-">>), Rule("primary"))

primary ==
    Or(Surrounded(Rule("primary")), Or(negated, Or(Terminal("number"), Or(Terminal("boolean"),
        Or(Rule("numVar"), Or(entire, Or(average, parenthesized)))))))

term5 == Binary("primary", "op_12", "term5")

term4 == Binary("term5", "op_11", "term4")

term3 == Binary("term4", "op_7", "term3")

term2 == Binary("term3", "op_6", "term2")

term1 == Binary("term2", "op_4", "term1")

expr == Or(Action("expr", Surrounded(Rule("expr"))), Binary("term1", "op_3", "expr"))

Grammar ==
    [expr |-> expr, term1 |-> term1, term2 |-> term2, term3 |-> term3, term4 |-> term4,
     term5 |-> term5, primary |-> primary, numVar |-> numVar, op_3 |-> op_3, op_4 |-> op_4,
     op_6 |-> op_6, op_7 |-> op_7, op_11 |-> op_11, op_12 |-> op_12]

-----------------------------------------------------------------------------
(* The parser *)

\* The actions of the grammar.  That of the first alternative of expr returns
\* a variable expr, which is not declared: there is no label expr:expr.
Act(name, r) ==
    LET OfAll(suffix) == <<"entire.">> \o SubSeq(r.out, 2, Len(r.out) - 1) \o <<suffix>>
    IN  CASE name = "expr" -> Thrown
          [] name = "numVar" -> [r EXCEPT !.out = <<"modelData.">> \o @]
          [] name = "entire(" -> [r EXCEPT !.out = OfAll("Sum")]
          [] name = "average(" -> [r EXCEPT !.out = OfAll("Avg")]

\* first, and then the rest.
Joined(first, rest) ==
    [rest EXCEPT !.out = first.out \o @, !.fails = first.fails \cup @]

RECURSIVE Parsed(_, _, _)
Parsed(s, i, e) ==
    CASE e.kind = "literals" -> FirstOf(s, i, e.of)
      [] e.kind = "terminal" /\ e.name = "whitespace" -> whitespace(s, i)
      [] e.kind = "terminal" /\ e.name = "number" -> number(s, i)
      [] e.kind = "terminal" /\ e.name = "boolean" -> boolean(s, i)
      [] e.kind = "rule" -> Parsed(s, i, Grammar[e.name])
      [] e.kind = "action" ->
            LET r == Parsed(s, i, e.of) IN IF r.kind = "matched" THEN Act(e.name, r) ELSE r
      [] e.kind = "nothing" -> Matched(i, <<>>, {})
      [] e.kind = "then" ->
            LET first == Parsed(s, i, e.first)
            IN  IF first.kind = "matched" THEN Joined(first, Parsed(s, first.to, e.rest)) ELSE first
      [] e.kind = "or" ->
            LET first == Parsed(s, i, e.first)
            IN  IF first.kind = "FAILED" THEN Joined(first, Parsed(s, i, e.rest)) ELSE first
      [] e.kind = "binary" ->
            LET term == Parsed(s, i, e.term)
                more == Parsed(s, term.to, e.more)
            IN  IF term.kind # "matched" THEN term
                ELSE IF more.kind = "FAILED" THEN [term EXCEPT !.fails = @ \cup more.fails]
                ELSE Joined(term, more)

-----------------------------------------------------------------------------
(* parse: the translation, or the error that is thrown.  Of the failures,   *)
(* those at the furthest position are reported.                             *)

(* Slip: earlier failures are not dropped when the parser gets further. *)
SyntaxErrorOfAll(s, fails) ==
    LET furthest == Max({f[1] : f \in fails})
    IN  [kind |-> "SyntaxError", at |-> furthest, expected |-> {f[2] : f \in fails},
         found |-> furthest <= Len(s)]

SyntaxError(s, fails) ==
    LET furthest == Max({f[1] : f \in fails})
    IN  [kind |-> "SyntaxError", at |-> furthest,
         expected |-> {f[2] : f \in {g \in fails : g[1] = furthest}},
         found |-> furthest <= Len(s)]

parse(s) ==
    LET result == Parsed(s, 1, Rule("expr"))
        all == IF result.kind = "matched" THEN result.fails \cup {<<result.to, "end of input">>}
                                          ELSE result.fails
    IN  IF result.kind = "ReferenceError" THEN [kind |-> "ReferenceError"]
        ELSE IF result.kind = "matched" /\ result.to = Len(s) + 1
             THEN [kind |-> "accepted", out |-> result.out]
             ELSE SyntaxError(s, all)
==============================================================================
