---------------------------- MODULE MCFilterField ----------------------------
(***************************************************************************)
(* Of the eleven names two, which begin alike.                             *)
(***************************************************************************)
EXTENDS FilterField

MCnumVars == <<"mappings", "mappableFields">>

(* Why the properties except texts with blanks.  Blanks and an expression   *)
(* after them, at the beginning or further on, throw an error of JavaScript *)
(* (parser.js:39), although the grammar has an alternative for them         *)
(* (grammar.pegjs:23).                                                      *)
ASSUME BlanksThrow ==
    \A s \in {<<Blank, Digit>>, <<"(", Blank, Digit, ")">>, <<Digit, "*", Blank, Digit>>} :
        parse(s).kind = "ReferenceError"

(* And a rejected text that only begins with a blank is removed, although   *)
(* the comment speaks of spaces only (script.js 370-374): what was expected *)
(* in it is offered for the empty field.                                    *)
ASSUME RemovedTextMisleads ==
    LET s == <<Blank, "(", Digit>>
        result == parse(s)
    IN  /\ Term(s) = <<>>
        /\ Invalid(Term(s), result) = {<<>>}
        /\ \E l \in result.expected \cap Literals : ~Viable(Spelling(l))
==============================================================================
