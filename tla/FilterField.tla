------------------------------ MODULE FilterField ------------------------------
(***************************************************************************)
(* The filter field of the model statistics console with its completion:   *)
(* the user edits the text, the autocomplete widget (jQuery UI, external)  *)
(* asks for suggestions, the user chooses one, which replaces the text.    *)
(*                                                                         *)
(* The widget asks some 300 ms after the last edit.  A step of the user is *)
(* all that is done to the text until then: an empty field gets any text   *)
(* whatever; one that is there is changed at its end, piece by piece.      *)
(* Other edits lead to the texts that are entered into the empty field;    *)
(* they may find another menu open, which matters to no text but those     *)
(* the widget gets no answer to.                                           *)
(***************************************************************************)
EXTENDS FilterParser

CONSTANTS
    Keys,           \* the pieces the user types
    MaxLength       \* bound on the length of the text

VARIABLES
    text,           \* filter.val()
    asked,          \* the text the widget has asked about last, its term
    menu            \* the suggestions of the open menu, {} when it is closed

vars == <<text, asked, menu>>

Literals == {"-", ")", "(", "entire(", "average(", "*", "/", "+", "<=", ">=", "<", ">",
             "==", "!=", "&&", "||"}
            \cup {numVars[i] : i \in DOMAIN numVars}

\* What has a description.
Described == Literals \cup {"a number", "a boolean", "end of input"}

TypeOK ==
    /\ Len(text) <= MaxLength /\ Len(asked) <= MaxLength
    /\ \A item \in menu :
          /\ item.label \in Described
          /\ Len(item.value) <= MaxLength + 2
          /\ item.label \in Literals => IsSuffix(Spelling(item.label), item.value)

Init == text = <<>> /\ asked = <<>> /\ menu = {}

-----------------------------------------------------------------------------
LeadingBlank(s) == s # <<>> /\ s[1] = Blank

\* A text that begins with a blank is taken for the empty one.
Term(s) == IF LeadingBlank(s) THEN <<>> ELSE s

Cut(term, error) == Min({error.at - 1, Len(term)})

\* What stands where the parser gave up, which is cut off at the position the
\* cursor has, although that is counted from the beginning of the text.
Invalid(term, error) ==
    LET cut == Cut(term, error)
    IN  {SubSeq(term, cut + 1, Min({cut + cursor, Len(term)})) : cursor \in 0..Len(term)}

(* Slip: what has no description is offered, too. *)
SuggestionsOfAll(term, invalidText, error) ==
    {[label |-> l, value |-> SubSeq(term, 1, Cut(term, error))] : l \in error.expected}

\* The suggestions for a rejected text: what was expected where the parser gave
\* up, or only what begins with the text found there, if anything does.
Suggestions(term, invalidText, error) ==
    LET validText == SubSeq(term, 1, Cut(term, error))
        Specific(l) == l \in Literals /\ IsPrefix(invalidText, Spelling(l))
        showSpecific == error.found /\ \E l \in error.expected : Specific(l)
        Value(l) == validText \o (IF l \in Literals THEN Spelling(l) ELSE <<>>)
    IN  {[label |-> l, value |-> Value(l)] :
            l \in {e \in error.expected : e # "" /\ (showSpecific => Specific(e))}}

\* The widget asks about the text s.  It does not about the empty one: the menu
\* closes.  To an error other than the parser's own it gets no answer, and what
\* is shown stays.
Search(s, shown) ==
    LET result == parse(s)
    IN  /\ asked' = s
        /\ IF s = <<>> THEN text' = <<>> /\ menu' = {}
           ELSE IF result.kind = "SyntaxError"
           THEN /\ text' = Term(s)
                /\ \E invalidText \in Invalid(Term(s), result) :
                       menu' = Suggestions(Term(s), invalidText, result)
           ELSE /\ text' = s
                /\ menu' = IF result.kind = "accepted" THEN {} ELSE shown

\* Whatever is typed or pasted into the field when nothing is in it or shown.
Enter(t) ==
    /\ text = <<>> /\ asked = <<>> /\ t # <<>>
    /\ Search(t, menu)

\* A piece is typed or pasted at the end.
Type(key) ==
    /\ Len(text) < MaxLength
    /\ Search(Append(text, key), menu)

\* The last piece is deleted.
Delete ==
    /\ text # <<>>
    /\ Search(Front(text), menu)

\* The item that is selected becomes the text and the menu closes, which asks
\* again if the text is not valid.  (An item that only has the focus becomes
\* the text, too, but leaves the menu open to choose another one.)
Choose(item) ==
    /\ Len(item.value) <= MaxLength
    /\ Search(item.value, {})

\* The escape key restores the text the widget has asked about and closes the
\* menu, which asks again.
Escape ==
    /\ menu # {}
    /\ Search(asked, {})

Next ==
    \/ \E t \in BoundedSeq(Keys, MaxLength) : Enter(t)
    \/ \E key \in Keys : Type(key)
    \/ Delete
    \/ \E item \in menu : Choose(item)
    \/ Escape

Spec == Init /\ [][Next]_vars

-----------------------------------------------------------------------------
(* The language, without regard to precedence and to blanks. *)

Strip(s) == SelectSeq(s, LAMBDA p : p # Blank)

IsRun(s, piece) == s # <<>> /\ \A i \in DOMAIN s : s[i] = piece

IsNumber(s) ==
    \/ IsRun(s, Digit)
    \/ \E i \in DOMAIN s :
          /\ s[i] = "."
          /\ i = 1 \/ IsRun(SubSeq(s, 1, i - 1), Digit)
          /\ IsRun(SubSeq(s, i + 1, Len(s)), Digit)

IsVariable(s) == \E i \in DOMAIN numVars : s = Spelling(numVars[i])

Inner(s) == SubSeq(s, 2, Len(s) - 1)

Operators == {Spelling(l) : l \in {"*", "/", "+", "-", "<=", ">=", "<", ">", "==", "!=", "&&", "||"}}

\* Operands, each with any number of minus signs before it, and operators
\* between them.
RECURSIVE Sentence(_)
Sentence(s) ==
    LET Atom(a) ==
            \/ IsNumber(a)
            \/ IsVariable(a)
            \/ a \in {<<"true">>, <<"false">>}
            \/ /\ Len(a) > 2 /\ Last(a) = ")"
               /\ \/ a[1] \in {"entire(", "average("} /\ IsVariable(Inner(a))
                  \/ a[1] = "(" /\ Sentence(Inner(a))
    IN  \/ Atom(s)
        \/ s # <<>> /\ Head(s) = "-" /\ Sentence(Tail(s))
        \/ \E i, j \in DOMAIN s :
              /\ i < j /\ SubSeq(s, i + 1, j) \in Operators
              /\ Atom(SubSeq(s, 1, i))
              /\ Sentence(SubSeq(s, j + 1, Len(s)))

\* The translation, back in the words of the filter and without its digits.
Untranslated(out) ==
    LET back == [i \in DOMAIN out |-> CASE out[i] = "entire." -> "of all("
                                        [] out[i] \in {"Sum", "Avg"} -> ")"
                                        [] OTHER -> out[i]]
    IN  SelectSeq(back, LAMBDA p : p \notin {"modelData.", Digit})

Words(s) ==
    SelectSeq([i \in DOMAIN s |-> IF s[i] \in {"entire(", "average("} THEN "of all(" ELSE s[i]],
              LAMBDA p : p \notin {Blank, Digit})

-----------------------------------------------------------------------------
(* For all their backtracking, ordered choice and right recursion the seven *)
(* levels of rules accept the texts one expects: without blanks exactly the *)
(* sentences, with blanks nothing but sentences, and the translation says   *)
(* what the text says (parser.js 307-1529).                                 *)
AcceptsTheLanguage ==
    LET result == parse(asked)
    IN  /\ Blank \notin Range(asked) => (result.kind = "accepted" <=> Sentence(asked))
        /\ result.kind = "accepted" =>
              Sentence(Strip(asked)) /\ Untranslated(result.out) = Words(asked)

\* The parser gets to the end of the text: it accepts it or misses only what
\* comes next.
Viable(s) ==
    LET result == parse(s) IN result.kind = "SyntaxError" => ~result.found

OnlyBlanks(s) == Range(s) \subseteq {Blank}

(* The completion leads somewhere and hides nothing: choosing what it       *)
(* offers gives a text that is not rejected before its end, and when the    *)
(* text is only incomplete, it offers every word that can come next.  So,   *)
(* too, if blanks were removed, but not if a text that begins with a blank  *)
(* and goes on was (script.js 362-416, peg$fail).                           *)
OfferedIffViable ==
    LET result == parse(asked)
        usual == asked # <<>> /\ (LeadingBlank(asked) => OnlyBlanks(asked))
    IN  usual /\ result.kind = "SyntaxError" =>
            /\ \A item \in menu : Viable(item.value)
            /\ ~result.found =>
                  \A l \in Literals :
                      l \in {item.label : item \in menu} \/ ~Viable(text \o Spelling(l))
==============================================================================
