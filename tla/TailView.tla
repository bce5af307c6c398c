------------------------------- MODULE TailView -------------------------------
(***************************************************************************)
(* The object Tail of the log viewer's page: the excerpt of a log file it  *)
(* shows, the remainder of a line not yet terminated, the section that is  *)
(* still open and the filter.  A text is a sequence of tokens, a line what *)
(* is between two newlines, and a node of the view one of                  *)
(*   "section"  an entry of an error log with the lines that belong to it, *)
(*   "request"  a line of a request log, "line" any other line,            *)
(*   "info"     a remark about the tail itself, "br" a break around it.    *)
(***************************************************************************)
EXTENDS Integers, SequencesExt

Newline == "newline"
Number == "1"               \* a text that begins with a digit
Marker == "*ERROR*"         \* and the other levels
Link == " [1] -> GET "      \* and the other methods, and [1] <- 200
Word == "x"                 \* a text that begins with a letter or a tab
Tokens == {Newline, Number, Marker, Link, Word}

undefined == "undefined"
ERROR_LOG == "ERROR_LOG"
REQUEST_LOG == "REQUEST_LOG"

Node(kind, lines) == [kind |-> kind, lines |-> lines, shown |-> TRUE]

(* Slip: clearing leaves the section open. *)
ClearedOnly(tail) == [tail EXCEPT !.nodes = <<>>, !.buffer = <<>>]

Cleared(tail) ==
    [tail EXCEPT !.nodes = <<>>, !.buffer = <<>>, !.currentSection = FALSE]

InitialTail(size) ==
    [filterExpression |-> undefined, scrollBackBuffer |-> size,
     logType |-> undefined, buffer |-> <<>>, currentSection |-> FALSE,
     followMode |-> FALSE, nodes |-> <<>>]

-----------------------------------------------------------------------------
(* The filter.  x$ is an expression that a longer text may no longer match. *)

GrepTexts == {"", "(", Word, Marker, "x$"}

Matches(expression, lines) ==
    LET textContent == FlattenSeq(lines)
    IN  IF expression = "x$" THEN textContent # <<>> /\ Last(textContent) = Word
        ELSE expression \in ToSet(textContent)

\* All nodes but texts have a style.
WithDisplay(node, display) ==
    IF node.kind = "info" THEN node ELSE [node EXCEPT !.shown = display]

showAllTailEntries(tail) ==
    [tail EXCEPT !.nodes =
        [i \in DOMAIN tail.nodes |-> WithDisplay(tail.nodes[i], TRUE)]]

(* Slip: what is hidden is not looked at again. *)
applyToVisibleOnly(tail) ==
    [tail EXCEPT !.nodes = [i \in DOMAIN tail.nodes |->
        WithDisplay(tail.nodes[i],
                    /\ tail.nodes[i].shown
                    /\ Matches(tail.filterExpression, tail.nodes[i].lines))]]

applyFilterExpression(tail) ==
    [tail EXCEPT !.nodes = [i \in DOMAIN tail.nodes |->
        WithDisplay(tail.nodes[i],
                    Matches(tail.filterExpression, tail.nodes[i].lines))]]

\* An invalid expression removes the filter and leaves what it has hidden.
updateFilterExpressionFromUserInput(tail, grep) ==
    IF grep = "" THEN
        showAllTailEntries([tail EXCEPT !.filterExpression = undefined])
    ELSE IF grep = "(" THEN [tail EXCEPT !.filterExpression = undefined]
    ELSE applyFilterExpression([tail EXCEPT !.filterExpression = grep])

-----------------------------------------------------------------------------
(* Adding to the view *)

info(tail, text) ==
    [tail EXCEPT !.nodes = @ \o << Node("br", <<>>), Node("info", <<<<text>>>>),
                                   Node("br", <<>>), Node("br", <<>>) >>]

addToTail(tail, node) ==
    LET shown == tail.filterExpression # undefined =>
                     Matches(tail.filterExpression, node.lines)
        nodes == Append(tail.nodes, WithDisplay(node, shown))
        first == IF Len(nodes) > tail.scrollBackBuffer
                 THEN Len(nodes) - tail.scrollBackBuffer + 1 ELSE 1
    IN  [tail EXCEPT !.nodes = SubSeq(nodes, first, Len(nodes))]

\* The open section is the last of the view: remarks may follow it, and
\* whatever else does has ended it.
SectionIndex(tail) ==
    SelectLastInSeq(tail.nodes, LAMBDA node : node.kind = "section")

\* A hidden section that now matches is shown.
addToSection(tail, line) ==
    LET i == SectionIndex(tail)
        lines == Append(tail.nodes[i].lines, line)
        shown == \/ tail.nodes[i].shown
                 \/ /\ tail.filterExpression # undefined
                    /\ Matches(tail.filterExpression, lines)
    IN  [tail EXCEPT !.nodes[i].lines = lines, !.nodes[i].shown = shown]

\* The first character is a tab or not a number; a blank or no character at
\* all, multiplied, is the number 0.
Continues(line) == line # <<>> /\ Head(line) \notin {Number, Link}

IsSectionStart(line) == Marker \in ToSet(line)

IsRequest(line) == Link \in ToSet(line)

addLine(tail, line) ==
    LET errors == tail.logType \in {ERROR_LOG, undefined}
        requests == tail.logType \in {REQUEST_LOG, undefined}
        ended == [tail EXCEPT !.currentSection = FALSE]
    IN  IF errors /\ tail.currentSection /\ Continues(line) THEN
            addToSection(tail, line)
        ELSE IF errors /\ IsSectionStart(line) THEN
            addToTail([tail EXCEPT !.logType = ERROR_LOG, !.currentSection = TRUE],
                      Node("section", <<line>>))
        ELSE IF requests /\ IsRequest(line) THEN
            addToTail([ended EXCEPT !.logType = REQUEST_LOG], Node("request", <<line>>))
        ELSE addToTail(ended, Node("line", <<line>>))

\* A newline begins a line, another token continues the last one.
withToken(lines, token) ==
    IF token = Newline THEN Append(lines, <<>>)
    ELSE [lines EXCEPT ![Len(lines)] = Append(@, token)]

Lines(text) == FoldLeft(withToken, << <<>> >>, text)

(* Slip: the remainder of the previous text is dropped. *)
addWithoutJoining(tail, text) ==
    LET lines == Lines(text)
    IN  [FoldLeft(addLine, tail, Front(lines)) EXCEPT !.buffer = Last(lines)]

add(tail, text) ==
    LET lines == Lines(tail.buffer \o text)
    IN  [FoldLeft(addLine, tail, Front(lines)) EXCEPT !.buffer = Last(lines)]

==============================================================================
