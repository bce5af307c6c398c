------------------------------ MODULE LogViewer ------------------------------
(***************************************************************************)
(* The log viewer: the page with the controls of its user, the connection  *)
(* to the server, which is lost and made again, and the server that reads  *)
(* the log file (LogTail).  Commands and messages are received in order.   *)
(***************************************************************************)
EXTENDS LogTail, TailView

CONSTANTS
    Amounts,        \* what can be entered as amount, as a number of bytes
    ScrollBack,     \* the number of nodes an amount leaves in the view
    Scenarios       \* what the log file and the fields may contain when the page
                    \* is opened, and bounds: what may happen how often

ASSUME LogViewerAssumption ==
    /\ IsFiniteSet(Connections) /\ Connections # {}
    /\ Connections = 1..Cardinality(Connections)
    /\ Amounts \subseteq Nat \ {0}
    /\ ScrollBack \in [Amounts -> Nat \ {0}]
    /\ \A s \in Scenarios :
          /\ s.contents \subseteq Seq(Tokens)
          /\ s.greps \subseteq GrepTexts /\ s.amounts \subseteq Amounts
          /\ s.budget \in [{"load", "lose", "toggle", "grep", "amount", "write", "rotate"}
                              -> Nat]

VARIABLES
    tail,           \* the object Tail (TailView)
    grep, timer,    \* the filter's field, and whether its timer runs
    amount,         \* the field for the amount
    controls,       \* whether they are bound: pending, bound or never
    socket,         \* the state of the connection: connecting, open or lost
    connection,     \* the connection the page has made last
    up,             \* the commands on the way to the server on that connection
    budget,
    heard           \* history: the text since the view was last cleared and
                    \* the type of the log file known then

pageVars == <<tail, grep, timer, amount, controls, socket,
              connection, up, heard>>
vars == <<serverVars, pageVars, budget>>

Command == [mode : {TAIL, FOLLOW}, amount : Amounts] \cup {[mode |-> "stop"]}

NodeType == [kind : {"section", "request", "line", "info", "br"},
             lines : Seq(Seq(Tokens \cup {"file rotated", "file not found", "lost"})),
             shown : BOOLEAN]

TypeOK ==
    /\ files \in Seq(Seq(Tokens)) /\ exists \in BOOLEAN
    /\ jobs \in [Connections -> Seq([
          mode : {TAIL, FOLLOW}, bytesToTail : Amounts, stopped : BOOLEAN,
          pc : {"open", "locate", "check", "exists", "length", "read"},
          channel : 0..Len(files), position : Nat, totalBytesRead : Nat])]
    /\ closed \subseteq lost /\ lost \subseteq 1..connection
    /\ tail.filterExpression \in ({undefined} \cup GrepTexts) \ {"", "("}
    /\ tail.logType \in {undefined, ERROR_LOG, REQUEST_LOG}
    /\ tail.buffer \in Seq(Tokens \ {Newline})
    /\ tail.nodes \in Seq(NodeType)
    /\ tail.currentSection => SectionIndex(tail) # 0
    /\ grep \in GrepTexts /\ timer \in BOOLEAN /\ amount \in Amounts
    /\ controls \in {"pending", "bound", "never"}
    /\ socket \in {"connecting", "open", "lost"} /\ connection \in Connections
    /\ up \in Seq(Command)

Init ==
    /\ \E s \in Scenarios :
          /\ \E content \in s.contents : files = <<content>>
          /\ grep \in s.greps /\ amount \in s.amounts
          /\ budget = s.budget
    /\ exists = TRUE
    /\ jobs = [c \in Connections |-> <<>>]
    /\ lost = {} /\ closed = {}
    /\ down = [c \in Connections |-> <<>>]
    /\ timer = FALSE
    /\ tail = InitialTail(ScrollBack[amount])
    /\ controls = "pending" /\ socket = "connecting" /\ connection = 1 /\ up = <<>>
    /\ heard = [logType |-> undefined, text |-> <<>>]

\* What happens is within the bounds.
Spend(what) == budget[what] > 0 /\ budget' = [budget EXCEPT ![what] = @ - 1]

-----------------------------------------------------------------------------
(* The page *)

\* A socket that is not open discards what is sent, or throws an exception
\* that ends the handler, which had nothing more to do.
Sent(command) == IF socket = "open" THEN Append(up, command) ELSE up

tailSelectedLogFile == [mode |-> TAIL, amount |-> amount]
followSelectedLogFile == [mode |-> FOLLOW, amount |-> amount]
stopFollowing == [mode |-> "stop"]

\* updateFromRequestParameters: what the page's address asks for, if anything.
QueryCommand == {<<tailSelectedLogFile>>, <<>>}

Heard(t) == [logType |-> t.logType, text |-> <<>>]

\* onopen of the page's first socket binds the controls and fetches the
\* excerpt the parameters of the page's address ask for, if there are any.
FirstOpen ==
    /\ socket = "connecting" /\ controls = "pending"
    /\ socket' = "open" /\ controls' = "bound"
    /\ tail' = updateFilterExpressionFromUserInput(tail, grep)
    /\ up' \in QueryCommand
    /\ UNCHANGED <<serverVars, grep, timer, amount, connection, budget, heard>>

\* onopen of the sockets after the first.
Open ==
    /\ socket = "connecting" /\ controls # "pending"
    /\ socket' = "open"
    /\ tail' = Cleared(tail)
    /\ heard' = Heard(tail)
    /\ up' = <<tailSelectedLogFile>>
    /\ UNCHANGED <<serverVars, grep, timer, amount, controls, connection, budget>>

\* The connection ends, by itself or with the page; what is under way is lost.
Unload ==
    /\ up' = <<>> /\ down' = [down EXCEPT ![connection] = <<>>]
    /\ lost' = lost \cup {connection}

\* onclose.  A page whose first socket does not open never binds its controls.
Lose ==
    /\ Spend("lose")
    /\ socket # "lost" /\ connection + 1 \in Connections
    /\ socket' = "lost"
    /\ controls' = IF controls = "pending" THEN "never" ELSE controls
    /\ tail' = info(tail, "lost")
    /\ Unload
    /\ UNCHANGED <<files, exists, jobs, closed, grep, timer, amount, connection, heard>>

\* Two seconds later.
Reconnect ==
    /\ socket = "lost"
    /\ socket' = "connecting"
    /\ connection' = connection + 1
    /\ UNCHANGED <<serverVars, tail, grep, timer, amount, controls, up, heard, budget>>

\* onmessage.  Each message is decoded for itself.
Receive ==
    /\ socket = "open" /\ down[connection] # <<>>
    /\ down' = [down EXCEPT ![connection] = Tail(@)]
    /\ LET message == Head(down[connection])
       IN  IF message.type = "bytes" THEN
               /\ tail' = add(tail, message.data)
               /\ heard' = [heard EXCEPT !.text = @ \o message.data]
           ELSE tail' = info(tail, message.data[1]) /\ UNCHANGED heard
    /\ UNCHANGED <<files, exists, jobs, lost, closed, grep, timer, amount, controls,
                   socket, connection, up, budget>>

(* Slip: follow mode is turned off on the page only. *)
toggleWithoutStop ==
    /\ controls = "bound" /\ Spend("toggle")
    /\ IF tail.followMode
       THEN tail' = [tail EXCEPT !.followMode = FALSE] /\ UNCHANGED <<up, heard>>
       ELSE /\ tail' = [Cleared(tail) EXCEPT !.followMode = TRUE]
            /\ heard' = Heard(tail)
            /\ up' = Sent(followSelectedLogFile)
    /\ UNCHANGED <<serverVars, grep, timer, amount, controls, socket, connection>>

toggleFollowMode ==
    /\ controls = "bound" /\ Spend("toggle")
    /\ IF tail.followMode THEN
           /\ tail' = [tail EXCEPT !.followMode = FALSE]
           /\ up' = Sent(stopFollowing)
           /\ UNCHANGED heard
       ELSE
           /\ tail' = [Cleared(tail) EXCEPT !.followMode = TRUE]
           /\ heard' = Heard(tail)
           /\ up' = Sent(followSelectedLogFile)
    /\ UNCHANGED <<serverVars, grep, timer, amount, controls, socket, connection>>

EditGrep ==
    /\ controls = "bound" /\ Spend("grep")
    /\ grep' \in GrepTexts \ {grep}
    /\ timer' = TRUE
    /\ UNCHANGED <<serverVars, tail, amount, controls, socket, connection, up, heard>>

GrepTimer ==
    /\ timer /\ timer' = FALSE
    /\ tail' = updateFilterExpressionFromUserInput(tail, grep)
    /\ UNCHANGED <<serverVars, grep, amount, controls, socket, connection, up, heard, budget>>

\* updateScrollbackBufferSize: the nodes that are too many go with the next.
ChangeAmount ==
    /\ controls = "bound" /\ Spend("amount")
    /\ amount' \in Amounts \ {amount}
    /\ tail' = [tail EXCEPT !.scrollBackBuffer = ScrollBack[amount']]
    /\ UNCHANGED <<serverVars, grep, timer, controls, socket, connection, up, heard>>

\* Another page with the fields as its parameters; the socket is closed.
logfileParametersChanged ==
    /\ controls = "bound" /\ Spend("load") /\ connection + 1 \in Connections
    /\ connection' = connection + 1
    /\ socket' = "connecting" /\ controls' = "pending"
    /\ Unload
    /\ timer' = FALSE
    /\ tail' = InitialTail(ScrollBack[amount])
    /\ heard' = Heard(tail')
    /\ UNCHANGED <<files, exists, jobs, closed, grep, amount>>

-----------------------------------------------------------------------------
(* The server *)

ReceiveCommand ==
    /\ up # <<>>
    /\ onWebSocketText(connection, Head(up))
    /\ up' = Tail(up)
    /\ UNCHANGED <<lost, down, tail, grep, timer, amount, controls, socket, connection,
                   budget, heard>>

Server(c) == (Step(c) \/ onWebSocketClose(c)) /\ UNCHANGED <<pageVars, budget>>

Program ==
    /\ \/ Spend("write") /\ \E token \in Tokens : Write(token)
       \/ Spend("rotate") /\ RotateAway
       \/ Create /\ UNCHANGED budget
    /\ UNCHANGED pageVars

Next ==
    \/ FirstOpen
    \/ Open
    \/ Lose
    \/ Reconnect
    \/ Receive
    \/ toggleFollowMode
    \/ EditGrep
    \/ GrepTimer
    \/ ChangeAmount
    \/ logfileParametersChanged
    \/ ReceiveCommand
    \/ \E c \in Connections : Server(c)
    \/ Program

Fairness ==
    /\ WF_vars(ReceiveCommand)
    /\ \A c \in Connections : WF_vars(Server(c))

Spec == Init /\ [][Next]_vars /\ Fairness

-----------------------------------------------------------------------------
(* What the view should show of a text: its lines in order, and in an error *)
(* log the lines after the first of an entry that continue it with it.      *)
(* Which log it is was known before, or the first line that tells decides.  *)
TypeAt(before, lines, i) ==
    LET telling == {k \in 1..i : IsSectionStart(lines[k]) \/ IsRequest(lines[k])}
    IN  IF before # undefined THEN before
        ELSE IF telling = {} THEN undefined
        ELSE IF IsSectionStart(lines[Min(telling)]) THEN ERROR_LOG ELSE REQUEST_LOG

Opens(before, lines, h) ==
    IsSectionStart(lines[h]) /\ TypeAt(before, lines, h) = ERROR_LOG

\* The section that line h opens is still open at line i.
OpenSince(before, lines, h, i) ==
    Opens(before, lines, h) /\ \A k \in (h + 1)..i : Continues(lines[k])

Starts(before, lines) ==
    {i \in DOMAIN lines : \A h \in 1..(i - 1) : ~OpenSince(before, lines, h, i)}

Entry(before, lines, i) ==
    LET next == Min({j \in Starts(before, lines) \cup {Len(lines) + 1} : j > i})
    IN  [kind |-> IF Opens(before, lines, i) THEN "section"
                  ELSE IF IsRequest(lines[i]) /\ TypeAt(before, lines, i) = REQUEST_LOG
                  THEN "request" ELSE "line",
         lines |-> SubSeq(lines, i, next - 1)]

Entries(nodes) == {i \in DOMAIN nodes : nodes[i].kind \notin {"info", "br"}}

(* However the text is cut into messages, the view shows the last entries   *)
(* of what has been received since it was cleared, each with the lines that *)
(* belong to it, and all of them unless they are too many; the last line,   *)
(* not terminated, waits (add, script.js 161-281).                          *)
EntriesAreWhole ==
    LET lines == Front(Lines(heard.text))
        starts == Starts(heard.logType, lines)
        shown == Entries(tail.nodes)
        After(set, i) == Cardinality({j \in set : j > i})
    IN  /\ \A i \in shown : \E s \in starts :
              /\ After(shown, i) = After(starts, s)
              /\ tail.nodes[i].kind = Entry(heard.logType, lines, s).kind
              /\ tail.nodes[i].lines = Entry(heard.logType, lines, s).lines
        /\ Cardinality(shown) < Cardinality(starts) =>
              \E a \in Amounts : Len(tail.nodes) >= ScrollBack[a]
        /\ tail.buffer = Last(Lines(heard.text))

(* Once the field has been at rest the view is filtered by what it says:    *)
(* nothing that matches is hidden and what is shown matches, or did before  *)
(* lines were added to it - whatever came and went since the expression was *)
(* entered (script.js 191-197, 287-332).                                    *)
FilterRespected ==
    controls = "bound" /\ ~timer =>
        \A i \in DOMAIN tail.nodes :
            LET node == tail.nodes[i]
            IN  /\ grep = "" => node.shown
                /\ grep \notin {"", "("} /\ node.kind \notin {"info", "br"} =>
                      /\ Matches(grep, node.lines) => node.shown
                      /\ node.shown => \E n \in DOMAIN node.lines :
                                          Matches(grep, SubSeq(node.lines, 1, n))

(* The server follows a file for a page in follow mode only, or until the   *)
(* page's stop, or the end of its connection, gets to it: follow mode that  *)
(* is turned off, on whatever connection, leaves no one following           *)
(* (script.js 346-356, 435-449; TailSocket.java 58-62).                     *)
FollowOnlyOnDemand ==
    \A c \in Connections : \A i \in DOMAIN jobs[c] :
        jobs[c][i].mode = FOLLOW /\ ~jobs[c][i].stopped =>
            \/ c \in lost \ closed
            \/ c = connection /\ socket = "open"
               /\ (tail.followMode \/ stopFollowing \in ToSet(up))

(* A tail that was stopped, replaced or cut off ends, and so does one that  *)
(* only reads the end of the file, even where the file goes or is rotated   *)
(* while it is read: no command waits for ever for the thread of the        *)
(* connection's executor (TailSocket.java 118-132, Tail.java 82-156).       *)
Temporary(job) == job.stopped \/ job.mode = TAIL

EveryTailEnds ==
    \A c \in Connections :
        (\E i \in DOMAIN jobs[c] : Temporary(jobs[c][i]))
            ~> (\A i \in DOMAIN jobs[c] : ~Temporary(jobs[c][i]))

==============================================================================
